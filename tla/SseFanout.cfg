CONSTANTS
  w1 = w1
  w2 = w2
  Workers = {w1, w2}
  MaxFrames = 2
  StreamMaxLen = 1
  ReadCount = 1
SPECIFICATION Spec
INVARIANTS FanoutLossesNamed DeliveriesSound
SYMMETRY Symmetry
