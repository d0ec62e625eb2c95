CONSTANTS
  w1 = w1
  w2 = w2
  Workers = {w1, w2}
  MaxFrames = 1
  StreamMaxLen = 1
  ReadCount = 1
SPECIFICATION FairSpec
PROPERTIES OutageRepaired
