CONSTANTS
  u1 = u1
  u2 = u2
  s1 = s1
  c1 = c1
  c2 = c2
  w1 = w1
  w2 = w2
  Users = {u1, u2}
  TabUser = u1
  Stranger = u2
  Sessions = {s1}
  Streams = {c1}
  UserOf <- MCUserOf
  SessionOf <- MCSessionOf
  Writers = {w1, w2}
  QueueMax = 1
  MaxFrames = 2
  MaxEvents = 2
  InitialLogs = {0, 1}
  ScopeLimit = 1
  WireMax = 2
SPECIFICATION RSpec
INVARIANTS SilentLossesNamed
SYMMETRY Symmetry
