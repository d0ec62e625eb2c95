CONSTANTS
  u1 = u1
  u2 = u2
  s1 = s1
  s2 = s2
  c1 = c1
  c2 = c2
  Users = {u1, u2}
  Sessions = {s1, s2}
  Streams = {c1, c2}
  UserOf <- MCUserOf
  SessionOf <- MCSessionOf
  QueueMax = 2
  MaxFrames = 4
SPECIFICATION FairSpec
INVARIANTS QueuesSound NoFrameLost DeliveredInOrder
PROPERTIES RevokedStreamIsMute StreamsProgress
