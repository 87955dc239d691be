CONSTANTS
  Points <- MCPoints
  NoPoint <- MCNoPoint
  QueueLen = 2
SPECIFICATION FairSpec
INVARIANTS
  TouchInv
  PointIsReal
  CaughtUp
  ActiveIsReady
PROPERTIES
  ReleaseSeen
