CONSTANTS
  Peers = {p1, p2}
  NoPeer = NoPeer
  MaxPaired = 1
  Mtus = {23}
SPECIFICATION FairSpec
PROPERTIES
  ReachableAgain
  UnregisterErases
