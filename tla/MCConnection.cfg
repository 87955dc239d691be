CONSTANTS
  Peers = {p1, p2, p3}
  NoPeer = NoPeer
  MaxPaired = 2
  Mtus = {23, 65}
SYMMETRY PeerSymmetry
SPECIFICATION Spec
INVARIANTS
  ConnInv
PROPERTIES
  LinkPromise
  WindowPromise
