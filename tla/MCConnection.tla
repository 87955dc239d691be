---------------------------- MODULE MCConnection ----------------------------
(* Connection on small instances, with the peers interchangeable.          *)
EXTENDS Connection, TLC

PeerSymmetry == Permutations(Peers)
=============================================================================
