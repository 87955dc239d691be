------------------------------ MODULE MCGc9a01 ------------------------------
(* Stripes as wide as the screen, which is what LVGL draws when all of it  *)
(* is invalid, and two of them, so that areas overlap and a frame can be   *)
(* wrong; two orientations.  Three failures: one that leaves the kernel    *)
(* and the panel at odds, one in the call that follows, and one more.      *)
EXTENDS Gc9a01
=============================================================================
