------------------------------- MODULE MCPanel -------------------------------
(* Dark, half and full; a screen of two stripes, so that one is being      *)
(* written while the other is waited for; the shortest wait that is long   *)
(* enough.                                                                 *)
EXTENDS Panel
MCLevels == 0..2
=============================================================================
