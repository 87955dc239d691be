------------------------------- MODULE MCTouch -------------------------------
(* Two points that differ in both coordinates, and a queue too short for   *)
(* the reports of one sample.                                              *)
EXTENDS Touch
MCPoints == {<<1, 1>>, <<2, 2>>}
MCNoPoint == <<0, 0>>
=============================================================================
