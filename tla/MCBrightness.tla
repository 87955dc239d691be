---------------------------- MODULE MCBrightness ----------------------------
(* Three levels below the top, a slider that goes past it, and the         *)
(* shortest delay that still outlasts the longest train.                   *)
EXTENDS Brightness
MCSliders == 1..4
=============================================================================
