------------------------------ MODULE MCScreens ------------------------------
(* A queue shorter than a swipe: press, slide and lift.                    *)
EXTENDS Screens
=============================================================================
