--------------------------- MODULE PairingWindow ---------------------------
(***************************************************************************)
(* What auth.cpp and button 1 promise together: pairing is accepted during *)
(* a window.  Start-up closes it once.  A press decides from what it sees  *)
(* whether it opens or closes the window and takes effect once; an opening *)
(* press finds the window still closed, because nothing else ever opens    *)
(* it; a pairing that completes closes the window in the same step, one    *)
(* that fails leaves it as it is.  A restart begins anew.                  *)
(***************************************************************************)
VARIABLES
  window,     \* TRUE while bt::auth::pairable() answers TRUE
  decision,   \* what the press under way has decided: "none", "open", "close"
  pairing,    \* TRUE while the stack runs a pairing procedure
  started     \* TRUE once start-up has closed the window

vars == <<window, decision, pairing, started>>

Init == /\ window = FALSE
        /\ decision = "none"
        /\ pairing = FALSE
        /\ started = FALSE

Press == /\ decision = "none"
         /\ decision' = IF window THEN "close" ELSE "open"
         /\ UNCHANGED <<window, pairing, started>>

OpenWindow == /\ decision = "open"
              /\ ~window
              /\ window' = TRUE
              /\ decision' = "none"
              /\ UNCHANGED <<pairing, started>>

CloseWindow == /\ decision = "close"
               /\ window' = FALSE
               /\ decision' = "none"
               /\ UNCHANGED <<pairing, started>>

Start == /\ ~started
         /\ ~pairing
         /\ started' = TRUE
         /\ window' = FALSE
         /\ UNCHANGED <<decision, pairing>>

BeginPairing == /\ started
                /\ ~pairing
                /\ pairing' = TRUE
                /\ UNCHANGED <<window, decision, started>>

CompletePairing == /\ pairing
                   /\ pairing' = FALSE
                   /\ window' = FALSE
                   /\ UNCHANGED <<decision, started>>

FailPairing == /\ pairing
               /\ pairing' = FALSE
               /\ UNCHANGED <<window, decision, started>>

Restart == /\ window' = FALSE
           /\ decision' = "none"
           /\ pairing' = FALSE
           /\ started' = FALSE

Next == \/ Press
        \/ OpenWindow
        \/ CloseWindow
        \/ Start
        \/ BeginPairing
        \/ CompletePairing
        \/ FailPairing
        \/ Restart

Spec == Init /\ [][Next]_vars
=============================================================================
