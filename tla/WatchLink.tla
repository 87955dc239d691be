----------------------------- MODULE WatchLink -----------------------------
(***************************************************************************)
(* What bt.cpp promises of its one connection, whatever happens to the     *)
(* radio, the buttons and the power.  A watch that has come up advertises, *)
(* serves one peer or is getting rid of one; a connection that ends gives  *)
(* way to advertising in the same step.  Only a peer with a bond stays, or *)
(* any while the pairing window is open; behind the filter nobody else is  *)
(* even heard.  A bond is made with the secured peer of the connection and *)
(* closes the window.  Bonds are given up only for a new one, or erased    *)
(* after the watch has stopped serving, which lasts until it restarts.     *)
(***************************************************************************)
CONSTANTS Peers, NoPeer

VARIABLES
  stage,    \* "starting", "serving", or "ending": stopped for a restart
  link,     \* "quiet", "advertising", "open", "closing"
  who,      \* the peer of the connection
  level,    \* its security: 1, and 2 once encrypted
  shown,    \* the icon shows a connection
  window,   \* pairing is accepted
  strict,   \* only bonded peers get through
  bonds     \* the peers the watch knows

vars == <<stage, link, who, level, shown, window, strict, bonds>>

HasPeer == link \in {"open", "closing"}

Init == /\ stage = "starting" /\ link = "quiet"
        /\ who = NoPeer /\ level = 1
        /\ ~shown /\ ~window /\ ~strict
        /\ bonds = {}

Advertise == /\ stage = "starting" /\ link = "quiet"
             /\ link' = "advertising"
             /\ strict' = (bonds # {})
             /\ UNCHANGED <<stage, who, level, shown, window, bonds>>

Serve == /\ stage = "starting"
         /\ stage' = "serving"
         /\ UNCHANGED <<link, who, level, shown, window, strict, bonds>>

(* A press, and start-up: the window moves and nothing else does.          *)
MoveWindow == /\ window' \in BOOLEAN
              /\ UNCHANGED <<stage, link, who, level, shown, strict, bonds>>

Meet(p) == /\ stage = "serving" /\ link = "advertising"
           /\ strict => p \in bonds
           /\ who' = p
           /\ UNCHANGED <<stage, level, window, strict, bonds>>

Admit(p) == /\ Meet(p)
            /\ window \/ p \in bonds
            /\ link' = "open"
            /\ shown' = TRUE

Refuse(p) == /\ Meet(p)
             /\ link' = "closing"
             /\ UNCHANGED shown

Secure == /\ stage = "serving" /\ HasPeer
          /\ level = 1
          /\ level' = 2
          /\ UNCHANGED <<stage, link, who, shown, window, strict, bonds>>

Bond == /\ stage = "serving" /\ HasPeer /\ level = 2
        /\ bonds' \subseteq bonds \cup {who} /\ who \in bonds'
        /\ who \in bonds \/ strict => bonds' = bonds
        /\ window' = FALSE
        /\ UNCHANGED <<stage, link, who, level, shown, strict>>

Drop == /\ stage = "serving" /\ HasPeer
        /\ link' = "closing"
        /\ UNCHANGED <<stage, who, level, shown, window, strict, bonds>>

End == /\ stage = "serving" /\ HasPeer
       /\ link' = "advertising"
       /\ who' = NoPeer /\ level' = 1
       /\ shown' = FALSE
       /\ UNCHANGED <<stage, window, strict, bonds>>

Stop == /\ stage = "serving"
        /\ stage' = "ending"
        /\ link' = IF HasPeer THEN link ELSE "quiet"
        /\ UNCHANGED <<who, level, shown, window, strict, bonds>>

Erase(p) == /\ stage = "ending" /\ p \in bonds
            /\ bonds' = bonds \ {p}
            /\ link' = IF who = p THEN "closing" ELSE link
            /\ UNCHANGED <<stage, who, level, shown, window, strict>>

Restart == /\ stage' = "starting" /\ link' = "quiet"
           /\ who' = NoPeer /\ level' = 1
           /\ shown' = FALSE /\ window' = FALSE /\ strict' = FALSE
           /\ UNCHANGED bonds

Next == \/ Advertise
        \/ Serve
        \/ MoveWindow
        \/ \E p \in Peers : Admit(p) \/ Refuse(p)
        \/ Secure
        \/ Bond
        \/ Drop
        \/ End
        \/ Stop
        \/ \E p \in Peers : Erase(p)
        \/ Restart

Spec == Init /\ [][Next]_vars
=============================================================================
