----------------------------- MODULE PanelProofs -----------------------------
(***************************************************************************)
(* Proofs about Panel, for every set of levels, every number of stripes    *)
(* and every wait that is long enough (PanelAssumption): the inductive     *)
(* invariant, and that writing, power and brightness agree.                *)
(***************************************************************************)
EXTENDS Panel, TLAPS

(* The whole of what is proved inductively.                                *)
WholeInv == PanelInv /\ BusAwake /\ LevelComesBack

(* After gc9a01_init nothing is under way (gc9a01.cpp:290-342).            *)
LEMMA InitInv == Init => WholeInv
  BY PanelAssumption, SMTT(30) DEF Init, WholeInv, PanelInv, TypeOK, BusAwake, LevelComesBack, Kept, Power, DrawnAwake, OnIsOn

(* What a refresh leaves to be drawn is no more than a screen.             *)
LEMMA DrawType ==
  ASSUME todo \in 0..Stripes, invalid \in BOOLEAN, Draw \/ NotDue
  PROVE  todo' \in 0..Stripes /\ invalid' \in BOOLEAN
<1>1. CASE invalid /\ todo' = Stripes /\ invalid' = FALSE
  <2>1. Stripes \in 0..Stripes
    BY PanelAssumption
  <2>2. FALSE \in BOOLEAN
    OBVIOUS
  <2> QED BY <1>1, <2>1, <2>2, Zenon
<1>2. CASE todo' \in 1..Stripes /\ UNCHANGED invalid
  <2>1. todo' \in 0..Stripes
    BY <1>2, PanelAssumption
  <2> QED BY <1>2, <2>1
<1>3. CASE NotDue
  BY <1>3 DEF NotDue
<1> QED BY <1>1, <1>2, <1>3, Zenon DEF Draw

(* Every step of the work queue, the flush thread and a button.            *)
LEMMA NextInv == WholeInv /\ [Next]_vars => WholeInv'
<1> SUFFICES ASSUME WholeInv, [Next]_vars PROVE WholeInv'
  OBVIOUS
<1> USE PanelAssumption
<1> USE DEF WholeInv, PanelInv, TypeOK, BusAwake, LevelComesBack, Kept, Power, Left,
            DrawnAwake, OnIsOn, level, drawing, glass
<1>1. CASE UNCHANGED vars
  BY <1>1 DEF vars
<1>2. CASE On
  BY <1>2 DEF On
<1>3. CASE OnResumed
  BY <1>3 DEF OnResumed
<1>4. CASE OnLight
  <2>1. todo' \in 0..Stripes /\ invalid' \in BOOLEAN
    BY <1>4, DrawType DEF OnLight
  <2> QED BY <1>4, <2>1 DEF OnLight
<1>5. CASE Render
  <2>1. todo' \in 0..Stripes /\ invalid' \in BOOLEAN
    BY <1>5, DrawType DEF Render
  <2> QED BY <1>5, <2>1 DEF Render
<1>6. CASE HandOver
  BY <1>6 DEF HandOver
<1>7. CASE HandlerEnds
  BY <1>7 DEF HandlerEnds
<1>8. CASE Sleep
  BY <1>8 DEF Sleep
<1>9. CASE SleepBlanks
  BY <1>9 DEF SleepBlanks
<1>10. CASE SleepSuspends
  BY <1>10 DEF SleepSuspends
<1>11. CASE SleepEnds
  BY <1>11 DEF SleepEnds
<1>12. CASE FlushFrame
  BY <1>12 DEF FlushFrame, Passes
<1>13. CASE FlushWrite
  BY <1>13 DEF FlushWrite, Passes
<1>14. CASE FlushEnds
  BY <1>14 DEF FlushEnds, Passes
<1>15. CASE WaitTick
  BY <1>15 DEF WaitTick, Passes
<1>16. ASSUME NEW v \in Levels, Ask(v) PROVE WholeInv'
  BY <1>16 DEF Ask
<1> QED BY <1>1, <1>2, <1>3, <1>4, <1>5, <1>6, <1>7, <1>8, <1>9, <1>10, <1>11, <1>12,
           <1>13, <1>14, <1>15, <1>16 DEF Next

(* The strengthened invariant holds.                                       *)
THEOREM WholeInvariant == Spec => []WholeInv
  BY InitInv, NextInv, PTL DEF Spec

(* The inductive invariant that MCPanel checks (display.cpp:113-145).      *)
THEOREM PanelInvariant == Spec => []PanelInv
<1>1. WholeInv => PanelInv
  BY DEF WholeInv
<1> QED BY <1>1, WholeInvariant, PTL

(* Nobody puts the bus to sleep under the other (gc9a01.cpp:360-368,       *)
(* 441-464).                                                               *)
THEOREM BusStaysAwake == Spec => []BusAwake
<1>1. WholeInv => BusAwake
  BY DEF WholeInv
<1> QED BY <1>1, WholeInvariant, PTL

(* No stripe goes to a panel that sleeps (display.cpp:135-139).            *)
THEOREM NeverDrawnAsleep == Spec => []DrawnAwake
<1>1. WholeInv => DrawnAwake
  BY DEF WholeInv, PanelInv, DrawnAwake
<1> QED BY <1>1, WholeInvariant, PTL

(* A display that is on is on as a whole (display.cpp:113-127).            *)
THEOREM OnAsAWhole == Spec => []OnIsOn
<1>1. WholeInv => OnIsOn
  BY DEF WholeInv, PanelInv, OnIsOn
<1> QED BY <1>1, WholeInvariant, PTL

(* The brightness of before the sleep comes back (display.cpp:124, 141).   *)
THEOREM LevelRestored == Spec => []LevelComesBack
<1>1. WholeInv => LevelComesBack
  BY DEF WholeInv
<1> QED BY <1>1, WholeInvariant, PTL
=============================================================================
