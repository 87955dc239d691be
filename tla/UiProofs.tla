------------------------------- MODULE UiProofs -------------------------------
(***************************************************************************)
(* Proofs about what the user sees.  The clock (WatchTime), for every set  *)
(* of messages, every step of the clock and every value an unread number   *)
(* may hold: what a label says is the duration it was made from, the       *)
(* stopwatch and its laps are right, and the watchface shows the phone's   *)
(* time.  The screens (Screens), for a queue of any length: a touch does   *)
(* one thing at most, and the screen LVGL comes to rest on is the one the  *)
(* finger has swiped to.                                                   *)
(***************************************************************************)
EXTENDS WatchTime, Screens, SequenceTheorems, TLAPS

(* C's division leaves a remainder smaller than the divisor                *)
(* (ui_events.cpp:41-43).                                                  *)
LEMMA QuotRem ==
  ASSUME NEW n \in Int, NEW d \in {2, 100, 1000, 60000}
  PROVE  /\ Quot(n, d) \in Int
         /\ Rem(n, d) \in Int
         /\ n = d * Quot(n, d) + Rem(n, d)
         /\ -d < Rem(n, d) /\ Rem(n, d) < d
<1>1. CASE d = 2
  BY <1>1 DEF Quot, Rem
<1>2. CASE d = 100
  BY <1>2 DEF Quot, Rem
<1>3. CASE d = 1000
  BY <1>3 DEF Quot, Rem
<1>4. CASE d = 60000
  BY <1>4 DEF Quot, Rem
<1> QED BY <1>1, <1>2, <1>3, <1>4

(* The seconds left of a minute are fewer than sixty                       *)
(* (ui_events.cpp:42).                                                     *)
LEMMA SecondsFit ==
  ASSUME NEW n \in Int, -60000 < n, n < 60000
  PROVE  Quot(n, 1000) \in -59..59
  BY DEF Quot

(* Every duration makes a well-formed label, which reads as that duration  *)
(* (ui_events.cpp:41-48).                                                  *)
THEOREM SplitExact ==
  ASSUME NEW t \in Int
  PROVE  Split(t) \in Labels /\ Reading(Split(t)) = t
<1> DEFINE r == Rem(t, 60000)
           q == Quot(t, 60000)
           s == Quot(r, 1000)
           f == Rem(r, 1000)
<1>1. q \in Int /\ r \in Int /\ t = 60000 * q + r /\ -60000 < r /\ r < 60000
  BY QuotRem
<1> HIDE DEF q, r
<1>2. s \in Int /\ f \in Int /\ r = 1000 * s + f /\ -1000 < f /\ f < 1000
  BY <1>1, QuotRem
<1>3. s \in -59..59
  BY <1>1, SecondsFit
<1>4. Split(t) = [minutes |-> q, seconds |-> s, milliseconds |-> f]
  BY DEF Split, q, r
<1> HIDE DEF s, f
<1>5. f \in -999..999
  BY <1>2
<1>6. Split(t) \in Labels
  BY <1>1, <1>3, <1>4, <1>5 DEF Labels
<1>7. Reading(Split(t)) = 60000 * q + 1000 * s + f
  BY <1>4 DEF Reading
<1> QED BY <1>1, <1>2, <1>6, <1>7

(* A zone's number fits the two digits of TZ: it is the hours to the west, *)
(* and the remainder takes nothing away (st_parse.cpp:43-44).              *)
LEMMA ZoneTextIs ==
  ASSUME NEW half \in -24..28
  PROVE  /\ ZoneText(half) \in Int
         /\ ZoneText(half) = -Hours(half)
         /\ \/ 2 * Hours(half) = half
            \/ half % 2 = 1 /\ (2 * Hours(half) = half - 1 \/ 2 * Hours(half) = half + 1)
<1>1. /\ Hours(half) \in -12..14
      /\ \/ 2 * Hours(half) = half
         \/ half % 2 = 1 /\ (2 * Hours(half) = half - 1 \/ 2 * Hours(half) = half + 1)
  BY DEF Hours, Quot
<1>2. \A h \in -12..14 : Rem(-h, 100) = -h
  BY DEF Rem, Quot
<1> QED BY <1>1, <1>2 DEF ZoneText

(* A number of hours that was not read has two digits too                  *)
(* (st_parse.cpp:44).                                                      *)
LEMMA UnreadFits ==
  ASSUME NEW g \in Int
  PROVE  ZoneUnread(g) \in Int
  BY QuotRem DEF ZoneUnread

LEMMA InitInv == Init => TimeInv
<1> SUFFICES ASSUME Init PROVE TimeInv
  OBVIOUS
<1>1. Split(0) \in Labels
  BY SplitExact
<1>2. sync = [full |-> FALSE, secs |-> 0, half |-> 0, at |-> 0]
      => sync \in [full : BOOLEAN, secs : Int, half : -24..28, at : Nat]
  OBVIOUS
<1>3. stopwatch_started \in BOOLEAN /\ ~stopwatch_started /\ ~sync.full
  BY DEF Init
<1> QED BY <1>1, <1>2, <1>3, UnitAssumption DEF Init, TimeInv, TypeOK, LapsAddUp

(* A move of the clock that is noted as one keeps both sums.               *)
LEMMA ClockMoves ==
  ASSUME TimeInv, base' \in Int, moved' \in Int, base' - moved' = base - moved,
         UNCHANGED <<up, stopwatch_started, stopwatch_start_time, stopwatch_lap_time,
                     began, lapped>>
  PROVE  /\ stopwatch_started' => stopwatch_start_time' = began' + base' - moved'
         /\ LapsAddUp'
<1> DEFINE next == base'
           total == moved'
<1>1. next \in Int /\ total \in Int /\ next - total = base - moved
  OBVIOUS
<1> HIDE DEF next, total
<1>2. /\ up \in Int /\ began \in Int /\ lapped \in Int /\ base \in Int /\ moved \in Int
      /\ stopwatch_start_time \in Int /\ stopwatch_lap_time \in Int
  BY UnitAssumption DEF TimeInv, TypeOK
<1>3. stopwatch_started
        => /\ stopwatch_start_time = began + base - moved
           /\ lapped + ((base + up) - stopwatch_lap_time) = up - began + moved
  BY Zenon DEF TimeInv, LapsAddUp, Now
<1>4. stopwatch_started
        => /\ stopwatch_start_time = began + next - total
           /\ lapped + ((next + up) - stopwatch_lap_time) = up - began + total
  BY <1>1, <1>2, <1>3
<1>5. stopwatch_started
        => /\ stopwatch_start_time = began + base' - moved'
           /\ lapped + ((base' + up) - stopwatch_lap_time) = up - began + moved'
  BY <1>4, Zenon DEF next, total
<1> QED BY <1>5, Zenon DEF LapsAddUp, Now

(* Only a message moves the clock, and only a start and a lap the laps.    *)
LEMMA NextInv == TimeInv /\ [Next]_vars => TimeInv'
<1> SUFFICES ASSUME TimeInv, [Next]_vars PROVE TimeInv'
  OBVIOUS
<1> USE MessageAssumption, UnitAssumption
<1> USE DEF TimeInv, TypeOK, LapsAddUp, Now
<1>1. CASE UNCHANGED vars
  BY <1>1 DEF vars, clock, stopwatch, labels
<1>2. ASSUME NEW m \in Messages, SetTime(m) PROVE TimeInv'
  <2>1. m.secs \in Int /\ m.half \in -24..28
    OBVIOUS
  <2>2. PICK secs \in IF m.kind = "late" THEN Garbage ELSE {m.secs} :
          /\ SetClock(secs)
          /\ sync' = [full |-> m.kind = "full", secs |-> secs, half |-> m.half, at |-> up]
    BY <1>2 DEF SetTime
  <2>3. secs \in Int
    BY <2>1, <2>2
  <2>4. base' \in Int /\ moved' \in Int /\ base' = 1000 * secs - up
        /\ base' - moved' = base - moved
    BY <2>2, <2>3 DEF SetClock
  <2>5. ZoneText(m.half) \in Int
    BY <2>1, ZoneTextIs
  <2>6. zone' \in Int
    <3>1. zone \in Int /\ Garbage \subseteq Int
      OBVIOUS
    <3>2. \/ zone' = zone
          \/ \E g \in Garbage : zone' = ZoneUnread(g)
          \/ zone' = ZoneText(m.half)
      BY <1>2, Zenon DEF SetTime
    <3> QED BY <2>5, <3>1, <3>2, UnreadFits
  <2>7. sync' \in [full : BOOLEAN, secs : Int, half : -24..28, at : Nat]
    BY <2>1, <2>2, <2>3
  <2>8. sync'.full => base' = 1000 * sync'.secs - sync'.at /\ zone' = ZoneText(sync'.half)
    <3>1. sync'.full = (m.kind = "full") /\ sync'.secs = secs /\ sync'.at = up
          /\ sync'.half = m.half
      BY <2>2
    <3>2. m.kind = "full" => zone' = ZoneText(m.half)
      BY <1>2 DEF SetTime
    <3>3. m.kind = "full" => base' = 1000 * sync'.secs - sync'.at /\ zone' = ZoneText(sync'.half)
      <4>1. 1000 * sync'.secs - sync'.at = base'
        BY <2>4, <3>1
      <4>2. ZoneText(sync'.half) = ZoneText(m.half)
        BY <3>1, Zenon
      <4> QED BY <3>2, <4>1, <4>2, Zenon
    <3> QED BY <3>1, <3>3, Zenon
  <2>9. UNCHANGED <<up, stopwatch_started, stopwatch_start_time, stopwatch_lap_time,
                    began, ui_time, ui_lap, lapped, face>>
    BY <1>2 DEF SetTime, stopwatch, labels
  <2>10. TypeOK'
    <3>1. task' \in {"idle", "handler", "aborted"}
      BY <1>2 DEF SetTime
    <3> QED BY <2>4, <2>6, <2>7, <2>9, <3>1
  <2>11. /\ stopwatch_started' => stopwatch_start_time' = began' + base' - moved'
         /\ LapsAddUp'
    BY <2>4, <2>9, ClockMoves
  <2> QED BY <2>8, <2>10, <2>11, Zenon
<1>3. ASSUME NEW m \in Messages, SetTimeGarbled(m) PROVE TimeInv'
  BY <1>3 DEF SetTimeGarbled, vars, clock, stopwatch, labels
<1>4. CASE Render
  <2>1. Split(base + up - stopwatch_start_time) \in Labels
    BY SplitExact
  <2>2. ui_time' \in Labels
    BY <1>4, <2>1 DEF Render
  <2>3. face' \in Int
    BY <1>4 DEF Render, LocalSeconds
  <2> QED BY <1>4, <2>2, <2>3 DEF Render, clock, stopwatch
<1>5. CASE RenderEnds
  BY <1>5 DEF RenderEnds, clock, stopwatch, labels
<1>6. CASE Start
  <2>1. Split(0) \in Labels
    BY SplitExact
  <2> QED BY <1>6, <2>1 DEF Start, clock
<1>7. CASE Stop
  <2>1. Split(base + up - stopwatch_start_time) \in Labels
    BY SplitExact
  <2>2. ui_time' \in Labels
    BY <1>7, <2>1 DEF Stop
  <2>3. stopwatch_started' \in BOOLEAN /\ ~stopwatch_started'
    BY <1>7 DEF Stop
  <2> QED BY <1>7, <2>2, <2>3 DEF Stop, clock
<1>8. CASE Lap
  <2> DEFINE t == base + up - stopwatch_lap_time
  <2>1. Split(t) \in Labels /\ Reading(Split(t)) = t
    BY SplitExact
  <2>2. ui_lap' = Split(t) /\ lapped' = lapped + t /\ stopwatch_lap_time' = base + up
    BY <1>8, <2>1 DEF Lap
  <2>3. /\ ui_lap' \in Labels
        /\ UNCHANGED <<up, base, zone, sync, task, stopwatch_started, stopwatch_start_time,
                       began, moved, ui_time, face>>
    BY <1>8, <2>1, <2>2 DEF Lap, clock
  <2>4. /\ stopwatch_lap_time' \in Int /\ lapped' \in Int
        /\ stopwatch_started => lapped' + (base + up - stopwatch_lap_time') = up - began + moved
    <3>1. t \in Int /\ stopwatch_lap_time + t = base + up
      OBVIOUS
    <3> HIDE DEF t
    <3> QED BY <2>2, <3>1
  <2>5. TypeOK'
    BY <2>3, <2>4
  <2>6. LapsAddUp'
    BY <2>2, <2>3, <2>4
  <2>7. stopwatch_started' => stopwatch_start_time' = began' + base' - moved'
    BY <2>3
  <2>8. sync'.full => base' = 1000 * sync'.secs - sync'.at /\ zone' = ZoneText(sync'.half)
    BY <2>3, ZenonT(30)
  <2> QED BY <2>5, <2>6, <2>7, <2>8, Zenon
<1>9. ASSUME NEW d \in Steps, Tick(d) PROVE TimeInv'
  BY <1>9 DEF Tick, clock, stopwatch, labels
<1>10. CASE Restart
  <2>1. Split(0) \in Labels
    BY SplitExact
  <2>2. ui_time' \in Labels /\ ui_lap' \in Labels
    BY <1>10, <2>1, Zenon DEF Restart
  <2>3. stopwatch_started' \in BOOLEAN /\ ~stopwatch_started'
    BY <1>10, Zenon DEF Restart
  <2>4. sync' \in [full : BOOLEAN, secs : Int, half : -24..28, at : Nat] /\ ~sync'.full
    BY <1>10 DEF Restart
  <2>5. /\ up' \in 0..MaxUp /\ base' \in Int /\ zone' \in Int
        /\ task' \in {"idle", "handler", "aborted"}
        /\ stopwatch_start_time' \in Int /\ stopwatch_lap_time' \in Int
        /\ face' \in Int /\ began' \in Nat /\ moved' \in Int /\ lapped' \in Int
    BY <1>10 DEF Restart
  <2>6. TypeOK'
    BY <2>2, <2>3, <2>4, <2>5, Zenon
  <2> QED BY <2>3, <2>4, <2>6, Zenon
<1> QED BY <1>1, <1>2, <1>3, <1>4, <1>5, <1>6, <1>7, <1>8, <1>9, <1>10 DEF Next

(* The inductive invariant holds (st_parse.cpp, ui_events.cpp:28-80).      *)
THEOREM TimeInvariant == Spec => []TimeInv
  BY InitInv, NextInv, PTL DEF Spec

(* Laps add up, whenever a message moves the clock (ui_events.cpp:65-79).  *)
THEOREM LapsAreWhole == Spec => []LapsAddUp
<1>1. TimeInv => LapsAddUp
  BY DEF TimeInv
<1> QED BY <1>1, TimeInvariant, PTL

(* Who writes the label of the stopwatch: a restart, or a render or a stop *)
(* of one that runs.                                                       *)
LEMMA LabelStep ==
  ASSUME TimeInv, [Next]_vars, ui_time' # ui_time
  PROVE  \/ Restart
         \/ /\ stopwatch_started
            /\ ui_time' = Split(Now - stopwatch_start_time)
            /\ UNCHANGED <<up, began, moved>>
<1>1. Restart \/ Render \/ Stop
  BY DEF Next, vars, labels, SetTime, SetTimeGarbled, RenderEnds, Start, Lap, Tick
<1>2. CASE Render
  BY <1>2 DEF Render, stopwatch
<1>3. CASE Stop
  BY <1>3 DEF Stop
<1> QED BY <1>1, <1>2, <1>3, Zenon

(* The stopwatch shows the time since its start, off by what messages      *)
(* moved the clock (ui_events.cpp:40-48, display.cpp:190-201).             *)
THEOREM StopwatchIsRight == Spec => StopwatchRight
<1>1. TimeInv /\ [Next]_vars
      => [ui_time' # ui_time => Reading(ui_time') = up' - began' + moved']_vars
  <2> SUFFICES ASSUME TimeInv, [Next]_vars, ui_time' # ui_time
               PROVE  Reading(ui_time') = up' - began' + moved'
    OBVIOUS
  <2>1. CASE Restart
    <3>1. Reading(Split(0)) = 0
      BY SplitExact
    <3> QED BY <2>1, <3>1 DEF Restart
  <2>2. CASE /\ stopwatch_started
             /\ ui_time' = Split(Now - stopwatch_start_time)
             /\ UNCHANGED <<up, began, moved>>
    <3>1. Now - stopwatch_start_time \in Int
      BY DEF Now, TimeInv, TypeOK
    <3>2. Reading(ui_time') = Now - stopwatch_start_time
      BY <2>2, <3>1, SplitExact
    <3>3. Now - stopwatch_start_time = up - began + moved
      BY <2>2 DEF Now, TimeInv, TypeOK
    <3> QED BY <2>2, <3>2, <3>3
  <2> QED BY <2>1, <2>2, LabelStep, Zenon
<1> QED BY <1>1, TimeInvariant, PTL DEF Spec, StopwatchRight

(* The watchface shows the phone's time, to a half hour of its zone        *)
(* (st_parse.cpp:38-46).                                                   *)
THEOREM FaceIsRight == Spec => FaceRight
<1> DEFINE Drawn == task = "idle" /\ task' = "handler" /\ sync.full
           Off == face' - PhoneSeconds
           Right == Off = 0 \/ (sync.half % 2 = 1 /\ Off \in {-1800, 1800})
<1>1. TimeInv /\ [Next]_vars => [Drawn => Right]_vars
  <2> SUFFICES ASSUME TimeInv, [Next]_vars, Drawn PROVE Right
    OBVIOUS
  <2>1. Render
    BY DEF Next, vars, SetTime, SetTimeGarbled, Restart, RenderEnds, Start, Stop, Lap, Tick
  <2>2. sync.secs \in Int /\ sync.half \in -24..28 /\ sync.at \in Nat /\ up \in Int
    BY UnitAssumption DEF TimeInv, TypeOK
  <2>3. (base + up) \div 1000 = sync.secs + ((up - sync.at) \div 1000)
    BY <2>2 DEF TimeInv
  <2>4. zone = -Hours(sync.half)
    BY <2>2, ZoneTextIs DEF TimeInv
  <2> DEFINE h == Hours(sync.half)
             elapsed == (up - sync.at) \div 1000
             read == (base + up) \div 1000
  <2>5. face' = read - 3600 * zone /\ PhoneSeconds = sync.secs + elapsed + 1800 * sync.half
    BY <2>1 DEF Render, LocalSeconds, Now, PhoneSeconds
  <2>6. /\ h \in Int
        /\ \/ 2 * h = sync.half
           \/ sync.half % 2 = 1 /\ (2 * h = sync.half - 1 \/ 2 * h = sync.half + 1)
    <3>1. h \in Int
      BY <2>2 DEF Hours, Quot
    <3> QED BY <2>2, <3>1, ZoneTextIs
  <2>7. elapsed \in Int
    BY <2>2
  <2>8. read = sync.secs + elapsed /\ zone = -h
    BY <2>3, <2>4
  <2> HIDE DEF h, elapsed, read
  <2>9. Off = 3600 * h - 1800 * sync.half
    BY <2>2, <2>5, <2>6, <2>7, <2>8
  <2> HIDE DEF Off
  <2> QED BY <2>2, <2>6, <2>9
<1> QED BY <1>1, TimeInvariant, PTL DEF Spec, FaceRight

-----------------------------------------------------------------------------
(* Which screen shows (Screens).                                           *)

(* While a widget is pressed: only the slider's press moves the slider,    *)
(* and a press that LVGL does not wait out has done nothing else yet.      *)
Undecided == /\ act_obj = "slider" => done \in {<<>>, <<"level">>}
             /\ act_obj \notin {"slider", NoObject} /\ wait = "no" => done = <<>>

(* The screen LVGL is on its way to, and where a touch's first move leads. *)
Pending == PositionOf(IF scr_to_load = NoScreen THEN act_scr ELSE scr_to_load)
Resting == prev_scr = NoScreen /\ scr_to_load \in {NoScreen, act_scr}
Outcome(scr, p, q) == IF p[1] = "widgets" /\ PositionOf(scr) # 1
                      THEN PositionOf(scr) ELSE Moved(PositionOf(scr), Dir(p, q))

(* A touch that began while LVGL was at rest, and lost no sample.  What is *)
(* in the queue is its own, the lifting last; it is not yet pressed, or    *)
(* pressed but its first move not yet read, or its gesture has been sent,  *)
(* or it is over.                                                          *)
LiftedLast == \A i \in 1..Len(queue) : queue[i] = Away => i = Len(queue) /\ finger = Away
Unread == /\ act_obj = NoObject /\ wait = "no" /\ Resting
          /\ queue # <<>> /\ queue[1] # Away
          /\ IF swiped
             THEN /\ Len(queue) >= 2 /\ queue[2] \in Places /\ queue[2] # queue[1]
                  /\ expected = Outcome(act_scr, queue[1], queue[2])
             ELSE /\ expected = PositionOf(act_scr)
                  /\ \/ Len(queue) = 1 /\ finger = queue[1]
                     \/ Len(queue) = 2 /\ finger = Away /\ queue[2] = Away
Pressed == /\ act_obj = ObjectAt(act_scr, last) /\ sent = "no" /\ wait = "no" /\ Resting
           /\ IF swiped
              THEN /\ queue # <<>> /\ queue[1] \in Places /\ queue[1] # last
                   /\ expected = Outcome(act_scr, last, queue[1])
              ELSE /\ expected = PositionOf(act_scr)
                   /\ \/ queue = <<>> /\ finger = last
                      \/ Len(queue) = 1 /\ queue[1] = Away /\ finger = Away
Answered == act_obj # NoObject /\ sent = "yes" /\ swiped /\ expected = Pending
Lifted == act_obj = NoObject /\ queue = <<>> /\ finger = Away /\ expected = Pending
Followed == ~astray => LiftedLast /\ (Unread \/ Pressed \/ Answered \/ Lifted)

-----------------------------------------------------------------------------
(* What is known of the tables of objects and answers.                     *)

LEMMA PlaceFacts ==
  /\ \A p \in Places : /\ p = <<p[1], p[2]>>
                       /\ p[1] \in {"widgets", "bare"} /\ p[2] \in {1, 2}
                       /\ p # Away
  /\ <<"bare", 1>> \in Places
  BY DEF Places, Away

(* What lies under a point is an object of the screen it is looked up on   *)
(* (ui_watchface.c, ui_settings.c, ui_stopwatch.c).                        *)
LEMMA ObjectFacts ==
  ASSUME NEW scr \in Shown, NEW p \in Places
  PROVE  ObjectAt(scr, p) \in Objects /\ ObjectAt(scr, p) # NoObject
<1>1. p[1] \in {"widgets", "bare"} /\ p[2] \in {1, 2}
  BY PlaceFacts
<1>2. CASE p[1] = "bare"
  BY <1>2 DEF ObjectAt, WatchfaceAt, SettingsAt, StopwatchAt, Objects, Shown, NoObject
<1>3. CASE p[1] = "widgets"
  BY <1>1, <1>3 DEF ObjectAt, WatchfaceAt, SettingsAt, StopwatchAt, Objects, Shown, NoObject
<1> QED BY <1>1, <1>2, <1>3

(* A screen's answer to a swipe is another screen, and the slider and the  *)
(* colour wheel have none (ui.c:57-95, ui_watchface.c:61).                 *)
LEMMA AskedFacts ==
  ASSUME NEW o \in Objects, NEW dir
  PROVE  /\ Asked(GestureObject(o), dir) \in Shown \cup {NoScreen}
         /\ o \in KeepGestures => Asked(GestureObject(o), dir) = NoScreen
  BY DEF Asked, GestureObject, KeepGestures, ScreenOf, Objects, Shown, NoScreen,
         UiEventWatchface, UiEventSettings, UiEventStopwatch

(* A move is a gesture, sideways or not.                                   *)
LEMMA DirFacts ==
  ASSUME NEW p \in Places, NEW q \in Places
  PROVE  /\ Dir(p, q) \in {"none", "vertical", "left", "right"}
         /\ Dir(p, q) = "none" <=> p = q
<1>1. CASE p = q
  <2>1. p[1] = q[1] /\ ~(p[2] < q[2])
    BY <1>1, PlaceFacts
  <2> QED BY <1>1, <2>1 DEF Dir
<1>2. CASE p # q
  <2>1. p[2] \in Int /\ q[2] \in Int
    BY PlaceFacts
  <2>2. CASE p[1] # q[1]
    BY <1>2, <2>2 DEF Dir
  <2>3. CASE p[1] = q[1] /\ p[2] < q[2]
    BY <1>2, <2>3 DEF Dir
  <2>4. CASE p[1] = q[1] /\ ~(p[2] < q[2])
    BY <1>2, <2>4 DEF Dir
  <2> QED BY <2>1, <2>2, <2>3, <2>4
<1> QED BY <1>1, <1>2

LEMMA AskedIs ==
  ASSUME NEW dir
  PROVE  /\ Asked(GestureObject("watchface"), dir) = UiEventWatchface(dir)
         /\ Asked(GestureObject("settings"), dir) = UiEventSettings(dir)
         /\ \A o \in {"stopwatch", "start", "stop"} :
              Asked(GestureObject(o), dir) = UiEventStopwatch(dir)
         /\ \A o \in {"slider", "wheel"} : Asked(GestureObject(o), dir) = NoScreen
  BY DEF Asked, GestureObject, KeepGestures, ScreenOf

LEMMA UiEventsAre ==
  /\ UiEventWatchface("right") = "settings" /\ UiEventWatchface("left") = "stopwatch"
  /\ UiEventSettings("right") = NoScreen /\ UiEventSettings("left") = "watchface"
  /\ UiEventStopwatch("right") = "watchface" /\ UiEventStopwatch("left") = NoScreen
  /\ \A dir \in {"none", "vertical"} : /\ UiEventWatchface(dir) = NoScreen
                                      /\ UiEventSettings(dir) = NoScreen
                                      /\ UiEventStopwatch(dir) = NoScreen
  BY DEF UiEventWatchface, UiEventSettings, UiEventStopwatch, NoScreen

LEMMA PositionFacts ==
  /\ PositionOf("settings") = -1 /\ PositionOf("watchface") = 0 /\ PositionOf("stopwatch") = 1
  BY DEF PositionOf

LEMMA MovedFacts ==
  ASSUME NEW pos \in -1..1
  PROVE  /\ Moved(pos, "none") = pos /\ Moved(pos, "vertical") = pos
         /\ Moved(pos, "left") = (IF pos < 1 THEN pos + 1 ELSE pos)
         /\ Moved(pos, "right") = (IF pos > -1 THEN pos - 1 ELSE pos)
  BY DEF Moved

(* The first move of a touch leads where the answer to it goes             *)
(* (ui.c:57-95): to another screen, or nowhere.                            *)
LEMMA AnswerIsOutcome ==
  ASSUME NEW scr \in Shown, NEW p \in Places, NEW q \in Places,
         NEW target, target = Asked(GestureObject(ObjectAt(scr, p)), Dir(p, q))
  PROVE  /\ target # scr
         /\ target = NoScreen => Outcome(scr, p, q) = PositionOf(scr)
         /\ target # NoScreen => Outcome(scr, p, q) = PositionOf(target)
<1> DEFINE dir == Dir(p, q)
<1>1. dir \in {"none", "vertical", "left", "right"}
  BY DirFacts
<1>2. p[1] \in {"widgets", "bare"} /\ p[2] \in {1, 2}
  BY PlaceFacts
<1>3. /\ target = Asked(GestureObject(ObjectAt(scr, p)), dir)
      /\ Outcome(scr, p, q) = IF p[1] = "widgets" /\ PositionOf(scr) # 1
                              THEN PositionOf(scr) ELSE Moved(PositionOf(scr), dir)
  BY DEF Outcome
<1> HIDE DEF dir
<1>4. NoScreen \notin Shown
  BY DEF NoScreen, Shown
<1>5. \A pos \in -1..1 : /\ Moved(pos, "none") = pos /\ Moved(pos, "vertical") = pos
                         /\ Moved(pos, "left") = (IF pos < 1 THEN pos + 1 ELSE pos)
                         /\ Moved(pos, "right") = (IF pos > -1 THEN pos - 1 ELSE pos)
  BY MovedFacts
<1>6. CASE scr = "watchface"
  <2>1. ObjectAt(scr, p) = IF p[1] = "bare" THEN "watchface" ELSE "slider"
    BY <1>6 DEF ObjectAt, WatchfaceAt
  <2>2. PositionOf(scr) = 0
    BY <1>6, PositionFacts
  <2>3. CASE p[1] = "bare"
    <3>1. target = UiEventWatchface(dir) /\ Outcome(scr, p, q) = Moved(0, dir)
      BY <1>3, <2>1, <2>2, <2>3, AskedIs
    <3> QED BY <1>1, <1>4, <1>5, <1>6, <2>2, <3>1, UiEventsAre, PositionFacts DEF Shown
  <2>4. CASE p[1] = "widgets"
    BY <1>3, <1>4, <1>6, <2>1, <2>2, <2>4, AskedIs DEF Shown
  <2> QED BY <1>2, <2>3, <2>4
<1>7. CASE scr = "settings"
  <2>1. ObjectAt(scr, p) = IF p[1] = "bare" THEN "settings" ELSE "wheel"
    BY <1>7 DEF ObjectAt, SettingsAt
  <2>2. PositionOf(scr) = -1
    BY <1>7, PositionFacts
  <2>3. CASE p[1] = "bare"
    <3>1. target = UiEventSettings(dir) /\ Outcome(scr, p, q) = Moved(-1, dir)
      BY <1>3, <2>1, <2>2, <2>3, AskedIs
    <3> QED BY <1>1, <1>4, <1>5, <1>7, <2>2, <3>1, UiEventsAre, PositionFacts DEF Shown
  <2>4. CASE p[1] = "widgets"
    BY <1>3, <1>4, <1>7, <2>1, <2>2, <2>4, AskedIs DEF Shown
  <2> QED BY <1>2, <2>3, <2>4
<1>8. CASE scr = "stopwatch"
  <2>1. ObjectAt(scr, p) \in {"stopwatch", "start", "stop"}
    BY <1>2, <1>8 DEF ObjectAt, StopwatchAt
  <2>2. target = UiEventStopwatch(dir)
    BY <1>3, <2>1, AskedIs
  <2>3. PositionOf(scr) = 1 /\ Outcome(scr, p, q) = Moved(1, dir)
    BY <1>3, <1>8, PositionFacts
  <2> QED BY <1>1, <1>4, <1>5, <1>8, <2>2, <2>3, UiEventsAre, PositionFacts DEF Shown
<1> QED BY <1>6, <1>7, <1>8 DEF Shown

-----------------------------------------------------------------------------
(* ScreensInv and Undecided are inductive.                                 *)
DoneType == Seq({"screen", "level", "click"})

LEMMA DoneFacts ==
  /\ <<>> \in DoneType /\ <<"level">> \in DoneType
  /\ \A d \in DoneType : \A a \in {"screen", "level", "click"} : Append(d, a) \in DoneType
  /\ \A a : Append(<<>>, a) = <<a>>
  BY DEF DoneType

(* ui_event_brightness_slider's part of a step.                            *)
LEMMA SliderFacts ==
  ASSUME level \in {1, 2}, NEW o, NEW p \in Places, NEW before \in DoneType,
         SliderAt(o, p, before)
  PROVE  /\ level' \in {1, 2} /\ done' \in DoneType
         /\ o # "slider" => done' = before
         /\ before \in {<<>>, <<"level">>} => done' \in {<<>>, <<"level">>}
<1>1. p[2] \in {1, 2}
  BY PlaceFacts
<1> QED BY <1>1, DoneFacts DEF SliderAt

(* A sample is taken from the queue.                                       *)
LEMMA TakeFacts ==
  ASSUME ScreensTypeOK, Len(queue) <= QueueLen, Take
  PROVE  /\ queue \in Seq(Places \cup {Away}) /\ queue # <<>>
         /\ Head(queue) = queue[1] /\ Head(queue) \in Places \cup {Away}
         /\ queue' = Tail(queue) /\ queue' \in Seq(Places \cup {Away})
         /\ Len(queue') = Len(queue) - 1 /\ Len(queue') <= QueueLen /\ Len(queue) \in Nat
         /\ \A i \in 1..Len(queue') : queue'[i] = queue[i + 1]
         /\ looping' \in {"yes", "no"} /\ last' \in Places
         /\ last' = (IF Head(queue) = Away THEN last ELSE Head(queue))
         /\ looping = "yes" \/ prev_scr = NoScreen
         /\ UNCHANGED fingerVars
<1>1. queue \in Seq(Places \cup {Away}) /\ queue # <<>> /\ queue' = Tail(queue) /\ last \in Places
  BY DEF ScreensTypeOK, Take
<1>2. /\ Tail(queue) \in Seq(Places \cup {Away})
      /\ Len(Tail(queue)) = Len(queue) - 1
      /\ \A i \in 1..Len(Tail(queue)) : Tail(queue)[i] = queue[i + 1]
      /\ Head(queue) \in Places \cup {Away}
  BY <1>1, HeadTailProperties
<1>3. Head(queue) = queue[1] /\ Len(queue) \in Nat
  BY <1>1
<1> QED BY <1>1, <1>2, <1>3, QueueAssumption DEF Take

(* A sample is put into it, or lost.                                       *)
LEMMA PutFacts ==
  ASSUME ScreensTypeOK, Len(queue) <= QueueLen, NEW p \in Places \cup {Away}, Put(p)
  PROVE  /\ queue' \in Seq(Places \cup {Away}) /\ Len(queue') <= QueueLen
         /\ Full => queue' = queue
         /\ ~Full => /\ Len(queue') = Len(queue) + 1 /\ queue' # <<>>
                     /\ queue'[Len(queue) + 1] = p
                     /\ \A i \in 1..Len(queue) : queue'[i] = queue[i]
<1>1. queue \in Seq(Places \cup {Away}) /\ Len(queue) \in Nat
  BY DEF ScreensTypeOK
<1>2. CASE Full
  BY <1>1, <1>2, QueueAssumption DEF Put, Full
<1>3. CASE ~Full
  <2>1. queue' = Append(queue, p) /\ Len(queue) < QueueLen
    BY <1>1, <1>3, QueueAssumption DEF Put, Full
  <2> QED BY <1>1, <1>3, <2>1, QueueAssumption
<1> QED BY <1>2, <1>3

(* _ui_screen_change (ui_helpers.c): the screens stay screens, and none is *)
(* loaded at once unless another was waiting for its animation.            *)
LEMMA ChangeFacts ==
  ASSUME act_scr \in Shown, scr_to_load \in Shown \cup {NoScreen}, NEW target \in Shown,
         UiScreenChange(target)
  PROVE  /\ act_scr' \in Shown /\ scr_to_load' \in Shown \cup {NoScreen}
         /\ UNCHANGED prev_scr
         /\ scr_to_load = act_scr => scr_to_load' = target /\ act_scr' = act_scr
  BY DEF UiScreenChange, Shown, NoScreen

InductiveInv == ScreensInv /\ Undecided /\ OneThing

LEMMA InductiveInit == ScreensInit => InductiveInv
<1> SUFFICES ASSUME ScreensInit PROVE InductiveInv
  OBVIOUS
<1>1. ScreensTypeOK
  <2>1. <<>> \in Seq(Places \cup {Away}) /\ <<>> \in Seq({"screen", "level", "click"})
    OBVIOUS
  <2>2. finger \in Places \cup {Away} /\ last \in Places /\ queue = <<>> /\ done = <<>>
    BY PlaceFacts DEF ScreensInit
  <2>3. /\ looping \in {"yes", "no"} /\ sent \in {"yes", "no"} /\ wait \in {"yes", "no"}
        /\ act_obj \in Objects \cup {NoObject} /\ level \in {1, 2}
        /\ swiped \in BOOLEAN /\ astray \in BOOLEAN
    BY DEF ScreensInit
  <2>5. expected \in -1..1
    BY DEF ScreensInit
  <2>4. act_scr \in Shown /\ scr_to_load \in Shown \cup {NoScreen} /\ prev_scr \in Shown \cup {NoScreen}
    BY DEF ScreensInit, Shown
  <2> QED BY <2>1, <2>2, <2>3, <2>4, <2>5 DEF ScreensTypeOK
<1>2. Len(<<>>) <= QueueLen
  BY QueueAssumption
<1> QED BY <1>1, <1>2 DEF ScreensInit, InductiveInv, ScreensInv, Undecided, OneThing, NoObject, NoScreen

(* The finger.                                                             *)
LEMMA FingerInv ==
  ASSUME InductiveInv, NEW p \in Places \cup {Away}, Put(p), finger' = p,
         swiped' \in BOOLEAN, astray' \in BOOLEAN, expected' \in -1..1,
         UNCHANGED <<looping, pointerVars, screenVars>>
  PROVE  InductiveInv'
<1>1. ScreensTypeOK /\ Len(queue) <= QueueLen
  BY DEF InductiveInv, ScreensInv
<1>2. queue' \in Seq(Places \cup {Away}) /\ Len(queue') <= QueueLen
  BY <1>1, PutFacts
<1>3. ScreensTypeOK'
  BY <1>1, <1>2 DEF ScreensTypeOK, pointerVars, screenVars
<1> QED BY <1>2, <1>3 DEF InductiveInv, ScreensInv, Undecided, OneThing, pointerVars, screenVars

LEMMA ExpectedFacts ==
  ASSUME ScreensTypeOK
  PROVE  /\ PositionOf(act_scr) \in -1..1
         /\ \A dir \in {"none", "vertical", "left", "right"} : Moved(expected, dir) \in -1..1
<1>1. act_scr \in Shown /\ expected \in -1..1
  BY DEF ScreensTypeOK
<1> QED BY <1>1, PositionFacts, MovedFacts DEF Shown

LEMMA InductiveNext == InductiveInv /\ [ScreensNext]_screensVars => InductiveInv'
<1> SUFFICES ASSUME InductiveInv, [ScreensNext]_screensVars PROVE InductiveInv'
  OBVIOUS
<1>typed. ScreensTypeOK /\ Len(queue) <= QueueLen
  BY DEF InductiveInv, ScreensInv
<1>1. CASE UNCHANGED screensVars
  BY <1>1 DEF screensVars, fingerVars, pointerVars, screenVars, InductiveInv, ScreensInv, ScreensTypeOK, Undecided, OneThing
<1>2. ASSUME NEW p \in Places, Touch(p) PROVE InductiveInv'
  <2>1. expected' \in -1..1 /\ swiped' \in BOOLEAN /\ astray' \in BOOLEAN
    BY <1>typed, <1>2, ExpectedFacts DEF Touch, ScreensTypeOK
  <2> QED BY <1>2, <2>1, FingerInv DEF Touch
<1>3. ASSUME NEW p \in Places, Slide(p) PROVE InductiveInv'
  <2>1. finger \in Places
    BY <1>typed, <1>3 DEF Slide, ScreensTypeOK
  <2>2. Moved(expected, Dir(finger, p)) \in -1..1
    BY <1>typed, <2>1, DirFacts, ExpectedFacts
  <2>3. expected' \in -1..1 /\ swiped' \in BOOLEAN
    BY <1>typed, <1>3, <2>2 DEF Slide, ScreensTypeOK
  <2>4. astray' \in BOOLEAN
    BY <1>typed, <1>3 DEF Slide, ScreensTypeOK
  <2> QED BY <1>3, <2>3, <2>4, FingerInv DEF Slide
<1>4. CASE Lift
  <2>1. expected' \in -1..1 /\ swiped' \in BOOLEAN /\ astray' \in BOOLEAN
    BY <1>typed, <1>4 DEF Lift, ScreensTypeOK
  <2> QED BY <1>4, <2>1, FingerInv DEF Lift
<1>taken. ASSUME Take
          PROVE  /\ queue' \in Seq(Places \cup {Away}) /\ Len(queue') <= QueueLen
                 /\ looping' \in {"yes", "no"} /\ last' \in Places
                 /\ Head(queue) \in Places \cup {Away}
                 /\ finger' \in Places \cup {Away} /\ swiped' \in BOOLEAN /\ astray' \in BOOLEAN
                 /\ expected' \in -1..1
                 /\ prev_scr = NoScreen
  <2>1. prev_scr = NoScreen
    BY <1>taken, <1>typed, TakeFacts DEF InductiveInv, ScreensInv
  <2> QED BY <1>taken, <1>typed, <2>1, TakeFacts DEF ScreensTypeOK, fingerVars
<1>rest. act_scr \in Shown /\ scr_to_load \in Shown \cup {NoScreen} /\ done \in DoneType /\ level \in {1, 2}
  BY <1>typed DEF ScreensTypeOK, DoneType
<1>5. CASE Press
  <2> DEFINE o == ObjectAt(act_scr, Head(queue))
  <2>1. Head(queue) \in Places
    BY <1>5, <1>taken DEF Press
  <2>2. o \in Objects /\ o # NoObject
    BY <1>rest, <2>1, ObjectFacts
  <2>3. level' \in {1, 2} /\ done' \in DoneType /\ (o # "slider" => done' = <<>>)
        /\ done' \in {<<>>, <<"level">>}
    BY <1>5, <1>rest, <2>1, SliderFacts, DoneFacts DEF Press
  <2>4. /\ act_obj' = o /\ sent' = "no" /\ wait' = "no"
        /\ UNCHANGED <<act_scr, scr_to_load, prev_scr>>
    BY <1>5 DEF Press, screenVars
  <2>5. ScreensTypeOK'
    BY <1>5, <1>taken, <1>typed, <2>2, <2>3, <2>4 DEF Press, ScreensTypeOK, DoneType
  <2> HIDE DEF o
  <2> QED BY <1>5, <1>taken, <2>3, <2>4, <2>5 DEF Press, InductiveInv, ScreensInv, Undecided, OneThing
<1>6. CASE Hold
  <2>1. Head(queue) \in Places /\ act_obj # NoObject /\ wait = "no"
    BY <1>6, <1>taken DEF Hold
  <2>2. level' \in {1, 2} /\ done' \in DoneType /\ (act_obj # "slider" => done' = done)
        /\ (done \in {<<>>, <<"level">>} => done' \in {<<>>, <<"level">>})
    BY <1>6, <1>rest, <2>1, SliderFacts DEF Hold
  <2>3. UNCHANGED <<act_obj, sent, wait, act_scr, scr_to_load, prev_scr>>
    BY <1>6 DEF Hold, screenVars
  <2>4. ScreensTypeOK'
    BY <1>6, <1>taken, <1>typed, <2>2, <2>3 DEF Hold, ScreensTypeOK, DoneType
  <2> QED BY <1>6, <1>taken, <2>1, <2>2, <2>3, <2>4 DEF Hold, InductiveInv, ScreensInv, Undecided, OneThing
<1>7. CASE Gesture
  <2> DEFINE target == Asked(GestureObject(act_obj), Dir(last, Head(queue)))
  <2>1. Head(queue) \in Places /\ act_obj \in Objects /\ wait = "no" /\ sent' = "yes"
        /\ act_obj # NoObject /\ act_obj' = act_obj
    BY <1>7, <1>taken, <1>typed DEF Gesture, ScreensTypeOK
  <2>2. target \in Shown \cup {NoScreen} /\ (act_obj \in {"slider", "wheel"} => target = NoScreen)
    BY <2>1, AskedFacts DEF KeepGestures
  <2>3. CASE target # NoScreen
    <3>1. Answer(target)
      BY <1>7, <2>3 DEF Gesture
    <3>2. act_scr' \in Shown /\ scr_to_load' \in Shown \cup {NoScreen} /\ UNCHANGED prev_scr
      BY <1>rest, <2>2, <2>3, <3>1, ChangeFacts DEF Answer
    <3>3. done' \in DoneType /\ level' = level /\ wait' = "yes"
      BY <1>rest, <3>1, DoneFacts DEF Answer
    <3>4. ScreensTypeOK'
      BY <1>7, <1>taken, <1>typed, <2>1, <3>2, <3>3 DEF Gesture, ScreensTypeOK, DoneType
    <3>5. act_obj \notin {"slider", "wheel"}
      BY <2>2, <2>3
    <3>6. done' = <<"screen">>
      <4>1. done = <<>> /\ done' = Append(done, "screen")
        BY <2>1, <3>1, <3>5 DEF Answer, InductiveInv, Undecided
      <4> QED BY <4>1, DoneFacts
    <3> HIDE DEF target
    <3> QED BY <1>taken, <1>7, <2>1, <3>2, <3>3, <3>4, <3>5, <3>6 DEF Gesture, InductiveInv, ScreensInv, Undecided, OneThing
  <2>4. CASE target = NoScreen
    <3>1. SliderAt(act_obj, Head(queue), done) /\ UNCHANGED <<wait, act_scr, scr_to_load, prev_scr>>
      BY <1>7, <2>4 DEF Gesture, screenVars
    <3>2. level' \in {1, 2} /\ done' \in DoneType /\ (act_obj # "slider" => done' = done)
          /\ (done \in {<<>>, <<"level">>} => done' \in {<<>>, <<"level">>})
      BY <1>rest, <2>1, <3>1, SliderFacts
    <3>3. ScreensTypeOK'
      BY <1>7, <1>taken, <1>typed, <2>1, <3>1, <3>2 DEF Gesture, ScreensTypeOK, DoneType
    <3> QED BY <1>7, <1>taken, <2>1, <3>1, <3>2, <3>3 DEF Gesture, InductiveInv, ScreensInv, Undecided, OneThing
  <2> QED BY <2>3, <2>4
<1>8. CASE Ignore
  <2>1. ScreensTypeOK'
    BY <1>8, <1>taken, <1>typed DEF Ignore, ScreensTypeOK, screenVars
  <2> QED BY <1>8, <1>taken, <2>1 DEF Ignore, screenVars, InductiveInv, ScreensInv, Undecided, OneThing
<1>9. CASE Release
  <2>1. done' \in DoneType
    BY <1>9, <1>rest, DoneFacts DEF Release
  <2>2. ScreensTypeOK'
    BY <1>9, <1>taken, <1>typed, <2>1 DEF Release, ScreensTypeOK, screenVars, DoneType
  <2>3. OneThing'
    <3>1. CASE wait = "no" /\ act_obj \in {"start", "stop"}
      <4>1. done = <<>> /\ done' = Append(done, "click")
        BY <1>9, <3>1 DEF Release, InductiveInv, Undecided, NoObject
      <4> QED BY <4>1, DoneFacts DEF OneThing
    <3>2. CASE ~(wait = "no" /\ act_obj \in {"start", "stop"})
      BY <1>9, <3>2 DEF Release, InductiveInv, OneThing
    <3> QED BY <3>1, <3>2
  <2> QED BY <1>9, <1>taken, <2>2, <2>3 DEF Release, screenVars, InductiveInv, ScreensInv, Undecided, NoObject
<1>10. CASE AnimationStarts
  <2>1. ScreensTypeOK'
    BY <1>10, <1>typed DEF AnimationStarts, ScreensTypeOK, fingerVars, pointerVars, NoScreen
  <2> QED BY <1>10, <2>1
          DEF AnimationStarts, fingerVars, pointerVars, InductiveInv, ScreensInv, Undecided, OneThing
<1>11. CASE AnimationEnds
  <2>1. ScreensTypeOK'
    BY <1>11, <1>typed DEF AnimationEnds, ScreensTypeOK, fingerVars, pointerVars, NoScreen
  <2> QED BY <1>11, <2>1
          DEF AnimationEnds, fingerVars, pointerVars, InductiveInv, ScreensInv, Undecided, OneThing
<1> QED BY <1>1, <1>2, <1>3, <1>4, <1>5, <1>6, <1>7, <1>8, <1>9, <1>10, <1>11 DEF ScreensNext

-----------------------------------------------------------------------------
(* Followed is preserved as well.                                          *)

(* A new touch.                                                            *)
LEMMA TouchFollowed ==
  ASSUME InductiveInv, NEW p \in Places, Touch(p)
  PROVE  Followed'
<1> SUFFICES ASSUME ~astray' PROVE Followed'
  BY DEF Followed
<1>1. ScreensTypeOK /\ Len(queue) <= QueueLen
  BY DEF InductiveInv, ScreensInv
<1>2. Calm /\ queue = <<>> /\ act_obj = NoObject /\ wait = "no" /\ Resting
  BY DEF Touch, Calm, Resting
<1>3. ~Full /\ Len(queue) = 0
  BY <1>2, QueueAssumption DEF Full
<1>4. Put(p) /\ finger' = p /\ swiped' = FALSE /\ expected' = PositionOf(act_scr)
      /\ UNCHANGED <<act_obj, wait, act_scr, scr_to_load, prev_scr>>
  BY <1>2 DEF Touch, pointerVars, screenVars
<1>5. Len(queue') = 1 /\ queue' # <<>> /\ queue'[1] = p
  BY <1>1, <1>3, <1>4, PutFacts
<1>6. p # Away
  BY PlaceFacts
<1>7. LiftedLast'
  BY <1>5, <1>6 DEF LiftedLast
<1>8. Unread'
  BY <1>2, <1>4, <1>5, <1>6 DEF Unread, Resting
<1> QED BY <1>7, <1>8 DEF Followed

(* A move of the finger: a touch's first one leads to what AnswerIsOutcome *)
(* says, whether the press has been read or not.                           *)
LEMMA SlideFollowed ==
  ASSUME InductiveInv, Followed, NEW p \in Places, Slide(p)
  PROVE  Followed'
<1> SUFFICES ASSUME ~astray' PROVE Followed'
  BY DEF Followed
<1>1. ScreensTypeOK /\ Len(queue) <= QueueLen
  BY DEF InductiveInv, ScreensInv
<1>2. ~astray /\ ~Full /\ LiftedLast
  BY DEF Slide, Followed
<1>3. /\ Put(p) /\ finger # Away /\ finger # p /\ finger' = p /\ swiped' = TRUE
      /\ expected' = IF swiped \/ (finger[1] = "widgets" /\ expected # 1)
                     THEN expected ELSE Moved(expected, Dir(finger, p))
      /\ UNCHANGED <<act_obj, wait, sent, last, act_scr, scr_to_load, prev_scr>>
  BY DEF Slide, pointerVars, screenVars
<1>4. /\ Len(queue') = Len(queue) + 1 /\ queue' # <<>> /\ queue'[Len(queue) + 1] = p
      /\ \A i \in 1..Len(queue) : queue'[i] = queue[i]
      /\ Len(queue) \in Nat /\ queue \in Seq(Places \cup {Away})
  BY <1>1, <1>2, <1>3, PutFacts DEF ScreensTypeOK
<1>5. p # Away
  BY PlaceFacts
<1>6. LiftedLast'
  BY <1>2, <1>3, <1>4, <1>5 DEF LiftedLast
<1>7. CASE Unread
  <2>1. Len(queue) >= 1 /\ queue'[1] = queue[1]
    BY <1>4, <1>7 DEF Unread
  <2>2. CASE swiped
    <3>1. Len(queue) >= 2 /\ queue'[2] = queue[2] /\ expected' = expected
      BY <1>3, <1>4, <1>7, <2>2 DEF Unread
    <3> QED BY <1>3, <1>4, <1>6, <1>7, <2>1, <2>2, <3>1 DEF Unread, Resting, Followed
  <2>3. CASE ~swiped
    <3>1. Len(queue) = 1 /\ finger = queue[1] /\ expected = PositionOf(act_scr)
      BY <1>3, <1>7, <2>3 DEF Unread
    <3>2. queue'[2] = p /\ Len(queue') = 2
      BY <1>4, <3>1
    <3>3. expected' = Outcome(act_scr, queue[1], p)
      BY <1>3, <2>3, <3>1 DEF Outcome
    <3> QED BY <1>3, <1>4, <1>6, <1>7, <2>1, <3>1, <3>2, <3>3 DEF Unread, Resting, Followed
  <2> QED BY <2>2, <2>3
<1>8. CASE Pressed
  <2>1. CASE swiped
    <3>1. queue # <<>> /\ expected' = expected
      BY <1>3, <1>8, <2>1 DEF Pressed
    <3>2. queue'[1] = queue[1]
      BY <1>4, <3>1
    <3> QED BY <1>3, <1>4, <1>6, <1>8, <2>1, <3>1, <3>2 DEF Pressed, Resting, Followed
  <2>2. CASE ~swiped
    <3>1. queue = <<>> /\ finger = last /\ expected = PositionOf(act_scr)
      BY <1>3, <1>8, <2>2 DEF Pressed
    <3>2. queue'[1] = p
      BY <1>4, <3>1
    <3>3. expected' = Outcome(act_scr, last, p)
      BY <1>3, <2>2, <3>1 DEF Outcome
    <3> QED BY <1>3, <1>4, <1>6, <1>8, <3>1, <3>2, <3>3 DEF Pressed, Resting, Followed
  <2> QED BY <2>1, <2>2
<1>9. CASE Answered
  BY <1>3, <1>6, <1>9 DEF Answered, Pending, Followed
<1>10. CASE Lifted
  BY <1>3, <1>10 DEF Lifted
<1> QED BY <1>2, <1>7, <1>8, <1>9, <1>10 DEF Followed

(* The finger is lifted.                                                   *)
LEMMA LiftFollowed ==
  ASSUME InductiveInv, Followed, Lift
  PROVE  Followed'
<1> SUFFICES ASSUME ~astray' PROVE Followed'
  BY DEF Followed
<1>1. ScreensTypeOK /\ Len(queue) <= QueueLen
  BY DEF InductiveInv, ScreensInv
<1>2. ~astray /\ ~Full /\ LiftedLast
  BY DEF Lift, Followed
<1>3. /\ Put(Away) /\ finger # Away /\ finger' = Away
      /\ UNCHANGED <<swiped, expected, act_obj, wait, sent, last, act_scr, scr_to_load, prev_scr>>
  BY DEF Lift, pointerVars, screenVars
<1>4. /\ Len(queue') = Len(queue) + 1 /\ queue' # <<>> /\ queue'[Len(queue) + 1] = Away
      /\ \A i \in 1..Len(queue) : queue'[i] = queue[i]
      /\ Len(queue) \in Nat /\ queue \in Seq(Places \cup {Away})
  BY <1>1, <1>2, <1>3, PutFacts DEF ScreensTypeOK
<1>6. LiftedLast'
  BY <1>2, <1>3, <1>4 DEF LiftedLast
<1>7. CASE Unread
  <2>1. Len(queue) >= 1 /\ queue'[1] = queue[1]
    BY <1>4, <1>7 DEF Unread
  <2>2. CASE swiped
    <3>1. Len(queue) >= 2 /\ queue'[2] = queue[2]
      BY <1>4, <1>7, <2>2 DEF Unread
    <3> QED BY <1>3, <1>4, <1>6, <1>7, <2>1, <2>2, <3>1 DEF Unread, Resting, Followed
  <2>3. CASE ~swiped
    <3>1. Len(queue) = 1
      BY <1>3, <1>7, <2>3 DEF Unread
    <3>2. queue'[2] = Away /\ Len(queue') = 2
      BY <1>4, <3>1
    <3> QED BY <1>3, <1>4, <1>6, <1>7, <2>1, <2>3, <3>1, <3>2 DEF Unread, Resting, Followed
  <2> QED BY <2>2, <2>3
<1>8. CASE Pressed
  <2>1. CASE swiped
    <3>1. queue # <<>>
      BY <1>8, <2>1 DEF Pressed
    <3>2. queue'[1] = queue[1]
      BY <1>4, <3>1
    <3> QED BY <1>3, <1>4, <1>6, <1>8, <2>1, <3>1, <3>2 DEF Pressed, Resting, Followed
  <2>2. CASE ~swiped
    <3>1. queue = <<>>
      BY <1>3, <1>8, <2>2 DEF Pressed
    <3>2. queue'[1] = Away /\ Len(queue') = 1
      BY <1>4, <3>1
    <3> QED BY <1>3, <1>4, <1>6, <1>8, <2>2, <3>1, <3>2 DEF Pressed, Resting, Followed
  <2> QED BY <2>1, <2>2
<1>9. CASE Answered
  BY <1>3, <1>6, <1>9 DEF Answered, Pending, Followed
<1>10. CASE Lifted
  BY <1>3, <1>10 DEF Lifted
<1> QED BY <1>2, <1>7, <1>8, <1>9, <1>10 DEF Followed

(* What every sample LVGL takes has in common.                             *)
LEMMA TakenFollowed ==
  ASSUME InductiveInv, Followed, Take, ~astray'
  PROVE  /\ Unread \/ Pressed \/ Answered \/ Lifted
         /\ LiftedLast /\ LiftedLast'
         /\ Head(queue) = queue[1] /\ queue # <<>> /\ prev_scr = NoScreen /\ last \in Places
         /\ Len(queue) \in Nat /\ Len(queue) >= 1 /\ Len(queue') = Len(queue) - 1
         /\ queue[1] \in Places \cup {Away}
         /\ Len(queue) = 1 => queue' = <<>>
         /\ Len(queue) >= 2 => queue' # <<>> /\ queue'[1] = queue[2]
         /\ last' = (IF queue[1] = Away THEN last ELSE queue[1])
         /\ UNCHANGED <<finger, swiped, expected>>
<1>1. ScreensTypeOK /\ Len(queue) <= QueueLen
  BY DEF InductiveInv, ScreensInv
<1>2. /\ queue \in Seq(Places \cup {Away}) /\ queue # <<>>
      /\ Head(queue) = queue[1] /\ Head(queue) \in Places \cup {Away}
      /\ queue' \in Seq(Places \cup {Away})
      /\ Len(queue') = Len(queue) - 1 /\ Len(queue) \in Nat
      /\ \A i \in 1..Len(queue') : queue'[i] = queue[i + 1]
      /\ last' = (IF Head(queue) = Away THEN last ELSE Head(queue))
      /\ UNCHANGED <<finger, swiped, expected, astray>>
  BY <1>1, TakeFacts DEF fingerVars
<1>3. LiftedLast /\ (Unread \/ Pressed \/ Answered \/ Lifted)
  BY <1>2 DEF Followed
<1>4. Len(queue) >= 1
  BY <1>2
<1>5. LiftedLast'
  <2> SUFFICES ASSUME NEW i \in 1..Len(queue'), queue'[i] = Away
               PROVE  i = Len(queue') /\ finger' = Away
    BY DEF LiftedLast
  <2>1. i + 1 \in 1..Len(queue) /\ queue[i + 1] = Away
    BY <1>2
  <2> QED BY <1>2, <1>3, <2>1 DEF LiftedLast
<1>6. /\ Len(queue) = 1 => queue' = <<>>
      /\ Len(queue) >= 2 => queue' # <<>> /\ queue'[1] = queue[2]
  BY <1>2
<1>7. prev_scr = NoScreen /\ last \in Places
  BY <1>1, TakeFacts DEF InductiveInv, ScreensInv, ScreensTypeOK
<1> QED BY <1>2, <1>3, <1>4, <1>5, <1>6, <1>7

(* The touch is found pressed.                                             *)
LEMMA PressFollowed ==
  ASSUME InductiveInv, Followed, Press
  PROVE  Followed'
<1> SUFFICES ASSUME ~astray' PROVE Followed'
  BY DEF Followed
<1>1. /\ Unread \/ Pressed \/ Answered \/ Lifted
      /\ LiftedLast' /\ Head(queue) = queue[1] /\ queue # <<>> /\ prev_scr = NoScreen
      /\ Len(queue) \in Nat /\ last \in Places
      /\ Len(queue) = 1 => queue' = <<>>
      /\ Len(queue) >= 2 => queue' # <<>> /\ queue'[1] = queue[2]
      /\ Len(queue') = Len(queue) - 1
      /\ last' = (IF queue[1] = Away THEN last ELSE queue[1])
      /\ UNCHANGED <<finger, swiped, expected>>
  BY TakenFollowed DEF Press
<1>2. /\ queue[1] # Away /\ act_obj = NoObject /\ act_obj' = ObjectAt(act_scr, queue[1])
      /\ sent' = "no" /\ wait = "no" /\ wait' = "no"
      /\ UNCHANGED <<act_scr, scr_to_load, prev_scr>>
  BY <1>1 DEF Press, screenVars
<1>3. act_scr \in Shown
  BY DEF InductiveInv, ScreensInv, ScreensTypeOK
<1>4. ~Pressed /\ ~Answered /\ ~Lifted
  BY <1>1, <1>2, <1>3, ObjectFacts DEF Pressed, Answered, Lifted
<1>5. Unread
  BY <1>1, <1>4
<1>6. last' = queue[1] /\ act_obj' = ObjectAt(act_scr, last')
  BY <1>1, <1>2
<1>7. CASE swiped
  <2>1. queue' # <<>> /\ queue'[1] = queue[2]
        /\ queue[2] \in Places /\ queue[2] # queue[1]
        /\ expected = Outcome(act_scr, queue[1], queue[2])
    BY <1>1, <1>5, <1>7 DEF Unread
  <2>2. Pressed'
    BY <1>1, <1>2, <1>5, <1>6, <1>7, <2>1 DEF Unread, Pressed, Resting
  <2> QED BY <1>1, <2>2 DEF Followed
<1>8. CASE ~swiped
  <2>1. /\ expected = PositionOf(act_scr)
        /\ \/ Len(queue) = 1 /\ finger = queue[1]
           \/ Len(queue) = 2 /\ finger = Away /\ queue[2] = Away
    BY <1>5, <1>8 DEF Unread
  <2>2. \/ queue' = <<>> /\ finger = queue[1]
        \/ Len(queue') = 1 /\ queue'[1] = Away /\ finger = Away
    BY <1>1, <2>1
  <2>3. Pressed'
    BY <1>1, <1>2, <1>5, <1>6, <1>8, <2>1, <2>2 DEF Unread, Pressed, Resting
  <2> QED BY <1>1, <2>3 DEF Followed
<1> QED BY <1>7, <1>8

(* It is held, its gesture sent.                                           *)
LEMMA HoldFollowed ==
  ASSUME InductiveInv, Followed, Hold
  PROVE  Followed'
<1> SUFFICES ASSUME ~astray' PROVE Followed'
  BY DEF Followed
<1>1. /\ Unread \/ Pressed \/ Answered \/ Lifted
      /\ LiftedLast' /\ Head(queue) = queue[1] /\ queue # <<>>
      /\ queue[1] \in Places \cup {Away} /\ last \in Places
      /\ Len(queue) \in Nat /\ UNCHANGED <<finger, swiped, expected>>
  BY TakenFollowed DEF Hold
<1>2. /\ queue[1] \in Places /\ act_obj # NoObject
      /\ sent = "yes" \/ queue[1] = last
      /\ UNCHANGED <<act_obj, sent, act_scr, scr_to_load>>
  BY <1>1, DirFacts DEF Hold, screenVars
<1>3. ~Unread /\ ~Lifted
  BY <1>2 DEF Unread, Lifted
<1>4. ~Pressed
  BY <1>1, <1>2, PlaceFacts DEF Pressed
<1>5. Answered'
  BY <1>1, <1>2, <1>3, <1>4 DEF Answered, Pending
<1> QED BY <1>1, <1>5 DEF Followed

(* Its first move is read, and the screen it leads to is asked for         *)
(* (ui.c:57-95).                                                           *)
LEMMA GestureFollowed ==
  ASSUME InductiveInv, Followed, Gesture
  PROVE  Followed'
<1> SUFFICES ASSUME ~astray' PROVE Followed'
  BY DEF Followed
<1>1. /\ Unread \/ Pressed \/ Answered \/ Lifted
      /\ LiftedLast' /\ Head(queue) = queue[1] /\ queue # <<>>
      /\ queue[1] \in Places \cup {Away} /\ last \in Places
      /\ UNCHANGED <<finger, swiped, expected>>
  BY TakenFollowed DEF Gesture
<1> DEFINE target == Asked(GestureObject(act_obj), Dir(last, queue[1]))
<1>2. /\ queue[1] # Away /\ act_obj # NoObject /\ sent = "no"
      /\ sent' = "yes" /\ act_obj' = act_obj
      /\ IF target # NoScreen THEN UiScreenChange(target) ELSE UNCHANGED screenVars
  BY <1>1 DEF Gesture, Answer
<1>3. /\ act_scr \in Shown /\ scr_to_load \in Shown \cup {NoScreen}
      /\ act_obj \in Objects \cup {NoObject}
  BY DEF InductiveInv, ScreensInv, ScreensTypeOK
<1>4. Pressed
  BY <1>1, <1>2 DEF Unread, Answered, Lifted
<1>5. /\ act_obj = ObjectAt(act_scr, last) /\ Resting
      /\ swiped /\ queue[1] \in Places /\ expected = Outcome(act_scr, last, queue[1])
  BY <1>1, <1>2, <1>4, PlaceFacts DEF Pressed
<1>6. /\ target # act_scr
      /\ target = NoScreen => Outcome(act_scr, last, queue[1]) = PositionOf(act_scr)
      /\ target # NoScreen => Outcome(act_scr, last, queue[1]) = PositionOf(target)
  BY <1>1, <1>3, <1>5, AnswerIsOutcome
<1>7. target \in Shown \cup {NoScreen}
  BY <1>2, <1>3, AskedFacts
<1>8. expected' = Pending'
  <2> HIDE DEF target
  <2>1. CASE target = NoScreen
    <3>1. act_scr' = act_scr /\ scr_to_load' = scr_to_load
      BY <1>2, <2>1 DEF screenVars
    <3> QED BY <1>1, <1>5, <1>6, <2>1, <3>1 DEF Pending, Resting
  <2>2. CASE target # NoScreen
    <3>1. target \notin {act_scr, scr_to_load}
      BY <1>5, <1>6, <2>2 DEF Resting
    <3>2. scr_to_load' = target
      BY <1>2, <2>2, <3>1 DEF UiScreenChange
    <3> QED BY <1>1, <1>5, <1>6, <2>2, <3>2 DEF Pending
  <2> QED BY <2>1, <2>2
<1>9. Answered'
  BY <1>1, <1>2, <1>5, <1>8 DEF Answered
<1> QED BY <1>1, <1>9 DEF Followed

(* Samples that are waited out.                                            *)
LEMMA IgnoreFollowed ==
  ASSUME InductiveInv, Followed, Ignore
  PROVE  Followed'
<1> SUFFICES ASSUME ~astray' PROVE Followed'
  BY DEF Followed
<1>1. /\ Unread \/ Pressed \/ Answered \/ Lifted
      /\ LiftedLast' /\ queue # <<>> /\ UNCHANGED <<finger, swiped, expected>>
  BY TakenFollowed DEF Ignore
<1>2. wait = "yes" /\ UNCHANGED <<act_obj, sent, act_scr, scr_to_load>>
  BY DEF Ignore, screenVars
<1>3. Answered'
  BY <1>1, <1>2 DEF Unread, Pressed, Lifted, Answered, Pending
<1> QED BY <1>1, <1>3 DEF Followed

(* The touch is over: it has led where the finger went.                    *)
LEMMA ReleaseFollowed ==
  ASSUME InductiveInv, Followed, Release
  PROVE  Followed'
<1> SUFFICES ASSUME ~astray' PROVE Followed'
  BY DEF Followed
<1>1. /\ Unread \/ Pressed \/ Answered \/ Lifted
      /\ LiftedLast /\ LiftedLast' /\ Head(queue) = queue[1] /\ queue # <<>>
      /\ Len(queue) \in Nat /\ Len(queue) >= 1
      /\ Len(queue) = 1 => queue' = <<>>
      /\ UNCHANGED <<finger, swiped, expected>>
  BY TakenFollowed DEF Release
<1>2. queue[1] = Away /\ act_obj' = NoObject /\ UNCHANGED <<act_scr, scr_to_load>>
  BY <1>1 DEF Release, screenVars
<1>3. Len(queue) = 1 /\ finger = Away /\ queue' = <<>>
  <2>1. 1 \in 1..Len(queue)
    BY <1>1
  <2> QED BY <1>1, <1>2, <2>1 DEF LiftedLast
<1>4. expected = Pending
  <2>1. CASE Pressed
    <3>1. ~swiped
      BY <1>2, <2>1, PlaceFacts DEF Pressed
    <3>2. expected = PositionOf(act_scr) /\ Resting
      BY <2>1, <3>1 DEF Pressed
    <3> QED BY <3>2 DEF Resting, Pending
  <2>2. CASE Answered
    BY <2>2 DEF Answered
  <2> QED BY <1>1, <1>2, <2>1, <2>2 DEF Unread, Lifted
<1>5. Lifted'
  BY <1>1, <1>2, <1>3, <1>4 DEF Lifted, Pending
<1> QED BY <1>1, <1>5 DEF Followed

(* The animation brings the screen that was asked for, and no other.       *)
LEMMA AnimationFollowed ==
  ASSUME InductiveInv, Followed, AnimationStarts \/ AnimationEnds
  PROVE  Followed'
<1> SUFFICES ASSUME ~astray' PROVE Followed'
  BY DEF Followed
<1>1. UNCHANGED <<finger, swiped, expected, astray, queue, act_obj, sent>>
  BY DEF AnimationStarts, AnimationEnds, fingerVars, pointerVars
<1>2. LiftedLast /\ (Unread \/ Pressed \/ Answered \/ Lifted)
  BY <1>1 DEF Followed
<1>3. ~Resting
  BY DEF AnimationStarts, AnimationEnds, Resting
<1>4. Answered \/ Lifted
  BY <1>2, <1>3 DEF Unread, Pressed
<1>5. Pending' = Pending
  <2>1. CASE AnimationStarts
    <3>1. scr_to_load # NoScreen /\ UNCHANGED scr_to_load
      BY <2>1 DEF AnimationStarts
    <3> QED BY <3>1 DEF Pending
  <2>2. CASE AnimationEnds
    <3>1. scr_to_load = act_scr /\ act_scr' = act_scr /\ scr_to_load' = NoScreen
      BY <2>2 DEF AnimationEnds, InductiveInv, ScreensInv
    <3> QED BY <3>1 DEF Pending
  <2> QED BY <2>1, <2>2
<1>6. Answered' \/ Lifted'
  BY <1>1, <1>4, <1>5 DEF Answered, Lifted
<1> QED BY <1>1, <1>2, <1>6 DEF Followed, LiftedLast

LEMMA FollowedNext == InductiveInv /\ Followed /\ [ScreensNext]_screensVars => Followed'
<1> SUFFICES ASSUME InductiveInv, Followed, [ScreensNext]_screensVars PROVE Followed'
  OBVIOUS
<1>1. CASE UNCHANGED screensVars
  BY <1>1 DEF screensVars, fingerVars, pointerVars, screenVars, Followed, LiftedLast, Unread,
              Pressed, Answered, Lifted, Pending, Resting
<1>2. CASE \E p \in Places : Touch(p) \/ Slide(p)
  BY <1>2, TouchFollowed, SlideFollowed
<1>3. CASE Lift \/ Press \/ Hold \/ Gesture
  BY <1>3, LiftFollowed, PressFollowed, HoldFollowed, GestureFollowed
<1>4. CASE Ignore \/ Release \/ AnimationStarts \/ AnimationEnds
  BY <1>4, IgnoreFollowed, ReleaseFollowed, AnimationFollowed
<1> QED BY <1>1, <1>2, <1>3, <1>4 DEF ScreensNext

LEMMA FollowedInit == ScreensInit => Followed
<1> SUFFICES ASSUME ScreensInit PROVE Followed
  OBVIOUS
<1>1. queue = <<>> /\ act_obj = NoObject /\ finger = Away /\ expected = 0
  BY DEF ScreensInit
<1>2. Pending = 0
  BY PositionFacts DEF ScreensInit, Pending
<1> QED BY <1>1, <1>2 DEF Followed, LiftedLast, Lifted

-----------------------------------------------------------------------------
(* The queue keeps to its length, a screen moves out only for the one that *)
(* was asked for, and only a gesture of no keeping widget is waited out.   *)
THEOREM ScreensInvariant == ScreensSpec => []ScreensInv
<1>1. InductiveInv => ScreensInv
  BY DEF InductiveInv
<1> QED BY <1>1, InductiveInit, InductiveNext, PTL DEF ScreensSpec

(* One press does one thing at most, whichever samples were lost (ui.c:62).*)
THEOREM OneThingOnly == ScreensSpec => []OneThing
<1>1. InductiveInv => OneThing
  BY DEF InductiveInv
<1> QED BY <1>1, InductiveInit, InductiveNext, PTL DEF ScreensSpec

(* At rest, LVGL shows the screen the finger has swiped to (ui.c:57-95).   *)
THEOREM ShowsSwiped == ScreensSpec => []AsSwiped
<1>1. InductiveInv /\ Followed => AsSwiped
  <2> SUFFICES ASSUME InductiveInv, Followed, Calm, finger = Away, ~astray
               PROVE  PositionOf(act_scr) = expected
    BY DEF AsSwiped
  <2>1. queue = <<>> /\ act_obj = NoObject /\ Resting
    BY DEF Calm, Resting
  <2>2. act_scr \in Shown /\ last \in Places
    BY DEF InductiveInv, ScreensInv, ScreensTypeOK
  <2>3. Lifted
    BY <2>1, <2>2, ObjectFacts DEF Followed, Unread, Pressed, Answered
  <2> QED BY <2>1, <2>3 DEF Lifted, Pending, Resting
<1> QED BY <1>1, InductiveInit, InductiveNext, FollowedInit, FollowedNext, PTL DEF ScreensSpec
=============================================================================
