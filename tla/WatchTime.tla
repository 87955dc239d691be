------------------------------ MODULE WatchTime ------------------------------
(***************************************************************************)
(* What the watch shows of time: the message that sets the clock and the   *)
(* zone (st_parse.cpp), the stopwatch (ui_events.cpp) and the render work  *)
(* that draws both (display.cpp).  All of it runs on the work queue, the   *)
(* clicks inside the render work's call of lv_task_handler.                *)
(*                                                                         *)
(* The stopwatch measures with high_resolution_clock, which is the very    *)
(* clock a message sets: CLOCK_REALTIME is the uptime plus a base, and     *)
(* clock_settime moves the base.  Times are in milliseconds.               *)
(***************************************************************************)
EXTENDS Integers

CONSTANTS
  Messages,  \* what a phone sends, see MessageAssumption
  Garbage,   \* what a number that was not read may hold
  Steps,     \* by how much the uptime moves on
  MaxUp      \* bound: the uptime

(* Seconds since 1970 and the zone in half hours, as the phone has them.   *)
(* A "garbled" message has no number after setTime(, a "zoneless" one none *)
(* where the zone's is looked for, and a "cut" one ends so soon that there *)
(* is nowhere to look.  A "late" one has more seconds than a long of 32    *)
(* bits can hold, and a "far" one more hours than an int.                  *)
ASSUME MessageAssumption ==
         Messages \subseteq [kind : {"full", "zoneless", "garbled", "cut", "late", "far"},
                             secs : Nat, half : -24..28]
ASSUME UnitAssumption == Garbage \subseteq Int /\ Steps \subseteq Nat /\ MaxUp \in Nat

VARIABLES
  up,         \* the kernel's uptime
  base,       \* CLOCK_REALTIME is base + up
  zone,       \* the number in TZ, after "UTC"
  task,       \* "idle", "handler": the render work is in lv_task_handler, or
              \* "aborted"
  stopwatch_started, stopwatch_start_time, stopwatch_lap_time,
  ui_time, ui_lap,   \* the two labels of the stopwatch
  face,       \* the local time on the watchface, in seconds
  began,      \* history: the uptime of the last start
  moved,      \* history: by how much messages moved the clock since
  lapped,     \* history: the laps shown since, together
  sync        \* history: the last message that set the clock: applied in
              \* full or not, its seconds and zone, and the uptime

clock == <<base, zone, sync>>
stopwatch == <<stopwatch_started, stopwatch_start_time, stopwatch_lap_time, began>>
labels == <<ui_time, ui_lap, lapped>>
vars == <<up, clock, task, stopwatch, moved, labels, face>>

Now == base + up

-----------------------------------------------------------------------------
(* C's division and remainder, for d > 0: towards zero.                    *)
Quot(n, d) == IF n >= 0 THEN n \div d ELSE -((-n) \div d)
Rem(n, d) == n - d * Quot(n, d)

(* The duration casts of all three places.                                 *)
Split(t) == [minutes |-> Quot(t, 60000),
             seconds |-> Quot(Rem(t, 60000), 1000),
             milliseconds |-> Rem(Rem(t, 60000), 1000)]

(* What a label says.                                                      *)
Reading(label) == 60000 * label.minutes + 1000 * label.seconds + label.milliseconds

Labels == [minutes : Int, seconds : -59..59, milliseconds : -999..999]

(* from_chars reads the hours of a zone and stops at the point; POSIX      *)
(* counts zones to the west.  Variant: the sign is kept.                   *)
Hours(half) == Quot(half, 2)
ZoneTextEast(half) == Rem(Hours(half), 100)
ZoneText(half) == Rem(-Hours(half), 100)
ZoneUnread(g) == Rem(-g, 100)

(* localtime                                                               *)
LocalSeconds == (Now \div 1000) - 3600 * zone

TypeOK == /\ up \in 0..MaxUp
          /\ base \in Int /\ zone \in Int
          /\ task \in {"idle", "handler", "aborted"}
          /\ stopwatch_started \in BOOLEAN
          /\ stopwatch_start_time \in Int /\ stopwatch_lap_time \in Int
          /\ ui_time \in Labels /\ ui_lap \in Labels
          /\ face \in Int
          /\ began \in Nat /\ moved \in Int /\ lapped \in Int
          /\ sync \in [full : BOOLEAN, secs : Int, half : -24..28, at : Nat]

Init == /\ up = 0 /\ base = 0 /\ zone = 0
        /\ task = "idle"
        /\ stopwatch_started = FALSE
        /\ stopwatch_start_time = 0 /\ stopwatch_lap_time = 0
        /\ ui_time = Split(0) /\ ui_lap = Split(0)
        /\ face = 0
        /\ began = 0 /\ moved = 0 /\ lapped = 0
        /\ sync = [full |-> FALSE, secs |-> 0, half |-> 0, at |-> 0]

-----------------------------------------------------------------------------
(* clock_settime                                                           *)
SetClock(secs) == /\ base' = 1000 * secs - up
                  /\ moved' = moved + base' - base

(* st_parse, by what the two from_chars say.  A "garbled" message returns  *)
(* at once; a "zoneless" one after the clock is set.  A result out of      *)
(* range is not asked for: the number that was never read is set.  Without *)
(* setTimeZone( the second substr begins at 11, and throws where the text  *)
(* is shorter: there are no exceptions (prj.conf), the program aborts.     *)
SetTime(m) ==
  /\ task = "idle"
  /\ m.kind # "garbled"
  /\ \E secs \in IF m.kind = "late" THEN Garbage ELSE {m.secs} :
       /\ SetClock(secs)
       /\ sync' = [full |-> m.kind = "full", secs |-> secs, half |-> m.half, at |-> up]
  /\ \/ m.kind \in {"zoneless", "cut"} /\ UNCHANGED zone
     \/ m.kind = "far" /\ \E g \in Garbage : zone' = ZoneUnread(g)
     \/ m.kind \in {"full", "late"} /\ zone' = ZoneText(m.half)
  /\ task' = IF m.kind = "cut" THEN "aborted" ELSE "idle"
  /\ UNCHANGED <<up, stopwatch, labels, face>>

SetTimeGarbled(m) == /\ task = "idle"
                     /\ m.kind = "garbled"
                     /\ UNCHANGED vars

(* After an abort nothing is left of clock, zone and stopwatch.            *)
Restart == /\ task = "aborted"
           /\ task' = "idle"
           /\ up' = 0 /\ base' = 0 /\ zone' = 0
           /\ stopwatch_started' = FALSE
           /\ stopwatch_start_time' = 0 /\ stopwatch_lap_time' = 0
           /\ ui_time' = Split(0) /\ ui_lap' = Split(0)
           /\ face' = 0
           /\ began' = 0 /\ moved' = 0 /\ lapped' = 0
           /\ sync' = [full |-> FALSE, secs |-> 0, half |-> 0, at |-> 0]

(* render: the labels, and then lv_task_handler, which may take a while.   *)
(* Variant: the time since the last lap is drawn.                          *)
RenderLap == /\ task = "idle"
             /\ face' = LocalSeconds
             /\ ui_time' = IF stopwatch_started THEN Split(Now - stopwatch_lap_time)
                           ELSE ui_time
             /\ task' = "handler"
             /\ UNCHANGED <<up, clock, stopwatch, moved, ui_lap, lapped>>
Render == /\ task = "idle"
          /\ face' = LocalSeconds
          /\ ui_time' = IF stopwatch_started THEN Split(Now - stopwatch_start_time)
                        ELSE ui_time
          /\ task' = "handler"
          /\ UNCHANGED <<up, clock, stopwatch, moved, ui_lap, lapped>>

(* The work ends and schedules itself.                                     *)
RenderEnds == /\ task = "handler"
              /\ task' = "idle"
              /\ UNCHANGED <<up, clock, stopwatch, moved, labels, face>>

(* startclicked, of a stopwatch that runs and of one that does not.        *)
Stop == /\ task = "handler"
        /\ stopwatch_started
        /\ stopwatch_started' = FALSE
        /\ ui_time' = Split(Now - stopwatch_start_time)
        /\ UNCHANGED <<up, clock, task, stopwatch_start_time, stopwatch_lap_time, began,
                       moved, ui_lap, lapped, face>>

Start == /\ task = "handler"
         /\ ~stopwatch_started
         /\ stopwatch_started' = TRUE
         /\ stopwatch_start_time' = Now /\ stopwatch_lap_time' = Now
         /\ ui_lap' = Split(0)
         /\ began' = up /\ moved' = 0 /\ lapped' = 0
         /\ UNCHANGED <<up, clock, task, ui_time, face>>

(* stopclicked, the button that says "Lap".  Variant: the next lap counts  *)
(* from the start again.                                                   *)
LapFromStart == /\ task = "handler"
                /\ stopwatch_started
                /\ ui_lap' = Split(Now - stopwatch_lap_time)
                /\ lapped' = lapped + Reading(ui_lap')
                /\ UNCHANGED <<up, clock, task, stopwatch, moved, ui_time, face>>
Lap == /\ task = "handler"
       /\ stopwatch_started
       /\ ui_lap' = Split(Now - stopwatch_lap_time)
       /\ lapped' = lapped + Reading(ui_lap')
       /\ stopwatch_lap_time' = Now
       /\ UNCHANGED <<up, clock, task, stopwatch_started, stopwatch_start_time, began,
                      moved, ui_time, face>>

Tick(d) == /\ up + d <= MaxUp
           /\ up' = up + d
           /\ UNCHANGED <<clock, task, stopwatch, moved, labels, face>>

Next == \/ \E m \in Messages : SetTime(m) \/ SetTimeGarbled(m)
        \/ Restart
        \/ Render \/ RenderEnds
        \/ Start \/ Stop \/ Lap
        \/ \E d \in Steps : Tick(d)

Spec == Init /\ [][Next]_vars

-----------------------------------------------------------------------------
(* The laps shown since the start and the lap that runs are together what  *)
(* the stopwatch shows, whatever happens to the clock: no lap is lost and  *)
(* none counted twice (ui_events.cpp:54-55, 65-79).                        *)
LapsAddUp ==
  stopwatch_started => lapped + (Now - stopwatch_lap_time) = up - began + moved

(* The start is where the uptime and the moves of the clock say it is, and *)
(* after a message that was applied in full so are the clock and the zone. *)
TimeInv ==
  /\ TypeOK
  /\ stopwatch_started => stopwatch_start_time = began + base - moved
  /\ LapsAddUp
  /\ sync.full => /\ base = 1000 * sync.secs - sync.at
                  /\ zone = ZoneText(sync.half)

(* What the label of the stopwatch comes to say, and where it is stopped,  *)
(* is the time since the start by the uptime, off by just as much as       *)
(* messages moved the clock meanwhile; a restart leaves nothing of an old  *)
(* time (ui_events.cpp:31-48, display.cpp:190-201, st_parse.cpp:28-32).    *)
StopwatchRight ==
  [][ui_time' # ui_time => Reading(ui_time') = up' - began' + moved']_vars

(* After a message that was applied in full the watchface shows the local  *)
(* time of the phone - and where the phone's zone has a half hour, a time  *)
(* that is off by that half hour (st_parse.cpp:38-46, display.cpp:176-188). *)
PhoneSeconds == sync.secs + ((up - sync.at) \div 1000) + 1800 * sync.half
FaceRight ==
  [][task = "idle" /\ task' = "handler" /\ sync.full =>
       LET off == face' - PhoneSeconds
       IN off = 0 \/ (sync.half % 2 = 1 /\ off \in {-1800, 1800})]_vars
=============================================================================
