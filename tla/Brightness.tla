----------------------------- MODULE Brightness -----------------------------
(***************************************************************************)
(* The backlight: managers/display.cpp with button 2 of devkit.cpp and the *)
(* slider of ui_events.cpp.  The dimmer behind the PWM pin takes a level   *)
(* from a train of pulses that three alarms of one counter shape: low for  *)
(* Lead, then one pulse per Period for every level below the top and one   *)
(* more, then steady.                                                      *)
(*                                                                         *)
(* set_brightness is called by the input thread and by the work queue,     *)
(* with no lock.  The queue is cooperative: its calls are single steps,    *)
(* and may come between any two statements of the input thread's.  Time is *)
(* counted in ticks of the counter.                                        *)
(***************************************************************************)
EXTENDS Integers

CONSTANTS
  MaxLevel,  \* 32: the top level, and the cap of set_brightness
  Sliders,   \* the values of the slider
  Lead,      \* 750 us
  Period,    \* 15 us
  Delay      \* 20 ms: from set_brightness to do_set_brightness

ASSUME LevelAssumption == MaxLevel \in Nat \ {0}
ASSUME SliderAssumption == Sliders \subseteq Nat
ASSUME TimeAssumption ==
         /\ Lead \in Nat \ {0} /\ Period \in Nat \ {0} /\ Delay \in Nat
         /\ Lead + Period * (MaxLevel + 1) < Delay

VARIABLES
  _state,           \* "On" or "Sleep"
  _brightness, _last_brightness,
  b,                \* the level button 2 asks for next
  input,            \* where the input thread is: "idle", or in set_brightness
                    \* about to "cancel" or to "schedule"
  _brightness_work, \* "idle" or "scheduled"
  due,              \* ticks until the scheduled work may run
  counter,          \* "stopped" or "running"
  elapsed,          \* ticks since the counter was started
  stop_ticks,       \* _brightness_alarm_stop.ticks
  shown             \* the level the dimmer took from the last whole train

request == <<_brightness, _last_brightness, b, input>>
timer == <<_brightness_work, due>>
train == <<counter, elapsed, stop_ticks>>
vars == <<_state, request, timer, train, shown>>

Levels == 0..MaxLevel

(* _brightness_alarm_stop.ticks for npulses = 32 - _brightness             *)
StopTicks(level) == Lead + Period * (MaxLevel - level + 1)

TypeOK == /\ _state \in {"On", "Sleep"}
          /\ _brightness \in Levels
          /\ _last_brightness \in Levels
          /\ b \in 0..(MaxLevel - 1)
          /\ input \in {"idle", "cancel", "schedule"}
          /\ _brightness_work \in {"idle", "scheduled"}
          /\ due \in 0..Delay
          /\ counter \in {"stopped", "running"}
          /\ elapsed \in 0..Delay
          /\ stop_ticks \in 0..Delay
          /\ shown \in Levels

Init == /\ _state = "Sleep"
        /\ _brightness = MaxLevel /\ _last_brightness = MaxLevel
        /\ b = 0
        /\ input = "idle"
        /\ _brightness_work = "idle" /\ due = 0
        /\ counter = "stopped" /\ elapsed = 0 /\ stop_ticks = 0
        /\ shown \in Levels

-----------------------------------------------------------------------------
Capped(v) == IF v < MaxLevel THEN v ELSE MaxLevel

(* k_work_schedule leaves a work that is scheduled already as it is.       *)
Schedule == /\ _brightness_work' = "scheduled"
            /\ due' = IF _brightness_work = "idle" THEN Delay ELSE due

(* The whole of set_brightness, for a caller in the work queue.            *)
(* Variant: the work is not scheduled again when it is scheduled already.  *)
SetBrightnessUnscheduled(v) == /\ _brightness' = Capped(v)
                               /\ UNCHANGED timer
SetBrightness(v) == /\ _brightness' = Capped(v)
                    /\ _brightness_work' = "scheduled"
                    /\ due' = Delay

(* Button 2: the input thread's call, statement by statement.              *)
Button2 == /\ input = "idle"
           /\ _brightness' = Capped(b)
           /\ b' = IF b + 1 = MaxLevel THEN 0 ELSE b + 1
           /\ input' = "cancel"
           /\ UNCHANGED <<_state, _last_brightness, timer, train, shown>>

Button2Cancel == /\ input = "cancel"
                 /\ _brightness_work' = "idle" /\ due' = 0
                 /\ input' = "schedule"
                 /\ UNCHANGED <<_state, _brightness, _last_brightness, b, train, shown>>

(* Variant: a work that is there already is taken for a failure.           *)
Button2Forgets == /\ input = "schedule"
                  /\ input' = "idle"
                  /\ UNCHANGED <<_state, _brightness, _last_brightness, b, timer, train, shown>>
Button2Schedule == /\ input = "schedule"
                   /\ Schedule
                   /\ input' = "idle"
                   /\ UNCHANGED <<_state, _brightness, _last_brightness, b, train, shown>>

(* slidervc_fn, in the render work.                                        *)
Slide(v) == /\ _state = "On"
            /\ v # _brightness
            /\ SetBrightness(v)
            /\ UNCHANGED <<_state, _last_brightness, b, input, train, shown>>

(* on(), called by init.                                                   *)
On == /\ _state = "Sleep"
      /\ _state' = "On"
      /\ SetBrightness(_last_brightness)
      /\ UNCHANGED <<_last_brightness, b, input, train, shown>>

(* do_set_brightness.  An alarm that still waits is not set again, and a   *)
(* running counter is not started.  Variant: the work comes at once.       *)
DoSetBrightnessEarly == /\ _brightness_work = "scheduled"
                        /\ _brightness_work' = "idle" /\ due' = 0
                        /\ stop_ticks' = (IF counter = "running" THEN stop_ticks
                                          ELSE StopTicks(_brightness))
                        /\ elapsed' = (IF counter = "running" THEN elapsed ELSE 0)
                        /\ counter' = "running"
                        /\ UNCHANGED <<_state, request, shown>>
DoSetBrightness == /\ _brightness_work = "scheduled" /\ due = 0
                   /\ _brightness_work' = "idle" /\ due' = 0
                   /\ stop_ticks' = (IF counter = "running" THEN stop_ticks
                                     ELSE StopTicks(_brightness))
                   /\ elapsed' = (IF counter = "running" THEN elapsed ELSE 0)
                   /\ counter' = "running"
                   /\ UNCHANGED <<_state, request, shown>>

(* A tick of the clock, while somebody waits for one.  The alarm that runs *)
(* the train is at Lead; the one that stops it ends the count of pulses.   *)
Down == /\ due' = IF due = 0 THEN 0 ELSE due - 1
        /\ UNCHANGED _brightness_work

TickTrain == /\ counter = "running" /\ elapsed + 1 < stop_ticks
             /\ elapsed' = elapsed + 1
             /\ Down
             /\ UNCHANGED <<_state, request, counter, stop_ticks, shown>>

AlarmStop == /\ counter = "running" /\ elapsed + 1 = stop_ticks
             /\ elapsed' = stop_ticks
             /\ counter' = "stopped"
             /\ shown' = MaxLevel + 1 - ((stop_ticks - Lead) \div Period)
             /\ Down
             /\ UNCHANGED <<_state, request, stop_ticks>>

TickQuiet == /\ counter = "stopped" /\ due > 0
             /\ Down
             /\ UNCHANGED <<_state, request, train, shown>>

Next == \/ Button2 \/ Button2Cancel \/ Button2Schedule
        \/ \E v \in Sliders : Slide(v)
        \/ On
        \/ DoSetBrightness
        \/ TickTrain \/ AlarmStop \/ TickQuiet

Spec == Init /\ [][Next]_vars

(* Time passes, the work queue gets to its works, and the input thread is  *)
(* preempted but not stopped.                                              *)
Fairness == /\ WF_vars(Button2Cancel) /\ WF_vars(Button2Schedule)
            /\ WF_vars(DoSetBrightness)
            /\ WF_vars(TickTrain) /\ WF_vars(AlarmStop) /\ WF_vars(TickQuiet)
FairSpec == Spec /\ Fairness

-----------------------------------------------------------------------------
(* What is asked for and what is shown differ only while somebody is at it *)
(* - and a train that has ended, or will, is one of a level there is.      *)
Underway == input # "idle" \/ _brightness_work = "scheduled"

BrightInv ==
  /\ TypeOK
  /\ _brightness_work = "idle" => due = 0
  /\ counter = "running" =>
       /\ elapsed < stop_ticks
       /\ \E level \in Levels : stop_ticks = StopTicks(level)
       /\ ~Underway => stop_ticks = StopTicks(_brightness)
       /\ _brightness_work = "scheduled" => due + elapsed >= Delay
  /\ counter = "stopped" /\ ~Underway /\ _state = "On" => shown = _brightness

(* When nothing is under way the dimmer shows what was asked for last, by  *)
(* whichever thread: no request is lost between the two callers            *)
(* (display.cpp:147-167, devkit.cpp:49-57, ui_events.cpp:17-26).           *)
Settled == _state = "On" /\ ~Underway /\ counter = "stopped" => shown = _brightness

(* The next train begins when the last has ended: no alarm is refused      *)
(* because it still waits (display.cpp:151, 163-166).                      *)
TrainsApart == [][DoSetBrightness => counter = "stopped"]_vars

(* Once nobody asks for another level, the backlight comes to show the     *)
(* last one (display.cpp:150-166).                                         *)
Asking == Button2 \/ On \/ \E v \in Sliders : Slide(v)
ShownAtLast == <>[][~Asking]_vars => <>[](_state = "On" => shown = _brightness)
=============================================================================
