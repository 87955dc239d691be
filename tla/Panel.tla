-------------------------------- MODULE Panel --------------------------------
(***************************************************************************)
(* The display's power states: on() and sleep() of managers/display.cpp,   *)
(* the panel's driver gc9a01.cpp and the thread LVGL flushes through       *)
(* (CONFIG_LV_Z_FLUSH_THREAD).  The work queue draws stripes, one at a     *)
(* time handed to the flush thread; each side wakes the SPI bus before it  *)
(* writes and puts it to sleep when it has written, without asking whether *)
(* the other is at it.                                                     *)
(*                                                                         *)
(* sleep() has no caller in this build.  Here it is called from the work   *)
(* queue, between two works.                                               *)
(***************************************************************************)
EXTENDS Integers

CONSTANTS
  Levels, Top,  \* brightness; Top is 32
  Stripes,      \* how many stripes a whole screen is: ten, by CONFIG_LV_Z_VDB_SIZE
  Wait          \* sleep()'s two refresh periods, in steps of the flush thread

(* Writing a stripe takes 3 ms of the 66 ms that sleep() waits.            *)
ASSUME PanelAssumption == /\ {0, Top} \subseteq Levels
                          /\ Stripes \in Nat \ {0}
                          /\ Wait \in Nat /\ Wait >= 3

VARIABLES
  _state,        \* Display's: "On" or "Sleep"
  _brightness, _last_brightness,
  _render_work,  \* "idle" or "scheduled"
  work,          \* the work queue: "idle", in "handler", lv_task_handler, or
                 \* blocked in on() ("resume", "light") or sleep() ("wait",
                 \* "blanked", "suspended")
  wait,          \* what is left of sleep()'s wait
  todo,          \* stripes lv_task_handler has yet to hand over
  invalid,       \* the whole screen has to be drawn
  flush,         \* the flush thread: "idle", "queued", "frame", "written"
  bus,           \* the SPI bus's power state: "active" or "suspended"
  panel,         \* the panel's, as the kernel has it
  slp,           \* the panel itself: asleep, "in", or "out"
  disp,          \* the panel's picture: "on" or "off"
  touch,         \* the touch controller's power state
  asked          \* history: the level asked for last that counts, see Kept

level == <<_brightness, _last_brightness, asked>>
drawing == <<_render_work, todo, invalid>>
glass == <<panel, slp, disp, touch>>
vars == <<_state, level, drawing, work, wait, flush, bus, glass>>

Power == {"active", "suspended"}

TypeOK == /\ _state \in {"On", "Sleep"}
          /\ _brightness \in Levels /\ _last_brightness \in Levels /\ asked \in Levels
          /\ _render_work \in {"idle", "scheduled"}
          /\ work \in {"idle", "handler", "resume", "light", "wait", "blanked", "suspended"}
          /\ wait \in 0..Wait
          /\ todo \in 0..Stripes
          /\ invalid \in BOOLEAN
          /\ flush \in {"idle", "queued", "frame", "written"}
          /\ bus \in Power /\ panel \in Power /\ touch \in Power
          /\ slp \in {"in", "out"} /\ disp \in {"on", "off"}

(* After gc9a01_init: the panel is awake, and so is its picture, but the   *)
(* bus has been put to sleep again; the manager says "Sleep".              *)
Init == /\ _state = "Sleep"
        /\ _brightness = Top /\ _last_brightness = Top /\ asked = Top
        /\ _render_work = "idle" /\ todo = 0 /\ invalid = TRUE
        /\ work = "idle" /\ wait = 0
        /\ flush = "idle" /\ bus = "suspended"
        /\ panel = "active" /\ slp = "out" /\ disp = "on" /\ touch = "active"

(* The level to come back to is in _last_brightness.                       *)
Kept == work \in {"resume", "light"} \/ (work = "idle" /\ _state = "Sleep")

-----------------------------------------------------------------------------
(* on(), until the panel is told to wake, 5 ms later, and to the call of   *)
(* lv_task_handler at its end.                                             *)
On == /\ work = "idle"
      /\ _state = "Sleep"
      /\ _state' = "On"
      /\ IF panel = "suspended"
         THEN bus' = "active" /\ slp' = "out" /\ work' = "resume"
         ELSE work' = "light" /\ UNCHANGED <<bus, slp>>
      /\ UNCHANGED <<level, drawing, wait, flush, panel, disp, touch>>

OnResumed == /\ work = "resume"
             /\ disp' = "on" /\ bus' = "suspended" /\ panel' = "active"
             /\ work' = "light"
             /\ UNCHANGED <<_state, level, drawing, wait, flush, slp, touch>>

(* A refresh that is due draws something, and everything if it is invalid. *)
Draw == \/ invalid /\ todo' = Stripes /\ invalid' = FALSE
        \/ ~invalid /\ todo' \in 1..Stripes /\ UNCHANGED invalid
(* set_brightness, display_blanking_off, and lv_task_handler.  Variant:    *)
(* the touch controller is left as it is.                                  *)
NotDue == UNCHANGED <<todo, invalid>>
OnLightUntouched == /\ work = "light"
                    /\ _brightness' = _last_brightness
                    /\ disp' = "on"
                    /\ Draw \/ NotDue
                    /\ work' = "handler"
                    /\ UNCHANGED <<_state, _last_brightness, asked, _render_work, wait, flush,
                                   bus, panel, slp, touch>>
OnLight == /\ work = "light"
           /\ touch' = "active"
           /\ _brightness' = _last_brightness
           /\ disp' = "on"
           /\ Draw \/ NotDue
           /\ work' = "handler"
           /\ UNCHANGED <<_state, _last_brightness, asked, _render_work, wait, flush, bus,
                          panel, slp>>

(* The render work: lv_task_handler, when its refresh is due.  When it is  *)
(* not, nothing is drawn and the work is scheduled as before: a stutter.   *)
Render == /\ work = "idle" /\ _render_work = "scheduled"
          /\ _render_work' = "idle"
          /\ Draw
          /\ work' = "handler"
          /\ UNCHANGED <<_state, level, wait, flush, bus, glass>>

(* The next stripe, when the flush thread has written the last one.        *)
HandOver == /\ work = "handler" /\ todo > 0
            /\ flush = "idle"
            /\ flush' = "queued" /\ todo' = todo - 1
            /\ UNCHANGED <<_state, level, _render_work, invalid, work, wait, bus, glass>>

(* The end of the render work and of on(): the work is scheduled.          *)
(* Variant: render does not schedule itself again.                         *)
HandlerEndsOnce == /\ work = "handler" /\ todo = 0
                   /\ work' = "idle"
                   /\ UNCHANGED <<_state, level, drawing, wait, flush, bus, glass>>
HandlerEnds == /\ work = "handler" /\ todo = 0
               /\ _render_work' = "scheduled"
               /\ work' = "idle"
               /\ UNCHANGED <<_state, level, todo, invalid, wait, flush, bus, glass>>

(* sleep(): the render work is cancelled, and the last stripe waited for.  *)
(* Variants: the wait is left out; the manager's state is not looked at.   *)
SleepAtOnce == /\ work = "idle"
               /\ _state = "On"
               /\ _state' = "Sleep"
               /\ _render_work' = "idle"
               /\ wait' = 0 /\ work' = "wait"
               /\ UNCHANGED <<level, todo, invalid, flush, bus, glass>>
SleepAgain == /\ work = "idle"
              /\ _state' = "Sleep"
              /\ _render_work' = "idle"
              /\ wait' = Wait /\ work' = "wait"
              /\ UNCHANGED <<level, todo, invalid, flush, bus, glass>>
Sleep == /\ work = "idle"
         /\ _state = "On"
         /\ _state' = "Sleep"
         /\ _render_work' = "idle"
         /\ wait' = Wait /\ work' = "wait"
         /\ UNCHANGED <<level, todo, invalid, flush, bus, glass>>

(* display_blanking_on, DISPOFF and, on a bus that is awake, SLPIN.        *)
SleepBlanks == /\ work = "wait" /\ wait = 0
               /\ disp' = "off"
               /\ bus' = "active"
               /\ work' = "blanked"
               /\ UNCHANGED <<_state, level, drawing, wait, flush, panel, slp, touch>>

SleepSuspends == /\ work = "blanked"
                 /\ slp' = "in" /\ bus' = "suspended" /\ panel' = "suspended"
                 /\ work' = "suspended"
                 /\ UNCHANGED <<_state, level, drawing, wait, flush, disp, touch>>

SleepEnds == /\ work = "suspended"
             /\ touch' = "suspended"
             /\ _last_brightness' = _brightness
             /\ _brightness' = 0
             /\ invalid' = TRUE
             /\ work' = "idle"
             /\ UNCHANGED <<_state, asked, _render_work, todo, wait, flush, bus, panel, slp, disp>>

-----------------------------------------------------------------------------
(* The flush thread in gc9a01_write_buf.  While the work queue waits, each *)
(* of its steps is a part of the wait.                                     *)
Passes == wait' = IF wait > 0 THEN wait - 1 ELSE 0

FlushFrame == /\ flush = "queued"
              /\ bus' = "active"
              /\ flush' = "frame"
              /\ Passes
              /\ UNCHANGED <<_state, level, drawing, work, glass>>

FlushWrite == /\ flush = "frame"
              /\ flush' = "written"
              /\ Passes
              /\ UNCHANGED <<_state, level, drawing, work, bus, glass>>

FlushEnds == /\ flush = "written"
             /\ bus' = "suspended"
             /\ flush' = "idle"
             /\ Passes
             /\ UNCHANGED <<_state, level, drawing, work, glass>>

WaitTick == /\ flush = "idle" /\ wait > 0
            /\ Passes
            /\ UNCHANGED <<_state, level, drawing, work, flush, bus, glass>>

(* A level is asked for: button 2, and the slider of a display that is on. *)
Ask(v) == /\ _brightness' = v
          /\ asked' = IF Kept THEN asked ELSE v
          /\ UNCHANGED <<_state, _last_brightness, drawing, work, wait, flush, bus, glass>>

Next == \/ On \/ OnResumed \/ OnLight
        \/ Render \/ HandOver \/ HandlerEnds
        \/ Sleep \/ SleepBlanks \/ SleepSuspends \/ SleepEnds
        \/ FlushFrame \/ FlushWrite \/ FlushEnds \/ WaitTick
        \/ \E v \in Levels : Ask(v)

Spec == Init /\ [][Next]_vars

(* A blocked work queue is woken, the flush thread runs while it is        *)
(* blocked, and LVGL's refresh, due every 33 ms, meets a render work that  *)
(* comes back at once.                                                     *)
Fairness == /\ WF_vars(OnResumed) /\ WF_vars(OnLight)
            /\ WF_vars(Render) /\ WF_vars(HandOver) /\ WF_vars(HandlerEnds)
            /\ WF_vars(FlushFrame) /\ WF_vars(FlushWrite) /\ WF_vars(FlushEnds)
FairSpec == Spec /\ Fairness

-----------------------------------------------------------------------------
(* The steps the flush thread still needs for the stripe it has.           *)
Left == CASE flush = "idle" -> 0
          [] flush = "queued" -> 3
          [] flush = "frame" -> 2
          [] flush = "written" -> 1

(* No stripe goes to a panel that sleeps or whose picture is off           *)
(* (display.cpp:135-139, gc9a01.cpp:446-454).                              *)
DrawnAwake == flush # "idle" => slp = "out" /\ disp = "on"

(* When the display is on and nobody is at it, everything is: the panel,   *)
(* its picture, the touch controller and the render work                   *)
(* (display.cpp:113-127).                                                  *)
OnIsOn == work = "idle" /\ _state = "On" =>
            /\ slp = "out" /\ disp = "on" /\ panel = "active" /\ touch = "active"
            /\ _render_work = "scheduled"

(* A stripe is written only to a panel that is awake, and done with before *)
(* the display sleeps.                                                     *)
PanelInv ==
  /\ TypeOK
  /\ DrawnAwake /\ OnIsOn
  /\ flush # "idle" => work \in {"idle", "handler", "wait"}
  /\ flush # "idle" /\ work = "idle" => _state = "On"
  /\ work = "wait" => Left <= wait
  /\ work # "handler" => todo = 0
  /\ _render_work = "scheduled" <=> work = "idle" /\ _state = "On"
  /\ work \in {"handler", "resume", "light"} => _state = "On"
  /\ work \in {"wait", "blanked", "suspended"} => _state = "Sleep"
  /\ work \in {"handler", "wait"} \/ (work = "idle" /\ _state = "On") =>
       slp = "out" /\ disp = "on" /\ panel = "active" /\ touch = "active"
  /\ panel = "active" \/ work \in {"resume", "light"} => slp = "out"
  /\ work = "light" => panel = "active"

(* The bus does not fall asleep under the one who writes: what the flush   *)
(* thread or the work queue has woken is awake until it is done            *)
(* (gc9a01.cpp:196-208, 360-368, 441-464, display.cpp:135-139).            *)
BusAwake == /\ flush \in {"frame", "written"} => bus = "active"
            /\ work \in {"resume", "blanked"} => bus = "active"

(* The display comes back with the level asked for last before it slept,   *)
(* and never with the darkness of its sleep; a level asked for between     *)
(* does not count (display.cpp:124, 131, 141-142).                         *)
LevelComesBack == IF Kept THEN _last_brightness = asked ELSE _brightness = asked

(* A display that is on is drawn anew, unless it is put to sleep again     *)
(* (display.cpp:126, 144, 206).                                            *)
DrawnAnew == invalid /\ _state = "On" ~> ~invalid \/ _state = "Sleep"
=============================================================================
