-------------------------------- MODULE Touch --------------------------------
(***************************************************************************)
(* drivers/input/cst816s.cpp: the touch controller's interrupt submits a   *)
(* work, the work reads the controller over I2C and reports what it read,  *)
(* message by message, to the input queue, from where the input thread     *)
(* hands them to the pointer of LVGL.                                      *)
(*                                                                         *)
(* The interrupt comes between any two steps.  The work queue blocks while *)
(* the input queue is full (K_FOREVER).  A submitted work that has not     *)
(* begun is not submitted twice; one that is running is queued again.      *)
(*                                                                         *)
(* The controller is set up by the boot, with the interrupt in use         *)
(* already, and again whenever it is resumed, by the work queue.  Every    *)
(* transfer of the set-up may fail.  on() and sleep() of                   *)
(* managers/display.cpp resume and suspend it; the kernel lets neither     *)
(* through twice.                                                          *)
(***************************************************************************)
EXTENDS Naturals, Sequences

CONSTANTS
  Points,     \* the points that may be touched, pairs of coordinates
  NoPoint,    \* a pair that shares no coordinate with a point
  QueueLen    \* CONFIG_INPUT_QUEUE_MAX_MSGS

Events == {"up", "contact"}
Slides == {"none", "slide"}  \* "slide" is any of the four that are reported

ASSUME PointAssumption ==
         /\ \A p \in Points : /\ p = <<p[1], p[2]>>
                              /\ p[1] # NoPoint[1] /\ p[2] # NoPoint[2]
         /\ NoPoint = <<NoPoint[1], NoPoint[2]>>
ASSUME QueueAssumption == QueueLen \in Nat \ {0}

VARIABLES
  chip,     \* what the controller would answer now
  queued,   \* K_WORK_QUEUED of data.work: "yes" or "no"
  handler,  \* the work: "idle", "read" or "report"
  reports,  \* what the handler has still to report
  input_q,  \* the input queue
  abs,      \* the coordinates the pointer was told last
  pointer,  \* what LVGL was told last: a point, NoPoint when released
  caller,   \* who is in chip_init: "none", "boot" or "resume"
  setup,    \* what chip_init has still to do
  config,   \* the controller: "reset", "bare", "masked" or "ready"
  pm,       \* its power state, as the kernel has it
  missed,   \* history: what the controller knows was not announced, or not read
  deaf      \* history: the boot's chip_init failed, and no suspend came since

chipVars == <<chip, queued>>
workVars == <<handler, reports>>
sinkVars == <<abs, pointer>>
setupVars == <<caller, setup, config, pm, deaf>>
vars == <<chipVars, workVars, input_q, sinkVars, setupVars, missed>>

(* cst816s_chip_init, from the moment the reset line is drawn, and what is *)
(* left of it when chip_reset could not configure the line and returned.   *)
ChipInit == <<"release", "ChipID", "MotionMask", "IRQControl">>
NoReset == Tail(ChipInit)
Written(c, op) == CASE op = "release" -> "bare"
                    [] op = "MotionMask" /\ c = "bare" -> "masked"
                    [] op = "IRQControl" /\ c = "masked" -> "ready"
                    [] OTHER -> c

Xs == {p[1] : p \in Points}
Ys == {p[2] : p \in Points}
AbsX(v) == [code |-> "ABS_X", value |-> v]
AbsY(v) == [code |-> "ABS_Y", value |-> v]
TouchKey(v) == [code |-> "BTN_TOUCH", value |-> v]
SlideKey == [code |-> "BTN_SLIDE", value |-> 0]
Messages == {AbsX(v) : v \in Xs} \cup {AbsY(v) : v \in Ys}
              \cup {TouchKey(v) : v \in 0..1} \cup {SlideKey}

(* cst816s_process: what a sample is reported as.  Only a contact counts   *)
(* as pressed.  Variant: the gesture is not told apart from the touch.     *)
ReportsTouchFirst(s) ==
  IF s.event = "contact"
  THEN <<TouchKey(1), AbsX(s.point[1]), AbsY(s.point[2])>>
  ELSE IF s.gesture = "slide" THEN <<TouchKey(0), SlideKey>> ELSE <<TouchKey(0)>>
ReportsOf(s) ==
  IF s.event = "contact"
  THEN <<AbsX(s.point[1]), AbsY(s.point[2]), TouchKey(1)>>
  ELSE IF s.gesture = "slide" THEN <<TouchKey(0), SlideKey>> ELSE <<TouchKey(0)>>

TypeOK == /\ chip \in [event : Events, point : Points, gesture : Slides]
          /\ queued \in {"yes", "no"}
          /\ handler \in {"idle", "read", "report"}
          /\ reports \in Seq(Messages)
          /\ input_q \in Seq(Messages)
          /\ abs \in (Xs \cup {NoPoint[1]}) \X (Ys \cup {NoPoint[2]})
          /\ pointer \in (Xs \cup {NoPoint[1]}) \X (Ys \cup {NoPoint[2]})
          /\ caller \in {"none", "boot", "resume"}
          /\ setup \in {ChipInit, NoReset, <<"MotionMask", "IRQControl">>, <<"IRQControl">>, << >>}
          /\ config \in {"reset", "bare", "masked", "ready"}
          /\ pm \in {"active", "suspended"}
          /\ missed \in BOOLEAN /\ deaf \in BOOLEAN

Init == /\ chip \in [event : {"up"}, point : Points, gesture : {"none"}]
        /\ queued = "no"
        /\ handler = "idle"
        /\ reports = <<>>
        /\ input_q = <<>>
        /\ abs = NoPoint
        /\ pointer = NoPoint
        /\ caller = "boot"
        /\ \/ setup = ChipInit /\ config = "reset"
           \/ setup = NoReset /\ config \in {"bare", "masked", "ready"}
        /\ pm = "active"   \* Z_PM_DEVICE_INIT, before the boot has set it up
        /\ missed = FALSE /\ deaf = FALSE

-----------------------------------------------------------------------------
(* cst816s_isr_handler.  Variant: a busy work is not submitted again.      *)
SubmitIfIdle == queued' = IF handler = "idle" THEN "yes" ELSE queued
Submit == queued' = "yes"

(* The finger touches, moves, slides off: the controller raises its line.  *)
(* (The first event of a touch reads as not pressed, like "up".)           *)
Finger(s) == /\ s # chip
             /\ config # "reset"
             /\ chip' = s
             /\ Submit
             /\ UNCHANGED <<workVars, input_q, sinkVars, setupVars, missed>>

(* It need not do so before it is told, and does not while it is reset.    *)
FingerUnseen(s) == /\ s # chip
                   /\ config # "ready"
                   /\ chip' = s
                   /\ missed' = TRUE
                   /\ UNCHANGED <<queued, workVars, input_q, sinkVars, setupVars>>

(* The work queue takes the work up.                                       *)
Begin == /\ handler = "idle" /\ queued = "yes" /\ caller # "resume"
         /\ queued' = "no"
         /\ handler' = "read"
         /\ UNCHANGED <<chip, reports, input_q, sinkVars, setupVars, missed>>

Read == /\ handler = "read" /\ config # "reset"
        /\ reports' = ReportsOf(chip)
        /\ handler' = "report"
        /\ missed' = FALSE
        /\ UNCHANGED <<chipVars, input_q, sinkVars, setupVars>>

(* i2c_burst_read_dt fails: nothing is reported, and nothing retried.      *)
ReadFails == /\ handler = "read"
             /\ handler' = "idle"
             /\ missed' = TRUE
             /\ UNCHANGED <<chipVars, reports, input_q, sinkVars, setupVars>>

(* input_report with K_FOREVER.  Variant: with K_NO_WAIT, which drops the  *)
(* message when the queue is full.                                         *)
PutNoWait(m) == input_q' = IF Len(input_q) < QueueLen THEN Append(input_q, m)
                           ELSE input_q
Put(m) == /\ Len(input_q) < QueueLen
          /\ input_q' = Append(input_q, m)

Report == /\ handler = "report" /\ reports # <<>>
          /\ Put(Head(reports))
          /\ reports' = Tail(reports)
          /\ UNCHANGED <<chipVars, handler, sinkVars, setupVars, missed>>

End == /\ handler = "report" /\ reports = <<>>
       /\ handler' = "idle"
       /\ UNCHANGED <<chipVars, reports, input_q, sinkVars, setupVars, missed>>

(* The input thread gives one message to LVGL's pointer, which keeps the   *)
(* coordinates until a synchronised message makes them count.              *)
Told(m, a) ==
  /\ abs' = CASE m.code = "ABS_X" -> <<m.value, a[2]>>
              [] m.code = "ABS_Y" -> <<a[1], m.value>>
              [] OTHER -> a
  /\ pointer' = IF m.code = "BTN_TOUCH"
                THEN IF m.value = 1 THEN a ELSE NoPoint
                ELSE pointer

Deliver == /\ input_q # <<>>
           /\ Told(Head(input_q), abs)
           /\ input_q' = Tail(input_q)
           /\ UNCHANGED <<chipVars, workVars, setupVars, missed>>

-----------------------------------------------------------------------------
(* chip_init returns to cst816s_init or to cst816s_pm_action, whose result *)
(* the kernel looks at.                                                    *)
SetupEnds(result) ==
  /\ caller' = "none"
  /\ pm' = IF caller = "resume" /\ result = "ok" THEN "active" ELSE pm
  /\ deaf' = (deaf \/ (caller = "boot" /\ result = "failed"))

(* One step of it: a wait, a read or an update of a register.  Held in its *)
(* reset the controller answers none.                                      *)
SetupStep == /\ setup # <<>>
             /\ Head(setup) = "release" \/ config # "reset"
             /\ config' = Written(config, Head(setup))
             /\ setup' = Tail(setup)
             /\ IF Tail(setup) = <<>> THEN SetupEnds("ok")
                ELSE UNCHANGED <<caller, pm, deaf>>
             /\ UNCHANGED <<chipVars, workVars, input_q, sinkVars, missed>>

(* A transfer fails, or the chip's id is another: it returns at once.      *)
(* Variants: it logs the error and goes on; it returns, but no error.      *)
GoOn == /\ setup' = Tail(setup)
        /\ IF Tail(setup) = <<>> THEN SetupEnds("ok")
           ELSE UNCHANGED <<caller, pm, deaf>>
GiveUpQuietly == /\ setup' = <<>>
                 /\ SetupEnds("ok")
GiveUp == /\ setup' = <<>>
          /\ SetupEnds("failed")

SetupFails == /\ setup # <<>> /\ Head(setup) # "release"
              /\ GiveUp
              /\ UNCHANGED <<chipVars, workVars, input_q, sinkVars, config, missed>>

(* cst816s_pm_action, called from the work queue once the boot is over.    *)
(* When the reset line cannot be set, the kernel keeps the device active,  *)
(* and nothing has changed.                                                *)
Suspend == /\ pm = "active" /\ caller = "none" /\ handler = "idle"
           /\ config' = "reset"
           /\ pm' = "suspended"
           /\ deaf' = FALSE
           /\ UNCHANGED <<chipVars, workVars, input_q, sinkVars, caller, setup, missed>>

Resume == /\ pm = "suspended" /\ caller = "none" /\ handler = "idle"
          /\ caller' = "resume"
          /\ \/ setup' = ChipInit /\ config' = "reset"
             \/ setup' = NoReset /\ UNCHANGED config
          /\ UNCHANGED <<chipVars, workVars, input_q, sinkVars, pm, deaf, missed>>

Next == \/ \E s \in [event : Events, point : Points, gesture : Slides] :
             Finger(s) \/ FingerUnseen(s)
        \/ Begin \/ Read \/ ReadFails \/ Report \/ End
        \/ Deliver
        \/ SetupStep \/ SetupFails \/ Suspend \/ Resume

Spec == Init /\ [][Next]_vars

(* Threads that run.  The work queue takes its works in their order, so a  *)
(* touch's is not put off for ever by displays that sleep and wake.        *)
Fairness == /\ SF_vars(Begin) /\ WF_vars(Read \/ ReadFails)
            /\ WF_vars(SetupStep \/ SetupFails)
            /\ WF_vars(Report) /\ WF_vars(End) /\ WF_vars(Deliver)
FairSpec == Spec /\ Fairness

-----------------------------------------------------------------------------
(* chip_init writes to a controller that is out of its reset, and switches *)
(* the interrupts on when the gestures are, also when its chip_reset drew  *)
(* no line; the work reads and reports at no time while the work queue     *)
(* resumes the controller (cst816s.cpp:224-285, 333-366).                  *)
SetupSound == /\ setup = <<"MotionMask", "IRQControl">> => config # "reset"
              /\ setup = <<"IRQControl">> => config \in {"masked", "ready"}
              /\ setup # <<>> <=> caller # "none"

TouchInv == /\ TypeOK
            /\ SetupSound
            /\ reports # <<>> => handler = "report"
            /\ caller = "resume" => handler = "idle" /\ pm = "suspended"

(* LVGL is only told of points that were touched: x and y of one sample,   *)
(* though they travel as messages of their own through a queue that fills  *)
(* (cst816s.cpp:161-166).                                                  *)
PointIsReal == pointer \in Points \cup {NoPoint}

(* When everything has been handled LVGL knows what the controller knows:  *)
(* no interrupt is lost to a work that is queued or running already, nor   *)
(* to a set-up or a sleep in between, unless the controller was not ready  *)
(* to announce it or the last read failed (cst816s.cpp:141-145, 209-214).  *)
Quiet == queued = "no" /\ handler = "idle" /\ input_q = <<>>
CaughtUp == Quiet /\ ~missed
              => pointer = IF chip.event = "contact" THEN chip.point ELSE NoPoint

(* What the kernel takes for active announces touches and gestures: no     *)
(* resume that failed half way passes for one that did not.  Only the boot *)
(* begins as active, whatever becomes of it (cst816s.cpp:243-285, 382).    *)
ActiveIsReady == pm = "active" /\ caller = "none" => config = "ready" \/ deaf

(* A finger that is gone for good is not shown for ever, unless nobody     *)
(* told or the read that would have told failed.                           *)
ReleaseSeen == <>[](chip.event = "up") => []<>(pointer = NoPoint \/ missed)
=============================================================================
