------------------------------- MODULE Screens -------------------------------
(***************************************************************************)
(* ui.c, ui_helpers.c and the three screens: a finger presses, moves and   *)
(* lifts; its samples wait in LVGL's pointer queue; LVGL reads them in its *)
(* task, finds the object under them and sends it events; the screens'     *)
(* callbacks answer a swipe with the change of the screen, which is then   *)
(* animated for 250 ms.                                                    *)
(*                                                                         *)
(* The brightness slider, the colour wheel and the stopwatch's two buttons *)
(* lie at the same height of the display, so a finger at that height       *)
(* touches another widget on every screen.  LVGL and its queue are         *)
(* external: version 8.3.6, as ui.c:3 says.                                *)
(***************************************************************************)
EXTENDS Naturals, Integers, Sequences

CONSTANT QueueLen   \* samples that wait for LVGL

ASSUME QueueAssumption == QueueLen \in Nat \ {0}

Shown == {"watchface", "settings", "stopwatch"}
NoScreen == "no screen"
NoObject == "no object"
Away == <<"away", 0>>    \* where the finger is when it is lifted
Places == {"widgets", "bare"} \X {1, 2}   \* two heights, left and right

VARIABLES
  finger,       \* where the finger is
  queue,        \* where it was: the samples LVGL has not read
  looping,      \* lv_indev_read_timer_cb has seen more samples: "yes" or "no"
  act_obj,      \* what LVGL takes to be pressed
  last,         \* the point of the last sample
  sent,         \* gesture_sent: this press was a gesture: "yes" or "no"
  wait,         \* wait_until_release: "yes" or "no"
  act_scr,      \* the active screen
  scr_to_load,  \* the screen asked for last
  prev_scr,     \* the screen that is being moved out
  level,        \* what the slider is set to
  done,         \* history: what the program did for this press
  swiped,       \* history: this touch has moved already
  expected,     \* history: where the finger's swipes lead, -1 to 1
  astray        \* history: a sample was lost, or this touch began too early

fingerVars == <<finger, swiped, expected, astray>>
pointerVars == <<act_obj, last, sent, wait, level, done>>
screenVars == <<act_scr, scr_to_load, prev_scr>>
screensVars == <<fingerVars, queue, looping, pointerVars, screenVars>>

(* ui_watchface_screen_init, ui_settings_screen_init and                   *)
(* ui_stopwatch_screen_init: what a finger meets.  Labels let it through.  *)
WatchfaceAt(p) == IF p[1] = "bare" THEN "watchface" ELSE "slider"
SettingsAt(p) == IF p[1] = "bare" THEN "settings" ELSE "wheel"
StopwatchAt(p) == CASE p[1] = "bare" -> "stopwatch"
                    [] p[1] # "bare" /\ p[2] = 1 -> "start"
                    [] OTHER -> "stop"
ObjectAt(scr, p) == CASE scr = "watchface" -> WatchfaceAt(p)
                      [] scr = "settings" -> SettingsAt(p)
                      [] OTHER -> StopwatchAt(p)
Objects == Shown \cup {"slider", "wheel", "start", "stop"}

(* Widgets whose GESTURE_BUBBLE is cleared.  Variant: it is not.           *)
NoneKeeps == {}
KeepGestures == {"slider", "wheel"}
ScreenOf(o) == CASE o = "slider" -> "watchface"
                 [] o = "wheel" -> "settings"
                 [] o \in {"start", "stop"} -> "stopwatch"
                 [] OTHER -> o
GestureObject(o) == IF o \in KeepGestures THEN o ELSE ScreenOf(o)

(* The direction of a move: across the display's height it is no swipe.    *)
Dir(p, q) == CASE p = q -> "none"
               [] p[1] # q[1] -> "vertical"
               [] p[2] < q[2] -> "right"
               [] OTHER -> "left"

(* ui_event_watchface, ui_event_settings, ui_event_stopwatch: the screen   *)
(* a swipe asks for.  Variant: the stopwatch answers to the other side.    *)
UiEventStopwatchLeft(dir) == IF dir = "left" THEN "watchface" ELSE NoScreen
UiEventWatchface(dir) == CASE dir = "right" -> "settings"
                           [] dir = "left" -> "stopwatch"
                           [] OTHER -> NoScreen
UiEventSettings(dir) == IF dir = "left" THEN "watchface" ELSE NoScreen
UiEventStopwatch(dir) == IF dir = "right" THEN "watchface" ELSE NoScreen
Asked(o, dir) == CASE o = "watchface" -> UiEventWatchface(dir)
                   [] o = "settings" -> UiEventSettings(dir)
                   [] o = "stopwatch" -> UiEventStopwatch(dir)
                   [] OTHER -> NoScreen

-----------------------------------------------------------------------------
(* After ui_init and the first lv_disp_load_scr: the watchface is loaded.  *)
ScreensInit == /\ finger = Away /\ swiped = FALSE /\ expected = 0 /\ astray = FALSE
               /\ queue = <<>> /\ looping = "no"
               /\ act_obj = NoObject /\ last = <<"bare", 1>>
               /\ sent = "no" /\ wait = "no"
               /\ act_scr = "watchface" /\ scr_to_load = "watchface"
               /\ prev_scr = NoScreen
               /\ level = 2 /\ done = <<>>

(* LVGL is at rest: what it shows is what the finger sees and touches.     *)
Calm == /\ queue = <<>> /\ act_obj = NoObject /\ wait = "no"
        /\ prev_scr = NoScreen /\ scr_to_load \in {NoScreen, act_scr}

(* Settings, watchface and stopwatch lie side by side, and a swipe moves   *)
(* them along with the finger.                                             *)
PositionOf(scr) == CASE scr = "settings" -> -1
                     [] scr = "watchface" -> 0
                     [] OTHER -> 1
Moved(pos, dir) == CASE dir = "left" /\ pos < 1 -> pos + 1
                     [] dir = "right" /\ pos > -1 -> pos - 1
                     [] OTHER -> pos

(* A sample is put without waiting: one too many is lost.                  *)
Put(p) == queue' = IF Len(queue) < QueueLen THEN Append(queue, p) ELSE queue
Full == Len(queue) = QueueLen

Touch(p) == /\ finger = Away
            /\ finger' = p
            /\ swiped' = FALSE
            /\ expected' = IF Calm THEN PositionOf(act_scr) ELSE expected
            /\ astray' = ~Calm
            /\ Put(p)
            /\ UNCHANGED <<looping, pointerVars, screenVars>>

(* A touch's first move counts, unless it began on a widget that keeps it. *)
Slide(p) == /\ finger # Away /\ finger # p
            /\ finger' = p
            /\ swiped' = TRUE
            /\ expected' =
                 IF swiped \/ (finger[1] = "widgets" /\ expected # 1)
                 THEN expected ELSE Moved(expected, Dir(finger, p))
            /\ astray' = (astray \/ Full)
            /\ Put(p)
            /\ UNCHANGED <<looping, pointerVars, screenVars>>

Lift == /\ finger # Away
        /\ finger' = Away
        /\ astray' = (astray \/ Full)
        /\ Put(Away)
        /\ UNCHANGED <<swiped, expected, looping, pointerVars, screenVars>>

-----------------------------------------------------------------------------
(* lv_indev_read_timer_cb takes one sample.  It does not begin while a     *)
(* screen is moving, but goes on as long as it has seen more samples.      *)
Take == /\ queue # <<>>
        /\ looping = "yes" \/ prev_scr = NoScreen
        /\ queue' = Tail(queue)
        /\ looping' = IF Len(queue) > 1 THEN "yes" ELSE "no"
        /\ last' = IF Head(queue) = Away THEN last ELSE Head(queue)
        /\ UNCHANGED fingerVars

(* ui_event_brightness_slider, at every sample that presses the slider:    *)
(* its callback runs when the value has changed.                           *)
SliderAt(o, p, before) ==
  IF o = "slider" /\ p[2] # level
  THEN /\ level' = p[2]
       /\ done' = IF before = <<"level">> THEN before
                  ELSE Append(before, "level")
  ELSE /\ level' = level
       /\ done' = before

(* _ui_screen_change: lv_scr_load_anim.  A screen still waiting for its    *)
(* animation is loaded at once.                                            *)
UiScreenChange(target) ==
  /\ UNCHANGED prev_scr
  /\ IF target \in {act_scr, scr_to_load}
     THEN UNCHANGED <<act_scr, scr_to_load>>
     ELSE /\ act_scr' = IF scr_to_load = NoScreen THEN act_scr ELSE scr_to_load
          /\ scr_to_load' = target

(* A screen's callback at a swipe it answers.  Variant: it does not call   *)
(* lv_indev_wait_release.                                                  *)
AnswerNoWait(target) == /\ UiScreenChange(target)
                        /\ done' = Append(done, "screen")
                        /\ UNCHANGED <<wait, level>>
Answer(target) == /\ wait' = "yes"
                  /\ UiScreenChange(target)
                  /\ done' = Append(done, "screen")
                  /\ UNCHANGED level

(* A press is found: LVGL forgets about the one before.                    *)
Press == /\ Take
         /\ Head(queue) # Away /\ wait = "no" /\ act_obj = NoObject
         /\ act_obj' = ObjectAt(act_scr, Head(queue))
         /\ sent' = "no"
         /\ SliderAt(ObjectAt(act_scr, Head(queue)), Head(queue), <<>>)
         /\ UNCHANGED <<wait, screenVars>>

(* The pressed object stays pressed, wherever the finger moves             *)
(* (PRESS_LOCK): no gesture, or one that was sent already.                 *)
Hold == /\ Take
        /\ Head(queue) # Away /\ wait = "no" /\ act_obj # NoObject
        /\ sent = "yes" \/ Dir(last, Head(queue)) = "none"
        /\ SliderAt(act_obj, Head(queue), done)
        /\ UNCHANGED <<act_obj, sent, wait, screenVars>>

(* It moves far enough for a gesture, which its screen gets, or it keeps.  *)
Gesture == /\ Take
           /\ Head(queue) # Away /\ wait = "no" /\ act_obj # NoObject
           /\ sent = "no" /\ Dir(last, Head(queue)) # "none"
           /\ sent' = "yes"
           /\ LET target == Asked(GestureObject(act_obj), Dir(last, Head(queue)))
              IN  IF target # NoScreen
                  THEN Answer(target)
                  ELSE /\ SliderAt(act_obj, Head(queue), done)
                       /\ UNCHANGED <<wait, screenVars>>
           /\ UNCHANGED act_obj

Ignore == /\ Take
          /\ Head(queue) # Away /\ wait = "yes"
          /\ UNCHANGED <<act_obj, sent, wait, level, done, screenVars>>

(* Released: ui_event_start and ui_event_stop run at a click, which a      *)
(* press that is waited out does not make.                                 *)
Release == /\ Take
           /\ Head(queue) = Away
           /\ act_obj' = NoObject
           /\ wait' = "no"
           /\ done' = IF wait = "no" /\ act_obj \in {"start", "stop"}
                      THEN Append(done, "click") ELSE done
           /\ UNCHANGED <<sent, level, screenVars>>

(* The animation's first and last step, in LVGL's task as well.            *)
AnimationStarts == /\ looping = "no" /\ prev_scr = NoScreen
                   /\ scr_to_load \notin {NoScreen, act_scr}
                   /\ prev_scr' = act_scr
                   /\ act_scr' = scr_to_load
                   /\ UNCHANGED <<fingerVars, queue, looping, pointerVars, scr_to_load>>

AnimationEnds == /\ looping = "no" /\ prev_scr # NoScreen
                 /\ prev_scr' = NoScreen
                 /\ scr_to_load' = NoScreen
                 /\ UNCHANGED <<fingerVars, queue, looping, pointerVars, act_scr>>

ScreensNext == \/ \E p \in Places : Touch(p) \/ Slide(p)
               \/ Lift
               \/ Press \/ Hold \/ Gesture \/ Ignore \/ Release
               \/ AnimationStarts \/ AnimationEnds

ScreensSpec == ScreensInit /\ [][ScreensNext]_screensVars

-----------------------------------------------------------------------------
ScreensTypeOK == /\ finger \in Places \cup {Away}
                 /\ queue \in Seq(Places \cup {Away})
                 /\ looping \in {"yes", "no"} /\ sent \in {"yes", "no"}
                 /\ wait \in {"yes", "no"}
                 /\ act_obj \in Objects \cup {NoObject}
                 /\ last \in Places
                 /\ act_scr \in Shown
                 /\ scr_to_load \in Shown \cup {NoScreen}
                 /\ prev_scr \in Shown \cup {NoScreen}
                 /\ level \in {1, 2}
                 /\ done \in Seq({"screen", "level", "click"})
                 /\ swiped \in BOOLEAN /\ astray \in BOOLEAN /\ expected \in -1..1

(* The queue keeps to its length; a screen moves out for the one that was  *)
(* asked for; only a gesture makes LVGL wait for the release, and none     *)
(* that began on the slider or the colour wheel (ui_watchface.c:61).       *)
ScreensInv == /\ ScreensTypeOK
              /\ Len(queue) <= QueueLen
              /\ prev_scr # NoScreen =>
                   prev_scr # act_scr /\ scr_to_load = act_scr /\ looping = "no"
              /\ wait = "yes" =>
                   sent = "yes" /\ act_obj \in Objects \ {"slider", "wheel"}

(* One press does one thing at most: it changes the screen once, or clicks *)
(* a button, or moves the slider, whichever samples were lost              *)
(* (ui.c:62, lv_indev_wait_release).                                       *)
OneThing == done \in {<<>>, <<"screen">>, <<"click">>, <<"level">>}

(* When LVGL is at rest it shows the screen the finger has swiped to: the  *)
(* neighbour on the side the finger came from, if there is one and the     *)
(* touch did not begin on the slider or the colour wheel (ui.c:57-95).     *)
AsSwiped == Calm /\ finger = Away /\ ~astray => PositionOf(act_scr) = expected
=============================================================================
