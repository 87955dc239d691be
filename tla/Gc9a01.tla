-------------------------------- MODULE Gc9a01 --------------------------------
(***************************************************************************)
(* The panel's driver, drivers/display/gc9a01.cpp, as the SPI transfers it *)
(* makes, each of which may fail, and the panel that hears them.  Its      *)
(* callers are the boot, on() and sleep() of managers/display.cpp, and     *)
(* LVGL's flush.  They come one after the other: Panel shows that the work *)
(* queue and the flush thread are never in the driver together.            *)
(*                                                                         *)
(* A call is the list of what it has still to do, "todo".  sleep() and     *)
(* set_orientation() have no caller in this build.                         *)
(***************************************************************************)
EXTENDS Naturals, Sequences

CONSTANTS Cols, Rows,    \* the panel's columns and rows, in blocks
          Orientations,  \* of enum display_orientation, as MADCTL values
          Rotation,      \* the devicetree's: the one of gc9a01_initcmds
          MaxFails       \* a bound: how many transfers fail on a bus that is awake

ASSUME PanelAssumption == Cols # {} /\ Rows # {} /\ Rotation \in Orientations /\ MaxFails \in Nat

VARIABLES
  display,  \* Display::_state: "On" or "Sleep"
  call,     \* who is in the driver: "none", "boot", "on", "sleep", "draw", "orient"
  todo,     \* what the call has still to do
  err,      \* what the driver's last write returned
  bus,      \* the SPI bus's power state
  pm,       \* the panel's power state, as the kernel has it
  panel,    \* the panel itself
  fails,    \* history: the calls, the last of their kind, that a transfer failed
  failed,   \* how many transfers have failed
  drawn,    \* history: the blocks drawn since a transfer failed last
  asked,    \* history: the orientation set last
  ran       \* history: the panel was awake from a good boot at the last on(), or
            \* the kernel ran the last on()'s or sleep()'s pm action

gc9Vars == <<display, call, todo, err, bus, pm, panel, fails, failed, drawn, asked, ran>>

Blocks == Cols \X Rows
Areas == ((SUBSET Cols) \ {{}}) \X ((SUBSET Rows) \ {{}})
BlocksOf(area) == area[1] \X area[2]
Screen == <<Cols, Rows>>

(* A command, data of its own, or both: write_cmd, write_data,             *)
(* write_cmd_data.  Data are named for what they are and hold a value.     *)
Data(is, of) == [is |-> is, of |-> of]
NoData == Data("none", 0)
Transfer(c, d) == [do |-> "send", cmd |-> c, data |-> d]
Command(c) == Transfer(c, NoData)
Do(what, value) == [do |-> what, cmd |-> value, data |-> NoData]
Wake == Do("bus", "active")        \* gc9a01_spi_resume
Release == Do("bus", "suspended")  \* gc9a01_spi_suspend
Msleep == Do("msleep", "")
Becomes(state) == Do("pm", state)  \* the end of pm_device_action_run

(* gc9a01_initcmds.  The registers of the vendor's are one, "vendor"; it   *)
(* is written before and after the pages are opened, as 0xEB is.           *)
Vendor == Transfer("vendor", Data("value", 0))
InitCmds == <<Command("INREGEN2"), Vendor,
              Command("INREGEN1"), Command("INREGEN2"), Vendor,
              Transfer("MADCTL", Data("value", Rotation)),
              Transfer("PIXFMT", Data("value", 5)), Vendor,
              Transfer("TEON", Data("value", 0)), Command("INVON")>>

(* gc9a01_set_frame.  Variant: the rows are left as they are.              *)
SetFrameCols(area) == <<Transfer("CASET", Data("cols", area[1]))>>
SetFrame(area) == <<Transfer("CASET", Data("cols", area[1])),
                    Transfer("PASET", Data("rows", area[2]))>>

(* gc9a01_clear: the pixels are sent whatever became of RAMWR.             *)
Clear == SetFrame(Screen) \o <<Command("RAMWR"), Transfer("", Data("black", Screen))>>

(* gc9a01_init, gc9a01_init_display, after the reset.                      *)
InitDisplay == <<Wake>> \o InitCmds \o Clear
               \o <<Command("DISPON"), Msleep, Command("SLPOUT"), Msleep, Release>>

(* gc9a01_write_buf: the pixels of an area.                                *)
WriteBuf(area) ==
  <<Wake>> \o SetFrame(area) \o <<Transfer("RAMWR", Data("pixels", area)), Release>>

(* gc9a01_set_orientation.                                                 *)
SetOrientation(o) == <<Wake, Transfer("MADCTL", Data("value", o)), Release>>

(* gc9a01_pm_action.  Variants: DISPON is left to display_blanking_off;    *)
(* the wait is left out.                                                   *)
Framed(ops, state) == <<Wake>> \o ops \o <<Release, Becomes(state)>>
PmActionNoDispon(state) ==
  IF state = "active" THEN Framed(<<Command("SLPOUT"), Msleep>>, state)
  ELSE Framed(<<Command("DISPOFF"), Command("SLPIN")>>, state)
PmActionNoWait(state) ==
  IF state = "active" THEN Framed(<<Command("SLPOUT"), Command("DISPON")>>, state)
  ELSE Framed(<<Command("DISPOFF"), Command("SLPIN")>>, state)
PmAction(state) ==
  IF state = "active" THEN Framed(<<Command("SLPOUT"), Msleep, Command("DISPON")>>, state)
  ELSE Framed(<<Command("DISPOFF"), Command("SLPIN")>>, state)

(* pm_device_action_run does nothing when the state is there already.      *)
PmRun(state) == IF pm = state THEN <<>> ELSE PmAction(state)

-----------------------------------------------------------------------------
(* The panel.  "open" are its register pages, and "regs" what it was told; *)
(* "cmd" is the command that data belong to, "settling" the 5 ms after     *)
(* SLPOUT; "ram" tells what each block shows.                              *)
ResetPanel == [slp |-> "in", disp |-> "off", settling |-> FALSE, cmd |-> "",
               open |-> {}, regs |-> {}, madctl |-> Rotation, frame |-> Screen,
               ram |-> [b \in Blocks |-> "noise"]]
Registers == {"vendor", "MADCTL", "PIXFMT", "TEON", "INVON"}

HearCmd(p, c) ==
  [p EXCEPT !.cmd = c,
            !.slp = CASE c = "SLPIN" -> "in" [] c = "SLPOUT" -> "out" [] OTHER -> @,
            !.disp = CASE c = "DISPON" -> "on" [] c = "DISPOFF" -> "off" [] OTHER -> @,
            !.settling = @ \/ c = "SLPOUT",
            !.open = @ \cup ({c} \cap {"INREGEN1", "INREGEN2"}),
            !.regs = @ \cup ({c} \cap {"INVON"})]

(* Pixels taken for the bounds of a frame leave one nobody knows: none.    *)
Bounds(d, kind) == IF d.is = kind THEN d.of ELSE {}
FrameFor(p, d) == IF p.cmd = "CASET" THEN <<Bounds(d, "cols"), p.frame[2]>>
                  ELSE <<p.frame[1], Bounds(d, "rows")>>
HearData(p, d) ==
  CASE p.cmd \in {"CASET", "PASET"} -> [p EXCEPT !.frame = FrameFor(p, d)]
    [] p.cmd = "RAMWR" ->
         [p EXCEPT !.ram = [b \in Blocks |->
            IF b \notin BlocksOf(p.frame) THEN @[b]
            ELSE IF d.is # "pixels" THEN d.is
            ELSE IF d.of = p.frame THEN "own" ELSE "foreign"]]
    [] p.cmd \in Registers /\ d.is = "value" /\ (p.cmd = "vendor" =>
                                p.open = {"INREGEN1", "INREGEN2"}) ->
         [p EXCEPT !.regs = @ \cup {p.cmd},
                   !.madctl = IF p.cmd = "MADCTL" THEN d.of ELSE @]
    [] OTHER -> p

HearFirst(p, e) == IF e.cmd = "" THEN p ELSE HearCmd(p, e.cmd)
Hear(p, e) == IF e.data.is = "none" THEN HearFirst(p, e) ELSE HearData(HearFirst(p, e), e.data)

(* A transfer that failed may have been heard, pixels in part.             *)
Torn(e) == IF e.data.is \in {"pixels", "black"} THEN [e EXCEPT !.data.is = "noise"] ELSE e
HeardOf(p, e) == {p, HearFirst(p, e), Hear(p, e), Hear(p, Torn(e))}

-----------------------------------------------------------------------------
Gc9Init == /\ display = "Sleep" /\ call = "boot"
           /\ todo = InitDisplay /\ err = "ok"
           /\ bus = "active" /\ pm = "active"
           /\ panel = ResetPanel
           /\ fails = {} /\ failed = 0 /\ drawn = {}
           /\ asked = Rotation /\ ran = TRUE

Doing(what) == todo # <<>> /\ Head(todo).do = what /\ todo' = Tail(todo)

(* The bus's power management, which answers -EALREADY or 0.               *)
Bus == /\ Doing("bus")
       /\ bus' = Head(todo).cmd
       /\ UNCHANGED <<display, call, err, pm, panel, fails, failed, drawn, asked, ran>>

Sleeps == /\ Doing("msleep")
          /\ panel' = [panel EXCEPT !.settling = FALSE]
          /\ UNCHANGED <<display, call, err, bus, pm, fails, failed, drawn, asked, ran>>

Send == /\ Doing("send")
        /\ panel' = Hear(panel, Head(todo))
        /\ err' = "ok"
        /\ drawn' = IF call = "draw" /\ call \notin fails /\ Head(todo).cmd = "RAMWR"
                    THEN drawn \cup BlocksOf(Head(todo).data.of) ELSE drawn
        /\ UNCHANGED <<display, call, bus, pm, fails, failed, asked, ran>>

(* Data are not sent to a command that failed, except by gc9a01_clear.  On *)
(* a bus that sleeps, where display_blanking_on and _off send, a failure   *)
(* is nobody's fault and does not count.                                   *)
SendFails == /\ Doing("send")
             /\ panel' \in HeardOf(panel, Head(todo))
             /\ err' = "EIO"
             /\ IF bus = "active"
                THEN /\ failed < MaxFails /\ failed' = failed + 1
                     /\ fails' = fails \cup {call} /\ drawn' = {}
                ELSE UNCHANGED <<fails, failed, drawn>>
             /\ UNCHANGED <<display, call, bus, pm, asked, ran>>

(* The kernel takes the state over if the last write succeeded.            *)
Kernel == /\ Doing("pm")
          /\ pm' = IF err = "ok" THEN Head(todo).cmd ELSE pm
          /\ UNCHANGED <<display, call, err, bus, panel, fails, failed, drawn, asked, ran>>

(* A caller begins when the last one is done; the first is on().           *)
Calls(who, what) == /\ todo = <<>>
                    /\ call' = who /\ todo' = what
                    /\ fails' = fails \ (IF who = "sleep" THEN {who, "boot"} ELSE {who})
                    /\ UNCHANGED <<err, bus, pm, panel, failed, drawn>>

DisplayOn == /\ display = "Sleep" /\ display' = "On"
             /\ Calls("on", PmRun("active") \o <<Command("DISPON")>>)
             /\ ran' = (pm = "suspended" \/ (call = "boot" /\ "boot" \notin fails))
             /\ UNCHANGED asked

DisplaySleep == /\ display = "On" /\ display' = "Sleep"
                /\ Calls("sleep", <<Command("DISPOFF")>> \o PmRun("suspended"))
                /\ ran' = (pm = "active")
                /\ UNCHANGED asked

Draw(area) == /\ display = "On"
              /\ Calls("draw", WriteBuf(area))
              /\ UNCHANGED <<display, asked, ran>>

Orient(o) == /\ display = "On"
             /\ Calls("orient", SetOrientation(o))
             /\ asked' = o
             /\ UNCHANGED <<display, ran>>

Gc9Next == \/ Bus \/ Sleeps \/ Send \/ SendFails \/ Kernel
           \/ DisplayOn \/ DisplaySleep
           \/ \E area \in Areas : Draw(area)
           \/ \E o \in Orientations : Orient(o)

Gc9Spec == Gc9Init /\ [][Gc9Next]_gc9Vars

-----------------------------------------------------------------------------
Commands == {"", "INREGEN1", "INREGEN2", "INVON", "RAMWR", "DISPON", "DISPOFF", "SLPIN",
             "SLPOUT", "vendor", "PIXFMT", "TEON", "MADCTL", "CASET", "PASET"}
Panels == [slp : {"in", "out"}, disp : {"on", "off"}, settling : BOOLEAN, cmd : Commands,
           open : SUBSET {"INREGEN1", "INREGEN2"}, regs : SUBSET Registers,
           madctl : Orientations, frame : (SUBSET Cols) \X (SUBSET Rows),
           ram : [Blocks -> {"noise", "black", "own", "foreign"}]]

Gc9TypeOK == /\ display \in {"On", "Sleep"}
             /\ call \in {"boot", "on", "sleep", "draw", "orient"}
             /\ err \in {"ok", "EIO"}
             /\ {bus, pm} \subseteq {"active", "suspended"}
             /\ panel \in Panels
             /\ fails \subseteq {"boot", "on", "sleep", "draw", "orient"}
             /\ failed \in 0..MaxFails
             /\ drawn \subseteq Blocks /\ asked \in Orientations
             /\ ran \in BOOLEAN

(* The driver keeps to the panel's rules: nothing is sent in the 5 ms      *)
(* after SLPOUT, and a boot no transfer failed has told it everything;     *)
(* its picture stands as asked (gc9a01.cpp:104-165, 410-432, 449).         *)
Gc9Inv ==
  /\ Gc9TypeOK
  /\ panel.settling => todo # <<>> /\ Head(todo).do = "msleep"
  /\ todo = <<>> => bus = "suspended"
  /\ todo = <<>> /\ "boot" \notin fails /\ call = "boot" =>
       panel.regs = Registers /\ panel.slp = "out" /\ \A b \in Blocks : panel.ram[b] = "black"
  /\ todo = <<>> /\ {"boot", "orient"} \cap fails = {} => panel.madctl = asked

(* An on() or a sleep() that the kernel runs and no transfer of which fails*)
(* leaves the panel as the display says, whatever failed before, though    *)
(* only the last result of two counts, and display_blanking_on and _off    *)
(* write to a bus that sleeps.  The kernel passes over a call only when the*)
(* last one the other way, or the boot, had a failed transfer: then the    *)
(* call sends no more than what a sleeping bus may lose, and the panel may *)
(* stay dark while the display is on, or lit while it sleeps, until the    *)
(* next call (gc9a01.cpp:344-352, 438-476, display.cpp:114-139).           *)
This == IF display = "On" THEN {"on"} ELSE {"sleep"}
LastOther == IF display = "On" THEN {"boot", "sleep"} ELSE {"on"}
PowerRight ==
  todo = <<>> /\ call # "boot" =>
    /\ ran /\ This \cap fails = {} =>
         IF display = "On" THEN panel.slp = "out" /\ panel.disp = "on"
         ELSE panel.slp = "in" /\ panel.disp = "off"
    /\ ran \/ LastOther \cap fails # {}

(* A failed transfer spoils no later picture: every block drawn since then *)
(* shows what was drawn there, though set_frame and write_buf look at no   *)
(* result and the last frame stands (gc9a01.cpp:210-224, 260-288, 354-370).*)
PictureKept == \A b \in drawn : panel.ram[b] = "own"
=============================================================================
