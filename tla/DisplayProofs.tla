----------------------------- MODULE DisplayProofs -----------------------------
(***************************************************************************)
(* Proofs about what managers/display.cpp drives: the backlight, for any   *)
(* number of levels and any times with a delay longer than the longest     *)
(* train (TimeAssumption), and the panel's driver, for a panel of any size *)
(* and any number of transfers that fail.                                  *)
(***************************************************************************)
EXTENDS Brightness, Gc9a01, SequenceTheorems, TLAPS

(* The ticks of the stop alarm lie between Lead and Delay                  *)
(* (display.cpp:158-162), and grow with the distance from the top.         *)
LEMMA StopTicksType ==
  ASSUME NEW level \in Levels
  PROVE  /\ StopTicks(level) \in Nat
         /\ Lead < StopTicks(level)
         /\ StopTicks(level) < Delay
<1> DEFINE n == MaxLevel - level + 1
<1>1. n \in 1..(MaxLevel + 1) /\ MaxLevel + 1 \in Nat
  BY LevelAssumption DEF Levels
<1>2. Period * n \in Nat /\ 0 < Period * n /\ Period * n <= Period * (MaxLevel + 1)
  <2> HIDE DEF n
  <2> QED BY <1>1, TimeAssumption
<1>3. StopTicks(level) = Lead + Period * n
  BY DEF StopTicks
<1>4. Period * (MaxLevel + 1) \in Nat
  BY LevelAssumption, TimeAssumption
<1> HIDE DEF n
<1> QED BY <1>2, <1>3, <1>4, TimeAssumption

(* A whole train shows the level it was made for: one pulse more than the  *)
(* levels below the top, and what is left of the top (display.cpp:158).    *)
LEMMA TrainShows ==
  ASSUME NEW level \in Levels
  PROVE  MaxLevel + 1 - ((StopTicks(level) - Lead) \div Period) = level
<1> DEFINE n == MaxLevel - level + 1
<1>1. n \in Nat
  BY LevelAssumption DEF Levels
<1>2. Period * n \in Nat /\ Period \in Nat /\ Period > 0
  BY <1>1, TimeAssumption
<1>3. StopTicks(level) - Lead = Period * n
  <2>1. StopTicks(level) = Lead + Period * n
    BY DEF StopTicks
  <2> HIDE DEF n
  <2> QED BY <1>2, <2>1, TimeAssumption
<1>4. (Period * n) \div Period = n
  <2> HIDE DEF n
  <2> QED BY <1>1, <1>2
<1> QED BY <1>3, <1>4, LevelAssumption DEF Levels

(* Before on() there is no train and no request (display.hpp:42-43).       *)
LEMMA InitInv == Init => BrightInv
  BY LevelAssumption, TimeAssumption
     DEF Init, BrightInv, TypeOK, Underway, Levels

(* Any value a caller passes is capped to a level (display.cpp:149).       *)
LEMMA CappedType == ASSUME NEW v \in Nat PROVE Capped(v) \in Levels
  BY LevelAssumption DEF Capped, Levels

(* Every statement of either caller, and every tick, preserves it.         *)
LEMMA NextInv == BrightInv /\ [Next]_vars => BrightInv'
<1> SUFFICES ASSUME BrightInv, [Next]_vars PROVE BrightInv'
  OBVIOUS
<1> USE LevelAssumption, TimeAssumption
<1> USE DEF BrightInv, TypeOK, Underway
<1>1. CASE UNCHANGED vars
  BY <1>1 DEF vars, request, timer, train
<1>2. CASE Button2
  <2>1. _brightness' \in Levels
    BY <1>2, CappedType DEF Button2
  <2>2. b' \in 0..(MaxLevel - 1)
    BY <1>2 DEF Button2
  <2> QED BY <1>2, <2>1, <2>2 DEF Button2, timer, train
<1>3. CASE Button2Cancel
  BY <1>3 DEF Button2Cancel, train
<1>4. CASE Button2Schedule
  BY <1>4 DEF Button2Schedule, Schedule, train
<1>5. ASSUME NEW v \in Sliders, Slide(v) PROVE BrightInv'
  <2>1. _brightness' \in Levels
    BY <1>5, CappedType, SliderAssumption DEF Slide, SetBrightness
  <2> QED BY <1>5, <2>1 DEF Slide, SetBrightness, train
<1>6. CASE On
  <2>1. _brightness' \in Levels
    BY <1>6, CappedType DEF On, SetBrightness, Levels
  <2> QED BY <1>6, <2>1 DEF On, SetBrightness, train
<1>7. CASE DoSetBrightness
  <2>1. counter = "stopped"
    <3>1. SUFFICES ASSUME counter = "running" PROVE FALSE
      BY Zenon
    <3>2. PICK level \in Levels : stop_ticks = StopTicks(level)
      BY <3>1
    <3>3. due + elapsed >= Delay /\ due = 0 /\ elapsed < stop_ticks
      BY <1>7, <3>1 DEF DoSetBrightness
    <3> QED BY <3>2, <3>3, StopTicksType
  <2>2. /\ stop_ticks' = StopTicks(_brightness)
        /\ elapsed' = 0
        /\ counter' = "running"
        /\ _brightness_work' = "idle" /\ due' = 0
        /\ UNCHANGED <<_state, _brightness, _last_brightness, b, input, shown>>
    BY <1>7, <2>1 DEF DoSetBrightness, request
  <2>3. StopTicks(_brightness) \in Nat /\ Lead < StopTicks(_brightness) /\ StopTicks(_brightness) < Delay
    BY StopTicksType
  <2> QED BY <2>2, <2>3
<1>8. CASE TickTrain
  <2>1. PICK level \in Levels : stop_ticks = StopTicks(level)
    BY <1>8 DEF TickTrain
  <2>2. stop_ticks < Delay
    BY <2>1, StopTicksType
  <2> QED BY <1>8, <2>2 DEF TickTrain, Down, request
<1>9. CASE AlarmStop
  <2>1. PICK level \in Levels : stop_ticks = StopTicks(level)
    BY <1>9 DEF AlarmStop
  <2>2. shown' = level
    BY <1>9, <2>1, TrainShows DEF AlarmStop
  <2>3. stop_ticks < Delay
    BY <2>1, StopTicksType
  <2>4. ~Underway => level = _brightness
    <3>1. SUFFICES ASSUME ~Underway PROVE level = _brightness
      OBVIOUS
    <3>2. stop_ticks = StopTicks(_brightness)
      BY <1>9, <3>1 DEF AlarmStop
    <3> QED BY <2>1, <3>2, TrainShows
  <2> QED BY <1>9, <2>2, <2>3, <2>4 DEF AlarmStop, Down, request
<1>10. CASE TickQuiet
  BY <1>10 DEF TickQuiet, Down, request, train
<1> QED BY <1>1, <1>2, <1>3, <1>4, <1>5, <1>6, <1>7, <1>8, <1>9, <1>10 DEF Next

(* The inductive invariant of the backlight, for any number of levels.     *)
THEOREM BrightInvariant == Spec => []BrightInv
  BY InitInv, NextInv, PTL DEF Spec

(* No request is lost between the two callers (display.cpp:147-167).       *)
THEOREM BacklightSettles == Spec => []Settled
<1>1. BrightInv => Settled
  BY DEF BrightInv, Settled, Underway
<1> QED BY <1>1, BrightInvariant, PTL

(* The 20 ms outlast the longest train: no alarm of do_set_brightness is   *)
(* refused, though nobody looks at what it returns (display.cpp:163-165).  *)
THEOREM NoTrainCutShort == Spec => TrainsApart
<1>1. BrightInv /\ DoSetBrightness => counter = "stopped"
  <2>1. SUFFICES ASSUME BrightInv, DoSetBrightness, counter = "running"
                 PROVE  FALSE
    BY DEF BrightInv, TypeOK
  <2>2. PICK level \in Levels : stop_ticks = StopTicks(level)
    BY <2>1 DEF BrightInv
  <2>3. due + elapsed >= Delay /\ due = 0 /\ elapsed < stop_ticks
    BY <2>1 DEF BrightInv, DoSetBrightness
  <2> QED BY <2>1, <2>2, <2>3, StopTicksType, TimeAssumption DEF BrightInv, TypeOK
<1>2. BrightInv /\ [Next]_vars => [DoSetBrightness => counter = "stopped"]_vars
  BY <1>1
<1> QED BY <1>2, BrightInvariant, PTL DEF Spec, TrainsApart

-----------------------------------------------------------------------------
(* The panel's driver: where a call is, by what it has still to do.        *)
Rest(list) == SubSeq(list, Len(list) - Len(todo) + 1, Len(list))
In(list) == Len(todo) <= Len(list) /\ todo = Rest(list)
Left == Len(todo)

OnList == PmAction("active") \o <<Command("DISPON")>>
SleepList == <<Command("DISPOFF")>> \o PmAction("suspended")

AwakeIf(awake) == bus = IF awake THEN "active" ELSE "suspended"
Good(kinds) == kinds \cap fails = {}

(* What the boot has told the panel when n steps are left of it, if no     *)
(* transfer failed; nobody else writes to it, so what it was told it keeps.*)
Told(p, n) ==
  /\ p.frame = Screen
  /\ n <= 18 => "INREGEN2" \in p.open
  /\ n <= 16 => "INREGEN1" \in p.open
  /\ n <= 14 => "vendor" \in p.regs
  /\ n <= 13 => "MADCTL" \in p.regs
  /\ n <= 12 => "PIXFMT" \in p.regs
  /\ n <= 10 => "TEON" \in p.regs
  /\ n <= 9 => "INVON" \in p.regs
  /\ n = 6 => p.cmd = "RAMWR"
  /\ n <= 5 => \A x \in Blocks : p.ram[x] = "black"
  /\ n <= 4 => p.disp = "on"
  /\ n <= 2 => p.slp = "out"

BootInv ==
  /\ In(InitDisplay) /\ display = "Sleep" /\ pm = "active"
  /\ AwakeIf(Left > 0)
  /\ drawn = {} /\ asked = Rotation /\ panel.madctl = Rotation
  /\ Good({"boot"}) => Told(panel, Left)

(* on(): either the panel is resumed first, or it was awake already.       *)
OnInv ==
  /\ In(OnList) /\ display = "On"
  /\ AwakeIf(Left \in 3..6)
  /\ Left > 1 => pm = "suspended"
  /\ Left \in {2, 3} /\ Good({"on"}) => err = "ok"
  /\ Left <= 1 /\ Good({"on"}) => pm = "active"
  /\ ran \/ ~Good({"boot", "sleep"})
  /\ ran /\ Good({"on"}) =>
       /\ Left <= 5 => panel.slp = "out"
       /\ Left <= 3 => panel.disp = "on"

SleepInv ==
  /\ display = "Sleep" /\ "boot" \notin fails
  /\ \/ /\ In(SleepList) /\ ran
        /\ AwakeIf(Left \in 2..4)
        /\ Left > 0 => pm = "active"
        /\ Left \in {1, 2} /\ Good({"sleep"}) => err = "ok"
        /\ Left = 0 /\ Good({"sleep"}) => pm = "suspended"
        /\ Good({"sleep"}) => /\ Left <= 3 => panel.disp = "off"
                              /\ Left <= 2 => panel.slp = "in"
     \/ /\ In(<<Command("DISPOFF")>>) /\ AwakeIf(FALSE)
        /\ pm = "suspended" /\ ~Good({"on"}) /\ ~ran

(* Between on() and sleep() the panel stays on.                            *)
StaysOn ==
  /\ display = "On"
  /\ Good({"on"}) => pm = "active"
  /\ ran \/ ~Good({"boot", "sleep"})
  /\ ran /\ Good({"on"}) => panel.slp = "out" /\ panel.disp = "on"

(* While an area is drawn the panel's frame is, or comes to be, the area.  *)
DrawInv ==
  /\ StaysOn
  /\ \E area \in Areas :
       /\ In(WriteBuf(area))
       /\ AwakeIf(Left \in 1..4)
       /\ IF Good({"draw"})
          THEN /\ Left <= 3 => panel.frame[1] = area[1]
               /\ Left <= 2 => panel.frame[2] = area[2]
          ELSE drawn = {}

OrientInv ==
  /\ StaysOn
  /\ In(SetOrientation(asked))
  /\ AwakeIf(Left \in 1..2)

CallInv == CASE call = "boot" -> BootInv
             [] call = "on" -> OnInv
             [] call = "sleep" -> SleepInv
             [] call = "draw" -> DrawInv
             [] OTHER -> OrientInv

(* What is common to the calls: SLPOUT is followed by a wait.              *)
Transfers ==
  {Command(c) : c \in {"INREGEN1", "INREGEN2", "INVON", "RAMWR",
                       "DISPON", "DISPOFF", "SLPIN", "SLPOUT"}}
  \cup {Vendor, Transfer("PIXFMT", Data("value", 5)), Transfer("TEON", Data("value", 0)),
        Transfer("", Data("black", Screen))}
  \cup {Transfer("MADCTL", Data("value", o)) : o \in Orientations}
  \cup {Transfer("CASET", Data("cols", area[1])) : area \in Areas}
  \cup {Transfer("PASET", Data("rows", area[2])) : area \in Areas}
  \cup {Transfer("RAMWR", Data("pixels", area)) : area \in Areas}
Ops == Transfers \cup {Wake, Release, Msleep, Becomes("active"), Becomes("suspended")}

Waits == \A i \in 1..Len(todo) :
           todo[i].cmd = "SLPOUT" => i < Len(todo) /\ todo[i + 1].do = "msleep"
Settles == panel.settling => todo # <<>> /\ Head(todo).do = "msleep"
Oriented == Good({"orient"}) /\ ~(call = "orient" /\ Left > 1) => panel.madctl = asked

DriverInv == /\ Gc9TypeOK /\ todo \in Seq(Ops) /\ CallInv
             /\ Waits /\ Settles /\ Oriented /\ PictureKept

-----------------------------------------------------------------------------
(* What the panel makes of a transfer.                                     *)

(* The shapes of what the driver sends, and of what is left of it when the *)
(* transfer fails.                                                         *)
TransferShape(e) ==
  /\ e.cmd \in Commands
  /\ e.data.is \in {"none", "value", "cols", "rows", "pixels", "black", "noise"}
  /\ e.cmd = "" => e.data.is \in {"black", "noise"}
  /\ e.data.is \in {"black", "noise"} => e.cmd \in {"", "RAMWR"}
  /\ e.data.is = "value" => e.cmd \in {"vendor", "PIXFMT", "TEON", "MADCTL"}
  /\ e.cmd = "MADCTL" => e.data.of \in Orientations
  /\ e.data.is = "cols" => e.cmd = "CASET" /\ e.data.of \subseteq Cols
  /\ e.data.is = "rows" => e.cmd = "PASET" /\ e.data.of \subseteq Rows
  /\ e.data.is = "pixels" => e.cmd = "RAMWR"
TornShape(e) ==
  /\ Torn(e).cmd = e.cmd /\ Torn(e).data.of = e.data.of
  /\ Torn(e).data.is = IF e.data.is \in {"pixels", "black"} THEN "noise" ELSE e.data.is

LEMMA TransferOf ==
  ASSUME NEW c, NEW is, NEW of
  PROVE  LET e == Transfer(c, Data(is, of))
         IN  e.do = "send" /\ e.cmd = c /\ e.data.is = is /\ e.data.of = of /\ TornShape(e)
<1>1. LET e == Transfer(c, Data(is, of))
      IN  e.do = "send" /\ e.cmd = c /\ e.data.is = is /\ e.data.of = of
  BY DEF Transfer, Data
<1>2. CASE is \in {"pixels", "black"}
  <2>1. Torn(Transfer(c, Data(is, of))) = Transfer(c, Data("noise", of))
    BY <1>2 DEF Torn, Transfer, Data
  <2>2. LET e == Transfer(c, Data("noise", of))
        IN  e.cmd = c /\ e.data.is = "noise" /\ e.data.of = of
    BY DEF Transfer, Data
  <2> QED BY <1>1, <1>2, <2>1, <2>2 DEF TornShape
<1>3. CASE is \notin {"pixels", "black"}
  <2>1. Torn(Transfer(c, Data(is, of))) = Transfer(c, Data(is, of))
    BY <1>1, <1>3 DEF Torn
  <2> QED BY <1>1, <1>3, <2>1 DEF TornShape
<1> QED BY <1>1, <1>2, <1>3

LEMMA TransferFacts ==
  ASSUME NEW e \in Transfers
  PROVE  /\ e.do = "send" /\ TransferShape(e)
         /\ TransferShape(Torn(e)) /\ Torn(e).cmd = e.cmd
<1>1. CASE e \in {Command(c) : c \in {"INREGEN1", "INREGEN2", "INVON", "RAMWR",
                                     "DISPON", "DISPOFF", "SLPIN", "SLPOUT"}}
  <2>1. PICK c \in {"INREGEN1", "INREGEN2", "INVON", "RAMWR",
                    "DISPON", "DISPOFF", "SLPIN", "SLPOUT"} : e = Transfer(c, Data("none", 0))
    BY <1>1 DEF Command, NoData
  <2>2. e.do = "send" /\ e.cmd = c /\ e.data.is = "none" /\ e.data.of = 0 /\ TornShape(e)
    BY <2>1, TransferOf
  <2> QED BY <2>2 DEF TransferShape, TornShape, Commands
<1>2. CASE e \in {Vendor, Transfer("PIXFMT", Data("value", 5)), Transfer("TEON", Data("value", 0))}
  <2>1. PICK c \in {"vendor", "PIXFMT", "TEON"}, v \in Nat : e = Transfer(c, Data("value", v))
    BY <1>2 DEF Vendor
  <2>2. e.do = "send" /\ e.cmd = c /\ e.data.is = "value" /\ e.data.of = v /\ TornShape(e)
    BY <2>1, TransferOf
  <2> QED BY <2>2 DEF TransferShape, TornShape, Commands
<1>3. CASE e \in {Transfer("MADCTL", Data("value", o)) : o \in Orientations}
  <2>1. PICK o \in Orientations : e = Transfer("MADCTL", Data("value", o))
    BY <1>3
  <2>2. e.do = "send" /\ e.cmd = "MADCTL" /\ e.data.is = "value" /\ e.data.of = o /\ TornShape(e)
    BY <2>1, TransferOf
  <2> QED BY <2>2 DEF TransferShape, TornShape, Commands
<1>4. CASE e \in {Transfer("CASET", Data("cols", area[1])) : area \in Areas}
  <2>1. PICK cols \in SUBSET Cols : e = Transfer("CASET", Data("cols", cols))
    BY <1>4 DEF Areas
  <2>2. e.do = "send" /\ e.cmd = "CASET" /\ e.data.is = "cols" /\ e.data.of = cols /\ TornShape(e)
    BY <2>1, TransferOf
  <2> QED BY <2>2 DEF TransferShape, TornShape, Commands
<1>5. CASE e \in {Transfer("PASET", Data("rows", area[2])) : area \in Areas}
  <2>1. PICK rows \in SUBSET Rows : e = Transfer("PASET", Data("rows", rows))
    BY <1>5 DEF Areas
  <2>2. e.do = "send" /\ e.cmd = "PASET" /\ e.data.is = "rows" /\ e.data.of = rows /\ TornShape(e)
    BY <2>1, TransferOf
  <2> QED BY <2>2 DEF TransferShape, TornShape, Commands
<1>6. CASE e \in {Transfer("RAMWR", Data("pixels", area)) : area \in Areas}
  <2>1. PICK area \in Areas : e = Transfer("RAMWR", Data("pixels", area))
    BY <1>6
  <2>2. e.do = "send" /\ e.cmd = "RAMWR" /\ e.data.is = "pixels" /\ e.data.of = area /\ TornShape(e)
    BY <2>1, TransferOf
  <2> QED BY <2>2 DEF TransferShape, TornShape, Commands
<1>7. CASE e = Transfer("", Data("black", Screen))
  <2>1. PICK area : e = Transfer("", Data("black", area))
    BY <1>7
  <2>2. e.do = "send" /\ e.cmd = "" /\ e.data.is = "black" /\ TornShape(e)
    <3>1. e.do = "send" /\ e.cmd = "" /\ e.data.is = "black"
      BY <2>1 DEF Transfer, Data
    <3>2. TornShape(e)
      BY <2>1, TransferOf
    <3> QED BY <3>1, <3>2
  <2> QED BY <2>2 DEF TransferShape, TornShape, Commands
<1> QED BY <1>1, <1>2, <1>3, <1>4, <1>5, <1>6, <1>7 DEF Transfers

(* A command.                                                              *)
CommandDoes(p, c, q) ==
  /\ q \in Panels /\ q.cmd = c
  /\ q.slp = (CASE c = "SLPIN" -> "in" [] c = "SLPOUT" -> "out" [] OTHER -> p.slp)
  /\ q.disp = (CASE c = "DISPON" -> "on" [] c = "DISPOFF" -> "off" [] OTHER -> p.disp)
  /\ q.settling = (p.settling \/ c = "SLPOUT")
  /\ q.open = p.open \cup ({c} \cap {"INREGEN1", "INREGEN2"})
  /\ q.regs = p.regs \cup ({c} \cap {"INVON"})
  /\ q.madctl = p.madctl /\ q.frame = p.frame /\ q.ram = p.ram

LEMMA CommandHeard ==
  ASSUME NEW p \in Panels, NEW c \in Commands
  PROVE  CommandDoes(p, c, HearCmd(p, c))
<1> DEFINE slp == CASE c = "SLPIN" -> "in" [] c = "SLPOUT" -> "out" [] OTHER -> p.slp
           disp == CASE c = "DISPON" -> "on" [] c = "DISPOFF" -> "off" [] OTHER -> p.disp
           open == p.open \cup ({c} \cap {"INREGEN1", "INREGEN2"})
           regs == p.regs \cup ({c} \cap {"INVON"})
           settling == p.settling \/ c = "SLPOUT"
<1>1. HearCmd(p, c) = [p EXCEPT !.cmd = c, !.slp = slp, !.disp = disp,
                                !.settling = settling, !.open = open, !.regs = regs]
  BY DEF HearCmd
<1>2. slp \in {"in", "out"} /\ disp \in {"on", "off"}
  BY DEF Panels
<1>3. open \in SUBSET {"INREGEN1", "INREGEN2"} /\ regs \in SUBSET Registers
  BY DEF Panels, Registers
<1>4. settling \in BOOLEAN
  OBVIOUS
<1> HIDE DEF slp, disp, open, regs, settling
<1>5. LET q == HearCmd(p, c)
      IN  /\ q \in Panels /\ q.cmd = c /\ q.slp = slp /\ q.disp = disp
          /\ q.settling = settling /\ q.open = open /\ q.regs = regs
          /\ q.madctl = p.madctl /\ q.frame = p.frame /\ q.ram = p.ram
  BY <1>1, <1>2, <1>3, <1>4, ZenonT(30) DEF Panels
<1> QED BY <1>5 DEF slp, disp, open, regs, settling, CommandDoes

(* Data, whatever command the panel takes them to belong to: they change   *)
(* the frame, the pixels or one register.                                  *)
DataDoes(p, d, q) ==
  /\ q \in Panels
  /\ q.slp = p.slp /\ q.disp = p.disp /\ q.settling = p.settling /\ q.cmd = p.cmd
  /\ q.open = p.open
  /\ q.frame = IF p.cmd \in {"CASET", "PASET"} THEN FrameFor(p, d) ELSE p.frame
  /\ p.cmd # "RAMWR" => q.ram = p.ram
  /\ p.cmd = "RAMWR" => \A x \in Blocks :
        q.ram[x] = IF x \notin BlocksOf(p.frame) THEN p.ram[x]
                   ELSE IF d.is # "pixels" THEN d.is
                   ELSE IF d.of = p.frame THEN "own" ELSE "foreign"
  /\ q.regs = IF p.cmd \in Registers /\ d.is = "value"
                 /\ (p.cmd = "vendor" => p.open = {"INREGEN1", "INREGEN2"})
              THEN p.regs \cup {p.cmd} ELSE p.regs
  /\ q.madctl = IF p.cmd = "MADCTL" /\ d.is = "value" THEN d.of ELSE p.madctl

LEMMA DataHeard ==
  ASSUME NEW p \in Panels, NEW d,
         d.is = "cols" => d.of \subseteq Cols,
         d.is = "rows" => d.of \subseteq Rows,
         p.cmd = "MADCTL" /\ d.is = "value" => d.of \in Orientations,
         p.cmd = "RAMWR" => d.is \in {"pixels", "black", "noise"}
  PROVE  DataDoes(p, d, HearData(p, d))
<1>frame. p.frame \in (SUBSET Cols) \X (SUBSET Rows)
  BY DEF Panels
<1>1. CASE p.cmd \in {"CASET", "PASET"}
  <2>1. HearData(p, d) = [p EXCEPT !.frame = FrameFor(p, d)]
    <3>1. p.cmd # "RAMWR" /\ p.cmd \notin Registers
      BY <1>1 DEF Registers
    <3> QED BY <1>1, <3>1, Zenon DEF HearData
  <2>2. FrameFor(p, d) \in (SUBSET Cols) \X (SUBSET Rows)
    BY <1>frame DEF FrameFor, Bounds
  <2>3. LET q == HearData(p, d)
        IN  /\ q \in Panels
            /\ q.slp = p.slp /\ q.disp = p.disp /\ q.settling = p.settling /\ q.cmd = p.cmd
            /\ q.open = p.open /\ q.frame = FrameFor(p, d) /\ q.ram = p.ram
            /\ q.regs = p.regs /\ q.madctl = p.madctl
    BY <2>1, <2>2 DEF Panels
  <2> QED BY <1>1, <2>3 DEF Registers, DataDoes
<1>3. CASE p.cmd = "RAMWR"
  <2> DEFINE pixel(x) == IF x \notin BlocksOf(p.frame) THEN p.ram[x]
                         ELSE IF d.is # "pixels" THEN d.is
                         ELSE IF d.of = p.frame THEN "own" ELSE "foreign"
             ram == [x \in Blocks |-> pixel(x)]
  <2>1. HearData(p, d) = [p EXCEPT !.ram = ram]
    BY <1>3 DEF HearData
  <2>2. \A x \in Blocks : ram[x] = pixel(x)
    OBVIOUS
  <2>3. ram \in [Blocks -> {"noise", "black", "own", "foreign"}]
    BY <1>3 DEF Panels
  <2> HIDE DEF ram
  <2>4. LET q == HearData(p, d)
        IN  /\ q \in Panels
            /\ q.slp = p.slp /\ q.disp = p.disp /\ q.settling = p.settling /\ q.cmd = p.cmd
            /\ q.open = p.open /\ q.frame = p.frame /\ q.ram = ram
            /\ q.regs = p.regs /\ q.madctl = p.madctl
    BY <2>1, <2>3 DEF Panels
  <2> QED BY <1>3, <2>2, <2>4 DEF Registers, DataDoes
<1>4. CASE p.cmd \notin {"CASET", "PASET", "RAMWR"}
  <2> DEFINE taken == p.cmd \in Registers /\ d.is = "value"
                      /\ (p.cmd = "vendor" => p.open = {"INREGEN1", "INREGEN2"})
             regs == IF taken THEN p.regs \cup {p.cmd} ELSE p.regs
             madctl == IF p.cmd = "MADCTL" /\ d.is = "value" THEN d.of ELSE p.madctl
  <2>1. HearData(p, d) = [p EXCEPT !.regs = regs, !.madctl = madctl]
    <3>1. CASE taken
      BY <1>4, <3>1 DEF HearData
    <3>2. CASE ~taken
      <4>1. HearData(p, d) = p /\ regs = p.regs /\ madctl = p.madctl
        BY <1>4, <3>2 DEF HearData, Registers
      <4> QED BY <4>1 DEF Panels
    <3> QED BY <3>1, <3>2
  <2>2. regs \in SUBSET Registers /\ madctl \in Orientations
    BY DEF Panels
  <2>3. CASE TRUE
    <3> HIDE DEF regs, madctl
    <3>1. LET q == HearData(p, d)
          IN  /\ q \in Panels
              /\ q.slp = p.slp /\ q.disp = p.disp /\ q.settling = p.settling /\ q.cmd = p.cmd
              /\ q.open = p.open /\ q.frame = p.frame /\ q.ram = p.ram
              /\ q.regs = regs /\ q.madctl = madctl
      BY <2>1, <2>2, ZenonT(30) DEF Panels
    <3> QED BY <1>4, <3>1 DEF regs, madctl, DataDoes
  <2> QED BY <2>3
<1> QED BY <1>1, <1>3, <1>4

(* What no transfer changes, heard as it was sent or torn: registers, once *)
(* written, stay so, and each command has its own part of the panel.       *)
Leaves(p, e, q) ==
  /\ q \in Panels
  /\ e.cmd \notin {"SLPIN", "SLPOUT"} => q.slp = p.slp
  /\ e.cmd \notin {"DISPON", "DISPOFF"} => q.disp = p.disp
  /\ e.cmd = "DISPON" /\ p.disp = "on" => q.disp = "on"
  /\ q.settling => p.settling \/ e.cmd = "SLPOUT"
  /\ p.open \subseteq q.open /\ p.regs \subseteq q.regs
  /\ q.madctl = p.madctl \/ (e.cmd = "MADCTL" /\ q.madctl = e.data.of)
  /\ e.cmd \notin {"CASET", "PASET", ""} => q.frame = p.frame
  /\ e.cmd \notin {"RAMWR", ""} => q.ram = p.ram

LEMMA FirstLeaves ==
  ASSUME NEW p \in Panels, NEW e, TransferShape(e)
  PROVE  /\ Leaves(p, e, HearFirst(p, e))
         /\ HearFirst(p, e).cmd = (IF e.cmd = "" THEN p.cmd ELSE e.cmd)
         /\ HearFirst(p, e).ram = p.ram /\ HearFirst(p, e).frame = p.frame
         /\ HearFirst(p, e).madctl = p.madctl
<1>1. CASE e.cmd = ""
  <2>1. HearFirst(p, e) = p
    BY <1>1 DEF HearFirst
  <2> QED BY <1>1, <2>1 DEF Leaves
<1>2. CASE e.cmd # ""
  <2>1. HearFirst(p, e) = HearCmd(p, e.cmd) /\ e.cmd \in Commands
    BY <1>2 DEF HearFirst, TransferShape
  <2>2. CommandDoes(p, e.cmd, HearFirst(p, e))
    BY <2>1, CommandHeard
  <2> QED BY <1>2, <2>2 DEF CommandDoes, Leaves
<1> QED BY <1>1, <1>2

LEMMA HearLeaves ==
  ASSUME NEW p \in Panels, NEW e, TransferShape(e)
  PROVE  Leaves(p, e, Hear(p, e))
<1> DEFINE r == HearFirst(p, e)
           q == HearData(r, e.data)
<1>1. /\ Leaves(p, e, r) /\ r.cmd = (IF e.cmd = "" THEN p.cmd ELSE e.cmd)
      /\ r.ram = p.ram /\ r.frame = p.frame /\ r.madctl = p.madctl
  BY FirstLeaves
<1>2. CASE e.data.is = "none"
  BY <1>1, <1>2 DEF Hear
<1>3. CASE e.data.is # "none"
  <2>1. Hear(p, e) = q
    BY <1>3 DEF Hear
  <2>2. r \in Panels
    BY <1>1 DEF Leaves
  <2>3. /\ e.data.is = "cols" => e.data.of \subseteq Cols
        /\ e.data.is = "rows" => e.data.of \subseteq Rows
        /\ r.cmd = "MADCTL" /\ e.data.is = "value" => e.data.of \in Orientations
        /\ r.cmd = "RAMWR" => e.data.is \in {"pixels", "black", "noise"}
    BY <1>1, <1>3 DEF TransferShape
  <2> HIDE DEF r
  <2>4. /\ q \in Panels
        /\ q.slp = r.slp /\ q.disp = r.disp /\ q.settling = r.settling /\ q.open = r.open
        /\ r.cmd \notin {"CASET", "PASET"} => q.frame = r.frame
        /\ r.cmd # "RAMWR" => q.ram = r.ram
        /\ r.regs \subseteq q.regs
        /\ q.madctl = IF r.cmd = "MADCTL" /\ e.data.is = "value" THEN e.data.of ELSE r.madctl
    <3>1. DataDoes(r, e.data, q)
      BY <2>2, <2>3, DataHeard
    <3> HIDE DEF q
    <3> QED BY <3>1 DEF DataDoes
  <2>5. e.cmd = "" => e.data.is # "value"
    BY DEF TransferShape
  <2> HIDE DEF q
  <2> QED BY <1>1, <2>1, <2>4, <2>5 DEF Leaves
<1> QED BY <1>2, <1>3

LEMMA HeardLeaves ==
  ASSUME NEW p \in Panels, NEW e \in Transfers, NEW q \in HeardOf(p, e)
  PROVE  Leaves(p, e, q)
<1>1. TransferShape(e) /\ TransferShape(Torn(e)) /\ Torn(e).cmd = e.cmd
  BY TransferFacts
<1>2. CASE q = p
  BY <1>2 DEF Leaves
<1>3. CASE q = HearFirst(p, e)
  BY <1>1, <1>3, FirstLeaves
<1>4. CASE q = Hear(p, e)
  BY <1>1, <1>4, HearLeaves
<1>5. CASE q = Hear(p, Torn(e))
  <2>1. Leaves(p, Torn(e), q)
    BY <1>1, <1>5, HearLeaves
  <2>2. e.cmd = "MADCTL" => Torn(e) = e
    BY <1>1 DEF TransferShape, Torn
  <2> QED BY <1>1, <2>1, <2>2 DEF Leaves
<1> QED BY <1>2, <1>3, <1>4, <1>5 DEF HeardOf

(* What a transfer that succeeds does.                                     *)
LEMMA CommandSent ==
  ASSUME NEW p \in Panels, NEW c \in Commands, c # ""
  PROVE  LET q == Hear(p, Command(c))
         IN  /\ q.cmd = c
             /\ c = "SLPOUT" => q.slp = "out"
             /\ c = "SLPIN" => q.slp = "in"
             /\ c = "DISPON" => q.disp = "on"
             /\ c = "DISPOFF" => q.disp = "off"
             /\ c \in {"INREGEN1", "INREGEN2"} => c \in q.open
             /\ c = "INVON" => c \in q.regs
<1>1. Command(c).cmd = c /\ Command(c).data.is = "none"
  BY DEF Command, NoData, Transfer, Data
<1>2. Hear(p, Command(c)) = HearCmd(p, c)
  BY <1>1 DEF Hear, HearFirst
<1>3. CommandDoes(p, c, HearCmd(p, c))
  BY CommandHeard
<1> QED BY <1>2, <1>3 DEF CommandDoes

LEMMA DataSent ==
  ASSUME NEW p \in Panels, NEW c \in Commands, c # "", c # "RAMWR", NEW is, NEW of, is # "none",
         is = "cols" => of \subseteq Cols,
         is = "rows" => of \subseteq Rows,
         c = "MADCTL" /\ is = "value" => of \in Orientations
  PROVE  LET q == Hear(p, Transfer(c, Data(is, of)))
         IN  /\ c = "CASET" /\ is = "cols" => q.frame = <<of, p.frame[2]>>
             /\ c = "PASET" /\ is = "rows" => q.frame = <<p.frame[1], of>>
             /\ c \in {"PIXFMT", "TEON", "MADCTL"} /\ is = "value" => c \in q.regs
             /\ c = "vendor" /\ is = "value" /\ p.open = {"INREGEN1", "INREGEN2"} => c \in q.regs
             /\ c = "MADCTL" /\ is = "value" => q.madctl = of
<1> DEFINE r == HearCmd(p, c)
           d == Data(is, of)
<1>1. r \in Panels /\ r.cmd = c /\ r.frame = p.frame /\ (c = "vendor" => r.open = p.open)
  <2>1. CommandDoes(p, c, r)
    BY CommandHeard
  <2> HIDE DEF r
  <2> QED BY <2>1 DEF CommandDoes
<1>2. d.is = is /\ d.of = of
  BY DEF Data
<1>3. Hear(p, Transfer(c, d)) = HearData(r, d)
  BY <1>2, TransferOf DEF Hear, HearFirst, Transfer
<1> HIDE DEF r, d
<1>4. LET q == HearData(r, d)
      IN  /\ r.cmd \in {"CASET", "PASET"} => q.frame = FrameFor(r, d)
          /\ q.regs = IF r.cmd \in Registers /\ d.is = "value"
                         /\ (r.cmd = "vendor" => r.open = {"INREGEN1", "INREGEN2"})
                      THEN r.regs \cup {r.cmd} ELSE r.regs
          /\ q.madctl = IF r.cmd = "MADCTL" /\ d.is = "value" THEN d.of ELSE r.madctl
  <2>1. DataDoes(r, d, HearData(r, d))
    BY <1>1, <1>2, DataHeard
  <2> QED BY <2>1, <1>1 DEF DataDoes
<1>5. Hear(p, Transfer(c, Data(is, of))) = HearData(r, d)
  BY <1>3 DEF d
<1> QED BY <1>1, <1>2, <1>4, <1>5 DEF FrameFor, Bounds, Registers

(* Pixels for an area that is the panel's frame fill that area.            *)
LEMMA PixelsSent ==
  ASSUME NEW p \in Panels, NEW area
  PROVE  LET q == Hear(p, Transfer("RAMWR", Data("pixels", area)))
         IN  \A x \in Blocks : q.ram[x] = IF x \notin BlocksOf(p.frame) THEN p.ram[x]
                                          ELSE IF area = p.frame THEN "own" ELSE "foreign"
<1> DEFINE r == HearCmd(p, "RAMWR")
           d == Data("pixels", area)
<1>1. r \in Panels /\ r.cmd = "RAMWR" /\ r.frame = p.frame /\ r.ram = p.ram
  <2>1. CommandDoes(p, "RAMWR", r)
    BY CommandHeard DEF Commands
  <2> HIDE DEF r
  <2> QED BY <2>1 DEF CommandDoes
<1>2. d.is = "pixels" /\ d.of = area
  BY DEF Data
<1>3. Hear(p, Transfer("RAMWR", d)) = HearData(r, d)
  BY <1>2, TransferOf DEF Hear, HearFirst, Transfer
<1> HIDE DEF r, d
<1>4. LET q == HearData(r, d)
      IN  \A x \in Blocks : q.ram[x] = IF x \notin BlocksOf(r.frame) THEN r.ram[x]
                                       ELSE IF d.is # "pixels" THEN d.is
                                       ELSE IF d.of = r.frame THEN "own" ELSE "foreign"
  <2>1. DataDoes(r, d, HearData(r, d))
    BY <1>1, <1>2, DataHeard
  <2> QED BY <2>1, <1>1 DEF DataDoes
<1>5. Hear(p, Transfer("RAMWR", Data("pixels", area))) = HearData(r, d)
  BY <1>3 DEF d
<1> QED BY <1>1, <1>2, <1>4, <1>5

(* gc9a01_clear's pixels, after RAMWR and a frame that is the screen.      *)
LEMMA BlackSent ==
  ASSUME NEW p \in Panels, p.cmd = "RAMWR", p.frame = Screen
  PROVE  LET q == Hear(p, Transfer("", Data("black", Screen)))
         IN  q.frame = Screen /\ \A x \in Blocks : q.ram[x] = "black"
<1> DEFINE d == Data("black", Screen)
<1>1. d.is = "black"
  BY DEF Data
<1>2. Hear(p, Transfer("", d)) = HearData(p, d)
  BY <1>1 DEF Hear, HearFirst, Transfer
<1> HIDE DEF d
<1>3. LET q == HearData(p, d)
      IN  /\ q.frame = p.frame
          /\ \A x \in Blocks : q.ram[x] = IF x \notin BlocksOf(p.frame) THEN p.ram[x]
                                          ELSE IF d.is # "pixels" THEN d.is
                                          ELSE IF d.of = p.frame THEN "own" ELSE "foreign"
  <2>1. DataDoes(p, d, HearData(p, d))
    BY <1>1, DataHeard
  <2> QED BY <2>1 DEF DataDoes
<1>4. BlocksOf(p.frame) = Blocks
  BY DEF BlocksOf, Screen, Blocks
<1>5. Hear(p, Transfer("", Data("black", Screen))) = HearData(p, d)
  BY <1>2 DEF d
<1> QED BY <1>1, <1>3, <1>4, <1>5

-----------------------------------------------------------------------------
(* The calls, step by step.                                                *)

LEMMA OpsHave ==
  /\ Wake \in Ops /\ Release \in Ops /\ Msleep \in Ops
  /\ Becomes("active") \in Ops /\ Becomes("suspended") \in Ops
  /\ \A c \in {"INREGEN1", "INREGEN2", "INVON", "RAMWR", "DISPON", "DISPOFF", "SLPIN", "SLPOUT"} :
       Command(c) \in Ops
  /\ Vendor \in Ops /\ Transfer("PIXFMT", Data("value", 5)) \in Ops
  /\ Transfer("TEON", Data("value", 0)) \in Ops /\ Transfer("", Data("black", Screen)) \in Ops
  /\ \A o \in Orientations : Transfer("MADCTL", Data("value", o)) \in Ops
  /\ \A area \in Areas : /\ Transfer("CASET", Data("cols", area[1])) \in Ops
                         /\ Transfer("PASET", Data("rows", area[2])) \in Ops
                         /\ Transfer("RAMWR", Data("pixels", area)) \in Ops
  BY DEF Ops, Transfers

LEMMA ScreenArea == Screen \in Areas /\ Screen[1] = Cols /\ Screen[2] = Rows
<1>1. <<Cols, Rows>> \in ((SUBSET Cols) \ {{}}) \X ((SUBSET Rows) \ {{}})
  <2>1. Cols \in (SUBSET Cols) \ {{}} /\ Rows \in (SUBSET Rows) \ {{}}
    BY PanelAssumption
  <2> QED BY <2>1
<1> QED BY <1>1 DEF Screen, Areas

LEMMA SeqOf ==
  ASSUME NEW S
  PROVE  /\ \A a \in S : <<a>> \in Seq(S)
         /\ \A a, b2 \in S : <<a, b2>> \in Seq(S)
         /\ \A a, b2, c \in S : <<a, b2, c>> \in Seq(S)
         /\ \A s, t \in Seq(S) : s \o t \in Seq(S)
  OBVIOUS

LEMMA Joined ==
  ASSUME NEW S, NEW s \in Seq(S), NEW t \in Seq(S)
  PROVE  /\ s \o t \in Seq(S) /\ Len(s \o t) = Len(s) + Len(t)
         /\ \A i \in 1..Len(s) : (s \o t)[i] = s[i]
         /\ \A i \in (Len(s) + 1)..(Len(s) + Len(t)) : (s \o t)[i] = t[i - Len(s)]
<1>1. /\ s \o t \in Seq(S) /\ Len(s \o t) = Len(s) + Len(t)
      /\ \A i \in 1 .. Len(s) + Len(t) : (s \o t)[i] = IF i <= Len(s) THEN s[i] ELSE t[i - Len(s)]
  BY ConcatProperties, Zenon
<1>2. Len(s) \in Nat /\ Len(t) \in Nat
  OBVIOUS
<1> DEFINE u == s \o t
           m == Len(s)
           n == Len(t)
<1> HIDE DEF u, m, n
<1>3. m \in Nat /\ n \in Nat
  BY <1>2 DEF m, n
<1>4. \A i \in 1..(m + n) : u[i] = IF i <= m THEN s[i] ELSE t[i - m]
  BY <1>1 DEF u, m, n
<1>5. /\ \A i \in 1..m : u[i] = s[i]
      /\ \A i \in (m + 1)..(m + n) : u[i] = t[i - m]
  BY <1>3, <1>4
<1> QED BY <1>1, <1>5 DEF u, m, n

(* What each call does, and in which order (gc9a01.cpp:103-170, 274-342,   *)
(* 354-370, 406-430, 438-472; display.cpp:114-145).                        *)
LEMMA InitCmdsAre ==
  /\ InitCmds \in Seq(Ops) /\ Len(InitCmds) = 10
  /\ InitCmds[1] = Command("INREGEN2") /\ InitCmds[2] = Vendor
  /\ InitCmds[3] = Command("INREGEN1") /\ InitCmds[4] = Command("INREGEN2")
  /\ InitCmds[5] = Vendor /\ InitCmds[6] = Transfer("MADCTL", Data("value", Rotation))
  /\ InitCmds[7] = Transfer("PIXFMT", Data("value", 5)) /\ InitCmds[8] = Vendor
  /\ InitCmds[9] = Transfer("TEON", Data("value", 0)) /\ InitCmds[10] = Command("INVON")
<1> DEFINE in2 == Command("INREGEN2")
           in1 == Command("INREGEN1")
           mad == Transfer("MADCTL", Data("value", Rotation))
           fmt == Transfer("PIXFMT", Data("value", 5))
           teon == Transfer("TEON", Data("value", 0))
           inv == Command("INVON")
<1>1. in2 \in Ops /\ in1 \in Ops /\ mad \in Ops /\ fmt \in Ops /\ teon \in Ops /\ inv \in Ops /\ Vendor \in Ops
  BY OpsHave, PanelAssumption
<1>2. InitCmds = <<in2, Vendor, in1, in2, Vendor, mad, fmt, Vendor, teon, inv>>
  BY DEF InitCmds
<1> HIDE DEF in2, in1, mad, fmt, teon, inv
<1>3. /\ InitCmds \in Seq(Ops) /\ Len(InitCmds) = 10
      /\ InitCmds[1] = in2 /\ InitCmds[2] = Vendor /\ InitCmds[3] = in1 /\ InitCmds[4] = in2
      /\ InitCmds[5] = Vendor /\ InitCmds[6] = mad /\ InitCmds[7] = fmt /\ InitCmds[8] = Vendor
      /\ InitCmds[9] = teon /\ InitCmds[10] = inv
  BY <1>1, <1>2
<1> QED BY <1>3 DEF in2, in1, mad, fmt, teon, inv

LEMMA ClearIs ==
  /\ Clear \in Seq(Ops) /\ Len(Clear) = 4
  /\ Clear[1] = Transfer("CASET", Data("cols", Cols)) /\ Clear[2] = Transfer("PASET", Data("rows", Rows))
  /\ Clear[3] = Command("RAMWR") /\ Clear[4] = Transfer("", Data("black", Screen))
<1> DEFINE caset == Transfer("CASET", Data("cols", Cols))
           paset == Transfer("PASET", Data("rows", Rows))
           ramwr == Command("RAMWR")
           black == Transfer("", Data("black", Screen))
<1>1. caset \in Ops /\ paset \in Ops /\ ramwr \in Ops /\ black \in Ops
  <2>1. Transfer("CASET", Data("cols", Screen[1])) \in Ops /\ Transfer("PASET", Data("rows", Screen[2])) \in Ops
    BY OpsHave, ScreenArea
  <2> QED BY <2>1, OpsHave, ScreenArea
<1>2. Clear = <<caset, paset>> \o <<ramwr, black>>
  BY ScreenArea DEF Clear, SetFrame
<1> HIDE DEF caset, paset, ramwr, black
<1>3. Clear \in Seq(Ops)
  BY <1>1, <1>2, SeqOf
<1>4. Len(Clear) = 4 /\ Clear[1] = caset /\ Clear[2] = paset /\ Clear[3] = ramwr /\ Clear[4] = black
  BY <1>2
<1> QED BY <1>3, <1>4 DEF caset, paset, ramwr, black

LEMMA InitDisplayIs ==
  /\ InitDisplay \in Seq(Ops) /\ Len(InitDisplay) = 20
  /\ InitDisplay[1] = Wake
  /\ \A i \in 2..11 : InitDisplay[i] = InitCmds[i - 1]
  /\ \A i \in 12..15 : InitDisplay[i] = Clear[i - 11]
  /\ InitDisplay[16] = Command("DISPON") /\ InitDisplay[17] = Msleep
  /\ InitDisplay[18] = Command("SLPOUT") /\ InitDisplay[19] = Msleep /\ InitDisplay[20] = Release
<1> DEFINE dispon == Command("DISPON")
           slpout == Command("SLPOUT")
           end == <<dispon, Msleep, slpout, Msleep, Release>>
<1>1. dispon \in Ops /\ slpout \in Ops /\ Msleep \in Ops /\ Release \in Ops /\ Wake \in Ops
  BY OpsHave
<1>2. InitDisplay = <<Wake>> \o InitCmds \o Clear \o end
  BY DEF InitDisplay
<1> HIDE DEF dispon, slpout
<1>3. /\ end \in Seq(Ops) /\ Len(end) = 5
      /\ end[1] = dispon /\ end[2] = Msleep /\ end[3] = slpout /\ end[4] = Msleep /\ end[5] = Release
  BY <1>1
<1> HIDE DEF end
<1>4. /\ <<Wake>> \o InitCmds \in Seq(Ops) /\ Len(<<Wake>> \o InitCmds) = 11
      /\ (<<Wake>> \o InitCmds)[1] = Wake
      /\ \A i \in 2..11 : (<<Wake>> \o InitCmds)[i] = InitCmds[i - 1]
  <2>1. <<Wake>> \in Seq(Ops) /\ Len(<<Wake>>) = 1 /\ <<Wake>>[1] = Wake
    BY <1>1, SeqOf
  <2> DEFINE wake == <<Wake>>
  <2> HIDE DEF wake
  <2>2. wake \in Seq(Ops) /\ Len(wake) = 1 /\ wake[1] = Wake
    BY <2>1 DEF wake
  <2>3. /\ wake \o InitCmds \in Seq(Ops) /\ Len(wake \o InitCmds) = 1 + 10
        /\ \A i \in 1..1 : (wake \o InitCmds)[i] = wake[i]
        /\ \A i \in (1 + 1)..(1 + 10) : (wake \o InitCmds)[i] = InitCmds[i - 1]
    <3>1. InitCmds \in Seq(Ops) /\ Len(InitCmds) = 10
      BY InitCmdsAre
    <3>2. /\ wake \o InitCmds \in Seq(Ops) /\ Len(wake \o InitCmds) = Len(wake) + Len(InitCmds)
          /\ \A i \in 1..Len(wake) : (wake \o InitCmds)[i] = wake[i]
          /\ \A i \in (Len(wake) + 1)..(Len(wake) + Len(InitCmds)) :
               (wake \o InitCmds)[i] = InitCmds[i - Len(wake)]
      BY <2>2, <3>1, Joined, Zenon
    <3> QED BY <2>2, <3>1, <3>2
  <2> QED BY <2>2, <2>3 DEF wake
<1> DEFINE first == <<Wake>> \o InitCmds
<1> HIDE DEF first
<1>5. /\ first \in Seq(Ops) /\ Len(first) = 11 /\ first[1] = Wake
      /\ \A i \in 2..11 : first[i] = InitCmds[i - 1]
  BY <1>4 DEF first
<1>6. /\ first \o Clear \in Seq(Ops) /\ Len(first \o Clear) = 15
      /\ \A i \in 1..11 : (first \o Clear)[i] = first[i]
      /\ \A i \in 12..15 : (first \o Clear)[i] = Clear[i - 11]
  <2>1. /\ first \o Clear \in Seq(Ops) /\ Len(first \o Clear) = 11 + 4
        /\ \A i \in 1..11 : (first \o Clear)[i] = first[i]
        /\ \A i \in (11 + 1)..(11 + 4) : (first \o Clear)[i] = Clear[i - 11]
    <3>1. Clear \in Seq(Ops) /\ Len(Clear) = 4
      BY ClearIs
    <3>2. /\ first \o Clear \in Seq(Ops) /\ Len(first \o Clear) = Len(first) + Len(Clear)
          /\ \A i \in 1..Len(first) : (first \o Clear)[i] = first[i]
          /\ \A i \in (Len(first) + 1)..(Len(first) + Len(Clear)) :
               (first \o Clear)[i] = Clear[i - Len(first)]
      BY <1>5, <3>1, Joined, Zenon
    <3> QED BY <1>5, <3>1, <3>2
  <2> DEFINE u == first \o Clear
  <2> HIDE DEF u
  <2>2. /\ u \in Seq(Ops) /\ Len(u) = 11 + 4 /\ \A i \in 1..11 : u[i] = first[i]
        /\ \A i \in (11 + 1)..(11 + 4) : u[i] = Clear[i - 11]
    BY <2>1 DEF u
  <2>3. Len(u) = 15 /\ \A i \in 12..15 : u[i] = Clear[i - 11]
    BY <2>2
  <2> QED BY <2>2, <2>3 DEF u
<1> DEFINE most == first \o Clear
<1> HIDE DEF most
<1>7. /\ most \in Seq(Ops) /\ Len(most) = 15
      /\ \A i \in 1..11 : most[i] = first[i]
      /\ \A i \in 12..15 : most[i] = Clear[i - 11]
  BY <1>6 DEF most
<1>8. InitDisplay = most \o end
  BY <1>2 DEF most, first
<1>9. /\ InitDisplay \in Seq(Ops) /\ Len(InitDisplay) = 20
      /\ \A i \in 1..15 : InitDisplay[i] = most[i]
      /\ \A i \in 16..20 : InitDisplay[i] = end[i - 15]
  <2>1. /\ InitDisplay \in Seq(Ops) /\ Len(InitDisplay) = 15 + 5
        /\ \A i \in 1..15 : InitDisplay[i] = most[i]
        /\ \A i \in (15 + 1)..(15 + 5) : InitDisplay[i] = end[i - 15]
    <3>1. /\ most \o end \in Seq(Ops) /\ Len(most \o end) = Len(most) + Len(end)
          /\ \A i \in 1..Len(most) : (most \o end)[i] = most[i]
          /\ \A i \in (Len(most) + 1)..(Len(most) + Len(end)) :
               (most \o end)[i] = end[i - Len(most)]
      BY <1>3, <1>7, Joined, ZenonT(30)
    <3> QED BY <1>3, <1>7, <1>8, <3>1
  <2> QED BY <2>1
<1>10. /\ InitDisplay[16] = dispon /\ InitDisplay[17] = Msleep
       /\ InitDisplay[18] = slpout /\ InitDisplay[19] = Msleep /\ InitDisplay[20] = Release
  BY <1>3, <1>9
<1>11. /\ InitDisplay[1] = Wake
       /\ \A i \in 2..11 : InitDisplay[i] = InitCmds[i - 1]
       /\ \A i \in 12..15 : InitDisplay[i] = Clear[i - 11]
  BY <1>5, <1>7, <1>9
<1> QED BY <1>9, <1>10, <1>11 DEF dispon, slpout

LEMMA OnListIs ==
  /\ OnList \in Seq(Ops) /\ Len(OnList) = 7
  /\ OnList[1] = Wake /\ OnList[2] = Command("SLPOUT") /\ OnList[3] = Msleep
  /\ OnList[4] = Command("DISPON") /\ OnList[5] = Release /\ OnList[6] = Becomes("active")
  /\ OnList[7] = Command("DISPON")
<1> DEFINE slpout == Command("SLPOUT")
           dispon == Command("DISPON")
           active == Becomes("active")
<1>1. slpout \in Ops /\ dispon \in Ops /\ active \in Ops /\ Msleep \in Ops /\ Release \in Ops /\ Wake \in Ops
  BY OpsHave
<1>2. PmAction("active") = <<Wake>> \o <<slpout, Msleep, dispon>> \o <<Release, active>>
  BY DEF PmAction, Framed
<1>3. OnList = PmAction("active") \o <<dispon>>
  BY DEF OnList
<1> HIDE DEF slpout, dispon, active
<1>4. OnList \in Seq(Ops)
  BY <1>1, <1>2, <1>3, SeqOf
<1>5. /\ Len(OnList) = 7 /\ OnList[1] = Wake /\ OnList[2] = slpout /\ OnList[3] = Msleep
      /\ OnList[4] = dispon /\ OnList[5] = Release /\ OnList[6] = active /\ OnList[7] = dispon
  <2>1. /\ Len(PmAction("active")) = 6
        /\ PmAction("active")[1] = Wake
        /\ PmAction("active")[2] = slpout
        /\ PmAction("active")[3] = Msleep
        /\ PmAction("active")[4] = dispon
        /\ PmAction("active")[5] = Release
        /\ PmAction("active")[6] = active
    BY <1>2
  <2>2. PmAction("active") \in Seq(Ops)
    <3>1. <<Wake>> \in Seq(Ops) /\ <<slpout, Msleep, dispon>> \in Seq(Ops) /\ <<Release, active>> \in Seq(Ops)
      BY <1>1, SeqOf
    <3> QED BY <1>2, <3>1, SeqOf, Zenon
  <2> QED BY <1>1, <1>3, <2>1, <2>2
<1> QED BY <1>4, <1>5 DEF slpout, dispon, active

LEMMA SleepListIs ==
  /\ SleepList \in Seq(Ops) /\ Len(SleepList) = 6
  /\ SleepList[1] = Command("DISPOFF") /\ SleepList[2] = Wake /\ SleepList[3] = Command("DISPOFF")
  /\ SleepList[4] = Command("SLPIN") /\ SleepList[5] = Release
  /\ SleepList[6] = Becomes("suspended")
<1> DEFINE slpin == Command("SLPIN")
           dispoff == Command("DISPOFF")
           suspended == Becomes("suspended")
<1>1. slpin \in Ops /\ dispoff \in Ops /\ suspended \in Ops /\ Release \in Ops /\ Wake \in Ops
  BY OpsHave
<1>2. PmAction("suspended") = <<Wake>> \o <<dispoff, slpin>> \o <<Release, suspended>>
  BY DEF PmAction, Framed
<1>3. SleepList = <<dispoff>> \o PmAction("suspended")
  BY DEF SleepList
<1> HIDE DEF slpin, dispoff, suspended
<1>4. SleepList \in Seq(Ops)
  BY <1>1, <1>2, <1>3, SeqOf
<1>5. /\ Len(SleepList) = 6 /\ SleepList[1] = dispoff /\ SleepList[2] = Wake /\ SleepList[3] = dispoff
      /\ SleepList[4] = slpin /\ SleepList[5] = Release /\ SleepList[6] = suspended
  <2>1. /\ Len(PmAction("suspended")) = 5
        /\ PmAction("suspended")[1] = Wake
        /\ PmAction("suspended")[2] = dispoff
        /\ PmAction("suspended")[3] = slpin
        /\ PmAction("suspended")[4] = Release
        /\ PmAction("suspended")[5] = suspended
    BY <1>2
  <2>2. PmAction("suspended") \in Seq(Ops)
    <3>1. <<Wake>> \in Seq(Ops) /\ <<dispoff, slpin>> \in Seq(Ops) /\ <<Release, suspended>> \in Seq(Ops)
      BY <1>1, SeqOf
    <3> QED BY <1>2, <3>1, SeqOf, Zenon
  <2> DEFINE first == <<dispoff>>
             rest == PmAction("suspended")
  <2>3. first \in Seq(Ops) /\ Len(first) = 1 /\ first[1] = dispoff
    BY <1>1, SeqOf
  <2>4. SleepList = first \o rest
    BY <1>3
  <2> HIDE DEF first, rest
  <2>5. /\ rest \in Seq(Ops) /\ Len(rest) = 5 /\ rest[1] = Wake /\ rest[2] = dispoff
        /\ rest[3] = slpin /\ rest[4] = Release /\ rest[5] = suspended
    BY <2>1, <2>2 DEF rest
  <2>6. /\ first \o rest \in Seq(Ops) /\ Len(first \o rest) = Len(first) + Len(rest)
        /\ \A i \in 1..Len(first) : (first \o rest)[i] = first[i]
        /\ \A i \in (Len(first) + 1)..(Len(first) + Len(rest)) :
             (first \o rest)[i] = rest[i - Len(first)]
    BY <2>3, <2>5, Joined, Zenon
  <2>7. /\ Len(SleepList) = 1 + 5 /\ \A i \in 1..1 : SleepList[i] = first[i]
        /\ \A i \in (1 + 1)..(1 + 5) : SleepList[i] = rest[i - 1]
    BY <2>3, <2>4, <2>5, <2>6
  <2> QED BY <2>3, <2>5, <2>7
<1> QED BY <1>4, <1>5 DEF slpin, dispoff, suspended

LEMMA WriteBufIs ==
  ASSUME NEW area \in Areas
  PROVE  /\ WriteBuf(area) \in Seq(Ops) /\ Len(WriteBuf(area)) = 5
         /\ WriteBuf(area)[1] = Wake
         /\ WriteBuf(area)[2] = Transfer("CASET", Data("cols", area[1]))
         /\ WriteBuf(area)[3] = Transfer("PASET", Data("rows", area[2]))
         /\ WriteBuf(area)[4] = Transfer("RAMWR", Data("pixels", area))
         /\ WriteBuf(area)[5] = Release
<1> DEFINE caset == Transfer("CASET", Data("cols", area[1]))
           paset == Transfer("PASET", Data("rows", area[2]))
           ramwr == Transfer("RAMWR", Data("pixels", area))
<1>1. caset \in Ops /\ paset \in Ops /\ ramwr \in Ops /\ Release \in Ops /\ Wake \in Ops
  BY OpsHave
<1>2. WriteBuf(area) = <<Wake>> \o <<caset, paset>> \o <<ramwr, Release>>
  BY DEF WriteBuf, SetFrame
<1> HIDE DEF caset, paset, ramwr
<1>3. WriteBuf(area) \in Seq(Ops)
  BY <1>1, <1>2, SeqOf
<1>4. /\ Len(WriteBuf(area)) = 5 /\ WriteBuf(area)[1] = Wake /\ WriteBuf(area)[2] = caset
      /\ WriteBuf(area)[3] = paset /\ WriteBuf(area)[4] = ramwr /\ WriteBuf(area)[5] = Release
  BY <1>2
<1> QED BY <1>3, <1>4 DEF caset, paset, ramwr

LEMMA SetOrientationIs ==
  ASSUME NEW o \in Orientations
  PROVE  /\ SetOrientation(o) \in Seq(Ops) /\ Len(SetOrientation(o)) = 3
         /\ SetOrientation(o)[1] = Wake
         /\ SetOrientation(o)[2] = Transfer("MADCTL", Data("value", o))
         /\ SetOrientation(o)[3] = Release
<1>1. Transfer("MADCTL", Data("value", o)) \in Ops /\ Release \in Ops /\ Wake \in Ops
  BY OpsHave
<1> QED BY <1>1, SeqOf DEF SetOrientation

LEMMA BlankingIs ==
  /\ <<Command("DISPOFF")>> \in Seq(Ops) /\ Len(<<Command("DISPOFF")>>) = 1
  /\ <<Command("DISPOFF")>>[1] = Command("DISPOFF")
<1>1. Command("DISPOFF") \in Ops
  BY OpsHave
<1> QED BY <1>1, SeqOf

(* The next step of a call is the next one of its list.                    *)
LEMMA Taken ==
  ASSUME todo \in Seq(Ops), NEW list \in Seq(Ops), In(list), NEW what, Doing(what)
  PROVE  /\ Left \in 1..Len(list) /\ Left' = Left - 1 /\ In(list)' /\ todo' \in Seq(Ops)
         /\ Head(todo) = list[Len(list) - Left + 1] /\ Head(todo).do = what
<1> DEFINE n == Len(list)
           i == n - Left + 1
<1>1. /\ todo = SubSeq(list, i, n) /\ todo # <<>> /\ todo' = Tail(todo) /\ Head(todo).do = what
      /\ Left \in 1..n /\ n \in Nat
  <2>1. todo # <<>> /\ Left <= n /\ todo = SubSeq(list, i, n) /\ todo' = Tail(todo) /\ Head(todo).do = what
    BY DEF In, Rest, Left, Doing
  <2>2. Left \in Nat /\ Left # 0 /\ n \in Nat
    BY <2>1 DEF Left
  <2> HIDE DEF n, i
  <2> QED BY <2>1, <2>2
<1>2. i \in 1..n /\ n \in i..n
  BY <1>1
<1>3. Head(todo) = list[i] /\ todo' = SubSeq(list, i + 1, n)
  BY <1>1, <1>2, HeadTailOfSubSeq
<1>4. todo' \in Seq(Ops) /\ Left' = Left - 1
  BY <1>1, HeadTailProperties DEF Left
<1>5. i + 1 = n - Left' + 1 /\ Left' <= n
  BY <1>1, <1>4
<1>6. In(list)'
  BY <1>3, <1>4, <1>5 DEF In, Rest, Left
<1> QED BY <1>1, <1>3, <1>4, <1>6

(* What the steps look at.                                                 *)
LEMMA OpIs ==
  /\ Wake.do = "bus" /\ Wake.cmd = "active" /\ Release.do = "bus" /\ Release.cmd = "suspended"
  /\ Msleep.do = "msleep" /\ Msleep.cmd = ""
  /\ \A state : Becomes(state).do = "pm" /\ Becomes(state).cmd = state
  /\ \A c : Command(c).do = "send" /\ Command(c).cmd = c
  /\ \A c, d : Transfer(c, d).do = "send" /\ Transfer(c, d).cmd = c /\ Transfer(c, d).data = d
  /\ Vendor.do = "send" /\ Vendor.cmd = "vendor"
  BY DEF Wake, Release, Msleep, Becomes, Command, Vendor, Transfer, Do

LEMMA OpKinds ==
  ASSUME NEW op \in Ops
  PROVE  /\ op.do = "send" => op \in Transfers
         /\ op.do # "send" => op.cmd \in {"active", "suspended", ""}
         /\ op.do \in {"bus", "pm"} => op.cmd \in {"active", "suspended"}
<1>1. op \in Transfers => op.do = "send"
  BY TransferFacts
<1> QED BY <1>1, OpIs, ZenonT(30) DEF Ops

Step == Bus \/ Sleeps \/ Send \/ SendFails \/ Kernel

(* Of a transfer, sent or failed.                                          *)
LEMMA SendFacts ==
  ASSUME DriverInv, Send \/ SendFails
  PROVE  /\ Head(todo) \in Transfers /\ Leaves(panel, Head(todo), panel')
         /\ Head(todo).do = "send"
<1>1. todo \in Seq(Ops) /\ todo # <<>> /\ panel \in Panels
  BY DEF DriverInv, Gc9TypeOK, Send, SendFails, Doing
<1>2. Head(todo) \in Ops /\ Head(todo).do = "send"
  BY <1>1, HeadTailProperties DEF Send, SendFails, Doing
<1>3. Head(todo) \in Transfers
  BY <1>2, OpKinds
<1>4. panel' \in HeardOf(panel, Head(todo))
  BY DEF Send, SendFails, HeardOf
<1> QED BY <1>1, <1>2, <1>3, <1>4, HeardLeaves

(* Where each call is, by what it has still to do.                         *)
LEMMA OnAt ==
  ASSUME todo \in Seq(Ops), In(OnList), NEW what, Doing(what)
  PROVE  /\ Left \in 1..7 /\ Left' = Left - 1 /\ In(OnList)' /\ Head(todo).do = what
         /\ Left = 7 => Head(todo) = Wake /\ Head(todo).do = "bus" /\ Head(todo).cmd = "active"
         /\ Left = 6 => Head(todo) = Command("SLPOUT") /\ Head(todo).do = "send" /\ Head(todo).cmd = "SLPOUT"
         /\ Left = 5 => Head(todo) = Msleep /\ Head(todo).do = "msleep" /\ Head(todo).cmd = ""
         /\ Left = 4 => Head(todo) = Command("DISPON") /\ Head(todo).do = "send" /\ Head(todo).cmd = "DISPON"
         /\ Left = 3 => Head(todo) = Release /\ Head(todo).do = "bus" /\ Head(todo).cmd = "suspended"
         /\ Left = 2 => Head(todo) = Becomes("active") /\ Head(todo).do = "pm" /\ Head(todo).cmd = "active"
         /\ Left = 1 => Head(todo) = Command("DISPON") /\ Head(todo).do = "send" /\ Head(todo).cmd = "DISPON"
<1> DEFINE list == OnList
<1>1. /\ list \in Seq(Ops) /\ Len(list) = 7
      /\ list[1] = Wake
      /\ list[2] = Command("SLPOUT")
      /\ list[3] = Msleep
      /\ list[4] = Command("DISPON")
      /\ list[5] = Release
      /\ list[6] = Becomes("active")
      /\ list[7] = Command("DISPON")
  BY OnListIs
<1> HIDE DEF list
<1>2. In(list)
  BY DEF list
<1>3. /\ Left \in 1..7 /\ Left' = Left - 1 /\ In(list)' /\ Head(todo).do = what
      /\ Head(todo) = list[7 - Left + 1]
  BY <1>1, <1>2, Taken
<1>4. /\ Head(todo) = list[7 - Left + 1]
      /\ Left = 7 => Head(todo) = Wake
      /\ Left = 6 => Head(todo) = Command("SLPOUT")
      /\ Left = 5 => Head(todo) = Msleep
      /\ Left = 4 => Head(todo) = Command("DISPON")
      /\ Left = 3 => Head(todo) = Release
      /\ Left = 2 => Head(todo) = Becomes("active")
      /\ Left = 1 => Head(todo) = Command("DISPON")
  BY <1>1, <1>3
<1>5. /\ Wake.do = "bus" /\ Wake.cmd = "active"
      /\ Command("SLPOUT").do = "send" /\ Command("SLPOUT").cmd = "SLPOUT"
      /\ Msleep.do = "msleep" /\ Msleep.cmd = ""
      /\ Command("DISPON").do = "send" /\ Command("DISPON").cmd = "DISPON"
      /\ Release.do = "bus" /\ Release.cmd = "suspended"
      /\ Becomes("active").do = "pm" /\ Becomes("active").cmd = "active"
  BY OpIs
<1> QED BY <1>3, <1>4, <1>5 DEF list

LEMMA SleepAt ==
  ASSUME todo \in Seq(Ops), In(SleepList), NEW what, Doing(what)
  PROVE  /\ Left \in 1..6 /\ Left' = Left - 1 /\ In(SleepList)' /\ Head(todo).do = what
         /\ Left = 6 => Head(todo) = Command("DISPOFF") /\ Head(todo).do = "send" /\ Head(todo).cmd = "DISPOFF"
         /\ Left = 5 => Head(todo) = Wake /\ Head(todo).do = "bus" /\ Head(todo).cmd = "active"
         /\ Left = 4 => Head(todo) = Command("DISPOFF") /\ Head(todo).do = "send" /\ Head(todo).cmd = "DISPOFF"
         /\ Left = 3 => Head(todo) = Command("SLPIN") /\ Head(todo).do = "send" /\ Head(todo).cmd = "SLPIN"
         /\ Left = 2 => Head(todo) = Release /\ Head(todo).do = "bus" /\ Head(todo).cmd = "suspended"
         /\ Left = 1 => Head(todo) = Becomes("suspended") /\ Head(todo).do = "pm" /\ Head(todo).cmd = "suspended"
<1> DEFINE list == SleepList
<1>1. /\ list \in Seq(Ops) /\ Len(list) = 6
      /\ list[1] = Command("DISPOFF")
      /\ list[2] = Wake
      /\ list[3] = Command("DISPOFF")
      /\ list[4] = Command("SLPIN")
      /\ list[5] = Release
      /\ list[6] = Becomes("suspended")
  BY SleepListIs
<1> HIDE DEF list
<1>2. In(list)
  BY DEF list
<1>3. /\ Left \in 1..6 /\ Left' = Left - 1 /\ In(list)' /\ Head(todo).do = what
      /\ Head(todo) = list[6 - Left + 1]
  BY <1>1, <1>2, Taken
<1>4. /\ Head(todo) = list[6 - Left + 1]
      /\ Left = 6 => Head(todo) = Command("DISPOFF")
      /\ Left = 5 => Head(todo) = Wake
      /\ Left = 4 => Head(todo) = Command("DISPOFF")
      /\ Left = 3 => Head(todo) = Command("SLPIN")
      /\ Left = 2 => Head(todo) = Release
      /\ Left = 1 => Head(todo) = Becomes("suspended")
  BY <1>1, <1>3
<1>5. /\ Command("DISPOFF").do = "send" /\ Command("DISPOFF").cmd = "DISPOFF"
      /\ Wake.do = "bus" /\ Wake.cmd = "active"
      /\ Command("SLPIN").do = "send" /\ Command("SLPIN").cmd = "SLPIN"
      /\ Release.do = "bus" /\ Release.cmd = "suspended"
      /\ Becomes("suspended").do = "pm" /\ Becomes("suspended").cmd = "suspended"
  BY OpIs
<1> QED BY <1>3, <1>4, <1>5 DEF list

LEMMA DrawAt ==
  ASSUME todo \in Seq(Ops), NEW area \in Areas, In(WriteBuf(area)), NEW what, Doing(what)
  PROVE  /\ Left \in 1..5 /\ Left' = Left - 1 /\ In(WriteBuf(area))' /\ Head(todo).do = what
         /\ Left = 5 => Head(todo) = Wake /\ Head(todo).do = "bus" /\ Head(todo).cmd = "active"
         /\ Left = 4 => Head(todo) = Transfer("CASET", Data("cols", area[1])) /\ Head(todo).do = "send" /\ Head(todo).cmd = "CASET"
         /\ Left = 3 => Head(todo) = Transfer("PASET", Data("rows", area[2])) /\ Head(todo).do = "send" /\ Head(todo).cmd = "PASET"
         /\ Left = 2 => Head(todo) = Transfer("RAMWR", Data("pixels", area)) /\ Head(todo).do = "send" /\ Head(todo).cmd = "RAMWR"
         /\ Left = 1 => Head(todo) = Release /\ Head(todo).do = "bus" /\ Head(todo).cmd = "suspended"
<1> DEFINE list == WriteBuf(area)
<1>1. /\ list \in Seq(Ops) /\ Len(list) = 5
      /\ list[1] = Wake
      /\ list[2] = Transfer("CASET", Data("cols", area[1]))
      /\ list[3] = Transfer("PASET", Data("rows", area[2]))
      /\ list[4] = Transfer("RAMWR", Data("pixels", area))
      /\ list[5] = Release
  BY WriteBufIs
<1> HIDE DEF list
<1>2. In(list)
  BY DEF list
<1>3. /\ Left \in 1..5 /\ Left' = Left - 1 /\ In(list)' /\ Head(todo).do = what
      /\ Head(todo) = list[5 - Left + 1]
  BY <1>1, <1>2, Taken
<1>4. /\ Head(todo) = list[5 - Left + 1]
      /\ Left = 5 => Head(todo) = Wake
      /\ Left = 4 => Head(todo) = Transfer("CASET", Data("cols", area[1]))
      /\ Left = 3 => Head(todo) = Transfer("PASET", Data("rows", area[2]))
      /\ Left = 2 => Head(todo) = Transfer("RAMWR", Data("pixels", area))
      /\ Left = 1 => Head(todo) = Release
  BY <1>1, <1>3
<1>5. /\ Wake.do = "bus" /\ Wake.cmd = "active"
      /\ Transfer("CASET", Data("cols", area[1])).do = "send" /\ Transfer("CASET", Data("cols", area[1])).cmd = "CASET"
      /\ Transfer("PASET", Data("rows", area[2])).do = "send" /\ Transfer("PASET", Data("rows", area[2])).cmd = "PASET"
      /\ Transfer("RAMWR", Data("pixels", area)).do = "send" /\ Transfer("RAMWR", Data("pixels", area)).cmd = "RAMWR"
      /\ Release.do = "bus" /\ Release.cmd = "suspended"
  BY OpIs DEF Transfer
<1> QED BY <1>3, <1>4, <1>5 DEF list

LEMMA OrientAt ==
  ASSUME todo \in Seq(Ops), NEW o \in Orientations, In(SetOrientation(o)), NEW what, Doing(what)
  PROVE  /\ Left \in 1..3 /\ Left' = Left - 1 /\ In(SetOrientation(o))' /\ Head(todo).do = what
         /\ Left = 3 => Head(todo) = Wake /\ Head(todo).do = "bus" /\ Head(todo).cmd = "active"
         /\ Left = 2 => Head(todo) = Transfer("MADCTL", Data("value", o)) /\ Head(todo).do = "send" /\ Head(todo).cmd = "MADCTL"
         /\ Left = 1 => Head(todo) = Release /\ Head(todo).do = "bus" /\ Head(todo).cmd = "suspended"
<1> DEFINE list == SetOrientation(o)
<1>1. /\ list \in Seq(Ops) /\ Len(list) = 3
      /\ list[1] = Wake
      /\ list[2] = Transfer("MADCTL", Data("value", o))
      /\ list[3] = Release
  BY SetOrientationIs
<1> HIDE DEF list
<1>2. In(list)
  BY DEF list
<1>3. /\ Left \in 1..3 /\ Left' = Left - 1 /\ In(list)' /\ Head(todo).do = what
      /\ Head(todo) = list[3 - Left + 1]
  BY <1>1, <1>2, Taken
<1>4. /\ Head(todo) = list[3 - Left + 1]
      /\ Left = 3 => Head(todo) = Wake
      /\ Left = 2 => Head(todo) = Transfer("MADCTL", Data("value", o))
      /\ Left = 1 => Head(todo) = Release
  BY <1>1, <1>3
<1>5. /\ Wake.do = "bus" /\ Wake.cmd = "active"
      /\ Transfer("MADCTL", Data("value", o)).do = "send" /\ Transfer("MADCTL", Data("value", o)).cmd = "MADCTL"
      /\ Release.do = "bus" /\ Release.cmd = "suspended"
  BY OpIs DEF Transfer
<1> QED BY <1>3, <1>4, <1>5 DEF list

(* The types, and the wait after SLPOUT, hold over every step.             *)
LEMMA StepTyped ==
  ASSUME DriverInv, Step
  PROVE  /\ Gc9TypeOK' /\ todo' \in Seq(Ops) /\ Waits' /\ Settles'
         /\ UNCHANGED <<display, call, asked, ran>> /\ fails \subseteq fails'
<1>1. /\ todo \in Seq(Ops) /\ todo # <<>> /\ todo' = Tail(todo)
      /\ UNCHANGED <<display, call, asked, ran>>
  BY DEF DriverInv, Step, Bus, Sleeps, Send, SendFails, Kernel, Doing
<1>2. /\ todo' \in Seq(Ops) /\ Len(todo') = Len(todo) - 1 /\ Len(todo) \in Nat
      /\ \A i \in 1..Len(todo') : todo'[i] = todo[i + 1]
      /\ Head(todo) = todo[1] /\ Head(todo) \in Ops
  BY <1>1, HeadTailProperties
<1>3. Waits'
  <2> SUFFICES ASSUME NEW i \in 1..Len(todo'), todo'[i].cmd = "SLPOUT"
               PROVE  i < Len(todo') /\ todo'[i + 1].do = "msleep"
    BY DEF Waits
  <2>1. i + 1 \in 1..Len(todo) /\ todo[i + 1].cmd = "SLPOUT"
    BY <1>2
  <2>2. i + 1 < Len(todo) /\ todo[i + 2].do = "msleep"
    BY <1>2, <2>1 DEF DriverInv, Waits
  <2>3. i + 1 \in 1..Len(todo')
    BY <1>2, <2>2
  <2> QED BY <1>2, <2>2, <2>3
<1>4. CASE Send \/ SendFails
  <2>1. /\ panel' \in Panels /\ Head(todo).do = "send"
        /\ panel'.settling => panel.settling \/ Head(todo).cmd = "SLPOUT"
    BY <1>4, SendFacts DEF Leaves
  <2>2. Settles'
    <3> SUFFICES ASSUME panel'.settling PROVE todo' # <<>> /\ Head(todo').do = "msleep"
      BY DEF Settles
    <3>1. todo[1].cmd = "SLPOUT"
      BY <1>2, <2>1 DEF DriverInv, Settles
    <3>2. 1 < Len(todo) /\ todo[2].do = "msleep"
      BY <1>1, <1>2, <3>1 DEF DriverInv, Waits
    <3>3. Len(todo') >= 1 /\ Head(todo') = todo'[1] /\ todo'[1] = todo[2] /\ todo' # <<>>
      BY <1>2, <3>2
    <3> QED BY <3>2, <3>3
  <2>3. err' \in {"ok", "EIO"} /\ UNCHANGED <<bus, pm>>
    BY <1>4 DEF Send, SendFails
  <2>4. fails' \subseteq {"boot", "on", "sleep", "draw", "orient"} /\ fails \subseteq fails'
    BY <1>4 DEF Send, SendFails, DriverInv, Gc9TypeOK
  <2>5. failed' \in 0..MaxFails
    BY <1>4, PanelAssumption DEF Send, SendFails, DriverInv, Gc9TypeOK
  <2>6. drawn' \subseteq Blocks
    <3>1. CASE Send /\ call = "draw" /\ Head(todo).cmd = "RAMWR" /\ call \notin fails
      <4>1. PICK area \in Areas : todo = Rest(WriteBuf(area)) /\ Len(todo) <= Len(WriteBuf(area))
        BY <3>1 DEF DriverInv, CallInv, DrawInv, In
      <4>2. In(WriteBuf(area)) /\ WriteBuf(area) \in Seq(Ops) /\ Doing("send")
        BY <3>1, <4>1, WriteBufIs DEF In, Send
      <4>4. Head(todo) = Transfer("RAMWR", Data("pixels", area))
        BY <1>1, <3>1, <4>2, DrawAt
      <4>5. Head(todo).data.of = area
        BY <4>4, TransferOf
      <4>6. BlocksOf(area) \subseteq Blocks
        BY DEF BlocksOf, Blocks, Areas
      <4> QED BY <3>1, <4>5, <4>6 DEF Send, DriverInv, Gc9TypeOK
    <3>2. CASE ~(Send /\ call = "draw" /\ Head(todo).cmd = "RAMWR" /\ call \notin fails)
      BY <1>4, <3>2 DEF Send, SendFails, DriverInv, Gc9TypeOK
    <3> QED BY <3>1, <3>2
  <2>7. Gc9TypeOK'
    BY <1>1, <2>1, <2>3, <2>4, <2>5, <2>6 DEF DriverInv, Gc9TypeOK
  <2> QED BY <1>1, <1>2, <1>3, <2>2, <2>4, <2>7
<1>5. CASE Bus \/ Kernel
  <2>1. UNCHANGED <<panel, fails, failed, drawn, err>> /\ Head(todo).do \in {"bus", "pm"}
    BY <1>5 DEF Bus, Kernel, Doing
  <2>2. Head(todo).cmd \in {"active", "suspended"}
    BY <1>2, <2>1, OpKinds
  <2>3. {bus', pm'} \subseteq {"active", "suspended"}
    BY <1>5, <2>2 DEF Bus, Kernel, DriverInv, Gc9TypeOK
  <2>4. ~panel.settling
    BY <2>1 DEF DriverInv, Settles
  <2>5. Gc9TypeOK'
    BY <1>1, <2>1, <2>3 DEF DriverInv, Gc9TypeOK
  <2> QED BY <1>1, <1>2, <1>3, <2>1, <2>4, <2>5 DEF Settles
<1>6. CASE Sleeps
  <2>1. UNCHANGED <<bus, pm, fails, failed, drawn, err>> /\ panel' = [panel EXCEPT !.settling = FALSE]
    BY <1>6 DEF Sleeps
  <2>2. panel' \in Panels /\ panel'.settling = FALSE
    BY <2>1 DEF DriverInv, Gc9TypeOK, Panels
  <2>3. Gc9TypeOK'
    BY <1>1, <2>1, <2>2 DEF DriverInv, Gc9TypeOK
  <2> QED BY <1>1, <1>2, <1>3, <2>1, <2>2, <2>3 DEF Settles
<1> QED BY <1>4, <1>5, <1>6 DEF Step

(* What a step of a call does.                                             *)
Sent == /\ panel' = Hear(panel, Head(todo)) /\ err' = "ok" /\ fails' = fails
        /\ drawn' = IF call = "draw" /\ call \notin fails /\ Head(todo).cmd = "RAMWR"
                    THEN drawn \cup BlocksOf(Head(todo).data.of) ELSE drawn
Lost == /\ err' = "EIO"
        /\ IF bus = "active" THEN fails' = fails \cup {call} /\ drawn' = {}
           ELSE fails' = fails /\ drawn' = drawn
Slept == /\ panel'.slp = panel.slp /\ panel'.disp = panel.disp /\ panel'.cmd = panel.cmd
         /\ panel'.open = panel.open /\ panel'.regs = panel.regs
         /\ panel'.madctl = panel.madctl /\ panel'.frame = panel.frame /\ panel'.ram = panel.ram

LEMMA StepIs ==
  ASSUME DriverInv, Step
  PROVE  /\ todo \in Seq(Ops) /\ Doing(Head(todo).do)
         /\ Head(todo).do \in {"bus", "msleep", "pm", "send"}
         /\ Head(todo).do = "bus" =>
              bus' = Head(todo).cmd /\ UNCHANGED <<err, pm, panel, fails, drawn>>
         /\ Head(todo).do = "msleep" => Slept /\ UNCHANGED <<err, bus, pm, fails, drawn>>
         /\ Head(todo).do = "pm" =>
              /\ pm' = IF err = "ok" THEN Head(todo).cmd ELSE pm
              /\ UNCHANGED <<err, bus, panel, fails, drawn>>
         /\ Head(todo).do = "send" =>
              /\ Leaves(panel, Head(todo), panel')
              /\ Sent \/ Lost
              /\ UNCHANGED <<bus, pm>>
<1>1. CASE Bus
  BY <1>1 DEF Bus, Doing, DriverInv
<1>2. CASE Sleeps
  <2>1. Slept
    BY <1>2 DEF Sleeps, DriverInv, Gc9TypeOK, Panels, Slept
  <2> QED BY <1>2, <2>1 DEF Sleeps, Doing, DriverInv
<1>3. CASE Kernel
  BY <1>3 DEF Kernel, Doing, DriverInv
<1>4. CASE Send
  BY <1>4, SendFacts DEF Send, Doing, Sent, DriverInv
<1>5. CASE SendFails
  BY <1>5, SendFacts DEF SendFails, Doing, Lost, DriverInv
<1> QED BY <1>1, <1>2, <1>3, <1>4, <1>5 DEF Step

(* Only RAMWR and the pixels after it touch a picture, and only MADCTL how *)
(* it stands.                                                              *)
LEMMA StepKeeps ==
  ASSUME DriverInv, Step
  PROVE  /\ (Head(todo).do = "send" => Head(todo).cmd \notin {"RAMWR", ""}) => PictureKept'
         /\ (Head(todo).do = "send" /\ Head(todo).cmd = "MADCTL") \/ panel'.madctl = panel.madctl
         /\ call # "orient" /\ panel'.madctl = panel.madctl => Oriented'
<1>1. CASE Head(todo).do # "send"
  <2>1. panel'.ram = panel.ram /\ drawn' = drawn /\ panel'.madctl = panel.madctl
    BY <1>1, StepIs DEF Slept
  <2> QED BY <2>1, StepTyped DEF DriverInv, PictureKept, Oriented, Good
<1>2. CASE Head(todo).do = "send"
  <2>1. Leaves(panel, Head(todo), panel') /\ (Sent \/ Lost)
    BY <1>2, StepIs
  <2>2. Head(todo).cmd # "RAMWR" => drawn' \subseteq drawn
    BY <2>1 DEF Sent, Lost
  <2>3. Head(todo).cmd \notin {"RAMWR", ""} => panel'.ram = panel.ram
    BY <2>1 DEF Leaves
  <2>4. Head(todo).cmd \notin {"RAMWR", ""} => PictureKept'
    BY <2>2, <2>3 DEF DriverInv, PictureKept
  <2>5. Head(todo).cmd = "MADCTL" \/ panel'.madctl = panel.madctl
    BY <2>1 DEF Leaves
  <2>6. call # "orient" /\ panel'.madctl = panel.madctl => Oriented'
    BY StepTyped DEF DriverInv, Oriented, Good
  <2> QED BY <1>2, <2>4, <2>5, <2>6
<1> QED BY <1>1, <1>2

(* A failure is only forgotten when the call begins anew.                  *)
LEMMA GoodKept ==
  ASSUME DriverInv, Step
  PROVE  /\ \A kinds : Good(kinds)' => Good(kinds)
         /\ Head(todo).do = "send" /\ bus = "active" /\ Good({call})' => Sent
<1>1. fails \subseteq fails'
  BY StepTyped
<1>2. ASSUME NEW kinds, Good(kinds)' PROVE Good(kinds)
  BY <1>1, <1>2 DEF Good
<1>3. Head(todo).do = "send" /\ bus = "active" /\ Good({call})' => Sent
  <2>1. ASSUME Lost, bus = "active" PROVE ~Good({call})'
    <3>1. call' = call
      BY StepTyped
    <3> QED BY <2>1, <3>1 DEF Good, Lost
  <2> QED BY <2>1, StepIs
<1> QED BY <1>2, <1>3

LEMMA OnStep ==
  ASSUME DriverInv, Step, call = "on"
  PROVE  OnInv' /\ Oriented' /\ PictureKept'
<1>1. OnInv /\ todo \in Seq(Ops) /\ Doing(Head(todo).do) /\ panel \in Panels
  BY StepIs DEF DriverInv, CallInv, Gc9TypeOK
<1>2. /\ Left \in 1..7 /\ Left' = Left - 1 /\ In(OnList)'
      /\ Left = 7 => Head(todo).do = "bus" /\ Head(todo).cmd = "active"
      /\ Left = 6 => Head(todo) = Command("SLPOUT") /\ Head(todo).do = "send" /\ Head(todo).cmd = "SLPOUT"
      /\ Left = 5 => Head(todo).do = "msleep"
      /\ Left = 4 => Head(todo) = Command("DISPON") /\ Head(todo).do = "send" /\ Head(todo).cmd = "DISPON"
      /\ Left = 3 => Head(todo).do = "bus" /\ Head(todo).cmd = "suspended"
      /\ Left = 2 => Head(todo).do = "pm" /\ Head(todo).cmd = "active"
      /\ Left = 1 => Head(todo) = Command("DISPON") /\ Head(todo).do = "send" /\ Head(todo).cmd = "DISPON"
  BY <1>1, OnAt DEF OnInv
<1>3. /\ UNCHANGED <<display, ran>>
      /\ Good({"on"})' => Good({"on"})
      /\ Good({"boot", "sleep"})' => Good({"boot", "sleep"})
      /\ Head(todo).do = "send" /\ bus = "active" /\ Good({"on"})' => Sent
  BY StepTyped, GoodKept
<1>4. PictureKept' /\ Oriented'
  <2>1. Left \in {1, 2, 3, 4, 5, 6, 7}
    BY <1>2
  <2>2. Head(todo).do = "send" => Head(todo).cmd \notin {"RAMWR", "", "MADCTL"}
    BY <1>2, <2>1, Zenon
  <2> QED BY <2>2, StepKeeps
<1>5. CASE Left = 7
  <2>1. bus' = "active" /\ pm' = pm /\ Left' = 6
    BY <1>2, <1>5, StepIs
  <2> QED BY <1>1, <1>2, <1>3, <1>4, <1>5, <2>1 DEF OnInv, AwakeIf
<1>6. CASE Left = 6
  <2>1. UNCHANGED <<bus, pm>> /\ Left' = 5 /\ bus = "active"
    BY <1>1, <1>2, <1>6, StepIs DEF OnInv, AwakeIf
  <2>2. Good({"on"})' => panel'.slp = "out"
    BY <1>1, <1>2, <1>3, <1>6, <2>1, CommandSent DEF Sent, Commands
  <2> QED BY <1>1, <1>2, <1>3, <1>4, <1>6, <2>1, <2>2 DEF OnInv, AwakeIf
<1>7. CASE Left = 5
  <2>1. UNCHANGED <<bus, pm>> /\ panel'.slp = panel.slp /\ Left' = 4
    BY <1>2, <1>7, StepIs DEF Slept
  <2> QED BY <1>1, <1>2, <1>3, <1>4, <1>7, <2>1 DEF OnInv, AwakeIf
<1>8. CASE Left = 4
  <2>1. UNCHANGED <<bus, pm>> /\ Left' = 3 /\ bus = "active" /\ panel'.slp = panel.slp
    <3>1. UNCHANGED <<bus, pm>> /\ Left' = 3 /\ bus = "active" /\ Leaves(panel, Head(todo), panel')
      BY <1>1, <1>2, <1>8, StepIs DEF OnInv, AwakeIf
    <3> QED BY <1>2, <1>8, <3>1 DEF Leaves
  <2>2. Good({"on"})' => panel'.disp = "on" /\ err' = "ok"
    BY <1>1, <1>2, <1>3, <1>8, <2>1, CommandSent DEF Sent, Commands
  <2> QED BY <1>1, <1>2, <1>3, <1>4, <1>8, <2>1, <2>2 DEF OnInv, AwakeIf
<1>9. CASE Left = 3
  <2>1. bus' = "suspended" /\ UNCHANGED <<pm, panel, err>> /\ Left' = 2
    BY <1>2, <1>9, StepIs
  <2> QED BY <1>1, <1>2, <1>3, <1>4, <1>9, <2>1 DEF OnInv, AwakeIf
<1>10. CASE Left = 2
  <2>1. UNCHANGED <<bus, panel>> /\ Left' = 1 /\ (err = "ok" => pm' = "active")
    BY <1>2, <1>10, StepIs
  <2> QED BY <1>1, <1>2, <1>3, <1>4, <1>10, <2>1 DEF OnInv, AwakeIf
<1>11. CASE Left = 1
  <2>1. /\ UNCHANGED <<bus, pm>> /\ panel'.slp = panel.slp /\ Left' = 0
        /\ panel.disp = "on" => panel'.disp = "on"
    <3>1. UNCHANGED <<bus, pm>> /\ Left' = 0 /\ Leaves(panel, Head(todo), panel')
      BY <1>2, <1>11, StepIs
    <3> QED BY <1>2, <1>11, <3>1 DEF Leaves
  <2> QED BY <1>1, <1>2, <1>3, <1>4, <1>11, <2>1 DEF OnInv, AwakeIf
<1>12. Left \in {1, 2, 3, 4, 5, 6, 7}
  BY <1>2
<1> QED BY <1>12, <1>5, <1>6, <1>7, <1>8, <1>9, <1>10, <1>11

LEMMA BlankAt ==
  ASSUME todo \in Seq(Ops), In(<<Command("DISPOFF")>>), NEW what, Doing(what)
  PROVE  /\ Left = 1 /\ Left' = 0 /\ In(<<Command("DISPOFF")>>)'
         /\ Head(todo) = Command("DISPOFF") /\ Head(todo).do = "send" /\ Head(todo).cmd = "DISPOFF"
<1> DEFINE list == <<Command("DISPOFF")>>
<1>1. list \in Seq(Ops) /\ Len(list) = 1 /\ list[1] = Command("DISPOFF")
  BY BlankingIs
<1> HIDE DEF list
<1>2. In(list)
  BY DEF list
<1>3. Left \in 1..1 /\ Left' = Left - 1 /\ In(list)' /\ Head(todo) = list[1 - Left + 1]
  BY <1>1, <1>2, Taken
<1>4. Left = 1 /\ Left' = 0 /\ Head(todo) = Command("DISPOFF")
  BY <1>1, <1>3
<1>5. Command("DISPOFF").do = "send" /\ Command("DISPOFF").cmd = "DISPOFF"
  BY OpIs
<1> QED BY <1>3, <1>4, <1>5 DEF list

LEMMA SleepStep ==
  ASSUME DriverInv, Step, call = "sleep"
  PROVE  SleepInv' /\ Oriented' /\ PictureKept'
<1>1. SleepInv /\ todo \in Seq(Ops) /\ Doing(Head(todo).do) /\ panel \in Panels
  BY StepIs DEF DriverInv, CallInv, Gc9TypeOK
<1>2. /\ (display = "Sleep")' /\ ("boot" \notin fails)' /\ UNCHANGED ran
      /\ Good({"on"})' => Good({"on"})
      /\ Good({"sleep"})' => Good({"sleep"})
      /\ Head(todo).do = "send" /\ bus = "active" /\ Good({"sleep"})' => Sent
  <2>1. fails' \subseteq fails \cup {call}
    BY StepIs DEF Sent, Lost
  <2> QED BY <1>1, <2>1, StepTyped, GoodKept DEF SleepInv
<1>3. CASE /\ In(<<Command("DISPOFF")>>) /\ AwakeIf(FALSE)
           /\ pm = "suspended" /\ ~Good({"on"}) /\ ~ran
  <2>1. In(<<Command("DISPOFF")>>)' /\ Head(todo).do = "send" /\ Head(todo).cmd = "DISPOFF"
    BY <1>1, <1>3, BlankAt
  <2>2. UNCHANGED <<bus, pm>>
    BY <2>1, StepIs
  <2>3. PictureKept' /\ Oriented'
    BY <2>1, StepKeeps
  <2> QED BY <1>2, <1>3, <2>1, <2>2, <2>3 DEF SleepInv, AwakeIf
<1>4. CASE /\ In(SleepList) /\ ran
           /\ AwakeIf(Left \in 2..4)
           /\ Left > 0 => pm = "active"
           /\ Left \in {1, 2} /\ Good({"sleep"}) => err = "ok"
           /\ Left = 0 /\ Good({"sleep"}) => pm = "suspended"
           /\ Good({"sleep"}) => /\ Left <= 3 => panel.disp = "off"
                                 /\ Left <= 2 => panel.slp = "in"
  <2>1. /\ Left \in 1..6 /\ Left' = Left - 1 /\ In(SleepList)'
        /\ Left = 6 => Head(todo) = Command("DISPOFF") /\ Head(todo).do = "send" /\ Head(todo).cmd = "DISPOFF"
        /\ Left = 5 => Head(todo).do = "bus" /\ Head(todo).cmd = "active"
        /\ Left = 4 => Head(todo) = Command("DISPOFF") /\ Head(todo).do = "send" /\ Head(todo).cmd = "DISPOFF"
        /\ Left = 3 => Head(todo) = Command("SLPIN") /\ Head(todo).do = "send" /\ Head(todo).cmd = "SLPIN"
        /\ Left = 2 => Head(todo).do = "bus" /\ Head(todo).cmd = "suspended"
        /\ Left = 1 => Head(todo).do = "pm" /\ Head(todo).cmd = "suspended"
    BY <1>1, <1>4, SleepAt
  <2>2. Left \in {1, 2, 3, 4, 5, 6}
    BY <2>1
  <2>3. PictureKept' /\ Oriented'
    <3>1. Head(todo).do = "send" => Head(todo).cmd \notin {"RAMWR", "", "MADCTL"}
      BY <2>1, <2>2, Zenon
    <3> QED BY <3>1, StepKeeps
  <2> SUFFICES SleepInv'
    BY <2>3
  <2>4. CASE Left = 6
    <3>1. UNCHANGED <<bus, pm>> /\ Left' = 5
      BY <2>1, <2>4, StepIs
    <3> QED BY <1>2, <1>4, <2>1, <2>4, <3>1 DEF SleepInv, AwakeIf
  <2>5. CASE Left = 5
    <3>1. bus' = "active" /\ UNCHANGED pm /\ Left' = 4
      BY <2>1, <2>5, StepIs
    <3> QED BY <1>2, <1>4, <2>1, <2>5, <3>1 DEF SleepInv, AwakeIf
  <2>6. CASE Left = 4
    <3>1. UNCHANGED <<bus, pm>> /\ Left' = 3 /\ bus = "active"
      BY <1>4, <2>1, <2>6, StepIs DEF AwakeIf
    <3>2. Good({"sleep"})' => panel'.disp = "off"
      BY <1>1, <1>2, <2>1, <2>6, <3>1, CommandSent DEF Sent, Commands
    <3> QED BY <1>2, <1>4, <2>1, <2>6, <3>1, <3>2 DEF SleepInv, AwakeIf
  <2>7. CASE Left = 3
    <3>1. UNCHANGED <<bus, pm>> /\ Left' = 2 /\ bus = "active" /\ Leaves(panel, Head(todo), panel')
      BY <1>4, <2>1, <2>7, StepIs DEF AwakeIf
    <3>2. Good({"sleep"})' => panel'.slp = "in" /\ err' = "ok"
      BY <1>1, <1>2, <2>1, <2>7, <3>1, CommandSent DEF Sent, Commands
    <3>3. panel'.disp = panel.disp
      BY <2>1, <2>7, <3>1 DEF Leaves
    <3> QED BY <1>2, <1>4, <2>1, <2>7, <3>1, <3>2, <3>3 DEF SleepInv, AwakeIf
  <2>8. CASE Left = 2
    <3>1. bus' = "suspended" /\ UNCHANGED <<pm, err, panel>> /\ Left' = 1
      BY <2>1, <2>8, StepIs
    <3> QED BY <1>2, <1>4, <2>1, <2>8, <3>1 DEF SleepInv, AwakeIf
  <2>9. CASE Left = 1
    <3>1. UNCHANGED <<bus, panel>> /\ (err = "ok" => pm' = "suspended") /\ Left' = 0
      BY <2>1, <2>9, StepIs
    <3> QED BY <1>2, <1>4, <2>1, <2>9, <3>1 DEF SleepInv, AwakeIf
  <2> QED BY <2>2, <2>4, <2>5, <2>6, <2>7, <2>8, <2>9
<1> QED BY <1>1, <1>3, <1>4 DEF SleepInv

LEMMA OrientStep ==
  ASSUME DriverInv, Step, call = "orient"
  PROVE  OrientInv' /\ Oriented' /\ PictureKept'
<1>1. /\ OrientInv /\ todo \in Seq(Ops) /\ Doing(Head(todo).do) /\ panel \in Panels
      /\ asked \in Orientations
  BY StepIs DEF DriverInv, CallInv, Gc9TypeOK
<1>2. UNCHANGED <<display, asked, call, ran>>
  BY StepTyped
<1>3. PICK o \in Orientations : asked = o
  BY <1>1
<1>4. In(SetOrientation(o))
  BY <1>1, <1>3 DEF OrientInv
<1>5. /\ Left \in 1..3 /\ Left' = Left - 1 /\ In(SetOrientation(o))'
      /\ Left = 3 => Head(todo).do = "bus" /\ Head(todo).cmd = "active"
      /\ Left = 2 => Head(todo) = Transfer("MADCTL", Data("value", o))
                     /\ Head(todo).do = "send" /\ Head(todo).cmd = "MADCTL"
      /\ Left = 1 => Head(todo).do = "bus" /\ Head(todo).cmd = "suspended"
  BY <1>1, <1>4, OrientAt
<1>6. In(SetOrientation(asked))' /\ asked' = o
  <2>1. asked' = o
    BY <1>2, <1>3
  <2> QED BY <1>5, <2>1 DEF In, Rest, Left
<1>7. Left \in {1, 2, 3}
  BY <1>5
<1>8. PictureKept'
  <2>1. Head(todo).do = "send" => Head(todo).cmd \notin {"RAMWR", ""}
    BY <1>5, <1>7, Zenon
  <2> QED BY <2>1, StepKeeps
<1>9. StaysOn'
  <2>1. panel'.slp = panel.slp /\ panel'.disp = panel.disp /\ UNCHANGED pm
    <3>1. CASE Left \in {1, 3}
      BY <1>5, <3>1, StepIs
    <3>2. CASE Left = 2
      BY <1>5, <3>2, StepIs DEF Leaves
    <3> QED BY <1>7, <3>1, <3>2
  <2> QED BY <1>1, <1>2, <2>1, GoodKept DEF OrientInv, StaysOn
<1>10. AwakeIf(Left \in 1..2)'
  <2>1. CASE Left = 3
    BY <1>5, <2>1, StepIs DEF AwakeIf
  <2>2. CASE Left = 2
    BY <1>1, <1>5, <2>2, StepIs DEF AwakeIf, OrientInv
  <2>3. CASE Left = 1
    BY <1>5, <2>3, StepIs DEF AwakeIf
  <2> QED BY <1>7, <2>1, <2>2, <2>3
<1>11. Oriented'
  <2>1. CASE Left = 3
    <3>1. Left' > 1 /\ call' = "orient"
      BY <1>2, <1>5, <2>1
    <3> QED BY <3>1 DEF Oriented
  <2>2. CASE Left = 2
    <3>1. bus = "active"
      BY <1>1, <2>2 DEF OrientInv, AwakeIf
    <3>2. Good({"orient"})' => Sent
      BY <1>2, <1>5, <2>2, <3>1, GoodKept
    <3>3. Hear(panel, Transfer("MADCTL", Data("value", o))).madctl = o
      BY <1>1, <1>3, DataSent DEF Commands
    <3>4. Good({"orient"})' => panel'.madctl = asked'
      BY <1>5, <1>6, <2>2, <3>2, <3>3 DEF Sent
    <3> QED BY <3>4 DEF Oriented
  <2>3. CASE Left = 1
    <3>1. UNCHANGED panel
      BY <1>5, <2>3, StepIs
    <3>2. Good({"orient"}) => panel.madctl = asked
      BY <2>3 DEF DriverInv, Oriented
    <3> QED BY <1>2, <3>1, <3>2, GoodKept DEF Oriented
  <2> QED BY <1>7, <2>1, <2>2, <2>3
<1> QED BY <1>6, <1>8, <1>9, <1>10, <1>11 DEF OrientInv

(* What is drawn is the frame's own, or it does not count.                 *)
LEMMA DrawStep ==
  ASSUME DriverInv, Step, call = "draw"
  PROVE  DrawInv' /\ Oriented' /\ PictureKept'
<1>1. /\ DrawInv /\ todo \in Seq(Ops) /\ Doing(Head(todo).do) /\ panel \in Panels
      /\ PictureKept /\ drawn \subseteq Blocks
  BY StepIs DEF DriverInv, CallInv, Gc9TypeOK
<1>2. UNCHANGED <<display, call, ran>>
  BY StepTyped
<1>3. PICK area \in Areas : /\ In(WriteBuf(area))
                            /\ AwakeIf(Left \in 1..4)
                            /\ IF Good({"draw"})
                               THEN /\ Left <= 3 => panel.frame[1] = area[1]
                                    /\ Left <= 2 => panel.frame[2] = area[2]
                               ELSE drawn = {}
  BY <1>1 DEF DrawInv
<1>4. /\ Left \in 1..5 /\ Left' = Left - 1 /\ In(WriteBuf(area))'
      /\ Left = 5 => Head(todo).do = "bus" /\ Head(todo).cmd = "active"
      /\ Left = 4 => Head(todo) = Transfer("CASET", Data("cols", area[1]))
                     /\ Head(todo).do = "send" /\ Head(todo).cmd = "CASET"
      /\ Left = 3 => Head(todo) = Transfer("PASET", Data("rows", area[2]))
                     /\ Head(todo).do = "send" /\ Head(todo).cmd = "PASET"
      /\ Left = 2 => Head(todo) = Transfer("RAMWR", Data("pixels", area))
                     /\ Head(todo).do = "send" /\ Head(todo).cmd = "RAMWR"
      /\ Left = 1 => Head(todo).do = "bus" /\ Head(todo).cmd = "suspended"
  BY <1>1, <1>3, DrawAt
<1>5. Left \in {1, 2, 3, 4, 5}
  BY <1>4
<1>area. area[1] \subseteq Cols /\ area[2] \subseteq Rows
  BY DEF Areas
<1>6. Oriented'
  <2>1. ~(Head(todo).do = "send" /\ Head(todo).cmd = "MADCTL")
    BY <1>4, <1>5, Zenon
  <2> QED BY <2>1, StepKeeps
<1>7. StaysOn'
  <2>1. panel'.slp = panel.slp /\ panel'.disp = panel.disp /\ UNCHANGED pm
    <3>1. CASE Left \in {1, 5}
      BY <1>4, <3>1, StepIs
    <3>2. CASE Left \in {2, 3, 4}
      BY <1>4, <3>2, StepIs DEF Leaves
    <3> QED BY <1>5, <3>1, <3>2
  <2> QED BY <1>1, <1>2, <2>1, GoodKept DEF DrawInv, StaysOn
<1>8. CASE Left \in {1, 5}
  <2>1. /\ UNCHANGED <<panel, fails, drawn>>
        /\ bus' = IF Left = 5 THEN "active" ELSE "suspended"
    BY <1>4, <1>8, StepIs
  <2>2. AwakeIf(Left \in 1..4)'
    BY <1>4, <1>8, <2>1 DEF AwakeIf
  <2>3. /\ Good({"draw"})' => /\ Left' <= 3 => panel'.frame[1] = area[1]
                              /\ Left' <= 2 => panel'.frame[2] = area[2]
        /\ ~Good({"draw"})' => drawn' = {}
    BY <1>3, <1>4, <1>8, <2>1 DEF Good
  <2>4. PictureKept'
    BY <1>1, <2>1 DEF PictureKept
  <2> QED BY <1>4, <1>6, <1>7, <2>2, <2>3, <2>4 DEF DrawInv
<1>9. CASE Left \in {2, 3, 4}
  <2>1. /\ UNCHANGED bus /\ bus = "active" /\ (Sent \/ Lost) /\ Leaves(panel, Head(todo), panel')
        /\ Head(todo).do = "send"
    BY <1>3, <1>4, <1>9, StepIs DEF AwakeIf
  <2>2. AwakeIf(Left \in 1..4)'
    BY <1>4, <1>9, <2>1 DEF AwakeIf
  <2>3. /\ Good({"draw"})' => Sent /\ Good({"draw"})
        /\ ~Good({"draw"})' => drawn' = {}
    <3>1. Good({"draw"})' => Sent /\ Good({"draw"})
      BY <1>2, <2>1, GoodKept
    <3>2. CASE Lost
      BY <2>1, <3>1, <3>2 DEF Lost
    <3>3. CASE Sent /\ ~Good({"draw"})'
      <4>1. "draw" \in fails /\ ~Good({"draw"})
        BY <3>3 DEF Sent, Good
      <4>2. drawn = {}
        BY <1>3, <4>1
      <4> QED BY <3>1, <3>3, <4>1, <4>2 DEF Sent
    <3> QED BY <2>1, <3>1, <3>2, <3>3
  <2>4. Good({"draw"})' => /\ Left' <= 3 => panel'.frame[1] = area[1]
                           /\ Left' <= 2 => panel'.frame[2] = area[2]
    <3> SUFFICES ASSUME Good({"draw"})'
                 PROVE  /\ Left' <= 3 => panel'.frame[1] = area[1]
                        /\ Left' <= 2 => panel'.frame[2] = area[2]
      OBVIOUS
    <3>1. Sent /\ panel' = Hear(panel, Head(todo)) /\ Good({"draw"})
      BY <2>3 DEF Sent
    <3>2. CASE Left = 4
      <4>1. panel'.frame = <<area[1], panel.frame[2]>>
        BY <1>1, <1>4, <1>area, <3>1, <3>2, DataSent DEF Commands
      <4> QED BY <1>4, <3>2, <4>1
    <3>3. CASE Left = 3
      <4>1. panel'.frame = <<panel.frame[1], area[2]>>
        BY <1>1, <1>4, <1>area, <3>1, <3>3, DataSent DEF Commands
      <4> QED BY <1>3, <1>4, <3>1, <3>3, <4>1
    <3>4. CASE Left = 2
      <4>1. panel'.frame = panel.frame
        BY <1>4, <2>1, <3>4 DEF Leaves
      <4> QED BY <1>3, <1>4, <3>1, <3>4, <4>1
    <3> QED BY <1>9, <3>2, <3>3, <3>4
  <2>5. PictureKept'
    <3>1. CASE Left \in {3, 4}
      <4>1. Head(todo).cmd \notin {"RAMWR", ""}
        BY <1>4, <3>1
      <4> QED BY <4>1, StepKeeps
    <3>2. CASE Left = 2 /\ ~Good({"draw"})'
      BY <2>3, <3>2 DEF PictureKept
    <3>3. CASE Left = 2 /\ Good({"draw"})'
      <4>1. Sent /\ Good({"draw"}) /\ panel' = Hear(panel, Transfer("RAMWR", Data("pixels", area)))
        BY <1>4, <2>3, <3>3 DEF Sent
      <4>2. panel.frame = area
        <5>1. panel.frame[1] = area[1] /\ panel.frame[2] = area[2]
          BY <1>3, <3>3, <4>1
        <5> QED BY <1>1, <5>1 DEF Panels, Areas
      <4>3. drawn' \subseteq drawn \cup BlocksOf(area)
        <5>1. Head(todo).data.of = area
          BY <1>4, <3>3, TransferOf
        <5> QED BY <4>1, <5>1 DEF Sent
      <4>4. \A x \in Blocks : panel'.ram[x] = IF x \notin BlocksOf(area) THEN panel.ram[x] ELSE "own"
        BY <1>1, <4>1, <4>2, PixelsSent
      <4>5. BlocksOf(area) \subseteq Blocks
        BY <1>area DEF BlocksOf, Blocks
      <4> QED BY <1>1, <4>3, <4>4, <4>5 DEF PictureKept
    <3> QED BY <1>9, <3>1, <3>2, <3>3
  <2> QED BY <1>4, <1>6, <1>7, <2>2, <2>3, <2>4, <2>5 DEF DrawInv
<1> QED BY <1>5, <1>8, <1>9

LEMMA BootAt ==
  ASSUME todo \in Seq(Ops), In(InitDisplay), NEW what, Doing(what)
  PROVE  /\ Left \in 1..20 /\ Left' = Left - 1 /\ In(InitDisplay)'
         /\ Left = 20 => Head(todo) = Wake /\ Head(todo).do = "bus" /\ Head(todo).cmd = "active"
         /\ Left = 19 => Head(todo) = Command("INREGEN2") /\ Head(todo).do = "send" /\ Head(todo).cmd = "INREGEN2"
         /\ Left = 18 => Head(todo) = Vendor /\ Head(todo).do = "send" /\ Head(todo).cmd = "vendor"
         /\ Left = 17 => Head(todo) = Command("INREGEN1") /\ Head(todo).do = "send" /\ Head(todo).cmd = "INREGEN1"
         /\ Left = 16 => Head(todo) = Command("INREGEN2") /\ Head(todo).do = "send" /\ Head(todo).cmd = "INREGEN2"
         /\ Left = 15 => Head(todo) = Vendor /\ Head(todo).do = "send" /\ Head(todo).cmd = "vendor"
         /\ Left = 14 => Head(todo) = Transfer("MADCTL", Data("value", Rotation)) /\ Head(todo).do = "send" /\ Head(todo).cmd = "MADCTL"
         /\ Left = 13 => Head(todo) = Transfer("PIXFMT", Data("value", 5)) /\ Head(todo).do = "send" /\ Head(todo).cmd = "PIXFMT"
         /\ Left = 12 => Head(todo) = Vendor /\ Head(todo).do = "send" /\ Head(todo).cmd = "vendor"
         /\ Left = 11 => Head(todo) = Transfer("TEON", Data("value", 0)) /\ Head(todo).do = "send" /\ Head(todo).cmd = "TEON"
         /\ Left = 10 => Head(todo) = Command("INVON") /\ Head(todo).do = "send" /\ Head(todo).cmd = "INVON"
         /\ Left = 9 => Head(todo) = Transfer("CASET", Data("cols", Cols)) /\ Head(todo).do = "send" /\ Head(todo).cmd = "CASET"
         /\ Left = 8 => Head(todo) = Transfer("PASET", Data("rows", Rows)) /\ Head(todo).do = "send" /\ Head(todo).cmd = "PASET"
         /\ Left = 7 => Head(todo) = Command("RAMWR") /\ Head(todo).do = "send" /\ Head(todo).cmd = "RAMWR"
         /\ Left = 6 => Head(todo) = Transfer("", Data("black", Screen)) /\ Head(todo).do = "send" /\ Head(todo).cmd = ""
         /\ Left = 5 => Head(todo) = Command("DISPON") /\ Head(todo).do = "send" /\ Head(todo).cmd = "DISPON"
         /\ Left = 4 => Head(todo) = Msleep /\ Head(todo).do = "msleep" /\ Head(todo).cmd = ""
         /\ Left = 3 => Head(todo) = Command("SLPOUT") /\ Head(todo).do = "send" /\ Head(todo).cmd = "SLPOUT"
         /\ Left = 2 => Head(todo) = Msleep /\ Head(todo).do = "msleep" /\ Head(todo).cmd = ""
         /\ Left = 1 => Head(todo) = Release /\ Head(todo).do = "bus" /\ Head(todo).cmd = "suspended"
<1>1. InitDisplay \in Seq(Ops) /\ Len(InitDisplay) = 20
  BY InitDisplayIs
<1>2. /\ Left \in 1..20 /\ Left' = Left - 1 /\ In(InitDisplay)'
      /\ Head(todo) = InitDisplay[20 - Left + 1]
  BY <1>1, Taken
<1>3. \A i \in 1..20 : Left = 21 - i => Head(todo) = InitDisplay[i]
  BY <1>2
<1>4. Left = 20 => Head(todo) = Wake /\ Head(todo).do = "bus" /\ Head(todo).cmd = "active"
  <2>1. InitDisplay[1] = Wake
    BY InitDisplayIs
  <2>2. Left = 20 => Head(todo) = Wake
    BY <1>3, <2>1
  <2>3. Wake.do = "bus" /\ Wake.cmd = "active"
    BY OpIs DEF Transfer
  <2> QED BY <2>2, <2>3
<1>5. /\ Left = 19 => Head(todo) = Command("INREGEN2") /\ Head(todo).do = "send" /\ Head(todo).cmd = "INREGEN2"
      /\ Left = 18 => Head(todo) = Vendor /\ Head(todo).do = "send" /\ Head(todo).cmd = "vendor"
      /\ Left = 17 => Head(todo) = Command("INREGEN1") /\ Head(todo).do = "send" /\ Head(todo).cmd = "INREGEN1"
      /\ Left = 16 => Head(todo) = Command("INREGEN2") /\ Head(todo).do = "send" /\ Head(todo).cmd = "INREGEN2"
      /\ Left = 15 => Head(todo) = Vendor /\ Head(todo).do = "send" /\ Head(todo).cmd = "vendor"
  <2>1. /\ InitDisplay[2] = Command("INREGEN2")
        /\ InitDisplay[3] = Vendor
        /\ InitDisplay[4] = Command("INREGEN1")
        /\ InitDisplay[5] = Command("INREGEN2")
        /\ InitDisplay[6] = Vendor
    <3>1. /\ InitDisplay[2] = InitCmds[1] /\ InitDisplay[3] = InitCmds[2] /\ InitDisplay[4] = InitCmds[3]
          /\ InitDisplay[5] = InitCmds[4] /\ InitDisplay[6] = InitCmds[5]
      BY InitDisplayIs
    <3> QED BY <3>1, InitCmdsAre
  <2>2. /\ Left = 19 => Head(todo) = Command("INREGEN2")
        /\ Left = 18 => Head(todo) = Vendor
        /\ Left = 17 => Head(todo) = Command("INREGEN1")
        /\ Left = 16 => Head(todo) = Command("INREGEN2")
        /\ Left = 15 => Head(todo) = Vendor
    BY <1>3, <2>1
  <2>3. /\ Command("INREGEN2").do = "send" /\ Command("INREGEN2").cmd = "INREGEN2"
        /\ Vendor.do = "send" /\ Vendor.cmd = "vendor"
        /\ Command("INREGEN1").do = "send" /\ Command("INREGEN1").cmd = "INREGEN1"
    BY OpIs DEF Transfer
  <2> QED BY <2>2, <2>3
<1>6. /\ Left = 14 => Head(todo) = Transfer("MADCTL", Data("value", Rotation)) /\ Head(todo).do = "send" /\ Head(todo).cmd = "MADCTL"
      /\ Left = 13 => Head(todo) = Transfer("PIXFMT", Data("value", 5)) /\ Head(todo).do = "send" /\ Head(todo).cmd = "PIXFMT"
      /\ Left = 12 => Head(todo) = Vendor /\ Head(todo).do = "send" /\ Head(todo).cmd = "vendor"
      /\ Left = 11 => Head(todo) = Transfer("TEON", Data("value", 0)) /\ Head(todo).do = "send" /\ Head(todo).cmd = "TEON"
      /\ Left = 10 => Head(todo) = Command("INVON") /\ Head(todo).do = "send" /\ Head(todo).cmd = "INVON"
  <2>1. /\ InitDisplay[7] = Transfer("MADCTL", Data("value", Rotation))
        /\ InitDisplay[8] = Transfer("PIXFMT", Data("value", 5))
        /\ InitDisplay[9] = Vendor
        /\ InitDisplay[10] = Transfer("TEON", Data("value", 0))
        /\ InitDisplay[11] = Command("INVON")
    <3>1. /\ InitDisplay[7] = InitCmds[6] /\ InitDisplay[8] = InitCmds[7] /\ InitDisplay[9] = InitCmds[8]
          /\ InitDisplay[10] = InitCmds[9] /\ InitDisplay[11] = InitCmds[10]
      BY InitDisplayIs
    <3> QED BY <3>1, InitCmdsAre
  <2>2. /\ Left = 14 => Head(todo) = Transfer("MADCTL", Data("value", Rotation))
        /\ Left = 13 => Head(todo) = Transfer("PIXFMT", Data("value", 5))
        /\ Left = 12 => Head(todo) = Vendor
        /\ Left = 11 => Head(todo) = Transfer("TEON", Data("value", 0))
        /\ Left = 10 => Head(todo) = Command("INVON")
    BY <1>3, <2>1
  <2>3. /\ Transfer("MADCTL", Data("value", Rotation)).do = "send" /\ Transfer("MADCTL", Data("value", Rotation)).cmd = "MADCTL"
        /\ Transfer("PIXFMT", Data("value", 5)).do = "send" /\ Transfer("PIXFMT", Data("value", 5)).cmd = "PIXFMT"
        /\ Vendor.do = "send" /\ Vendor.cmd = "vendor"
        /\ Transfer("TEON", Data("value", 0)).do = "send" /\ Transfer("TEON", Data("value", 0)).cmd = "TEON"
        /\ Command("INVON").do = "send" /\ Command("INVON").cmd = "INVON"
    BY OpIs DEF Transfer
  <2> QED BY <2>2, <2>3
<1>7. /\ Left = 9 => Head(todo) = Transfer("CASET", Data("cols", Cols)) /\ Head(todo).do = "send" /\ Head(todo).cmd = "CASET"
      /\ Left = 8 => Head(todo) = Transfer("PASET", Data("rows", Rows)) /\ Head(todo).do = "send" /\ Head(todo).cmd = "PASET"
      /\ Left = 7 => Head(todo) = Command("RAMWR") /\ Head(todo).do = "send" /\ Head(todo).cmd = "RAMWR"
      /\ Left = 6 => Head(todo) = Transfer("", Data("black", Screen)) /\ Head(todo).do = "send" /\ Head(todo).cmd = ""
  <2>1. /\ InitDisplay[12] = Transfer("CASET", Data("cols", Cols))
        /\ InitDisplay[13] = Transfer("PASET", Data("rows", Rows))
        /\ InitDisplay[14] = Command("RAMWR")
        /\ InitDisplay[15] = Transfer("", Data("black", Screen))
    <3>1. /\ InitDisplay[12] = Clear[1] /\ InitDisplay[13] = Clear[2] /\ InitDisplay[14] = Clear[3]
          /\ InitDisplay[15] = Clear[4]
      BY InitDisplayIs
    <3> QED BY <3>1, ClearIs
  <2>2. /\ Left = 9 => Head(todo) = Transfer("CASET", Data("cols", Cols))
        /\ Left = 8 => Head(todo) = Transfer("PASET", Data("rows", Rows))
        /\ Left = 7 => Head(todo) = Command("RAMWR")
        /\ Left = 6 => Head(todo) = Transfer("", Data("black", Screen))
    <3>1. /\ Left = 9 => Head(todo) = InitDisplay[12]
          /\ Left = 8 => Head(todo) = InitDisplay[13]
          /\ Left = 7 => Head(todo) = InitDisplay[14]
          /\ Left = 6 => Head(todo) = InitDisplay[15]
      BY <1>3
    <3> QED BY <2>1, <3>1, Zenon
  <2>3. /\ Transfer("CASET", Data("cols", Cols)).do = "send" /\ Transfer("CASET", Data("cols", Cols)).cmd = "CASET"
        /\ Transfer("PASET", Data("rows", Rows)).do = "send" /\ Transfer("PASET", Data("rows", Rows)).cmd = "PASET"
        /\ Command("RAMWR").do = "send" /\ Command("RAMWR").cmd = "RAMWR"
        /\ Transfer("", Data("black", Screen)).do = "send" /\ Transfer("", Data("black", Screen)).cmd = ""
    BY OpIs DEF Transfer
  <2> QED BY <2>2, <2>3
<1>8. /\ Left = 5 => Head(todo) = Command("DISPON") /\ Head(todo).do = "send" /\ Head(todo).cmd = "DISPON"
      /\ Left = 4 => Head(todo) = Msleep /\ Head(todo).do = "msleep" /\ Head(todo).cmd = ""
      /\ Left = 3 => Head(todo) = Command("SLPOUT") /\ Head(todo).do = "send" /\ Head(todo).cmd = "SLPOUT"
      /\ Left = 2 => Head(todo) = Msleep /\ Head(todo).do = "msleep" /\ Head(todo).cmd = ""
      /\ Left = 1 => Head(todo) = Release /\ Head(todo).do = "bus" /\ Head(todo).cmd = "suspended"
  <2>1. /\ InitDisplay[16] = Command("DISPON")
        /\ InitDisplay[17] = Msleep
        /\ InitDisplay[18] = Command("SLPOUT")
        /\ InitDisplay[19] = Msleep
        /\ InitDisplay[20] = Release
    BY InitDisplayIs
  <2>2. /\ Left = 5 => Head(todo) = Command("DISPON")
        /\ Left = 4 => Head(todo) = Msleep
        /\ Left = 3 => Head(todo) = Command("SLPOUT")
        /\ Left = 2 => Head(todo) = Msleep
        /\ Left = 1 => Head(todo) = Release
    BY <1>3, <2>1
  <2>3. /\ Command("DISPON").do = "send" /\ Command("DISPON").cmd = "DISPON"
        /\ Msleep.do = "msleep" /\ Msleep.cmd = ""
        /\ Command("SLPOUT").do = "send" /\ Command("SLPOUT").cmd = "SLPOUT"
        /\ Release.do = "bus" /\ Release.cmd = "suspended"
    BY OpIs DEF Transfer
  <2> QED BY <2>2, <2>3
<1> QED BY <1>2, <1>4, <1>5, <1>6, <1>7, <1>8

(* A boot no transfer fails tells the panel one thing at a time, and what  *)
(* it was told the panel keeps.                                            *)
LEMMA BootTells ==
  ASSUME DriverInv, Step, call = "boot", BootInv, Good({"boot"})', Told(panel, Left)
  PROVE  Told(panel', Left - 1)
<1>1. todo \in Seq(Ops) /\ Doing(Head(todo).do) /\ panel \in Panels
  BY StepIs DEF DriverInv, Gc9TypeOK
<1>2. Left \in 1..20
  BY <1>1, BootAt DEF BootInv
<1>at. In(InitDisplay)
  BY DEF BootInv
<1>3. CASE Head(todo).do # "send"
  <2>1. Left \in {20, 4, 2, 1}
    <3>1. Left \in {20, 19, 18, 17, 16, 15, 14, 13, 12, 11, 10, 9, 8, 7, 6, 5, 4, 3, 2, 1}
      BY <1>2
    <3>2. Head(todo).do # "send" => Left \notin {19, 18, 17, 16, 15, 14, 13, 12, 11, 10, 9, 8, 7, 6, 5, 3}
      BY <1>1, <1>at, BootAt
    <3> QED BY <1>3, <3>1, <3>2
  <2>2. /\ panel'.frame = panel.frame /\ panel'.open = panel.open /\ panel'.regs = panel.regs
        /\ panel'.ram = panel.ram /\ panel'.disp = panel.disp /\ panel'.slp = panel.slp
    BY <1>3, StepIs DEF Slept
  <2> QED BY <2>1, <2>2 DEF Told
<1>4. CASE Head(todo).do = "send"
  <2>1. panel' = Hear(panel, Head(todo)) /\ Leaves(panel, Head(todo), panel')
    <3>1. bus = "active"
      BY <1>2 DEF BootInv, AwakeIf
    <3>2. call' = "boot"
      BY StepTyped
    <3> QED BY <1>4, <3>1, <3>2, GoodKept, StepIs DEF Sent
  <2>2. panel.open \subseteq panel'.open /\ panel.regs \subseteq panel'.regs
    BY <2>1 DEF Leaves
  <2>3. CASE Left \in {19, 17, 16, 10, 5, 3}
    <3>1. Head(todo) = Command(Head(todo).cmd)
          /\ Head(todo).cmd \in {"INREGEN1", "INREGEN2", "INVON", "DISPON", "SLPOUT"}
      BY <1>1, <1>at, <2>3, BootAt
    <3>2. /\ panel'.frame = panel.frame /\ panel'.ram = panel.ram
          /\ Head(todo).cmd # "SLPOUT" => panel'.slp = panel.slp
          /\ Head(todo).cmd # "DISPON" => panel'.disp = panel.disp
      BY <2>1, <3>1 DEF Leaves
    <3>3. /\ Head(todo).cmd = "SLPOUT" => panel'.slp = "out"
          /\ Head(todo).cmd = "DISPON" => panel'.disp = "on"
          /\ Head(todo).cmd \in {"INREGEN1", "INREGEN2"} => Head(todo).cmd \in panel'.open
          /\ Head(todo).cmd = "INVON" => Head(todo).cmd \in panel'.regs
      <4>1. PICK c \in Commands : c # "" /\ c = Head(todo).cmd
        BY <3>1 DEF Commands
      <4>2. panel' = Hear(panel, Command(c))
        BY <2>1, <3>1, <4>1
      <4>3. LET q == Hear(panel, Command(c))
            IN  /\ c = "SLPOUT" => q.slp = "out"
                /\ c = "DISPON" => q.disp = "on"
                /\ c \in {"INREGEN1", "INREGEN2"} => c \in q.open
                /\ c = "INVON" => c \in q.regs
        BY <1>1, <4>1, CommandSent
      <4> QED BY <4>1, <4>2, <4>3
    <3>4. /\ Left = 19 => Head(todo).cmd = "INREGEN2"
          /\ Left = 17 => Head(todo).cmd = "INREGEN1"
          /\ Left = 10 => Head(todo).cmd = "INVON"
          /\ Left = 5 => Head(todo).cmd = "DISPON"
          /\ Left = 3 => Head(todo).cmd = "SLPOUT"
      BY <1>1, <1>at, BootAt
    <3> QED BY <2>2, <2>3, <3>2, <3>3, <3>4 DEF Told
  <2>4. CASE Left \in {18, 15, 14, 13, 12, 11}
    <3>1. PICK c, v :
            /\ c \in {"vendor", "MADCTL", "PIXFMT", "TEON"}
            /\ Head(todo) = Transfer(c, Data("value", v)) /\ Head(todo).cmd = c
            /\ c = "MADCTL" => v \in Orientations
      <4>1. CASE Left \in {18, 15, 12}
        <5>1. Head(todo) = Transfer("vendor", Data("value", 0)) /\ Head(todo).cmd = "vendor"
          BY <1>1, <1>at, <4>1, BootAt DEF Vendor
        <5> QED BY <5>1
      <4>2. CASE Left = 14
        <5>1. Head(todo) = Transfer("MADCTL", Data("value", Rotation)) /\ Head(todo).cmd = "MADCTL"
          BY <1>1, <1>at, <4>2, BootAt
        <5> QED BY <5>1, PanelAssumption
      <4>3. CASE Left = 13
        <5>1. Head(todo) = Transfer("PIXFMT", Data("value", 5)) /\ Head(todo).cmd = "PIXFMT"
          BY <1>1, <1>at, <4>3, BootAt
        <5> QED BY <5>1
      <4>4. CASE Left = 11
        <5>1. Head(todo) = Transfer("TEON", Data("value", 0)) /\ Head(todo).cmd = "TEON"
          BY <1>1, <1>at, <4>4, BootAt
        <5> QED BY <5>1
      <4> QED BY <2>4, <4>1, <4>2, <4>3, <4>4
    <3>2. panel'.frame = panel.frame
      BY <2>1, <3>1 DEF Leaves
    <3>3. /\ c # "vendor" => c \in panel'.regs
          /\ panel.open = {"INREGEN1", "INREGEN2"} => c \in panel'.regs
      BY <1>1, <2>1, <3>1, DataSent DEF Commands
    <3>4. /\ Left = 15 => Head(todo).cmd = "vendor"
          /\ Left = 14 => Head(todo).cmd = "MADCTL"
          /\ Left = 13 => Head(todo).cmd = "PIXFMT"
          /\ Left = 11 => Head(todo).cmd = "TEON"
      BY <1>1, <1>at, BootAt
    <3>5. Left = 15 => panel.open = {"INREGEN1", "INREGEN2"}
      BY <1>1 DEF Told, Panels
    <3> QED BY <2>2, <2>4, <3>1, <3>2, <3>3, <3>4, <3>5 DEF Told
  <2>5. CASE Left = 9
    <3>1. Head(todo) = Transfer("CASET", Data("cols", Cols))
      BY <1>1, <1>at, <2>5, BootAt
    <3>2. panel'.frame = <<Cols, panel.frame[2]>>
      BY <1>1, <2>1, <3>1, DataSent DEF Commands
    <3> QED BY <2>2, <2>5, <3>2, ScreenArea DEF Told, Screen
  <2>6. CASE Left = 8
    <3>1. Head(todo) = Transfer("PASET", Data("rows", Rows))
      BY <1>1, <1>at, <2>6, BootAt
    <3>2. panel'.frame = <<panel.frame[1], Rows>>
      BY <1>1, <2>1, <3>1, DataSent DEF Commands
    <3> QED BY <2>2, <2>6, <3>2, ScreenArea DEF Told, Screen
  <2>7. CASE Left = 7
    <3>1. Head(todo) = Command("RAMWR") /\ Head(todo).cmd = "RAMWR"
      BY <1>1, <1>at, <2>7, BootAt
    <3>2. panel'.cmd = "RAMWR"
      BY <1>1, <2>1, <3>1, CommandSent DEF Commands
    <3>3. panel'.frame = panel.frame
      BY <2>1, <3>1 DEF Leaves
    <3> QED BY <2>2, <2>7, <3>2, <3>3 DEF Told
  <2>8. CASE Left = 6
    <3>1. Head(todo) = Transfer("", Data("black", Screen))
      BY <1>1, <1>at, <2>8, BootAt
    <3>2. panel'.frame = Screen /\ \A x \in Blocks : panel'.ram[x] = "black"
      BY <1>1, <2>1, <2>8, <3>1, BlackSent DEF Told
    <3> QED BY <2>2, <2>8, <3>2 DEF Told
  <2>9. Left \in {19, 18, 17, 16, 15, 14, 13, 12, 11, 10, 9, 8, 7, 6, 5, 3}
    <3>1. Left \in {20, 19, 18, 17, 16, 15, 14, 13, 12, 11, 10, 9, 8, 7, 6, 5, 4, 3, 2, 1}
      BY <1>2
    <3>2. Head(todo).do = "send" => Left \notin {20, 4, 2, 1}
      BY <1>1, <1>at, BootAt
    <3> QED BY <1>4, <3>1, <3>2
  <2> QED BY <2>3, <2>4, <2>5, <2>6, <2>7, <2>8, <2>9
<1> QED BY <1>3, <1>4

LEMMA BootStep ==
  ASSUME DriverInv, Step, call = "boot"
  PROVE  BootInv' /\ Oriented' /\ PictureKept'
<1>1. /\ BootInv /\ todo \in Seq(Ops) /\ Doing(Head(todo).do) /\ panel \in Panels
      /\ Rotation \in Orientations
  BY StepIs, PanelAssumption DEF DriverInv, CallInv, Gc9TypeOK
<1>2. UNCHANGED <<display, asked, call>>
  BY StepTyped
<1>at. In(InitDisplay)
  BY <1>1 DEF BootInv
<1>3. Left \in 1..20 /\ Left' = Left - 1 /\ In(InitDisplay)'
  BY <1>1, <1>at, BootAt
<1>4. drawn' = {} /\ PictureKept'
  <2>1. drawn' \subseteq drawn
    BY StepIs DEF Sent, Lost
  <2> QED BY <1>1, <2>1 DEF BootInv, PictureKept
<1>5. panel'.madctl = Rotation
  <2>1. CASE Head(todo).do = "send" /\ Head(todo).cmd = "MADCTL"
    <3>1. Head(todo).data.of = Rotation
      <4>1. Left = 14
        <5>1. Left \in {20, 19, 18, 17, 16, 15, 14, 13, 12, 11, 10, 9, 8, 7, 6, 5, 4, 3, 2, 1}
          BY <1>3
        <5>2. Head(todo).cmd = "MADCTL" =>
                Left \notin {20, 19, 18, 17, 16, 15, 13, 12, 11, 10, 9, 8, 7, 6, 5, 4, 3, 2, 1}
          BY <1>1, <1>at, BootAt
        <5> QED BY <2>1, <5>1, <5>2
      <4>2. Head(todo) = Transfer("MADCTL", Data("value", Rotation))
        BY <1>1, <1>at, <4>1, BootAt
      <4> QED BY <4>2, TransferOf
    <3>2. Leaves(panel, Head(todo), panel')
      BY <2>1, StepIs
    <3> QED BY <1>1, <3>1, <3>2 DEF Leaves, BootInv
  <2>2. CASE ~(Head(todo).do = "send" /\ Head(todo).cmd = "MADCTL")
    BY <1>1, <2>2, StepKeeps DEF BootInv
  <2> QED BY <2>1, <2>2
<1>6. Oriented'
  BY <1>1, <1>2, <1>5 DEF BootInv, Oriented
<1>7. pm' = "active" /\ AwakeIf(Left > 0)'
  <2>1. CASE Head(todo).do \in {"send", "msleep"}
    <3>1. UNCHANGED <<bus, pm>> /\ Left > 1
      <4>1. Left = 1 => Head(todo).do = "bus"
        BY <1>1, <1>at, BootAt
      <4> QED BY <1>3, <2>1, <4>1, StepIs
    <3> QED BY <1>1, <1>3, <3>1 DEF BootInv, AwakeIf
  <2>2. CASE Head(todo).do \notin {"send", "msleep"}
    <3>1. Left \in {20, 1}
      <4>1. Left \in {20, 19, 18, 17, 16, 15, 14, 13, 12, 11, 10, 9, 8, 7, 6, 5, 4, 3, 2, 1}
        BY <1>3
      <4>2. Left \in {19, 18, 17, 16, 15, 14, 13, 12, 11, 10, 9, 8, 7, 6, 5, 4, 3, 2} =>
              Head(todo).do \in {"send", "msleep"}
        BY <1>1, <1>at, BootAt
      <4> QED BY <2>2, <4>1, <4>2
    <3>2. /\ Left = 20 => Head(todo).do = "bus" /\ Head(todo).cmd = "active"
          /\ Left = 1 => Head(todo).do = "bus" /\ Head(todo).cmd = "suspended"
      BY <1>1, <1>at, BootAt
    <3>3. UNCHANGED pm /\ bus' = IF Left = 20 THEN "active" ELSE "suspended"
      BY <3>1, <3>2, StepIs
    <3> QED BY <1>1, <1>3, <3>1, <3>3 DEF BootInv, AwakeIf
  <2> QED BY <2>1, <2>2
<1>8. Good({"boot"})' => Told(panel, Left)'
  <2> SUFFICES ASSUME Good({"boot"})' PROVE Told(panel, Left)'
    OBVIOUS
  <2>1. Told(panel, Left)
    BY <1>1, GoodKept DEF BootInv
  <2>2. Told(panel', Left - 1)
    BY <1>1, <2>1, BootTells
  <2> QED BY <1>3, <2>2
<1> QED BY <1>1, <1>2, <1>3, <1>4, <1>5, <1>6, <1>7, <1>8 DEF BootInv

(* A step of a call keeps the invariant.                                   *)
LEMMA StepInv == DriverInv /\ Step => DriverInv'
<1> SUFFICES ASSUME DriverInv, Step PROVE DriverInv'
  OBVIOUS
<1>1. call \in {"boot", "on", "sleep", "draw", "orient"} /\ call' = call
  BY StepTyped DEF DriverInv, Gc9TypeOK
<1>2. CallInv' /\ Oriented' /\ PictureKept'
  <2>1. CASE call = "boot"
    BY <1>1, <2>1, BootStep DEF CallInv
  <2>2. CASE call = "on"
    BY <1>1, <2>2, OnStep DEF CallInv
  <2>3. CASE call = "sleep"
    BY <1>1, <2>3, SleepStep DEF CallInv
  <2>4. CASE call = "draw"
    BY <1>1, <2>4, DrawStep DEF CallInv
  <2>5. CASE call = "orient"
    BY <1>1, <2>5, OrientStep DEF CallInv
  <2> QED BY <1>1, <2>1, <2>2, <2>3, <2>4, <2>5
<1> QED BY <1>2, StepTyped DEF DriverInv

-----------------------------------------------------------------------------
(* What a call that is over has left to the next.                          *)
LEMMA Ended ==
  ASSUME DriverInv, todo = <<>>
  PROVE  /\ Left = 0 /\ bus = "suspended" /\ panel.settling = FALSE
         /\ Good({"orient"}) => panel.madctl = asked
         /\ display = "On" => StaysOn
         /\ display = "Sleep" => call \in {"boot", "sleep"}
         /\ call = "boot" => pm = "active" /\ (Good({"boot"}) => Told(panel, 0))
         /\ call = "sleep" => "boot" \notin fails /\ (pm = "active" => ~Good({"sleep"}))
         /\ call = "sleep" /\ ran /\ Good({"sleep"}) => panel.slp = "in" /\ panel.disp = "off"
         /\ call = "sleep" => ran \/ ~Good({"on"})
<1>1. Left = 0 /\ call \in {"boot", "on", "sleep", "draw", "orient"} /\ panel \in Panels
  BY DEF DriverInv, Gc9TypeOK, Left
<1>2. panel.settling = FALSE
  BY <1>1 DEF DriverInv, Settles, Panels
<1>3. Good({"orient"}) => panel.madctl = asked
  BY <1>1 DEF DriverInv, Oriented
<1>4. CASE call = "boot"
  <2>1. BootInv
    BY <1>4 DEF DriverInv, CallInv
  <2> QED BY <1>1, <1>2, <1>3, <1>4, <2>1 DEF BootInv, AwakeIf
<1>5. CASE call = "on"
  <2>1. OnInv
    BY <1>5 DEF DriverInv, CallInv
  <2> QED BY <1>1, <1>2, <1>3, <1>5, <2>1 DEF OnInv, AwakeIf, StaysOn
<1>6. CASE call = "sleep"
  <2>1. SleepInv
    BY <1>6 DEF DriverInv, CallInv
  <2> QED BY <1>1, <1>2, <1>3, <1>6, <2>1 DEF SleepInv, AwakeIf
<1>7. CASE call = "draw"
  <2>1. DrawInv
    BY <1>7 DEF DriverInv, CallInv
  <2> QED BY <1>1, <1>2, <1>3, <1>7, <2>1 DEF DrawInv, AwakeIf, StaysOn
<1>8. CASE call = "orient"
  <2>1. OrientInv
    BY <1>8 DEF DriverInv, CallInv
  <2> QED BY <1>1, <1>2, <1>3, <1>8, <2>1 DEF OrientInv, AwakeIf, StaysOn
<1> QED BY <1>1, <1>4, <1>5, <1>6, <1>7, <1>8

(* A call begins with its whole list, every SLPOUT of it with a wait.      *)
WaitsIn(list) == \A i \in 1..Len(list) :
                   list[i].cmd = "SLPOUT" => i < Len(list) /\ list[i + 1].do = "msleep"

LEMMA Begun ==
  ASSUME NEW list \in Seq(Ops), todo' = list
  PROVE  In(list)' /\ Left' = Len(list) /\ (WaitsIn(list) => Waits')
<1>1. Len(list) \in Nat /\ SubSeq(list, 1, Len(list)) = list
  OBVIOUS
<1>2. Len(todo') - Len(todo') + 1 = 1
  BY <1>1
<1> QED BY <1>1, <1>2 DEF In, Rest, Left, Waits, WaitsIn

LEMMA AllWait ==
  /\ WaitsIn(InitDisplay) /\ WaitsIn(OnList) /\ WaitsIn(SleepList)
  /\ WaitsIn(<<Command("DISPON")>>) /\ WaitsIn(<<Command("DISPOFF")>>)
  /\ \A area \in Areas : WaitsIn(WriteBuf(area))
  /\ \A o \in Orientations : WaitsIn(SetOrientation(o))
<1>op. /\ Wake.cmd # "SLPOUT" /\ Release.cmd # "SLPOUT" /\ Msleep.cmd # "SLPOUT"
       /\ Msleep.do = "msleep" /\ Vendor.cmd # "SLPOUT"
       /\ Becomes("active").cmd # "SLPOUT" /\ Becomes("suspended").cmd # "SLPOUT"
       /\ Command("DISPON").cmd # "SLPOUT" /\ Command("DISPOFF").cmd # "SLPOUT"
       /\ Command("SLPIN").cmd # "SLPOUT" /\ Command("INREGEN1").cmd # "SLPOUT"
       /\ Command("INREGEN2").cmd # "SLPOUT" /\ Command("INVON").cmd # "SLPOUT"
       /\ Command("RAMWR").cmd # "SLPOUT"
       /\ \A c, d : c # "SLPOUT" => Transfer(c, d).cmd # "SLPOUT"
  <2>1. /\ Wake.cmd # "SLPOUT" /\ Release.cmd # "SLPOUT" /\ Msleep.cmd # "SLPOUT"
        /\ Msleep.do = "msleep" /\ Vendor.cmd # "SLPOUT"
        /\ Becomes("active").cmd # "SLPOUT" /\ Becomes("suspended").cmd # "SLPOUT"
    BY OpIs
  <2>2. ASSUME NEW c, c # "SLPOUT" PROVE Command(c).cmd # "SLPOUT"
    BY <2>2, OpIs
  <2>3. ASSUME NEW c, NEW d, c # "SLPOUT" PROVE Transfer(c, d).cmd # "SLPOUT"
    BY <2>3 DEF Transfer
  <2>4. /\ Command("DISPON").cmd # "SLPOUT" /\ Command("DISPOFF").cmd # "SLPOUT"
        /\ Command("SLPIN").cmd # "SLPOUT" /\ Command("INREGEN1").cmd # "SLPOUT"
        /\ Command("INREGEN2").cmd # "SLPOUT" /\ Command("INVON").cmd # "SLPOUT"
        /\ Command("RAMWR").cmd # "SLPOUT"
    BY <2>2
  <2> QED BY <2>1, <2>3, <2>4, Zenon
<1>1. WaitsIn(OnList)
  <2>1. /\ OnList[1].cmd # "SLPOUT" /\ OnList[4].cmd # "SLPOUT" /\ OnList[5].cmd # "SLPOUT"
        /\ OnList[6].cmd # "SLPOUT" /\ OnList[7].cmd # "SLPOUT"
        /\ OnList[3].do = "msleep" /\ OnList[3].cmd # "SLPOUT" /\ Len(OnList) = 7
    BY <1>op, OnListIs
  <2> QED BY <2>1 DEF WaitsIn
<1>2. WaitsIn(SleepList)
  <2>1. /\ SleepList[1].cmd # "SLPOUT" /\ SleepList[2].cmd # "SLPOUT" /\ SleepList[3].cmd # "SLPOUT"
        /\ SleepList[4].cmd # "SLPOUT" /\ SleepList[5].cmd # "SLPOUT" /\ SleepList[6].cmd # "SLPOUT"
        /\ Len(SleepList) = 6
    BY <1>op, SleepListIs
  <2> QED BY <2>1 DEF WaitsIn
<1>3. WaitsIn(<<Command("DISPON")>>) /\ WaitsIn(<<Command("DISPOFF")>>)
  <2>1. Command("DISPON").cmd # "SLPOUT" /\ Command("DISPOFF").cmd # "SLPOUT"
    BY OpIs, ZenonT(30)
  <2> QED BY <2>1 DEF WaitsIn
<1>4. ASSUME NEW area \in Areas PROVE WaitsIn(WriteBuf(area))
  <2> DEFINE list == WriteBuf(area)
  <2>1. /\ Len(list) = 5 /\ list[1].cmd # "SLPOUT" /\ list[2].cmd # "SLPOUT"
        /\ list[3].cmd # "SLPOUT" /\ list[4].cmd # "SLPOUT" /\ list[5].cmd # "SLPOUT"
    BY <1>op, WriteBufIs
  <2> QED BY <2>1 DEF WaitsIn
<1>5. ASSUME NEW o \in Orientations PROVE WaitsIn(SetOrientation(o))
  <2> DEFINE list == SetOrientation(o)
  <2>1. Len(list) = 3 /\ list[1].cmd # "SLPOUT" /\ list[2].cmd # "SLPOUT" /\ list[3].cmd # "SLPOUT"
    BY <1>op, SetOrientationIs
  <2> QED BY <2>1 DEF WaitsIn
<1>6. WaitsIn(InitDisplay)
  <2> DEFINE list == InitDisplay
  <2>1. /\ Len(list) = 20 /\ list[1].cmd # "SLPOUT" /\ list[16].cmd # "SLPOUT"
        /\ list[17].cmd # "SLPOUT" /\ list[19].cmd # "SLPOUT" /\ list[20].cmd # "SLPOUT"
        /\ list[19].do = "msleep"
    BY <1>op, InitDisplayIs
  <2>2. \A i \in 1..10 : InitCmds[i].cmd # "SLPOUT"
    <3>1. /\ InitCmds[1].cmd # "SLPOUT" /\ InitCmds[2].cmd # "SLPOUT" /\ InitCmds[3].cmd # "SLPOUT"
          /\ InitCmds[4].cmd # "SLPOUT" /\ InitCmds[5].cmd # "SLPOUT" /\ InitCmds[6].cmd # "SLPOUT"
          /\ InitCmds[7].cmd # "SLPOUT" /\ InitCmds[8].cmd # "SLPOUT" /\ InitCmds[9].cmd # "SLPOUT"
          /\ InitCmds[10].cmd # "SLPOUT"
      BY <1>op, InitCmdsAre
    <3> QED BY <3>1
  <2>3. \A i \in 1..4 : Clear[i].cmd # "SLPOUT"
    <3>1. /\ Clear[1].cmd # "SLPOUT" /\ Clear[2].cmd # "SLPOUT"
          /\ Clear[3].cmd # "SLPOUT" /\ Clear[4].cmd # "SLPOUT"
      BY <1>op, ClearIs
    <3> QED BY <3>1
  <2>4. \A i \in 2..11 : list[i].cmd # "SLPOUT"
    BY <2>2, InitDisplayIs, SMTT(30)
  <2>5. \A i \in 12..15 : list[i].cmd # "SLPOUT"
    BY <2>3, InitDisplayIs, SMTT(30)
  <2> HIDE DEF list
  <2>6. ASSUME NEW i \in 1..20, list[i].cmd = "SLPOUT" PROVE i = 18
    <3>1. i \in {1} \cup 2..11 \cup 12..15 \cup {16, 17, 18, 19, 20}
      OBVIOUS
    <3> QED BY <2>1, <2>4, <2>5, <2>6, <3>1
  <2>7. WaitsIn(list)
    BY <2>1, <2>6 DEF WaitsIn
  <2> QED BY <2>7 DEF list
<1> QED BY <1>1, <1>2, <1>3, <1>4, <1>5, <1>6

(* Nothing but the call changes when one begins.                           *)
LEMMA CallBegins ==
  ASSUME DriverInv, todo = <<>>, NEW list \in Seq(Ops), WaitsIn(list), todo' = list,
         UNCHANGED <<err, bus, pm, panel, failed, drawn>>, fails' \subseteq fails,
         display' \in {"On", "Sleep"}, call' \in {"boot", "on", "sleep", "draw", "orient"},
         asked' \in Orientations, ran' \in BOOLEAN
  PROVE  /\ Gc9TypeOK' /\ todo' \in Seq(Ops) /\ Waits' /\ Settles' /\ PictureKept'
         /\ In(list)' /\ Left' = Len(list) /\ bus' = "suspended"
<1>1. Gc9TypeOK'
  BY DEF DriverInv, Gc9TypeOK
<1>2. Settles' /\ bus' = "suspended"
  BY Ended DEF Settles
<1>3. PictureKept'
  BY DEF DriverInv, PictureKept
<1> QED BY <1>1, <1>2, <1>3, Begun

LEMMA OnBegins == DriverInv /\ DisplayOn => DriverInv'
<1> SUFFICES ASSUME DriverInv, DisplayOn PROVE DriverInv'
  OBVIOUS
<1>1. /\ todo = <<>> /\ display = "Sleep" /\ display' = "On" /\ call' = "on" /\ fails' = fails \ {"on"}
      /\ UNCHANGED <<err, bus, pm, panel, failed, drawn, asked>>
      /\ todo' = PmRun("active") \o <<Command("DISPON")>>
      /\ ran' = (pm = "suspended" \/ (call = "boot" /\ "boot" \notin fails))
  BY DEF DisplayOn, Calls
<1>ran. ran' \in BOOLEAN
  BY Zenon DEF DisplayOn
<1>2. asked' \in Orientations /\ pm \in {"active", "suspended"} /\ ran' \in BOOLEAN
  BY <1>1, <1>ran DEF DriverInv, Gc9TypeOK
<1>3. Oriented'
  <2>1. Good({"orient"})' => Good({"orient"})
    BY <1>1 DEF Good
  <2> QED BY <1>1, <2>1, Ended DEF Oriented
<1>4. CASE pm = "suspended"
  <2>1. todo' = OnList
    BY <1>1, <1>4 DEF PmRun, OnList
  <2>2. /\ Gc9TypeOK' /\ todo' \in Seq(Ops) /\ Waits' /\ Settles' /\ PictureKept'
        /\ In(OnList)' /\ Left' = 7 /\ bus' = "suspended"
    BY <1>1, <1>2, <2>1, OnListIs, AllWait, CallBegins
  <2>3. ran'
    BY <1>4, Zenon DEF DisplayOn
  <2>4. OnInv'
    BY <1>1, <1>4, <2>2, <2>3 DEF OnInv, AwakeIf
  <2> QED BY <1>1, <1>3, <2>2, <2>4 DEF DriverInv, CallInv
<1>5. CASE pm = "active"
  <2> DEFINE list == <<Command("DISPON")>>
  <2>1. list \in Seq(Ops) /\ Len(list) = 1 /\ list[1] = Command("DISPON")
    BY OpsHave, SeqOf
  <2>2. todo' = list
    BY <1>1, <1>5, <2>1 DEF PmRun
  <2>3. WaitsIn(list)
    BY AllWait
  <2> HIDE DEF list
  <2>4. /\ Gc9TypeOK' /\ todo' \in Seq(Ops) /\ Waits' /\ Settles' /\ PictureKept'
        /\ Left' = 1 /\ bus' = "suspended"
    BY <1>1, <1>2, <2>1, <2>2, <2>3, CallBegins
  <2>5. In(OnList)'
    <3>1. /\ Len(SubSeq(OnList, 7, 7)) = 1 /\ SubSeq(OnList, 7, 7)[1] = Command("DISPON")
          /\ SubSeq(OnList, 7, 7) \in Seq(Ops)
      BY OnListIs
    <3>2. SubSeq(OnList, 7, 7) = list
      BY <2>1, <3>1, SeqEqual
    <3>3. Len(todo') = 1 /\ Len(OnList) = 7
      BY <2>1, <2>2, OnListIs
    <3>4. Len(OnList) - Len(todo') + 1 = 7 /\ Len(todo') <= Len(OnList)
      BY <3>3
    <3> QED BY <2>2, <3>2, <3>3, <3>4 DEF In, Rest
  <2>6. /\ ran' => panel'.slp = "out" /\ panel'.disp = "on"
        /\ ran' \/ ~Good({"boot", "sleep"})'
    <3>1. /\ call \in {"boot", "sleep"}
          /\ call = "boot" /\ Good({"boot"}) => Told(panel, 0)
          /\ call = "sleep" => ~Good({"sleep"})
      BY <1>1, <1>5, Ended
    <3>2. ran' <=> call = "boot" /\ Good({"boot"})
      BY <1>1, <1>5 DEF Good
    <3>3. Good({"boot", "sleep"})' => Good({"boot"}) /\ Good({"sleep"})
      BY <1>1 DEF Good
    <3> QED BY <1>1, <3>1, <3>2, <3>3 DEF Told
  <2>7. OnInv'
    BY <1>1, <1>5, <2>4, <2>5, <2>6 DEF OnInv, AwakeIf
  <2> QED BY <1>1, <1>3, <2>4, <2>7 DEF DriverInv, CallInv
<1> QED BY <1>2, <1>4, <1>5

LEMMA SleepBegins == DriverInv /\ DisplaySleep => DriverInv'
<1> SUFFICES ASSUME DriverInv, DisplaySleep PROVE DriverInv'
  OBVIOUS
<1>1. /\ todo = <<>> /\ display = "On" /\ display' = "Sleep" /\ call' = "sleep"
      /\ fails' = fails \ {"sleep", "boot"}
      /\ UNCHANGED <<err, bus, pm, panel, failed, drawn, asked>>
      /\ todo' = <<Command("DISPOFF")>> \o PmRun("suspended")
      /\ ran' = (pm = "active")
  BY DEF DisplaySleep, Calls
<1>ran. ran' \in BOOLEAN
  BY Zenon DEF DisplaySleep
<1>2. asked' \in Orientations /\ pm \in {"active", "suspended"} /\ StaysOn
  BY <1>1, Ended DEF DriverInv, Gc9TypeOK
<1>3. Oriented'
  <2>1. Good({"orient"})' => Good({"orient"})
    BY <1>1 DEF Good
  <2> QED BY <1>1, <2>1, Ended DEF Oriented
<1>4. CASE pm = "active"
  <2>1. todo' = SleepList
    BY <1>1, <1>4 DEF PmRun, SleepList
  <2>2. /\ Gc9TypeOK' /\ todo' \in Seq(Ops) /\ Waits' /\ Settles' /\ PictureKept'
        /\ In(SleepList)' /\ Left' = 6 /\ bus' = "suspended"
    BY <1>1, <1>2, <1>ran, <2>1, SleepListIs, AllWait, CallBegins
  <2>3. ran'
    BY <1>1, <1>4
  <2>4. SleepInv'
    BY <1>1, <1>4, <2>2, <2>3 DEF SleepInv, AwakeIf
  <2> QED BY <1>1, <1>3, <2>2, <2>4 DEF DriverInv, CallInv
<1>5. CASE pm = "suspended"
  <2> DEFINE list == <<Command("DISPOFF")>>
  <2>1. list \in Seq(Ops) /\ Len(list) = 1
    BY BlankingIs
  <2>2. todo' = list
    BY <1>1, <1>5, <2>1 DEF PmRun
  <2>3. WaitsIn(list)
    BY AllWait
  <2> HIDE DEF list
  <2>4. /\ Gc9TypeOK' /\ todo' \in Seq(Ops) /\ Waits' /\ Settles' /\ PictureKept'
        /\ In(list)' /\ bus' = "suspended"
    BY <1>1, <1>2, <1>ran, <2>1, <2>2, <2>3, CallBegins
  <2>5. ~Good({"on"})'
    BY <1>1, <1>2, <1>5 DEF StaysOn, Good
  <2>6. SleepInv'
    BY <1>1, <1>5, <2>4, <2>5 DEF SleepInv, AwakeIf, list
  <2> QED BY <1>1, <1>3, <2>4, <2>6 DEF DriverInv, CallInv
<1> QED BY <1>2, <1>4, <1>5

LEMMA StaysOnKept ==
  ASSUME StaysOn, UNCHANGED <<display, pm, panel, ran>>,
         fails' = fails \ {"draw"} \/ fails' = fails \ {"orient"}
  PROVE  StaysOn'
<1>1. /\ Good({"on"})' => Good({"on"})
      /\ Good({"boot", "sleep"})' => Good({"boot", "sleep"})
  BY DEF Good
<1> QED BY <1>1 DEF StaysOn

LEMMA DrawBegins == ASSUME DriverInv, NEW area \in Areas, Draw(area) PROVE DriverInv'
<1>1. /\ todo = <<>> /\ display = "On" /\ call' = "draw" /\ fails' = fails \ {"draw"}
      /\ UNCHANGED <<display, err, bus, pm, panel, failed, drawn, asked, ran>>
      /\ todo' = WriteBuf(area)
  BY DEF Draw, Calls
<1>2. asked' \in Orientations /\ display' \in {"On", "Sleep"} /\ StaysOn'
      /\ ran' \in BOOLEAN
  BY <1>1, Ended, StaysOnKept DEF DriverInv, Gc9TypeOK
<1>3. Oriented'
  <2>1. Good({"orient"})' => Good({"orient"})
    BY <1>1 DEF Good
  <2> QED BY <1>1, <2>1, Ended DEF Oriented
<1>4. /\ Gc9TypeOK' /\ todo' \in Seq(Ops) /\ Waits' /\ Settles' /\ PictureKept'
      /\ In(WriteBuf(area))' /\ Left' = 5 /\ bus' = "suspended"
  BY <1>1, <1>2, WriteBufIs, AllWait, CallBegins
<1>5. Good({"draw"})'
  BY <1>1 DEF Good
<1>6. DrawInv'
  BY <1>2, <1>4, <1>5 DEF DrawInv, AwakeIf
<1> QED BY <1>1, <1>3, <1>4, <1>6 DEF DriverInv, CallInv

LEMMA OrientBegins == ASSUME DriverInv, NEW o \in Orientations, Orient(o) PROVE DriverInv'
<1>1. /\ todo = <<>> /\ display = "On" /\ call' = "orient" /\ fails' = fails \ {"orient"}
      /\ UNCHANGED <<display, err, bus, pm, panel, failed, drawn, ran>> /\ asked' = o
      /\ todo' = SetOrientation(o)
  BY DEF Orient, Calls
<1>2. asked' \in Orientations /\ display' \in {"On", "Sleep"} /\ StaysOn'
      /\ ran' \in BOOLEAN
  BY <1>1, Ended, StaysOnKept DEF DriverInv, Gc9TypeOK
<1>3. /\ Gc9TypeOK' /\ todo' \in Seq(Ops) /\ Waits' /\ Settles' /\ PictureKept'
      /\ In(SetOrientation(o))' /\ Left' = 3 /\ bus' = "suspended"
  BY <1>1, <1>2, SetOrientationIs, AllWait, CallBegins
<1>4. In(SetOrientation(asked))'
  BY <1>1, <1>3 DEF In, Rest
<1>5. Oriented'
  BY <1>1, <1>3 DEF Oriented
<1>6. OrientInv'
  BY <1>2, <1>3, <1>4 DEF OrientInv, AwakeIf
<1> QED BY <1>1, <1>3, <1>5, <1>6 DEF DriverInv, CallInv

LEMMA DriverInit == Gc9Init => DriverInv
<1> SUFFICES ASSUME Gc9Init PROVE DriverInv
  OBVIOUS
<1>1. Gc9TypeOK
  <2>1. panel \in Panels
    BY PanelAssumption DEF Gc9Init, ResetPanel, Panels, Commands, Screen
  <2> QED BY <2>1, PanelAssumption DEF Gc9Init, Gc9TypeOK
<1>2. todo \in Seq(Ops) /\ In(InitDisplay) /\ Left = 20
  <2>1. todo = InitDisplay /\ InitDisplay \in Seq(Ops) /\ Len(InitDisplay) = 20
    BY InitDisplayIs DEF Gc9Init
  <2>2. SubSeq(InitDisplay, 1, 20) = InitDisplay /\ 20 - 20 + 1 = 1
    BY <2>1
  <2> QED BY <2>1, <2>2 DEF In, Rest, Left
<1>3. Waits
  BY AllWait DEF Gc9Init, Waits, WaitsIn
<1>4. panel.frame = Screen /\ panel.madctl = Rotation /\ panel.settling = FALSE
  BY DEF Gc9Init, ResetPanel
<1>5. Told(panel, 20)
  BY <1>4 DEF Told
<1>6. BootInv
  BY <1>2, <1>4, <1>5 DEF Gc9Init, BootInv, AwakeIf
<1>7. Settles /\ Oriented /\ PictureKept
  BY <1>4 DEF Gc9Init, Settles, Oriented, PictureKept
<1> QED BY <1>1, <1>2, <1>3, <1>6, <1>7 DEF Gc9Init, DriverInv, CallInv

LEMMA DriverNext == DriverInv /\ [Gc9Next]_gc9Vars => DriverInv'
<1> SUFFICES ASSUME DriverInv, [Gc9Next]_gc9Vars PROVE DriverInv'
  OBVIOUS
<1>1. CASE UNCHANGED gc9Vars
  <2>1. UNCHANGED <<display, call, todo, err, bus, pm, panel, fails, failed, drawn, asked,
                  ran>>
    BY <1>1 DEF gc9Vars
  <2> QED BY <2>1 DEF DriverInv, Gc9TypeOK, CallInv, BootInv, OnInv, SleepInv, DrawInv, OrientInv,
                      StaysOn, In, Rest, Left, AwakeIf, Good, Told, Waits, Settles, Oriented, PictureKept
<1>2. CASE Step
  BY <1>2, StepInv
<1>3. CASE DisplayOn
  BY <1>3, OnBegins
<1>4. CASE DisplaySleep
  BY <1>4, SleepBegins
<1>5. CASE \E area \in Areas : Draw(area)
  BY <1>5, DrawBegins
<1>6. CASE \E o \in Orientations : Orient(o)
  BY <1>6, OrientBegins
<1> QED BY <1>1, <1>2, <1>3, <1>4, <1>5, <1>6 DEF Gc9Next, Step

LEMMA DriverAlways == Gc9Spec => []DriverInv
  BY DriverInit, DriverNext, PTL DEF Gc9Spec

(* The driver keeps to the panel's rules, whatever fails (gc9a01.cpp:      *)
(* 104-165, 410-432, 449).                                                 *)
THEOREM DriverInvariant == Gc9Spec => []Gc9Inv
<1>1. DriverInv => Gc9Inv
  <2> SUFFICES ASSUME DriverInv PROVE Gc9Inv
    OBVIOUS
  <2>1. Gc9TypeOK /\ Settles
    BY DEF DriverInv
  <2>2. CASE todo # <<>>
    BY <2>1, <2>2 DEF Gc9Inv, Settles
  <2>3. CASE todo = <<>>
    <3>1. /\ bus = "suspended" /\ panel.settling = FALSE
          /\ call = "boot" /\ Good({"boot"}) => Told(panel, 0)
          /\ Good({"orient"}) => panel.madctl = asked
      BY <2>3, Ended
    <3>2. /\ "boot" \notin fails => Good({"boot"})
          /\ {"boot", "orient"} \cap fails = {} => Good({"orient"})
      BY DEF Good
    <3>3. Told(panel, 0) => panel.regs = Registers
      BY <2>1 DEF Told, Gc9TypeOK, Panels, Registers
    <3> QED BY <2>1, <2>3, <3>1, <3>2, <3>3 DEF Gc9Inv, Told
  <2> QED BY <2>2, <2>3
<1> QED BY <1>1, DriverAlways, PTL

(* An on() or sleep() that the kernel runs and no transfer of which fails  *)
(* leaves the panel as the display says, and one is passed over only after *)
(* a call that failed (gc9a01.cpp:344-352, 438-476, display.cpp:114-139).  *)
THEOREM PowerIsRight == Gc9Spec => []PowerRight
<1>1. DriverInv => PowerRight
  <2> SUFFICES ASSUME DriverInv, todo = <<>>, call # "boot"
               PROVE  /\ ran /\ Good(This) =>
                           IF display = "On" THEN panel.slp = "out" /\ panel.disp = "on"
                           ELSE panel.slp = "in" /\ panel.disp = "off"
                      /\ ran \/ ~Good(LastOther)
    BY DEF PowerRight, Good
  <2>1. display \in {"On", "Sleep"}
    BY DEF DriverInv, Gc9TypeOK
  <2>2. /\ display = "On" => StaysOn
        /\ display = "Sleep" => call \in {"boot", "sleep"}
        /\ call = "sleep" /\ ran /\ Good({"sleep"}) => panel.slp = "in" /\ panel.disp = "off"
        /\ call = "sleep" => ran \/ ~Good({"on"})
    BY Ended
  <2> QED BY <2>1, <2>2 DEF StaysOn, This, LastOther
<1> QED BY <1>1, DriverAlways, PTL

(* Every block drawn since a transfer failed last shows what was drawn     *)
(* there (gc9a01.cpp:210-224, 260-288, 354-370).                           *)
THEOREM PicturesKept == Gc9Spec => []PictureKept
<1>1. DriverInv => PictureKept
  BY DEF DriverInv
<1> QED BY <1>1, DriverAlways, PTL
=============================================================================
