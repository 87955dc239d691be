# A TLA+ model of the nrf-test watch

The program is the firmware of a Bluetooth watch on an nRF5340: Zephyr, LVGL, a round GC9A01 panel, a CST816S touch
controller and four buttons. This directory holds TLA+ modules of its own logic, TLC configurations that check them on
small instances, and proofs that TLAPS checks for every value of the constants. Paths are relative to the repository's
root, and line numbers refer to it.

## 1. Inventory

Two threads run the program's code, and interrupts.

* **The system work queue** runs start-up (`main.cpp`), every Bluetooth callback (`CONFIG_BT_RECV_WORKQ_SYS`), the
  LVGL render work, the brightness work, the touch work, the LED work and the works of buttons 3 and 4. It is
  cooperative and runs one work at a time, each to its end. A work that blocks holds back all the others.
* **The input thread** runs the input callbacks: the buttons (`devkit.cpp`) and LVGL's pointer. The work queue may
  preempt it between any two statements.
* **Interrupts**: the counter's alarms that shape the backlight's pulses, the touch controller's line.

No lock is taken anywhere. LVGL's flush thread, a third one, touches the panel driver only.

| component | state | operations | interacts with | hard because | what makes it correct |
|---|---|---|---|---|---|
| Pairing window: `ble/auth.cpp`, button 1 | `pairing_confirm`, `passkey_display`, the registration | `init`, `set_pairable`, `pairable`, the pairing callbacks | written by both threads; asked by the stack | two stores, no lock; a toggle that reads, then writes | pairable implies a passkey can be shown; one press is one change; a completed pairing closes the window |
| Connection: `ble/bt.cpp`, `managers/bluetooth.cpp`, `main.cpp` | `_bt_current_conn` and its reference, `_connected`, `mtu_max_send_len`, the filter; bonds in flash; icon and LED | start-up, `connected`, `disconnected`, `security_changed`, the MTU callback | stack, pairing window, discovery, UI | one connection object; every path must give back its reference; callbacks before the UI exists; restarts | the watch stays reachable; no untracked link; icon and LED right; erased bonds stay erased |
| Buttons and LEDs: `managers/devkit.cpp` | works, LED | toggle, brightness, unregister, reset, blink | all of the above | works that sleep and then reboot | what is pressed is acted on, and erased bonds stay erased |
| Discovery and GATT clients: `gatt_dm.cpp`, `gap.cpp`, `gap_client.cpp`, `cts.cpp`, `ancs.cpp`, `ams.cpp` | `found[]`, the clients' handles, connection, pending bit | the walk over the services, reads | started by `security_changed`; callbacks of the stack | state outlives the connection; a second discovery wipes a client in use | pending only while an answer is due; every service offered is found |
| Gadgetbridge: `services/gadgetbridge.cpp` | `state`, `recv_buf`, `recv_pos` | `consume` | called by `nus.cpp`; calls the parsers | packets cut anywhere; links lost in mid-message; state kept across links; a full buffer | a handler is given whole messages only, and every one that fits |
| Parsers: `gb_parse.cpp`, `st_parse.cpp` | the message in place; clock and time zone | decode, parse, log, set time | Gadgetbridge, stopwatch | one buffer decoded in place and parsed twice, into structures nobody initialised; half a message applied | decoding ends and stays in the buffer; what the buffer reads as is logged whole or refused; clock and zone belong together |
| Backlight: `managers/display.cpp`, button 2, slider | `_brightness`, the delayed work, three alarms | `set_brightness`, `do_set_brightness`, alarms | both threads, interrupts | store, cancel, schedule without a lock; alarms refused while they wait | the last level asked for is shown |
| Panel and power: `gc9a01.cpp`, `Display::on`, `sleep` | panel and bus power state | init, commands, flush, orientation, `pm_action` | work queue, flush thread | two threads suspend one bus; transfers fail half way and results are overwritten | no stripe to a sleeping panel or bus; a failure is healed by the next call that runs and spoils no later picture |
| Touch: `cst816s.cpp` | the work's flags, the input queue, the controller's registers and power state | interrupt, work, reports, reset, set-up, `pm_action` | input thread, LVGL, `Display` | coalesced interrupts; a full queue; failing reads; a set-up that stops half way | LVGL knows the last state, and real points only; an active controller has been set up |
| Stopwatch and watchface: `ui_events.cpp`, `Display::render` | started, start and lap times, the labels | start, stop, lap, render | system clock | `setTime` moves the clock in between | laps add up; the stopwatch is off only by what messages moved the clock; the face shows the phone's time |
| Screens: `ui.c`, `ui_helpers.c`, `ui_watchface.c`, `ui_settings.c`, `ui_stopwatch.c` | none of their own: LVGL's pressed object, active and pending screen | gesture, slider and click callbacks | LVGL's queue and animation | one touch is many samples, read late, in part lost, while a screen moves out | a touch does one thing; the screen shown is the one swiped to |
| Glue: `nus.cpp`, `bas.cpp`, `utils.cpp`, `hfclk.cpp` | none that is read | calls passed on | | | |

`main_old.cpp` is not compiled. The fonts and most of `ui_helpers.c` are generated and called by nobody.
`PROJECT.json` lists the hazards of this code, each at its line with the properties that would catch it.

## 2. Modules

**PairingWindow** is what `auth.cpp` and button 1 promise together, with no callbacks in it: a press decides once,
from what it sees, and takes effect once; a restart begins anew. **Auth** is the code: the two callback pointers, the registration, the input
thread's `set_pairable(!pairable())` as four steps (read, first store, second store, registration) and the work
queue's calls as single ones. Its property `WindowPromise` is `PairingWindow!Spec` under the mapping at its end: the
effect of a press is the store to `pairing_confirm`, so `decision` lasts from the read to that store.

**Connection** extends Auth with everything else a connection touches. `phase` says what the work queue is in the
middle of: while start-up, unregister or reset blocks, no other work runs but buttons do. `conn` is the stack's only
connection object, `refs` the application's references on it, `bonds` what is in flash and `keys` what the stack has
of it in RAM. `settings_load` fills the keys, in part if it fails, and `bt_unpair` erases the bonds whose keys it finds
there: after a failed `bt_enable` none. A pairing makes a bond only if both sides asked for one. A restart (`Reboot`, `PowerLoss`)
resets everything but `bonds`. Each callback of `bt.cpp` is one action with the manager's callback (the
icon) inside it. Advertising comes back when a connection ends and nobody holds a reference: that is how the stack
treats its only object, and what makes a leaked reference fatal.

**WatchLink** is what that code promises, without references, callbacks, works or flash: a watch that starts, serves
and ends, and its one link, which is quiet, advertising, open or being closed. An end gives way to advertising in the
same step; only a bonded peer, or any while the window is open, is let in; a bond takes a secured connection and
closes the window; behind the filter nobody is bonded anew; bonds are erased only by a watch that has stopped.
Connection's property `LinkPromise` is `WatchLink!Spec` under the mapping that stands before it: the stage from
`phase`, the link from the stack's connection and the advertising flag, the window from the two callbacks.

**Discovery** models the clients. A connection is only its security level; there is one connection object, so a
pointer kept from an earlier connection points at the present one. `dm` is the walk over the services, `todo` the ones
it has still to report; each step is a whole callback, which enters the service in `found`, lets its client assign
the handles and continues, or loses the walk (`dm = "failed"`). `Assigned` follows `gap_client_handles_assign` through
its early returns, as the peer offers the characteristic and its descriptor or not: the connection must come last. A read whose client was wiped by a second discovery faults when it is answered (`ReadFaults`):
`read_params.func` is null by then, and the watch restarts. The two read functions have no caller in this build; the
module says what holds when something calls them, as `main_old.cpp` did.

**Gadgetbridge** is `consume`, packet by packet, for packets of any bytes. A byte is a model value and a command name
a short sequence of them, so a packet boundary may fall inside it; `line` is a history variable.
**GadgetbridgeStream** puts phones in front of it that send whole messages, cut anywhere, over links that may break
between packets.

**Brightness** has the input thread's `set_brightness` as three steps (store, cancel, schedule), the work queue's as
one, and time in ticks of the counter. An alarm that still waits is not set again, as the code ignores what
`counter_set_channel_alarm` returns. The dimmer's level is computed from the length of the train that was really
produced, not from the request.

**WatchTime** is the `setTime` message, the stopwatch's three operations and the render work, all of them works or
callbacks on one queue; the clicks come inside the render work's `lv_task_handler`. `high_resolution_clock` is the
clock that messages set, so CLOCK_REALTIME is an uptime plus a `base` that `SetClock` moves. What a message's text is
like is its kind: "garbled" has no number after `setTime(`. "zoneless" has none after `setTimeZone(`, or no `setTimeZone(`
at all: `find` gives `npos`, 12 is added, and what stands behind index 11 is no number. "cut" has no `setTimeZone(` and
fewer than 11 characters: `substr` throws, and as the build has no exceptions the program aborts, after the clock was
set; `Restart` begins again. "late" has seconds that a 32-bit `long` cannot hold, "far" hours that an `int` cannot:
the number stays unread, and is any of `Garbage`. Zones are in half hours, as `from_chars` reads
only the whole ones. `Quot` and `Rem` are C's, towards zero: durations are negative when the clock was set back.

**Panel** is `on()`, `sleep()`, the driver's power actions and LVGL's flush thread, which writes one stripe while the
work queue waits for it. Both sides wake the bus before they write and suspend it afterwards without asking about the
other. `wait` is `sleep()`'s wait of two refresh periods, counted in steps of the flush thread; one stripe needs three
of them (about 3 ms of 66 ms), so the model takes the shortest wait that PanelAssumption admits. `sleep()` has no
caller in this build; Panel calls it from the work queue between two works, which is where it can be called from:
inside a callback of LVGL it would wait for the render work it runs in. Transfers succeed here; Gc9a01 lets them fail.

**Gc9a01** is the panel's driver transfer by transfer, with the panel that hears them. A call of the driver is the list
of what it has still to do (`todo`): transfers, waits, the bus woken and released, and the power state that the kernel
takes over if the last write succeeded. The kernel passes a call over when it takes the panel to be in that state
already; `ran` says whether the last one ran. A transfer that fails may have been heard, its command alone or in part:
`HeardOf`. The failures on a bus that is awake are counted (`MaxFails`); those on a sleeping bus, where
`display_blanking_on` and `_off` write, are not, as they are nobody's fault. `fails` names the calls whose last run
had a failure, so that a property can ask what a call that runs makes of whatever came before it. Panel shows that no
two callers are in the driver together, so they come here one after the other. An area of the screen is a set of
columns and a set of rows; the vendor's registers are one, which is heard only when both pages are open.

**Atob** is the loop of `dump_gb` with `base64_decode_in_place`. A message is a sequence of pieces, plain text or an
encoded call; `Line` spells it into the buffer and the code's positions (`idx`, `end`, source and destination) work
on the cells. A letter of base64 knows which text and which place it belongs to, so a letter that was overwritten
before it was read makes `Sensible` fail. Calls are whole, as the phone sends them; what a decoder does with spoilt
text is not in the model.

**GbMessage** extends Atob with the rest of `dump_gb`: the parse for the type, the switch, the second parse of the same
buffer and what the dump function of that type logs. `said` is what the phone says: a type, a set of fields with the
kind of each, and whether it is JSON at all; `read` is what the text in the buffer reads as. The two are one unless a
decoded text has a quotation mark in it, which ends its string early (the escaping of `gb_parse.cpp:160` is commented out).
What follows may then read as further fields, `json_obj_parse` returns success at the first closing brace and looks at
nothing behind it, or it is no JSON any more: such a message reads as any object (`Readings`). A member the parser did not
fill is "garbage". The descriptors, the order of their bits and the lines of every dump function are tables, as in
the source. A message without a `t` makes the switch look up an uninitialised view; the outcomes are any type, or a
read astray.

**Touch** is the driver: `queued` and `handler` are the flags of the kernel's work, `chip` what the controller would
answer now, and a sample travels to LVGL as separate messages through a bounded queue. `setup` is what `chip_init` has
still to do for the boot or for a resume, `config` how far the controller has got, and every transfer of it may fail.
`NoReset` is `chip_init` when the reset line could not be configured: `chip_reset` returns early and nobody looks.
A suspend whose reset line cannot be drawn goes on all the same.
A controller that is not ready may or may not announce what happens (`missed`); one whose boot failed stays active for
the kernel (`deaf`). Suspend and resume are `on()` and `sleep()` of the display, from the work queue between works.

**Screens** is one finger over the three screens. Its samples go through a queue that loses what it has no room for;
LVGL reads them in its task, and not while a screen moves out; it presses an object and keeps it (`PRESS_LOCK`), takes
one gesture per press and sends it to the screen unless the widget keeps gestures to itself; the callbacks change the
screen and call `lv_indev_wait_release`. `_ui_screen_change` loads a screen that still waits for its animation at
once. The slider, the colour wheel and the stopwatch's buttons lie at one height, so the display is two heights by two
sides. `expected` is where the swipes lead that began while LVGL was at rest.

*Parts that are not in `src/`* - the Bluetooth host, the kernel's works and timers, LVGL's pointer, the phone - are
modelled as `src/` uses them and marked external in `PROJECT.json`. The assumptions made about them: callbacks of one
connection come in order and none after its disconnection; `bt_conn_disconnect` is followed by `disconnected`; an MTU
never shrinks within a connection; a second registration of the pairing callbacks is refused; a pairing with a
keyboard shows a passkey if there is a callback and anything else asks `pairing_confirm`. LVGL is 8.3.6, as `ui.c:3`
says. The panel keeps what it was told over a sleep.

## 3. Runs

| run | instance | what it shows |
|---|---|---|
| `connection` | 3 phones, room for 2 bonds, MTUs 23 and 65, about 370,000 states | `ConnInv` (with every invariant of the connection and of the pairing callbacks), and that Connection implements both WatchLink and PairingWindow |
| `connection_live` | 2 phones, 1 bond | a closed connection gives way to advertising (`ReachableAgain`), button 3 erases the bonds of a watch whose `bt::init` succeeded (`UnregisterErases`) |
| `discovery` | one service without a client, 2 reads at once | consistency of the clients (`DiscInv`), that every service the walk comes to is found (`OfferedIsFound`), and that reads end |
| `discovery_reads` | the same | expected violation: see Findings |
| `gadgetbridge_stream` | 5 bodies, packets of 1 to 4 bytes, a buffer of 4 | the buffer never overflows (`GbInv`), handlers get whole lines (`ParsedIsLine`), messages are never mixed, and those that fit arrive |
| `brightness` | 4 levels, a slider past the top, trains of 4 to 10 ticks, a delay of 11 | no request lost, no train cut short, the last level shown |
| `watch_time` | 8 messages of all six kinds, uptime in 3 moments, about 3,000,000 states | laps add up and labels are well formed (`TimeInv`), the stopwatch is off only by moves of the clock, the face shows the phone's time |
| `panel` | 3 levels, a screen of 2 stripes, a wait of 3 steps, 357 states | no stripe to a sleeping panel (`PanelInv`), the bus awake under its user, the level back after sleep, the screen drawn anew |
| `gc9a01` | 2 stripes, 2 orientations, 3 failing transfers, about 1,300,000 states | the driver keeps to the panel's rules (`Gc9Inv`), an `on()` or `sleep()` that runs heals what went wrong before, and is passed over only after a failure (`PowerRight`), no failure spoils a later picture (`PictureKept`) |
| `gb_parse` | messages of up to 3 of 5 pieces, or 2 with a quotation mark, that say and read as anything of 7 types, about 900,000 states | decoding never overtakes itself (`AtobInv`), replaces every call and nothing else (`AllReplaced`), and ends; no member is logged that the message did not fill (`MessageInv`); what the buffer reads as is logged whole or refused (`AllLogged`) |
| `touch` | 2 points, a queue of 2 messages, 150,754 states | real points only, the last state known, an active controller set up, a release seen |
| `screens` | a queue of 2 samples, 4 places, about 1,600,000 states | a touch does one thing (`OneThing`), and the screen is the one swiped to (`AsSwiped`) |

*Why the bounds are enough.* With three phones and two bonds a full store, a bonded phone, a phone that replaces a
bond and a phone that is kept out by the filter can all be there at once; phones are interchangeable, hence the
symmetry (not used in the liveness run). Two MTUs make `mtu_max_send_len` of an earlier connection too large for a
later one. Two reads in flight are what a second discovery makes possible. The messages of `gadgetbridge_stream` are
shorter than, equal to and longer than the buffer, and the command names are cut as well; packets of
any bytes at all are left to `LineInvariant` and `HandlersGetLines`. A queue of two is shorter
than the three messages of a contact, so reports block in the middle of one. The delay of 11 ticks is the
shortest that outlasts the longest train, so the constants are the worst that TimeAssumption admits; on the watch the
delay is 20 ms and the longest train 750 + 33 * 15 us = 1.245 ms. The messages of `watch_time` set the clock forward
and back, in zones to the east and the west, with and without a half hour on either side; the step of 61.501 s fills
minutes, seconds and milliseconds alike. A
second stripe is handed over while the first is written, and of `sleep()`'s wait only its length counts. Texts of no
group, part of one, one whole and more than one meet in `gb_parse` in every order, the longest of them longer than the
six letters by which reading is ahead of writing. Three
failing transfers are one that leaves the kernel and the panel at odds, one in the call that should heal it, and one
more; two stripes overlap with the whole screen, so a frame left over from an earlier call is a wrong one. A message
is parsed into a structure of its own, of which only garbage is left to the next, so `gb_parse` takes one at a time, and what it says is
chosen when it is first read.
A swipe is a press, a move and a lift, one sample more than the queue of `screens` holds.

*What some properties leave out.* `AsSwiped` is about touches that began while LVGL was at rest and lost no sample
(`astray` marks the others): a touch that begins while a screen moves is read on the screen that leaves, and a second swipe in
one batch of samples loads the pending screen at once. `CaughtUp` and `ReleaseSeen` are about controllers that were
ready to announce and reads that succeeded (`missed`). `PowerRight` says nothing of a call that failed, nor of one
that the kernel passed over after a failed one, which leaves the panel as the failure left it; `PictureKept` nothing of
the pictures that a stale frame overwrote before the last failure was over. `AllLogged` says of a message with
a quotation mark in a decoded text only that what the buffer reads as is logged, which need not be what the phone said.
`UnregisterErases` and `ErasedStaysErased` are about a watch whose `bt::init` succeeded. `OfferedIsFound` excuses a walk that the
connection or an error of the stack ended. `FaceRight` needs a message that was applied in full. `ActiveIsReady`
excuses the boot (`deaf`), `LevelComesBack` a level asked for during the sleep, `FittingMessagesArrive` a message whose command name
is cut by its first packet.

*Fairness.* The work queue takes up what is scheduled and finishes what it has begun; the input thread is preempted
but not stopped; the kernel's clock goes on; the stack ends the connection it is closing, reports the services of a
connection that stays and answers reads. Nobody is assumed to press a button, to come near the watch, or to touch
it, and nobody to call `sleep()`. The touch work has strong fairness: the work queue takes its works in the order in
which they came, so no run of suspends and resumes, which are works too, keeps a submitted one waiting for ever. `DrawnAnew` needs more than it seems: the render work schedules itself without a delay on a
cooperative queue, and other threads get to run because LVGL waits for the flush thread in every frame; hence the
fairness of the flush thread's steps. `ShownAtLast` has the premise that requests cease, because each one restarts the delay. Deadlock is checked in
every run but `gb_parse`, which ends when the message is handled.

*Mutants.* Beside many definitions stands a variant, named for what went wrong (`KeepRef`, `PmActionNoWait`,
`SubmitIfIdle`). No specification uses it: `PROJECT.json` pairs it with a property that must fail when the variant
takes the definition's place.

## 4. Findings

`discovery_reads`: `gap.cpp:37-38` says that a secured connection is implicit in `found[GAP_Client]`; `found[]` and
`client.conn` survive a disconnect, so a read goes out on a later connection that is not secured yet. `cts.cpp:72-73`
says the same of `read_current_time`. Neither function has a caller in the present build.

Some things the models reach and no text of the repository denies: button 1 while `bt_enable` is still at it makes
`bt::init` fail with -EALREADY, and the watch does not advertise until it restarts (`Reachable` is stated for a
`bt::init` that succeeded, and WatchLink's `Serve` needs no advertising); a read in flight while a second discovery wipes its client restarts the watch; a failed
I2C read at the moment of a release leaves the pointer pressed until the next touch. Two more belong to the clock: a
message sent while the stopwatch runs moves what it shows, and in a zone with a half hour the face is off by
that half hour (`StopwatchRight` and `FaceRight` say by how much). A slide that no screen answers, or one up or down,
that began on a stopwatch button still clicks it when the finger is lifted, as LVGL keeps the pressed object. A
message without a type makes `dump_gb` look up an uninitialised view (`Astray`). A boot whose `chip_init` failed
leaves a touch controller that the kernel takes for active until the next suspend (`deaf`).

Four more come from failures nobody looks at. After a failed `bt_enable` button 3 erases nothing: `bt_unpair` walks the
keys that `settings_load` would have put into RAM; after a `settings_load` that failed it may leave some. When SLPIN fails in `sleep()` the kernel keeps the panel for active,
the next `on()` gets -EALREADY and sends only DISPON, and a panel that did hear SLPIN stays dark until the call
after next; a failed resume leaves one lit in the same way (`gc9a01.cpp:449`, and the result is overwritten at that). A
decoded text with a quotation mark may be logged cut short, with fields it brought along or under another type, and
without an error (`gb_parse.cpp:160`). A `setTime` message without `setTimeZone(` and shorter than 11 characters
aborts the program (`st_parse.cpp:34`).

## 5. Proofs

| module | theorems | for every |
|---|---|---|
| ConnectionProofs | `AuthInvariant`, `AcceptHasDisplayHolds`, `AuthRefinesWindow` (of Auth, which has no constants), `ConnInvariant`, `RefsBalanced`, `AlwaysReachable`, `NoUntrackedLink`, `IconRight`, `OnlySecuredDiscovery`, `SendsFit`, `FilterIsFresh`, `FilterKeepsBonds`, `OneBondPerWindow`, `ConnectionRefinesLink`, `ConnectionRefinesWindow` | finite set of phones, bond limit, set of MTUs from 23 on |
| DiscoveryProofs | `DiscInvariant`, `SubscribesSecured` | service without a client, number of reads in flight |
| TouchProofs | `TouchInvariant`, `NoFalseActive`, `PointsAreReal`, `AlwaysCaughtUp` | set of points, length of the queue |
| GadgetbridgeProofs | `LineInvariant`, `HandlersGetLines`, `StreamInvariant`, `NeverMixed`, `FittingArrive` (of Gadgetbridge and its stream) | set of packets, commands, message bodies, buffer length |
| MessageProofs | `LoopInvariant`, `CallWhole`, `TextReplaced` (of Atob), `MessageLogged`, `NoGarbageLogged`, `LoggedWhole` (of GbMessage) | set of messages, with any number of pieces and texts of any length, and of what they say |
| UiProofs | `SplitExact`, `TimeInvariant`, `LapsAreWhole`, `StopwatchIsRight`, `FaceIsRight` (of WatchTime), `ScreensInvariant`, `OneThingOnly`, `ShowsSwiped` (of Screens) | set of messages, steps of the clock, values of an unread number; length of the queue of samples |
| PanelProofs | `PanelInvariant`, `BusStaysAwake`, `NeverDrawnAsleep`, `OnAsAWhole`, `LevelRestored` | set of levels, number of stripes, wait of at least three steps |
| DisplayProofs | `BrightInvariant`, `BacklightSettles`, `NoTrainCutShort` (of Brightness), `DriverInvariant`, `PowerIsRight`, `PicturesKept` (of Gc9a01) | number of levels, times with a delay longer than the longest train; sets of columns, rows and orientations, number of failing transfers |

*Auth.* `AcceptHasDisplay` is not inductive: it says nothing of a press that is between two stores. `AuthInv` adds who
may be there: a press about to open the window still sees it closed (nobody else opens it), one that closes it
has denied already, and pairings begin after start-up. The refinement uses the same facts step by step, and
`ConnectionRefinesWindow` carries it over to the whole watch, whose lost connections end a pairing as a failure does.

*Connection.* `ConnInv` joins AuthInv with the shape of the stack's connection (`LinkShape`), the balance of
references, what start-up has and has not done in each phase (`StartsQuiet`), when the keys in RAM are those in flash
(`KeysKnown`, without which `bt_unpair` would leave bonds behind), and the filter (`FilterHolds`: behind it
connections are with bonded phones, which is why a pairing never changes the bonds there and the list never gets
stale). `BondsFit` needs facts about cardinalities from FiniteSetTheorems. `ConnectionRefinesLink` goes action by action:
most steps leave the mapped state alone or are one step of WatchLink (`SecuredStep`), and the rest are
grouped as start-up, link, pairing and works. WatchLink's `Bond` asks for a secured peer and an unchanged store behind
the filter, which is where `LinkShape` and `FilterHolds` are needed.

*Discovery.* `DiscInv` is inductive as it stands: a pending bit has a read in flight whose callback is still there, a
connection has a handle, and a discovery under way has a secured connection under it. The last of these is what
`SubscribesSecured` needs, since only a discovery subscribes.

*Touch.* What LVGL will be told is the input queue followed by the reports of the sample at hand. The strengthening says of
that stream that every "pressed" in it has the x and y of one real point before it (`PointsAreReal`), and that read to
its end it leaves the pointer where the controller's state puts it, unless something is queued, being read or missed
(`AlwaysCaughtUp`). Lemmas say what reading, reporting and delivering do to the stream, for a queue of any length.
`SetupOK` says how far the controller is at each step of `chip_init`, which gives `NoFalseActive`.

*Gadgetbridge.* An open line's buffer is what was received since its DLE; with the check of the length this
gives `ParsedIsLine` for the packet that ends the line. `LineInvariant` is about packets of any bytes. Behind phones that
send whole messages (`StreamSpec`) neither `OnlyWholeMessages` nor `FittingMessagesArrive` is inductive: both speak of
the moment a message ends. `StreamInv` adds what holds in the middle of one. If a line is open there, it is this
message's own, and the buffer is exactly the part of it that was sent (`OpenIsOwn`): a DLE stands only at the beginning of a
message, and it empties the buffer, so the rest of a message that a lost link cut off is never continued. And a message
that fits, whose first packet held the whole command name, does have its line open (`FittingIsOpen`).

*Decoding.* `AtobInv` and `AllReplaced` speak of a buffer that FlattenSeq joins from the pieces of a message, so what
stands where is a matter of induction over the message. The library's induction theorems take a predicate as a
parameter, which the provers cannot instantiate; `LeastNat`, from WFMin, says instead that a set of numbers that is not empty has
a least element, and a least counterexample does the work of an induction (`FlattenIs`, `Induct`). `FlattenJoins` gives each piece its
place; a piece is as long decoded as sent (`PieceSize`), so the places never change (`PlaceIs`). `LoopInv` says of the
buffer that a first part of the pieces is done and the others are as they were sent (`Split`), and of the piece being decoded
that after g groups the first 3g characters are written and the letters after the (3g - 5)-th are untouched (`Decoding`): character j
goes where letter j - 5 stood, and 4g letters have been read by then. `CallsAre` shows that `find` sees the calls of the pieces that are not done and no others, and
`BracketIs` that the bracket it finds is the call's own.

*Logging.* Each of the six descriptor tables has as many entries as its dump function has lines, and the i-th entry fills the
member that the i-th line prints from the field its label stands for (`Matched`); no two lines print the same
member (`Distinct`). From these `LinesWhole` follows for any set of fields: what the bits select is each field, under its own label. The
inductive invariant `MsgInv` says what the first parse has established when the switch is reached: the text is JSON, the
type was a string, no string was ended in the buffer, and the base holds the type or garbage (`TypeKnown`). All of it is about
what the buffer reads as; `AsSaid` adds that without a quotation mark this is what the phone said.

*Backlight.* `BrightInv` says of a running train that it is one of a level there is, that it is the level asked for
if nobody is at it, and that `due + elapsed >= Delay` while the next is scheduled. The last conjunct, with TimeAssumption, is
why a train is never met by the next one. `TrainShows` is the arithmetic that a train of `32 - level + 1` pulses shows
`level`.

*WatchTime.* `LapsAddUp` and the place of the start (`began + base - moved`) are inductive together: a message changes
`base` and `moved` by the same amount (`ClockMoves`). `SplitExact` says that a label of minutes, seconds and milliseconds reads as the
duration it was made from, a negative one too, so the two properties of labels follow from the sums.
`ZoneTextIs` shows that the remainder by 100 takes nothing from a zone there is.

*Panel.* `PanelInv` says of the flush thread's stripe that it needs no more steps than the wait has left
(`Left <= wait`), and so `sleep()` never goes on while one is under way; the rest ties the power states to what the
work queue is in the middle of. `BusAwake` and `LevelComesBack` are proved on top of it.

*Panel driver.* A driver's call is a list of what it has still to do, so how far it got is how much of the list is left (`In`, `Left`).
For each kind of call a conjunct says what that much of the list means: `BootInv` (by `Told`, what the panel has been told when n steps
are left, if no transfer failed), `OnInv`, `SleepInv`, `DrawInv`, `OrientInv`. Each is conditional on the calls whose last
run had no failure (`Good`), since a failure on an awake bus puts the call into `fails`; what a sleeping bus
swallows needs no mark, as the invariant shows that the panel is told the same once more when the bus is awake. `StaysOn` holds
between `on()` and `sleep()`. `DrawInv` says that the frame is the area, or comes to be, column by row, or else nothing counts as
drawn. `Oriented` is the same for MADCTL. `AllWait` shows that no call can put a transfer behind SLPOUT without the wait.

*Screens.* `OneThing` counts what one touch did. `Undecided` says when it has done nothing yet: while a widget other than the slider is
pressed and LVGL does not wait for the release. `AsSwiped` speaks of LVGL at rest; `Followed` says of a touch that lost no sample
which of four stages it is in (not yet pressed, pressed and its move not yet read, answered, over), and where
the samples in the queue will lead from there, which is what ties `expected`, which the finger decides, to the screen that LVGL loads much later.

*Only model-checked:* all liveness (fairness and ENABLED are beyond the prover): the properties of the runs that say
that something comes about, from `ReachableAgain` to `LoopEnds`. Every invariant of a passing run is stated by a theorem. Some properties have a theorem or a conjunct and no entry in a configuration of their
own: `AuthInv` (in ConnInv), `AcceptHasDisplay` (in AuthInv), `RefBalanced`, `Reachable`, `OpenLinkTracked`, `IconMatches`,
`DiscoverySecured`, `SendLenFits`, `ErasedStaysErased` (in ConnInv), `PendingIsBacked`, `ConnHasHandle` (in DiscInv),
`LapsAddUp` (in TimeInv), `DrawnAwake` and `OnIsOn` (in PanelInv) are checked as parts of those or follow from them, as
do `NoUiFault`, `FilterFresh` and `Settled`; `FilteredKeepsBonds` and `WindowClosesWithBond` are parts of WatchLink's
promise; `SubscribeSecured` is proved in DiscoveryProofs.

## 6. Not modelled, and the plan

Built, in this order: Auth with PairingWindow, Connection, Discovery, Gadgetbridge with its stream, Brightness, Touch,
WatchTime, Panel, Atob, Gc9a01, GbMessage, Screens, WatchLink with its refinement, and the proofs named above. What could
come next:

1. The construction of the `Display` object without a guard (`display.cpp:28`, `-fno-threadsafe-statics`), as steps that
   the work queue may preempt, and a composition of Panel with Brightness over `_last_brightness`.
2. **Atob**, further: calls without a bracket and text that is not base64, as the code meets them (`gb_parse.cpp:154`).

Left out for good: the look of the widgets, logging and printing (`utils.cpp`, `bas.cpp`), the JSON parser of Zephyr,
`hfclk.cpp` (one register, written at boot), the timer that stands in for the touch controller's interrupt line (not
configured), `send` of `nus.cpp` (bytes passed to the stack), the fonts, the build files and `main_old.cpp`, which is
not compiled.
