----------------------------- MODULE Connection -----------------------------
(***************************************************************************)
(* The life of a connection: ble/bt.cpp with the start-up of the watch     *)
(* (main.cpp, managers/bluetooth.cpp), the pairing callbacks of Auth, the  *)
(* bonds in flash, the filter list built from them, the icon and the LED   *)
(* that show the connection, and the buttons that forget every bond or     *)
(* restart (managers/devkit.cpp).                                          *)
(*                                                                         *)
(* The system work queue runs start-up, every Bluetooth callback           *)
(* (CONFIG_BT_RECV_WORKQ_SYS), the LED and the button works, one at a time *)
(* and each to its end: a work that sleeps holds back all the others.      *)
(* "phase" is where the work queue is when it is not between two works.    *)
(***************************************************************************)
EXTENDS Auth, Naturals, FiniteSets

CONSTANTS
  Peers,       \* the phones around
  NoPeer,
  MaxPaired,   \* CONFIG_BT_MAX_PAIRED
  Mtus         \* the ATT MTUs an exchange may settle on

MinMtu == 23

ASSUME PeersAssumption == NoPeer \notin Peers /\ IsFiniteSet(Peers)
ASSUME PairedAssumption == MaxPaired \in Nat \ {0}
ASSUME MtuAssumption == Mtus \subseteq Nat /\ \A m \in Mtus : m >= MinMtu

VARIABLES
  phase,           \* what the work queue is in the middle of
  bonds,           \* the peers whose keys are in flash
  keys,            \* the stack's key pool: the bonds it has in RAM
  acceptList,      \* the controller's filter accept list
  filtered,        \* advertising answers the accept list only
  advertising,
  bt_err,          \* bt::init returned an error
  conn,            \* the stack's connection object
  refs,            \* the references the application holds on it
  current,         \* _bt_current_conn
  connected,       \* _connected
  send_len,        \* mtu_max_send_len
  dm,              \* the discovery manager: "idle" or "running"
  icon,            \* ui_bluetooth: "none" before ui_init, "hidden", "shown"
  led,             \* BT_STATUS_LED
  blink,           \* the LED work is scheduled
  unregister_work, \* button 3's work is scheduled
  reset_work       \* button 4's work is scheduled

bondVars == <<bonds, keys>>
advVars == <<acceptList, filtered, advertising, bt_err>>
appVars == <<refs, current, connected, send_len>>
uiVars == <<icon, led, blink>>
workVars == <<unregister_work, reset_work>>
connVars == <<phase, bondVars, advVars, conn, appVars, dm, uiVars, workVars>>
vars == <<authVars, connVars>>

Phases == {"off", "enable", "start", "callbacks", "display", "running",
           "unpair", "erased", "reset"}

NoConn == [link |-> "down", peer |-> NoPeer, level |-> 1, mtu |-> MinMtu,
           exchange |-> "none"]
NewConn(p, request) == [link |-> "up", peer |-> p, level |-> 1,
                        mtu |-> MinMtu, exchange |-> request]

TypeOK ==
  /\ AuthTypeOK
  /\ phase \in Phases
  /\ bonds \subseteq Peers
  /\ keys \subseteq Peers
  /\ acceptList \subseteq Peers
  /\ filtered \in BOOLEAN
  /\ advertising \in BOOLEAN
  /\ bt_err \in BOOLEAN
  /\ conn \in [link : {"down", "up", "closing"}, peer : Peers \cup {NoPeer},
               level : {1, 2}, mtu : Nat,
               exchange : {"none", "pending"}]
  /\ refs \in Nat
  /\ current \in Peers \cup {NoPeer}
  /\ connected \in BOOLEAN
  /\ send_len \in Nat
  /\ dm \in {"idle", "running"}
  /\ icon \in {"none", "hidden", "shown", "fault"}
  /\ led \in BOOLEAN
  /\ blink \in BOOLEAN
  /\ unregister_work \in BOOLEAN
  /\ reset_work \in BOOLEAN

RamInit ==
  /\ AuthInit
  /\ keys = {}
  /\ acceptList = {} /\ filtered = FALSE /\ advertising = FALSE
  /\ bt_err = FALSE
  /\ conn = NoConn
  /\ refs = 0 /\ current = NoPeer /\ connected = FALSE /\ send_len = 0
  /\ dm = "idle"
  /\ icon = "none" /\ led = FALSE /\ blink = FALSE
  /\ unregister_work = FALSE /\ reset_work = FALSE

Init == phase = "off" /\ bonds = {} /\ RamInit

(* The same values, as the state a restart comes back in.                  *)
ResetRam ==
  /\ pairing_confirm' = "deny" /\ passkey_display' = "null"
  /\ bt_auth' = FALSE /\ auth_boot' = "start" /\ auth_err' = FALSE
  /\ pc' = "idle" /\ pairable_arg' = FALSE /\ smp' = "none"
  /\ keys' = {}
  /\ acceptList' = {} /\ filtered' = FALSE /\ advertising' = FALSE
  /\ bt_err' = FALSE
  /\ conn' = NoConn
  /\ refs' = 0 /\ current' = NoPeer /\ connected' = FALSE /\ send_len' = 0
  /\ dm' = "idle"
  /\ icon' = "none" /\ led' = FALSE /\ blink' = FALSE
  /\ unregister_work' = FALSE /\ reset_work' = FALSE

-----------------------------------------------------------------------------
(* Start-up, one work: DevKit, Bluetooth, Display.  It blocks in between,  *)
(* so the input thread runs, but no other work does.                       *)
PowerOn == /\ phase = "off"
           /\ phase' = "enable"
           /\ blink' = TRUE
           /\ UNCHANGED <<authVars, bondVars, advVars, conn, appVars, dm, icon,
                          led, workVars>>

(* bt_enable and settings_load succeed, which fills the key pool, then     *)
(* bt::auth::init.                                                         *)
EnableBt == /\ phase = "enable"
            /\ keys' = bonds
            /\ AuthRegister
            /\ bt_err' = auth_err'
            /\ phase' = IF auth_err' THEN "callbacks" ELSE "start"
            /\ UNCHANGED <<bonds, acceptList, filtered, advertising, conn,
                           appVars, dm, uiVars, workVars>>

(* bt_enable fails and nothing is loaded, or settings_load does, after any *)
(* part of the keys.                                                       *)
EnableFails == /\ phase = "enable"
               /\ keys' \in SUBSET bonds
               /\ bt_err' = TRUE
               /\ phase' = "callbacks"
               /\ UNCHANGED <<authVars, bonds, acceptList, filtered,
                              advertising, conn, appVars, dm, uiVars,
                              workVars>>

(* The filter list is built from the key pool and used if it has a bond.   *)
FilterList == keys
StartAdvertising ==
  /\ phase = "start"
  /\ acceptList' = FilterList
  /\ \E started \in BOOLEAN : /\ advertising' = started
                              /\ bt_err' = ~started
                              /\ filtered' = (started /\ keys # {})
  /\ phase' = "callbacks"
  /\ UNCHANGED <<authVars, bondVars, conn, appVars, dm, uiVars, workVars>>

InstallCallbacks == /\ phase = "callbacks"
                    /\ AuthReady
                    /\ phase' = "display"
                    /\ UNCHANGED <<bondVars, advVars, conn, appVars, dm,
                                   uiVars, workVars>>

InitDisplay == /\ phase = "display"
               /\ icon' = "hidden"
               /\ phase' = "running"
               /\ UNCHANGED <<authVars, bondVars, advVars, conn, appVars, dm,
                              led, blink, workVars>>

-----------------------------------------------------------------------------
(* Bluetooth callbacks.  They are works too.  Variant: a thread of their   *)
(* own, whatever the work queue is doing.                                  *)
RxAnyTime == phase # "off"
RxMayRun == phase = "running"

(* A UI callback of the manager: without ui_bluetooth it faults, and       *)
(* before the callbacks are installed nobody is called.                    *)
SetIcon(shown) == icon' = IF auth_boot # "ready" THEN icon
                          ELSE IF icon = "none" THEN "fault" ELSE shown

(* bt_conn_disconnect.                                                     *)
Closing(c) == [c EXCEPT !.link = "closing"]

(* bt::gatt_dm::start: refused on a closing link and while running.        *)
StartDiscovery == dm' \in IF conn.link = "up" THEN {dm, "running"} ELSE {dm}

(* Who gets through the advertising filter.                                *)
MayConnect(p) == filtered => p \in acceptList

(* The send length a connection starts with.                               *)
FirstSendLen == MinMtu - 3

(* connected(conn, 0).                                                     *)
Connect(p) ==
  /\ RxMayRun
  /\ advertising /\ conn.link = "down"
  /\ MayConnect(p)
  /\ advertising' = FALSE
  /\ refs' = refs + 1
  /\ current' = p
  /\ send_len' = FirstSendLen
  /\ \E request \in {"none", "pending"} :
       \/ /\ Pairable \/ p \in keys         \* set_security succeeds
          /\ conn' = NewConn(p, request)
          /\ connected' = TRUE
          /\ SetIcon("shown")
       \/ /\ conn' = Closing(NewConn(p, request)) \* it fails or is not asked
          /\ connected' = FALSE
          /\ UNCHANGED icon
  /\ UNCHANGED <<authVars, phase, bondVars, acceptList, filtered, bt_err, dm,
                 led, blink, workVars>>

(* connected with an error.                                                *)
ConnectError == /\ RxMayRun
                /\ advertising /\ conn.link = "down"
                /\ connected' = FALSE
                /\ UNCHANGED <<authVars, phase, bondVars, advVars, conn, refs,
                               current, send_len, dm, uiVars, workVars>>

(* What disconnected leaves of the references.  Variant: all of them.      *)
KeepRef == refs
DropRef == IF current # NoPeer THEN refs - 1 ELSE refs

(* disconnected: the stack advertises again once nobody holds the          *)
(* connection, for MAX_CONN is 1.                                          *)
Disconnect ==
  /\ RxMayRun
  /\ conn.link # "down"
  /\ conn' = NoConn
  /\ refs' = DropRef
  /\ current' = NoPeer
  /\ connected' = FALSE
  /\ SetIcon("hidden")
  /\ advertising' = (refs' = 0)
  /\ dm' = "idle"
  /\ smp' = "none"
  /\ UNCHANGED <<callbacks, bootVars, buttonVars, phase, bondVars, acceptList,
                 filtered, bt_err, send_len, led, blink, workVars>>

(* security_changed without an error: a bonded peer encrypts.              *)
Encrypt == /\ RxMayRun
           /\ conn.link # "down" /\ conn.level = 1
           /\ conn.peer \in keys /\ smp = "none"
           /\ conn' = [conn EXCEPT !.level = 2]
           /\ StartDiscovery
           /\ UNCHANGED <<authVars, phase, bondVars, advVars, appVars, uiVars,
                          workVars>>

(* security_changed with one.                                              *)
EncryptFails == /\ RxMayRun
                /\ conn.link # "down"
                /\ conn' = Closing(conn)
                /\ UNCHANGED <<authVars, phase, bondVars, advVars, appVars, dm,
                               uiVars, workVars>>

Pair(keyboard) == /\ RxMayRun
                  /\ conn.link = "up"
                  /\ PairingRequest(keyboard)
                  /\ UNCHANGED connVars

PairEncrypted == /\ RxMayRun
                 /\ PairingEncrypted
                 /\ conn' = [conn EXCEPT !.level = 2]
                 /\ StartDiscovery
                 /\ UNCHANGED <<phase, bondVars, advVars, appVars, uiVars,
                                workVars>>

(* The keys go to flash too; a full store gives up its oldest entry        *)
(* (CONFIG_BT_KEYS_OVERWRITE_OLDEST), whichever that is.                   *)
WithBond(p) == IF p \in bonds \/ Cardinality(bonds) < MaxPaired
               THEN {bonds \cup {p}}
               ELSE {(bonds \ {old}) \cup {p} : old \in bonds}

(* pairing_complete(conn, bonded): the window closes either way.           *)
PairComplete == /\ RxMayRun
                /\ PairingComplete
                /\ \/ /\ bonds' \in WithBond(conn.peer)
                      /\ keys' = bonds'
                   \/ UNCHANGED bondVars
                /\ UNCHANGED <<phase, advVars, conn, appVars, dm, uiVars,
                               workVars>>

PairFails == /\ RxMayRun
             /\ PairingFailed
             /\ conn' = Closing(conn)
             /\ UNCHANGED <<phase, bondVars, advVars, appVars, dm, uiVars,
                            workVars>>

DiscoveryEnds == /\ RxMayRun
                 /\ dm = "running"
                 /\ dm' = "idle"
                 /\ UNCHANGED <<authVars, phase, bondVars, advVars, conn,
                                appVars, uiVars, workVars>>

(* mtu_exchange_cb, and an exchange of the peer's that tells nobody.       *)
MtuExchanged ==
  /\ RxMayRun
  /\ conn.exchange = "pending"
  /\ \/ \E m \in Mtus : /\ m >= conn.mtu
                         /\ conn' = [conn EXCEPT !.mtu = m, !.exchange = "none"]
                         /\ send_len' = m - 3
     \/ /\ conn' = [conn EXCEPT !.exchange = "none"]
        /\ UNCHANGED send_len
  /\ UNCHANGED <<authVars, phase, bondVars, advVars, refs, current, connected,
                 dm, uiVars, workVars>>

PeerExchangesMtu(m) ==
  /\ RxMayRun
  /\ conn.link # "down" /\ m > conn.mtu
  /\ conn' = [conn EXCEPT !.mtu = m]
  /\ UNCHANGED <<authVars, phase, bondVars, advVars, appVars, dm, uiVars,
                 workVars>>

-----------------------------------------------------------------------------
(* The buttons, in the input thread, and the works they and DevKit schedule. *)
Button1 == /\ phase # "off"
           /\ ButtonStep
           /\ UNCHANGED connVars

Button3 == /\ phase # "off" /\ pc = "idle"
           /\ unregister_work' = TRUE
           /\ UNCHANGED <<authVars, phase, bondVars, advVars, conn, appVars,
                          dm, uiVars, reset_work>>

Button4 == /\ phase # "off" /\ pc = "idle"
           /\ reset_work' = TRUE
           /\ UNCHANGED <<authVars, phase, bondVars, advVars, conn, appVars,
                          dm, uiVars, unregister_work>>

(* The LED work shows the connection and schedules itself again.           *)
Blink == /\ phase = "running"
         /\ blink
         /\ led' = connected
         /\ blink' = TRUE
         /\ UNCHANGED <<authVars, phase, bondVars, advVars, conn, appVars, dm,
                        icon, workVars>>

(* run_unregister: stop advertising, erase the bonds that are in the key   *)
(* pool one by one, in flash too, disable the stack, sleep, reboot.  The   *)
(* filter list cannot be cleared any more once the stack is disabled, and  *)
(* what the disconnections would report waits for a work queue that never  *)
(* comes back.                                                             *)
RunUnregister == /\ phase = "running"
                 /\ unregister_work
                 /\ unregister_work' = FALSE
                 /\ advertising' = FALSE
                 /\ phase' = "unpair"
                 /\ UNCHANGED <<authVars, bondVars, acceptList, filtered,
                                bt_err, conn, appVars, dm, uiVars, reset_work>>

Unpair(p) == /\ phase = "unpair"
             /\ p \in keys
             /\ keys' = keys \ {p}
             /\ bonds' = bonds \ {p}
             /\ conn' = IF conn.peer = p THEN Closing(conn) ELSE conn
             /\ UNCHANGED <<authVars, phase, advVars, appVars, dm, uiVars,
                            workVars>>

(* Variant: wait for the connection to end, which this work holds back.    *)
UnpairedWhenDown == /\ phase = "unpair"
                    /\ keys = {}
                    /\ conn.link = "down"
                    /\ phase' = "erased"
                    /\ UNCHANGED <<authVars, bondVars, advVars, conn, appVars,
                                   dm, uiVars, workVars>>

Unpaired == /\ phase = "unpair"
            /\ keys = {}
            /\ phase' = "erased"
            /\ UNCHANGED <<authVars, bondVars, advVars, conn, appVars, dm,
                           uiVars, workVars>>

RunReset == /\ phase = "running"
            /\ reset_work
            /\ reset_work' = FALSE
            /\ advertising' = FALSE
            /\ phase' = "reset"
            /\ UNCHANGED <<authVars, bondVars, acceptList, filtered, bt_err,
                           conn, appVars, dm, uiVars, unregister_work>>

Reboot == /\ phase \in {"erased", "reset"}
          /\ phase' = "off"
          /\ ResetRam
          /\ UNCHANGED bonds

PowerLoss == /\ phase # "off"
             /\ phase' = "off"
             /\ ResetRam
             /\ UNCHANGED bonds

-----------------------------------------------------------------------------
StartUp == \/ PowerOn
           \/ EnableBt
           \/ EnableFails
           \/ StartAdvertising
           \/ InstallCallbacks
           \/ InitDisplay

Link == \/ \E p \in Peers : Connect(p)
        \/ ConnectError
        \/ Disconnect
        \/ Encrypt
        \/ EncryptFails
        \/ DiscoveryEnds
        \/ MtuExchanged
        \/ \E m \in Mtus : PeerExchangesMtu(m)

Pairing == \/ \E keyboard \in BOOLEAN : Pair(keyboard)
           \/ PairEncrypted
           \/ PairComplete
           \/ PairFails

Buttons == \/ Button1
           \/ Button3
           \/ Button4

Works == \/ Blink
         \/ RunUnregister
         \/ \E p \in Peers : Unpair(p)
         \/ Unpaired
         \/ RunReset
         \/ Reboot

Next == \/ StartUp
        \/ Link
        \/ Pairing
        \/ Buttons
        \/ Works
        \/ PowerLoss

Spec == Init /\ [][Next]_vars

(* The work queue takes up what is scheduled, a work that has begun goes   *)
(* on, and a connection the stack is closing ends.  Nobody has to press a  *)
(* button, to come near the watch or to stay there.                        *)
Fairness == /\ WF_vars(StartUp)
            /\ WF_vars(Blink)
            /\ WF_vars(RunUnregister)
            /\ WF_vars(\E p \in Peers : Unpair(p))
            /\ WF_vars(Unpaired)
            /\ WF_vars(Reboot)
            /\ WF_vars(conn.link = "closing" /\ Disconnect)

FairSpec == Spec /\ Fairness

-----------------------------------------------------------------------------
(* The application holds exactly one reference, on the connection there    *)
(* is, and drops it when the connection ends (bt.cpp:175, 211-215): a      *)
(* leaked one would keep the only connection object for ever.              *)
RefBalanced == /\ current = conn.peer
               /\ refs = IF current = NoPeer THEN 0 ELSE 1

(* A watch whose bt::init succeeded can always be reached: it advertises   *)
(* or it has a connection, after any number of connections, refusals and   *)
(* failures (bt.cpp:167-223, 309).                                         *)
Reachable == phase = "running" /\ ~bt_err => advertising \/ conn.link # "down"

(* Every connection that bt.cpp does not count as connected is on its way  *)
(* down: none that was refused or failed to ask for security stays open    *)
(* (bt.cpp:183-202).                                                       *)
OpenLinkTracked == conn.link = "up" => connected

(* Between two works the Bluetooth icon is shown exactly while bt.cpp says *)
(* it is connected, though the callbacks that move it and the stores to    *)
(* _connected sit on different paths (bt.cpp:169-197, 217-222).            *)
IconMatches == phase = "running"
                 => icon = IF connected THEN "shown" ELSE "hidden"

(* No callback reaches for the icon before ui_init has made it, although   *)
(* advertising starts earlier (main.cpp:16-18; prj.conf: RECV_WORKQ_SYS).  *)
NoUiFault == icon # "fault"

(* Services are only started on a secured connection (bt.cpp:239-243), and *)
(* a discovery never outlives its connection.                              *)
DiscoverySecured == dm = "running" => conn.link # "down" /\ conn.level = 2

(* A sender that splits at max_send_len fits the MTU of this connection,   *)
(* not of an earlier one (bt.cpp:109, 179).                                *)
SendLenFits == conn.link # "down" => send_len <= conn.mtu - 3

(* While the filter is on, the controller's list is exactly the bonds in   *)
(* flash, though it is written once, at start-up (bt.cpp:296-307).         *)
FilterFresh == phase = "running" /\ filtered => acceptList = bonds

(* What the erasure leaves of a watch whose bt::init succeeded is nothing: *)
(* the key pool it walks was the whole of the bonds in flash, whatever was *)
(* paired or replaced since start-up, and none comes back before the       *)
(* restart (devkit.cpp:21-29, bt.cpp:270).                                 *)
ErasedStaysErased == phase = "erased" /\ ~bt_err => bonds = {}

(* A session that filters keeps the bonds it started with: a new phone is  *)
(* only ever bonded by a watch that started without any (bt.cpp:300-307).  *)
FilteredKeepsBonds == [][phase = "running" /\ filtered => bonds' = bonds]_vars

(* One window, one bond: the step that adds a bond leaves the window       *)
(* closed, so the next phone needs another press, although the input       *)
(* thread may be between two stores just then (auth.cpp:65-68).            *)
WindowClosesWithBond == [][bonds' \subseteq bonds \/ ~Pairable']_vars

(* The inductive invariant: the properties above, and what makes them      *)
(* hold.  LinkShape: the application tracks the connection the stack has.  *)
(* StartsQuiet: nothing is connected before the work queue is free.        *)
(* KeysKnown: the key pool holds what is in flash unless bt::init failed,  *)
(* and then nothing is on the air.  FilterHolds: behind the filter,        *)
(* connections are with bonded peers                                       *)
(* (bt.cpp:167-316, main.cpp:14-19, devkit.cpp:21-38).                     *)
Starting == {"off", "enable", "start", "callbacks", "display"}
Advertised == {"callbacks", "display", "running"}

LinkShape == IF conn.link = "down"
             THEN conn = NoConn /\ smp = "none" /\ ~connected
             ELSE conn.peer \in Peers

BondsFit == Cardinality(bonds) <= MaxPaired

StartsQuiet ==
  /\ phase \in Starting => conn = NoConn /\ ~connected /\ icon = "none"
  /\ phase \in {"off", "enable"} => auth_boot = "start"
  /\ phase \in {"off", "enable", "start"} => ~filtered /\ ~advertising
                                               /\ ~bt_err
  /\ phase \in {"start", "callbacks"} => auth_boot # "ready"
  /\ phase \in (Phases \ Starting) \cup {"display"} => auth_boot = "ready"

IconKept == phase \notin Starting
              => icon = IF connected THEN "shown" ELSE "hidden"

StaysReachable == phase \in Advertised /\ ~bt_err
                    => advertising \/ conn.link # "down"

KeysKnown ==
  /\ keys \subseteq bonds
  /\ phase \notin {"off", "enable"} /\ ~bt_err => keys = bonds
  /\ bt_err => ~advertising /\ ~filtered /\ conn.link = "down"

FilterHolds == phase \in Advertised /\ filtered
                 => /\ acceptList = bonds
                    /\ conn.link # "down" => conn.peer \in bonds

ConnInv == /\ TypeOK
           /\ AuthInv
           /\ BondsFit
           /\ LinkShape
           /\ RefBalanced
           /\ OpenLinkTracked
           /\ StartsQuiet
           /\ IconKept
           /\ StaysReachable
           /\ KeysKnown
           /\ DiscoverySecured
           /\ SendLenFits
           /\ FilterHolds
           /\ ErasedStaysErased

(* The connection the work queue, the radio and the buttons implement      *)
(* between them.                                                           *)
Watch == INSTANCE WatchLink WITH
           stage <- IF phase \in Starting THEN "starting"
                    ELSE IF phase = "running" THEN "serving" ELSE "ending",
           link <- IF conn.link = "up" THEN "open"
                   ELSE IF conn.link = "closing" THEN "closing"
                   ELSE IF advertising THEN "advertising" ELSE "quiet",
           who <- conn.peer,
           level <- conn.level,
           shown <- icon = "shown",
           window <- Pairable,
           strict <- filtered

(* A connection that ends gives way to advertising at once, one stays only *)
(* with a bonded peer or while the window is open and the icon says so; a  *)
(* bond takes a secured connection and closes the window, and none is made *)
(* behind the filter (bt.cpp:138-223, 296-316, auth.cpp:65-74,             *)
(* devkit.cpp:19-38).                                                      *)
LinkPromise == Watch!Spec

(* A connection that is being closed ends, and the watch advertises again  *)
(* or has a new one, unless it restarts (bt.cpp:205-215).                  *)
ReachableAgain == conn.link = "closing"
                    ~> (advertising \/ conn.link = "up" \/ phase # "running")

(* Button 3 is acted on: no bond is left in flash, unless the watch        *)
(* restarts first or its bt::init failed, after which the key pool may     *)
(* not hold them (devkit.cpp:58-60, 21-29).                                *)
UnregisterErases == unregister_work /\ ~bt_err
                      ~> (phase = "erased" /\ bonds = {}) \/ phase = "off"
=============================================================================
