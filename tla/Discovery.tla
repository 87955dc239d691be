------------------------------ MODULE Discovery ------------------------------
(***************************************************************************)
(* The GATT clients: ble/gatt_dm.cpp walks the services of a secured peer  *)
(* and hands each to its client (gap.cpp over services/gap_client.cpp,     *)
(* cts.cpp, ams.cpp, ancs.cpp).  What the clients keep - the found table,  *)
(* a connection pointer, a characteristic handle, a read in flight -       *)
(* outlives the connection, for nothing resets it on disconnect.           *)
(*                                                                         *)
(* Every step is a Bluetooth callback or a work, so each is atomic.  There *)
(* is one connection object (CONFIG_BT_MAX_CONN = 1): a pointer kept from  *)
(* an earlier connection points at the present one.                        *)
(***************************************************************************)
EXTENDS Naturals, FiniteSets

CONSTANTS
  OtherService,   \* a service no client handles
  MaxReads        \* bound on reads in flight at once

Handled == {"GAP", "CTS", "AMS", "ANCS"}
Services == Handled \cup {OtherService}

ASSUME ServiceAssumption == OtherService \notin Handled
ASSUME ReadsAssumption == MaxReads \in Nat \ {0}

VARIABLES
  level,      \* security level of the connection, 0 without one
  todo,       \* services the running discovery has still to report
  dm,         \* the discovery manager: "idle", "running" or, when the last
              \* discovery broke off with an error, "failed"
  found,      \* the services whose found[] entry is true
  gap,        \* the gap_client: conn and handle set, GAP_ASYNC_READ_PENDING, read_params.func
  reads,      \* reads with its read_params that the stack has in flight
  subscribed, \* current time notifications
  ancs        \* the ANCS client's handles are assigned

vars == <<level, todo, dm, found, gap, reads, subscribed, ancs>>
clients == <<gap, subscribed, ancs>>

NoClient == [conn |-> FALSE, handle |-> FALSE, pending |-> FALSE, func |-> FALSE]

TypeOK == /\ level \in 0..2
          /\ todo \subseteq Services
          /\ dm \in {"idle", "running", "failed"}
          /\ found \subseteq Handled
          /\ gap \in [conn : BOOLEAN, handle : BOOLEAN, pending : BOOLEAN,
                      func : BOOLEAN]
          /\ reads \in 0..MaxReads
          /\ subscribed \in BOOLEAN
          /\ ancs \in BOOLEAN

Init == /\ level = 0
        /\ todo = {}
        /\ dm = "idle"
        /\ found = {}
        /\ gap = NoClient
        /\ reads = 0
        /\ subscribed = FALSE
        /\ ancs = FALSE

(* The same values: what a restart comes back with.                        *)
Restart == /\ level' = 0
           /\ todo' = {}
           /\ dm' = "idle"
           /\ found' = {}
           /\ gap' = NoClient
           /\ reads' = 0
           /\ subscribed' = FALSE
           /\ ancs' = FALSE

-----------------------------------------------------------------------------
Connect == /\ level = 0
           /\ level' = 1
           /\ UNCHANGED <<todo, dm, found, clients, reads>>

(* security_changed: on the way to level 2, and again whenever the peer    *)
(* refreshes the keys.  A discovery that runs already goes on, and a start *)
(* that fails is logged.                                                   *)
Secure == /\ level > 0
          /\ level' = 2
          /\ \/ UNCHANGED <<dm, todo>>
             \/ /\ dm # "running"
                /\ dm' = "running"
                /\ todo' \in SUBSET Services
          /\ UNCHANGED <<found, clients, reads>>

(* gap_client_handles_assign: the connection comes last, after the two     *)
(* look-ups that may return half way.                                      *)
Assigned(chrc, desc) ==
  IF chrc /\ desc THEN [NoClient EXCEPT !.handle = TRUE, !.conn = TRUE]
                  ELSE NoClient

(* The client's part in discover_all_completed_cb: init, then assign the   *)
(* handles.  gap.init wipes the client, read_params and pending bit        *)
(* included, whatever is in flight.                                        *)
AssignGap == /\ \E chrc, desc \in BOOLEAN : gap' = Assigned(chrc, desc)
             /\ UNCHANGED <<subscribed, ancs>>

AssignCts == /\ subscribed' \in BOOLEAN
             /\ UNCHANGED <<gap, ancs>>

AssignAncs == /\ ancs' \in BOOLEAN
              /\ UNCHANGED <<gap, subscribed>>

(* The found[] entry of a service's block.  Variant: the block of AMS,     *)
(* copied from that of CTS, keeps its index.                               *)
FoundCopied(s) == IF s = "AMS" THEN {"CTS"} ELSE {s} \cap Handled
Found(s) == {s} \cap Handled

(* bt_gatt_dm_continue at the end of the callback keeps the walk running.  *)
Completed(s) ==
  /\ dm = "running" /\ s \in todo
  /\ todo' = todo \ {s}
  /\ found' = found \cup Found(s)
  /\ \/ s = "GAP" /\ AssignGap
     \/ s = "CTS" /\ AssignCts
     \/ s = "ANCS" /\ AssignAncs
     \/ s \in {"AMS", OtherService} /\ UNCHANGED clients
  /\ UNCHANGED <<level, dm, reads>>

(* No service is left: the manager is free again.                          *)
NoMoreServices == /\ dm = "running" /\ todo = {}
                  /\ dm' = "idle"
                  /\ UNCHANGED <<level, todo, found, clients, reads>>

(* The discovery breaks off with an error: nobody starts it again before   *)
(* the next security_changed.                                              *)
DiscoveryFails == /\ dm = "running"
                  /\ dm' = "failed"
                  /\ todo' = {}
                  /\ UNCHANGED <<level, found, clients, reads>>

(* bt_gatt_read's failure takes the pending bit back.  Variant: it stays.  *)
KeepPending(c) == [c EXCEPT !.pending = TRUE]
DropPending(c) == [c EXCEPT !.pending = FALSE]

(* gap::read_device_name, called by a work.                                *)
ReadDeviceName ==
  /\ "GAP" \in found
  /\ gap.conn /\ ~gap.pending
  /\ LET asked == [gap EXCEPT !.pending = TRUE, !.func = TRUE]
     IN \/ /\ level > 0 /\ reads < MaxReads
           /\ reads' = reads + 1
           /\ gap' = asked
        \/ /\ gap' = DropPending(asked)
           /\ UNCHANGED reads
  /\ UNCHANGED <<level, todo, dm, found, subscribed, ancs>>

(* The stack answers a read through read_params.func.  A wiped client has  *)
(* none: the call faults and the device restarts.                          *)
(* Variant: the answer leaves the client busy.                             *)
ReadAnsweredBusy ==
  /\ reads > 0 /\ gap.func
  /\ reads' = reads - 1
  /\ UNCHANGED <<level, todo, dm, found, gap, subscribed, ancs>>

ReadAnswered ==
  /\ reads > 0 /\ gap.func
  /\ reads' = reads - 1
  /\ gap' = [gap EXCEPT !.pending = FALSE]
  /\ UNCHANGED <<level, todo, dm, found, subscribed, ancs>>

ReadFaults == reads > 0 /\ ~gap.func /\ Restart

(* The stack ends what is under way with the connection, the reads first.  *)
Disconnect == /\ level > 0 /\ reads = 0
              /\ level' = 0
              /\ dm' = "idle"
              /\ todo' = {}
              /\ UNCHANGED <<found, clients, reads>>

Next == \/ Connect
        \/ Secure
        \/ \E s \in Services : Completed(s)
        \/ NoMoreServices
        \/ DiscoveryFails
        \/ ReadDeviceName
        \/ ReadAnswered
        \/ ReadFaults
        \/ Disconnect

Spec == Init /\ [][Next]_vars

(* The stack reports the services of a connection that stays, and answers. *)
Fairness == /\ WF_vars(\E s \in Services : Completed(s))
            /\ WF_vars(NoMoreServices)
            /\ WF_vars(ReadAnswered \/ ReadFaults)
FairSpec == Spec /\ Fairness

(* A client with a connection has the handle it reads, also when the peer  *)
(* of a later connection does not offer the characteristic                 *)
(* (gap_client.cpp:53-75, 109).                                            *)
ConnHasHandle == gap.conn => gap.handle

-----------------------------------------------------------------------------
(* A discovery belongs to a connection at level 2 and ends with it         *)
(* (bt.cpp:239-243).  The client is busy only while the stack still owes   *)
(* it an answer, and has the callback it comes back to, over rediscoveries *)
(* that wipe it, failed reads and lost connections: it never refuses reads *)
(* for ever (gap_client.cpp:53-75, 84, 113-129).                           *)
PendingIsBacked == gap.pending => reads > 0 /\ gap.func

DiscInv == /\ TypeOK
           /\ dm = "running" => level = 2
           /\ todo # {} => dm = "running"
           /\ PendingIsBacked
           /\ ConnHasHandle

(* Time notifications are asked for on a secured connection only           *)
(* (cts.cpp:25, 44: "implicit since we don't enable services otherwise").  *)
SubscribeSecured == [][~subscribed /\ subscribed' => level = 2]_vars

(* Every service the discovery reaches is entered in the found table, one  *)
(* callback after the other, unless the discovery fails or the connection  *)
(* goes down before (gatt_dm.cpp:69-161): no callback may forget to        *)
(* continue the walk or enter another service than its own.                *)
OfferedIsFound == \A s \in Handled :
                    s \in todo ~> (s \in found \/ level = 0 \/ dm = "failed")

(* A read that was asked for is over some time (gap_client.cpp:79-91).     *)
ReadEnds == gap.pending ~> ~gap.pending

(* "implicit since we only enable services if securty >= L2" (gap.cpp:37): *)
(* a read of the device name goes out on a secured connection only.        *)
ReadSecured == [][reads' > reads => level = 2]_vars
=============================================================================
