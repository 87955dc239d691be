--------------------------- MODULE DiscoveryProofs ---------------------------
(***************************************************************************)
(* Proofs about Discovery: DiscInv is inductive as it stands, for any      *)
(* bound on the reads in flight, over rediscoveries, lost connections and  *)
(* restarts.                                                               *)
(***************************************************************************)
EXTENDS Discovery, TLAPS

USE ServiceAssumption, ReadsAssumption
USE DEF vars, clients, NoClient

(* The flags of the gap client are TRUE or FALSE: what a step writes to it *)
(* is a client again (gap_client.cpp:19-34, 107-132).                      *)
Client == [conn : BOOLEAN, handle : BOOLEAN, pending : BOOLEAN, func : BOOLEAN]

LEMMA EmptyClient == /\ NoClient \in Client
                     /\ [NoClient EXCEPT !.handle = TRUE, !.conn = TRUE] \in Client
BY Zenon DEF Client

LEMMA WrittenClient == ASSUME NEW c \in Client
                       PROVE  /\ [c EXCEPT !.pending = FALSE] \in Client
                              /\ [c EXCEPT !.pending = TRUE, !.func = TRUE] \in Client
BY Zenon DEF Client

(* Taking up a service keeps the invariant: a wiped client owes nothing    *)
(* (gatt_dm.cpp:69-161, gap_client.cpp:53-77).                             *)
LEMMA CompletedStep == ASSUME DiscInv, NEW s \in Services, Completed(s)
                       PROVE  DiscInv'
<1> USE DEF DiscInv, TypeOK, PendingIsBacked, ConnHasHandle
<1>1. dm = "running" /\ dm' = "running" /\ level = 2 /\ level' = 2
  BY DEF Completed
<1>2. todo' \subseteq Services /\ found' \subseteq Handled /\ reads' = reads
  BY DEF Completed, Found
<1>3. gap' = gap \/ AssignGap
  BY DEF Completed, AssignCts, AssignAncs
<1>4. /\ gap' \in Client
      /\ gap'.pending => gap'.func /\ reads' > 0
      /\ gap'.conn => gap'.handle
  <2>1. CASE gap' = gap
    BY <1>2, <2>1 DEF Client
  <2>2. CASE gap' = NoClient
    BY <2>2, EmptyClient
  <2>3. CASE gap' = [NoClient EXCEPT !.handle = TRUE, !.conn = TRUE]
    BY <2>3, EmptyClient
  <2>4. QED
    BY <1>3, <2>1, <2>2, <2>3 DEF AssignGap, Assigned
<1>5. subscribed' \in BOOLEAN /\ ancs' \in BOOLEAN
  BY Zenon DEF Completed, AssignGap, AssignCts, AssignAncs
<1>6. QED
  BY <1>1, <1>2, <1>4, <1>5 DEF Client

(* A read that cannot be sent takes the pending bit back, one that is sent *)
(* is in flight (gap_client.cpp:107-132).                                  *)
LEMMA ReadStep == ASSUME DiscInv, ReadDeviceName
                  PROVE  DiscInv'
<1> USE DEF DiscInv, TypeOK, PendingIsBacked, ConnHasHandle
<1>1. UNCHANGED <<level, todo, dm, found, subscribed, ancs>>
  BY DEF ReadDeviceName
<1>2. CASE /\ reads < MaxReads /\ reads' = reads + 1
           /\ gap' = [gap EXCEPT !.pending = TRUE, !.func = TRUE]
  <2>1. reads' \in 0..MaxReads /\ reads' > 0
    BY <1>2
  <2>2. /\ gap'.func = TRUE
        /\ gap'.conn = gap.conn /\ gap'.handle = gap.handle
    BY <1>2
  <2>3. gap' \in Client
    BY <1>2, WrittenClient DEF Client
  <2>4. QED
    BY <1>1, <2>1, <2>2, <2>3 DEF Client
<1>3. CASE /\ gap' = DropPending([gap EXCEPT !.pending = TRUE, !.func = TRUE])
           /\ reads' = reads
  BY <1>1, <1>3 DEF DropPending
<1>4. QED
  BY <1>2, <1>3 DEF ReadDeviceName

(* Every callback and work keeps the invariant.                            *)
LEMMA NextDisc == DiscInv /\ [Next]_vars => DiscInv'
<1> SUFFICES ASSUME DiscInv, [Next]_vars
             PROVE  DiscInv'
  OBVIOUS
<1> USE DEF DiscInv, TypeOK, PendingIsBacked, ConnHasHandle
<1>1. CASE Connect
  BY <1>1 DEF Connect
<1>2. CASE Secure
  BY <1>2 DEF Secure
<1>3. CASE NoMoreServices
  BY <1>3 DEF NoMoreServices
<1>4. CASE DiscoveryFails
  BY <1>4 DEF DiscoveryFails
<1>5. CASE ReadAnswered
  <2>1. gap' \in Client
    BY <1>5, WrittenClient DEF ReadAnswered, Client
  <2>2. /\ ~gap'.pending
        /\ gap'.conn = gap.conn /\ gap'.handle = gap.handle
    BY <1>5 DEF ReadAnswered
  <2>3. reads' \in 0..MaxReads
    BY <1>5 DEF ReadAnswered
  <2>4. QED
    BY <1>5, <2>1, <2>2, <2>3 DEF ReadAnswered, Client
<1>6. CASE ReadFaults
  <2>1. Restart
    BY <1>6 DEF ReadFaults
  <2>2. subscribed' \in BOOLEAN /\ ancs' \in BOOLEAN /\ gap' \in Client
    BY <2>1, EmptyClient, Zenon DEF Restart
  <2>3. QED
    BY <2>1, <2>2 DEF Restart, Client
<1>7. CASE Disconnect
  BY <1>7 DEF Disconnect
<1>8. CASE UNCHANGED vars
  BY <1>8
<1>9. QED
  BY <1>1, <1>2, <1>3, <1>4, <1>5, <1>6, <1>7, <1>8, CompletedStep, ReadStep
  DEF Next

(* A discovery belongs to a secured connection, and the gap client is busy *)
(* only with a read the stack still has to answer (bt.cpp:239-243,         *)
(* gap_client.cpp:84, 113-129).                                            *)
THEOREM DiscInvariant == Spec => []DiscInv
<1>1. Init => DiscInv
  <2> SUFFICES ASSUME Init
               PROVE  DiscInv
    OBVIOUS
  <2>1. gap \in Client /\ subscribed \in BOOLEAN /\ ancs \in BOOLEAN
    BY EmptyClient, Zenon DEF Init
  <2>2. QED
    BY <2>1 DEF Init, DiscInv, TypeOK, PendingIsBacked, ConnHasHandle, Client
<1>2. DiscInv /\ [Next]_vars => DiscInv'
  BY NextDisc
<1>3. QED
  BY <1>1, <1>2, PTL DEF Spec

(* Notifications of the time are asked for on a secured connection only:   *)
(* what cts.cpp:44 leaves implicit.                                        *)
THEOREM SubscribesSecured == Spec => SubscribeSecured
<1>1. DiscInv /\ [Next]_vars
        => [~subscribed /\ subscribed' => level = 2]_vars
  <2> SUFFICES ASSUME DiscInv, [Next]_vars, ~subscribed, subscribed'
               PROVE  level = 2
    OBVIOUS
  <2>1. PICK s \in Services : Completed(s)
    BY DEF Next, Connect, Secure, NoMoreServices, DiscoveryFails, ReadDeviceName,
           ReadAnswered, ReadFaults, Restart, Disconnect
  <2>2. QED
    BY <2>1 DEF Completed, DiscInv
<1>2. QED
  BY <1>1, DiscInvariant, PTL DEF Spec, SubscribeSecured
=============================================================================
