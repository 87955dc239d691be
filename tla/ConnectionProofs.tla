-------------------------- MODULE ConnectionProofs --------------------------
(***************************************************************************)
(* Proofs about Auth and about Connection, which extends it.  Auth: its    *)
(* inductive invariant, AcceptHasDisplay, and the refinement of            *)
(* PairingWindow.  Connection: ConnInv is inductive, for any finite set of *)
(* phones, any bond limit and any MTUs; the safety properties of the       *)
(* connection follow from it, and so do the two refinements.               *)
(***************************************************************************)
EXTENDS Connection, FiniteSetTheorems, TLAPS

USE DEF Pairable, ConfirmFor, DisplayFor, callbacks, buttonVars, bootVars

(* The initial state of the globals satisfies the invariant                *)
(* (auth.cpp:16-21).                                                       *)
LEMMA InitInv == AuthInit => AuthInv
  BY DEF AuthInit, AuthInv, AuthTypeOK, AcceptBacked, OpenerSawClosed,
         CloserDenied, PairingAfterStart

(* Every store of either thread preserves the invariant: one step per      *)
(* action of auth.cpp and of the button.                                   *)
LEMMA NextInv == AuthInv /\ [AuthNext]_authVars => AuthInv'
<1> SUFFICES ASSUME AuthInv, [AuthNext]_authVars
             PROVE  AuthInv'
  OBVIOUS
<1> USE DEF AuthInv, AuthTypeOK, AcceptBacked, OpenerSawClosed,
            CloserDenied, PairingAfterStart
<1>1. CASE AuthRegister
  BY <1>1 DEF AuthRegister
<1>2. CASE AuthReady
  BY <1>2 DEF AuthReady, SetPairableFalse
<1>3. CASE ButtonRead
  BY <1>3 DEF ButtonRead
<1>4. CASE ButtonConfirm
  BY <1>4 DEF ButtonConfirm
<1>5. CASE ButtonDisplay
  BY <1>5 DEF ButtonDisplay
<1>6. CASE ButtonRegister
  BY <1>6 DEF ButtonRegister
<1>7. ASSUME NEW keyboard \in BOOLEAN, PairingRequest(keyboard)
      PROVE  AuthInv'
  BY <1>7 DEF PairingRequest
<1>8. CASE PairingEncrypted
  BY <1>8 DEF PairingEncrypted
<1>9. CASE PairingComplete
  BY <1>9 DEF PairingComplete, SetPairableFalse
<1>10. CASE PairingFailed
  BY <1>10 DEF PairingFailed
<1>11. CASE UNCHANGED authVars
  BY <1>11 DEF authVars
<1>12. QED
  BY <1>1, <1>2, <1>3, <1>4, <1>5, <1>6, <1>7, <1>8, <1>9, <1>10, <1>11
     DEF AuthNext, ButtonStep

(* Every reachable state of the callbacks, the button and the pairing      *)
(* procedure satisfies the invariant.                                      *)
THEOREM AuthInvariant == AuthSpec => []AuthInv
<1>1. AuthInit => AuthInv
  BY InitInv
<1>2. AuthInv /\ [AuthNext]_authVars => AuthInv'
  BY NextInv
<1>3. QED
  BY <1>1, <1>2, PTL DEF AuthSpec

(* Outside the button handler, a watch that reports itself pairable can    *)
(* show a passkey (auth.cpp:116-117, 131).                                 *)
THEOREM AcceptHasDisplayHolds == AuthSpec => []AcceptHasDisplay
<1>1. AuthInv => AcceptHasDisplay
  BY DEF AuthInv, AcceptBacked, AcceptHasDisplay
<1>2. QED
  BY <1>1, AuthInvariant, PTL

-----------------------------------------------------------------------------
(* A step of either thread is a step of the pairing window or a stutter.   *)
LEMMA WindowStep == AuthInv /\ AuthInv' /\ [AuthNext]_authVars
                      => [Window!Next]_(Window!vars)
<1> SUFFICES ASSUME AuthInv, [AuthNext]_authVars
             PROVE  [Window!Next]_(Window!vars)
  OBVIOUS
<1> USE DEF AuthInv, AuthTypeOK, OpenerSawClosed, PairingAfterStart,
            Window!vars
<1>1. CASE AuthRegister
  BY <1>1 DEF AuthRegister
<1>2. CASE AuthReady
  <2>1. Window!Start
    BY <1>2 DEF AuthReady, SetPairableFalse, Window!Start
  <2>2. QED
    BY <2>1 DEF Window!Next
<1>3. CASE ButtonRead
  <2>1. Window!Press
    BY <1>3 DEF ButtonRead, Window!Press
  <2>2. QED
    BY <2>1 DEF Window!Next
<1>4. CASE ButtonConfirm
  <2>1. CASE pairable_arg
    BY <1>4, <2>1 DEF ButtonConfirm, Window!OpenWindow, Window!Next
  <2>2. CASE ~pairable_arg
    BY <1>4, <2>2 DEF ButtonConfirm, Window!CloseWindow, Window!Next
  <2>3. QED
    BY <2>1, <2>2
<1>5. CASE ButtonDisplay
  BY <1>5 DEF ButtonDisplay
<1>6. CASE ButtonRegister
  BY <1>6 DEF ButtonRegister
<1>7. ASSUME NEW keyboard \in BOOLEAN, PairingRequest(keyboard)
      PROVE  [Window!Next]_(Window!vars)
  <2>1. Window!BeginPairing
    BY <1>7 DEF PairingRequest, Window!BeginPairing
  <2>2. QED
    BY <2>1 DEF Window!Next
<1>8. CASE PairingEncrypted
  BY <1>8 DEF PairingEncrypted
<1>9. CASE PairingComplete
  <2>1. Window!CompletePairing
    BY <1>9 DEF PairingComplete, SetPairableFalse, Window!CompletePairing
  <2>2. QED
    BY <2>1 DEF Window!Next
<1>10. CASE PairingFailed
  <2>1. Window!FailPairing
    BY <1>10 DEF PairingFailed, Window!FailPairing
  <2>2. QED
    BY <2>1 DEF Window!Next
<1>11. CASE UNCHANGED authVars
  BY <1>11 DEF authVars
<1>12. QED
  BY <1>1, <1>2, <1>3, <1>4, <1>5, <1>6, <1>7, <1>8, <1>9, <1>10, <1>11
     DEF AuthNext, ButtonStep

(* auth.cpp and button 1 implement the pairing window: every press takes   *)
(* effect once, only presses open it, completion closes it.                *)
THEOREM AuthRefinesWindow == AuthSpec => WindowPromise
<1>1. AuthInit => Window!Init
  BY DEF AuthInit, Window!Init
<1>2. AuthInv /\ AuthInv' /\ [AuthNext]_authVars => [Window!Next]_(Window!vars)
  BY WindowStep
<1>3. QED
  BY <1>1, <1>2, AuthInvariant, PTL DEF AuthSpec, Window!Spec, WindowPromise

HIDE DEF Pairable, ConfirmFor, DisplayFor

-----------------------------------------------------------------------------
(* From here on Connection.                                                *)
USE PeersAssumption, PairedAssumption, MtuAssumption
USE DEF authVars, bondVars, advVars, appVars, uiVars, workVars, connVars, vars,
        callbacks, buttonVars, bootVars, Phases, Starting, Advertised,
        MinMtu, NoConn

-----------------------------------------------------------------------------
(* Facts the steps share.                                                  *)

(* A restart brings auth.cpp's globals back to their initial values        *)
(* (auth.cpp:16-21).                                                       *)
LEMMA ResetAuth == ResetRam => AuthInv'
<1> SUFFICES ASSUME ResetRam
             PROVE  AuthInv'
  OBVIOUS
<1>1. AuthTypeOK'
  BY Zenon DEF ResetRam, AuthTypeOK
<1>2. /\ AcceptBacked'
      /\ OpenerSawClosed'
      /\ CloserDenied'
      /\ PairingAfterStart'
  BY SMT DEF ResetRam, AcceptBacked, OpenerSawClosed, CloserDenied,
             PairingAfterStart, Pairable
<1>3. QED
  BY <1>1, <1>2 DEF AuthInv

(* Forgetting a bond makes room (devkit.cpp:24).                           *)
LEMMA ForgetFits == ASSUME NEW S \in SUBSET Peers, NEW p \in S,
                           Cardinality(S) <= MaxPaired
                    PROVE  Cardinality(S \ {p}) <= MaxPaired
<1>1. IsFiniteSet(S)
  BY FS_Subset
<1>2. Cardinality(S \ {p}) = Cardinality(S) - 1 /\ Cardinality(S) \in Nat
  BY <1>1, FS_RemoveElement, FS_CardinalityType
<1>3. QED
  BY <1>2

(* Storing a bond keeps within the limit: there is room, or the oldest     *)
(* entry goes (prj.conf: BT_KEYS_OVERWRITE_OLDEST).                        *)
LEMMA StoreFits == ASSUME bonds \in SUBSET Peers, NEW p \in Peers,
                          Cardinality(bonds) <= MaxPaired,
                          NEW S \in WithBond(p)
                   PROVE  /\ S \in SUBSET Peers
                          /\ Cardinality(S) <= MaxPaired
                          /\ p \in bonds => S = bonds
<1>1. IsFiniteSet(bonds) /\ Cardinality(bonds) \in Nat
  BY FS_Subset, FS_CardinalityType
<1>2. CASE p \in bonds
  <2>1. S = bonds
    BY <1>2 DEF WithBond
  <2>2. QED
    BY <2>1
<1>3. CASE p \notin bonds /\ Cardinality(bonds) < MaxPaired
  <2>1. S = bonds \cup {p}
    BY <1>3 DEF WithBond
  <2>2. Cardinality(S) = Cardinality(bonds) + 1
    BY <1>1, <1>3, <2>1, FS_AddElement
  <2>3. QED
    BY <1>1, <1>3, <2>1, <2>2
<1>4. CASE p \notin bonds /\ ~(Cardinality(bonds) < MaxPaired)
  <2>1. PICK old \in bonds : S = (bonds \ {old}) \cup {p}
    BY <1>4 DEF WithBond
  <2>2. Cardinality(bonds \ {old}) = Cardinality(bonds) - 1
    BY <1>1, FS_RemoveElement
  <2>3. IsFiniteSet(bonds \ {old}) /\ p \notin bonds \ {old}
    BY <1>1, <1>4, FS_RemoveElement
  <2>4. Cardinality(S) = Cardinality(bonds \ {old}) + 1
    BY <2>1, <2>3, FS_AddElement
  <2>5. QED
    BY <1>1, <1>4, <2>1, <2>2, <2>4
<1>5. QED
  BY <1>2, <1>3, <1>4

-----------------------------------------------------------------------------
(* One lemma per group of actions, one step per action.                    *)

(* Start-up keeps the invariant (main.cpp:14-19, bt.cpp:258-316).          *)
LEMMA StartUpStep == ConnInv /\ StartUp => ConnInv'
<1> SUFFICES ASSUME ConnInv, StartUp
             PROVE  ConnInv'
  OBVIOUS
<1> USE DEF ConnInv, TypeOK, AuthTypeOK, LinkShape, RefBalanced,
            OpenLinkTracked, StartsQuiet, IconKept, StaysReachable,
            DiscoverySecured, SendLenFits, KeysKnown, FilterHolds,
            ErasedStaysErased, BondsFit, AuthInv, AcceptBacked, OpenerSawClosed, CloserDenied,
            PairingAfterStart, Pairable, ConfirmFor, DisplayFor
<1>1. CASE PowerOn
  BY <1>1 DEF PowerOn
<1>2. CASE EnableBt
  BY <1>2 DEF EnableBt, AuthRegister
<1>3. CASE EnableFails
  BY <1>3 DEF EnableFails
<1>4. CASE StartAdvertising
  <2>1. PICK started \in BOOLEAN : /\ advertising' = started
                                  /\ bt_err' = ~started
    BY <1>4 DEF StartAdvertising
  <2>2. advertising' \in BOOLEAN /\ bt_err' \in BOOLEAN
    BY <2>1, Zenon
  <2>3. bt_err' \/ advertising'
    BY <2>1, Zenon
  <2>4. filtered' \in BOOLEAN /\ acceptList' = bonds
    BY <1>4 DEF StartAdvertising, FilterList
  <2>5. QED
    BY <1>4, <2>2, <2>3, <2>4 DEF StartAdvertising
<1>5. CASE InstallCallbacks
  BY <1>5 DEF InstallCallbacks, AuthReady, SetPairableFalse
<1>6. CASE InitDisplay
  BY <1>6 DEF InitDisplay
<1>7. QED
  BY <1>1, <1>2, <1>3, <1>4, <1>5, <1>6 DEF StartUp

(* Connecting, losing and securing a link, discovery and MTU exchanges     *)
(* keep it (bt.cpp:105-126, 167-245).                                      *)
LEMMA LinkStep == ConnInv /\ Link => ConnInv'
<1> SUFFICES ASSUME ConnInv, Link
             PROVE  ConnInv'
  OBVIOUS
<1> USE DEF ConnInv, TypeOK, AuthTypeOK, LinkShape, RefBalanced,
            OpenLinkTracked, StartsQuiet, IconKept, StaysReachable,
            DiscoverySecured, SendLenFits, KeysKnown, FilterHolds,
            ErasedStaysErased, BondsFit, AuthInv, AcceptBacked, OpenerSawClosed, CloserDenied,
            PairingAfterStart, Pairable, ConfirmFor, DisplayFor
<1> USE DEF RxMayRun
<1>1. ASSUME NEW p \in Peers, Connect(p)
      PROVE  ConnInv'
  <2>1. PICK request \in {"none", "pending"} :
          \/ /\ conn' = NewConn(p, request)
             /\ connected' = TRUE
             /\ SetIcon("shown")
          \/ /\ conn' = [NewConn(p, request) EXCEPT !.link = "closing"]
             /\ connected' = FALSE
             /\ UNCHANGED icon
    BY <1>1, Zenon DEF Connect, Closing
  <2>2. conn = NoConn /\ smp = "none" /\ refs = 0 /\ icon = "hidden"
    BY <1>1 DEF Connect
  <2>3. /\ refs' = 1 /\ current' = p /\ send_len' = 20
        /\ advertising' = FALSE /\ phase = "running"
        /\ UNCHANGED <<authVars, phase, bondVars, acceptList, filtered,
                       bt_err, dm, led, blink, workVars>>
    BY <1>1, <2>2 DEF Connect, FirstSendLen
  <2>4. filtered => p \in acceptList
    BY <1>1 DEF Connect, MayConnect
  <2>5. /\ conn' \in [link : {"down", "up", "closing"},
                      peer : Peers \cup {NoPeer}, level : {1, 2},
                      mtu : Nat, exchange : {"none", "pending"}]
        /\ conn'.link # "down" /\ conn'.peer = p /\ conn'.mtu = 23
    BY <2>1 DEF NewConn
  <2>6. \/ conn'.link = "up" /\ connected' = TRUE /\ icon' = "shown"
        \/ conn'.link = "closing" /\ connected' = FALSE /\ icon' = "hidden"
    BY <2>1, <2>2, <2>3 DEF NewConn, SetIcon
  <2>7. connected' \in BOOLEAN /\ advertising' \in BOOLEAN
    BY <2>3, <2>6, Zenon
  <2>8. OpenLinkTracked' /\ IconKept'
    BY <2>3, <2>6
  <2>9. ~bt_err /\ keys = bonds
    BY <1>1 DEF Connect
  <2>10. KeysKnown' /\ FilterHolds'
    BY <2>3, <2>4, <2>5, <2>9
  <2>11. QED
    BY <2>2, <2>3, <2>4, <2>5, <2>6, <2>7, <2>8, <2>10
<1>2. CASE ConnectError
  <2>1. connected' = FALSE /\ connected = FALSE
    BY <1>2 DEF ConnectError
  <2>2. connected' \in BOOLEAN
    BY <2>1, Zenon
  <2>3. QED
    BY <1>2, <2>1, <2>2 DEF ConnectError
<1>3. CASE Disconnect
  <2>1. refs' = 0 /\ current' = NoPeer /\ icon' = "hidden"
    BY <1>3 DEF Disconnect, DropRef, SetIcon
  <2>2. advertising' /\ ~connected'
    BY <1>3, <2>1 DEF Disconnect
  <2>3. advertising' \in BOOLEAN /\ connected' \in BOOLEAN
    BY <1>3, Zenon DEF Disconnect
  <2>4. QED
    BY <1>3, <2>1, <2>2, <2>3 DEF Disconnect
<1>4. CASE Encrypt
  BY <1>4 DEF Encrypt, StartDiscovery
<1>5. CASE EncryptFails
  BY <1>5 DEF EncryptFails, Closing
<1>6. CASE DiscoveryEnds
  BY <1>6 DEF DiscoveryEnds
<1>7. CASE MtuExchanged
  <2>1. conn.link # "down"
    <3>1. conn.exchange = "pending"
      BY <1>7 DEF MtuExchanged
    <3>2. QED
      BY <3>1
  <2>2. CASE /\ conn' = [conn EXCEPT !.exchange = "none"]
             /\ UNCHANGED send_len
    BY <1>7, <2>1, <2>2 DEF MtuExchanged
  <2>3. ASSUME NEW m \in Mtus, m >= conn.mtu,
               conn' = [conn EXCEPT !.mtu = m, !.exchange = "none"],
               send_len' = m - 3
        PROVE  ConnInv'
    <3>1. /\ conn'.link = conn.link /\ conn'.peer = conn.peer
          /\ conn'.level = conn.level /\ conn'.mtu = m
          /\ conn' \in [link : {"down", "up", "closing"},
                        peer : Peers \cup {NoPeer}, level : {1, 2},
                        mtu : Nat, exchange : {"none", "pending"}]
      BY <2>3
    <3>2. m \in Nat /\ m >= 23 /\ send_len' \in Nat /\ send_len' <= m - 3
      BY <2>3
    <3>3. UNCHANGED <<authVars, phase, bondVars, advVars, refs, current,
                      connected, dm, uiVars, workVars>>
      BY <1>7 DEF MtuExchanged
    <3>4. QED
      BY <2>1, <3>1, <3>2, <3>3
  <2>4. QED
    BY <1>7, <2>2, <2>3 DEF MtuExchanged
<1>8. ASSUME NEW m \in Mtus, PeerExchangesMtu(m)
      PROVE  ConnInv'
  BY <1>8 DEF PeerExchangesMtu
<1>9. QED
  BY <1>1, <1>2, <1>3, <1>4, <1>5, <1>6, <1>7, <1>8 DEF Link

(* A pairing, its end and the bond it leaves keep it                       *)
(* (auth.cpp:65-89, bt.cpp:225-245).                                       *)
LEMMA PairingStep == ConnInv /\ Pairing => ConnInv'
<1> SUFFICES ASSUME ConnInv, Pairing
             PROVE  ConnInv'
  OBVIOUS
<1> USE DEF ConnInv, TypeOK, AuthTypeOK, LinkShape, RefBalanced,
            OpenLinkTracked, StartsQuiet, IconKept, StaysReachable,
            DiscoverySecured, SendLenFits, KeysKnown, FilterHolds,
            ErasedStaysErased, BondsFit, AuthInv, AcceptBacked, OpenerSawClosed, CloserDenied,
            PairingAfterStart, Pairable, ConfirmFor, DisplayFor
<1> USE DEF RxMayRun
<1>1. ASSUME NEW keyboard \in BOOLEAN, Pair(keyboard)
      PROVE  ConnInv'
  BY <1>1 DEF Pair, PairingRequest
<1>2. CASE PairEncrypted
  BY <1>2 DEF PairEncrypted, PairingEncrypted, StartDiscovery
<1>3. CASE PairComplete
  <2>1. conn.peer \in Peers /\ keys = bonds /\ ~bt_err
    BY <1>3 DEF PairComplete, PairingComplete
  <2>2. /\ bonds' \in SUBSET Peers
        /\ Cardinality(bonds') <= MaxPaired
        /\ conn.peer \in bonds => bonds' = bonds
        /\ keys' = bonds'
    <3>1. CASE bonds' \in WithBond(conn.peer) /\ keys' = bonds'
      BY <2>1, <3>1, StoreFits
    <3>2. CASE UNCHANGED bondVars
      BY <2>1, <3>2
    <3>3. QED
      BY <1>3, <3>1, <3>2 DEF PairComplete
  <2>3. FilterHolds'
    BY <1>3, <2>1, <2>2 DEF PairComplete, PairingComplete
  <2>4. QED
    BY <1>3, <2>1, <2>2, <2>3 DEF PairComplete, PairingComplete,
                                  SetPairableFalse
<1>4. CASE PairFails
  BY <1>4 DEF PairFails, PairingFailed, Closing
<1>5. QED
  BY <1>1, <1>2, <1>3, <1>4 DEF Pairing

(* The buttons keep it; button 1 by what Auth's proof says of it           *)
(* (devkit.cpp:40-68).                                                     *)
LEMMA ButtonsStep == ConnInv /\ Buttons => ConnInv'
<1> SUFFICES ASSUME ConnInv, Buttons
             PROVE  ConnInv'
  OBVIOUS
<1>1. CASE Button1
  <2>1. AuthInv'
    <3>1. AuthInv /\ [AuthNext]_authVars
      BY <1>1 DEF ConnInv, Button1, AuthNext
    <3>2. QED
      BY <3>1, NextInv
  <2>2. auth_boot' = auth_boot /\ smp' = smp /\ UNCHANGED connVars
    BY <1>1 DEF Button1, ButtonStep, ButtonRead, ButtonConfirm,
                ButtonDisplay, ButtonRegister
  <2>3. AuthTypeOK'
    BY <2>1 DEF AuthInv
  <2>4. TypeOK' /\ BondsFit'
    BY <2>2, <2>3 DEF ConnInv, TypeOK, BondsFit
  <2>5. QED
    BY <2>1, <2>2, <2>4 DEF ConnInv, LinkShape, RefBalanced, OpenLinkTracked,
       StartsQuiet, IconKept, StaysReachable, DiscoverySecured, SendLenFits,
       KeysKnown, FilterHolds, ErasedStaysErased
<1> USE DEF ConnInv, TypeOK, AuthTypeOK, LinkShape, RefBalanced,
            OpenLinkTracked, StartsQuiet, IconKept, StaysReachable,
            DiscoverySecured, SendLenFits, KeysKnown, FilterHolds,
            ErasedStaysErased, BondsFit, AuthInv, AcceptBacked, OpenerSawClosed, CloserDenied,
            PairingAfterStart, Pairable, ConfirmFor, DisplayFor
<1>2. CASE Button3
  BY <1>2 DEF Button3
<1>3. CASE Button4
  BY <1>3 DEF Button4
<1>4. QED
  BY <1>1, <1>2, <1>3 DEF Buttons

(* The works of the buttons and of the LED keep it (devkit.cpp:19-38,      *)
(* 87-100).                                                                *)
LEMMA WorksStep == ConnInv /\ Works /\ ~Reboot => ConnInv'
<1> SUFFICES ASSUME ConnInv, Works, ~Reboot
             PROVE  ConnInv'
  OBVIOUS
<1> USE DEF ConnInv, TypeOK, AuthTypeOK, LinkShape, RefBalanced,
            OpenLinkTracked, StartsQuiet, IconKept, StaysReachable,
            DiscoverySecured, SendLenFits, KeysKnown, FilterHolds,
            ErasedStaysErased, BondsFit, AuthInv, AcceptBacked, OpenerSawClosed, CloserDenied,
            PairingAfterStart, Pairable, ConfirmFor, DisplayFor
<1>1. CASE Blink
  BY <1>1 DEF Blink
<1>2. CASE RunUnregister
  <2>1. advertising' \in BOOLEAN /\ unregister_work' \in BOOLEAN
    BY <1>2, Zenon DEF RunUnregister
  <2>2. QED
    BY <1>2, <2>1 DEF RunUnregister
<1>3. ASSUME NEW p \in Peers, Unpair(p)
      PROVE  ConnInv'
  <2>1. Cardinality(bonds') <= MaxPaired
    BY <1>3, ForgetFits DEF Unpair
  <2>2. conn' = conn \/ conn' = [conn EXCEPT !.link = "closing"]
    BY <1>3 DEF Unpair, Closing
  <2>3. conn.peer # p => conn' = conn
    BY <1>3 DEF Unpair
  <2>4. conn.link = "down" => conn' = conn
    BY <1>3, <2>3
  <2>5. QED
    BY <1>3, <2>1, <2>2, <2>4 DEF Unpair
<1>4. CASE Unpaired
  BY <1>4 DEF Unpaired
<1>5. CASE RunReset
  <2>1. advertising' \in BOOLEAN /\ reset_work' \in BOOLEAN
    BY <1>5, Zenon DEF RunReset
  <2>2. QED
    BY <1>5, <2>1 DEF RunReset
<1>6. QED
  BY <1>1, <1>2, <1>3, <1>4, <1>5 DEF Works

(* A restart, wanted or not, comes back to the invariant with the bonds    *)
(* that are in flash.                                                      *)
LEMMA RestartStep == ASSUME ConnInv, ResetRam, phase' = "off", UNCHANGED bonds
                     PROVE  ConnInv'
<1>1. AuthInv'
  BY ResetAuth
<1>2. TypeOK'
  <2>1. AuthTypeOK'
    BY <1>1 DEF AuthInv
  <2>2. /\ filtered' \in BOOLEAN /\ advertising' \in BOOLEAN
        /\ bt_err' \in BOOLEAN /\ connected' \in BOOLEAN
        /\ led' \in BOOLEAN /\ blink' \in BOOLEAN
        /\ unregister_work' \in BOOLEAN /\ reset_work' \in BOOLEAN
    BY Zenon DEF ResetRam
  <2>3. /\ acceptList' \subseteq Peers /\ bonds' \subseteq Peers
        /\ keys' \subseteq Peers
        /\ refs' \in Nat /\ send_len' \in Nat
        /\ current' \in Peers \cup {NoPeer}
        /\ dm' = "idle" /\ icon' = "none" /\ phase' = "off"
    BY DEF ResetRam, ConnInv, TypeOK
  <2>4. conn' \in [link : {"down", "up", "closing"},
                   peer : Peers \cup {NoPeer}, level : {1, 2},
                   mtu : Nat, exchange : {"none", "pending"}]
    BY DEF ResetRam
  <2>5. QED
    BY <2>1, <2>2, <2>3, <2>4 DEF TypeOK
<1>3. BondsFit' /\ LinkShape' /\ RefBalanced' /\ OpenLinkTracked'
  BY DEF ResetRam, ConnInv, BondsFit, LinkShape, RefBalanced, OpenLinkTracked
<1>4. StartsQuiet' /\ IconKept' /\ StaysReachable' /\ KeysKnown' /\ FilterHolds'
  BY DEF ResetRam, StartsQuiet, IconKept, StaysReachable, KeysKnown, FilterHolds
<1>5. DiscoverySecured' /\ SendLenFits' /\ ErasedStaysErased'
  BY DEF ResetRam, DiscoverySecured, SendLenFits, ErasedStaysErased
<1>6. QED
  BY <1>1, <1>2, <1>3, <1>4, <1>5 DEF ConnInv

-----------------------------------------------------------------------------
(* No bond is there when the watch leaves the factory.                     *)
LEMMA InitConn == Init => ConnInv
<1> SUFFICES ASSUME Init
             PROVE  ConnInv
  OBVIOUS
<1>1. AuthInv
  BY InitInv DEF Init, RamInit
<1>2. TypeOK
  BY <1>1 DEF Init, RamInit, TypeOK, AuthInv
<1>3. BondsFit
  BY FS_EmptySet DEF Init, BondsFit
<1>4. LinkShape /\ RefBalanced /\ OpenLinkTracked /\ StartsQuiet
  BY DEF Init, RamInit, AuthInit, LinkShape, RefBalanced, OpenLinkTracked,
         StartsQuiet
<1>5. IconKept /\ StaysReachable /\ KeysKnown /\ FilterHolds
  BY DEF Init, RamInit, IconKept, StaysReachable, KeysKnown, FilterHolds
<1>6. DiscoverySecured /\ SendLenFits /\ ErasedStaysErased
  BY DEF Init, RamInit, DiscoverySecured, SendLenFits, ErasedStaysErased
<1>7. QED
  BY <1>1, <1>2, <1>3, <1>4, <1>5, <1>6 DEF ConnInv

(* Every step of the work queue, the input thread, the radio and the power *)
(* supply keeps the invariant.                                             *)
LEMMA NextConn == ConnInv /\ [Next]_vars => ConnInv'
<1> SUFFICES ASSUME ConnInv, [Next]_vars
             PROVE  ConnInv'
  OBVIOUS
<1>1. CASE StartUp
  BY <1>1, StartUpStep
<1>2. CASE Link
  BY <1>2, LinkStep
<1>3. CASE Pairing
  BY <1>3, PairingStep
<1>4. CASE Buttons
  BY <1>4, ButtonsStep
<1>5. CASE Works /\ ~Reboot
  BY <1>5, WorksStep
<1>6. CASE Reboot
  BY <1>6, RestartStep DEF Reboot
<1>7. CASE PowerLoss
  BY <1>7, RestartStep DEF PowerLoss
<1>8. CASE UNCHANGED vars
  BY <1>8 DEF ConnInv, TypeOK, AuthTypeOK, LinkShape, RefBalanced,
     OpenLinkTracked, StartsQuiet, IconKept, StaysReachable, DiscoverySecured,
     SendLenFits, KeysKnown, FilterHolds, ErasedStaysErased, BondsFit, AuthInv,
     AcceptBacked, OpenerSawClosed, CloserDenied, PairingAfterStart, Pairable
<1>9. QED
  BY <1>1, <1>2, <1>3, <1>4, <1>5, <1>6, <1>7, <1>8 DEF Next

(* The invariant of the connection life cycle holds in every reachable     *)
(* state, over any number of restarts.                                     *)
THEOREM ConnInvariant == Spec => []ConnInv
<1>1. Init => ConnInv
  BY InitConn
<1>2. ConnInv /\ [Next]_vars => ConnInv'
  BY NextConn
<1>3. QED
  BY <1>1, <1>2, PTL DEF Spec

(* One reference on the connection there is, none on one that ended        *)
(* (bt.cpp:175, 211-215).                                                  *)
THEOREM RefsBalanced == Spec => []RefBalanced
<1>1. ConnInv => RefBalanced
  BY DEF ConnInv
<1>2. QED
  BY <1>1, ConnInvariant, PTL

(* A watch that came up advertises or has a connection                     *)
(* (bt.cpp:167-223, 309).                                                  *)
THEOREM AlwaysReachable == Spec => []Reachable
<1>1. ConnInv => Reachable
  BY DEF ConnInv, StaysReachable, Reachable
<1>2. QED
  BY <1>1, ConnInvariant, PTL

(* No connection that was refused stays open (bt.cpp:183-202).             *)
THEOREM NoUntrackedLink == Spec => []OpenLinkTracked
<1>1. ConnInv => OpenLinkTracked
  BY DEF ConnInv
<1>2. QED
  BY <1>1, ConnInvariant, PTL

(* The icon and _connected agree between works, and no callback needs an   *)
(* icon that is not there yet (bluetooth.cpp:58-66, main.cpp:14-19).       *)
THEOREM IconRight == Spec => [](IconMatches /\ NoUiFault)
<1>1. ConnInv => IconMatches /\ NoUiFault
  BY DEF ConnInv, TypeOK, StartsQuiet, IconKept, IconMatches, NoUiFault
<1>2. QED
  BY <1>1, ConnInvariant, PTL

(* Discovery runs on secured connections only (bt.cpp:239-243).            *)
THEOREM OnlySecuredDiscovery == Spec => []DiscoverySecured
<1>1. ConnInv => DiscoverySecured
  BY DEF ConnInv
<1>2. QED
  BY <1>1, ConnInvariant, PTL

(* max_send_len fits the connection's MTU (bt.cpp:105-116, 179).           *)
THEOREM SendsFit == Spec => []SendLenFits
<1>1. ConnInv => SendLenFits
  BY DEF ConnInv
<1>2. QED
  BY <1>1, ConnInvariant, PTL

(* The filter list is the bonds while the filter is on (bt.cpp:296-307).   *)
THEOREM FilterIsFresh == Spec => []FilterFresh
<1>1. ConnInv => FilterFresh
  BY DEF ConnInv, FilterHolds, FilterFresh
<1>2. QED
  BY <1>1, ConnInvariant, PTL

(* A session that filters keeps the bonds it started with                  *)
(* (bt.cpp:300-307): only a pairing changes them, and behind the filter it *)
(* is with a phone that has a bond already.                                *)
THEOREM FilterKeepsBonds == Spec => FilteredKeepsBonds
<1>1. ConnInv /\ [Next]_vars
        => [phase = "running" /\ filtered => bonds' = bonds]_vars
  <2> SUFFICES ASSUME ConnInv, [Next]_vars, phase = "running", filtered
               PROVE  bonds' = bonds
    OBVIOUS
  <2>1. CASE PairComplete
    <3>1. conn.peer \in bonds
      BY <2>1 DEF PairComplete, PairingComplete, ConnInv, LinkShape,
                  FilterHolds
    <3>2. bonds' \in WithBond(conn.peer) \/ bonds' = bonds
      BY <2>1 DEF PairComplete
    <3>3. QED
      BY <3>1, <3>2 DEF WithBond
  <2>2. CASE StartUp
    BY <2>2 DEF StartUp, PowerOn, EnableBt, EnableFails, StartAdvertising,
                InstallCallbacks, InitDisplay
  <2>3. CASE Link
    BY <2>3 DEF Link, Connect, ConnectError, Disconnect, Encrypt,
                EncryptFails, DiscoveryEnds, MtuExchanged, PeerExchangesMtu
  <2>4. CASE Pairing /\ ~PairComplete
    BY <2>4 DEF Pairing, Pair, PairEncrypted, PairFails
  <2>5. CASE Buttons
    BY <2>5 DEF Buttons, Button1, Button3, Button4
  <2>6. CASE Works
    BY <2>6 DEF Works, Blink, RunUnregister, Unpair, Unpaired, RunReset,
                Reboot
  <2>7. CASE PowerLoss \/ UNCHANGED vars
    BY <2>7 DEF PowerLoss
  <2>8. QED
    BY <2>1, <2>2, <2>3, <2>4, <2>5, <2>6, <2>7 DEF Next
<1>2. QED
  BY <1>1, ConnInvariant, PTL DEF Spec, FilteredKeepsBonds

(* One window, one bond: only a completed pairing adds a bond, and it      *)
(* closes the window in the same step (auth.cpp:65-68).                    *)
THEOREM OneBondPerWindow == Spec => WindowClosesWithBond
<1>1. ConnInv /\ [Next]_vars => [bonds' \subseteq bonds \/ ~Pairable']_vars
  <2> SUFFICES ASSUME [Next]_vars
               PROVE  bonds' \subseteq bonds \/ ~Pairable'
    OBVIOUS
  <2>1. CASE PairComplete
    BY <2>1 DEF PairComplete, PairingComplete, SetPairableFalse, ConfirmFor,
                Pairable
  <2>2. CASE \E p \in Peers : Unpair(p)
    BY <2>2 DEF Unpair
  <2>3. CASE Next /\ ~PairComplete /\ ~\E p \in Peers : Unpair(p)
    <3>1. UNCHANGED bonds
      BY <2>3 DEF Next, StartUp, Link, Pairing, Buttons, Works, PowerOn,
                  EnableBt, EnableFails, StartAdvertising, InstallCallbacks,
                  InitDisplay, Connect, ConnectError, Disconnect, Encrypt,
                  EncryptFails, DiscoveryEnds, MtuExchanged, PeerExchangesMtu,
                  Pair, PairEncrypted, PairFails, Button1, Button3, Button4,
                  Blink, RunUnregister, Unpaired, RunReset, Reboot, PowerLoss,
                  connVars
    <3> QED BY <3>1
  <2>4. CASE UNCHANGED vars
    BY <2>4 DEF vars, connVars
  <2> QED BY <2>1, <2>2, <2>3, <2>4
<1> QED BY <1>1, ConnInvariant, PTL DEF Spec, WindowClosesWithBond

-----------------------------------------------------------------------------
(* The connection implements WatchLink.                                    *)

(* A pairing that has encrypted has secured the connection                 *)
(* (bt.cpp:236-245), which the bond at its end needs.                      *)
EncryptedSecured == smp = "encrypted" => conn.level = 2
LinkInv == ConnInv /\ EncryptedSecured

LEMMA SecuredStep == LinkInv /\ [Next]_vars => EncryptedSecured'
<1> SUFFICES ASSUME LinkInv, [Next]_vars
             PROVE  EncryptedSecured'
  OBVIOUS
<1> USE DEF LinkInv, EncryptedSecured
<1>1. CASE StartUp
  BY <1>1 DEF StartUp, PowerOn, EnableBt, EnableFails, StartAdvertising,
              InstallCallbacks, InitDisplay, AuthRegister, AuthReady
<1>2. CASE Link
  <2>1. CASE \E p \in Peers : Connect(p)
    BY <2>1 DEF Connect, ConnInv, LinkShape
  <2>2. CASE Disconnect \/ ConnectError \/ DiscoveryEnds
    BY <2>2 DEF Disconnect, ConnectError, DiscoveryEnds
  <2>3. CASE Encrypt
    BY <2>3 DEF Encrypt
  <2>4. CASE EncryptFails
    <3>1. conn'.level = conn.level
      BY <2>4 DEF EncryptFails, Closing, ConnInv, TypeOK
    <3>2. QED
      BY <2>4, <3>1 DEF EncryptFails
  <2>5. CASE MtuExchanged
    BY <2>5 DEF MtuExchanged, ConnInv, TypeOK
  <2>6. CASE \E m \in Mtus : PeerExchangesMtu(m)
    BY <2>6 DEF PeerExchangesMtu, ConnInv, TypeOK
  <2>7. QED
    BY <1>2, <2>1, <2>2, <2>3, <2>4, <2>5, <2>6 DEF Link
<1>3. CASE Pairing
  <2>1. CASE PairEncrypted
    <3>1. conn'.level = 2
      BY <2>1 DEF PairEncrypted, ConnInv, TypeOK
    <3>2. QED
      BY <3>1
  <2>2. CASE Pairing /\ ~PairEncrypted
    BY <2>2 DEF Pairing, Pair, PairingRequest, PairComplete, PairingComplete,
                PairFails, PairingFailed
  <2>3. QED
    BY <1>3, <2>1, <2>2
<1>4. CASE Buttons
  BY <1>4 DEF Buttons, Button1, Button3, Button4, ButtonStep, ButtonRead,
              ButtonConfirm, ButtonDisplay, ButtonRegister
<1>5. CASE Works /\ ~Reboot
  <2>1. conn'.level = conn.level
    BY <1>5 DEF Works, Blink, RunUnregister, Unpair, Closing, Unpaired,
                RunReset, ConnInv, TypeOK
  <2>2. smp' = smp
    BY <1>5 DEF Works, Blink, RunUnregister, Unpair, Unpaired, RunReset
  <2>3. QED
    BY <2>1, <2>2
<1>6. CASE Reboot \/ PowerLoss
  BY <1>6 DEF Reboot, PowerLoss, ResetRam
<1>7. CASE UNCHANGED vars
  BY <1>7
<1>8. QED
  BY <1>1, <1>2, <1>3, <1>4, <1>5, <1>6, <1>7 DEF Next, Works

(* Every step of the watch is a step of WatchLink or changes nothing of    *)
(* it, group by group.                                                     *)
LEMMA StartUpWatch == LinkInv /\ StartUp => [Watch!Next]_(Watch!vars)
<1> SUFFICES ASSUME LinkInv, StartUp
             PROVE  [Watch!Next]_(Watch!vars)
  OBVIOUS
<1> USE DEF LinkInv, ConnInv, TypeOK, StartsQuiet, Watch!vars
<1>1. CASE PowerOn \/ EnableBt \/ EnableFails
  <2>1. Pairable' = Pairable
    BY <1>1 DEF PowerOn, EnableBt, EnableFails, AuthRegister, Pairable
  <2>2. UNCHANGED <<conn, icon, filtered, bonds, advertising>>
    BY <1>1 DEF PowerOn, EnableBt, EnableFails
  <2>3. phase \in Starting /\ phase' \in Starting
    BY <1>1 DEF PowerOn, EnableBt, EnableFails
  <2>4. QED
    BY <2>1, <2>2, <2>3
<1>2. CASE StartAdvertising
  <2>1. /\ UNCHANGED <<conn, icon, bonds>>
        /\ Pairable' = Pairable
        /\ phase \in Starting /\ phase' \in Starting
        /\ conn.link = "down"
    BY <1>2 DEF StartAdvertising, Pairable
  <2>2. ~advertising /\ ~filtered
    BY <1>2 DEF StartAdvertising
  <2>3. CASE advertising'
    <3>1. filtered' = (keys # {})
      BY <1>2, <2>3, Zenon DEF StartAdvertising
    <3>2. Watch!Advertise
      BY <1>2, <2>1, <2>2, <2>3, <3>1 DEF StartAdvertising, KeysKnown,
                                          Watch!Advertise
    <3>3. QED
      BY <3>2 DEF Watch!Next
  <2>4. CASE ~advertising'
    <3>1. PICK started \in BOOLEAN : /\ advertising' = started
                                    /\ filtered' = (started /\ keys # {})
      BY <1>2, Zenon DEF StartAdvertising
    <3>2. ~started
      BY <2>4, <3>1, Zenon
    <3>3. filtered' = FALSE /\ filtered = FALSE
      <4>1. filtered' = FALSE
        BY <3>1, <3>2
      <4>2. filtered \in BOOLEAN
        BY DEF TypeOK
      <4>3. QED
        BY <2>2, <4>1, <4>2, Zenon
    <3>4. QED
      BY <2>1, <2>2, <2>4, <3>3
  <2>5. QED
    BY <2>3, <2>4
<1>3. CASE InstallCallbacks
  <2>1. Watch!MoveWindow
    BY <1>3 DEF InstallCallbacks, Pairable, Watch!MoveWindow
  <2>2. QED
    BY <2>1 DEF Watch!Next
<1>4. CASE InitDisplay
  <2>1. Watch!Serve
    BY <1>4 DEF InitDisplay, Pairable, Watch!Serve
  <2>2. QED
    BY <2>1 DEF Watch!Next
<1>5. QED
  BY <1>1, <1>2, <1>3, <1>4 DEF StartUp

LEMMA LinkWatch == LinkInv /\ Link => [Watch!Next]_(Watch!vars)
<1> SUFFICES ASSUME LinkInv, Link
             PROVE  [Watch!Next]_(Watch!vars)
  OBVIOUS
<1> USE DEF LinkInv, ConnInv, TypeOK, LinkShape, RefBalanced, StartsQuiet,
            IconKept, KeysKnown, FilterHolds, RxMayRun, Watch!vars, Watch!HasPeer
<1>1. ASSUME NEW p \in Peers, Connect(p)
      PROVE  [Watch!Next]_(Watch!vars)
  <2>1. /\ phase = "running" /\ phase' = phase
        /\ conn.link = "down" /\ conn.level = 1 /\ advertising
        /\ icon = "hidden" /\ auth_boot = "ready"
        /\ filtered => p \in bonds
        /\ keys = bonds
        /\ UNCHANGED <<bonds, filtered>>
    BY <1>1 DEF Connect, MayConnect
  <2>2. Pairable' = Pairable
    BY <1>1 DEF Connect, Pairable
  <2>3. PICK request \in {"none", "pending"} :
          \/ /\ Pairable \/ p \in keys
             /\ conn' = NewConn(p, request)
             /\ SetIcon("shown")
          \/ /\ conn' = [NewConn(p, request) EXCEPT !.link = "closing"]
             /\ UNCHANGED icon
    BY <1>1, Zenon DEF Connect, Closing
  <2>4. CASE /\ Pairable \/ p \in keys
             /\ conn' = NewConn(p, request)
             /\ SetIcon("shown")
    <3>1. conn'.link = "up" /\ conn'.peer = p /\ conn'.level = 1
      BY <2>4 DEF NewConn
    <3>2. icon' = "shown"
      BY <2>1, <2>4 DEF SetIcon
    <3>3. Watch!Admit(p)
      BY <2>1, <2>2, <2>4, <3>1, <3>2 DEF Watch!Admit, Watch!Meet
    <3>4. QED
      BY <3>3 DEF Watch!Next
  <2>5. CASE /\ conn' = [NewConn(p, request) EXCEPT !.link = "closing"]
             /\ UNCHANGED icon
    <3>1. conn'.link = "closing" /\ conn'.peer = p /\ conn'.level = 1
      BY <2>5 DEF NewConn
    <3>2. Watch!Refuse(p)
      BY <2>1, <2>2, <2>5, <3>1 DEF Watch!Refuse, Watch!Meet
    <3>3. QED
      BY <3>2 DEF Watch!Next
  <2>6. QED
    BY <2>3, <2>4, <2>5
<1>2. CASE ConnectError \/ DiscoveryEnds
  BY <1>2 DEF ConnectError, DiscoveryEnds, Pairable
<1>3. CASE Disconnect
  <2>1. refs' = 0 /\ icon' = "hidden"
    BY <1>3 DEF Disconnect, DropRef, SetIcon
  <2>2. advertising'
    BY <1>3, <2>1 DEF Disconnect
  <2>3. Watch!End
    BY <1>3, <2>1, <2>2 DEF Disconnect, Pairable, Watch!End
  <2>4. QED
    BY <2>3 DEF Watch!Next
<1>4. CASE Encrypt
  <2>1. /\ conn'.link = conn.link /\ conn'.peer = conn.peer
        /\ conn'.level = 2 /\ conn.level = 1 /\ conn.link # "down"
    BY <1>4 DEF Encrypt
  <2>2. Watch!Secure
    BY <1>4, <2>1 DEF Encrypt, Pairable, Watch!Secure
  <2>3. QED
    BY <2>2 DEF Watch!Next
<1>5. CASE EncryptFails
  <2>1. /\ conn'.link = "closing" /\ conn'.peer = conn.peer
        /\ conn'.level = conn.level /\ conn.link # "down"
    BY <1>5 DEF EncryptFails, Closing
  <2>2. Watch!Drop
    BY <1>5, <2>1 DEF EncryptFails, Pairable, Watch!Drop
  <2>3. QED
    BY <2>2 DEF Watch!Next
<1>6. CASE MtuExchanged \/ \E m \in Mtus : PeerExchangesMtu(m)
  <2>1. /\ conn'.link = conn.link /\ conn'.peer = conn.peer
        /\ conn'.level = conn.level
    BY <1>6 DEF MtuExchanged, PeerExchangesMtu
  <2>2. /\ UNCHANGED <<phase, advertising, icon, filtered, bonds>>
        /\ Pairable' = Pairable
    BY <1>6 DEF MtuExchanged, PeerExchangesMtu, Pairable
  <2>3. QED
    BY <2>1, <2>2
<1>7. QED
  BY <1>1, <1>2, <1>3, <1>4, <1>5, <1>6 DEF Link

LEMMA PairingWatch == LinkInv /\ Pairing => [Watch!Next]_(Watch!vars)
<1> SUFFICES ASSUME LinkInv, Pairing
             PROVE  [Watch!Next]_(Watch!vars)
  OBVIOUS
<1> USE DEF LinkInv, ConnInv, TypeOK, LinkShape, RxMayRun, Watch!vars,
            Watch!HasPeer
<1>1. ASSUME NEW keyboard \in BOOLEAN, Pair(keyboard)
      PROVE  [Watch!Next]_(Watch!vars)
  BY <1>1 DEF Pair, PairingRequest, Pairable
<1>2. CASE PairEncrypted
  <2>1. /\ conn'.link = conn.link /\ conn'.peer = conn.peer
        /\ conn'.level = 2 /\ conn.link # "down"
    BY <1>2 DEF PairEncrypted, PairingEncrypted
  <2>2. Pairable' = Pairable /\ UNCHANGED <<phase, icon, filtered, bonds>>
    BY <1>2 DEF PairEncrypted, PairingEncrypted, Pairable
  <2>3. CASE conn.level = 1
    BY <1>2, <2>1, <2>2, <2>3 DEF PairEncrypted, Watch!Secure, Watch!Next
  <2>4. CASE conn.level = 2
    BY <2>1, <2>2, <2>4, <1>2 DEF PairEncrypted
  <2>5. QED
    BY <2>3, <2>4
<1>3. CASE PairComplete
  <2>1. /\ conn.link # "down" /\ conn.peer \in Peers /\ conn.level = 2
        /\ phase = "running"
        /\ UNCHANGED <<phase, conn, advertising, icon, filtered>>
    BY <1>3 DEF PairComplete, PairingComplete, EncryptedSecured
  <2>2. ~Pairable'
    BY <1>3 DEF PairComplete, PairingComplete, SetPairableFalse, ConfirmFor,
                Pairable
  <2>3. CASE bonds' \in WithBond(conn.peer)
    <3>1. /\ bonds' \subseteq bonds \cup {conn.peer}
          /\ conn.peer \in bonds'
      BY <2>1, <2>3 DEF WithBond
    <3>2. conn.peer \in bonds => bonds' = bonds
      BY <2>1, <2>3 DEF WithBond
    <3>3. filtered => conn.peer \in bonds
      BY <2>1 DEF FilterHolds
    <3>4. Watch!Bond
      BY <2>1, <2>2, <3>1, <3>2, <3>3 DEF Watch!Bond
    <3>5. QED
      BY <3>4 DEF Watch!Next
  <2>4. CASE bonds' = bonds
    <3>1. Pairable' \in BOOLEAN
      BY Zenon DEF Pairable
    <3>2. Watch!MoveWindow
      BY <2>1, <2>4, <3>1 DEF Watch!MoveWindow
    <3>3. QED
      BY <3>2 DEF Watch!Next
  <2>5. QED
    BY <1>3, <2>3, <2>4 DEF PairComplete
<1>4. CASE PairFails
  <2>1. /\ conn'.link = "closing" /\ conn'.peer = conn.peer
        /\ conn'.level = conn.level /\ conn.link # "down"
    BY <1>4 DEF PairFails, PairingFailed, Closing
  <2>2. Watch!Drop
    BY <1>4, <2>1 DEF PairFails, PairingFailed, Pairable, Watch!Drop
  <2>3. QED
    BY <2>2 DEF Watch!Next
<1>5. QED
  BY <1>1, <1>2, <1>3, <1>4 DEF Pairing

LEMMA WorksWatch == LinkInv /\ (Buttons \/ Works \/ PowerLoss)
                      => [Watch!Next]_(Watch!vars)
<1> SUFFICES ASSUME LinkInv, Buttons \/ Works \/ PowerLoss
             PROVE  [Watch!Next]_(Watch!vars)
  OBVIOUS
<1> USE DEF LinkInv, ConnInv, TypeOK, LinkShape, StartsQuiet, Watch!vars,
            Watch!HasPeer
<1>1. CASE Button1
  <2>1. UNCHANGED <<phase, conn, advertising, icon, filtered, bonds>>
    BY <1>1 DEF Button1
  <2>2. Pairable' \in BOOLEAN
    BY Zenon DEF Pairable
  <2>3. Watch!MoveWindow
    BY <2>1, <2>2 DEF Watch!MoveWindow
  <2>4. QED
    BY <2>3 DEF Watch!Next
<1>2. CASE Button3 \/ Button4 \/ Blink
  <2>1. UNCHANGED <<phase, conn, advertising, icon, filtered, bonds>>
    BY <1>2 DEF Button3, Button4, Blink
  <2>2. Pairable' = Pairable
    BY <1>2 DEF Button3, Button4, Blink, Pairable
  <2>3. QED
    BY <2>1, <2>2
<1>3. CASE RunUnregister \/ RunReset
  <2>1. /\ phase = "running" /\ phase' \in {"unpair", "reset"}
        /\ ~advertising'
        /\ UNCHANGED <<conn, icon, filtered, bonds>>
    BY <1>3 DEF RunUnregister, RunReset
  <2>2. Pairable' = Pairable
    BY <1>3 DEF RunUnregister, RunReset, Pairable
  <2>3. Watch!Stop
    BY <2>1, <2>2 DEF Watch!Stop
  <2>4. QED
    BY <2>3 DEF Watch!Next
<1>4. ASSUME NEW p \in Peers, Unpair(p)
      PROVE  [Watch!Next]_(Watch!vars)
  <2>1. /\ phase = "unpair" /\ p \in bonds /\ bonds' = bonds \ {p}
        /\ UNCHANGED <<phase, advertising, icon, filtered>>
        /\ conn' = IF conn.peer = p THEN [conn EXCEPT !.link = "closing"]
                   ELSE conn
    BY <1>4 DEF Unpair, Closing, KeysKnown
  <2>2. Pairable' = Pairable
    BY <1>4 DEF Unpair, Pairable
  <2>3. conn'.peer = conn.peer /\ conn'.level = conn.level
    BY <2>1
  <2>4. conn'.link = IF conn.peer = p THEN "closing" ELSE conn.link
    BY <2>1
  <2>5. Watch!Erase(p)
    BY <2>1, <2>2, <2>3, <2>4 DEF Watch!Erase
  <2>6. QED
    BY <2>5 DEF Watch!Next
<1>5. CASE Unpaired
  <2>1. /\ phase = "unpair" /\ phase' = "erased"
        /\ UNCHANGED <<conn, advertising, icon, filtered, bonds>>
    BY <1>5 DEF Unpaired
  <2>2. Pairable' = Pairable
    BY <1>5 DEF Unpaired, Pairable
  <2>3. QED
    BY <2>1, <2>2
<1>6. CASE Reboot \/ PowerLoss
  <2>1. ResetRam /\ phase' = "off" /\ bonds' = bonds
    BY <1>6 DEF Reboot, PowerLoss
  <2>2. /\ conn' = NoConn /\ ~advertising' /\ icon' = "none"
        /\ ~Pairable' /\ filtered' = FALSE
    BY <2>1 DEF ResetRam, Pairable
  <2>3. Watch!Restart
    BY <2>1, <2>2 DEF Watch!Restart
  <2>4. QED
    BY <2>3 DEF Watch!Next
<1>7. QED
  BY <1>1, <1>2, <1>3, <1>4, <1>5, <1>6 DEF Buttons, Works

(* bt.cpp, the buttons and the start-up implement the connection that      *)
(* WatchLink promises, over any number of restarts (bt.cpp:138-316,        *)
(* auth.cpp:65-89, devkit.cpp:19-68).                                      *)
THEOREM ConnectionRefinesLink == Spec => LinkPromise
<1>1. Init => LinkInv /\ Watch!Init
  <2> SUFFICES ASSUME Init
               PROVE  LinkInv /\ Watch!Init
    OBVIOUS
  <2>1. ConnInv
    BY InitConn
  <2>2. EncryptedSecured
    BY DEF Init, RamInit, AuthInit, EncryptedSecured
  <2>3. Watch!Init
    BY DEF Init, RamInit, AuthInit, Pairable, Watch!Init
  <2>4. QED
    BY <2>1, <2>2, <2>3 DEF LinkInv
<1>2. LinkInv /\ [Next]_vars => LinkInv'
  BY NextConn, SecuredStep DEF LinkInv
<1>3. LinkInv /\ [Next]_vars => [Watch!Next]_(Watch!vars)
  <2>1. CASE UNCHANGED vars
    BY <2>1 DEF Watch!vars, Pairable
  <2>2. QED
    BY <2>1, StartUpWatch, LinkWatch, PairingWatch, WorksWatch DEF Next
<1>4. QED
  BY <1>1, <1>2, <1>3, PTL DEF Spec, LinkPromise, Watch!Spec

(* The window the two threads implement without a lock stands also with    *)
(* the link, the works and the restarts around them: a lost connection     *)
(* ends its pairing as a failure does (auth.cpp:65-89, 111-127).           *)
LEMMA WindowAroundLink == ConnInv /\ ConnInv' /\ [Next]_vars
                            => [Window!Next]_(Window!vars)
<1> SUFFICES ASSUME ConnInv, ConnInv', [Next]_vars
             PROVE  [Window!Next]_(Window!vars)
  OBVIOUS
<1>1. CASE Reboot \/ PowerLoss
  <2>1. Window!Restart
    BY <1>1 DEF Reboot, PowerLoss, ResetRam, Window!Restart, Pairable
  <2>2. QED
    BY <2>1 DEF Window!Next
<1>2. CASE Disconnect
  <2>1. CASE smp = "none"
    BY <1>2, <2>1 DEF Disconnect, Window!vars, Pairable
  <2>2. CASE smp # "none"
    <3>1. Window!FailPairing
      BY <1>2, <2>2 DEF Disconnect, Window!FailPairing, Pairable
    <3>2. QED
      BY <3>1 DEF Window!Next
  <2>3. QED
    BY <2>1, <2>2
<1>3. CASE /\ Next \/ UNCHANGED vars
           /\ ~Reboot /\ ~PowerLoss /\ ~Disconnect
  <2>1. [AuthNext]_authVars
    <3>1. CASE StartUp
      BY <3>1 DEF StartUp, PowerOn, EnableBt, EnableFails, StartAdvertising,
                  InstallCallbacks, InitDisplay, AuthNext
    <3>2. CASE Link
      BY <1>3, <3>2 DEF Link, Connect, ConnectError, Encrypt, EncryptFails,
                        DiscoveryEnds, MtuExchanged, PeerExchangesMtu
    <3>3. CASE Pairing
      BY <3>3 DEF Pairing, Pair, PairEncrypted, PairComplete, PairFails, AuthNext
    <3>4. CASE Buttons
      BY <3>4 DEF Buttons, Button1, Button3, Button4, AuthNext
    <3>5. CASE Works
      BY <1>3, <3>5 DEF Works, Blink, RunUnregister, Unpair, Unpaired, RunReset
    <3>6. CASE UNCHANGED vars
      BY <3>6
    <3>7. QED
      BY <1>3, <3>1, <3>2, <3>3, <3>4, <3>5, <3>6 DEF Next
  <2>2. AuthInv /\ AuthInv'
    BY DEF ConnInv
  <2>3. QED
    BY <2>1, <2>2, WindowStep
<1>4. QED
  BY <1>1, <1>2, <1>3

(* The whole watch implements the pairing window, over its restarts: every *)
(* press takes effect once, only presses open it, completion closes it     *)
(* (auth.cpp:65-89, devkit.cpp:46-48).                                     *)
THEOREM ConnectionRefinesWindow == Spec => WindowPromise
<1>1. Init => Window!Init
  BY DEF Init, RamInit, AuthInit, Window!Init, Pairable
<1>2. ConnInv /\ ConnInv' /\ [Next]_vars => [Window!Next]_(Window!vars)
  BY WindowAroundLink
<1>3. QED
  BY <1>1, <1>2, ConnInvariant, PTL DEF Spec, Window!Spec, WindowPromise
=============================================================================
