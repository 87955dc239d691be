-------------------------------- MODULE Auth --------------------------------
(***************************************************************************)
(* ble/auth.cpp with the button that drives it (managers/devkit.cpp).      *)
(*                                                                         *)
(* auth_cb_display is a plain global.  Two threads write it with no lock:  *)
(* the input thread (button 1 toggles pairing) and the system work queue   *)
(* (start-up and pairing_complete).  The work queue is cooperative and     *)
(* preempts the input thread between any two of its stores, never the      *)
(* other way round, so set_pairable is four steps in the input thread and  *)
(* one step in the work queue.                                             *)
(***************************************************************************)
VARIABLES
  pairing_confirm,  \* auth_cb_display.pairing_confirm: "deny" or "accept"
  passkey_display,  \* auth_cb_display.passkey_display: "null" or "display"
  bt_auth,          \* the stack holds a pointer to auth_cb_display
  auth_boot,        \* start-up: "start", then "registered", then "ready"
  auth_err,         \* bt::auth::init returned an error
  pc,               \* the input thread's next step in button 1
  pairable_arg,     \* the argument of its set_pairable call
  smp               \* the stack's pairing procedure on the one connection

authVars == <<pairing_confirm, passkey_display, bt_auth, auth_boot, auth_err,
              pc, pairable_arg, smp>>

callbacks == <<pairing_confirm, passkey_display, bt_auth>>
buttonVars == <<pc, pairable_arg>>
bootVars == <<auth_boot, auth_err>>

Pairable == pairing_confirm = "accept"

ConfirmFor(pairable) == IF pairable THEN "accept" ELSE "deny"
DisplayFor(pairable) == IF pairable THEN "display" ELSE "null"

AuthTypeOK ==
  /\ pairing_confirm \in {"deny", "accept"}
  /\ passkey_display \in {"null", "display"}
  /\ bt_auth \in BOOLEAN
  /\ auth_boot \in {"start", "registered", "ready"}
  /\ auth_err \in BOOLEAN
  /\ pc \in {"idle", "confirm", "display", "register"}
  /\ pairable_arg \in BOOLEAN
  /\ smp \in {"none", "passkey", "confirmed", "denied", "encrypted"}

AuthInit == /\ pairing_confirm = "deny"
            /\ passkey_display = "null"
            /\ bt_auth = FALSE
            /\ auth_boot = "start"
            /\ auth_err = FALSE
            /\ pc = "idle"
            /\ pairable_arg = FALSE
            /\ smp = "none"

-----------------------------------------------------------------------------
(* set_pairable(false) as the work queue runs it: nothing interleaves.     *)
(* Registering again is refused by the stack and the refusal is ignored;   *)
(* the first registration is the one that counts.                          *)
SetPairableFalse == /\ pairing_confirm' = ConfirmFor(FALSE)
                    /\ passkey_display' = DisplayFor(FALSE)
                    /\ bt_auth' = TRUE

(* bt::auth::init.  The stack refuses a second registration, so a press    *)
(* that got there first makes init fail.                                   *)
AuthRegister == /\ auth_boot = "start"
                /\ auth_err' = bt_auth
                /\ bt_auth' = TRUE
                /\ auth_boot' = "registered"
                /\ UNCHANGED <<pairing_confirm, passkey_display, buttonVars, smp>>

(* Bluetooth::init closes the window whatever bt::init returned, also when *)
(* it failed before it reached auth::init.                                 *)
AuthReady == /\ auth_boot # "ready"
             /\ SetPairableFalse
             /\ auth_boot' = "ready"
             /\ UNCHANGED <<auth_err, buttonVars, smp>>

(* Button 1: set_pairable(!pairable()), store by store.  Variant: it opens *)
(* whatever it saw.                                                        *)
ButtonAlwaysOpens == /\ pc = "idle"
                     /\ pairable_arg' = TRUE
                     /\ pc' = "confirm"
                     /\ UNCHANGED <<callbacks, bootVars, smp>>

ButtonRead == /\ pc = "idle"
              /\ pairable_arg' = ~Pairable
              /\ pc' = "confirm"
              /\ UNCHANGED <<callbacks, bootVars, smp>>

ButtonConfirm == /\ pc = "confirm"
                 /\ pairing_confirm' = ConfirmFor(pairable_arg)
                 /\ pc' = "display"
                 /\ UNCHANGED <<passkey_display, bt_auth, bootVars, pairable_arg, smp>>

ButtonDisplay == /\ pc = "display"
                 /\ passkey_display' = DisplayFor(pairable_arg)
                 /\ pc' = "register"
                 /\ UNCHANGED <<pairing_confirm, bt_auth, bootVars, pairable_arg, smp>>

ButtonRegister == /\ pc = "register"
                  /\ bt_auth' = TRUE
                  /\ pc' = "idle"
                  /\ pairable_arg' = FALSE
                  /\ UNCHANGED <<pairing_confirm, passkey_display, bootVars, smp>>

-----------------------------------------------------------------------------
(* The stack's pairing procedure, as far as auth.cpp sees it: a peer with  *)
(* a keyboard is shown a passkey when there is a passkey_display callback, *)
(* any other is put to pairing_confirm.                                    *)
PairingRequest(keyboard) ==
  /\ auth_boot = "ready"
  /\ smp = "none"
  /\ smp' = IF keyboard /\ passkey_display = "display" THEN "passkey"
            ELSE IF Pairable THEN "confirmed" ELSE "denied"
  /\ UNCHANGED <<callbacks, bootVars, buttonVars>>

PairingEncrypted == /\ smp \in {"passkey", "confirmed"}
                    /\ smp' = "encrypted"
                    /\ UNCHANGED <<callbacks, bootVars, buttonVars>>

(* pairing_complete.  Variant: the window stays as it is.                  *)
PairingCompleteKeepsOpen == /\ smp = "encrypted"
                            /\ smp' = "none"
                            /\ UNCHANGED <<callbacks, bootVars, buttonVars>>

PairingComplete == /\ smp = "encrypted"
                   /\ smp' = "none"
                   /\ SetPairableFalse
                   /\ UNCHANGED <<bootVars, buttonVars>>

PairingFailed == /\ smp # "none"
                 /\ smp' = "none"
                 /\ UNCHANGED <<callbacks, bootVars, buttonVars>>

ButtonStep == ButtonRead \/ ButtonConfirm \/ ButtonDisplay \/ ButtonRegister

AuthNext == \/ AuthRegister
            \/ AuthReady
            \/ ButtonStep
            \/ \E keyboard \in BOOLEAN : PairingRequest(keyboard)
            \/ PairingEncrypted
            \/ PairingComplete
            \/ PairingFailed

AuthSpec == AuthInit /\ [][AuthNext]_authVars

-----------------------------------------------------------------------------
(* What every interleaving keeps: a report of "pairable" is backed by a    *)
(* passkey callback unless the opening press is between its two stores, a  *)
(* press that is about to open the window still faces a closed one, one    *)
(* that is closing it has already denied, and no pairing starts before     *)
(* start-up has closed the window                                          *)
(* (auth.cpp:111-127, devkit.cpp:47, bluetooth.cpp:39).                    *)
AcceptBacked == Pairable => \/ passkey_display = "display"
                            \/ pc = "display" /\ pairable_arg
OpenerSawClosed == pc = "confirm" /\ pairable_arg => ~Pairable
CloserDenied == pc = "display" /\ ~pairable_arg => ~Pairable
PairingAfterStart == smp # "none" => auth_boot = "ready"
AuthInv == /\ AuthTypeOK
           /\ AcceptBacked
           /\ OpenerSawClosed
           /\ CloserDenied
           /\ PairingAfterStart

(* Whenever the input thread is not inside button 1, a watch that reports  *)
(* itself pairable also has somewhere to show the passkey: the two stores  *)
(* of set_pairable are never left half done in that direction, whatever    *)
(* the work queue did in between (auth.cpp:116-117).                       *)
AcceptHasDisplay == pc = "idle" /\ Pairable => passkey_display = "display"

(* The pairing window the two threads implement without a lock.            *)
Window == INSTANCE PairingWindow WITH
            window <- Pairable,
            decision <- IF pc # "confirm" THEN "none"
                        ELSE IF pairable_arg THEN "open" ELSE "close",
            pairing <- smp # "none",
            started <- auth_boot = "ready"

(* A press takes effect once and as it decided, only a press opens the     *)
(* window, an opening press never reopens what it did not see closed, and  *)
(* only a press, start-up or the end of a pairing closes it                *)
(* (auth.cpp:65-68, 111-127; devkit.cpp:46-48).                            *)
WindowPromise == Window!Spec

=============================================================================
