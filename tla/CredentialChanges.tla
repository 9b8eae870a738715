-------------------------- MODULE CredentialChanges --------------------------
(***************************************************************************)
(* Changing the username, the password and the recovery key of one         *)
(* account.  The vault key lives in the cryptography worker of each page;  *)
(* the server keeps it twice, sealed by a key derived from the password    *)
(* and by the recovery key, each bound to the account by a context.  The   *)
(* dialogs of SettingsPanel.tsx (and the recovery form of AuthScreen.tsx)  *)
(* fetch the parameters, let the worker derive, seal again, and send       *)
(* everything with the secrets that prove the old credentials.             *)
(*                                                                         *)
(* A worker handles messages as they come: while one derivation waits,     *)
(* another message is handled, and all share the pending wrapping key.     *)
(* A dialog may be closed while its request goes on, and another opened.   *)
(***************************************************************************)
EXTENDS Sequences, Naturals

CONSTANTS Pages,        \* pages with a worker that holds the vault key
          Visitors,     \* pages at the sign-in screen, without a session
          Sessions,     \* sessions of the account
          SessionOf,    \* [Pages -> Sessions]: pages of one browser share one
          Flows,        \* submissions of a dialog
          Kinds,        \* the dialogs that are used
          Passwords,    \* passwords that are typed or chosen
          Names,        \* usernames
          MaxCloses,    \* dialogs closed while their submission goes on
          MaxLost,      \* replies that are lost after the server committed
          None

Initial == "initial"     \* salt, password and recovery key of the beginning

Salts    == Flows \cup {Initial}
Roots    == [password : Passwords, salt : Salts]
Bindings == [version : {1}, context : Names] \cup [version : {2}, context : Flows]
Seal(by, aad) == [by |-> by, aad |-> aad]

CredentialsAssumption ==
  /\ SessionOf \in [Pages -> Sessions]
  /\ Pages \cap Visitors = {}
  /\ MaxCloses \in Nat /\ MaxLost \in Nat
  /\ Kinds \subseteq {"username", "reset", "password", "recovery", "verify", "recover"}
  /\ None \notin Kinds \cup Flows \cup Bindings /\ Initial \notin Flows
  /\ Passwords # {} /\ Names # {}

VARIABLES account,   \* the row of the account on the server
          sessions,  \* sessions that are not revoked
          pending,   \* worker: the wrapping key derived by prepareLogin
          knownName, \* the username a page shows
          flow,      \* the submissions
          shown,     \* recovery keys that were displayed to the user
          closes, lost

vars == <<account, sessions, pending, knownName, flow, shown, closes, lost>>

FirstPassword == CHOOSE p \in Passwords : TRUE
FirstName     == CHOOSE n \in Names : TRUE

(* What each submission does, in order: the username with the recovery     *)
(* key at hand, the username with a replacement key in two halves, the     *)
(* password, the recovery key, the check of the password before a change   *)
(* of the PIN, and the recovery of a lost password.                        *)
UsernameScript == <<"fetch", "derive", "derived", "rewrap", "rewrapped", "rename">>
ResetScript    == <<"fetch", "derive", "derived", "reauth", "rotate", "confirm",
                    "fetch", "derive", "derived", "wrap", "rename">>
PasswordScript == <<"fetch", "derive", "derived", "rewrapPassword", "password">>
RecoveryScript == <<"fetch", "derive", "derived", "fetch", "rotate", "recoveryKey">>
VerifyScript   == <<"fetch", "derive", "derived", "reauth">>
RecoverScript  == <<"fetch", "unlock", "rewrapPassword", "recover">>

Script ==
  [ username |-> UsernameScript, reset |-> ResetScript, password |-> PasswordScript,
    recovery |-> RecoveryScript, verify |-> VerifyScript, recover |-> RecoverScript ]

NoFlow == [kind |-> None]

TypeOK ==
  /\ account \in
       [name : Names, password : Roots, binding : Bindings, recovery : Salts,
        passwordEnvelope : [by : Roots, aad : Bindings],
        recoveryEnvelope : [by : Salts, aad : Bindings]]
  /\ sessions \subseteq Sessions
  /\ pending \in [Pages \cup Visitors -> Roots \cup {None}]
  /\ knownName \in [Pages -> Names]
  /\ DOMAIN flow = Flows
  /\ \A f \in Flows : flow[f].kind \in Kinds =>
       flow[f].pc \in 1..(Len(Script[flow[f].kind]) + 1) \cup {0}
  /\ shown \subseteq Salts
  /\ closes \in 0..MaxCloses /\ lost \in 0..MaxLost

Init ==
  LET binding == [version |-> 1, context |-> FirstName]
      root    == [password |-> FirstPassword, salt |-> Initial]
  IN /\ account = [name |-> FirstName, password |-> root, binding |-> binding,
                   recovery |-> Initial,
                   passwordEnvelope |-> Seal(root, binding),
                   recoveryEnvelope |-> Seal(Initial, binding)]
     /\ sessions = Sessions
     /\ pending = [p \in Pages \cup Visitors |-> None]
     /\ knownName = [p \in Pages |-> FirstName]
     /\ flow = [f \in Flows |-> NoFlow]
     /\ shown = {Initial}
     /\ closes = 0 /\ lost = 0

Running(f) == flow[f].kind # None /\ flow[f].pc # 0
At(f, step) ==
  /\ Running(f)
  /\ flow[f].pc <= Len(Script[flow[f].kind])
  /\ Script[flow[f].kind][flow[f].pc] = step
On(f) == flow[f].page
Done(f) == [flow EXCEPT ![f].pc = Len(Script[flow[f].kind]) + 1]
Onward(f) == [flow EXCEPT ![f].pc = @ + 1]

(* The user fills in a dialog and submits it: one at a time on a page,     *)
(* unless the dialog before was closed.                                    *)
Submit(f) ==
  /\ flow[f].kind = None
  /\ \E kind \in Kinds, typed, chosen \in Passwords, code \in shown, name \in Names :
       \E page \in IF kind = "recover" THEN Visitors ELSE Pages :
         /\ \A g \in Flows : ~ (Running(g) /\ flow[g].page = page /\ flow[g].dialog)
         /\ (kind \in {"username", "reset"}) => (name # knownName[page])
         /\ (kind \notin {"username", "reset"}) => (name = FirstName)
         /\ (kind \notin {"password", "recover"}) => (chosen = FirstPassword)
         /\ (kind \notin {"username", "recover"}) => (code = Initial)
         /\ (kind = "recover") => (typed = FirstPassword)
         /\ flow' = [flow EXCEPT ![f] =
              [kind |-> kind, page |-> page, pc |-> 1, dialog |-> TRUE,
               typed |-> typed, chosen |-> chosen, code |-> code, name |-> name,
               account |-> IF kind = "recover" THEN account.name ELSE knownName[page],
               binding |-> None, salt |-> None, auth |-> None,
               next |-> None, recoveryEnvelope |-> None,
               wrapped |-> None, recoveryWrapped |-> None]]
  /\ UNCHANGED <<account, sessions, pending, knownName, shown, closes, lost>>

(* GET /api/auth/parameters/:username.  A change of the username takes the *)
(* binding it finds when that is of version 2, and a new one otherwise.    *)
Fetch(f) ==
  /\ At(f, "fetch")
  /\ LET fl == flow[f]
         fresh == [version |-> 2, context |-> f]
     IN flow' =
          IF fl.account # account.name THEN Done(f)
          ELSE [flow EXCEPT ![f].pc = @ + 1,
                 ![f].salt = account.password.salt,
                 ![f].recoveryEnvelope = account.recoveryEnvelope,
                 ![f].binding =
                   IF fl.kind = "reset" /\ fl.binding # None THEN fl.binding
                   ELSE IF fl.kind \in {"username", "reset"} /\ account.binding.version = 1
                          THEN fresh
                          ELSE account.binding]
  /\ UNCHANGED <<account, sessions, pending, knownName, shown, closes, lost>>

(* The worker, prepareLogin: forget the pending key, derive, and keep the  *)
(* new one.                                                                *)
Derive(f) ==
  /\ At(f, "derive")
  /\ pending' = [pending EXCEPT ![On(f)] = None]
  /\ flow' = Onward(f)
  /\ UNCHANGED <<account, sessions, knownName, shown, closes, lost>>

Derived(f) ==
  /\ At(f, "derived")
  /\ LET root == [password |-> flow[f].typed, salt |-> flow[f].salt]
     IN /\ pending' = [pending EXCEPT ![On(f)] = root]
        /\ flow' = [flow EXCEPT ![f].pc = @ + 1, ![f].auth = root]
  /\ UNCHANGED <<account, sessions, knownName, shown, closes, lost>>

(* The worker, rewrapVaultEnvelopes: the pending key is checked, two       *)
(* derivations are awaited, and whatever is pending then seals.            *)
Rewrap(f) ==
  /\ At(f, "rewrap")
  /\ flow' = IF pending[On(f)] = None THEN Done(f) ELSE Onward(f)
  /\ UNCHANGED <<account, sessions, pending, knownName, shown, closes, lost>>

Rewrapped(f) ==
  /\ At(f, "rewrapped")
  /\ flow' = IF pending[On(f)] = None THEN Done(f)
             ELSE [flow EXCEPT ![f].pc = @ + 1,
                    ![f].wrapped = Seal(pending[On(f)], flow[f].binding),
                    ![f].recoveryWrapped = Seal(flow[f].code, flow[f].binding)]
  /\ UNCHANGED <<account, sessions, pending, knownName, shown, closes, lost>>

(* The worker, rewrapPasswordEnvelope. *)
Wrap(f) ==
  /\ At(f, "wrap")
  /\ flow' = IF pending[On(f)] = None THEN Done(f)
             ELSE [flow EXCEPT ![f].pc = @ + 1,
                    ![f].wrapped = Seal(pending[On(f)], flow[f].binding)]
  /\ UNCHANGED <<account, sessions, pending, knownName, shown, closes, lost>>

(* The worker, rewrapPassword: a key of its own, under a new salt. *)
RewrapPassword(f) ==
  /\ At(f, "rewrapPassword")
  /\ pending' = [pending EXCEPT ![On(f)] = None]
  /\ LET root == [password |-> flow[f].chosen, salt |-> f]
     IN flow' = [flow EXCEPT ![f].pc = @ + 1, ![f].next = root,
                             ![f].wrapped = Seal(root, flow[f].binding)]
  /\ UNCHANGED <<account, sessions, knownName, shown, closes, lost>>

(* The worker, rotateRecoveryKey.  The username dialog shows the new key   *)
(* at once, the recovery dialog when the server has taken it.              *)
Rotate(f) ==
  /\ At(f, "rotate")
  /\ flow' = [flow EXCEPT ![f].pc = @ + 1, ![f].recoveryWrapped = Seal(f, flow[f].binding)]
  /\ shown' = IF flow[f].kind = "reset" THEN shown \cup {f} ELSE shown
  /\ pending' = IF flow[f].kind = "reset" THEN [pending EXCEPT ![On(f)] = None] ELSE pending
  /\ UNCHANGED <<account, sessions, knownName, closes, lost>>

(* The user has saved the replacement key and continues. *)
Confirm(f) ==
  /\ At(f, "confirm")
  /\ flow[f].dialog
  /\ flow' = Onward(f)
  /\ UNCHANGED <<account, sessions, pending, knownName, shown, closes, lost>>

(* The worker, unlockRecovery: the envelope as it was fetched opens with   *)
(* its key and its binding, or the recovery fails.                         *)
Unlock(f) ==
  /\ At(f, "unlock")
  /\ flow' = IF flow[f].recoveryEnvelope = Seal(flow[f].code, flow[f].binding)
               THEN Onward(f) ELSE Done(f)
  /\ UNCHANGED <<account, sessions, pending, knownName, shown, closes, lost>>

(* The server *)

SignedIn(f) == SessionOf[On(f)] \in sessions
Proved(f) == flow[f].auth = account.password

(* POST /api/auth/reauth *)
Reauth(f) ==
  /\ At(f, "reauth")
  /\ flow' = IF SignedIn(f) /\ Proved(f) THEN Onward(f) ELSE Done(f)
  /\ UNCHANGED <<account, sessions, pending, knownName, shown, closes, lost>>

(* PATCH /api/account/username: the password, the old recovery key or a    *)
(* replacement, and a binding that is kept once it is of version 2.  The   *)
(* other sessions of the account end.                                      *)
CanRename(f) ==
  /\ SignedIn(f) /\ Proved(f)
  /\ (flow[f].kind = "username") => (flow[f].code = account.recovery)
  /\ (account.binding.version = 2) => (account.binding = flow[f].binding)
  /\ flow[f].name # account.name

Rename(f) ==
  /\ At(f, "rename")
  /\ \E reply \in BOOLEAN :
       IF ~ CanRename(f)
         THEN /\ reply
              /\ flow' = Done(f)
              /\ UNCHANGED <<account, sessions, knownName, lost>>
         ELSE /\ reply \/ lost < MaxLost
              /\ account' = [account EXCEPT
                   !.name = flow[f].name, !.binding = flow[f].binding,
                   !.recovery = IF flow[f].kind = "reset" THEN f ELSE @,
                   !.passwordEnvelope = flow[f].wrapped,
                   !.recoveryEnvelope = flow[f].recoveryWrapped]
              /\ sessions' = sessions \cap {SessionOf[On(f)]}
              /\ knownName' = IF reply THEN [knownName EXCEPT ![On(f)] = flow[f].name]
                              ELSE knownName
              /\ lost' = IF reply THEN lost ELSE lost + 1
              /\ flow' = Done(f)
  /\ UNCHANGED <<pending, shown, closes>>

(* POST /api/auth/password *)
ChangePassword(f) ==
  /\ At(f, "password")
  /\ IF SignedIn(f) /\ Proved(f)
       THEN /\ account' = [account EXCEPT !.password = flow[f].next,
                                          !.passwordEnvelope = flow[f].wrapped]
            /\ sessions' = sessions \cap {SessionOf[On(f)]}
       ELSE UNCHANGED <<account, sessions>>
  /\ flow' = Done(f)
  /\ UNCHANGED <<pending, knownName, shown, closes, lost>>

(* POST /api/account/recovery-key *)
ReplaceRecovery(f) ==
  /\ At(f, "recoveryKey")
  /\ \E reply \in BOOLEAN :
       IF SignedIn(f) /\ Proved(f)
         THEN /\ reply \/ lost < MaxLost
              /\ account' = [account EXCEPT !.recovery = f,
                                            !.recoveryEnvelope = flow[f].recoveryWrapped]
              /\ shown' = IF reply THEN shown \cup {f} ELSE shown
              /\ lost' = IF reply THEN lost ELSE lost + 1
         ELSE reply /\ UNCHANGED <<account, shown, lost>>
  /\ flow' = Done(f)
  /\ UNCHANGED <<sessions, pending, knownName, closes>>

(* POST /api/auth/recover: every session of the account ends. *)
Recover(f) ==
  /\ At(f, "recover")
  /\ IF flow[f].account = account.name /\ flow[f].code = account.recovery
       THEN /\ account' = [account EXCEPT !.password = flow[f].next,
                                          !.passwordEnvelope = flow[f].wrapped]
            /\ sessions' = {}
       ELSE UNCHANGED <<account, sessions>>
  /\ flow' = Done(f)
  /\ UNCHANGED <<pending, knownName, shown, closes, lost>>

(* The submission is over, one way or the other: discardPendingLogin.  The *)
(* second half of a reset may be submitted again.                          *)
Finish(f) ==
  /\ Running(f)
  /\ flow[f].pc = Len(Script[flow[f].kind]) + 1
  /\ pending' = [pending EXCEPT ![On(f)] = None]
  /\ flow' = [flow EXCEPT ![f].pc = 0]
  /\ UNCHANGED <<account, sessions, knownName, shown, closes, lost>>

(* The dialog, or the whole panel, is closed.  A submission goes on; a     *)
(* replacement key that was not confirmed is dropped.                      *)
Close(f) ==
  /\ Running(f) /\ flow[f].dialog
  /\ closes < MaxCloses /\ closes' = closes + 1
  /\ flow' = [flow EXCEPT ![f].dialog = FALSE,
                          ![f].pc = IF At(f, "confirm") THEN 0 ELSE @]
  /\ pending' = [pending EXCEPT ![On(f)] = None]
  /\ UNCHANGED <<account, sessions, knownName, shown, lost>>

Next ==
  \E f \in Flows :
    \/ Submit(f)          \/ Fetch(f)          \/ Derive(f)
    \/ Derived(f)         \/ Rewrap(f)         \/ Rewrapped(f)
    \/ Wrap(f)            \/ RewrapPassword(f) \/ Rotate(f)
    \/ Confirm(f)         \/ Unlock(f)         \/ Reauth(f)
    \/ Rename(f)          \/ ChangePassword(f) \/ ReplaceRecovery(f)
    \/ Recover(f)         \/ Finish(f)         \/ Close(f)

Spec == Init /\ [][Next]_vars

(***************************************************************************)
(* Properties                                                              *)
(***************************************************************************)

(* The password the server accepts opens the envelope the server keeps:    *)
(* whatever dialogs, pages and devices changed credentials at once, nobody *)
(* who signs in finds a vault that does not open.                          *)
PasswordOpens == account.passwordEnvelope = Seal(account.password, account.binding)

(* The recovery key the server accepts opens its envelope.                 *)
RecoveryOpens == account.recoveryEnvelope = Seal(account.recovery, account.binding)

(* The recovery key in force has been shown to the user.                   *)
RecoveryHeld == account.recovery \in shown

(* The invariant that is checked. *)
CredentialsOpen == TypeOK /\ PasswordOpens /\ RecoveryOpens /\ RecoveryHeld
=============================================================================
