------------------------------ MODULE DeviceTrust ------------------------------
(* What one browser keeps about one account that trusts it, and the server's   *)
(* side of it: the device credential, perhaps behind a PIN, the grant that     *)
(* resumes online sessions, and the revocation still to be delivered when the  *)
(* account was signed out offline or its PIN was exhausted (deviceUnlock.ts,   *)
(* deviceSession.ts, useSessionController.ts; sessionService.ts). Changes of   *)
(* account hold the browser's lock; requests may be lost, and a request the    *)
(* browser gave up on may still arrive. Key derivation and the encryption of   *)
(* the grant are what they guarantee: a PIN fits or not.                       *)
EXTENDS Naturals

CONSTANTS MaxSignIns,  \* sign-ins with the master password
          MaxGrants,   \* grants drawn by the browser
          Editors,     \* tabs that update the credential
          MaxTries,    \* PIN failures until trust is given up (5 in the code)
          MaxEdits     \* read-modify-write updates of the credential

TrustBounds == {MaxSignIns, MaxGrants, MaxEdits} \subseteq Nat /\ MaxTries \in Nat \ {0}

VARIABLES credential,  \* the deviceCredentials row
          grant,       \* the deviceGrants row
          revocation,  \* the pendingEndpointRevocations row
          online,      \* the session the open workspace is bound to
          signIn,      \* the sign-in in progress
          edit,        \* edit[e]: an update of the credential that has read and not written
          chosenPin,   \* the user was told that the PIN is set
          endpoint,    \* the server's row: its grant, whether it is revoked
          accepted,    \* grants the server has accepted so far
          live,        \* the session the server accepts for the endpoint
          sent, answered, \* revocations on their way, and their answers
          signIns, grants, edits

local == <<credential, grant, revocation, online, signIn>>
server == <<endpoint, accepted, live>>
updates == <<edit, chosenPin, edits>>
vars == <<local, server, updates, sent, answered, signIns, grants>>

Nothing == 0
NoTrust == [kind |-> "none", failed |-> 0]
NoGrant == [id |-> Nothing, pending |-> FALSE]
NoTask == [grant |-> Nothing, session |-> Nothing]
NoEdit == [op |-> "none", seen |-> NoTrust]
Tasks == [grant : 0..MaxGrants, session : 0..MaxSignIns]

Init == /\ credential = NoTrust /\ grant = NoGrant /\ revocation = NoTask
        /\ online = Nothing /\ signIn = "no"
        /\ edit = [e \in Editors |-> NoEdit] /\ chosenPin = FALSE /\ edits = 0
        /\ accepted = {} /\ endpoint = [grant |-> Nothing, revoked |-> TRUE] /\ live = Nothing
        /\ sent = {} /\ answered = {} /\ signIns = 0 /\ grants = 0

Resumable(g) == g # Nothing /\ endpoint.grant = g /\ ~endpoint.revoked
Trusted == credential.kind # "none"

-----------------------------------------------------------------------------
(* handleUnlocked, one await after the other. A sign-in closed the workspace   *)
(* first; login retires the sessions of the endpoint, and its grant too if the *)
(* endpoint had been revoked.                                                  *)
Login ==
  /\ signIn = "no" /\ signIns < MaxSignIns
  /\ signIns' = signIns + 1 /\ signIn' = "remember"
  /\ live' = signIns + 1 /\ online' = Nothing
  /\ endpoint' = [grant |-> IF endpoint.revoked THEN Nothing ELSE endpoint.grant, revoked |-> FALSE]
  /\ UNCHANGED <<accepted, credential, grant, revocation, updates, sent, answered, grants>>

(* rememberDeviceUnlock: a PIN of the endpoint is kept. *)
Remember ==
  /\ signIn = "remember" /\ signIn' = "clear"
  /\ credential' = [kind |-> IF credential.kind = "pin" THEN "pin" ELSE "device", failed |-> 0]
  /\ UNCHANGED <<grant, revocation, online, server, updates, sent, answered, signIns, grants>>

ClearPendingEndpointRevocation ==
  /\ signIn = "clear" /\ signIn' = "enroll"
  /\ revocation' = NoTask
  /\ UNCHANGED <<credential, grant, online, server, updates, sent, answered, signIns, grants>>

(* enrollDevice: a candidate of an earlier attempt is used again. *)
SealGrant ==
  /\ signIn = "enroll" /\ signIn' = "put"
  /\ IF grant.pending THEN UNCHANGED <<grant, grants>>
     ELSE /\ grants < MaxGrants /\ grants' = grants + 1
          /\ grant' = [id |-> grants + 1, pending |-> TRUE]
  /\ UNCHANGED <<credential, revocation, online, server, updates, sent, answered, signIns>>

(* PUT device-grant, whose answer may be lost. *)
Enroll ==
  /\ signIn = "put" /\ live = signIns /\ ~endpoint.revoked
  /\ endpoint' = [endpoint EXCEPT !.grant = grant.id] /\ accepted' = accepted \cup {grant.id}
  /\ signIn' \in {"confirm", "no"}
  /\ UNCHANGED <<credential, grant, revocation, online, live, updates, sent, answered, signIns, grants>>

(* The workspace is opened with the new session. *)
Confirm ==
  /\ signIn = "confirm" /\ signIn' = "no"
  /\ grant' = [grant EXCEPT !.pending = FALSE]
  /\ online' = signIns
  /\ UNCHANGED <<credential, revocation, server, updates, sent, answered, signIns, grants>>

(* A request of it fails, or the tab is closed. *)
SignInFails ==
  /\ signIn # "no" /\ signIn' = "no"
  /\ UNCHANGED <<credential, grant, revocation, online, server, updates, sent, answered, signIns, grants>>

-----------------------------------------------------------------------------
(* requestSession with the grant, as opening and reverifying do; the session   *)
(* of the endpoint is used again if it still lives.                            *)
Resume ==
  /\ signIn = "no" /\ Trusted /\ online = Nothing /\ Resumable(grant.id)
  /\ live # Nothing \/ signIns < MaxSignIns
  /\ signIns' = IF live = Nothing THEN signIns + 1 ELSE signIns
  /\ live' = IF live = Nothing THEN signIns + 1 ELSE live
  /\ online' = live'
  /\ grant' = [grant EXCEPT !.pending = FALSE]
  /\ UNCHANGED <<credential, revocation, signIn, endpoint, accepted, updates, sent, answered, grants>>

(* The bound session is gone: reverify, or onInvalid. *)
LoseSession ==
  /\ online # Nothing /\ online # live
  /\ online' = Nothing
  /\ UNCHANGED <<credential, grant, revocation, signIn, server, updates, sent, answered, signIns, grants>>

(* A confirmed grant is refused: invalidateTrust. A pending one may simply     *)
(* never have been enrolled.                                                   *)
Refused ==
  /\ signIn = "no" /\ Trusted /\ online = Nothing
  /\ grant.id # Nothing /\ ~grant.pending /\ ~Resumable(grant.id)
  /\ credential' = NoTrust /\ grant' = NoGrant
  /\ chosenPin' = FALSE
  /\ UNCHANGED <<revocation, online, signIn, server, edit, edits, sent, answered, signIns, grants>>

(* The account's owner signs the browser out from another one. *)
RemoteRevoke ==
  /\ ~endpoint.revoked
  /\ endpoint' = [grant |-> Nothing, revoked |-> TRUE] /\ live' = Nothing
  /\ UNCHANGED <<local, accepted, updates, sent, answered, signIns, grants>>

-----------------------------------------------------------------------------
(* One transaction, which also keeps what to revoke; a row that names neither  *)
(* a grant nor a session has no effect on the server.                          *)
GiveUp == /\ credential' = NoTrust /\ grant' = NoGrant /\ online' = Nothing
          /\ revocation' = [grant |-> grant.id, session |-> online]
          /\ chosenPin' = FALSE
          /\ UNCHANGED <<signIn, endpoint, accepted, edit, edits, sent, answered, signIns, grants>>

(* close("logout"): the session is closed too, if the server can be reached. *)
Logout == /\ signIn = "no" /\ Trusted /\ GiveUp
          /\ live' \in IF online = live THEN {live, Nothing} ELSE {live}

(* unlockDeviceWithPin: recordFailedPin counts in the latest row. *)
WrongPin ==
  /\ signIn = "no" /\ credential.kind = "pin"
  /\ IF credential.failed + 1 >= MaxTries THEN GiveUp /\ UNCHANGED live
     ELSE /\ credential' = [credential EXCEPT !.failed = @ + 1]
          /\ UNCHANGED <<grant, revocation, online, signIn, server, updates, sent, answered, signIns, grants>>

(* setDevicePin, removeDevicePin, setAutoLockMinutes and                       *)
(* updateVerifiedDeviceSession read the row, work and write it, without the    *)
(* browser's lock; unlocking with the PIN does so too.                         *)
BeginEdit(e, op) ==
  /\ edit[e] = NoEdit /\ edits < MaxEdits /\ Trusted
  /\ edit' = [edit EXCEPT ![e] = [op |-> op, seen |-> credential]] /\ edits' = edits + 1
  /\ UNCHANGED <<local, server, chosenPin, sent, answered, signIns, grants>>

EndEdit(e) ==
  /\ edit[e] # NoEdit /\ edit' = [edit EXCEPT ![e] = NoEdit]
  /\ credential' = CASE edit[e].op = "set PIN" -> [kind |-> "pin", failed |-> 0]
                     [] edit[e].op = "remove PIN" -> [kind |-> "device", failed |-> 0]
                     [] edit[e].op = "unlock" -> [edit[e].seen EXCEPT !.failed = 0]
                     [] OTHER -> edit[e].seen
  /\ chosenPin' = (edit[e].op = "set PIN" \/ (chosenPin /\ edit[e].op # "remove PIN"))
  /\ UNCHANGED <<grant, revocation, online, signIn, server, edits, sent, answered, signIns, grants>>

-----------------------------------------------------------------------------
(* flushPendingEndpointRevocations, before every connection, every 30 seconds  *)
(* and after giving up.                                                        *)
Flush == /\ revocation # NoTask /\ revocation \notin sent
         /\ sent' = sent \cup {revocation}
         /\ UNCHANGED <<local, server, updates, answered, signIns, grants>>

(* revokeBrowserGrant. *)
RevokeBrowserGrant(task) ==
  /\ accepted' = accepted
  /\ IF endpoint.grant # Nothing
     THEN IF endpoint.grant = task.grant
          THEN endpoint' = [grant |-> Nothing, revoked |-> TRUE] /\ live' = Nothing
          ELSE UNCHANGED <<endpoint, live>>
     ELSE IF task.session # Nothing /\ live \in {task.session, Nothing}
          THEN endpoint' = [endpoint EXCEPT !.revoked = TRUE] /\ live' = Nothing
          ELSE UNCHANGED <<endpoint, live>>

(* It may arrive after the browser stopped waiting, and its answer be lost. *)
Arrive(task) ==
  /\ task \in sent /\ sent' = sent \ {task}
  /\ RevokeBrowserGrant(task)
  /\ answered' \in {answered, answered \cup {task}}
  /\ UNCHANGED <<local, updates, signIns, grants>>

Answer(task) ==
  /\ task \in answered /\ answered' = answered \ {task}
  /\ revocation' = IF revocation = task THEN NoTask ELSE revocation
  /\ UNCHANGED <<credential, grant, online, signIn, server, updates, sent, signIns, grants>>

Lose(task) == /\ task \in sent /\ sent' = sent \ {task}
              /\ UNCHANGED <<local, server, updates, answered, signIns, grants>>

-----------------------------------------------------------------------------
SignIn == Login \/ Remember \/ ClearPendingEndpointRevocation \/ SealGrant \/ Enroll \/ Confirm \/ SignInFails
Session == Resume \/ LoseSession \/ Refused \/ RemoteRevoke \/ Logout
Edit == \/ \E e \in Editors : \/ EndEdit(e)
                            \/ \E op \in {"set PIN", "remove PIN", "settings", "unlock"} : BeginEdit(e, op)
        \/ WrongPin
Next == \/ SignIn \/ Session \/ Edit \/ Flush
        \/ \E task \in Tasks : Arrive(task) \/ Answer(task) \/ Lose(task)

Spec == Init /\ [][Next]_vars

(* Revocations are sent again as long as they are not confirmed, and a request *)
(* sent again and again arrives.                                               *)
FairSpec == Spec /\ WF_vars(Flush) /\ \A task \in Tasks : SF_vars(Arrive(task)) /\ WF_vars(Answer(task))

-----------------------------------------------------------------------------
TrustTypeOK ==
  /\ credential \in [kind : {"none", "device", "pin"}, failed : 0..MaxTries - 1]
  /\ grant \in [id : 0..grants, pending : BOOLEAN] /\ revocation \in Tasks
  /\ endpoint \in [grant : 0..grants, revoked : BOOLEAN]
  /\ {online, live} \subseteq 0..signIns
  /\ {sent, answered} \subseteq SUBSET Tasks
  /\ live # Nothing => ~endpoint.revoked

(* The browser counts only on grants the server has accepted: when the server  *)
(* refuses one, the device really is no longer trusted, however often sign-ins *)
(* were interrupted before.                                                    *)
GrantsCountedOnWereAccepted == grant.id # Nothing /\ ~grant.pending => grant.id \in accepted

Ended(task) == ~Resumable(task.grant) /\ (live = Nothing \/ live # task.session)

(* A revocation the browser stops repeating has been carried out: neither the  *)
(* grant nor the session it names works, and no answer to an earlier one is    *)
(* taken for it.                                                               *)
ConfirmedRevocationsHold ==
  [][revocation # NoTask /\ revocation' = NoTask /\ UNCHANGED <<signIn, credential>> => Ended(revocation)]_vars

(* What was given up ends on the server too, unless the account is signed in   *)
(* to or trusted again first.                                                  *)
RevocationsArrive ==
  \A task \in Tasks \ {NoTask} :
    [](revocation = task /\ ~Trusted => <>(Ended(task) \/ Trusted \/ signIn # "no"))

(* A PIN the user was told is set protects the credential until it is removed  *)
(* (docs/system-design.md:89).                                                 *)
ChosenPinProtects == chosenPin => credential.kind \in {"pin", "none"}

(* The invariant that is checked. *)
TrustSafe == TrustTypeOK /\ GrantsCountedOnWereAccepted
=============================================================================
