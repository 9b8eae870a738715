----------------------------- MODULE CryptoWorker -----------------------------
(***************************************************************************)
(* One crypto worker and its client: src/crypto/client.ts numbers the      *)
(* calls of the page, src/crypto/crypto.worker.ts answers each when its    *)
(* last await is over, so calls overlap, and all share the buffer of the   *)
(* vault key.  The worker starts on the login screen (AuthScreen.tsx) or   *)
(* to open an account of this device (useSessionController, deviceUnlock), *)
(* goes over to the workspace and ends with it.  Sealing copies the key,   *)
(* or the key as the message, when it gets to it: what was zeroed by then  *)
(* is sealed as zeros.                                                     *)
(***************************************************************************)
EXTENDS SequencesExt, FiniteSets, Naturals

CONSTANTS MaxCalls,   \* calls
          MaxAtOnce,  \* calls of the workspace at once
          None

WorkerAssumption == MaxCalls \in Nat /\ MaxAtOnce \in Nat

VARIABLES buffers,    \* what each key buffer holds: "vault", "wrap" or "zero"
          vault,      \* vaultKey: a buffer, or None
          wrap,       \* pendingWrapKey
          running,    \* [calls the worker has begun -> op, step, key, sealed]
          answers,    \* posted to the page: [id, error, sealed]
          pending,    \* calls the page waits for
          settled,    \* [calls that are over -> what the page was told]
          page,       \* "login", "opening", "workspace" or "closed"
          script,     \* the calls the flow still makes, the first is running
          registered, \* a registration waits for its recovery key to be saved
          dead        \* the client is unavailable, the worker terminated

vars == <<buffers, vault, wrap, running, answers, pending, settled, page, script,
          registered, dead>>
worker == <<buffers, vault, wrap>>

Calls == DOMAIN settled \cup pending
New(content) == Append(buffers, content)
Zeroed(b, bs) == IF b = None THEN bs ELSE [bs EXCEPT ![b] = "zero"]
Newest == Len(buffers) + 1

Init ==
  /\ buffers = <<>> /\ vault = None /\ wrap = None
  /\ running = <<>> /\ answers = {} /\ pending = {} /\ settled = <<>>
  /\ page \in {"login", "opening"}
  /\ script = <<>> /\ registered = FALSE /\ dead = FALSE

(***************************************************************************)
(* The client                                                              *)
(***************************************************************************)
Rejected(op) == [op |-> op, error |-> TRUE, sealed |-> {}]

(* call: the request is posted, or refused when the worker is gone.        *)
Call(op) ==
  LET id == Cardinality(Calls) + 1
  IN IF dead
       THEN /\ settled' = [i \in DOMAIN settled \cup {id} |-> IF i = id THEN Rejected(op) ELSE settled[i]]
            /\ UNCHANGED <<running, pending>>
       ELSE /\ running' = [i \in DOMAIN running \cup {id} |->
                            IF i = id THEN [op |-> op, step |-> 0, key |-> None, sealed |-> {}]
                            ELSE running[i]]
            /\ pending' = pending \cup {id}
            /\ UNCHANGED settled

Room == Cardinality(Calls) < MaxCalls

(* makeUnavailable: every call that waits is rejected, the worker ends.    *)
MakeUnavailable ==
  /\ dead' = TRUE
  /\ settled' = [i \in Calls |-> IF i \in pending THEN Rejected("any") ELSE settled[i]]
  /\ pending' = {} /\ running' = <<>> /\ answers' = {}

(* onmessage: the answer of one call. *)
Receive ==
  /\ \E a \in answers :
       /\ answers' = answers \ {a}
       /\ pending' = pending \ {a.id}
       /\ settled' = [i \in DOMAIN settled \cup {a.id} |->
                       IF i = a.id THEN [op |-> a.op, error |-> a.error, sealed |-> a.sealed]
                       ELSE settled[i]]
  /\ UNCHANGED <<worker, running, page, script, registered, dead>>

(* onerror, onmessageerror. *)
Crash ==
  /\ ~ dead
  /\ MakeUnavailable
  /\ UNCHANGED <<worker, page, script, registered>>

(***************************************************************************)
(* The worker: a step of a call goes up to its next await                  *)
(***************************************************************************)
Answer(id, error, sealed) ==
  /\ answers' = answers \cup {[id |-> id, op |-> running[id].op, error |-> error, sealed |-> sealed]}
  /\ running' = [i \in DOMAIN running \ {id} |-> running[i]]

Goes(id, key, sealed) ==
  /\ running' = [running EXCEPT ![id].step = @ + 1, ![id].key = key, ![id].sealed = sealed]
  /\ UNCHANGED answers

Is(id, op, step) == id \in DOMAIN running /\ running[id].op = op /\ running[id].step = step
UnchangedPage == UNCHANGED <<pending, settled, page, script, registered, dead>>

PrepareLogin(id) ==
  \/ /\ Is(id, "prepareLogin", 0)
     /\ buffers' = Zeroed(wrap, buffers) /\ wrap' = None
     /\ Goes(id, None, {})
     /\ UNCHANGED vault
  \/ /\ Is(id, "prepareLogin", 1)
     /\ buffers' = New("wrap") /\ wrap' = Newest
     /\ Answer(id, FALSE, {})
     /\ UNCHANGED vault

(* Opening the envelope fails with a wrong key; afterwards the derived key *)
(* is wiped.                                                               *)
UnlockVault(id) ==
  \/ /\ Is(id, "unlockVault", 0)
     /\ IF wrap = None THEN Answer(id, TRUE, {}) ELSE Goes(id, None, {})
     /\ UNCHANGED worker
  \/ /\ Is(id, "unlockVault", 1)
     /\ \/ Answer(id, TRUE, {}) /\ UNCHANGED worker
        \/ /\ vault' = Newest /\ buffers' = Zeroed(wrap, New("vault")) /\ wrap' = None
           /\ Answer(id, wrap = None, {})

UnlockRecovery(id) ==
  \/ /\ Is(id, "unlockRecovery", 0) /\ Goes(id, None, {}) /\ UNCHANGED worker
  \/ /\ Is(id, "unlockRecovery", 1)
     /\ \/ Answer(id, TRUE, {}) /\ UNCHANGED worker
        \/ /\ vault' = Newest /\ buffers' = New("vault") /\ UNCHANGED wrap
           /\ Answer(id, FALSE, {})

(* unlockVaultFromDevice, also with a PIN: the key before it is wiped.     *)
UnlockFromDevice(id) ==
  \/ /\ Is(id, "unlockFromDevice", 0) /\ Goes(id, None, {}) /\ UNCHANGED worker
  \/ /\ Is(id, "unlockFromDevice", 1)
     /\ \/ Answer(id, TRUE, {}) /\ UNCHANGED worker
        \/ /\ vault' = Newest /\ buffers' = Zeroed(vault, New("vault")) /\ UNCHANGED wrap
           /\ Answer(id, FALSE, {})

(* A new vault key; the message of its envelope is copied a step later.    *)
CreateRegistration(id) ==
  \/ /\ Is(id, "createRegistration", 0)
     /\ vault' = Newest /\ buffers' = New("vault") /\ UNCHANGED wrap
     /\ Goes(id, Newest, {})
  \/ /\ Is(id, "createRegistration", 1)
     /\ Answer(id, FALSE, {buffers[running[id].key]})
     /\ UNCHANGED worker

(* The derived key of an earlier login goes; the vault key is read after   *)
(* the derivation and copied after the import.                             *)
RewrapPassword(id) ==
  \/ /\ Is(id, "rewrapPassword", 0)
     /\ IF vault = None THEN Answer(id, TRUE, {}) /\ UNCHANGED worker
        ELSE /\ buffers' = Zeroed(wrap, buffers) /\ wrap' = None
             /\ Goes(id, None, {})
             /\ UNCHANGED vault
  \/ /\ Is(id, "rewrapPassword", 1)
     /\ IF vault = None THEN Answer(id, TRUE, {}) ELSE Goes(id, vault, {})
     /\ UNCHANGED worker
  \/ /\ Is(id, "rewrapPassword", 2)
     /\ Answer(id, FALSE, {buffers[running[id].key]})
     /\ UNCHANGED worker

(* wrapVaultForDevice, also with a PIN: the key is copied at once.         *)
WrapForDevice(id) ==
  \/ /\ Is(id, "wrapForDevice", 0)
     /\ IF vault = None THEN Answer(id, TRUE, {}) ELSE Goes(id, None, {buffers[vault]})
     /\ UNCHANGED worker
  \/ /\ Is(id, "wrapForDevice", 1)
     /\ Answer(id, FALSE, running[id].sealed)
     /\ UNCHANGED worker

(* encodeVaultObject: a block, then the manifest, then both are opened     *)
(* again to see whether they say what they should.                         *)
EncryptObject(id) ==
  LET now == buffers[running[id].key]
  IN \/ /\ Is(id, "encryptObject", 0)
        /\ IF vault = None THEN Answer(id, TRUE, {}) ELSE Goes(id, vault, {buffers[vault]})
        /\ UNCHANGED worker
     \/ /\ Is(id, "encryptObject", 1)
        /\ Goes(id, running[id].key, running[id].sealed \cup {now})
        /\ UNCHANGED worker
     \/ /\ Is(id, "encryptObject", 2)
        /\ Answer(id, running[id].sealed # {now}, running[id].sealed)
        /\ UNCHANGED worker

(* The credential of an application is sealed from a snapshot, and refused *)
(* when the vault was locked meanwhile.                                    *)
CreateApplicationCredential(id) ==
  \/ /\ Is(id, "createApplicationCredential", 0)
     /\ IF vault = None THEN Answer(id, TRUE, {}) ELSE Goes(id, vault, {buffers[vault]})
     /\ UNCHANGED worker
  \/ /\ Is(id, "createApplicationCredential", 1)
     /\ Answer(id, vault # running[id].key, running[id].sealed)
     /\ UNCHANGED worker

Lock(id) ==
  /\ Is(id, "lock", 0)
  /\ buffers' = Zeroed(vault, Zeroed(wrap, buffers))
  /\ vault' = None /\ wrap' = None
  /\ Answer(id, FALSE, {})

Handle(id) ==
  /\ \/ PrepareLogin(id) \/ UnlockVault(id) \/ UnlockRecovery(id) \/ UnlockFromDevice(id)
     \/ CreateRegistration(id) \/ RewrapPassword(id) \/ WrapForDevice(id)
     \/ EncryptObject(id) \/ CreateApplicationCredential(id) \/ Lock(id)
  /\ UnchangedPage

(***************************************************************************)
(* The page                                                                *)
(***************************************************************************)
UnchangedWorker == UNCHANGED <<worker, answers, dead>>
Quiet == script = <<>> /\ pending = {}

Begin(ops) == script' = ops /\ Call(Head(ops))

(* The login screen submits one thing at a time; the registration is shown *)
(* its recovery key before it goes on.                                     *)
Submit ==
  /\ page = "login" /\ Quiet /\ Room
  /\ \/ /\ ~ registered
        /\ \E ops \in {<<"prepareLogin", "unlockVault", "wrapForDevice", "mount">>,
                       <<"unlockRecovery", "rewrapPassword", "lock">>,
                       <<"createRegistration">>} : Begin(ops)
        /\ UNCHANGED registered
     \/ /\ registered
        /\ Begin(<<"wrapForDevice", "mount">>)
        /\ UNCHANGED registered
  /\ UNCHANGED page /\ UnchangedWorker

(* openAccount: with what the device keeps, with a PIN or without.         *)
Open ==
  /\ page = "opening" /\ Quiet /\ Calls = {}
  /\ Begin(<<"unlockFromDevice", "wrapForDevice", "mount">>)
  /\ UNCHANGED <<page, registered>> /\ UnchangedWorker

Over(op) ==
  /\ script # <<>> /\ Head(script) = op /\ pending = {}

(* The call before is over and so is what the page asked of the server:    *)
(* the flow goes on.                                                       *)
GoOn ==
  /\ script # <<>> /\ page # "workspace" /\ Head(script) # "mount" /\ pending = {} /\ Room
  /\ ~ settled[Cardinality(Calls)].error
  /\ script' = Tail(script)
  /\ IF script' = <<>> \/ Head(script') = "mount" THEN UNCHANGED <<running, pending, settled>>
     ELSE Call(Head(script'))
  /\ registered' = (registered \/ Head(script) = "createRegistration")
  /\ UNCHANGED page /\ UnchangedWorker

(* The call, or the request to the server after it, failed: the worker is  *)
(* locked; when its registration is to be confirmed it is kept for a       *)
(* second attempt.                                                         *)
Fail ==
  /\ script # <<>> /\ page # "workspace" /\ Head(script) # "lock" /\ pending = {} /\ Room
  /\ IF registered
       THEN script' = <<>> /\ UNCHANGED <<running, pending, settled>>
       ELSE Begin(<<"lock">>)
  /\ UNCHANGED <<page, registered>> /\ UnchangedWorker

LockFails ==
  /\ Over("lock") /\ settled[Cardinality(Calls)].error
  /\ script' = <<>>
  /\ UNCHANGED <<running, pending, settled, page, registered>> /\ UnchangedWorker

(* mountWorkspace: the worker is the workspace's from here on; the login   *)
(* screen still reads the accounts.                                        *)
Mount ==
  /\ Over("mount")
  /\ page' = "workspace" /\ registered' = FALSE
  /\ script' = IF page = "login" THEN <<"refreshAccounts">> ELSE <<>>
  /\ UNCHANGED <<running, pending, settled>> /\ UnchangedWorker

(* When that fails, the login screen locks its worker: a new one by then.  *)
RefreshAccounts ==
  /\ script = <<"refreshAccounts">>
  /\ script' = <<>>
  /\ UNCHANGED <<running, pending, settled, page, registered>> /\ UnchangedWorker

(* The workspace calls as it likes. *)
Work ==
  /\ page = "workspace" /\ Room /\ Cardinality(pending) < MaxAtOnce
  /\ \E op \in {"encryptObject", "createApplicationCredential", "wrapForDevice", "rewrapPassword"} :
       Call(op)
  /\ UNCHANGED <<page, script, registered>> /\ UnchangedWorker

(* leaveWorkspace, cancelLogin, and openAccount when it does not mount:    *)
(* the worker is disposed of, whatever it is doing.                        *)
Close ==
  /\ \/ page = "workspace" \/ (page = "login" /\ Quiet)
     \/ (page = "opening" /\ Quiet /\ Calls # {})
  /\ page' = "closed"
  /\ IF dead THEN UNCHANGED <<dead, settled, pending, running, answers>> ELSE MakeUnavailable
  /\ UNCHANGED <<worker, script, registered>>

(* Back to the login form; the account exists, its key is not asked for.   *)
BackToLogin ==
  /\ page = "login" /\ Quiet /\ registered
  /\ registered' = FALSE
  /\ UNCHANGED <<running, pending, settled, page, script>> /\ UnchangedWorker

Next == \/ Submit \/ Open \/ GoOn \/ Fail \/ LockFails \/ Mount \/ RefreshAccounts \/ Work
        \/ Close \/ BackToLogin \/ Receive \/ Crash
        \/ \E id \in 1..MaxCalls : Handle(id)

Spec == Init /\ [][Next]_vars

(* Web Crypto answers, and messages arrive. *)
FairSpec == Spec /\ WF_vars(Receive) /\ WF_vars(\E id \in 1..MaxCalls : Handle(id))

(***************************************************************************)
(* Properties                                                              *)
(***************************************************************************)

Ops == {"prepareLogin", "unlockVault", "unlockRecovery", "unlockFromDevice", "createRegistration",
        "rewrapPassword", "wrapForDevice", "encryptObject", "createApplicationCredential", "lock"}

TypeOK ==
  /\ buffers \in Seq({"vault", "wrap", "zero"})
  /\ {vault, wrap} \subseteq DOMAIN buffers \cup {None}
  /\ \A id \in DOMAIN running : running[id].op \in Ops /\ running[id].step \in 0..2
  /\ pending = DOMAIN running \cup {a.id : a \in answers}
  /\ pending \cap DOMAIN settled = {}

(* What the page is given as sealed was sealed with the key of the vault,  *)
(* never with a buffer that was wiped meanwhile (crypto.worker.ts).        *)
SealedWithKey ==
  \A id \in DOMAIN settled : ~ settled[id].error => settled[id].sealed \subseteq {"vault"}

(* The worker of a workspace stays unlocked until it ends: no flow of the  *)
(* login screen that comes late locks it (useSessionController.ts:419).    *)
WorkspaceUnlocked ==
  (page = "workspace" /\ ~ dead) => (vault # None /\ buffers[vault] = "vault")

(* After a login, an unlock or a recovery that came to nothing the worker  *)
(* holds no key (AuthScreen.tsx:176, deviceUnlock.ts:364); only that of a  *)
(* new account may stay.                                                   *)
NothingKept ==
  (page \in {"login", "opening"} /\ Quiet /\ ~ dead
     /\ \A id \in DOMAIN settled : settled[id].op = "createRegistration" => settled[id].error)
    => \A b \in DOMAIN buffers : buffers[b] = "zero"

(* Every call of the page is answered or rejected (client.test.ts: rejects *)
(* pending and future operations when the worker crashes).                 *)
CallsSettle == \A id \in 1..MaxCalls : (id \in pending) ~> (id \in DOMAIN settled)

(* The worker seals with the key of the vault only, stays unlocked as long as  *)
(* its workspace is open, and keeps no key of a login that failed.         *)
WorkerSafe == TypeOK /\ SealedWithKey /\ WorkspaceUnlocked /\ NothingKept
=============================================================================
