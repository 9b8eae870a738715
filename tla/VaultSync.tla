------------------------------ MODULE VaultSync ------------------------------
(***************************************************************************)
(* How the browser clients of one account edit one note that exists on the *)
(* server: the save queue and persistObject, the upload of the outbox, its *)
(* acknowledgement, and the pull that installs the server's version and    *)
(* turns a concurrent local edit into a conflict copy.                     *)
(*                                                                         *)
(* A device is one IndexedDB that its tabs share; a tab is one unlocked    *)
(* workspace with the plaintext note in memory.  The server is reduced to  *)
(* what SyncStore promises: conditional writes, executed at most once.     *)
(* The text of the note is the set of edits it contains.                   *)
(***************************************************************************)
EXTENDS Integers, FiniteSets

CONSTANTS
    Devices,
    Tabs,
    DeviceOf,       \* the device a tab runs on
    Edits,          \* the edits users will make
    Habits,         \* what happens besides typing and synchronizing
    MaxKeys,        \* bound on operation identifiers drawn by operationId()
    MaxFailures     \* bound on failed, interrupted and reloaded runs

NoTab == "none"
Closed == "closed"      \* the writer of a workspace that is gone

ASSUME TabsAssumption == DeviceOf \in [Tabs -> Devices] /\ Tabs \cap {NoTab, Closed} = {}
ASSUME HabitsAssumption == Habits \subseteq {"structural", "leave", "purge", "late", "lapse"}
ASSUME BoundsAssumption == MaxKeys \in Nat /\ MaxFailures \in Nat /\ IsFiniteSet(Edits)

VARIABLES
    server,         \* the server's row of the note
    done,           \* sync_receipts: identifiers the server has executed
    sent,           \* uploads that have left a device, ever
    discarded,      \* edits whose note was purged by a user
    row,            \* per device: table objects
    outbox,         \* per device: table outbox
    recoveries,     \* per device: table recoveries, sources of conflict copies
    copies,         \* conflict copies the server has acknowledged
    holder,         \* per device: the tab holding the vault-sync web lock
    step,           \* per device: where its synchronization stands
    attempt,        \* per device: the upload in flight
    page,           \* per device: the row answered by the pull
    candidate,      \* per device: the local versions the pull decided about
    memory,         \* per tab: the document in memory and its serverRevision
    active,         \* per tab: the note is the one in the editor
    queued,         \* per tab: the save queue has the note
    saving,         \* per tab: the save occupying the note's write lane
    deferred,       \* per tab: remote version held back from the open editor
    made,           \* edits made so far
    saved,          \* history: edits made durable by a local transaction
    lastKey,        \* the last operation identifier drawn
    failures

serverVars == <<server, done, sent, discarded>>
deviceVars == <<row, outbox, recoveries, copies>>
syncVars   == <<holder, step, attempt, page, candidate>>
tabVars    == <<memory, active, queued, saving, deferred>>
vars == <<serverVars, deviceVars, syncVars, tabVars, made, saved, lastKey, failures>>

-----------------------------------------------------------------------------
OperationKeys == 0 .. MaxKeys
Revisions == 0 .. MaxKeys + 1

(* A stored row.  A ciphertext is produced once, so the identifier of the  *)
(* operation that carries it stands for it.                                *)
Row == [revision : Revisions, content : SUBSET Edits, key : OperationKeys]
NoRow == [revision |-> 0, content |-> {}, key |-> 0]

Attempt == [key : OperationKeys, base : Revisions, content : SUBSET Edits]
NoAttempt == [key |-> 0, base |-> 0, content |-> {}]

Entry == [key : OperationKeys, base : Revisions, content : SUBSET Edits,
          writer : Tabs \cup {NoTab, Closed}, upload : Attempt]
NoEntry == [key |-> 0, base |-> 0, content |-> {}, writer |-> NoTab, upload |-> NoAttempt]

Pending(entry) == entry # NoEntry

(* What a proposal leaves in the store that takes it. *)
RowOf(a) == [revision |-> a.base + 1, content |-> a.content, key |-> a.key]

Staged(entry) == entry.upload # NoAttempt

(* A save in the write lane: the captured content, and whether it waits    *)
(* for the lane or has read its base.                                      *)
Saving == [stage : {"none", "waits", "encrypts"}, content : SUBSET Edits,
           base : Revisions, upload : Attempt, direct : BOOLEAN]
NoSaving == [stage |-> "none", content |-> {}, base |-> 0, upload |-> NoAttempt,
             direct |-> FALSE]

Candidate == [entry : Entry, row : Row]
NoCandidate == [entry |-> NoEntry, row |-> NoRow]

(* No remote version is held back; NoRow is the removal of a purged note.  *)
NoDeferred == [NoRow EXCEPT !.key = -1]

FirstRow == [revision |-> 1, content |-> {}, key |-> 0]

Init ==
    /\ server = FirstRow
    /\ done = {}
    /\ sent = {}
    /\ discarded = {}
    /\ row = [d \in Devices |-> FirstRow]
    /\ outbox = [d \in Devices |-> NoEntry]
    /\ recoveries = [d \in Devices |-> {}]
    /\ copies = {}
    /\ holder = [d \in Devices |-> NoTab]
    /\ step = [d \in Devices |-> "idle"]
    /\ attempt = [d \in Devices |-> NoAttempt]
    /\ page = [d \in Devices |-> NoRow]
    /\ candidate = [d \in Devices |-> NoCandidate]
    /\ memory = [t \in Tabs |-> FirstRow]
    /\ active = [t \in Tabs |-> FALSE]
    /\ queued = [t \in Tabs |-> FALSE]
    /\ saving = [t \in Tabs |-> NoSaving]
    /\ deferred = [t \in Tabs |-> NoDeferred]
    /\ made = {}
    /\ saved = {}
    /\ lastKey = 0
    /\ failures = 0

-----------------------------------------------------------------------------
(***************************************************************************)
(* Editing and saving.                                                     *)
(***************************************************************************)
Opened(t) == memory[t] # NoRow

LaneLocked(t) ==
    LET d == DeviceOf[t] IN holder[d] = t /\ step[d] \in {"locked", "publish"}

LaneFree(t) == ~LaneLocked(t) /\ saving[t].stage = "none"

(* Typing into the editor changes the document in memory and queues it.    *)
Type(t, e) ==
    /\ active[t] /\ Opened(t)
    /\ e \notin made
    /\ made' = made \cup {e}
    /\ memory' = [memory EXCEPT ![t].content = @ \cup {e}]
    /\ queued' = [queued EXCEPT ![t] = TRUE]
    /\ UNCHANGED <<serverVars, deviceVars, syncVars, active, saving, deferred, saved,
                   lastKey, failures>>

Open(t) ==
    /\ ~active[t] /\ Opened(t)
    /\ active' = [active EXCEPT ![t] = TRUE]
    /\ UNCHANGED <<serverVars, deviceVars, syncVars, memory, queued, saving, deferred,
                   made, saved, lastKey, failures>>

(* selectDocument: leaving the note flushes it, then shows the remote      *)
(* version that was held back from the editor.                             *)
Leave(t) ==
    /\ active[t]
    /\ ~queued[t] /\ LaneFree(t)
    /\ deferred[t] # NoDeferred /\ Pending(outbox[DeviceOf[t]]) => "leave" \in Habits
    /\ active' = [active EXCEPT ![t] = FALSE]
    /\ memory' = IF deferred[t] # NoDeferred THEN [memory EXCEPT ![t] = deferred[t]]
                 ELSE memory
    /\ deferred' = [deferred EXCEPT ![t] = NoDeferred]
    /\ UNCHANGED <<serverVars, deviceVars, syncVars, queued, saving, made, saved,
                   lastKey, failures>>

(* Pinning, moving, locking or trashing goes to persistObject directly,    *)
(* past the save queue, with the document as it is at this moment.         *)
Restructure(t, e) ==
    /\ Opened(t)
    /\ e \notin made
    /\ saving[t].stage = "none"
    /\ LaneLocked(t) => "structural" \in Habits
    /\ made' = made \cup {e}
    /\ saving' = [saving EXCEPT ![t] =
                    [NoSaving EXCEPT !.stage = "waits", !.direct = TRUE,
                                     !.content = memory[t].content \cup {e},
                                     !.base = memory[t].revision]]
    /\ UNCHANGED <<serverVars, deviceVars, syncVars, memory, active, queued, deferred,
                   saved, lastKey, failures>>

(* persistObject has the lane.  The base it will claim is that of the      *)
(* pending entry, else the server revision of the document now in memory.  *)
BeginSave(t) ==
    LET entry == outbox[DeviceOf[t]]
        base(own) == IF Pending(entry) THEN entry.base
                     ELSE IF Opened(t) THEN memory[t].revision ELSE own
    IN
    /\ ~LaneLocked(t)
    /\ \/ /\ saving[t].stage = "waits"
          /\ saving' = [saving EXCEPT ![t] = [saving[t] EXCEPT !.stage = "encrypts",
                           !.base = base(saving[t].base), !.upload = entry.upload]]
       \/ /\ saving[t].stage = "none"
          /\ queued[t] /\ Opened(t)
          /\ saving' = [saving EXCEPT ![t] =
                          [stage |-> "encrypts", content |-> memory[t].content,
                           base |-> base(0), upload |-> entry.upload, direct |-> FALSE]]
    /\ UNCHANGED <<serverVars, deviceVars, syncVars, memory, active, queued, deferred,
                   made, saved, lastKey, failures>>

Foreign(t, entry) == Pending(entry) /\ entry.writer # t

(* The local transaction writes the object row and the outbox entry, after *)
(* another tab's entry has been reserved for recovery.  An upload that is  *)
(* staged, or was when the save began, is carried along.  The saved        *)
(* document replaces the one in memory unless typing has gone on.          *)
CommitSave(t) ==
    LET d == DeviceOf[t]
        save == saving[t]
        upload == IF Staged(outbox[d]) THEN outbox[d].upload ELSE save.upload
        entry == [key |-> lastKey + 1, base |-> save.base, content |-> save.content,
                  writer |-> t, upload |-> upload]
        current == save.direct \/ memory[t].content = save.content
    IN
    /\ save.stage = "encrypts"
    /\ lastKey < MaxKeys
    /\ lastKey' = entry.key
    /\ recoveries' = IF Foreign(t, outbox[d])
                       THEN [recoveries EXCEPT ![d] = @ \cup {outbox[d].content}]
                       ELSE recoveries
    /\ row' = [row EXCEPT ![d] = RowOf(entry)]
    /\ outbox' = [outbox EXCEPT ![d] = entry]
    /\ saved' = saved \cup save.content
    /\ saving' = [saving EXCEPT ![t] = NoSaving]
    /\ queued' = [queued EXCEPT ![t] = @ /\ (save.direct \/ ~current)]
    /\ memory' = IF current
                   THEN [memory EXCEPT ![t] = [@ EXCEPT !.revision = save.base,
                                                       !.content = save.content]]
                   ELSE memory
    /\ UNCHANGED <<serverVars, copies, syncVars, active, deferred, made, failures>>

(* The run goes on, or is over and forgets what it knew.                   *)
Finish(d, next) ==
    LET over == next = "idle" IN
    /\ step' = [step EXCEPT ![d] = next]
    /\ holder' = [holder EXCEPT ![d] = IF over THEN NoTab ELSE @]
    /\ attempt' = [attempt EXCEPT ![d] = NoAttempt]
    /\ page' = [page EXCEPT ![d] = IF over THEN NoRow ELSE @]
    /\ candidate' = [candidate EXCEPT ![d] = IF over THEN NoCandidate ELSE @]

(* A reload keeps what is durable: the document returns from the object    *)
(* row, based on the pending entry where there is one.  The new workspace  *)
(* writes under a new writerId.                                            *)
Reload(t) ==
    LET d == DeviceOf[t] IN
    /\ failures < MaxFailures
    /\ failures' = failures + 1
    /\ memory' = [memory EXCEPT ![t] =
                    IF Pending(outbox[d]) THEN [row[d] EXCEPT !.revision = outbox[d].base]
                    ELSE row[d]]
    /\ active' = [active EXCEPT ![t] = FALSE]
    /\ queued' = [queued EXCEPT ![t] = FALSE]
    /\ saving' = [saving EXCEPT ![t] = NoSaving]
    /\ deferred' = [deferred EXCEPT ![t] = NoDeferred]
    /\ outbox' = IF outbox[d].writer = t THEN [outbox EXCEPT ![d].writer = Closed]
                 ELSE outbox
    /\ IF holder[d] = t
         THEN Finish(d, "idle")
         ELSE UNCHANGED syncVars
    /\ UNCHANGED <<serverVars, row, recoveries, copies, made, saved, lastKey>>

-----------------------------------------------------------------------------
(***************************************************************************)
(* The server.                                                             *)
(***************************************************************************)
Accepts(a) == a.key \notin done /\ server.revision = a.base

Execute(a) ==
    IF Accepts(a)
      THEN /\ server' = RowOf(a)
           /\ done' = done \cup {a.key}
      ELSE UNCHANGED <<server, done>>

(* A duplicate of an upload, or one whose sender has given up.             *)
LateDelivery(a) ==
    /\ "late" \in Habits
    /\ Accepts(a)
    /\ Execute(a)
    /\ UNCHANGED <<sent, discarded, deviceVars, syncVars, tabVars, made, saved,
                   lastKey, failures>>

(* A user purges the note: the edits the server holds are given up.        *)
Purge ==
    /\ "purge" \in Habits
    /\ server # NoRow
    /\ server' = NoRow
    /\ discarded' = discarded \cup server.content
    /\ UNCHANGED <<done, sent, deviceVars, syncVars, tabVars, made, saved,
                   lastKey, failures>>

-----------------------------------------------------------------------------
(***************************************************************************)
(* Uploading.  One tab of a device synchronizes at a time.  A run pushes   *)
(* what is pending before it pulls, but when the lease has lapsed it first *)
(* reconciles: it is answered before the upload, like a pull.              *)
(***************************************************************************)
SyncStart(t) ==
    LET d == DeviceOf[t] IN
    /\ holder[d] = NoTab
    /\ holder' = [holder EXCEPT ![d] = t]
    /\ \/ step' = [step EXCEPT ![d] = IF Pending(outbox[d]) THEN "push" ELSE "pull"]
       \/ "lapse" \in Habits /\ step' = [step EXCEPT ![d] = "pull"]
    /\ UNCHANGED <<serverVars, deviceVars, attempt, page, candidate, tabVars,
                   made, saved, lastKey, failures>>

(* A staged upload is repeated unchanged, whatever was saved since.        *)
Stage(d) ==
    LET entry == outbox[d]
        a == IF Staged(entry) THEN entry.upload
             ELSE [key |-> entry.key, base |-> entry.base, content |-> entry.content]
    IN
    /\ step[d] = "push"
    /\ outbox' = [outbox EXCEPT ![d].upload = a]
    /\ attempt' = [attempt EXCEPT ![d] = a]
    /\ sent' = sent \cup {a}
    /\ step' = [step EXCEPT ![d] = "sent"]
    /\ UNCHANGED <<server, done, discarded, row, recoveries, copies, holder, page,
                   candidate, tabVars, made, saved, lastKey, failures>>

Upload(d) ==
    /\ step[d] = "sent"
    /\ Execute(attempt[d])
    /\ step' = [step EXCEPT ![d] =
                  IF Accepts(attempt[d]) \/ attempt[d].key \in done
                    THEN "accepted" ELSE "conflict"]
    /\ UNCHANGED <<sent, discarded, deviceVars, holder, attempt, page, candidate,
                   tabVars, made, saved, lastKey, failures>>

Fail(d) ==
    /\ step[d] \notin {"idle", "locked", "publish"}
    /\ failures < MaxFailures
    /\ failures' = failures + 1
    /\ Finish(d, "idle")
    /\ UNCHANGED <<serverVars, deviceVars, tabVars,
                   made, saved, lastKey>>

(* Fault: an acknowledgement ends whatever entry it finds. *)
CoversFault(a, entry) == TRUE

Covers(a, entry) == entry.key = a.key

(* acknowledgeOutboxEntry, in the write lane of the acknowledging tab.     *)
(* Its decryption and encryption are retried until the entry it started    *)
(* from is the one it replaces, so it is one step.  A newer entry is moved *)
(* onto the accepted revision; the tab's memory takes that revision over.  *)
Acknowledge(d, a, next) ==
    LET t == holder[d]
        entry == outbox[d]
        accepted == a.base + 1
        rebases == Pending(entry) /\ ~Covers(a, entry) /\ entry.base < accepted
        after == IF Covers(a, entry) THEN NoEntry
                 ELSE IF rebases
                   THEN [entry EXCEPT !.key = lastKey + 1, !.base = accepted,
                                      !.upload = NoAttempt]
                 ELSE IF entry.upload.key = a.key THEN [entry EXCEPT !.upload = NoAttempt]
                 ELSE entry
        noted == IF Pending(after) THEN after.base ELSE accepted
    IN
    /\ LaneFree(t)
    /\ rebases => lastKey < MaxKeys
    /\ outbox' = [outbox EXCEPT ![d] = after]
    /\ row' = IF rebases THEN [row EXCEPT ![d] = RowOf(after)] ELSE row
    /\ lastKey' = IF rebases THEN after.key ELSE lastKey
    /\ memory' = IF Pending(entry) /\ Opened(t) /\ memory[t].revision < noted
                   THEN [memory EXCEPT ![t].revision = noted] ELSE memory
    /\ Finish(d, next)
    /\ UNCHANGED <<serverVars, recoveries, copies, active, queued, saving, deferred,
                   made, saved, failures>>

(* A run asked only to push ends here. *)
Accepted(d, next) == step[d] = "accepted" /\ Acknowledge(d, attempt[d], next)

(* The refused upload is withdrawn; the pull will decide about its entry.  *)
Conflict(d) ==
    /\ step[d] = "conflict"
    /\ outbox' = IF outbox[d].upload.key = attempt[d].key
                   THEN [outbox EXCEPT ![d].upload = NoAttempt] ELSE outbox
    /\ Finish(d, "pull")
    /\ UNCHANGED <<serverVars, row, recoveries, copies, tabVars, made, saved, lastKey, failures>>

-----------------------------------------------------------------------------
(***************************************************************************)
(* Pulling.  The feed delivers the row (SyncFeed is about that); here it   *)
(* is answered by every pull, as after the cursor has been reset.          *)
(***************************************************************************)
Fetch(d) ==
    /\ step[d] = "pull"
    /\ page' = [page EXCEPT ![d] = server]
    /\ step' = [step EXCEPT ![d] = "page"]
    /\ UNCHANGED <<serverVars, deviceVars, holder, attempt, candidate, tabVars,
                   made, saved, lastKey, failures>>

(* The answer is the device's own proposal come back, staged or not.       *)
Echoes(d) ==
    {a \in {outbox[d].upload, [key |-> outbox[d].key, base |-> outbox[d].base,
                               content |-> outbox[d].content]} :
        a # NoAttempt /\ RowOf(a) = page[d]}

(* Fault: the test for news is off by one. *)
CoveredFault(d) == page[d].revision <= outbox[d].base + 1

(* The pending proposal is already based on the answered row. *)
Covered(d) == page[d].revision <= outbox[d].base

(* Reasons to leave the local version as it is.                            *)
Passed(d) ==
    LET entry == outbox[d]
        purged == page[d] = NoRow
    IN
    \/ queued[holder[d]]
    \/ ~Pending(entry) /\ ~purged /\ row[d] = page[d]
    \/ ~Pending(entry) /\ ~purged /\ row[d].revision > page[d].revision
    \/ ~Pending(entry) /\ purged /\ recoveries[d] # {}
    \/ Pending(entry) /\ ~purged /\ Covered(d)

Pass(d) ==
    /\ step[d] = "page"
    /\ Passed(d)
    /\ queued[holder[d]] \/ Echoes(d) = {}
    /\ Finish(d, "idle")
    /\ UNCHANGED <<serverVars, deviceVars, tabVars,
                   made, saved, lastKey, failures>>

Echo(d) ==
    /\ step[d] = "page"
    /\ ~queued[holder[d]]
    /\ \E a \in Echoes(d) : Acknowledge(d, a, "idle")

(* A pending proposal is first made durable as the source of a conflict    *)
(* copy; the versions the decision was about are remembered.               *)
Decide(d) ==
    /\ step[d] = "page"
    /\ ~Passed(d)
    /\ Echoes(d) = {}
    /\ candidate' = [candidate EXCEPT ![d] = [entry |-> outbox[d], row |-> row[d]]]
    /\ recoveries' = IF Pending(outbox[d])
                       THEN [recoveries EXCEPT ![d] = @ \cup {outbox[d].content}]
                       ELSE recoveries
    /\ step' = [step EXCEPT ![d] = "decided"]
    /\ UNCHANGED <<serverVars, row, outbox, copies, holder, attempt, page, tabVars,
                   made, saved, lastKey, failures>>

Lock(d) ==
    /\ step[d] = "decided"
    /\ LaneFree(holder[d])
    /\ step' = [step EXCEPT ![d] = "locked"]
    /\ UNCHANGED <<serverVars, deviceVars, holder, attempt, page, candidate, tabVars,
                   made, saved, lastKey, failures>>

(* Fault: what was saved since the decision goes unnoticed. *)
StillDecidedFault(d) == ~queued[holder[d]]

StillDecided(d) ==
    /\ ~queued[holder[d]]
    /\ candidate[d] = [entry |-> outbox[d], row |-> row[d]]

(* The transaction that installs the answer, in the note's write lane.     *)
Commit(d) ==
    /\ step[d] = "locked"
    /\ IF StillDecided(d)
         THEN /\ row' = [row EXCEPT ![d] = page[d]]
              /\ outbox' = [outbox EXCEPT ![d] = NoEntry]
              /\ Finish(d, "publish")
         ELSE /\ UNCHANGED <<row, outbox>>
              /\ Finish(d, "idle")
    /\ UNCHANGED <<serverVars, recoveries, copies, tabVars,
                   made, saved, lastKey, failures>>

(* publishPullResult: the document follows, unless it is being typed into  *)
(* or is in the editor with nothing at stake, when it is held back.  After *)
(* a conflict the editor turns to the copy.                                *)
Publish(d) ==
    LET t == holder[d]
        conflict == Pending(candidate[d].entry)
        held == active[t] /\ ~conflict
        moved == active[t] /\ conflict /\ ~queued[t]
    IN
    /\ step[d] = "publish"
    /\ memory' = IF ~queued[t] /\ (held => page[d] = NoRow)
                   THEN [memory EXCEPT ![t] = page[d]] ELSE memory
    /\ deferred' = [deferred EXCEPT ![t] = IF moved THEN NoDeferred
                                           ELSE IF held THEN page[d] ELSE @]
    /\ active' = [active EXCEPT ![t] = @ /\ ~moved]
    /\ Finish(d, "idle")
    /\ UNCHANGED <<serverVars, deviceVars, queued, saving,
                   made, saved, lastKey, failures>>

(* The copy and its attachments have been acknowledged by the server.      *)
CompleteRecovery(d, content) ==
    /\ content \in recoveries[d]
    /\ recoveries' = [recoveries EXCEPT ![d] = @ \ {content}]
    /\ copies' = copies \cup content
    /\ UNCHANGED <<serverVars, row, outbox, syncVars, tabVars, made, saved, lastKey,
                   failures>>

-----------------------------------------------------------------------------
Users ==
    \/ \E t \in Tabs, e \in Edits : Type(t, e) \/ Restructure(t, e)
    \/ \E t \in Tabs : Open(t) \/ Leave(t) \/ Reload(t)
    \/ Purge

Saves(t) == BeginSave(t) \/ CommitSave(t)

Synchronizes(d) ==
    \/ Stage(d) \/ Upload(d) \/ Conflict(d)
    \/ Accepted(d, "pull") \/ Accepted(d, "idle")
    \/ Fetch(d) \/ Pass(d) \/ Echo(d) \/ Decide(d) \/ Lock(d) \/ Commit(d) \/ Publish(d)

Recovers(d) == \E content \in recoveries[d] : CompleteRecovery(d, content)

Next ==
    \/ Users
    \/ \E a \in sent : LateDelivery(a)
    \/ \E t \in Tabs : Saves(t) \/ SyncStart(t)
    \/ \E d \in Devices : Synchronizes(d) \/ Fail(d) \/ Recovers(d)

Spec == Init /\ [][Next]_vars

(* The save queue retries until a save succeeds; the coordinator and the   *)
(* hourly, visibility and online triggers always start another run, and a  *)
(* started run goes on unless it fails.  Failures are bounded.             *)
Fairness ==
    /\ \A t \in Tabs : WF_vars(Saves(t)) /\ WF_vars(SyncStart(t))
    /\ \A d \in Devices : WF_vars(Synchronizes(d)) /\ WF_vars(Recovers(d))

FairSpec == Spec /\ Fairness

-----------------------------------------------------------------------------
(***************************************************************************)
(* Properties.                                                             *)
(***************************************************************************)

(* Every row, proposal and lane has its type, in particular revisions and  *)
(* identifiers stay within what the writes made so far can have reached.   *)
VaultTypeOK ==
    /\ server \in Row /\ server.revision <= Cardinality(done) + 1
    /\ done \subseteq OperationKeys
    /\ sent \subseteq Attempt
    /\ discarded \subseteq Edits /\ copies \subseteq Edits
    /\ row \in [Devices -> Row]
    /\ outbox \in [Devices -> Entry]
    /\ recoveries \in [Devices -> SUBSET SUBSET Edits]
    /\ holder \in [Devices -> Tabs \cup {NoTab}]
    /\ step \in [Devices -> {"idle", "push", "sent", "accepted", "conflict", "pull",
                             "page", "decided", "locked", "publish"}]
    /\ attempt \in [Devices -> Attempt]
    /\ page \in [Devices -> Row]
    /\ candidate \in [Devices -> Candidate]
    /\ memory \in [Tabs -> Row]
    /\ active \in [Tabs -> BOOLEAN] /\ queued \in [Tabs -> BOOLEAN]
    /\ saving \in [Tabs -> Saving]
    /\ deferred \in [Tabs -> Row \cup {NoDeferred}]
    /\ saved \subseteq made /\ made \subseteq Edits
    /\ lastKey \in OperationKeys

(* An edit that was once saved locally is never lost: until a user purges  *)
(* the note that contains it, it is on the server, in a conflict copy, in  *)
(* a recovery record, or in a proposal still to be uploaded.  Concurrent   *)
(* updates keep the server's version and turn the local one into a copy    *)
(* (docs/system-design.md:172).                                            *)
NoLostEdit ==
    saved \subseteq discarded \cup server.content \cup copies
                   \cup (UNION {UNION recoveries[d] : d \in Devices})
                   \cup (UNION {outbox[d].content : d \in Devices})

(* A device that has nothing left to upload holds a version the server     *)
(* executed: an acknowledgement never ends a proposal it does not cover.   *)
CleanRowsAreServerRows ==
    \A d \in Devices :
        ~Pending(outbox[d]) => row[d].key \in done \cup {FirstRow.key}

(* Once users stop and failures are over, every proposal is accepted or    *)
(* turned into a copy, every device holds the server's row, and every tab  *)
(* that has left the note shows it.                                        *)
Settled ==
    /\ \A d \in Devices : ~Pending(outbox[d]) /\ row[d] = server /\ recoveries[d] = {}
    /\ \A t \in Tabs : ~queued[t] /\ (~active[t] => memory[t].content = server.content)

Convergence == <>[]Settled
=============================================================================
