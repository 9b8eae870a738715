------------------------------ MODULE HistorySync ------------------------------
(***************************************************************************)
(* A browser's history queue against the server:                           *)
(* features/vault/createHistorySync.ts, historyController.ts,              *)
(* useVaultHistory.ts and useVaultHistoryActions.ts, with the answers of   *)
(* server/history/routes.ts to one note's snapshots.                       *)
(*                                                                         *)
(* One upload run at a time (the synchronization coordinator); the user    *)
(* labels, deletes and clears between its requests and their answers, and  *)
(* another device clears the history too.  An answer may be lost.          *)
(***************************************************************************)
EXTENDS Integers, FiniteSets

CONSTANTS
    Snapshots,      \* natural numbers in the order of their capture
    Manual,         \* snapshots of kind 'manual': queued with protected = true
    Labels,         \* names a user gives, besides the name at capture
    MaxLabels,      \* bound on label changes
    MaxLost,        \* bound on lost answers
    Pauses          \* whether the server may lack room or the note

HistorySyncAssumption ==
    /\ Snapshots \subseteq Nat /\ Snapshots = 1 .. Cardinality(Snapshots)
    /\ Manual \subseteq Snapshots
    /\ "captured" \notin Labels
    /\ MaxLabels \in Nat /\ MaxLost \in Nat /\ Pauses \in BOOLEAN

VARIABLES
    local,      \* historySnapshots and historyIndex: a snapshot's row
    outbox,     \* historyOutbox: snapshots still to be created
    meta,       \* historyMetadataOutbox
    paused,     \* historyQuotaPaused.current
    run,        \* the upload run: its stage, the snapshots and metadata it read, an answer
    errand,     \* a request of the user under way: its kind and its answer
    table,      \* server: note_history
    receipts,   \* server: sync_receipts
    barred,     \* server: snapshots captured before the last clearing
    admits,     \* server: "yes", no room ("full") or no note ("absent")
    wanted,     \* history: the label the user last gave
    unwanted,   \* history: snapshots the user deleted or cleared
    labelled, lost, \* counters of the bounds
    alarm       \* an answer failed the check on protection

client == <<local, outbox, meta, paused>>
server == <<table, receipts, barred>>
history == <<wanted, unwanted, labelled, lost, alarm>>
vars == <<client, run, errand, server, admits, history>>

NoRow == [there |-> FALSE, label |-> "captured", protected |-> FALSE]
Row(label, protected) == [there |-> TRUE, label |-> label, protected |-> protected]
NoMeta == [gen |-> 0, label |-> "captured", protect |-> "keep"]
NothingRead == [s \in Snapshots |-> NoMeta]
Idle == [stage |-> "idle", queue |-> {}, read |-> NothingRead, answer |-> "none"]
NoErrand == [kind |-> "none", keys |-> {}, answer |-> "none"]

There(rows) == {s \in Snapshots : rows[s].there}
Queued == {s \in Snapshots : meta[s].gen # 0}
Forget(f, set, none) == [s \in Snapshots |-> IF s \in set THEN none ELSE f[s]]
Flag(change, old) == IF change = "keep" THEN old ELSE change = "protect"

Init ==
    /\ local = [s \in Snapshots |-> NoRow] /\ outbox = {}
    /\ meta = [s \in Snapshots |-> NoMeta] /\ paused = FALSE
    /\ run = Idle /\ errand = NoErrand
    /\ table = [s \in Snapshots |-> NoRow] /\ receipts = {} /\ barred = {}
    /\ admits = "yes"
    /\ wanted = [s \in Snapshots |-> "captured"] /\ unwanted = {}
    /\ labelled = 0 /\ lost = 0 /\ alarm = FALSE

-----------------------------------------------------------------------------
(* saveHistorySnapshot and createSnapshot: one transaction puts the row and *)
(* the outbox entry.  Automatic snapshots wait while the quota is paused.   *)
Captured == There(local) \cup unwanted \cup receipts \cup outbox \cup barred

Capture(s) ==
    /\ s \notin Captured /\ \A t \in Snapshots : t < s => t \in Captured
    /\ s \in Manual \/ ~paused
    /\ local' = [local EXCEPT ![s] = Row("captured", s \in Manual)]
    /\ outbox' = outbox \cup {s}
    /\ UNCHANGED <<meta, paused, run, errand, server, admits, history>>

(* updateHistoryMetadata and queueMetadataUpdate: a later change of the name *)
(* keeps a protection still queued.                                          *)
Label(s, label, change) ==
    /\ local[s].there /\ labelled < MaxLabels
    /\ labelled' = labelled + 1
    /\ local' = [local EXCEPT ![s] = Row(label, Flag(change, @.protected))]
    /\ meta' = [meta EXCEPT ![s] =
                  [gen |-> labelled', label |-> label,
                   protect |-> IF change = "keep" THEN @.protect ELSE change]]
    /\ wanted' = [wanted EXCEPT ![s] = label]
    /\ UNCHANGED <<outbox, paused, run, errand, server, admits, unwanted, lost, alarm>>

-----------------------------------------------------------------------------
(***************************************************************************)
(* The upload run: pushHistoryPending, then pushHistoryMetadataPending.    *)
(***************************************************************************)
Settle(stage, set, read) ==
    IF set = {} THEN Idle
    ELSE [stage |-> stage, queue |-> set, read |-> read, answer |-> "none"]

(* The entry whose turn it is: snapshots go in the order of their capture,  *)
(* changes of metadata in the order they were made.                         *)
Ahead(s, t) == IF run.stage = "post" THEN s < t ELSE run.read[s].gen < run.read[t].gen
Turn(s) == s \in run.queue /\ \A t \in run.queue \ {s} : Ahead(s, t)
At(s, stage, answer) == Turn(s) /\ run.stage = stage /\ run.answer = answer

(* The rest of the queue, then the metadata, then the end of the run.       *)
StartPatches == Settle("patch", Queued, meta)

Proceed(s) ==
    IF run.queue # {s} THEN [run EXCEPT !.queue = @ \ {s}, !.read[s] = NoMeta, !.answer = "none"]
    ELSE IF run.stage = "post" THEN StartPatches ELSE Idle

StartRun ==
    /\ run = Idle
    /\ outbox # {} \/ Queued # {}
    /\ run' = IF outbox # {} THEN Settle("post", outbox, NothingRead) ELSE StartPatches
    /\ UNCHANGED <<client, errand, server, admits, history>>

(* What POST answers, in the order of its checks.                           *)
PostAnswer(s) ==
    IF s \in receipts THEN "again"
    ELSE IF admits = "absent" THEN "absent"
    ELSE IF s \in barred /\ s \notin Manual THEN "cleared"
    ELSE IF admits = "full" THEN "full" ELSE "created"

PostExecutes(s) ==
    /\ At(s, "post", "none")
    /\ run' = [run EXCEPT !.answer = PostAnswer(s)]
    /\ IF PostAnswer(s) = "created"
         THEN /\ table' = [table EXCEPT ![s] = Row("captured", s \in Manual)]
              /\ receipts' = receipts \cup {s}
         ELSE UNCHANGED <<table, receipts>>
    /\ UNCHANGED <<client, errand, barred, admits, history>>

(* The acknowledgement of a POST.  The answer to a repeated request carries *)
(* no protection flag, and for a protected entry the check on it throws.    *)
Acknowledged(s) == run.answer = "created" \/ (run.answer = "again" /\ s \notin Manual)

PostSettles(s) ==
    /\ Turn(s) /\ run.stage = "post" /\ Acknowledged(s)
    /\ outbox' = outbox \ {s} /\ paused' = FALSE
    /\ run' = Proceed(s)
    /\ UNCHANGED <<local, meta, errand, server, admits, history>>

PostUnacknowledged(s) ==
    /\ At(s, "post", "again") /\ s \in Manual
    /\ alarm' = TRUE /\ run' = Idle
    /\ UNCHANGED <<client, errand, server, admits, wanted, unwanted, labelled, lost>>

(* Fault: the refusal of a cleared snapshot removes its row alone. *)
PostClearedFault(s) ==
    /\ At(s, "post", "cleared")
    /\ local' = Forget(local, {s}, NoRow)
    /\ unwanted' = unwanted \cup {s}
    /\ run' = Proceed(s)
    /\ UNCHANGED <<outbox, meta, paused, errand, server, admits, wanted, labelled, lost, alarm>>

PostCleared(s) ==
    /\ At(s, "post", "cleared")
    /\ local' = Forget(local, {s}, NoRow) /\ outbox' = outbox \ {s}
    /\ unwanted' = unwanted \cup {s}
    /\ run' = Proceed(s)
    /\ UNCHANGED <<meta, paused, errand, server, admits, wanted, labelled, lost, alarm>>

(* 413 and 404 end the queue, and the metadata follows all the same.        *)
HeldBack(s) ==
    /\ Turn(s) /\ run.stage = "post" /\ run.answer \in {"full", "absent"}
    /\ paused' = (paused \/ run.answer = "full")
    /\ run' = StartPatches
    /\ UNCHANGED <<local, outbox, meta, errand, server, admits, history>>

PatchSkipped(s) ==
    /\ At(s, "patch", "none") /\ ~local[s].there
    /\ meta' = Forget(meta, {s}, NoMeta)
    /\ run' = Proceed(s)
    /\ UNCHANGED <<local, outbox, paused, errand, server, admits, history>>

PatchExecutes(s) ==
    /\ At(s, "patch", "none") /\ local[s].there
    /\ run' = [run EXCEPT !.answer =
                 IF table[s].there THEN "done"
                 ELSE IF local[s].protected THEN "kept" ELSE "missing"]
    /\ table' = [table EXCEPT ![s] =
                   IF @.there THEN Row(run.read[s].label, Flag(run.read[s].protect, @.protected))
                   ELSE @]
    /\ UNCHANGED <<client, errand, receipts, barred, admits, history>>

(* Fault: the acknowledgement removes whatever is queued now. *)
PatchSettlesFault(s) ==
    /\ At(s, "patch", "done")
    /\ meta' = Forget(meta, {s}, NoMeta)
    /\ run' = Proceed(s)
    /\ UNCHANGED <<local, outbox, paused, errand, server, admits, history>>

(* A label queued while the request was under way stays queued.             *)
PatchSettles(s) ==
    /\ At(s, "patch", "done")
    /\ meta' = IF meta[s].gen = run.read[s].gen THEN Forget(meta, {s}, NoMeta) ELSE meta
    /\ run' = Proceed(s)
    /\ UNCHANGED <<local, outbox, paused, errand, server, admits, history>>

(* 404: the snapshot is gone, unless the local row was protected.           *)
PatchMissing(s) ==
    /\ At(s, "patch", "missing")
    /\ local' = Forget(local, {s}, NoRow) /\ meta' = Forget(meta, {s}, NoMeta)
    /\ run' = Proceed(s)
    /\ UNCHANGED <<outbox, paused, errand, server, admits, history>>

PatchKept(s) ==
    /\ At(s, "patch", "kept")
    /\ run' = Idle
    /\ UNCHANGED <<client, errand, server, admits, history>>

(* A lost request or answer ends the run.                                   *)
Loses ==
    /\ run # Idle /\ lost < MaxLost
    /\ lost' = lost + 1 /\ run' = Idle
    /\ UNCHANGED <<client, errand, server, admits, wanted, unwanted, labelled, alarm>>

-----------------------------------------------------------------------------
(***************************************************************************)
(* The user's own requests; their local part follows the server's answer.  *)
(***************************************************************************)
DeleteRequest(s) ==
    /\ errand = NoErrand /\ local[s].there /\ ~local[s].protected
    /\ table[s].there /\ ~table[s].protected
    /\ table' = Forget(table, {s}, NoRow)
    /\ errand' = [kind |-> "delete", keys |-> {s}, answer |-> "done"]
    /\ unwanted' = unwanted \cup {s}
    /\ UNCHANGED <<client, run, receipts, barred, admits, wanted, labelled, lost, alarm>>

Unprotected(rows) == {s \in There(rows) : ~rows[s].protected}

(* What a clearing means: the unprotected versions on the server and those  *)
(* that were captured unprotected and are still to be uploaded.             *)
Cleared == Unprotected(table) \cup ((outbox \ Manual) \ There(table))

(* clearCurrentHistory: refused while a protection is still queued.         *)
ClearRequest ==
    /\ errand = NoErrand
    /\ \A s \in Queued : meta[s].protect = "keep"
    /\ admits # "absent"
    /\ barred' = Captured
    /\ unwanted' = unwanted \cup Cleared
    /\ table' = Forget(table, Unprotected(table), NoRow)
    /\ errand' = [kind |-> "clear", keys |-> Captured, answer |-> "done"]
    /\ UNCHANGED <<client, run, receipts, admits, wanted, labelled, lost, alarm>>

(* loadHistory reads the rows first and the catalogue with its barrier next. *)
LoadRequest ==
    /\ errand = NoErrand
    /\ errand' = [kind |-> "load", keys |-> Unprotected(local) \cap barred, answer |-> "done"]
    /\ UNCHANGED <<client, run, server, admits, history>>

(* The local transaction: rows, indexes and both queues of what is gone.  A *)
(* clearing looks at the protection of the rows as they are now.            *)
ErrandEnds ==
    /\ errand # NoErrand
    /\ LET gone == IF errand.kind = "clear" THEN errand.keys \cap Unprotected(local) ELSE errand.keys
       IN  /\ local' = Forget(local, gone, NoRow) /\ meta' = Forget(meta, gone, NoMeta)
           /\ outbox' = outbox \ gone
    /\ errand' = NoErrand
    /\ UNCHANGED <<paused, run, server, admits, history>>

RemoteClear ==
    /\ admits # "absent"
    /\ barred' = Captured
    /\ unwanted' = unwanted \cup Cleared
    /\ table' = Forget(table, Unprotected(table), NoRow)
    /\ UNCHANGED <<client, run, errand, receipts, admits, wanted, labelled, lost, alarm>>

(* Other uploads and removals fill the budget or make room; the note may be *)
(* uploaded only after its snapshot.                                        *)
ServerChanges ==
    /\ Pauses
    /\ admits' \in {"yes", "full", "absent"} /\ (receipts # {} => admits' # "absent")
    /\ UNCHANGED <<client, run, errand, server, history>>

-----------------------------------------------------------------------------
Answered(s) ==
    \/ PostExecutes(s) \/ PostSettles(s) \/ PostUnacknowledged(s) \/ PostCleared(s)
    \/ HeldBack(s)
    \/ PatchSkipped(s) \/ PatchExecutes(s) \/ PatchSettles(s) \/ PatchMissing(s)
    \/ PatchKept(s)

RunSteps == StartRun \/ \E s \in run.queue : Answered(s)

Next ==
    \/ \E s \in Snapshots : Capture(s) \/ DeleteRequest(s)
    \/ \E s \in Snapshots :
         \/ \E label \in Labels : Label(s, label, "keep")
         \/ \E change \in {"protect", "release"} : Label(s, wanted[s], change)
    \/ RunSteps \/ Loses
    \/ ClearRequest \/ LoadRequest \/ ErrandEnds \/ RemoteClear
    \/ ServerChanges

Spec == Init /\ [][Next]_vars
FairSpec == Spec /\ WF_vars(RunSteps) /\ WF_vars(ErrandEnds)

-----------------------------------------------------------------------------
(***************************************************************************)
(* Properties.                                                             *)
(***************************************************************************)
HistorySyncTypeOK ==
    /\ local \in [Snapshots -> [there : BOOLEAN, label : Labels \cup {"captured"}, protected : BOOLEAN]]
    /\ outbox \subseteq Snapshots
    /\ meta \in [Snapshots -> [gen : 0 .. MaxLabels, label : Labels \cup {"captured"},
                               protect : {"keep", "protect", "release"}]]
    /\ run.stage \in {"idle", "post", "patch"}
    /\ run.stage = "idle" <=> run.queue = {}
    /\ errand.kind \in {"none", "delete", "clear", "load"} /\ errand.keys \subseteq Snapshots
    /\ table \in [Snapshots -> [there : BOOLEAN, label : Labels \cup {"captured"}, protected : BOOLEAN]]
    /\ receipts \subseteq Snapshots /\ barred \subseteq Snapshots /\ unwanted \subseteq Snapshots

(* A captured snapshot is never silently lost: it waits in the outbox until *)
(* the server has taken it, or the user deleted or cleared it, however the  *)
(* run is interrupted or held back (docs/system-design.md: the local queue  *)
(* is not dropped when the budget is reached).                              *)
NothingDropped ==
    \A s \in Captured : s \in outbox \cup receipts \cup unwanted \cup barred

(* The label on the server is the one the user gave last as soon as no      *)
(* label is queued: neither an acknowledgement nor a repeated request drops *)
(* or overtakes a newer one.  (Of snapshots this device still shows.)       *)
LabelsSettle ==
    \A s \in There(table) \cap There(local) : meta[s].gen = 0 => table[s].label = wanted[s]

(* What the user deleted or cleared stays off the server, although the run  *)
(* read its entries before the request.                                     *)
UnwantedStaysAway == There(table) \cap unwanted = {}

(* The body and the label of a snapshot stay on the device as long as it is *)
(* queued (docs/system-design.md: data not yet synchronized is not removed). *)
QueuedRowsStay == outbox \subseteq There(local)

(* The check in pushHistoryPending never fails: a protected snapshot the    *)
(* server has taken is acknowledged as protected.                           *)
ProtectionAcknowledged == ~alarm

(* The outbox empties: every snapshot is taken or given up.                 *)
QueueDrains == \A s \in Snapshots : s \in outbox ~> s \notin outbox

(* The invariant that is checked. *)
QueueSafe == HistorySyncTypeOK /\ NothingDropped /\ LabelsSettle /\ UnwantedStaysAway
===============================================================================
