------------------------------ MODULE SyncStore ------------------------------
(***************************************************************************)
(* The server's synchronization store for one user: the rows behind        *)
(* server/sync/objectStore.ts, server/sync/lifecycle.ts, server/trash.ts   *)
(* and the body-block route of server/sync/noteBodies.ts.                  *)
(*                                                                         *)
(* Every operation below is one SQLite transaction of a single-process     *)
(* server, so each is one atomic step.  Time is a counter of coarse ticks; *)
(* the ninety-day SYNC_LIFETIME_MS is Lifetime ticks and the five minutes  *)
(* by which a client's clock may run ahead is Skew ticks.                  *)
(***************************************************************************)
EXTENDS Integers, FiniteSets

CONSTANTS
    Ids,            \* object identifiers, ordered as SQLite orders object_id
    Keys,           \* operation identifiers, v2.<created>.<uuid>
    KeyTime,        \* creation time embedded in an operation identifier
    Blocks,         \* body-block identifiers
    Ciphertexts,    \* opaque encrypted payloads
    Requests,       \* object writes clients may submit
    NoCiphertext,   \* the payload of a row that does not exist
    Lifetime,       \* SYNC_LIFETIME_MS
    Skew,           \* tolerated client clock advance (300 000 ms)
    Retention,      \* trash_retention_days of the user
    MaxTime,        \* bound on the clock
    MaxSequence     \* bound on the change sequence

ObjectTypes == {"note", "folder", "attachment"}

NoId == 0           \* an absent owner reference

Request ==
    [objectId : Ids, objectType : ObjectTypes, baseRevision : Nat,
     deleted : BOOLEAN, ownerNoteId : Ids \cup {NoId},
     bodyBlockIds : SUBSET Blocks, ciphertext : Ciphertexts]

(* objectSchema: only an attachment, and every attachment, names its note; *)
(* only a note references body blocks.                                     *)
ValidRequest(r) ==
    /\ (r.objectType = "attachment") <=> (r.ownerNoteId # NoId)
    /\ r.bodyBlockIds # {} => r.objectType = "note"

ASSUME IdsAssumption == IsFiniteSet(Ids) /\ Ids \subseteq Nat \ {NoId}
ASSUME KeysAssumption == KeyTime \in [Keys -> Nat]
ASSUME RequestsAssumption ==
    Requests \subseteq Request /\ \A r \in Requests : ValidRequest(r)
ASSUME CiphertextAssumption == NoCiphertext \notin Ciphertexts
ASSUME LifetimeAssumption ==
    /\ Lifetime \in Nat \ {0}
    /\ Skew \in Nat
    /\ Retention \in Nat
    /\ MaxTime \in Nat
    /\ MaxSequence \in Nat

VARIABLES
    now,            \* the server's clock
    objects,        \* table objects, one row per identifier
    bodyBlocks,     \* table note_body_blocks, per note
    receipts,       \* table sync_receipts, per operation identifier
    changes,        \* table changes, per category and identifier
    historyVersions,\* table history_versions, per note
    sequence,       \* AUTOINCREMENT high-water mark of changes
    head,           \* sync_state.head
    floor,          \* sync_state.floor
    applied,        \* history: how often an operation was executed
    bornAt,         \* history: KeyTime of the operation that created a row
    purgedAt        \* history: when an identifier was last purged, or -1

history == <<applied, bornAt, purgedAt>>

vars == <<now, objects, bodyBlocks, receipts, changes, historyVersions,
          sequence, head, floor, history>>

-----------------------------------------------------------------------------
(***************************************************************************)
(* Rows.  Revision, sequence and change numbers start at 1, so 0 marks a   *)
(* row that does not exist.                                                *)
(***************************************************************************)
Object ==
    [revision : Nat, objectType : ObjectTypes \cup {"none"}, deleted : BOOLEAN,
     trashedAt : Nat, ownerNoteId : Ids \cup {NoId},
     bodyBlockIds : SUBSET Blocks, ciphertext : Ciphertexts \cup {NoCiphertext}]

NoObject ==
    [revision |-> 0, objectType |-> "none", deleted |-> FALSE, trashedAt |-> 0,
     ownerNoteId |-> NoId, bodyBlockIds |-> {}, ciphertext |-> NoCiphertext]

Categories == {"object", "history"}

Change == [sequence : Nat, changeType : {"none", "upsert", "purge"},
           revision : Nat, createdAt : Nat]

NoChange == [sequence |-> 0, changeType |-> "none", revision |-> 0, createdAt |-> 0]

Receipt == [revision : Nat, createdAt : Nat, digest : SUBSET Requests]

NoReceipt == [revision |-> 0, createdAt |-> 0, digest |-> {}]

Exists(id) == objects[id].revision > 0
Purged(id) == changes["object"][id].changeType = "purge"
HasReceipt(key) == receipts[key].revision > 0

(* Fault: no end to an operation's life. *)
ExpiredFault(key) == KeyTime[key] > now + Skew

Expired(key) ==
    KeyTime[key] > now + Skew \/ KeyTime[key] <= now - Lifetime

Init ==
    /\ now = 0
    /\ objects = [id \in Ids |-> NoObject]
    /\ bodyBlocks = [id \in Ids |-> {}]
    /\ receipts = [key \in Keys |-> NoReceipt]
    /\ changes = [category \in Categories |-> [id \in Ids |-> NoChange]]
    /\ historyVersions = [id \in Ids |-> 0]
    /\ sequence = 0
    /\ head = 0
    /\ floor = 0
    /\ applied = [key \in Keys |-> 0]
    /\ bornAt = [id \in Ids |-> 0]
    /\ purgedAt = [id \in Ids |-> -1]

-----------------------------------------------------------------------------
(***************************************************************************)
(* Object writes.  Outcome is the verdict writeObject reaches, in the      *)
(* order of its checks; only "accepted" changes any row.  Storage quota is *)
(* a refusal that leaves no trace here, see Quota in the README.           *)
(***************************************************************************)
(* Fault: only creations are conditional on the revision. *)
StaleBaseFault(r) == ~Exists(r.objectId) /\ Purged(r.objectId)

StaleBase(r) ==
    \/ objects[r.objectId].revision # r.baseRevision
    \/ ~Exists(r.objectId) /\ Purged(r.objectId)

TypeChanged(r) ==
    Exists(r.objectId) /\ objects[r.objectId].objectType # r.objectType

BlockMissing(r) == ~(r.bodyBlockIds \subseteq bodyBlocks[r.objectId])

OwnerRejected(r) ==
    LET current == objects[r.objectId] IN
    \/ current.ownerNoteId # NoId /\ current.ownerNoteId # r.ownerNoteId
    \/ /\ r.ownerNoteId # NoId
       /\ Exists(r.ownerNoteId)
       /\ objects[r.ownerNoteId].objectType # "note"

OwnerPurged(r) ==
    /\ r.ownerNoteId # NoId
    /\ ~(Exists(r.objectId) /\ r.deleted)
    /\ Purged(r.ownerNoteId)

Outcome(key, r) ==
    IF Expired(key) THEN "expired"
    ELSE IF HasReceipt(key)
      THEN IF r \in receipts[key].digest THEN "idempotent" ELSE "conflict"
    ELSE IF TypeChanged(r) \/ StaleBase(r) THEN "conflict"
    ELSE IF BlockMissing(r) THEN "missing_block"
    ELSE IF OwnerRejected(r) THEN "owner_error"
    ELSE IF OwnerPurged(r) THEN "conflict"
    ELSE "accepted"

(* The row an accepted write leaves: the first entry into the trash keeps  *)
(* its time, a restore clears it, an owner once set stays.                 *)
Written(r) ==
    LET current == objects[r.objectId] IN
    [revision |-> r.baseRevision + 1,
     objectType |-> r.objectType,
     deleted |-> r.deleted,
     trashedAt |-> IF ~r.deleted THEN 0
                   ELSE IF current.deleted THEN current.trashedAt ELSE now,
     ownerNoteId |-> r.ownerNoteId,
     bodyBlockIds |-> r.bodyBlockIds,
     ciphertext |-> r.ciphertext]

(* recordChange: the category's previous row of the object gives way to    *)
(* one at a fresh sequence number, and the head follows.                   *)
(* Fault: the head is derived before the new notice is inserted. *)
RecordChangeFault(category, id, type, revision) ==
    /\ sequence < MaxSequence
    /\ sequence' = sequence + 1
    /\ changes' = [changes EXCEPT ![category][id] =
                     [sequence |-> sequence + 1, changeType |-> type,
                      revision |-> revision, createdAt |-> now]]
    /\ head' = sequence

RecordChange(category, id, type, revision) ==
    /\ sequence < MaxSequence
    /\ sequence' = sequence + 1
    /\ changes' = [changes EXCEPT ![category][id] =
                     [sequence |-> sequence + 1, changeType |-> type,
                      revision |-> revision, createdAt |-> now]]
    /\ head' = sequence + 1

WriteObject(key, r) ==
    /\ Outcome(key, r) = "accepted"
    /\ objects' = [objects EXCEPT ![r.objectId] = Written(r)]
    /\ receipts' = [receipts EXCEPT ![key] =
                      [revision |-> r.baseRevision + 1, createdAt |-> now,
                       digest |-> {r}]]
    /\ RecordChange("object", r.objectId, "upsert", r.baseRevision + 1)
    /\ applied' = [applied EXCEPT ![key] = @ + 1]
    /\ bornAt' = IF Exists(r.objectId) THEN bornAt
                 ELSE [bornAt EXCEPT ![r.objectId] = KeyTime[key]]
    /\ UNCHANGED <<now, bodyBlocks, historyVersions, floor, purgedAt>>

(* POST /notes/:id/body-blocks/batch: blocks are immutable and only added. *)
AdmitBodyBlocks(note, blocks) ==
    /\ ~Purged(note)
    /\ Exists(note) => objects[note].objectType = "note"
    /\ bodyBlocks' = [bodyBlocks EXCEPT ![note] = @ \cup blocks]
    /\ UNCHANGED <<now, objects, receipts, changes, historyVersions, sequence,
                   head, floor, history>>

(* historyChanged: creating, labelling, protecting or deleting a snapshot  *)
(* of a stored note announces a new version of its history catalogue.      *)
HistoryChanged(note) ==
    /\ Exists(note)
    /\ objects[note].objectType = "note"
    /\ historyVersions' = [historyVersions EXCEPT ![note] = @ + 1]
    /\ RecordChange("history", note, "upsert", historyVersions[note] + 1)
    /\ UNCHANGED <<now, objects, bodyBlocks, receipts, floor, history>>

(* Another account's write takes a number of the shared AUTOINCREMENT.     *)
OtherUserChange ==
    /\ sequence < MaxSequence
    /\ sequence' = sequence + 1
    /\ UNCHANGED <<now, objects, bodyBlocks, receipts, changes,
                   historyVersions, head, floor, history>>

-----------------------------------------------------------------------------
(***************************************************************************)
(* Permanent removal.                                                      *)
(***************************************************************************)
AttachmentsOf(notes) == {id \in Ids : Exists(id) /\ objects[id].ownerNoteId \in notes}

(* removeObject numbers an attachment's purge before its note's.           *)
Numberings(removed) ==
    {number \in [removed -> sequence + 1 .. sequence + Cardinality(removed)] :
        /\ \A a, b \in removed : number[a] = number[b] => a = b
        /\ \A a, b \in removed :
             objects[a].ownerNoteId = b => number[a] < number[b]}

RemoveObjects(removed) ==
    /\ sequence + Cardinality(removed) <= MaxSequence
    /\ \E number \in Numberings(removed) :
         changes' = [category \in Categories |->
            [id \in Ids |->
               IF id \notin removed THEN changes[category][id]
               ELSE IF category = "history" THEN NoChange
               ELSE [sequence |-> number[id], changeType |-> "purge",
                     revision |-> 0, createdAt |-> now]]]
    /\ sequence' = sequence + Cardinality(removed)
    /\ head' = IF removed = {} THEN head ELSE sequence + Cardinality(removed)
    /\ objects' = [id \in Ids |-> IF id \in removed THEN NoObject ELSE objects[id]]
    /\ bodyBlocks' =
         [id \in Ids |-> IF id \in removed /\ objects[id].objectType = "note"
                          THEN {} ELSE bodyBlocks[id]]
    /\ historyVersions' =
         [id \in Ids |-> IF id \in removed THEN 0 ELSE historyVersions[id]]
    /\ purgedAt' = [id \in Ids |-> IF id \in removed THEN now ELSE purgedAt[id]]

(* An attachment leaves only together with its note, or after it.          *)
AttachmentBlocked(id, targets) ==
    LET owner == objects[id].ownerNoteId IN
    /\ objects[id].objectType = "attachment"
    /\ owner # NoId
    /\ owner \notin targets
    /\ Exists(owner)

PurgeAdmitted(targets, base) ==
    /\ \A id \in targets :
         \/ ~Exists(id) /\ Purged(id)
         \/ Exists(id) /\ objects[id].deleted /\ objects[id].revision = base[id]
    /\ \A id \in targets : Exists(id) => ~AttachmentBlocked(id, targets)

PurgeTargets(targets, base) ==
    LET selected == {id \in targets : Exists(id)} IN
    /\ PurgeAdmitted(targets, base)
    /\ RemoveObjects(selected \cup
         AttachmentsOf({id \in selected : objects[id].objectType = "note"}))
    /\ UNCHANGED <<now, receipts, floor, applied, bornAt>>

(* The hourly job purges each expired row in a transaction of its own.     *)
(* (trash_grace_until, set by one schema migration, only postpones it.)    *)
PurgeExpiredTrash(id) ==
    /\ Exists(id)
    /\ objects[id].deleted
    /\ objects[id].trashedAt <= now - Retention
    /\ objects[id].objectType = "attachment" =>
         ~(objects[id].ownerNoteId # NoId /\ Exists(objects[id].ownerNoteId))
    /\ PurgeTargets({id}, [target \in {id} |-> objects[target].revision])

(* POST /attachments/reclaim removes attachments of a live note.  Which    *)
(* ones (unreferenced and proposed ninety days ago, see README) is left    *)
(* open here.                                                              *)
ReclaimAttachments(note, unused) ==
    /\ Exists(note)
    /\ objects[note].objectType = "note"
    /\ ~objects[note].deleted
    /\ unused \subseteq AttachmentsOf({note})
    /\ RemoveObjects(unused)
    /\ UNCHANGED <<now, receipts, floor, applied, bornAt>>

(* cleanupSyncMetadata: old tombstones raise the floor as they go.         *)
(* Fault: tombstones are collected whatever their age. *)
ExpiredTombstonesFault == {id \in Ids : Purged(id)}

ExpiredTombstones ==
    {id \in Ids : Purged(id) /\ changes["object"][id].createdAt <= now - Lifetime}

CleanupSyncMetadata ==
    /\ \E collected \in {floor} \cup {changes["object"][id].sequence : id \in ExpiredTombstones} :
         /\ collected >= floor
         /\ \A id \in ExpiredTombstones : changes["object"][id].sequence <= collected
         /\ floor' = collected
    /\ changes' = [changes EXCEPT !["object"] =
                     [id \in Ids |-> IF id \in ExpiredTombstones THEN NoChange ELSE @[id]]]
    /\ receipts' = [key \in Keys |->
                      IF HasReceipt(key) /\ receipts[key].createdAt <= now - Lifetime
                        THEN NoReceipt ELSE receipts[key]]
    /\ UNCHANGED <<now, objects, bodyBlocks, historyVersions, sequence, head, history>>

Tick ==
    /\ now < MaxTime
    /\ now' = now + 1
    /\ UNCHANGED <<objects, bodyBlocks, receipts, changes, historyVersions,
                   sequence, head, floor, history>>

-----------------------------------------------------------------------------
(* Everything but object writes.                                           *)
Upkeep ==
    \/ \E note \in Ids, blocks \in SUBSET Blocks : AdmitBodyBlocks(note, blocks)
    \/ \E note \in Ids : HistoryChanged(note)
    \/ OtherUserChange
    \/ \E targets \in SUBSET Ids :
         \E base \in [targets -> {objects[id].revision : id \in Ids}] :
            PurgeTargets(targets, base)
    \/ \E id \in Ids : PurgeExpiredTrash(id)
    \/ \E note \in Ids, unused \in SUBSET Ids : ReclaimAttachments(note, unused)
    \/ CleanupSyncMetadata
    \/ Tick

Next ==
    \/ \E key \in Keys, r \in Requests : WriteObject(key, r)
    \/ Upkeep

Spec == Init /\ [][Next]_vars

-----------------------------------------------------------------------------
(***************************************************************************)
(* Properties.                                                             *)
(***************************************************************************)
TypeOK ==
    /\ now \in Nat
    /\ objects \in [Ids -> Object]
    /\ bodyBlocks \in [Ids -> SUBSET Blocks]
    /\ receipts \in [Keys -> Receipt]
    /\ changes \in [Categories -> [Ids -> Change]]
    /\ historyVersions \in [Ids -> Nat]
    /\ sequence \in Nat /\ head \in Nat /\ floor \in Nat
    /\ applied \in [Keys -> Nat]
    /\ bornAt \in [Ids -> Nat]
    /\ purgedAt \in [Ids -> Int]

(* Retrying an operation whose response was lost never executes it twice:  *)
(* the receipt outlives every moment at which the identifier is still      *)
(* accepted, also when the object was purged and its tombstone collected   *)
(* in between (writeObject's receipt lookup against cleanupSyncMetadata).  *)
(* It needs clients whose clocks do not run ahead: Skew = 0.               *)
AtMostOnce == \A key \in Keys : applied[key] <= 1

(* An operation authored before an object was permanently removed can      *)
(* never bring the object back, however late it arrives: the tombstone     *)
(* refuses it until its identifier has expired.                            *)
NoResurrection == \A id \in Ids : Exists(id) => bornAt[id] > purgedAt[id]

(* The change log tells every reader about every object exactly once: a    *)
(* stored object has one upsert notice of its current revision, a purge    *)
(* notice belongs to no stored object, no two notices share a number, and  *)
(* none lies beyond the head (or below the floor, for a tombstone).        *)
ChangeLogExact ==
    /\ floor <= head
    /\ \A id \in Ids :
         LET notice == changes["object"][id] IN
         /\ Exists(id) <=> notice.changeType = "upsert"
         /\ Exists(id) => notice.revision = objects[id].revision
         /\ Purged(id) => notice.sequence > floor
    /\ \A c, d \in Categories, a, b \in Ids :
         /\ changes[c][a].sequence <= head
         /\ changes[c][a].sequence = changes[d][b].sequence
              => changes[c][a].sequence = 0 \/ <<c, a>> = <<d, b>>

(* A stored note can always be read back whole: every body block its row   *)
(* references is stored, whatever was uploaded, replaced or purged.        *)
BodyComplete == \A id \in Ids : objects[id].bodyBlockIds \subseteq bodyBlocks[id]

(* Purging a note leaves no attachment of it behind, and none can be added *)
(* while its tombstone is kept.  Clients name only notes as owners.        *)
OwnersAreNotes ==
    \A r, q \in Requests : q.objectId = r.ownerNoteId => q.objectType = "note"

NoOrphanAttachment ==
    \A id \in Ids : Exists(id) /\ objects[id].ownerNoteId # NoId
                      => ~Purged(objects[id].ownerNoteId)

(* Revisions move by single steps.  A row disappears only out of the       *)
(* trash, together with the trashed note that owns it, or, reclaimed, from *)
(* a live note that the same step leaves alone.                            *)
RevisionDiscipline ==
    [][\A id \in Ids :
        \/ objects'[id] = objects[id]
        \/ objects'[id].revision = objects[id].revision + 1
        \/ /\ objects'[id] = NoObject
           /\ \/ objects[id].deleted
              \/ LET owner == objects[id].ownerNoteId IN
                 /\ owner \in Ids
                 /\ \/ objects[owner].deleted /\ objects'[owner] = NoObject
                    \/ ~objects[owner].deleted /\ objects'[owner] = objects[owner]]_vars

(* The store implements the registers: whatever logging, receipts and      *)
(* collection do, a client sees at most one execution of each operation,   *)
(* on top of the revision it named.                                        *)
OwnedIds == {r.objectId : r \in {q \in Requests : q.ownerNoteId # NoId}}

Registers ==
    INSTANCE ObjectRegisters WITH
        Owned <- OwnedIds,
        revision <- [id \in Ids |-> objects[id].revision],
        payload <- [id \in Ids |-> objects[id].ciphertext],
        trashed <- [id \in Ids |-> objects[id].deleted],
        done <- {key \in Keys : applied[key] > 0}

ImplementsRegisters == Registers!Spec

(* What every state of the store keeps: its types, the log's exactness,    *)
(* whole notes, and no attachment without its note.                        *)
StoreSafe == TypeOK /\ ChangeLogExact /\ BodyComplete /\ NoOrphanAttachment
=============================================================================
