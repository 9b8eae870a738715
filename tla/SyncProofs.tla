----------------------------- MODULE SyncProofs ------------------------------
(***************************************************************************)
(* Theorems about SyncStore, for every set of identifiers, operations and  *)
(* requests and every lifetime, and about SyncFeed: the mirror of a device *)
(* is exact up to its cursor at every moment, and reconciliation drops     *)
(* nothing that lives.                                                     *)
(***************************************************************************)
EXTENDS SyncFeed, FiniteSetTheorems, TLAPS


-----------------------------------------------------------------------------
(***************************************************************************)
(* The inductive invariant, as conjuncts named for what they add.          *)
(***************************************************************************)
(* Notices are numbered in the order of their times, none beyond the head. *)
LogOrdered ==
    /\ floor <= head
    /\ head <= sequence
    /\ \A c \in Categories, a \in Ids :
         /\ changes[c][a].sequence <= head
         /\ changes[c][a].createdAt <= now
         /\ changes[c][a].changeType # "none" => changes[c][a].sequence > 0
    /\ \A c, d \in Categories, a, b \in Ids :
         /\ changes[c][a].sequence = changes[d][b].sequence
              => changes[c][a].sequence = 0 \/ <<c, a>> = <<d, b>>
         /\ changes[c][a].sequence > 0 /\ changes[c][a].sequence < changes[d][b].sequence
              => changes[c][a].createdAt <= changes[d][b].createdAt

(* Object notices and rows agree.                                          *)
LogMatchesRows ==
    \A id \in Ids :
       LET notice == changes["object"][id] IN
       /\ Exists(id) <=> notice.changeType = "upsert"
       /\ Exists(id) => notice.revision = objects[id].revision
       /\ Purged(id) => notice.sequence > floor

(* An executed operation still has its receipt, or has expired.            *)
ReceiptsCover ==
    \A key \in Keys :
       /\ applied[key] <= 1
       /\ HasReceipt(key) => KeyTime[key] <= receipts[key].createdAt
       /\ applied[key] = 1 => HasReceipt(key) \/ KeyTime[key] <= now - Lifetime

(* A purged identifier still has its tombstone, or no operation authored   *)
(* before the purge is accepted any more.                                  *)
TombstonesCover ==
    \A id \in Ids :
       /\ purgedAt[id] <= now
       /\ Exists(id) => bornAt[id] > purgedAt[id]
       /\ ~Exists(id) /\ purgedAt[id] >= 0
            => \/ Purged(id) /\ changes["object"][id].createdAt = purgedAt[id]
               \/ purgedAt[id] <= now - Lifetime

(* A row has the type and the owner of a request for it.                   *)
RowsRequested ==
    \A id \in Ids : Exists(id) =>
       \E r \in Requests : /\ r.objectId = id
                           /\ r.objectType = objects[id].objectType
                           /\ r.ownerNoteId = objects[id].ownerNoteId

(* What does not exist owns nothing and holds nothing.                     *)
AbsentRows == \A id \in Ids : ~Exists(id) => objects[id] = NoObject

-----------------------------------------------------------------------------
(***************************************************************************)
(* Facts about the helpers.                                                *)
(***************************************************************************)
LEMMA RequestFacts ==
    ASSUME NEW r \in Requests
    PROVE  /\ r \in Request
           /\ ValidRequest(r)
           /\ r.objectId \in Ids /\ r.objectType \in ObjectTypes
           /\ r.baseRevision \in Nat /\ r.deleted \in BOOLEAN
           /\ r.ownerNoteId \in Ids \cup {NoId}
           /\ r.bodyBlockIds \in SUBSET Blocks /\ r.ciphertext \in Ciphertexts
BY RequestsAssumption DEF Request

(* What a removal does to the log, with the numbers it drew.               *)
LEMMA RemovalFacts ==
    ASSUME TypeOK, NEW removed \in SUBSET Ids, RemoveObjects(removed)
    PROVE  \E number \in [removed -> Nat] :
             /\ \A a, b \in removed : number[a] = number[b] => a = b
             /\ \A a \in removed : sequence < number[a] /\ number[a] <= head'
             /\ changes' = [category \in Categories |->
                  [id \in Ids |->
                     IF id \notin removed THEN changes[category][id]
                     ELSE IF category = "history" THEN NoChange
                     ELSE [sequence |-> number[id], changeType |-> "purge",
                           revision |-> 0, createdAt |-> now]]]
             /\ sequence' \in Nat /\ head' \in Nat /\ sequence <= sequence'
             /\ \/ removed = {} /\ head' = head
                \/ removed # {} /\ head' = sequence'
<1>1. IsFiniteSet(removed)
  BY FS_Subset, IdsAssumption
<1>2. Cardinality(removed) \in Nat
  BY <1>1, FS_CardinalityType
<1>3. PICK number \in Numberings(removed) :
        changes' = [category \in Categories |->
           [id \in Ids |->
              IF id \notin removed THEN changes[category][id]
              ELSE IF category = "history" THEN NoChange
              ELSE [sequence |-> number[id], changeType |-> "purge",
                    revision |-> 0, createdAt |-> now]]]
  BY DEF RemoveObjects
<1>4. /\ number \in [removed -> sequence + 1 .. sequence + Cardinality(removed)]
      /\ \A a, b \in removed : number[a] = number[b] => a = b
  BY DEF Numberings
<1>5. sequence \in Nat /\ head \in Nat
  BY DEF TypeOK
<1>6. /\ sequence' = sequence + Cardinality(removed)
      /\ head' = IF removed = {} THEN head ELSE sequence + Cardinality(removed)
  BY DEF RemoveObjects
<1>7. number \in [removed -> Nat]
  BY <1>2, <1>4, <1>5
<1>8. \A a \in removed : sequence < number[a] /\ number[a] <= head'
  BY <1>2, <1>4, <1>5, <1>6
<1> QED
  BY <1>2, <1>3, <1>4, <1>5, <1>6, <1>7, <1>8

(* A purge or a reclamation is a removal of stored objects only.           *)
LEMMA PurgeRemoves ==
    ASSUME TypeOK, NEW targets \in SUBSET Ids, NEW base, PurgeTargets(targets, base)
    PROVE  \E removed \in SUBSET Ids :
             /\ RemoveObjects(removed)
             /\ \A id \in removed : Exists(id)
             /\ \A id \in removed :
                  \/ objects[id].deleted
                  \/ LET owner == objects[id].ownerNoteId IN
                     owner \in removed /\ objects[owner].deleted
             /\ \A id \in removed : objects[id].objectType = "note" /\ id \in targets
                  => AttachmentsOf({id}) \subseteq removed
             /\ \A id \in removed \ targets : objects[id].ownerNoteId \in Ids
             /\ UNCHANGED <<now, receipts, floor, applied, bornAt>>
<1> DEFINE selected == {id \in targets : Exists(id)}
           removed == selected \cup
              AttachmentsOf({id \in selected : objects[id].objectType = "note"})
<1>1. RemoveObjects(removed) /\ UNCHANGED <<now, receipts, floor, applied, bornAt>>
  BY DEF PurgeTargets
<1>2. removed \in SUBSET Ids
  BY DEF AttachmentsOf
<1>3. \A id \in removed : Exists(id)
  BY DEF AttachmentsOf
<1>4. \A id \in selected : objects[id].deleted
  BY DEF PurgeTargets, PurgeAdmitted
<1>5. \A id \in removed : \/ objects[id].deleted
                          \/ /\ objects[id].ownerNoteId \in removed
                             /\ objects[objects[id].ownerNoteId].deleted
  BY <1>4 DEF AttachmentsOf
<1>6. \A id \in removed : objects[id].objectType = "note" /\ id \in targets
                            => AttachmentsOf({id}) \subseteq removed
  BY <1>3 DEF AttachmentsOf
<1>7. \A id \in removed \ targets : objects[id].ownerNoteId \in Ids
  BY DEF AttachmentsOf
<1> HIDE DEF removed
<1> QED
  BY <1>1, <1>2, <1>3, <1>5, <1>6, <1>7

-----------------------------------------------------------------------------
(***************************************************************************)
(* Type correctness.                                                       *)
(***************************************************************************)
LEMMA NoRowsTyped == NoObject \in Object /\ NoChange \in Change /\ NoReceipt \in Receipt
BY DEF NoObject, Object, NoChange, Change, NoReceipt, Receipt

LEMMA WrittenTyped ==
    ASSUME TypeOK, NEW r \in Requests
    PROVE  Written(r) \in Object
<1>1. objects[r.objectId] \in Object /\ now \in Nat
  BY RequestFacts DEF TypeOK
<1> QED
  BY <1>1, RequestFacts DEF Written, Object

LEMMA RemovalTyped ==
    ASSUME TypeOK, NEW removed \in SUBSET Ids, RemoveObjects(removed),
           UNCHANGED <<now, receipts, floor, applied, bornAt>>
    PROVE  TypeOK'
<1>1. PICK number \in [removed -> Nat] :
        changes' = [category \in Categories |->
           [id \in Ids |->
              IF id \notin removed THEN changes[category][id]
              ELSE IF category = "history" THEN NoChange
              ELSE [sequence |-> number[id], changeType |-> "purge",
                    revision |-> 0, createdAt |-> now]]]
  BY RemovalFacts
<1>2. sequence' \in Nat /\ head' \in Nat
  BY RemovalFacts
<1>3. \A category \in Categories, id \in Ids : changes'[category][id] \in Change
  <2> SUFFICES ASSUME NEW category \in Categories, NEW id \in Ids
               PROVE  changes'[category][id] \in Change
    OBVIOUS
  <2>1. CASE id \notin removed
    BY <1>1, <2>1 DEF TypeOK
  <2>2. CASE id \in removed
    BY <1>1, <2>2, NoRowsTyped DEF TypeOK, Change
  <2> QED
    BY <2>1, <2>2
<1>4. changes' \in [Categories -> [Ids -> Change]]
  BY <1>1, <1>3
<1>5. objects' \in [Ids -> Object] /\ bodyBlocks' \in [Ids -> SUBSET Blocks]
  BY NoRowsTyped DEF TypeOK, RemoveObjects
<1>6. historyVersions' \in [Ids -> Nat] /\ purgedAt' \in [Ids -> Int]
  BY DEF TypeOK, RemoveObjects
<1> QED
  BY <1>2, <1>4, <1>5, <1>6 DEF TypeOK

LEMMA ChangeTyped ==
    ASSUME TypeOK, NEW category \in Categories, NEW id \in Ids, NEW revision \in Nat,
           RecordChange(category, id, "upsert", revision)
    PROVE  /\ changes' \in [Categories -> [Ids -> Change]]
           /\ sequence' \in Nat /\ head' \in Nat
<1>1. [sequence |-> sequence + 1, changeType |-> "upsert",
       revision |-> revision, createdAt |-> now] \in Change
  BY DEF TypeOK, Change
<1> QED
  BY <1>1 DEF TypeOK, RecordChange

LEMMA TypeStep == TypeOK /\ [Next]_vars => TypeOK'
<1> SUFFICES ASSUME TypeOK, [Next]_vars
             PROVE  TypeOK'
  OBVIOUS
<1>1. ASSUME NEW key \in Keys, NEW r \in Requests, WriteObject(key, r)
      PROVE  TypeOK'
  <2>1. objects' \in [Ids -> Object]
    BY <1>1, WrittenTyped DEF TypeOK, WriteObject
  <2>2. [revision |-> r.baseRevision + 1, createdAt |-> now, digest |-> {r}] \in Receipt
    BY RequestFacts DEF TypeOK, Receipt
  <2>3. receipts' \in [Keys -> Receipt]
    BY <1>1, <2>2 DEF TypeOK, WriteObject
  <2>4. /\ changes' \in [Categories -> [Ids -> Change]]
        /\ sequence' \in Nat /\ head' \in Nat
    BY <1>1, ChangeTyped, RequestFacts DEF WriteObject, Categories
  <2>5. applied' \in [Keys -> Nat]
    BY <1>1 DEF TypeOK, WriteObject
  <2>6. bornAt' \in [Ids -> Nat]
    <3>1. bornAt \in [Ids -> Nat] /\ KeyTime[key] \in Nat
      BY KeysAssumption DEF TypeOK
    <3>2. bornAt' = bornAt \/ bornAt' = [bornAt EXCEPT ![r.objectId] = KeyTime[key]]
      BY <1>1 DEF WriteObject
    <3> QED
      BY <3>1, <3>2
  <2> QED
    BY <1>1, <2>1, <2>3, <2>4, <2>5, <2>6 DEF TypeOK, WriteObject
<1>2. ASSUME NEW note \in Ids, NEW blocks \in SUBSET Blocks, AdmitBodyBlocks(note, blocks)
      PROVE  TypeOK'
  BY <1>2 DEF TypeOK, AdmitBodyBlocks, history
<1>3. ASSUME NEW note \in Ids, HistoryChanged(note)
      PROVE  TypeOK'
  <2>1. historyVersions[note] + 1 \in Nat
    BY DEF TypeOK
  <2>2. /\ changes' \in [Categories -> [Ids -> Change]]
        /\ sequence' \in Nat /\ head' \in Nat
    BY <1>3, <2>1, ChangeTyped DEF HistoryChanged, Categories
  <2> QED
    BY <1>3, <2>2 DEF TypeOK, HistoryChanged, history
<1>4. CASE OtherUserChange
  BY <1>4 DEF TypeOK, OtherUserChange, history
<1>5. ASSUME NEW targets \in SUBSET Ids, NEW base, PurgeTargets(targets, base)
      PROVE  TypeOK'
  BY <1>5, PurgeRemoves, RemovalTyped
<1>6. ASSUME NEW id \in Ids, PurgeExpiredTrash(id)
      PROVE  TypeOK'
  BY <1>5, <1>6 DEF PurgeExpiredTrash
<1>7. ASSUME NEW note \in Ids, NEW unused \in SUBSET Ids, ReclaimAttachments(note, unused)
      PROVE  TypeOK'
  BY <1>7, RemovalTyped DEF ReclaimAttachments
<1>8. CASE CleanupSyncMetadata
  <2>1. floor' \in Nat
    BY <1>8 DEF TypeOK, CleanupSyncMetadata, Categories, Change, ExpiredTombstones
  <2>2. changes' \in [Categories -> [Ids -> Change]]
    BY <1>8, NoRowsTyped DEF TypeOK, CleanupSyncMetadata, Categories
  <2>3. receipts' \in [Keys -> Receipt]
    BY <1>8, NoRowsTyped DEF TypeOK, CleanupSyncMetadata
  <2> QED
    BY <1>8, <2>1, <2>2, <2>3 DEF TypeOK, CleanupSyncMetadata, history
<1>9. CASE Tick
  BY <1>9 DEF TypeOK, Tick, history
<1>10. CASE UNCHANGED vars
  BY <1>10 DEF TypeOK, vars, history
<1> QED
  BY <1>1, <1>2, <1>3, <1>4, <1>5, <1>6, <1>7, <1>8, <1>9, <1>10 DEF Next, Upkeep

(* Every reachable state has its type: the rows, receipts and notices the  *)
(* transactions of the store write are rows its tables can hold.           *)
THEOREM TypeCorrect == Spec => []TypeOK
<1>1. Init => TypeOK
  BY NoRowsTyped DEF Init, TypeOK
<1> QED
  BY <1>1, TypeStep, PTL DEF Spec

-----------------------------------------------------------------------------
(***************************************************************************)
(* The change log.                                                         *)
(***************************************************************************)
LogInv == LogOrdered /\ LogMatchesRows /\ AbsentRows

LEMMA RecordOrdered ==
    ASSUME TypeOK, LogOrdered, NEW category \in Categories, NEW id \in Ids,
           NEW revision \in Nat, RecordChange(category, id, "upsert", revision),
           UNCHANGED <<now, floor>>
    PROVE  LogOrdered'
<1> DEFINE notice == [sequence |-> sequence + 1, changeType |-> "upsert",
                      revision |-> revision, createdAt |-> now]
<1>1. /\ now \in Nat /\ sequence \in Nat /\ head \in Nat /\ floor \in Nat
      /\ changes \in [Categories -> [Ids -> Change]]
  BY DEF TypeOK
<1>2. \A c \in Categories, a \in Ids :
        changes'[c][a] = IF c = category /\ a = id THEN notice ELSE changes[c][a]
  BY <1>1 DEF RecordChange
<1>3. \A c \in Categories, a \in Ids :
        /\ changes[c][a].sequence \in Nat
        /\ changes[c][a].createdAt \in Nat
  BY <1>1 DEF Change
<1>4. head' = sequence + 1 /\ sequence' = sequence + 1
  BY DEF RecordChange
<1>5. \A c \in Categories, a \in Ids :
        /\ changes'[c][a].sequence <= head'
        /\ changes'[c][a].createdAt <= now'
        /\ changes'[c][a].changeType # "none" => changes'[c][a].sequence > 0
  BY <1>1, <1>2, <1>3, <1>4 DEF LogOrdered
<1>6. \A c, d \in Categories, a, b \in Ids :
        /\ changes'[c][a].sequence = changes'[d][b].sequence
             => changes'[c][a].sequence = 0 \/ <<c, a>> = <<d, b>>
        /\ changes'[c][a].sequence > 0 /\ changes'[c][a].sequence < changes'[d][b].sequence
             => changes'[c][a].createdAt <= changes'[d][b].createdAt
  <2> SUFFICES ASSUME NEW c \in Categories, NEW d \in Categories, NEW a \in Ids, NEW b \in Ids
               PROVE  /\ changes'[c][a].sequence = changes'[d][b].sequence
                           => changes'[c][a].sequence = 0 \/ <<c, a>> = <<d, b>>
                      /\ changes'[c][a].sequence > 0 /\ changes'[c][a].sequence < changes'[d][b].sequence
                           => changes'[c][a].createdAt <= changes'[d][b].createdAt
    OBVIOUS
  <2>1. CASE c = category /\ a = id
    BY <1>1, <1>2, <1>3, <2>1 DEF LogOrdered
  <2>2. CASE d = category /\ b = id
    BY <1>1, <1>2, <1>3, <2>2 DEF LogOrdered
  <2>3. CASE ~(c = category /\ a = id) /\ ~(d = category /\ b = id)
    BY <1>2, <2>3 DEF LogOrdered
  <2> QED
    BY <2>1, <2>2, <2>3
<1> QED
  BY <1>1, <1>4, <1>5, <1>6 DEF LogOrdered

LEMMA RemovalOrdered ==
    ASSUME TypeOK, LogInv, NEW removed \in SUBSET Ids, RemoveObjects(removed),
           \A id \in removed : Exists(id), UNCHANGED <<now, floor>>
    PROVE  LogInv'
<1>1. /\ now \in Nat /\ sequence \in Nat /\ head \in Nat /\ floor \in Nat
      /\ changes \in [Categories -> [Ids -> Change]]
      /\ objects \in [Ids -> Object]
  BY DEF TypeOK
<1>2. PICK number \in [removed -> Nat] :
        /\ \A a, b \in removed : number[a] = number[b] => a = b
        /\ \A a \in removed : sequence < number[a] /\ number[a] <= head'
        /\ changes' = [category \in Categories |->
             [id \in Ids |->
                IF id \notin removed THEN changes[category][id]
                ELSE IF category = "history" THEN NoChange
                ELSE [sequence |-> number[id], changeType |-> "purge",
                      revision |-> 0, createdAt |-> now]]]
        /\ sequence' \in Nat /\ head' \in Nat /\ sequence <= sequence'
        /\ \/ removed = {} /\ head' = head
           \/ removed # {} /\ head' = sequence'
  BY RemovalFacts
<1>3. \A c \in Categories, a \in Ids :
        /\ changes[c][a].sequence \in Nat /\ changes[c][a].sequence <= sequence
        /\ changes[c][a].createdAt \in Nat /\ changes[c][a].createdAt <= now
        /\ changes[c][a].sequence <= head
  BY <1>1 DEF Change, LogInv, LogOrdered
<1>4. head <= head' /\ head' <= sequence' /\ floor' <= head'
  BY <1>1, <1>2 DEF LogInv, LogOrdered
<1>5. \A c \in Categories, a \in Ids :
        \/ a \notin removed /\ changes'[c][a] = changes[c][a]
        \/ a \in removed /\ changes'[c][a] = NoChange
        \/ /\ a \in removed /\ c = "object"
           /\ changes'[c][a] = [sequence |-> number[a], changeType |-> "purge",
                                revision |-> 0, createdAt |-> now]
  BY <1>2 DEF Categories
<1>6. \A c \in Categories, a \in Ids :
        /\ changes'[c][a].sequence <= head'
        /\ changes'[c][a].createdAt <= now'
        /\ changes'[c][a].changeType # "none" => changes'[c][a].sequence > 0
  <2> SUFFICES ASSUME NEW c \in Categories, NEW a \in Ids
               PROVE  /\ changes'[c][a].sequence <= head'
                      /\ changes'[c][a].createdAt <= now'
                      /\ changes'[c][a].changeType # "none" => changes'[c][a].sequence > 0
    OBVIOUS
  <2>1. CASE changes'[c][a] = changes[c][a]
    BY <1>1, <1>2, <1>3, <1>4, <2>1 DEF LogInv, LogOrdered
  <2>2. CASE changes'[c][a] = NoChange
    BY <1>1, <1>2, <2>2 DEF NoChange
  <2>3. CASE /\ a \in removed
             /\ changes'[c][a] = [sequence |-> number[a], changeType |-> "purge",
                                  revision |-> 0, createdAt |-> now]
    BY <1>1, <1>2, <2>3
  <2> QED
    BY <1>5, <2>1, <2>2, <2>3
<1>7. \A c, d \in Categories, a, b \in Ids :
        /\ changes'[c][a].sequence = changes'[d][b].sequence
             => changes'[c][a].sequence = 0 \/ <<c, a>> = <<d, b>>
        /\ changes'[c][a].sequence > 0 /\ changes'[c][a].sequence < changes'[d][b].sequence
             => changes'[c][a].createdAt <= changes'[d][b].createdAt
  <2> SUFFICES ASSUME NEW c \in Categories, NEW d \in Categories, NEW a \in Ids, NEW b \in Ids
               PROVE  /\ changes'[c][a].sequence = changes'[d][b].sequence
                           => changes'[c][a].sequence = 0 \/ <<c, a>> = <<d, b>>
                      /\ changes'[c][a].sequence > 0 /\ changes'[c][a].sequence < changes'[d][b].sequence
                           => changes'[c][a].createdAt <= changes'[d][b].createdAt
    OBVIOUS
  <2> DEFINE fresh(x, e) == /\ e \in removed /\ x = "object"
                            /\ changes'[x][e].sequence = number[e]
                            /\ changes'[x][e].createdAt = now
             kept(x, e) == changes'[x][e] = changes[x][e]
             gone(x, e) == changes'[x][e].sequence = 0
  <2>1. \A x \in Categories, e \in Ids : fresh(x, e) \/ kept(x, e) \/ gone(x, e)
    <3> SUFFICES ASSUME NEW x \in Categories, NEW e \in Ids
                 PROVE  fresh(x, e) \/ kept(x, e) \/ gone(x, e)
      OBVIOUS
    <3>1. CASE changes'[x][e] = changes[x][e]
      BY <3>1
    <3>2. CASE changes'[x][e] = NoChange
      BY <3>2 DEF NoChange
    <3>3. CASE /\ e \in removed /\ x = "object"
               /\ changes'[x][e] = [sequence |-> number[e], changeType |-> "purge",
                                    revision |-> 0, createdAt |-> now]
      BY <3>3
    <3> QED
      BY <1>5, <3>1, <3>2, <3>3
  <2>2. changes'[c][a].sequence \in Nat /\ changes'[d][b].sequence \in Nat
    <3> SUFFICES ASSUME NEW x \in Categories, NEW e \in Ids
                 PROVE  changes'[x][e].sequence \in Nat
      OBVIOUS
    <3>1. CASE fresh(x, e)
      BY <1>2, <3>1
    <3>2. CASE kept(x, e)
      BY <1>3, <3>2
    <3>3. CASE gone(x, e)
      BY <3>3
    <3> QED
      BY <2>1, <3>1, <3>2, <3>3
  <2>3. CASE gone(c, a) \/ gone(d, b)
    BY <2>2, <2>3
  <2>4. CASE kept(c, a) /\ kept(d, b)
    BY <2>4 DEF LogInv, LogOrdered
  <2>5. CASE fresh(c, a) /\ fresh(d, b)
    BY <1>1, <1>2, <2>5
  <2>6. CASE kept(c, a) /\ fresh(d, b)
    BY <1>1, <1>2, <1>3, <2>6
  <2>7. CASE fresh(c, a) /\ kept(d, b)
    BY <1>1, <1>2, <1>3, <2>7
  <2> QED
    <3>1. /\ fresh(c, a) \/ kept(c, a) \/ gone(c, a)
          /\ fresh(d, b) \/ kept(d, b) \/ gone(d, b)
      BY <2>1
    <3> HIDE DEF fresh, kept, gone
    <3> QED
      BY <2>3, <2>4, <2>5, <2>6, <2>7, <3>1
<1>8. LogOrdered'
  BY <1>4, <1>6, <1>7 DEF LogOrdered
<1>9. \A id \in Ids : objects'[id] = IF id \in removed THEN NoObject ELSE objects[id]
  BY DEF RemoveObjects
<1>10. AbsentRows'
  BY <1>9 DEF AbsentRows, LogInv, Exists
<1>11. LogMatchesRows'
  <2> SUFFICES ASSUME NEW id \in Ids
               PROVE  /\ Exists(id)' <=> changes'["object"][id].changeType = "upsert"
                      /\ Exists(id)' => changes'["object"][id].revision = objects'[id].revision
                      /\ Purged(id)' => changes'["object"][id].sequence > floor'
    BY DEF LogMatchesRows
  <2>1. CASE id \in removed
    <3>1. changes'["object"][id] = [sequence |-> number[id], changeType |-> "purge",
                                    revision |-> 0, createdAt |-> now]
      BY <1>2, <2>1 DEF Categories
    <3>2. ~Exists(id)'
      BY <1>9, <2>1 DEF Exists, NoObject
    <3> QED
      BY <1>1, <1>2, <2>1, <3>1, <3>2 DEF LogInv, LogOrdered
  <2>2. CASE id \notin removed
    <3>1. changes'["object"][id] = changes["object"][id] /\ objects'[id] = objects[id]
      BY <1>2, <1>9, <2>2 DEF Categories
    <3> QED
      BY <3>1 DEF LogInv, LogMatchesRows, Exists, Purged
  <2> QED
    BY <2>1, <2>2
<1> QED
  BY <1>8, <1>10, <1>11 DEF LogInv

LEMMA LogStep == TypeOK /\ LogInv /\ [Next]_vars => LogInv'
<1> SUFFICES ASSUME TypeOK, LogInv, [Next]_vars
             PROVE  LogInv'
  OBVIOUS
<1> USE DEF LogInv
<1>1. ASSUME NEW key \in Keys, NEW r \in Requests, WriteObject(key, r)
      PROVE  LogInv'
  <2>1. r.baseRevision + 1 \in Nat /\ r.baseRevision + 1 > 0 /\ r.objectId \in Ids
    BY RequestFacts
  <2>2. LogOrdered'
    BY <1>1, <2>1, RecordOrdered DEF WriteObject, Categories
  <2>3. /\ objects' = [objects EXCEPT ![r.objectId] = Written(r)]
        /\ changes' = [changes EXCEPT !["object"][r.objectId] =
                         [sequence |-> sequence + 1, changeType |-> "upsert",
                          revision |-> r.baseRevision + 1, createdAt |-> now]]
        /\ floor' = floor
    BY <1>1 DEF WriteObject, RecordChange
  <2>4. Written(r).revision = r.baseRevision + 1
    BY DEF Written
  <2>5. objects \in [Ids -> Object] /\ changes \in [Categories -> [Ids -> Change]]
        /\ "object" \in Categories
    BY DEF TypeOK, Categories
  <2>6. AbsentRows'
    BY <2>1, <2>3, <2>4, <2>5 DEF AbsentRows, Exists
  <2>7. LogMatchesRows'
    BY <2>1, <2>3, <2>4, <2>5 DEF LogMatchesRows, Exists, Purged
  <2> QED
    BY <2>2, <2>6, <2>7
<1>2. ASSUME NEW note \in Ids, NEW blocks \in SUBSET Blocks, AdmitBodyBlocks(note, blocks)
      PROVE  LogInv'
  BY <1>2 DEF AdmitBodyBlocks, LogOrdered, LogMatchesRows, AbsentRows, Exists, Purged
<1>3. ASSUME NEW note \in Ids, HistoryChanged(note)
      PROVE  LogInv'
  <2>1. historyVersions[note] + 1 \in Nat
    BY DEF TypeOK
  <2>2. LogOrdered'
    BY <1>3, <2>1, RecordOrdered DEF HistoryChanged, Categories
  <2>3. /\ changes'["object"] = changes["object"]
        /\ objects' = objects /\ floor' = floor
    BY <1>3 DEF HistoryChanged, RecordChange, Categories, TypeOK
  <2> QED
    BY <2>2, <2>3 DEF LogMatchesRows, AbsentRows, Exists, Purged
<1>4. CASE OtherUserChange
  BY <1>4 DEF TypeOK, OtherUserChange, LogOrdered, LogMatchesRows, AbsentRows, Exists, Purged
<1>5. ASSUME NEW targets \in SUBSET Ids, NEW base, PurgeTargets(targets, base)
      PROVE  LogInv'
  BY <1>5, PurgeRemoves, RemovalOrdered
<1>6. ASSUME NEW id \in Ids, PurgeExpiredTrash(id)
      PROVE  LogInv'
  BY <1>5, <1>6 DEF PurgeExpiredTrash
<1>7. ASSUME NEW note \in Ids, NEW unused \in SUBSET Ids, ReclaimAttachments(note, unused)
      PROVE  LogInv'
  <2>1. \A id \in unused : Exists(id)
    BY <1>7 DEF ReclaimAttachments, AttachmentsOf
  <2> QED
    BY <1>7, <2>1, RemovalOrdered DEF ReclaimAttachments
<1>8. CASE CleanupSyncMetadata
  <2>1. PICK collected \in {floor} \cup {changes["object"][id].sequence : id \in ExpiredTombstones} :
          /\ collected >= floor
          /\ \A id \in ExpiredTombstones : changes["object"][id].sequence <= collected
          /\ floor' = collected
    BY <1>8 DEF CleanupSyncMetadata
  <2>2. \A c \in Categories, a \in Ids :
          \/ c = "object" /\ a \in ExpiredTombstones /\ changes'[c][a] = NoChange
          \/ /\ c = "object" => a \notin ExpiredTombstones
             /\ changes'[c][a] = changes[c][a]
    BY <1>8 DEF CleanupSyncMetadata, TypeOK, Categories
  <2>3. /\ UNCHANGED <<now, objects, sequence, head>>
        /\ now \in Nat /\ sequence \in Nat /\ head \in Nat /\ floor \in Nat
        /\ Lifetime \in Nat
        /\ "object" \in Categories
        /\ \A c \in Categories, a \in Ids : changes[c][a].sequence \in Nat
        /\ \A c \in Categories, a \in Ids : changes[c][a].createdAt \in Nat
    BY <1>8, LifetimeAssumption DEF CleanupSyncMetadata, TypeOK, Change, Categories
  <2>4. floor' <= head'
    BY <2>1, <2>3 DEF LogOrdered, ExpiredTombstones
  <2>5. LogOrdered'
    <3>1. \A c \in Categories, a \in Ids :
            changes'[c][a] = changes[c][a] \/ changes'[c][a] = NoChange
      BY <2>2
    <3>2. \A c \in Categories, a \in Ids :
            /\ changes'[c][a].sequence <= head'
            /\ changes'[c][a].createdAt <= now'
            /\ changes'[c][a].changeType # "none" => changes'[c][a].sequence > 0
      BY <2>3, <3>1 DEF LogOrdered, NoChange
    <3>3. \A c, d \in Categories, a, b \in Ids :
            /\ changes'[c][a].sequence = changes'[d][b].sequence
                 => changes'[c][a].sequence = 0 \/ <<c, a>> = <<d, b>>
            /\ changes'[c][a].sequence > 0 /\ changes'[c][a].sequence < changes'[d][b].sequence
                 => changes'[c][a].createdAt <= changes'[d][b].createdAt
      BY <2>3, <3>1 DEF LogOrdered, NoChange
    <3> QED
      BY <2>3, <2>4, <3>2, <3>3 DEF LogOrdered
  <2>6. AbsentRows'
    BY <2>3 DEF AbsentRows, Exists
  <2>7. \A id \in Ids : Purged(id)' => changes'["object"][id].sequence > floor'
    <3> SUFFICES ASSUME NEW id \in Ids, Purged(id)'
                 PROVE  changes'["object"][id].sequence > floor'
      OBVIOUS
    <3>1. /\ id \notin ExpiredTombstones /\ changes'["object"][id] = changes["object"][id]
          /\ Purged(id)
      BY <2>2, <2>3 DEF Purged, NoChange
    <3>2. changes["object"][id].createdAt > now - Lifetime
      BY <2>3, <3>1 DEF ExpiredTombstones
    <3>3. changes["object"][id].sequence > floor
      BY <3>1 DEF LogMatchesRows
    <3>4. ASSUME NEW old \in ExpiredTombstones
          PROVE  changes["object"][id].sequence > changes["object"][old].sequence
      <4>1. old \in Ids /\ Purged(old) /\ changes["object"][old].createdAt <= now - Lifetime
        BY DEF ExpiredTombstones
      <4>2. changes["object"][id].sequence > 0 /\ changes["object"][old].sequence > 0
        BY <2>3, <3>1, <4>1 DEF LogOrdered, Purged
      <4> QED
        BY <2>3, <3>1, <3>2, <4>1, <4>2 DEF LogOrdered
    <3> QED
      BY <2>1, <3>1, <3>3, <3>4
  <2>8. LogMatchesRows'
    <3>1. \A id \in Ids :
            /\ changes'["object"][id].changeType = "upsert"
                 <=> changes["object"][id].changeType = "upsert"
            /\ changes["object"][id].changeType = "upsert"
                 => changes'["object"][id] = changes["object"][id]
      BY <2>2, <2>3 DEF NoChange, ExpiredTombstones, Purged
    <3> QED
      BY <2>3, <2>7, <3>1 DEF LogMatchesRows, Exists
  <2> QED
    BY <2>5, <2>6, <2>8
<1>9. CASE Tick
  BY <1>9 DEF TypeOK, Change, Tick, LogOrdered, LogMatchesRows, AbsentRows, Exists, Purged
<1>10. CASE UNCHANGED vars
  BY <1>10 DEF vars, LogOrdered, LogMatchesRows, AbsentRows, Exists, Purged
<1> QED
  BY <1>1, <1>2, <1>3, <1>4, <1>5, <1>6, <1>7, <1>8, <1>9, <1>10 DEF Next, Upkeep

(* The notices readers follow are complete and exact in every reachable    *)
(* state, through writes, cascading purges and collections.                *)
THEOREM ChangeLogIsExact == Spec => []ChangeLogExact
<1>1. Init => TypeOK
  BY NoRowsTyped DEF Init, TypeOK
<1>2. Init => LogInv
  BY DEF Init, LogInv, LogOrdered, LogMatchesRows, AbsentRows, Exists, Purged,
         NoObject, NoChange, Categories
<1>3. LogInv => ChangeLogExact
  BY DEF LogInv, LogOrdered, LogMatchesRows, ChangeLogExact
<1> QED
  BY <1>1, <1>2, <1>3, TypeStep, LogStep, PTL DEF Spec

-----------------------------------------------------------------------------
(***************************************************************************)
(* Receipts: no operation is executed twice.                               *)
(***************************************************************************)
LEMMA AcceptedFacts ==
    ASSUME NEW key \in Keys, NEW r \in Requests, Outcome(key, r) = "accepted"
    PROVE  /\ ~Expired(key) /\ ~HasReceipt(key)
           /\ ~StaleBase(r) /\ ~TypeChanged(r)
           /\ ~BlockMissing(r) /\ ~OwnerRejected(r) /\ ~OwnerPurged(r)
BY DEF Outcome

LEMMA ReceiptsUntouched ==
    ASSUME ReceiptsCover, UNCHANGED <<now, receipts, applied>>
    PROVE  ReceiptsCover'
BY DEF ReceiptsCover, HasReceipt

LEMMA ReceiptsStep ==
    ASSUME Skew = 0
    PROVE  TypeOK /\ ReceiptsCover /\ [Next]_vars => ReceiptsCover'
<1> SUFFICES ASSUME TypeOK, ReceiptsCover, [Next]_vars
             PROVE  ReceiptsCover'
  OBVIOUS
<1>a. /\ now \in Nat /\ Lifetime \in Nat /\ KeyTime \in [Keys -> Nat]
      /\ receipts \in [Keys -> Receipt] /\ applied \in [Keys -> Nat]
      /\ \A key \in Keys : receipts[key].createdAt \in Nat
  BY KeysAssumption, LifetimeAssumption DEF TypeOK, Receipt
<1>1. ASSUME NEW key \in Keys, NEW r \in Requests, WriteObject(key, r)
      PROVE  ReceiptsCover'
  <2>1. /\ receipts' = [receipts EXCEPT ![key] =
             [revision |-> r.baseRevision + 1, createdAt |-> now, digest |-> {r}]]
        /\ applied' = [applied EXCEPT ![key] = @ + 1]
        /\ now' = now
    BY <1>1 DEF WriteObject
  <2>2. ~Expired(key) /\ ~HasReceipt(key)
    BY <1>1, AcceptedFacts DEF WriteObject
  <2>3. KeyTime[key] <= now /\ ~(KeyTime[key] <= now - Lifetime)
    BY <1>a, <2>2 DEF Expired
  <2>4. applied[key] = 0
    BY <1>a, <2>2, <2>3 DEF ReceiptsCover
  <2>5. r.baseRevision + 1 > 0
    BY RequestFacts
  <2> SUFFICES ASSUME NEW k \in Keys
               PROVE  /\ applied'[k] <= 1
                      /\ HasReceipt(k)' => KeyTime[k] <= receipts'[k].createdAt
                      /\ applied'[k] = 1 => HasReceipt(k)' \/ KeyTime[k] <= now' - Lifetime
    BY DEF ReceiptsCover
  <2>6. CASE k = key
    BY <1>a, <2>1, <2>3, <2>4, <2>5, <2>6 DEF HasReceipt
  <2>7. CASE k # key
    BY <1>a, <2>1, <2>7 DEF HasReceipt, ReceiptsCover
  <2> QED
    BY <2>6, <2>7
<1>2. ASSUME NEW note \in Ids, NEW blocks \in SUBSET Blocks, AdmitBodyBlocks(note, blocks)
      PROVE  ReceiptsCover'
  BY <1>2, ReceiptsUntouched DEF AdmitBodyBlocks, history
<1>3. ASSUME NEW note \in Ids, HistoryChanged(note)
      PROVE  ReceiptsCover'
  BY <1>3, ReceiptsUntouched DEF HistoryChanged, history
<1>4. CASE OtherUserChange
  BY <1>4, ReceiptsUntouched DEF OtherUserChange, history
<1>5. ASSUME NEW targets \in SUBSET Ids, NEW base, PurgeTargets(targets, base)
      PROVE  ReceiptsCover'
  BY <1>5, ReceiptsUntouched DEF PurgeTargets
<1>6. ASSUME NEW id \in Ids, PurgeExpiredTrash(id)
      PROVE  ReceiptsCover'
  BY <1>5, <1>6 DEF PurgeExpiredTrash
<1>7. ASSUME NEW note \in Ids, NEW unused \in SUBSET Ids, ReclaimAttachments(note, unused)
      PROVE  ReceiptsCover'
  BY <1>7, ReceiptsUntouched DEF ReclaimAttachments
<1>8. CASE CleanupSyncMetadata
  <2>1. /\ now' = now /\ applied' = applied
        /\ receipts' = [key \in Keys |->
             IF HasReceipt(key) /\ receipts[key].createdAt <= now - Lifetime
               THEN NoReceipt ELSE receipts[key]]
    BY <1>8 DEF CleanupSyncMetadata, history
  <2> SUFFICES ASSUME NEW k \in Keys
               PROVE  /\ applied'[k] <= 1
                      /\ HasReceipt(k)' => KeyTime[k] <= receipts'[k].createdAt
                      /\ applied'[k] = 1 => HasReceipt(k)' \/ KeyTime[k] <= now' - Lifetime
    BY DEF ReceiptsCover
  <2>2. CASE HasReceipt(k) /\ receipts[k].createdAt <= now - Lifetime
    BY <1>a, <2>1, <2>2 DEF ReceiptsCover, HasReceipt, NoReceipt
  <2>3. CASE ~(HasReceipt(k) /\ receipts[k].createdAt <= now - Lifetime)
    BY <2>1, <2>3 DEF ReceiptsCover, HasReceipt
  <2> QED
    BY <2>2, <2>3
<1>9. CASE Tick
  BY <1>a, <1>9 DEF Tick, history, ReceiptsCover, HasReceipt
<1>10. CASE UNCHANGED vars
  BY <1>10, ReceiptsUntouched DEF vars, history
<1> QED
  BY <1>1, <1>2, <1>3, <1>4, <1>5, <1>6, <1>7, <1>8, <1>9, <1>10 DEF Next, Upkeep

(* A retried operation is executed at most once, for clients whose clock   *)
(* does not run ahead of the server's: its receipt lives as long as its    *)
(* identifier is accepted.                                                 *)
THEOREM ExecutedAtMostOnce ==
    ASSUME Skew = 0
    PROVE  Spec => []AtMostOnce
<1>1. Init => TypeOK
  BY NoRowsTyped DEF Init, TypeOK
<1>2. Init => ReceiptsCover
  BY DEF Init, ReceiptsCover, HasReceipt, NoReceipt
<1>3. ReceiptsCover => AtMostOnce
  BY DEF ReceiptsCover, AtMostOnce
<1>4. TypeOK /\ ReceiptsCover /\ [Next]_vars => ReceiptsCover'
  BY ReceiptsStep
<1> QED
  BY <1>1, <1>2, <1>3, <1>4, TypeStep, PTL DEF Spec

-----------------------------------------------------------------------------
(***************************************************************************)
(* Tombstones: nothing authored before a purge undoes it.                  *)
(***************************************************************************)
LEMMA TombstonesUntouched ==
    ASSUME TombstonesCover, UNCHANGED <<now, objects, bornAt, purgedAt>>,
           changes'["object"] = changes["object"]
    PROVE  TombstonesCover'
BY DEF TombstonesCover, Exists, Purged

LEMMA RemovalLeavesTombstones ==
    ASSUME TypeOK, TombstonesCover, NEW removed \in SUBSET Ids, RemoveObjects(removed),
           UNCHANGED <<now, bornAt>>
    PROVE  TombstonesCover'
<1>1. PICK number \in [removed -> Nat] :
        changes' = [category \in Categories |->
           [id \in Ids |->
              IF id \notin removed THEN changes[category][id]
              ELSE IF category = "history" THEN NoChange
              ELSE [sequence |-> number[id], changeType |-> "purge",
                    revision |-> 0, createdAt |-> now]]]
  BY RemovalFacts
<1>2. /\ objects' = [id \in Ids |-> IF id \in removed THEN NoObject ELSE objects[id]]
      /\ purgedAt' = [id \in Ids |-> IF id \in removed THEN now ELSE purgedAt[id]]
      /\ now \in Nat
  BY DEF RemoveObjects, TypeOK
<1> SUFFICES ASSUME NEW id \in Ids
             PROVE  /\ purgedAt'[id] <= now'
                    /\ Exists(id)' => bornAt'[id] > purgedAt'[id]
                    /\ ~Exists(id)' /\ purgedAt'[id] >= 0
                         => \/ Purged(id)' /\ changes'["object"][id].createdAt = purgedAt'[id]
                            \/ purgedAt'[id] <= now' - Lifetime
  BY DEF TombstonesCover
<1>3. CASE id \in removed
  BY <1>1, <1>2, <1>3 DEF Exists, Purged, NoObject, Categories
<1>4. CASE id \notin removed
  BY <1>1, <1>2, <1>4 DEF Exists, Purged, Categories, TombstonesCover
<1> QED
  BY <1>3, <1>4

LEMMA TombstonesStep == TypeOK /\ TombstonesCover /\ [Next]_vars => TombstonesCover'
<1> SUFFICES ASSUME TypeOK, TombstonesCover, [Next]_vars
             PROVE  TombstonesCover'
  OBVIOUS
<1>a. /\ now \in Nat /\ Lifetime \in Nat /\ KeyTime \in [Keys -> Nat] /\ Skew \in Nat
      /\ objects \in [Ids -> Object] /\ bornAt \in [Ids -> Nat] /\ purgedAt \in [Ids -> Int]
      /\ changes \in [Categories -> [Ids -> Change]]
  BY KeysAssumption, LifetimeAssumption DEF TypeOK
<1>1. ASSUME NEW key \in Keys, NEW r \in Requests, WriteObject(key, r)
      PROVE  TombstonesCover'
  <2>1. /\ objects' = [objects EXCEPT ![r.objectId] = Written(r)]
        /\ bornAt' = IF Exists(r.objectId) THEN bornAt
                     ELSE [bornAt EXCEPT ![r.objectId] = KeyTime[key]]
        /\ now' = now /\ purgedAt' = purgedAt
        /\ r.objectId \in Ids
    BY <1>1, RequestFacts DEF WriteObject
  <2>2. Written(r).revision > 0
    BY RequestFacts DEF Written
  <2>3. ~Expired(key) /\ ~StaleBase(r)
    BY <1>1, AcceptedFacts DEF WriteObject
  <2>4. KeyTime[key] > now - Lifetime /\ KeyTime[key] >= 0
    BY <1>a, <2>3 DEF Expired
  <2>5. \A id \in Ids : id # r.objectId => changes'["object"][id] = changes["object"][id]
    BY <1>1, <1>a DEF WriteObject, RecordChange, Categories
  <2> SUFFICES ASSUME NEW id \in Ids
               PROVE  /\ purgedAt'[id] <= now'
                      /\ Exists(id)' => bornAt'[id] > purgedAt'[id]
                      /\ ~Exists(id)' /\ purgedAt'[id] >= 0
                           => \/ Purged(id)' /\ changes'["object"][id].createdAt = purgedAt'[id]
                              \/ purgedAt'[id] <= now' - Lifetime
    BY DEF TombstonesCover
  <2>6. CASE id # r.objectId
    BY <1>a, <2>1, <2>5, <2>6 DEF TombstonesCover, Exists, Purged
  <2>7. CASE id = r.objectId /\ Exists(id)
    BY <1>a, <2>1, <2>2, <2>7 DEF TombstonesCover, Exists
  <2>8. CASE id = r.objectId /\ ~Exists(id)
    <3>1. ~Purged(id)
      BY <2>3, <2>8 DEF StaleBase
    <3>2. purgedAt[id] < 0 \/ purgedAt[id] <= now - Lifetime
      BY <1>a, <2>8, <3>1 DEF TombstonesCover
    <3>3. bornAt'[id] = KeyTime[key] /\ Exists(id)'
      BY <1>a, <2>1, <2>2, <2>8 DEF Exists
    <3> QED
      BY <1>a, <2>1, <2>4, <3>2, <3>3 DEF TombstonesCover
  <2> QED
    BY <2>6, <2>7, <2>8
<1>2. ASSUME NEW note \in Ids, NEW blocks \in SUBSET Blocks, AdmitBodyBlocks(note, blocks)
      PROVE  TombstonesCover'
  BY <1>2, TombstonesUntouched DEF AdmitBodyBlocks, history
<1>3. ASSUME NEW note \in Ids, HistoryChanged(note)
      PROVE  TombstonesCover'
  <2>1. changes'["object"] = changes["object"]
    BY <1>3, <1>a DEF HistoryChanged, RecordChange, Categories
  <2> QED
    BY <1>3, <2>1, TombstonesUntouched DEF HistoryChanged, history
<1>4. CASE OtherUserChange
  BY <1>4, TombstonesUntouched DEF OtherUserChange, history
<1>5. ASSUME NEW targets \in SUBSET Ids, NEW base, PurgeTargets(targets, base)
      PROVE  TombstonesCover'
  BY <1>5, PurgeRemoves, RemovalLeavesTombstones
<1>6. ASSUME NEW id \in Ids, PurgeExpiredTrash(id)
      PROVE  TombstonesCover'
  BY <1>5, <1>6 DEF PurgeExpiredTrash
<1>7. ASSUME NEW note \in Ids, NEW unused \in SUBSET Ids, ReclaimAttachments(note, unused)
      PROVE  TombstonesCover'
  BY <1>7, RemovalLeavesTombstones DEF ReclaimAttachments
<1>8. CASE CleanupSyncMetadata
  <2>1. UNCHANGED <<now, objects, bornAt, purgedAt>>
    BY <1>8 DEF CleanupSyncMetadata, history
  <2>2. \A id \in Ids : Purged(id) /\ changes["object"][id].createdAt > now - Lifetime
                          => changes'["object"][id] = changes["object"][id]
    BY <1>8, <1>a DEF CleanupSyncMetadata, ExpiredTombstones, Categories, Change
  <2> SUFFICES ASSUME NEW id \in Ids, ~Exists(id), purgedAt[id] >= 0
               PROVE  \/ Purged(id)' /\ changes'["object"][id].createdAt = purgedAt[id]
                      \/ purgedAt[id] <= now - Lifetime
    BY <2>1 DEF TombstonesCover, Exists
  <2>3. CASE purgedAt[id] <= now - Lifetime
    BY <2>3
  <2>4. CASE purgedAt[id] > now - Lifetime
    <3>1. Purged(id) /\ changes["object"][id].createdAt = purgedAt[id]
      BY <1>a, <2>4 DEF TombstonesCover
    <3> QED
      BY <2>2, <2>4, <3>1 DEF Purged
  <2> QED
    BY <1>a, <2>3, <2>4
<1>9. CASE Tick
  BY <1>a, <1>9 DEF Tick, history, TombstonesCover, Exists, Purged
<1>10. CASE UNCHANGED vars
  BY <1>10, TombstonesUntouched DEF vars, history
<1> QED
  BY <1>1, <1>2, <1>3, <1>4, <1>5, <1>6, <1>7, <1>8, <1>9, <1>10 DEF Next, Upkeep

(* An object purged for good is never recreated by an operation that was   *)
(* authored before the purge, even after its tombstone is collected.       *)
THEOREM PurgeIsFinal == Spec => []NoResurrection
<1>1. Init => TypeOK
  BY NoRowsTyped DEF Init, TypeOK
<1>2. Init => TombstonesCover
  BY DEF Init, TombstonesCover, Exists, NoObject
<1>3. TombstonesCover => NoResurrection
  BY DEF TombstonesCover, NoResurrection
<1> QED
  BY <1>1, <1>2, <1>3, TypeStep, TombstonesStep, PTL DEF Spec

-----------------------------------------------------------------------------
(***************************************************************************)
(* Notes stay whole, and attachments stay with their note.                 *)
(***************************************************************************)
LEMMA BodyRemoval ==
    ASSUME BodyComplete, NEW removed, RemoveObjects(removed)
    PROVE  BodyComplete'
BY DEF RemoveObjects, BodyComplete, NoObject

LEMMA BodyStep == TypeOK /\ BodyComplete /\ [Next]_vars => BodyComplete'
<1> SUFFICES ASSUME TypeOK, BodyComplete, [Next]_vars
             PROVE  BodyComplete'
  OBVIOUS
<1>1. ASSUME NEW key \in Keys, NEW r \in Requests, WriteObject(key, r)
      PROVE  BodyComplete'
  <2>1. r.bodyBlockIds \subseteq bodyBlocks[r.objectId]
    BY <1>1, AcceptedFacts DEF WriteObject, BlockMissing
  <2>2. Written(r).bodyBlockIds = r.bodyBlockIds
    BY DEF Written
  <2> QED
    BY <1>1, <2>1, <2>2, RequestFacts DEF WriteObject, BodyComplete, TypeOK
<1>2. ASSUME NEW note \in Ids, NEW blocks \in SUBSET Blocks, AdmitBodyBlocks(note, blocks)
      PROVE  BodyComplete'
  BY <1>2 DEF AdmitBodyBlocks, BodyComplete, TypeOK
<1>3. ASSUME NEW note \in Ids, HistoryChanged(note)
      PROVE  BodyComplete'
  BY <1>3 DEF HistoryChanged, BodyComplete
<1>4. CASE OtherUserChange
  BY <1>4 DEF OtherUserChange, BodyComplete
<1>5. ASSUME NEW targets \in SUBSET Ids, NEW base, PurgeTargets(targets, base)
      PROVE  BodyComplete'
  BY <1>5, BodyRemoval DEF PurgeTargets
<1>6. ASSUME NEW id \in Ids, PurgeExpiredTrash(id)
      PROVE  BodyComplete'
  BY <1>5, <1>6 DEF PurgeExpiredTrash
<1>7. ASSUME NEW note \in Ids, NEW unused \in SUBSET Ids, ReclaimAttachments(note, unused)
      PROVE  BodyComplete'
  BY <1>7, BodyRemoval DEF ReclaimAttachments
<1>8. CASE CleanupSyncMetadata
  BY <1>8 DEF CleanupSyncMetadata, BodyComplete
<1>9. CASE Tick
  BY <1>9 DEF Tick, BodyComplete
<1>10. CASE UNCHANGED vars
  BY <1>10 DEF vars, BodyComplete
<1> QED
  BY <1>1, <1>2, <1>3, <1>4, <1>5, <1>6, <1>7, <1>8, <1>9, <1>10 DEF Next, Upkeep

(* A stored note never references a body block that is not stored.         *)
THEOREM NotesStayWhole == Spec => []BodyComplete
<1>1. Init => TypeOK
  BY NoRowsTyped DEF Init, TypeOK
<1>2. Init => BodyComplete
  BY DEF Init, BodyComplete, NoObject
<1> QED
  BY <1>1, <1>2, TypeStep, BodyStep, PTL DEF Spec

OwnerInv == RowsRequested /\ NoOrphanAttachment

LEMMA RowsOwners ==
    ASSUME OwnersAreNotes, RowsRequested, NEW id \in Ids, Exists(id)
    PROVE  /\ objects[id].objectType \in ObjectTypes
           /\ objects[id].ownerNoteId \in Ids \cup {NoId}
           /\ objects[id].objectType = "attachment" <=> objects[id].ownerNoteId # NoId
           /\ \A note \in Ids : Exists(note) /\ objects[id].ownerNoteId = note
                                  => objects[note].objectType = "note"
<1>1. PICK r \in Requests : /\ r.objectId = id
                            /\ r.objectType = objects[id].objectType
                            /\ r.ownerNoteId = objects[id].ownerNoteId
  BY DEF RowsRequested
<1>2. ASSUME NEW note \in Ids, Exists(note), objects[id].ownerNoteId = note
      PROVE  objects[note].objectType = "note"
  <2>1. PICK q \in Requests : q.objectId = note /\ q.objectType = objects[note].objectType
    BY <1>2 DEF RowsRequested
  <2> QED
    BY <1>1, <1>2, <2>1 DEF OwnersAreNotes
<1>3. /\ r.objectType \in ObjectTypes /\ r.ownerNoteId \in Ids \cup {NoId}
      /\ r.objectType = "attachment" <=> r.ownerNoteId # NoId
  BY RequestFacts DEF ValidRequest
<1>4. /\ objects[id].objectType \in ObjectTypes
      /\ objects[id].ownerNoteId \in Ids \cup {NoId}
      /\ objects[id].objectType = "attachment" <=> objects[id].ownerNoteId # NoId
  <2>1. objects[id].objectType \in ObjectTypes
    BY <1>1, <1>3
  <2>2. objects[id].ownerNoteId \in Ids \cup {NoId}
    BY <1>1, <1>3
  <2>3. objects[id].objectType = "attachment" <=> objects[id].ownerNoteId # NoId
    BY <1>1, <1>3
  <2> QED
    BY <2>1, <2>2, <2>3
<1> QED
  BY <1>2, <1>4

LEMMA OwnerRemoval ==
    ASSUME TypeOK, OwnersAreNotes, OwnerInv, NEW removed \in SUBSET Ids,
           RemoveObjects(removed),
           \A id \in removed : objects[id].objectType = "note"
             => AttachmentsOf({id}) \subseteq removed,
           \A id \in removed : Exists(id)
    PROVE  OwnerInv'
<1>1. /\ objects' = [id \in Ids |-> IF id \in removed THEN NoObject ELSE objects[id]]
  BY DEF RemoveObjects
<1>2. PICK number \in [removed -> Nat] :
        changes' = [category \in Categories |->
           [id \in Ids |->
              IF id \notin removed THEN changes[category][id]
              ELSE IF category = "history" THEN NoChange
              ELSE [sequence |-> number[id], changeType |-> "purge",
                    revision |-> 0, createdAt |-> now]]]
  BY RemovalFacts
<1>3. RowsRequested'
  BY <1>1 DEF OwnerInv, RowsRequested, Exists, NoObject
<1>4. NoOrphanAttachment'
  <2> SUFFICES ASSUME NEW id \in Ids, Exists(id)', objects'[id].ownerNoteId # NoId
               PROVE  changes'["object"][objects'[id].ownerNoteId].changeType # "purge"
    BY DEF NoOrphanAttachment, Purged
  <2>1. id \notin removed /\ objects'[id] = objects[id] /\ Exists(id)
    BY <1>1 DEF Exists, NoObject
  <2> DEFINE owner == objects[id].ownerNoteId
  <2>2. owner \in Ids
    BY <2>1, RowsOwners DEF OwnerInv
  <2>3. ~Purged(owner)
    BY <2>1 DEF OwnerInv, NoOrphanAttachment
  <2>4. owner \notin removed
    <3> SUFFICES ASSUME owner \in removed
                 PROVE  FALSE
      OBVIOUS
    <3>1. objects[owner].objectType = "note"
      BY <2>1, <2>2, RowsOwners DEF OwnerInv
    <3>2. id \in AttachmentsOf({owner})
      BY <2>1 DEF AttachmentsOf
    <3> QED
      BY <2>1, <3>1, <3>2
  <2>5. changes'["object"][owner] = changes["object"][owner]
    BY <1>2, <2>2, <2>4 DEF Categories
  <2> QED
    BY <2>1, <2>3, <2>5 DEF Purged
<1> QED
  BY <1>3, <1>4 DEF OwnerInv

LEMMA OwnerStep ==
    ASSUME OwnersAreNotes
    PROVE  TypeOK /\ OwnerInv /\ [Next]_vars => OwnerInv'
<1> SUFFICES ASSUME TypeOK, OwnerInv, [Next]_vars
             PROVE  OwnerInv'
  OBVIOUS
<1>1. ASSUME NEW key \in Keys, NEW r \in Requests, WriteObject(key, r)
      PROVE  OwnerInv'
  <2>1. /\ objects' = [objects EXCEPT ![r.objectId] = Written(r)]
        /\ r.objectId \in Ids
        /\ \A id \in Ids : /\ id # r.objectId => changes'["object"][id] = changes["object"][id]
                           /\ id = r.objectId => changes'["object"][id].changeType = "upsert"
    BY <1>1, RequestFacts DEF WriteObject, RecordChange, Categories, TypeOK
  <2>2. /\ Written(r).objectType = r.objectType
        /\ Written(r).ownerNoteId = r.ownerNoteId
    BY DEF Written
  <2>3. /\ ~OwnerPurged(r) /\ ~OwnerRejected(r) /\ ~TypeChanged(r)
    BY <1>1, AcceptedFacts DEF WriteObject
  <2>4. objects \in [Ids -> Object]
    BY DEF TypeOK
  <2>5. RowsRequested'
    BY <2>1, <2>2, <2>4 DEF OwnerInv, RowsRequested, Exists
  <2>6. NoOrphanAttachment'
    <3> SUFFICES ASSUME NEW id \in Ids, Exists(id)', objects'[id].ownerNoteId # NoId
                 PROVE  changes'["object"][objects'[id].ownerNoteId].changeType # "purge"
      BY DEF NoOrphanAttachment, Purged
    <3> DEFINE owner == objects'[id].ownerNoteId
    <3>1. CASE id # r.objectId
      <4>1. Exists(id) /\ owner = objects[id].ownerNoteId /\ owner \in Ids
        BY <2>1, <2>4, <3>1, RowsOwners DEF Exists, OwnerInv
      <4>2. ~Purged(owner)
        BY <4>1 DEF OwnerInv, NoOrphanAttachment
      <4> QED
        BY <2>1, <4>1, <4>2 DEF Purged
    <3>2. CASE id = r.objectId
      <4>1. owner = r.ownerNoteId /\ owner \in Ids
        BY <2>1, <2>2, <2>4, <3>2, RequestFacts
      <4>2. ~Purged(owner)
        <5>1. CASE Exists(id) /\ r.deleted
          <6>1. r.objectType = "attachment"
            BY <4>1, RequestFacts DEF ValidRequest
          <6>2. objects[id].objectType = "attachment"
            BY <2>3, <3>2, <5>1, <6>1 DEF TypeChanged
          <6>3. objects[id].ownerNoteId # NoId
            BY <5>1, <6>2, RowsOwners DEF OwnerInv
          <6>4. objects[id].ownerNoteId = owner
            BY <2>3, <3>2, <4>1, <6>3 DEF OwnerRejected
          <6> QED
            BY <5>1, <6>3, <6>4 DEF OwnerInv, NoOrphanAttachment
        <5>2. CASE ~(Exists(id) /\ r.deleted)
          BY <2>3, <3>2, <4>1, <5>2 DEF OwnerPurged
        <5> QED
          BY <5>1, <5>2
      <4> QED
        BY <2>1, <4>1, <4>2 DEF Purged
    <3> QED
      BY <3>1, <3>2
  <2> QED
    BY <2>5, <2>6 DEF OwnerInv
<1>2. ASSUME NEW note \in Ids, NEW blocks \in SUBSET Blocks, AdmitBodyBlocks(note, blocks)
      PROVE  OwnerInv'
  BY <1>2 DEF AdmitBodyBlocks, OwnerInv, RowsRequested, NoOrphanAttachment, Exists, Purged
<1>3. ASSUME NEW note \in Ids, HistoryChanged(note)
      PROVE  OwnerInv'
  <2>1. changes'["object"] = changes["object"] /\ objects' = objects
    BY <1>3 DEF HistoryChanged, RecordChange, Categories, TypeOK
  <2> QED
    BY <2>1 DEF OwnerInv, RowsRequested, NoOrphanAttachment, Exists, Purged
<1>4. CASE OtherUserChange
  BY <1>4 DEF OtherUserChange, OwnerInv, RowsRequested, NoOrphanAttachment, Exists, Purged
<1>5. ASSUME NEW targets \in SUBSET Ids, NEW base, PurgeTargets(targets, base)
      PROVE  OwnerInv'
  <2>1. PICK removed \in SUBSET Ids :
          /\ RemoveObjects(removed)
          /\ \A id \in removed : Exists(id)
          /\ \A id \in removed : objects[id].objectType = "note" /\ id \in targets
               => AttachmentsOf({id}) \subseteq removed
          /\ \A id \in removed \ targets : objects[id].ownerNoteId \in Ids
    BY <1>5, PurgeRemoves
  <2>2. \A id \in removed : objects[id].objectType = "note" => id \in targets
    BY <2>1, RowsOwners, IdsAssumption DEF OwnerInv
  <2> QED
    BY <2>1, <2>2, OwnerRemoval
<1>6. ASSUME NEW id \in Ids, PurgeExpiredTrash(id)
      PROVE  OwnerInv'
  BY <1>5, <1>6 DEF PurgeExpiredTrash
<1>7. ASSUME NEW note \in Ids, NEW unused \in SUBSET Ids, ReclaimAttachments(note, unused)
      PROVE  OwnerInv'
  <2>1. \A id \in unused : Exists(id) /\ objects[id].ownerNoteId = note
    BY <1>7 DEF ReclaimAttachments, AttachmentsOf
  <2>2. \A id \in unused : objects[id].objectType # "note"
    BY <2>1, RowsOwners, IdsAssumption DEF OwnerInv
  <2> QED
    BY <1>7, <2>1, <2>2, OwnerRemoval DEF ReclaimAttachments
<1>8. CASE CleanupSyncMetadata
  <2>1. objects' = objects
    BY <1>8 DEF CleanupSyncMetadata
  <2>2. \A id \in Ids : Purged(id)' => Purged(id)
    BY <1>8 DEF CleanupSyncMetadata, Purged, NoChange, TypeOK, Categories
  <2>3. \A id \in Ids : Exists(id) /\ objects[id].ownerNoteId # NoId
                          => objects[id].ownerNoteId \in Ids
    BY RowsOwners DEF OwnerInv
  <2> QED
    BY <2>1, <2>2, <2>3 DEF OwnerInv, RowsRequested, NoOrphanAttachment, Exists
<1>9. CASE Tick
  BY <1>9 DEF Tick, OwnerInv, RowsRequested, NoOrphanAttachment, Exists, Purged
<1>10. CASE UNCHANGED vars
  BY <1>10 DEF vars, OwnerInv, RowsRequested, NoOrphanAttachment, Exists, Purged
<1> QED
  BY <1>1, <1>2, <1>3, <1>4, <1>5, <1>6, <1>7, <1>8, <1>9, <1>10 DEF Next, Upkeep

(* Permanently deleting a note leaves none of its attachments stored, for  *)
(* clients that name only notes as owners.                                 *)
THEOREM PurgeCascades ==
    ASSUME OwnersAreNotes
    PROVE  Spec => []NoOrphanAttachment
<1>1. Init => TypeOK
  BY NoRowsTyped DEF Init, TypeOK
<1>2. Init => OwnerInv
  BY DEF Init, OwnerInv, RowsRequested, NoOrphanAttachment, Exists, NoObject
<1>3. OwnerInv => NoOrphanAttachment
  BY DEF OwnerInv
<1>4. TypeOK /\ OwnerInv /\ [Next]_vars => OwnerInv'
  BY OwnerStep
<1> QED
  BY <1>1, <1>2, <1>3, <1>4, TypeStep, PTL DEF Spec

-----------------------------------------------------------------------------
(***************************************************************************)
(* How rows may change.                                                    *)
(***************************************************************************)
RowStep(id) ==
    \/ objects'[id] = objects[id]
    \/ objects'[id].revision = objects[id].revision + 1
    \/ /\ objects'[id] = NoObject
       /\ \/ objects[id].deleted
          \/ LET owner == objects[id].ownerNoteId IN
             /\ owner \in Ids
             /\ \/ objects[owner].deleted /\ objects'[owner] = NoObject
                \/ ~objects[owner].deleted /\ objects'[owner] = objects[owner]

LEMMA RowSteps ==
    ASSUME OwnersAreNotes, TypeOK, OwnerInv, [Next]_vars, NEW id \in Ids
    PROVE  RowStep(id)
<1>1. ASSUME NEW key \in Keys, NEW r \in Requests, WriteObject(key, r)
      PROVE  RowStep(id)
  <2>1. objects[r.objectId].revision = r.baseRevision
    BY <1>1, AcceptedFacts DEF WriteObject, StaleBase
  <2>2. Written(r).revision = r.baseRevision + 1
    BY DEF Written
  <2> QED
    BY <1>1, <2>1, <2>2, RequestFacts DEF WriteObject, TypeOK, RowStep
<1>2. ASSUME NEW note \in Ids, NEW blocks \in SUBSET Blocks, AdmitBodyBlocks(note, blocks)
      PROVE  RowStep(id)
  BY <1>2 DEF AdmitBodyBlocks, RowStep
<1>3. ASSUME NEW note \in Ids, HistoryChanged(note)
      PROVE  RowStep(id)
  BY <1>3 DEF HistoryChanged, RowStep
<1>4. CASE OtherUserChange
  BY <1>4 DEF OtherUserChange, RowStep
<1>5. ASSUME NEW targets \in SUBSET Ids, NEW base, PurgeTargets(targets, base)
      PROVE  RowStep(id)
  <2>1. PICK removed \in SUBSET Ids :
          /\ RemoveObjects(removed)
          /\ \A a \in removed :
               \/ objects[a].deleted
               \/ LET owner == objects[a].ownerNoteId IN
                  owner \in removed /\ objects[owner].deleted
    BY <1>5, PurgeRemoves
  <2>2. \A a \in Ids : objects'[a] = IF a \in removed THEN NoObject ELSE objects[a]
    BY <2>1 DEF RemoveObjects
  <2> QED
    BY <2>1, <2>2 DEF RowStep
<1>6. ASSUME NEW target \in Ids, PurgeExpiredTrash(target)
      PROVE  RowStep(id)
  BY <1>5, <1>6 DEF PurgeExpiredTrash
<1>7. ASSUME NEW note \in Ids, NEW unused \in SUBSET Ids, ReclaimAttachments(note, unused)
      PROVE  RowStep(id)
  <2>1. /\ Exists(note) /\ objects[note].objectType = "note" /\ ~objects[note].deleted
        /\ \A a \in unused : Exists(a) /\ objects[a].ownerNoteId = note
        /\ \A a \in Ids : objects'[a] = IF a \in unused THEN NoObject ELSE objects[a]
    BY <1>7 DEF ReclaimAttachments, AttachmentsOf, RemoveObjects
  <2>2. note \notin unused
    <3> SUFFICES ASSUME note \in unused
                 PROVE  FALSE
      OBVIOUS
    <3>1. objects[note].ownerNoteId # NoId
      BY <2>1, IdsAssumption
    <3> QED
      BY <2>1, <3>1, RowsOwners DEF OwnerInv
  <2> QED
    BY <2>1, <2>2 DEF RowStep
<1>8. CASE CleanupSyncMetadata
  BY <1>8 DEF CleanupSyncMetadata, RowStep
<1>9. CASE Tick
  BY <1>9 DEF Tick, RowStep
<1>10. CASE UNCHANGED vars
  BY <1>10 DEF vars, RowStep
<1> QED
  BY <1>1, <1>2, <1>3, <1>4, <1>5, <1>6, <1>7, <1>8, <1>9, <1>10 DEF Next, Upkeep

(* No step skips a revision or loses an object that was never trashed,     *)
(* whatever the purges, retention jobs and reclamations do.                *)
THEOREM RowsChangeInOrder ==
    ASSUME OwnersAreNotes
    PROVE  Spec => RevisionDiscipline
<1>1. Init => TypeOK
  BY NoRowsTyped DEF Init, TypeOK
<1>2. Init => OwnerInv
  BY DEF Init, OwnerInv, RowsRequested, NoOrphanAttachment, Exists, NoObject
<1>3. TypeOK /\ OwnerInv /\ [Next]_vars => OwnerInv'
  BY OwnerStep
<1>4. TypeOK /\ OwnerInv /\ [Next]_vars => [\A id \in Ids : RowStep(id)]_vars
  BY RowSteps
<1> QED
  BY <1>1, <1>2, <1>3, <1>4, TypeStep, PTL DEF Spec, RevisionDiscipline, RowStep

-----------------------------------------------------------------------------
(***************************************************************************)
(* The store implements ObjectRegisters.                                   *)
(***************************************************************************)
LEMMA RemovalMaps ==
    ASSUME TypeOK, NEW removed \in SUBSET Ids, RemoveObjects(removed), applied' = applied,
           (\E id \in removed : objects[id].deleted) \/ removed \subseteq OwnedIds
    PROVE  Registers!Next
<1>1. objects' = [id \in Ids |-> IF id \in removed THEN NoObject ELSE objects[id]]
  BY DEF RemoveObjects
<1>2. Registers!Remove(removed)
  BY <1>1 DEF Registers!Remove, NoObject
<1> QED
  BY <1>2 DEF Registers!Next

LEMMA StoreStepMaps ==
    ASSUME Skew = 0, TypeOK, ReceiptsCover, RowsRequested, [Next]_vars
    PROVE  [Registers!Next]_Registers!vars
<1>1. ASSUME NEW key \in Keys, NEW r \in Requests, WriteObject(key, r)
      PROVE  Registers!Next
  <2>1. /\ objects' = [objects EXCEPT ![r.objectId] = Written(r)]
        /\ applied' = [applied EXCEPT ![key] = @ + 1]
        /\ r.objectId \in Ids /\ r.ciphertext \in Ciphertexts /\ r.deleted \in BOOLEAN
    BY <1>1, RequestFacts DEF WriteObject
  <2>2. /\ objects[r.objectId].revision = r.baseRevision
        /\ ~Expired(key) /\ ~HasReceipt(key)
    BY <1>1, AcceptedFacts DEF WriteObject, StaleBase
  <2>3. /\ applied \in [Keys -> Nat] /\ objects \in [Ids -> Object]
        /\ now \in Nat /\ KeyTime \in [Keys -> Nat] /\ Lifetime \in Nat
    BY KeysAssumption, LifetimeAssumption DEF TypeOK
  <2>4. applied[key] = 0
    BY <2>2, <2>3 DEF ReceiptsCover, Expired
  <2>5. /\ Written(r).revision = r.baseRevision + 1
        /\ Written(r).ciphertext = r.ciphertext
        /\ Written(r).deleted = r.deleted
    BY DEF Written
  <2>6. {k \in Keys : applied'[k] > 0} = {k \in Keys : applied[k] > 0} \cup {key}
    BY <2>1, <2>3
  <2>7. Registers!Execute(key, r.objectId, r.ciphertext, r.deleted)
    <3>1. \A id \in Ids :
            objects'[id] = IF id = r.objectId THEN Written(r) ELSE objects[id]
      BY <2>1, <2>3
    <3>2. [id \in Ids |-> objects'[id].revision]
            = [[id \in Ids |-> objects[id].revision] EXCEPT ![r.objectId] =
                 [id \in Ids |-> objects[id].revision][r.objectId] + 1]
      BY <2>1, <2>2, <2>5, <3>1
    <3>3. [id \in Ids |-> objects'[id].ciphertext]
            = [[id \in Ids |-> objects[id].ciphertext] EXCEPT ![r.objectId] = r.ciphertext]
      <4>1. \A id \in Ids : objects'[id].ciphertext =
              IF id = r.objectId THEN r.ciphertext ELSE objects[id].ciphertext
        BY <2>5, <3>1
      <4> QED
        BY <2>1, <4>1
    <3>4. [id \in Ids |-> objects'[id].deleted]
            = [[id \in Ids |-> objects[id].deleted] EXCEPT ![r.objectId] = r.deleted]
      <4>1. \A id \in Ids : objects'[id].deleted =
              IF id = r.objectId THEN r.deleted ELSE objects[id].deleted
        BY <2>5, <3>1
      <4> QED
        BY <2>1, <4>1
    <3>5. key \notin {k \in Keys : applied[k] > 0}
      BY <2>4
    <3> QED
      BY <2>6, <3>2, <3>3, <3>4, <3>5 DEF Registers!Execute
  <2> QED
    BY <2>1, <2>7 DEF Registers!Next
<1>2. ASSUME NEW targets \in SUBSET Ids, NEW base, PurgeTargets(targets, base)
      PROVE  Registers!Next
  <2>1. PICK removed \in SUBSET Ids :
          /\ RemoveObjects(removed)
          /\ \A id \in removed :
               \/ objects[id].deleted
               \/ LET owner == objects[id].ownerNoteId IN
                  owner \in removed /\ objects[owner].deleted
          /\ applied' = applied
    BY <1>2, PurgeRemoves
  <2>2. (\E id \in removed : objects[id].deleted) \/ removed \subseteq OwnedIds
    BY <2>1
  <2> QED
    BY <2>1, <2>2, RemovalMaps
<1>3. ASSUME NEW note \in Ids, NEW unused \in SUBSET Ids, ReclaimAttachments(note, unused)
      PROVE  Registers!Next
  <2>1. \A id \in unused : Exists(id) /\ objects[id].ownerNoteId = note
    BY <1>3 DEF ReclaimAttachments, AttachmentsOf
  <2>2. unused \subseteq OwnedIds
    BY <2>1, IdsAssumption DEF RowsRequested, OwnedIds
  <2> QED
    BY <1>3, <2>2, RemovalMaps DEF ReclaimAttachments
<1>4. UNCHANGED <<objects, applied>> => UNCHANGED Registers!vars
  BY DEF Registers!vars
<1>5. ASSUME NEW id \in Ids, PurgeExpiredTrash(id)
      PROVE  Registers!Next
  BY <1>2, <1>5 DEF PurgeExpiredTrash
<1>6. ASSUME NEW note \in Ids, NEW blocks \in SUBSET Blocks, AdmitBodyBlocks(note, blocks)
      PROVE  UNCHANGED <<objects, applied>>
  BY <1>6 DEF AdmitBodyBlocks, history
<1>7. ASSUME NEW note \in Ids, HistoryChanged(note)
      PROVE  UNCHANGED <<objects, applied>>
  BY <1>7 DEF HistoryChanged, history
<1>8. OtherUserChange \/ CleanupSyncMetadata \/ Tick \/ UNCHANGED vars
        => UNCHANGED <<objects, applied>>
  BY DEF OtherUserChange, CleanupSyncMetadata, Tick, vars, history
<1> QED
  BY <1>1, <1>2, <1>3, <1>4, <1>5, <1>6, <1>7, <1>8 DEF Next, Upkeep

(* Clients may reason about registers: every step of the store executes a  *)
(* fresh operation on the revision it named, removes registers, or is      *)
(* invisible.                                                              *)
THEOREM StoreImplementsRegisters ==
    ASSUME Skew = 0, OwnersAreNotes
    PROVE  Spec => ImplementsRegisters
<1>1. Init => TypeOK
  BY NoRowsTyped DEF Init, TypeOK
<1>2. Init => ReceiptsCover
  BY DEF Init, ReceiptsCover, HasReceipt, NoReceipt
<1>3. Init => OwnerInv
  BY DEF Init, OwnerInv, RowsRequested, NoOrphanAttachment, Exists, NoObject
<1>4. Init => Registers!Init
  BY DEF Init, Registers!Init, NoObject
<1>5. TypeOK /\ ReceiptsCover /\ [Next]_vars => ReceiptsCover'
  BY ReceiptsStep
<1>6. TypeOK /\ OwnerInv /\ [Next]_vars => OwnerInv'
  BY OwnerStep
<1>7. TypeOK /\ ReceiptsCover /\ OwnerInv /\ [Next]_vars
        => [Registers!Next]_Registers!vars
  BY StoreStepMaps DEF OwnerInv
<1> QED
  BY <1>1, <1>2, <1>3, <1>4, <1>5, <1>6, <1>7, TypeStep, PTL
     DEF Spec, ImplementsRegisters, Registers!Spec

(* The invariant the run checks, from the four theorems above: rows typed, *)
(* the change log exact (objectStore.ts, lifecycle.ts), notes whole, and   *)
(* purges cascading (trash.ts).                                            *)
THEOREM StoreIsSafe ==
    ASSUME OwnersAreNotes
    PROVE  Spec => []StoreSafe
<1>1. TypeOK /\ ChangeLogExact /\ BodyComplete /\ NoOrphanAttachment => StoreSafe
  BY DEF StoreSafe
<1> QED
  BY <1>1, TypeCorrect, ChangeLogIsExact, NotesStayWhole, PurgeCascades, PTL

-----------------------------------------------------------------------------
(***************************************************************************)
(* The device that follows the store.                                      *)
(***************************************************************************)
-----------------------------------------------------------------------------
(***************************************************************************)
(* The inductive invariant.                                                *)
(***************************************************************************)
NumberOf(id) == changes["object"][id].sequence

(* The one operation that creates an identifier has been executed.         *)
Born(id) ==
    \E key \in Keys : /\ applied[key] = 1
                      /\ RequestOf[key].objectId = id
                      /\ RequestOf[key].baseRevision = 0

(* A copy of a row is current, or the log (or its floor) beyond c tells.   *)
CurrentTo(id, row, c) == row = objects[id] \/ NumberOf(id) > c \/ floor > c

(* What a reconciliation has not met does not exist, or is new to everyone.*)
Missed(id, c) == Exists(id) => view[id] = NoObject /\ NumberOf(id) > c

Met(id, c) == IF id \in seen THEN CurrentTo(id, view[id], c) ELSE Missed(id, c)

StoreInv == TypeOK /\ LogInv /\ ReceiptsCover /\ AbsentRows

BornInv == \A id \in Ids : Exists(id) \/ Purged(id) \/ NumberOf(id) > 0 => Born(id)

CopiesBorn ==
    /\ \A id \in Ids :
         /\ view[id] # NoObject => Born(id)
         /\ Exists(id) => view[id].revision <= objects[id].revision
    /\ page.answered => \A id \in page.listed :
         /\ Born(id)
         /\ page.rows[id] = NoObject => ~Exists(id)
         /\ Exists(id) => page.rows[id].revision <= objects[id].revision

Positions ==
    /\ cursor <= head /\ statusHead <= head /\ position <= head
    /\ phase \in {"scan", "catchup", "missing", "adopt"} => cursor <= statusHead
    /\ phase \in {"catchup", "missing", "adopt"} => statusHead <= position
    /\ phase = "pull" => epochKnown /\ position = cursor
    /\ page.answered => phase \in {"scan", "catchup", "pull"}
    /\ page.answered /\ phase \in {"catchup", "pull"}
         => position <= page.next /\ page.next <= head

Mirror == epochKnown => \A id \in Ids : CurrentTo(id, view[id], cursor)

PullPage ==
    phase = "pull" /\ page.answered =>
       \A id \in Ids :
          CurrentTo(id, IF id \in page.listed THEN page.rows[id] ELSE view[id], page.next)

CatchupPage ==
    phase = "catchup" /\ page.answered =>
       \A id \in Ids :
          IF id \in page.listed
            THEN /\ CurrentTo(id, page.rows[id], page.next)
                 /\ page.rows[id] # NoObject => id \in seen
            ELSE Met(id, page.next)

ScanPage ==
    /\ phase = "scan" =>
         \A id \in seen : id <= after \/ (page.answered /\ id \in page.listed)
    /\ phase = "scan" /\ page.answered =>
         after <= page.next /\ \A id \in page.listed : id <= page.next
    /\ phase = "scan" /\ page.answered =>
         \A id \in Ids :
            IF id \in page.listed
              THEN id \in seen /\ CurrentTo(id, page.rows[id], statusHead)
              ELSE after < id /\ (page.more => id <= page.next) => Missed(id, statusHead)

Progress ==
    /\ phase = "scan" => \A id \in Ids : id <= after => Met(id, statusHead)
    /\ phase \in {"catchup", "missing"} => \A id \in Ids : Met(id, position)
    /\ phase = "adopt" => \A id \in Ids : CurrentTo(id, view[id], position)

FeedInv ==
    /\ FeedTypeOK /\ StoreInv /\ BornInv
    /\ CopiesBorn /\ Positions /\ Mirror
    /\ PullPage /\ CatchupPage /\ ScanPage /\ Progress

-----------------------------------------------------------------------------
(***************************************************************************)
(* What a step of the server can do to one object and its notice.          *)
(***************************************************************************)
Moves(id) ==
    /\ \/ NumberOf(id)' > head
       \/ objects'[id] = objects[id] /\ NumberOf(id)' = NumberOf(id)
       \/ /\ objects'[id] = objects[id] /\ ~Exists(id)
          /\ NumberOf(id)' = 0 /\ NumberOf(id) <= floor'
    /\ Exists(id) /\ Exists(id)' => objects[id].revision <= objects'[id].revision
    /\ Born(id) => Born(id)'
    /\ Born(id) /\ ~Exists(id) => ~Exists(id)'
    /\ Exists(id)' \/ Purged(id)' \/ NumberOf(id)' > 0 => Born(id)'

(* Types of the fields the proofs below compare. *)
LEMMA StoreTypes ==
    ASSUME TypeOK
    PROVE  /\ head \in Nat /\ floor \in Nat /\ sequence \in Nat /\ now \in Nat
           /\ objects \in [Ids -> Object]
           /\ \A id \in Ids : NumberOf(id) \in Nat /\ objects[id].revision \in Nat
           /\ applied \in [Keys -> Nat]
BY DEF TypeOK, NumberOf, Categories, Change, Object

(* Operations once executed stay executed. *)
LEMMA BornKept ==
    ASSUME NEW id, Born(id), \A key \in Keys : applied[key] = 1 => applied'[key] = 1
    PROVE  Born(id)'
BY DEF Born

(* A write moves its object's notice beyond the head. *)
LEMMA WriteMoves ==
    ASSUME StoreInv, BornInv, NEW key \in Keys, WriteObject(key, RequestOf[key]),
           NEW id \in Ids
    PROVE  Moves(id)
<1> DEFINE r == RequestOf[key]
<1>1. r \in Requests /\ r.objectId \in Ids /\ r.baseRevision \in Nat
  BY HonestClients, RequestFacts
<1>2. /\ ~Expired(key) /\ ~HasReceipt(key) /\ ~StaleBase(r)
  BY <1>1, AcceptedFacts DEF WriteObject
<1>3. KeyTime[key] > now - Lifetime
  BY <1>2, KeysAssumption, LifetimeAssumption DEF Expired, StoreInv, TypeOK
<1>4. applied[key] = 0
  BY <1>2, <1>3, StoreTypes, KeysAssumption, LifetimeAssumption DEF StoreInv, ReceiptsCover
<1>5. /\ objects' = [objects EXCEPT ![r.objectId] = Written(r)]
      /\ applied' = [applied EXCEPT ![key] = @ + 1]
      /\ changes' = [changes EXCEPT !["object"][r.objectId] =
                       [sequence |-> sequence + 1, changeType |-> "upsert",
                        revision |-> r.baseRevision + 1, createdAt |-> now]]
  BY DEF WriteObject, RecordChange
<1>6. changes \in [Categories -> [Ids -> Change]] /\ "object" \in Categories
      /\ applied \in [Keys -> Nat] /\ objects \in [Ids -> Object]
      /\ head \in Nat /\ sequence \in Nat /\ head <= sequence
  BY DEF StoreInv, TypeOK, Categories, LogInv, LogOrdered
<1>7. \A k \in Keys : applied[k] = 1 => applied'[k] = 1
  BY <1>4, <1>5, <1>6
<1>8. Born(id) => Born(id)'
  BY <1>7, BornKept
<1>9. objects[r.objectId].revision = r.baseRevision
  BY <1>2 DEF StaleBase
<1>10. Written(r).revision = r.baseRevision + 1
  BY DEF Written
<1>11. CASE id # r.objectId
  <2>1. objects'[id] = objects[id] /\ changes'["object"][id] = changes["object"][id]
    BY <1>5, <1>6, <1>11
  <2> QED
    BY <1>6, <1>8, <2>1 DEF Moves, NumberOf, BornInv, Exists, Purged, Object
<1>12. CASE id = r.objectId
  <2>1. NumberOf(id)' > head
    BY <1>1, <1>5, <1>6, <1>12 DEF NumberOf
  <2>2. objects'[id] = Written(r)
    BY <1>1, <1>5, <1>6, <1>12
  <2>3. Born(id) => Exists(id)
    <3> SUFFICES ASSUME Born(id), ~Exists(id)
                 PROVE  FALSE
      OBVIOUS
    <3>1. r.baseRevision = 0
      BY <1>1, <1>6, <1>9, <1>12 DEF Exists, Object
    <3>2. PICK k \in Keys : /\ applied[k] = 1
                            /\ RequestOf[k].objectId = id
                            /\ RequestOf[k].baseRevision = 0
      BY DEF Born
    <3>3. k = key
      BY <1>12, <3>1, <3>2, HonestClients
    <3> QED
      BY <1>4, <3>2, <3>3
  <2>4. Born(id)'
    <3>1. CASE Exists(id)
      BY <1>8, <3>1 DEF BornInv
    <3>2. CASE ~Exists(id)
      <4>1. r.baseRevision = 0
        BY <1>1, <1>6, <1>9, <1>12, <3>2 DEF Exists, Object
      <4>2. applied'[key] = 1
        BY <1>4, <1>5, <1>6
      <4> QED
        BY <1>12, <4>1, <4>2 DEF Born
    <3> QED
      BY <3>1, <3>2
  <2>5. objects[id].revision <= objects'[id].revision
    BY <1>1, <1>9, <1>10, <1>12, <2>2
  <2> QED
    BY <2>1, <2>3, <2>4, <2>5 DEF Moves
<1> QED
  BY <1>11, <1>12

(* A removal moves the notices of what it removes beyond the head. *)
LEMMA RemovalMoves ==
    ASSUME StoreInv, BornInv, NEW removed \in SUBSET Ids, RemoveObjects(removed),
           \A a \in removed : Exists(a), applied' = applied, NEW id \in Ids
    PROVE  Moves(id)
<1>1. PICK number \in [removed -> Nat] :
        /\ \A a \in removed : sequence < number[a] /\ number[a] <= head'
        /\ changes' = [category \in Categories |->
             [a \in Ids |->
                IF a \notin removed THEN changes[category][a]
                ELSE IF category = "history" THEN NoChange
                ELSE [sequence |-> number[a], changeType |-> "purge",
                      revision |-> 0, createdAt |-> now]]]
  BY RemovalFacts DEF StoreInv
<1>2. objects'[id] = IF id \in removed THEN NoObject ELSE objects[id]
  BY DEF RemoveObjects
<1>3. "object" \in Categories /\ head \in Nat /\ sequence \in Nat /\ head <= sequence
  BY DEF StoreInv, TypeOK, Categories, LogInv, LogOrdered
<1>4. Born(id) => Born(id)'
  BY DEF Born
<1>5. CASE id \in removed
  <2>1. NumberOf(id)' > head
    BY <1>1, <1>3, <1>5 DEF NumberOf
  <2>2. ~Exists(id)'
    BY <1>2, <1>5 DEF Exists, NoObject
  <2>3. Born(id)'
    BY <1>4, <1>5 DEF BornInv
  <2> QED
    BY <2>1, <2>2, <2>3 DEF Moves
<1>6. CASE id \notin removed
  <2>1. objects'[id] = objects[id] /\ changes'["object"][id] = changes["object"][id]
    BY <1>1, <1>2, <1>3, <1>6
  <2>2. objects[id].revision \in Nat
    BY StoreTypes DEF StoreInv
  <2> QED
    BY <1>4, <2>1, <2>2 DEF Moves, NumberOf, BornInv, Exists, Purged
<1> QED
  BY <1>5, <1>6

(* A step that leaves rows and notices alone. *)
LEMMA QuietMoves ==
    ASSUME StoreInv, BornInv, NEW id \in Ids, objects' = objects, applied' = applied,
           changes'["object"][id] = changes["object"][id]
    PROVE  Moves(id)
<1>1. objects[id].revision \in Nat
  BY StoreTypes DEF StoreInv
<1> QED
  BY <1>1 DEF Moves, NumberOf, Born, BornInv, Exists, Purged

(* The collection of tombstones raises the floor past them. *)
LEMMA CleanupMoves ==
    ASSUME StoreInv, BornInv, NEW id \in Ids, CleanupSyncMetadata
    PROVE  Moves(id)
<1>1. objects' = objects /\ applied' = applied
  BY DEF CleanupSyncMetadata, history
<1>2. changes'["object"][id] = IF id \in ExpiredTombstones THEN NoChange ELSE changes["object"][id]
  BY DEF CleanupSyncMetadata, StoreInv, TypeOK, Categories
<1>3. CASE id \in ExpiredTombstones
  <2>1. NumberOf(id) <= floor'
    BY <1>3 DEF CleanupSyncMetadata, NumberOf
  <2>2. Purged(id) /\ ~Exists(id)
    BY <1>3 DEF ExpiredTombstones, StoreInv, LogInv, LogMatchesRows, Purged
  <2>3. NumberOf(id)' = 0 /\ ~Purged(id)'
    BY <1>2, <1>3 DEF NumberOf, Purged, NoChange
  <2> QED
    BY <1>1, <2>1, <2>2, <2>3 DEF Moves, Born, Exists
<1>4. CASE id \notin ExpiredTombstones
  BY <1>1, <1>2, <1>4, QuietMoves
<1> QED
  BY <1>3, <1>4

(* A row that is removed leaves nothing behind. *)
LEMMA AbsentStep == TypeOK /\ AbsentRows /\ [Next]_vars => AbsentRows'
<1> SUFFICES ASSUME TypeOK, AbsentRows, [Next]_vars
             PROVE  AbsentRows'
  OBVIOUS
<1>1. ASSUME NEW key \in Keys, NEW r \in Requests, WriteObject(key, r)
      PROVE  AbsentRows'
  <2>1. objects' = [objects EXCEPT ![r.objectId] = Written(r)] /\ r.baseRevision \in Nat
    BY <1>1, RequestFacts DEF WriteObject
  <2>2. Written(r).revision = r.baseRevision + 1
    BY DEF Written
  <2> QED
    BY <2>1, <2>2 DEF AbsentRows, Exists, TypeOK
<1>2. ASSUME NEW removed \in SUBSET Ids, RemoveObjects(removed)
      PROVE  AbsentRows'
  BY <1>2 DEF RemoveObjects, AbsentRows, Exists
<1>3. ASSUME NEW targets \in SUBSET Ids, NEW base, PurgeTargets(targets, base)
      PROVE  AbsentRows'
  BY <1>2, <1>3, PurgeRemoves
<1>4. ASSUME NEW id \in Ids, PurgeExpiredTrash(id)
      PROVE  AbsentRows'
  BY <1>3, <1>4 DEF PurgeExpiredTrash
<1>5. ASSUME NEW note \in Ids, NEW unused \in SUBSET Ids, ReclaimAttachments(note, unused)
      PROVE  AbsentRows'
  BY <1>2, <1>5 DEF ReclaimAttachments
<1>6. CASE objects' = objects
  BY <1>6 DEF AbsentRows, Exists
<1> QED
  BY <1>1, <1>3, <1>4, <1>5, <1>6
     DEF Next, Upkeep, AdmitBodyBlocks, HistoryChanged, OtherUserChange,
         CleanupSyncMetadata, Tick, vars

(* A step of the server moves every object and its notice as described,    *)
(* and neither the head nor the floor goes back.                           *)
LEMMA StoreStepMoves ==
    ASSUME StoreInv, BornInv, StoreStep
    PROVE  /\ StoreInv' /\ BornInv'
           /\ \A id \in Ids : Moves(id)
           /\ head <= head' /\ floor <= floor'
<1>1. [Next]_vars
  BY HonestClients DEF StoreStep, Next
<1>2. StoreInv'
  BY <1>1, TypeStep, LogStep, ReceiptsStep, AbsentStep, ClocksAgree DEF StoreInv
<1>3. \A id \in Ids : Moves(id)
  <2> SUFFICES ASSUME NEW id \in Ids
               PROVE  Moves(id)
    OBVIOUS
  <2>1. ASSUME NEW key \in Keys, WriteObject(key, RequestOf[key])
        PROVE  Moves(id)
    BY <2>1, WriteMoves
  <2>2. ASSUME NEW note \in Ids, NEW blocks \in SUBSET Blocks, AdmitBodyBlocks(note, blocks)
        PROVE  Moves(id)
    BY <2>2, QuietMoves DEF AdmitBodyBlocks, history
  <2>3. ASSUME NEW note \in Ids, HistoryChanged(note)
        PROVE  Moves(id)
    <3>1. changes'["object"][id] = changes["object"][id]
      BY <2>3 DEF HistoryChanged, RecordChange, StoreInv, TypeOK, Categories
    <3> QED
      BY <2>3, <3>1, QuietMoves DEF HistoryChanged, history
  <2>4. CASE OtherUserChange
    BY <2>4, QuietMoves DEF OtherUserChange, history
  <2>5. ASSUME NEW targets \in SUBSET Ids, NEW base, PurgeTargets(targets, base)
        PROVE  Moves(id)
    BY <2>5, PurgeRemoves, RemovalMoves DEF StoreInv
  <2>6. ASSUME NEW target \in Ids, PurgeExpiredTrash(target)
        PROVE  Moves(id)
    BY <2>5, <2>6 DEF PurgeExpiredTrash
  <2>7. ASSUME NEW note \in Ids, NEW unused \in SUBSET Ids, ReclaimAttachments(note, unused)
        PROVE  Moves(id)
    <3>1. \A a \in unused : Exists(a)
      BY <2>7 DEF ReclaimAttachments, AttachmentsOf
    <3> QED
      BY <2>7, <3>1, RemovalMoves DEF ReclaimAttachments
  <2>8. CASE CleanupSyncMetadata
    BY <2>8, CleanupMoves
  <2>9. CASE Tick
    BY <2>9, QuietMoves DEF Tick, history
  <2> QED
    BY <2>1, <2>2, <2>3, <2>4, <2>5, <2>6, <2>7, <2>8, <2>9 DEF StoreStep, Upkeep
<1>4. BornInv'
  BY <1>3 DEF BornInv, Moves
<1>5. head <= head' /\ floor <= floor'
  <2>1. head \in Nat /\ floor \in Nat /\ sequence \in Nat /\ head <= sequence
    BY DEF StoreInv, TypeOK, LogInv, LogOrdered
  <2>2. ASSUME NEW key \in Keys, WriteObject(key, RequestOf[key])
        PROVE  head <= head' /\ floor <= floor'
    BY <2>1, <2>2 DEF WriteObject, RecordChange
  <2>3. ASSUME NEW note \in Ids, HistoryChanged(note)
        PROVE  head <= head' /\ floor <= floor'
    BY <2>1, <2>3 DEF HistoryChanged, RecordChange
  <2>4. ASSUME NEW removed \in SUBSET Ids, RemoveObjects(removed), floor' = floor
        PROVE  head <= head' /\ floor <= floor'
    <3>1. /\ sequence' \in Nat /\ sequence <= sequence'
          /\ head' = head \/ head' = sequence'
      BY <2>4, RemovalFacts DEF StoreInv
    <3> QED
      BY <2>1, <2>4, <3>1
  <2>5. ASSUME NEW targets \in SUBSET Ids, NEW base, PurgeTargets(targets, base)
        PROVE  head <= head' /\ floor <= floor'
    BY <2>4, <2>5, PurgeRemoves DEF StoreInv
  <2>6. ASSUME NEW note \in Ids, NEW unused \in SUBSET Ids, ReclaimAttachments(note, unused)
        PROVE  head <= head' /\ floor <= floor'
    BY <2>4, <2>6 DEF ReclaimAttachments
  <2>7. ASSUME NEW id \in Ids, PurgeExpiredTrash(id)
        PROVE  head <= head' /\ floor <= floor'
    BY <2>5, <2>7 DEF PurgeExpiredTrash
  <2>8. CASE CleanupSyncMetadata
    BY <2>1, <2>8 DEF CleanupSyncMetadata
  <2>9. ASSUME NEW note \in Ids, NEW blocks \in SUBSET Blocks, AdmitBodyBlocks(note, blocks)
        PROVE  head <= head' /\ floor <= floor'
    BY <2>1, <2>9 DEF AdmitBodyBlocks
  <2>10. CASE OtherUserChange \/ Tick
    BY <2>1, <2>10 DEF OtherUserChange, Tick
  <2> QED
    BY <2>2, <2>3, <2>5, <2>6, <2>7, <2>8, <2>9, <2>10 DEF StoreStep, Upkeep
<1> QED
  BY <1>2, <1>3, <1>4, <1>5

-----------------------------------------------------------------------------
(***************************************************************************)
(* The invariant is kept while the server moves.                           *)
(***************************************************************************)
(* A copy that is current up to c stays so: what moved has a number beyond *)
(* the head, and a collected notice pushed the floor past it.              *)
LEMMA CurrentKept ==
    ASSUME StoreInv, StoreInv', floor <= floor', NEW id \in Ids, Moves(id),
           NEW row, NEW c \in Nat, c <= head, CurrentTo(id, row, c)
    PROVE  row = objects'[id] \/ NumberOf(id)' > c \/ floor' > c
<1>1. head \in Nat /\ floor \in Nat /\ NumberOf(id) \in Nat
  BY StoreTypes DEF StoreInv
<1>2. floor' \in Nat /\ NumberOf(id)' \in Nat
  BY DEF StoreInv, TypeOK, NumberOf, Categories, Change
<1>3. CASE NumberOf(id)' > head
  BY <1>1, <1>2, <1>3
<1>4. CASE objects'[id] = objects[id] /\ NumberOf(id)' = NumberOf(id)
  BY <1>1, <1>2, <1>4 DEF CurrentTo
<1>5. CASE objects'[id] = objects[id] /\ NumberOf(id) <= floor'
  BY <1>1, <1>2, <1>5 DEF CurrentTo
<1> QED
  BY <1>3, <1>4, <1>5 DEF Moves

(* What a scan has missed stays absent, or was never on the device.        *)
LEMMA MissedKept ==
    ASSUME StoreInv, StoreInv', NEW id \in Ids, Moves(id),
           view[id] # NoObject => Born(id),
           NEW c \in Nat, c <= head, Missed(id, c)
    PROVE  Exists(id)' => view[id] = NoObject /\ NumberOf(id)' > c
<1>1. head \in Nat /\ NumberOf(id) \in Nat /\ NumberOf(id)' \in Nat
  BY StoreTypes DEF StoreInv, TypeOK, NumberOf, Categories, Change
<1>2. SUFFICES ASSUME Exists(id)'
               PROVE  view[id] = NoObject /\ NumberOf(id)' > c
  OBVIOUS
<1>3. view[id] = NoObject
  BY <1>2 DEF Moves, Missed
<1>4. NumberOf(id)' > head \/ (Exists(id) /\ NumberOf(id)' = NumberOf(id))
  BY <1>2 DEF Moves, Exists
<1> QED
  BY <1>1, <1>3, <1>4 DEF Missed

(* While the server moves the reader keeps everything.                     *)
LEMMA StoreStepKeeps == ASSUME FeedInv, StoreStep PROVE FeedInv'
<1>1. /\ StoreInv /\ BornInv /\ StoreInv' /\ BornInv'
      /\ \A id \in Ids : Moves(id)
      /\ head <= head' /\ floor <= floor'
  BY StoreStepMoves DEF FeedInv
<1>2. /\ view' = view /\ cursor' = cursor /\ epochKnown' = epochKnown
      /\ leaseIssued' = leaseIssued /\ phase' = phase /\ statusHead' = statusHead
      /\ newLease' = newLease /\ after' = after /\ position' = position
      /\ seen' = seen /\ page' = page /\ interrupts' = interrupts
  BY DEF StoreStep, reader
<1>3. FeedTypeOK'
  BY <1>1, <1>2 DEF FeedInv, FeedTypeOK, StoreInv
<1>4. /\ head \in Nat /\ head' \in Nat
      /\ cursor \in Nat /\ statusHead \in Nat /\ position \in Nat /\ after \in Nat
      /\ page.next \in Nat /\ page.listed \subseteq Ids
      /\ \A id \in Ids : /\ view[id].revision \in Nat
                         /\ page.rows[id].revision \in Nat
                         /\ objects[id].revision \in Nat
                         /\ objects'[id].revision \in Nat
  BY <1>1 DEF FeedInv, FeedTypeOK, StoreInv, TypeOK, Page, Object
<1>5. /\ cursor <= head /\ statusHead <= head /\ position <= head
      /\ page.answered /\ phase \in {"catchup", "pull"} => page.next <= head
  BY DEF FeedInv, Positions
<1>6. \A id \in Ids, c \in Nat :
        /\ c <= head /\ CurrentTo(id, view[id], c) => CurrentTo(id, view[id], c)'
        /\ c <= head /\ CurrentTo(id, page.rows[id], c) => CurrentTo(id, page.rows[id], c)'
  <2> SUFFICES ASSUME NEW id \in Ids, NEW c \in Nat, c <= head
               PROVE  /\ CurrentTo(id, view[id], c) => CurrentTo(id, view[id], c)'
                      /\ CurrentTo(id, page.rows[id], c) => CurrentTo(id, page.rows[id], c)'
    OBVIOUS
  <2>1. CurrentTo(id, view[id], c) => CurrentTo(id, view[id], c)'
    <3> SUFFICES ASSUME CurrentTo(id, view[id], c) PROVE CurrentTo(id, view[id], c)'
      OBVIOUS
    <3>1. view[id] = objects'[id] \/ NumberOf(id)' > c \/ floor' > c
      BY <1>1, CurrentKept
    <3> QED
      BY <1>2, <3>1 DEF CurrentTo
  <2>2. CurrentTo(id, page.rows[id], c) => CurrentTo(id, page.rows[id], c)'
    <3> SUFFICES ASSUME CurrentTo(id, page.rows[id], c) PROVE CurrentTo(id, page.rows[id], c)'
      OBVIOUS
    <3>1. page.rows[id] = objects'[id] \/ NumberOf(id)' > c \/ floor' > c
      BY <1>1, CurrentKept
    <3> QED
      BY <1>2, <3>1 DEF CurrentTo
  <2> QED
    BY <2>1, <2>2
<1>7. \A id \in Ids, c \in Nat : c <= head /\ Missed(id, c) => Missed(id, c)'
  <2> SUFFICES ASSUME NEW id \in Ids, NEW c \in Nat, c <= head, Missed(id, c)
               PROVE  Missed(id, c)'
    OBVIOUS
  <2>1. Exists(id)' => view[id] = NoObject /\ NumberOf(id)' > c
    BY <1>1, MissedKept DEF FeedInv, CopiesBorn
  <2> QED
    BY <1>2, <2>1 DEF Missed
<1>8. \A id \in Ids, c \in Nat : c <= head /\ Met(id, c) => Met(id, c)'
  BY <1>2, <1>6, <1>7 DEF Met
<1>9. CopiesBorn'
  <2>1. ASSUME NEW id \in Ids
        PROVE  /\ view[id] # NoObject => Born(id)'
               /\ Exists(id)' => view[id].revision <= objects'[id].revision
    <3>1. view[id] # NoObject => Born(id)
      BY DEF FeedInv, CopiesBorn
    <3>2. Exists(id) => view[id].revision <= objects[id].revision
      BY DEF FeedInv, CopiesBorn
    <3>3. view[id] = NoObject => view[id].revision = 0
      BY DEF NoObject
    <3> QED
      BY <1>1, <1>4, <3>1, <3>2, <3>3 DEF Moves
  <2>2. ASSUME page.answered, NEW id \in page.listed
        PROVE  /\ Born(id)'
               /\ page.rows[id] = NoObject => ~Exists(id)'
               /\ Exists(id)' => page.rows[id].revision <= objects'[id].revision
    <3>1. /\ id \in Ids /\ Born(id)
          /\ page.rows[id] = NoObject => ~Exists(id)
          /\ Exists(id) => page.rows[id].revision <= objects[id].revision
      BY <1>4, <2>2 DEF FeedInv, CopiesBorn
    <3> QED
      BY <1>1, <1>4, <3>1 DEF Moves
  <2> QED
    BY <1>2, <2>1, <2>2 DEF CopiesBorn
<1>10. Positions'
  BY <1>1, <1>2, <1>4, <1>5 DEF FeedInv, Positions
<1>11. Mirror'
  BY <1>2, <1>4, <1>5, <1>6 DEF FeedInv, Mirror, CurrentTo
<1>12. PullPage'
  <2> SUFFICES ASSUME phase = "pull", page.answered, NEW id \in Ids
               PROVE  CurrentTo(id, IF id \in page.listed THEN page.rows[id] ELSE view[id],
                                page.next)'
    BY <1>2 DEF PullPage
  <2>1. CurrentTo(id, IF id \in page.listed THEN page.rows[id] ELSE view[id], page.next)
    BY DEF FeedInv, PullPage
  <2>2. CASE id \in page.listed
    <3>1. CurrentTo(id, page.rows[id], page.next)
      BY <2>1, <2>2
    <3> QED
      BY <1>2, <1>4, <1>5, <1>6, <2>2, <3>1 DEF CurrentTo
  <2>3. CASE id \notin page.listed
    <3>1. CurrentTo(id, view[id], page.next)
      BY <2>1, <2>3
    <3> QED
      BY <1>2, <1>4, <1>5, <1>6, <2>3, <3>1 DEF CurrentTo
  <2> QED
    BY <2>2, <2>3
<1>13. CatchupPage'
  <2> SUFFICES ASSUME phase = "catchup", page.answered, NEW id \in Ids
               PROVE  (IF id \in page.listed
                         THEN /\ CurrentTo(id, page.rows[id], page.next)
                              /\ page.rows[id] # NoObject => id \in seen
                         ELSE Met(id, page.next))'
    BY <1>2 DEF CatchupPage
  <2>1. CASE id \in page.listed
    <3>1. CurrentTo(id, page.rows[id], page.next) /\ (page.rows[id] # NoObject => id \in seen)
      BY <2>1 DEF FeedInv, CatchupPage
    <3> QED
      BY <1>2, <1>4, <1>5, <1>6, <2>1, <3>1 DEF CurrentTo
  <2>2. CASE id \notin page.listed
    <3>1. Met(id, page.next)
      BY <2>2 DEF FeedInv, CatchupPage
    <3> QED
      BY <1>2, <1>4, <1>5, <1>8, <2>2, <3>1 DEF Met, Missed, CurrentTo
  <2> QED
    BY <2>1, <2>2
<1>14. ScanPage'
  <2> SUFFICES ASSUME phase = "scan"
               PROVE  ScanPage'
    BY <1>2 DEF ScanPage
  <2>1. /\ \A id \in seen : id <= after \/ (page.answered /\ id \in page.listed)
        /\ page.answered => after <= page.next /\ \A id \in page.listed : id <= page.next
    BY DEF FeedInv, ScanPage
  <2>2. ASSUME page.answered, NEW id \in Ids
        PROVE  IF id \in page.listed
                 THEN id \in seen /\ CurrentTo(id, page.rows[id], statusHead)'
                 ELSE after < id /\ (page.more => id <= page.next) => Missed(id, statusHead)'
    <3>1. CASE id \in page.listed
      <4>1. id \in seen /\ CurrentTo(id, page.rows[id], statusHead)
        BY <2>2, <3>1 DEF FeedInv, ScanPage
      <4> QED
        BY <1>2, <1>4, <1>5, <1>6, <3>1, <4>1 DEF CurrentTo
    <3>2. CASE id \notin page.listed
      <4>1. after < id /\ (page.more => id <= page.next) => Missed(id, statusHead)
        BY <2>2, <3>2 DEF FeedInv, ScanPage
      <4> QED
        BY <1>2, <1>4, <1>5, <1>7, <3>2, <4>1 DEF Missed
    <3> QED
      BY <3>1, <3>2
  <2> QED
    BY <1>2, <2>1, <2>2 DEF ScanPage
<1>15. Progress'
  <2>1. phase = "scan" => \A id \in Ids : id <= after => Met(id, statusHead)'
    BY <1>2, <1>4, <1>5, <1>8 DEF FeedInv, Progress, Met, Missed, CurrentTo
  <2>2. phase \in {"catchup", "missing"} => \A id \in Ids : Met(id, position)'
    BY <1>2, <1>4, <1>5, <1>8 DEF FeedInv, Progress, Met, Missed, CurrentTo
  <2>3. phase = "adopt" => \A id \in Ids : CurrentTo(id, view[id], position)'
    BY <1>2, <1>4, <1>5, <1>6 DEF FeedInv, Progress, CurrentTo
  <2> QED
    BY <1>2, <2>1, <2>2, <2>3 DEF Progress
<1> QED
  BY <1>1, <1>3, <1>9, <1>10, <1>11, <1>12, <1>13, <1>14, <1>15 DEF FeedInv

-----------------------------------------------------------------------------
(***************************************************************************)
(* The steps of the reader, which leave the server alone.                  *)
(***************************************************************************)
LEMMA Unmoved ==
    ASSUME StoreInv, BornInv, UNCHANGED vars
    PROVE  /\ StoreInv' /\ BornInv'
           /\ objects' = objects /\ changes' = changes /\ head' = head /\ floor' = floor
           /\ applied' = applied /\ now' = now /\ bodyBlocks' = bodyBlocks
<1>1. /\ objects' = objects /\ changes' = changes /\ head' = head /\ floor' = floor
      /\ applied' = applied /\ now' = now /\ bodyBlocks' = bodyBlocks
  BY DEF vars, history
<1>2. TypeOK'
  BY TypeStep DEF StoreInv
<1>3. LogInv'
  BY LogStep DEF StoreInv
<1>4. ReceiptsCover'
  BY ReceiptsStep, ClocksAgree DEF StoreInv
<1>5. AbsentRows'
  BY AbsentStep DEF StoreInv
<1>6. BornInv'
  BY <1>1 DEF BornInv, Born, NumberOf, Exists, Purged
<1> QED
  BY <1>1, <1>2, <1>3, <1>4, <1>5, <1>6 DEF StoreInv

(* The store's part of what the steps below need to know.                  *)
LEMMA ReaderTypes ==
    ASSUME FeedInv
    PROVE  /\ head \in Nat /\ floor \in Nat /\ now \in Nat
           /\ cursor \in Nat /\ statusHead \in Nat /\ after \in Nat /\ position \in Nat
           /\ page.next \in Nat /\ page.listed \subseteq Ids
           /\ page.answered \in BOOLEAN /\ page.more \in BOOLEAN
           /\ view \in [Ids -> Object] /\ page.rows \in [Ids -> Object]
           /\ objects \in [Ids -> Object] /\ seen \subseteq Ids
           /\ \A id \in Ids : /\ NumberOf(id) \in Nat
                              /\ id \in Nat /\ id > 0
                              /\ view[id].revision \in Nat
                              /\ page.rows[id].revision \in Nat
                              /\ objects[id].revision \in Nat
<1>1. \A id \in Ids : id \in Nat /\ id > 0
  BY IdsAssumption DEF NoId
<1>2. \A id \in Ids : NumberOf(id) \in Nat
  BY StoreTypes DEF FeedInv, StoreInv
<1> QED
  BY <1>1, <1>2 DEF FeedInv, FeedTypeOK, TypeOK, Page, Object

(* The invariant starts true: the device is empty and knows no epoch.      *)
LEMMA FeedStarts == FeedInit => FeedInv
<1> SUFFICES ASSUME FeedInit PROVE FeedInv
  OBVIOUS
<1>0. Init
  BY DEF FeedInit
<1>1. TypeOK
  BY <1>0, NoRowsTyped DEF Init, TypeOK
<1>2. LogInv
  BY <1>0 DEF Init, LogInv, AbsentRows, LogOrdered, LogMatchesRows, Exists, Purged, NoObject,
     NoChange, Categories
<1>3. ReceiptsCover
  BY DEF FeedInit, Init, ReceiptsCover, HasReceipt, NoReceipt
<1>4. AbsentRows /\ BornInv
  BY <1>0 DEF Init, AbsentRows, BornInv, NumberOf, Exists, Purged, NoObject, NoChange, Categories
<1>5. NoPage \in Page
  BY NoRowsTyped DEF NoPage, Page
<1>6. FeedTypeOK
  <2>1. /\ view = [id \in Ids |-> NoObject] /\ cursor = 0 /\ epochKnown = FALSE
        /\ leaseIssued = -1 /\ phase = "idle" /\ statusHead = 0 /\ newLease = -1
        /\ after = 0 /\ position = 0 /\ seen = {} /\ page = NoPage /\ interrupts = 0
    BY DEF FeedInit
  <2>2. view \in [Ids -> Object]
    BY <2>1, NoRowsTyped
  <2>3. /\ cursor \in Nat /\ statusHead \in Nat /\ after \in Nat /\ position \in Nat
        /\ interrupts \in Nat /\ leaseIssued \in Int /\ newLease \in Int
    BY <2>1
  <2>4. epochKnown \in BOOLEAN /\ phase \in Phases /\ seen \in SUBSET Ids /\ page \in Page
    BY <1>5, <2>1 DEF Phases
  <2> QED
    BY <1>1, <2>2, <2>3, <2>4 DEF FeedTypeOK
<1>7. ~page.answered
  BY DEF FeedInit, NoPage
<1>8. CopiesBorn
  BY <1>7 DEF FeedInit, Init, CopiesBorn, Exists, NoObject
<1>9. Positions /\ Mirror /\ PullPage /\ CatchupPage /\ ScanPage /\ Progress
  BY <1>7 DEF FeedInit, Init, Positions, Mirror, PullPage, CatchupPage, ScanPage, Progress
<1> QED
  BY <1>1, <1>2, <1>3, <1>4, <1>6, <1>8, <1>9 DEF FeedInv, StoreInv

(* A status answer starts a scan from nothing, or a pull from the cursor.  *)
LEMMA StatusKeeps == ASSUME FeedInv, Status PROVE FeedInv'
<1>1. /\ StoreInv' /\ BornInv'
      /\ objects' = objects /\ changes' = changes /\ head' = head /\ floor' = floor
      /\ applied' = applied
  BY Unmoved DEF FeedInv, Status
<1>2. /\ view' = view /\ cursor' = cursor /\ epochKnown' = epochKnown
      /\ page' = page /\ interrupts' = interrupts /\ statusHead' = head /\ newLease' = now
      /\ phase = "idle" /\ phase' \in {"scan", "pull"}
  BY DEF Status
<1>3. ~page.answered
  BY <1>2 DEF FeedInv, Positions
<1>4. FeedTypeOK'
  <2>1. /\ position' \in Nat /\ after' \in Nat /\ seen' \subseteq Ids
        /\ leaseIssued' \in Int /\ newLease' \in Int
    BY <1>2, ReaderTypes DEF Status, FeedInv, FeedTypeOK
  <2> QED
    BY <1>1, <1>2, <2>1, ReaderTypes DEF FeedInv, FeedTypeOK, StoreInv, Phases
<1>5. CopiesBorn'
  BY <1>1, <1>2, <1>3 DEF FeedInv, CopiesBorn, Born, Exists
<1>6. CASE phase' = "scan"
  <2>1. after' = 0 /\ seen' = {} /\ position' = position
    BY <1>6 DEF Status
  <2>2. Positions'
    BY <1>1, <1>2, <1>3, <1>6, <2>1, ReaderTypes DEF FeedInv, Positions
  <2>3. Mirror'
    BY <1>1, <1>2 DEF FeedInv, Mirror, CurrentTo, NumberOf
  <2>4. PullPage' /\ CatchupPage' /\ ScanPage'
    BY <1>2, <1>3, <1>6, <2>1 DEF PullPage, CatchupPage, ScanPage
  <2>5. Progress'
    BY <1>6, <2>1, ReaderTypes DEF Progress
  <2> QED
    BY <1>1, <1>4, <1>5, <2>2, <2>3, <2>4, <2>5 DEF FeedInv
<1>7. CASE phase' = "pull"
  <2>1. position' = cursor /\ epochKnown
    BY <1>7 DEF Status, NeedsReconcile
  <2>2. Positions'
    BY <1>1, <1>2, <1>3, <1>7, <2>1, ReaderTypes DEF FeedInv, Positions
  <2>3. Mirror'
    BY <1>1, <1>2 DEF FeedInv, Mirror, CurrentTo, NumberOf
  <2>4. PullPage' /\ CatchupPage' /\ ScanPage'
    BY <1>2, <1>3, <1>7 DEF PullPage, CatchupPage, ScanPage
  <2>5. Progress'
    BY <1>7 DEF Progress
  <2> QED
    BY <1>1, <1>4, <1>5, <2>2, <2>3, <2>4, <2>5 DEF FeedInv
<1> QED
  BY <1>2, <1>6, <1>7

(* What an interruption leaves is what was committed.                      *)
LEMMA InterruptKeeps == ASSUME FeedInv, Interrupt PROVE FeedInv'
<1>1. /\ StoreInv' /\ BornInv'
      /\ objects' = objects /\ changes' = changes /\ head' = head /\ floor' = floor
      /\ applied' = applied
  BY Unmoved DEF FeedInv, Interrupt
<1>2. /\ view' = view /\ cursor' = cursor /\ epochKnown' = epochKnown
      /\ leaseIssued' = leaseIssued /\ statusHead' = statusHead /\ newLease' = newLease
      /\ after' = after /\ position' = position /\ seen' = seen
      /\ phase' = "idle" /\ page' = NoPage /\ interrupts' = interrupts + 1
  BY DEF Interrupt
<1>3. NoPage \in Page /\ ~page'.answered
  BY <1>2, NoRowsTyped DEF NoPage, Page
<1>4. FeedTypeOK'
  BY <1>1, <1>2, <1>3 DEF FeedInv, FeedTypeOK, StoreInv, Phases
<1>5. CopiesBorn'
  BY <1>1, <1>2, <1>3 DEF FeedInv, CopiesBorn, Born, Exists
<1>6. Positions'
  BY <1>1, <1>2, <1>3 DEF FeedInv, Positions
<1>7. Mirror'
  BY <1>1, <1>2 DEF FeedInv, Mirror, CurrentTo, NumberOf
<1>8. PullPage' /\ CatchupPage' /\ ScanPage' /\ Progress'
  BY <1>2, <1>3 DEF PullPage, CatchupPage, ScanPage, Progress
<1> QED
  BY <1>1, <1>4, <1>5, <1>6, <1>7, <1>8 DEF FeedInv

(* Adopting the cursor: the scan and its catch-up have met everything.     *)
LEMMA AdoptKeeps == ASSUME FeedInv, AdoptCursor PROVE FeedInv'
<1>1. /\ StoreInv' /\ BornInv'
      /\ objects' = objects /\ changes' = changes /\ head' = head /\ floor' = floor
      /\ applied' = applied
  BY Unmoved DEF FeedInv, AdoptCursor
<1>2. /\ view' = view /\ cursor' = position /\ epochKnown' = TRUE
      /\ leaseIssued' = newLease /\ statusHead' = statusHead /\ newLease' = newLease
      /\ after' = after /\ position' = position /\ seen' = seen /\ page' = page
      /\ phase = "adopt" /\ phase' = "pull" /\ interrupts' = interrupts
  BY DEF AdoptCursor
<1>3. ~page.answered
  BY <1>2 DEF FeedInv, Positions
<1>4. FeedTypeOK'
  BY <1>1, <1>2 DEF FeedInv, FeedTypeOK, StoreInv, Phases
<1>5. CopiesBorn'
  BY <1>1, <1>2, <1>3 DEF FeedInv, CopiesBorn, Born, Exists
<1>6. Positions'
  BY <1>1, <1>2, <1>3 DEF FeedInv, Positions
<1>7. Mirror'
  BY <1>1, <1>2 DEF FeedInv, Progress, Mirror, CurrentTo, NumberOf
<1>8. PullPage' /\ CatchupPage' /\ ScanPage' /\ Progress'
  BY <1>2, <1>3 DEF PullPage, CatchupPage, ScanPage, Progress
<1> QED
  BY <1>1, <1>4, <1>5, <1>6, <1>7, <1>8 DEF FeedInv

(* What the reconciliation has not met does not exist any more, or has a   *)
(* notice beyond the position it is about to adopt.                        *)
LEMMA RemovalKeeps == ASSUME FeedInv, RemoveMissing PROVE FeedInv'
<1>1. /\ StoreInv' /\ BornInv'
      /\ objects' = objects /\ changes' = changes /\ head' = head /\ floor' = floor
      /\ applied' = applied
  BY Unmoved DEF FeedInv, RemoveMissing
<1>2. /\ view' = [id \in Ids |-> IF id \in seen THEN view[id] ELSE NoObject]
      /\ cursor' = cursor /\ epochKnown' = epochKnown
      /\ leaseIssued' = leaseIssued /\ statusHead' = statusHead /\ newLease' = newLease
      /\ after' = after /\ position' = position /\ seen' = seen /\ page' = page
      /\ phase = "missing" /\ phase' = "adopt" /\ interrupts' = interrupts
  BY DEF RemoveMissing
<1>3. ~page.answered
  BY <1>2 DEF FeedInv, Positions
<1>4. FeedTypeOK'
  BY <1>1, <1>2, NoRowsTyped DEF FeedInv, FeedTypeOK, StoreInv, Phases
<1>5. CopiesBorn'
  <2>1. ASSUME NEW id \in Ids
        PROVE  /\ view'[id] # NoObject => Born(id)'
               /\ Exists(id)' => view'[id].revision <= objects'[id].revision
    <3>1. view'[id] = view[id] \/ view'[id] = NoObject
      BY <1>2
    <3>2. NoObject.revision = 0
      BY DEF NoObject
    <3> QED
      BY <1>1, <3>1, <3>2, ReaderTypes DEF FeedInv, CopiesBorn, Born, Exists
  <2> QED
    BY <1>2, <1>3, <2>1 DEF CopiesBorn
<1>6. Positions'
  BY <1>1, <1>2, <1>3 DEF FeedInv, Positions
<1>7. \A id \in Ids : CurrentTo(id, view[id], position)' /\ (id \notin seen => ~Exists(id) \/ NumberOf(id) > position)
  <2> SUFFICES ASSUME NEW id \in Ids
               PROVE  CurrentTo(id, view[id], position)' /\ (id \notin seen => ~Exists(id) \/ NumberOf(id) > position)
    OBVIOUS
  <2>1. Met(id, position)
    BY <1>2 DEF FeedInv, Progress
  <2>2. ~Exists(id) => objects[id] = NoObject
    BY DEF FeedInv, StoreInv, AbsentRows
  <2> QED
    BY <1>1, <1>2, <2>1, <2>2 DEF Met, Missed, CurrentTo, NumberOf
<1>8. Mirror'
  <2> SUFFICES ASSUME epochKnown, NEW id \in Ids
               PROVE  CurrentTo(id, view[id], cursor)'
    BY <1>2 DEF Mirror
  <2>1. cursor <= position
    BY <1>2, ReaderTypes DEF FeedInv, Positions
  <2>2. CurrentTo(id, view[id], position)'
    BY <1>7
  <2> QED
    BY <1>1, <1>2, <2>1, <2>2, ReaderTypes DEF CurrentTo, NumberOf
<1>9. PullPage' /\ CatchupPage' /\ ScanPage'
  BY <1>2, <1>3 DEF PullPage, CatchupPage, ScanPage
<1>10. Progress'
  BY <1>2, <1>7 DEF Progress
<1> QED
  BY <1>1, <1>4, <1>5, <1>6, <1>8, <1>9, <1>10 DEF FeedInv

-----------------------------------------------------------------------------
(***************************************************************************)
(* Answers.                                                                *)
(***************************************************************************)
(* A page that is not full holds all that matches; a full one holds some.  *)
LEMMA PageFacts ==
    ASSUME NEW matching, IsFiniteSet(matching), NEW selected, NEW order,
           IsFirstPage(selected, matching, order)
    PROVE  /\ Cardinality(selected) # PageSize => selected = matching
           /\ Cardinality(selected) = PageSize => selected # {}
<1>1. IsFiniteSet(selected)
  BY FS_Subset DEF IsFirstPage
<1>2. Cardinality(selected) \in Nat /\ (Cardinality(selected) = 0 <=> selected = {})
  BY <1>1, FS_CardinalityType, FS_EmptySet
<1> QED
  BY <1>2, PagesAssumption DEF IsFirstPage

(* A page of the scan: what it passes over without listing does not exist. *)
LEMMA FetchSnapshotKeeps == ASSUME FeedInv, FetchSnapshot PROVE FeedInv'
<1>1. /\ StoreInv' /\ BornInv'
      /\ objects' = objects /\ changes' = changes /\ head' = head /\ floor' = floor
      /\ applied' = applied
  BY Unmoved DEF FeedInv, FetchSnapshot
<1>2. /\ view' = view /\ cursor' = cursor /\ epochKnown' = epochKnown
      /\ leaseIssued' = leaseIssued /\ statusHead' = statusHead /\ newLease' = newLease
      /\ after' = after /\ position' = position /\ interrupts' = interrupts
      /\ phase = "scan" /\ phase' = "scan" /\ ~page.answered
  BY DEF FetchSnapshot
<1> DEFINE matching == {id \in Ids : Exists(id) /\ id > after}
<1>3. PICK ids \in SUBSET Ids, last \in Ids \cup {after} :
        /\ IsFirstPage(ids, matching, [id \in Ids |-> id])
        /\ ids = {} => last = after
        /\ ids # {} => last \in ids /\ \A id \in ids : id <= last
        /\ page' = Answer(ids, last, Cardinality(ids) = PageSize)
        /\ seen' = seen \cup ids
  BY DEF FetchSnapshot
<1>4. /\ page'.answered = TRUE /\ page'.listed = ids /\ page'.next = last
      /\ page'.more = (Cardinality(ids) = PageSize)
      /\ page'.rows = [id \in Ids |-> IF id \in ids THEN objects[id] ELSE NoObject]
  BY <1>3 DEF Answer
<1>5. /\ ids \subseteq matching
      /\ \A id \in ids : Exists(id) /\ id > after
      /\ \A s \in ids, m \in matching \ ids : s < m
  BY <1>3 DEF IsFirstPage
<1>6. last \in Nat /\ after <= last /\ \A id \in ids : id <= last
  BY <1>3, <1>5, ReaderTypes
<1>7. FeedTypeOK'
  <2>1. page'.rows \in [Ids -> Object]
    BY <1>4, NoRowsTyped, ReaderTypes
  <2>2. page' \in Page
    <3>1. (Cardinality(ids) = PageSize) \in BOOLEAN
      OBVIOUS
    <3> HIDE DEF matching
    <3> QED
      BY <1>3, <1>4, <1>6, <2>1, <3>1 DEF Answer, Page
  <2> QED
    BY <1>1, <1>2, <1>3, <2>2 DEF FeedInv, FeedTypeOK, StoreInv
<1>8. CopiesBorn'
  <2>1. \A id \in ids : /\ Born(id) /\ Exists(id)
                        /\ page'.rows[id] = objects[id]
                        /\ objects[id] # NoObject
    BY <1>4, <1>5 DEF FeedInv, BornInv, Exists, NoObject
  <2>2. \A id \in Ids : /\ view[id] # NoObject => Born(id)
                        /\ Exists(id) => view[id].revision <= objects[id].revision
    BY DEF FeedInv, CopiesBorn
  <2>3. \A id \in Ids : (Born(id)' <=> Born(id)) /\ (Exists(id)' <=> Exists(id))
    BY <1>1 DEF Born, Exists
  <2>4. \A id \in ids : objects[id].revision <= objects[id].revision
    BY ReaderTypes
  <2> QED
    BY <1>1, <1>2, <1>4, <2>1, <2>2, <2>3, <2>4 DEF CopiesBorn
<1>9. Positions'
  BY <1>1, <1>2 DEF FeedInv, Positions
<1>10. Mirror'
  BY <1>1, <1>2 DEF FeedInv, Mirror, CurrentTo, NumberOf
<1>11. PullPage' /\ CatchupPage'
  BY <1>2 DEF PullPage, CatchupPage
<1>12. ScanPage'
  <2>1. \A id \in seen : id <= after
    BY <1>2 DEF FeedInv, ScanPage
  <2>2. ASSUME NEW id \in Ids \ ids, after < id, page'.more => id <= last
        PROVE  ~Exists(id)
    <3> SUFFICES ASSUME Exists(id) PROVE FALSE
      OBVIOUS
    <3>1. id \in matching \ ids
      BY <2>2, ReaderTypes
    <3>2. IsFiniteSet(matching)
      BY IdsAssumption, FS_Subset
    <3>3. page'.more /\ ids # {}
      <4> HIDE DEF matching
      <4>1. /\ Cardinality(ids) # PageSize => ids = matching
            /\ Cardinality(ids) = PageSize => ids # {}
        BY <1>3, <3>2, PageFacts
      <4> QED
        BY <1>4, <3>1, <4>1
    <3>4. last \in ids /\ last < id
      BY <1>3, <1>5, <3>1, <3>3
    <3> QED
      BY <2>2, <3>3, <3>4, <1>6, ReaderTypes
  <2>3. ASSUME NEW id \in Ids
        PROVE  IF id \in ids
                 THEN id \in seen' /\ CurrentTo(id, page.rows[id], statusHead)'
                 ELSE after < id /\ (page'.more => id <= last) => Missed(id, statusHead)'
    <3>1. CASE id \in ids
      BY <1>1, <1>3, <1>4, <3>1 DEF CurrentTo
    <3>2. CASE id \notin ids
      BY <1>1, <2>2, <3>2 DEF Missed, Exists
    <3> QED
      BY <3>1, <3>2
  <2>4. \A id \in seen' : id <= after \/ id \in ids
    BY <1>3, <2>1
  <2> QED
    BY <1>2, <1>4, <1>6, <2>3, <2>4 DEF ScanPage
<1>13. Progress'
  <2> SUFFICES ASSUME NEW id \in Ids, id <= after
               PROVE  Met(id, statusHead)'
    BY <1>2 DEF Progress
  <2>1. Met(id, statusHead)
    BY <1>2 DEF FeedInv, Progress
  <2>2. id \in seen' <=> id \in seen
    BY <1>3, <1>5, ReaderTypes
  <2> QED
    BY <1>1, <1>2, <2>1, <2>2 DEF Met, Missed, CurrentTo, NumberOf, Exists
<1> QED
  BY <1>1, <1>7, <1>8, <1>9, <1>10, <1>11, <1>12, <1>13 DEF FeedInv

(* A page of changes lists the rows of its notices as they stand; a notice *)
(* that it does not list lies beyond the page.                             *)
LEMMA ChangePageFacts ==
    ASSUME FeedInv, floor <= position, position <= head,
           NEW notices \in SUBSET Notices, NEW next,
           IsFirstPage(notices, Notices, [n \in Notices |-> Number(n)]),
           IsNextCursor(next, notices)
    PROVE  LET ids == {n[2] : n \in {m \in notices : m[1] = "object"}}
           IN  /\ ids \subseteq Ids
               /\ next \in Nat /\ position <= next /\ next <= head
               /\ \A id \in ids : NumberOf(id) > position /\ Born(id)
               /\ \A id \in Ids \ ids : NumberOf(id) > position => NumberOf(id) > next
<1> DEFINE ids == {n[2] : n \in {m \in notices : m[1] = "object"}}
<1>1. /\ head \in Nat /\ position \in Nat
      /\ \A id \in Ids : NumberOf(id) \in Nat
  BY ReaderTypes
<1>2. ASSUME NEW n \in Notices
      PROVE  /\ n[1] \in Categories /\ n[2] \in Ids /\ n = <<n[1], n[2]>>
             /\ Number(n) \in Nat /\ Number(n) > position /\ Number(n) <= head
  <2>1. n[1] \in Categories /\ n[2] \in Ids /\ n = <<n[1], n[2]>> /\ Number(n) > position
    BY DEF Notices, Number
  <2>2. Number(n) \in Nat
    BY <2>1 DEF Number, FeedInv, StoreInv, TypeOK, Change
  <2>3. Number(n) <= head
    BY <2>1 DEF Number, FeedInv, StoreInv, LogInv, LogOrdered
  <2> QED
    BY <2>1, <2>2, <2>3
<1>3. IsFiniteSet(Notices)
  <2>1. IsFiniteSet(Categories)
    <3>1. Categories = ({} \cup {"object"}) \cup {"history"}
      BY DEF Categories
    <3> QED
      BY <3>1, FS_EmptySet, FS_AddElement
  <2>2. IsFiniteSet(Categories \X Ids)
    BY <2>1, IdsAssumption, FS_Product
  <2> QED
    BY <2>2, FS_Subset DEF Notices
<1>4. /\ Cardinality(notices) # PageSize => notices = Notices
      /\ Cardinality(notices) = PageSize => notices # {}
  BY <1>3, PageFacts
<1>5. \A s \in notices, m \in Notices \ notices : Number(s) < Number(m)
  BY DEF IsFirstPage
<1>6. next \in Nat /\ position <= next /\ next <= head
  <2>1. CASE Cardinality(notices) = PageSize
    <3>1. PICK n \in notices : next = Number(n)
      BY <2>1 DEF IsNextCursor
    <3> QED
      BY <1>1, <1>2, <3>1
  <2>2. CASE Cardinality(notices) # PageSize
    BY <1>1, <2>2 DEF IsNextCursor
  <2> QED
    BY <2>1, <2>2
<1>7. ASSUME NEW id \in ids
      PROVE  id \in Ids /\ NumberOf(id) > position /\ Born(id)
  <2>1. PICK n \in notices : n[1] = "object" /\ n[2] = id
    BY <1>7
  <2>2. id \in Ids /\ NumberOf(id) > position
    BY <1>2, <2>1 DEF Number, NumberOf
  <2>3. NumberOf(id) > 0
    BY <1>1, <2>2
  <2> QED
    BY <2>2, <2>3 DEF FeedInv, BornInv
<1>8. ASSUME NEW id \in Ids \ ids, NumberOf(id) > position
      PROVE  NumberOf(id) > next
  <2> DEFINE m == <<"object", id>>
  <2>1. m \in Notices /\ Number(m) = NumberOf(id)
    BY <1>8 DEF Notices, Number, NumberOf, Categories
  <2>2. m \notin notices
    BY <1>8
  <2>3. Cardinality(notices) = PageSize
    BY <1>4, <2>1, <2>2
  <2>4. PICK n \in notices : next = Number(n)
    BY <2>3 DEF IsNextCursor
  <2>5. Number(n) < Number(m)
    BY <1>5, <2>1, <2>2
  <2> QED
    BY <1>1, <1>2, <2>1, <2>4, <2>5
<1> QED
  BY <1>6, <1>7, <1>8

LEMMA FetchChangesKeeps == ASSUME FeedInv, FetchChanges PROVE FeedInv'
<1>1. /\ StoreInv' /\ BornInv'
      /\ objects' = objects /\ changes' = changes /\ head' = head /\ floor' = floor
      /\ applied' = applied
  BY Unmoved DEF FeedInv, FetchChanges
<1>2. /\ view' = view /\ cursor' = cursor /\ epochKnown' = epochKnown
      /\ leaseIssued' = leaseIssued /\ statusHead' = statusHead /\ newLease' = newLease
      /\ after' = after /\ position' = position /\ interrupts' = interrupts
      /\ phase \in {"catchup", "pull"} /\ ~page.answered
  BY DEF FetchChanges
<1>3. /\ \A id \in Ids : /\ view[id] # NoObject => Born(id)
                         /\ Exists(id) => view[id].revision <= objects[id].revision
      /\ \A id \in Ids : /\ Born(id)' <=> Born(id)
                         /\ Exists(id)' <=> Exists(id)
                         /\ NumberOf(id)' = NumberOf(id)
  BY <1>1 DEF FeedInv, CopiesBorn, Born, Exists, NumberOf
<1>4. Mirror'
  BY <1>1, <1>2 DEF FeedInv, Mirror, CurrentTo, NumberOf
<1>5. CASE phase' = "idle" /\ page' = page /\ seen' = seen
  <2>1. FeedTypeOK'
    BY <1>1, <1>2, <1>5 DEF FeedInv, FeedTypeOK, StoreInv, Phases
  <2>2. CopiesBorn'
    BY <1>1, <1>2, <1>3, <1>5 DEF CopiesBorn
  <2>3. Positions'
    BY <1>1, <1>2, <1>5 DEF FeedInv, Positions
  <2>4. PullPage' /\ CatchupPage' /\ ScanPage' /\ Progress'
    BY <1>2, <1>5 DEF PullPage, CatchupPage, ScanPage, Progress
  <2> QED
    BY <1>1, <1>4, <2>1, <2>2, <2>3, <2>4 DEF FeedInv
<1>6. ASSUME phase' = phase, floor <= position, position <= head,
             NEW notices \in SUBSET Notices, NEW next,
             IsFirstPage(notices, Notices, [n \in Notices |-> Number(n)]),
             IsNextCursor(next, notices),
             NEW ids, ids = {n[2] : n \in {m \in notices : m[1] = "object"}},
             page' = Answer(ids, next, Cardinality(notices) = PageSize),
             seen' = IF phase = "catchup" THEN seen \cup {id \in ids : Exists(id)} ELSE seen
      PROVE  FeedInv'
  <2>1. /\ ids \subseteq Ids
        /\ next \in Nat /\ position <= next /\ next <= head
        /\ \A id \in ids : NumberOf(id) > position /\ Born(id)
        /\ \A id \in Ids \ ids : NumberOf(id) > position => NumberOf(id) > next
    BY <1>6, ChangePageFacts
  <2>2. /\ page'.answered = TRUE /\ page'.listed = ids /\ page'.next = next
        /\ page'.rows = [id \in Ids |-> IF id \in ids THEN objects[id] ELSE NoObject]
    BY <1>6 DEF Answer
  <2>3. FeedTypeOK'
    <3>1. page'.rows \in [Ids -> Object]
      BY <2>2, NoRowsTyped, ReaderTypes
    <3>2. (Cardinality(notices) = PageSize) \in BOOLEAN
      OBVIOUS
    <3>3. page' \in Page
      BY <1>6, <2>1, <2>2, <3>1, <3>2 DEF Answer, Page
    <3>4. seen' \in SUBSET Ids
      BY <1>6, <2>1, ReaderTypes
    <3> QED
      BY <1>1, <1>2, <1>6, <3>3, <3>4 DEF FeedInv, FeedTypeOK, StoreInv
  <2>4. CopiesBorn'
    <3>1. ASSUME NEW id \in ids
          PROVE  /\ Born(id)' /\ page'.rows[id] = objects'[id]
                 /\ page'.rows[id] = NoObject => ~Exists(id)'
                 /\ page'.rows[id].revision <= objects'[id].revision
      BY <1>1, <1>3, <2>1, <2>2, ReaderTypes DEF Exists, NoObject
    <3> QED
      BY <1>1, <1>2, <1>3, <2>2, <3>1 DEF CopiesBorn
  <2>5. Positions'
    BY <1>1, <1>2, <1>6, <2>1, <2>2 DEF FeedInv, Positions
  <2>6. \A id \in ids : page'.rows[id] = objects'[id]
    BY <1>1, <2>1, <2>2
  <2>7. ASSUME NEW id \in Ids \ ids, CurrentTo(id, view[id], position)
        PROVE  CurrentTo(id, view[id], next)'
    BY <1>1, <1>2, <1>3, <1>6, <2>1, <2>7, ReaderTypes DEF CurrentTo
  <2>8. PullPage'
    <3> SUFFICES ASSUME phase = "pull", NEW id \in Ids
                 PROVE  CurrentTo(id, IF id \in page.listed THEN page.rows[id] ELSE view[id],
                                  page.next)'
      BY <1>6 DEF PullPage
    <3>1. CASE id \in ids
      BY <2>2, <2>6, <3>1 DEF CurrentTo
    <3>2. CASE id \notin ids
      <4>1. CurrentTo(id, view[id], position)
        BY DEF FeedInv, Positions, Mirror
      <4> QED
        BY <2>2, <2>7, <3>2, <4>1 DEF CurrentTo
    <3> QED
      BY <3>1, <3>2
  <2>9. CatchupPage'
    <3> SUFFICES ASSUME phase = "catchup", NEW id \in Ids
                 PROVE  (IF id \in page.listed
                           THEN /\ CurrentTo(id, page.rows[id], page.next)
                                /\ page.rows[id] # NoObject => id \in seen
                           ELSE Met(id, page.next))'
      BY <1>6 DEF CatchupPage
    <3>1. CASE id \in ids
      <4>1. objects[id] # NoObject => Exists(id)
        BY DEF FeedInv, StoreInv, AbsentRows
      <4> QED
        BY <1>1, <1>6, <2>2, <2>6, <3>1, <4>1 DEF CurrentTo
    <3>2. CASE id \notin ids
      <4>1. Met(id, position)
        BY DEF FeedInv, Progress
      <4>2. id \in seen' <=> id \in seen
        BY <1>6, <3>2
      <4>3. CASE id \in seen
        BY <2>2, <2>7, <3>2, <4>1, <4>2, <4>3 DEF Met, CurrentTo
      <4>4. CASE id \notin seen
        BY <1>1, <1>2, <1>3, <2>1, <2>2, <3>2, <4>1, <4>2, <4>4 DEF Met, Missed
      <4> QED
        BY <4>3, <4>4
    <3> QED
      BY <3>1, <3>2
  <2>10. ScanPage'
    BY <1>2, <1>6 DEF ScanPage
  <2>11. Progress'
    <3> SUFFICES ASSUME phase = "catchup", NEW id \in Ids
                 PROVE  Met(id, position)'
      BY <1>2, <1>6 DEF Progress
    <3>1. Met(id, position)
      BY DEF FeedInv, Progress
    <3>2. CASE id \in ids
      BY <1>1, <1>2, <1>3, <2>1, <1>6, <3>1, <3>2 DEF Met, Missed, CurrentTo
    <3>3. CASE id \notin ids
      <4>1. id \in seen' <=> id \in seen
        BY <1>6, <3>3
      <4> QED
        BY <1>1, <1>2, <1>3, <3>1, <4>1 DEF Met, Missed, CurrentTo
    <3> QED
      BY <3>2, <3>3
  <2> QED
    BY <1>1, <1>4, <2>3, <2>4, <2>5, <2>8, <2>9, <2>10, <2>11 DEF FeedInv
<1> QED
  BY <1>5, <1>6 DEF FetchChanges

-----------------------------------------------------------------------------
(***************************************************************************)
(* Commits.                                                                *)
(***************************************************************************)
(* Merging a page's row into the mirror loses nothing: a copy is ahead of  *)
(* the row only when the row is no longer the stored one.                  *)
LEMMA MergedFacts ==
    ASSUME FeedInv, page.answered, NEW id \in page.listed
    PROVE  /\ id \in Ids
           /\ Merged(id) = view[id] \/ Merged(id) = page.rows[id]
           /\ Merged(id) = NoObject => ~Exists(id)
           /\ \A c : CurrentTo(id, page.rows[id], c) => CurrentTo(id, Merged(id), c)
<1>1. /\ id \in Ids /\ view[id].revision \in Nat /\ page.rows[id].revision \in Nat
      /\ objects[id].revision \in Nat
  BY ReaderTypes
<1>2. /\ Exists(id) => view[id].revision <= objects[id].revision
      /\ page.rows[id] = NoObject => ~Exists(id)
      /\ objects[id] # NoObject => Exists(id)
  BY <1>1 DEF FeedInv, CopiesBorn, StoreInv, AbsentRows
<1>3. CASE page.rows[id] # NoObject /\ view[id].revision > page.rows[id].revision /\ phase # "scan"
  <2>1. Merged(id) = view[id]
    BY <1>3 DEF Merged
  <2>2. view[id] # NoObject
    BY <1>1, <1>3 DEF NoObject
  <2>3. page.rows[id] # objects[id]
    BY <1>1, <1>2, <1>3
  <2> QED
    BY <1>1, <2>1, <2>2, <2>3 DEF CurrentTo
<1>4. CASE ~(page.rows[id] # NoObject /\ view[id].revision > page.rows[id].revision /\ phase # "scan")
  <2>1. Merged(id) = page.rows[id]
    BY <1>4 DEF Merged
  <2> QED
    BY <1>1, <1>2, <2>1
<1> QED
  BY <1>3, <1>4

(* Committing a page, whole or with rows left out. *)
LEMMA CommitPageKeeps == ASSUME FeedInv, CommitPage PROVE FeedInv'
<1>1. /\ StoreInv' /\ BornInv'
      /\ objects' = objects /\ changes' = changes /\ head' = head /\ floor' = floor
      /\ applied' = applied
  BY Unmoved DEF FeedInv, CommitPage
<1>2. /\ epochKnown' = epochKnown /\ leaseIssued' = leaseIssued
      /\ statusHead' = statusHead /\ newLease' = newLease /\ seen' = seen
      /\ page' = NoPage /\ page.answered /\ ~NoPage.answered
      /\ after' = IF phase = "scan" THEN page.next ELSE after
      /\ position' = IF phase # "scan" THEN page.next
                     ELSE IF page.more THEN position ELSE statusHead
  BY DEF CommitPage, NoPage
<1>3. PICK blocked \in SUBSET page.listed :
        /\ interrupts' = interrupts \/ interrupts' = interrupts + 1
        /\ view' = [id \in Ids |-> IF id \in page.listed \ blocked
                                     THEN Merged(id) ELSE view[id]]
        /\ cursor' = CommittedCursor(blocked)
        /\ phase' = PhaseAfterPage(blocked)
  BY DEF CommitPage
<1>4. phase \in {"scan", "catchup", "pull"}
  BY <1>2 DEF FeedInv, Positions
<1>5. /\ blocked # {} => phase' = "idle"
      /\ blocked = {} /\ page.more => phase' = phase
      /\ blocked = {} /\ ~page.more /\ phase = "scan" => phase' = "catchup"
      /\ blocked = {} /\ ~page.more /\ phase = "catchup" => phase' = "missing"
      /\ blocked = {} /\ ~page.more /\ phase = "pull" => phase' = "idle"
  BY <1>3 DEF PhaseAfterPage
<1>6. /\ phase = "pull" /\ blocked = {} => cursor' = page.next
      /\ ~(phase = "pull" /\ blocked = {}) => cursor' = cursor
  BY <1>3 DEF CommittedCursor
<1>7. /\ cursor <= head /\ statusHead <= head /\ position <= head
      /\ phase \in {"scan", "catchup"} => cursor <= statusHead
      /\ phase = "catchup" => statusHead <= position
      /\ phase = "pull" => epochKnown /\ position = cursor
      /\ phase # "scan" => position <= page.next /\ page.next <= head
  BY <1>2, <1>4 DEF FeedInv, Positions
<1>8. ASSUME NEW id \in Ids
      PROVE  /\ Born(id)' <=> Born(id)
             /\ Exists(id)' <=> Exists(id)
             /\ NumberOf(id)' = NumberOf(id)
             /\ \A row, c : (row = objects'[id] \/ NumberOf(id)' > c \/ floor' > c)
                              <=> CurrentTo(id, row, c)
  BY <1>1 DEF Born, Exists, NumberOf, CurrentTo
<1>9. \A id \in Ids : id \notin page.listed => view'[id] = view[id]
  BY <1>3
<1>10. ASSUME NEW id \in page.listed
       PROVE  /\ view'[id] = view[id] \/ view'[id] = Merged(id)
              /\ id \notin blocked => view'[id] = Merged(id)
  BY <1>3, ReaderTypes
<1>11. FeedTypeOK'
  <2>1. view' \in [Ids -> Object]
    <3>1. \A id \in Ids : (IF id \in page.listed \ blocked THEN Merged(id) ELSE view[id]) \in Object
      BY <1>2, MergedFacts, ReaderTypes
    <3> QED
      BY <1>3, <3>1
  <2>2. cursor' \in Nat /\ after' \in Nat /\ position' \in Nat
    BY <1>2, <1>6, ReaderTypes
  <2>3. interrupts' \in Nat
    BY <1>3 DEF FeedInv, FeedTypeOK
  <2>4. NoPage \in Page
    BY NoRowsTyped DEF NoPage, Page
  <2>5. phase' \in Phases
    BY <1>4, <1>5 DEF Phases
  <2> QED
    BY <1>1, <1>2, <2>1, <2>2, <2>3, <2>4, <2>5 DEF FeedInv, FeedTypeOK, StoreInv
<1>12. CopiesBorn'
  <2>1. ASSUME NEW id \in Ids
        PROVE  /\ view'[id] # NoObject => Born(id)'
               /\ Exists(id)' => view'[id].revision <= objects'[id].revision
    <3>1. /\ view[id] # NoObject => Born(id)
          /\ Exists(id) => view[id].revision <= objects[id].revision
      BY DEF FeedInv, CopiesBorn
    <3>2. CASE id \in page.listed
      <4>1. /\ Born(id)
            /\ Exists(id) => page.rows[id].revision <= objects[id].revision
        BY <1>2, <3>2 DEF FeedInv, CopiesBorn
      <4>2. view'[id] = view[id] \/ view'[id] = page.rows[id]
        BY <1>2, <1>10, <3>2, MergedFacts
      <4> QED
        BY <1>1, <1>8, <3>1, <4>1, <4>2
    <3>3. CASE id \notin page.listed
      BY <1>1, <1>8, <1>9, <3>1, <3>3
    <3> QED
      BY <3>2, <3>3
  <2> QED
    BY <1>2, <2>1 DEF CopiesBorn
<1>13. Positions'
  <2>1. cursor' <= head' /\ statusHead' <= head' /\ position' <= head'
    BY <1>1, <1>2, <1>4, <1>6, <1>7
  <2>2. phase' \in {"scan", "catchup", "missing", "adopt"} => cursor' <= statusHead'
    BY <1>2, <1>4, <1>5, <1>6, <1>7
  <2>3. phase' \in {"catchup", "missing", "adopt"} => statusHead' <= position'
    BY <1>2, <1>4, <1>5, <1>7, ReaderTypes
  <2>4. phase' = "pull" => epochKnown' /\ position' = cursor'
    BY <1>2, <1>4, <1>5, <1>6, <1>7
  <2> QED
    BY <1>2, <2>1, <2>2, <2>3, <2>4 DEF Positions
<1>14. ASSUME NEW id \in Ids, NEW c, NEW d, c \in Nat, d \in Nat, c <= d,
              NEW row, CurrentTo(id, row, d)
       PROVE  CurrentTo(id, row, c)
  BY <1>14, ReaderTypes DEF CurrentTo
<1>15. Mirror'
  <2> SUFFICES ASSUME epochKnown, NEW id \in Ids
               PROVE  CurrentTo(id, view[id], cursor)'
    BY <1>2 DEF Mirror
  <2>1. CurrentTo(id, view[id], cursor)
    BY DEF FeedInv, Mirror
  <2>2. ASSUME id \in page.listed
        PROVE  CurrentTo(id, Merged(id), cursor')
    <3>1. CASE phase = "scan"
      <4>1. CurrentTo(id, page.rows[id], statusHead)
        BY <1>2, <2>2, <3>1 DEF FeedInv, ScanPage
      <4>2. cursor' <= statusHead /\ cursor' \in Nat /\ statusHead \in Nat
        BY <1>6, <1>7, <3>1, ReaderTypes
      <4> QED
        BY <1>2, <1>14, <2>2, <4>1, <4>2, MergedFacts
    <3>2. CASE phase \in {"catchup", "pull"}
      <4>1. CurrentTo(id, page.rows[id], page.next)
        BY <1>2, <2>2, <3>2 DEF FeedInv, CatchupPage, PullPage
      <4>2. cursor' <= page.next /\ cursor' \in Nat /\ page.next \in Nat
        BY <1>6, <1>7, <3>2, ReaderTypes
      <4> QED
        BY <1>2, <1>14, <2>2, <4>1, <4>2, MergedFacts
    <3> QED
      BY <1>4, <3>1, <3>2
  <2>3. CASE view'[id] = view[id] /\ cursor' = cursor
    BY <1>8, <2>1, <2>3 DEF CurrentTo
  <2>4. CASE id \in page.listed /\ view'[id] = Merged(id)
    BY <1>8, <2>2, <2>4 DEF CurrentTo
  <2>5. CASE id \notin page.listed /\ phase = "pull" /\ blocked = {}
    <3>1. CurrentTo(id, view[id], page.next)
      BY <1>2, <2>5 DEF FeedInv, PullPage
    <3> QED
      BY <1>6, <1>8, <1>9, <2>5, <3>1 DEF CurrentTo
  <2> QED
    BY <1>6, <1>9, <1>10, <2>3, <2>4, <2>5
<1>16. PullPage' /\ CatchupPage'
  BY <1>2 DEF PullPage, CatchupPage
<1>17. ScanPage'
  <2> SUFFICES ASSUME phase' = "scan", NEW id \in seen
               PROVE  id <= page.next
    BY <1>2, <1>4, <1>5 DEF ScanPage
  <2>1. phase = "scan"
    BY <1>4, <1>5
  <2>2. id \in Ids /\ id \in Nat /\ after \in Nat /\ page.next \in Nat
    BY ReaderTypes
  <2>3. /\ id <= after \/ id \in page.listed
        /\ after <= page.next /\ \A a \in page.listed : a <= page.next
    BY <1>2, <2>1 DEF FeedInv, ScanPage
  <2> QED
    BY <2>2, <2>3
<1>18. ASSUME blocked = {}, NEW id \in Ids, NEW c,
              id \notin page.listed => Met(id, c),
              id \in page.listed => /\ CurrentTo(id, page.rows[id], c)
                                    /\ page.rows[id] # NoObject => id \in seen
       PROVE  IF id \in seen
                THEN view'[id] = objects'[id] \/ NumberOf(id)' > c \/ floor' > c
                ELSE Exists(id)' => view'[id] = NoObject /\ NumberOf(id)' > c
  <2>1. CASE id \in page.listed
    <3>1. CurrentTo(id, view'[id], c)
      BY <1>2, <1>10, <1>18, <2>1, MergedFacts
    <3>2. id \notin seen => ~Exists(id)
      BY <1>2, <1>18, <2>1 DEF FeedInv, CopiesBorn
    <3> QED
      BY <1>8, <3>1, <3>2
  <2>2. CASE id \notin page.listed
    BY <1>8, <1>9, <1>18, <2>2 DEF Met, Missed
  <2> QED
    BY <2>1, <2>2
<1>19. ASSUME phase = "scan", blocked = {}, NEW id \in Ids, page.more => id <= page.next
       PROVE  IF id \in seen
                THEN view'[id] = objects'[id] \/ NumberOf(id)' > statusHead \/ floor' > statusHead
                ELSE Exists(id)' => view'[id] = NoObject /\ NumberOf(id)' > statusHead
  <2>1. ASSUME id \notin page.listed
        PROVE  Met(id, statusHead)
    <3>1. CASE id <= after
      BY <1>19, <3>1 DEF FeedInv, Progress
    <3>2. CASE ~(id <= after)
      <4>1. id \notin seen
        BY <1>2, <1>19, <2>1, <3>2 DEF FeedInv, ScanPage
      <4>2. after < id
        BY <3>2, ReaderTypes
      <4>3. Missed(id, statusHead)
        BY <1>2, <1>19, <2>1, <4>2 DEF FeedInv, ScanPage
      <4> QED
        BY <4>1, <4>3 DEF Met
    <3> QED
      BY <3>1, <3>2
  <2>2. id \in page.listed => /\ CurrentTo(id, page.rows[id], statusHead)
                              /\ page.rows[id] # NoObject => id \in seen
    BY <1>2, <1>19 DEF FeedInv, ScanPage
  <2> QED
    BY <1>18, <1>19, <2>1, <2>2
<1>20. Progress'
  <2>1. CASE phase' = "idle" \/ phase' = "pull"
    BY <2>1 DEF Progress
  <2>2. CASE phase' = "scan"
    <3>1. phase = "scan" /\ blocked = {} /\ page.more /\ after' = page.next
      BY <1>2, <1>4, <1>5, <2>2
    <3>2. \A id \in Ids : id <= after' => Met(id, statusHead)'
      BY <1>2, <1>19, <3>1 DEF Met, Missed, CurrentTo
    <3> QED
      BY <2>2, <3>2 DEF Progress
  <2>3. CASE phase' \in {"catchup", "missing"} /\ phase = "scan"
    <3>1. blocked = {} /\ ~page.more /\ position' = statusHead
      BY <1>2, <1>4, <1>5, <2>3
    <3>2. \A id \in Ids : Met(id, position)'
      BY <1>2, <1>19, <2>3, <3>1 DEF Met, Missed, CurrentTo
    <3> QED
      BY <2>3, <3>2 DEF Progress
  <2>4. CASE phase' \in {"catchup", "missing"} /\ phase = "catchup"
    <3>1. blocked = {} /\ position' = page.next
      BY <1>2, <1>4, <1>5, <2>4
    <3>2. \A id \in Ids : /\ id \notin page.listed => Met(id, page.next)
                          /\ id \in page.listed => /\ CurrentTo(id, page.rows[id], page.next)
                                                   /\ page.rows[id] # NoObject => id \in seen
      BY <1>2, <2>4 DEF FeedInv, CatchupPage
    <3>3. \A id \in Ids : Met(id, position)'
      BY <1>2, <1>18, <3>1, <3>2 DEF Met, Missed, CurrentTo
    <3> QED
      BY <2>4, <3>3 DEF Progress
  <2> QED
    BY <1>4, <1>5, <2>1, <2>2, <2>3, <2>4
<1> QED
  BY <1>1, <1>11, <1>12, <1>13, <1>15, <1>16, <1>17, <1>20 DEF FeedInv

-----------------------------------------------------------------------------
(***************************************************************************)
(* Theorems.                                                               *)
(***************************************************************************)
LEMMA FeedStep == FeedInv /\ [FeedNext]_allVars => FeedInv'
<1> SUFFICES ASSUME FeedInv, [FeedNext]_allVars
             PROVE  FeedInv'
  OBVIOUS
<1>1. CASE UNCHANGED allVars
  <2>1. /\ StoreInv' /\ BornInv'
        /\ objects' = objects /\ changes' = changes /\ head' = head /\ floor' = floor
        /\ applied' = applied
    BY <1>1, Unmoved DEF FeedInv, allVars
  <2>2. /\ view' = view /\ cursor' = cursor /\ epochKnown' = epochKnown
        /\ leaseIssued' = leaseIssued /\ phase' = phase /\ statusHead' = statusHead
        /\ newLease' = newLease /\ after' = after /\ position' = position
        /\ seen' = seen /\ page' = page /\ interrupts' = interrupts
    BY <1>1 DEF allVars, reader
  <2>3. FeedTypeOK'
    BY <2>1, <2>2 DEF FeedInv, FeedTypeOK, StoreInv
  <2>4. CopiesBorn' /\ Positions' /\ Mirror'
    BY <2>1, <2>2 DEF FeedInv, CopiesBorn, Positions, Mirror, Born, Exists, CurrentTo, NumberOf
  <2>5. PullPage' /\ CatchupPage'
    BY <2>1, <2>2 DEF FeedInv, PullPage, CatchupPage, Met, Missed, Exists, CurrentTo, NumberOf
  <2>6. ScanPage' /\ Progress'
    BY <2>1, <2>2 DEF FeedInv, ScanPage, Progress, Met, Missed, Exists, CurrentTo, NumberOf
  <2> QED
    BY <2>1, <2>3, <2>4, <2>5, <2>6 DEF FeedInv
<1>2. CASE StoreStep
  BY <1>2, StoreStepKeeps
<1>3. CASE ReaderStep
  BY <1>3, StatusKeeps, FetchSnapshotKeeps, FetchChangesKeeps, CommitPageKeeps, RemovalKeeps,
     AdoptKeeps DEF ReaderStep
<1>4. CASE Interrupt
  BY <1>4, InterruptKeeps
<1> QED
  BY <1>1, <1>2, <1>3, <1>4 DEF FeedNext

(* The device's stored and running state has its types. *)
THEOREM FeedTypeCorrect == FeedSpec => []FeedTypeOK
<1>1. FeedInv => FeedTypeOK
  BY DEF FeedInv
<1> QED
  BY <1>1, FeedStarts, FeedStep, PTL DEF FeedSpec

(* At every moment of a scan, a catch-up or a pull, and after any          *)
(* interruption, what the device shows is current, or will be announced to *)
(* it beyond its cursor, or the status handshake makes it reconcile.       *)
THEOREM MirrorIsExact == FeedSpec => []MirrorExact
<1>1. FeedInv => MirrorExact
  <2> SUFFICES ASSUME FeedInv, epochKnown, cursor >= floor, NEW id \in Ids
               PROVE  view[id] = objects[id] \/ changes["object"][id].sequence > cursor
    BY DEF MirrorExact
  <2>1. CurrentTo(id, view[id], cursor)
    BY DEF FeedInv, Mirror
  <2> QED
    BY <2>1, ReaderTypes DEF CurrentTo, NumberOf
<1> QED
  BY <1>1, FeedStarts, FeedStep, PTL DEF FeedSpec

(* What one step may take from the device's mirror. *)
DropsOnlyPurged == \A id \in Ids : view[id] # NoObject /\ view'[id] = NoObject => ~Exists(id)

LEMMA DropStep == FeedInv /\ [FeedNext]_allVars => [DropsOnlyPurged]_allVars
<1> SUFFICES ASSUME FeedInv, FeedNext, NEW id \in Ids,
                    view[id] # NoObject, view'[id] = NoObject
             PROVE  ~Exists(id)
  BY DEF DropsOnlyPurged
<1>1. CASE CommitPage
  <2>1. PICK blocked \in SUBSET page.listed :
          view' = [a \in Ids |-> IF a \in page.listed \ blocked THEN Merged(a) ELSE view[a]]
    BY <1>1 DEF CommitPage
  <2>2. id \in page.listed /\ Merged(id) = NoObject
    BY <2>1
  <2> QED
    BY <1>1, <2>2, MergedFacts DEF CommitPage
<1>2. CASE RemoveMissing
  <2>1. id \notin seen
    BY <1>2 DEF RemoveMissing
  <2>2. Met(id, position)
    BY <1>2 DEF RemoveMissing, FeedInv, Progress
  <2> QED
    BY <2>1, <2>2 DEF Met, Missed
<1>3. CASE view' = view
  BY <1>3
<1> QED
  BY <1>1, <1>2, <1>3
     DEF FeedNext, StoreStep, reader, ReaderStep, Status, FetchSnapshot, FetchChanges,
         AdoptCursor, Interrupt

(* No object the server still stores ever disappears from the device.      *)
THEOREM ReconciliationDropsNothingLive == FeedSpec => NeverDropsLive
<1>1. [DropsOnlyPurged]_allVars =>
        [\A id \in Ids : view[id] # NoObject /\ view'[id] = NoObject => ~Exists(id)]_allVars
  BY DEF DropsOnlyPurged
<1> QED
  BY <1>1, FeedStarts, FeedStep, DropStep, PTL DEF FeedSpec, NeverDropsLive, DropsOnlyPurged
=============================================================================
