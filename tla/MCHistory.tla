------------------------------ MODULE MCHistory -------------------------------
(*****************************************************************************)
(* The version history of notes: the server's tables (NoteHistory), the      *)
(* queue a browser brings them up with (HistorySync) and the panel that      *)
(* makes the versions (HistoryPanel). They share no state here, so a         *)
(* behaviour is about one of them, its part, and the run explores the union  *)
(* of their state graphs.                                                    *)
(*****************************************************************************)
EXTENDS NoteHistory, TLC, TLAPS

CONSTANTS Parts, None,
          Versions, ByHand, Labels, MaxLabels, MaxLost, Pauses,   \* of HistorySync
          Pages, MaxEdits, Slots, Timers, ShowsPanel, Overlaps    \* of HistoryPanel

VARIABLES part,
          local, outbox, meta, heldBack, run, errand, table, acknowledged,
          barred, admits, wanted, unwanted, labelled, lost, alarm,
          active, body, kept, signature, paused, enabled, session, idle, armed,
          periodic, tasks, going, loads, items, picks, preview, restore, owed,
          edits

OneNote == [s \in Snapshots |-> "n"]
TwoBytes == [s \in Snapshots |-> IF s = 2 THEN 2 ELSE 1]

Queue == INSTANCE HistorySync WITH
    Snapshots <- Versions, Manual <- ByHand, receipts <- acknowledged,
    paused <- heldBack
Panel == INSTANCE HistoryPanel WITH
    Notes <- Pages, Panel <- ShowsPanel

(* What is under way in the panel: a checkpoint, going to a note, restoring. *)
Checkpoints == [note : Pages, forced : BOOLEAN, content : Panel!Content \cup {None},
                purpose : {"none", "interval", "going", "restore"}]
Ways == [to : Pages, step : {"capture", "flush"}]
Restores == [note : Pages, content : Panel!Content, step : {"checkpoint", "persist"}]

ASSUME PartsAssumption ==
    /\ Queue!HistorySyncAssumption
    /\ Panel!PanelAssumption
    /\ None \notin Pages \cup Panel!Version \cup Checkpoints \cup Ways \cup Restores

queueVars == <<local, outbox, meta, heldBack, run, errand, table, acknowledged,
               barred, admits, wanted, unwanted, labelled, lost, alarm>>
panelVars == <<active, body, kept, signature, paused, enabled, session, idle,
               armed, periodic, tasks, going, loads, items, picks, preview,
               restore, owed, edits>>
everything == <<part, vars, queueVars, panelVars>>

(* Only component p moves; the others stay where they began.               *)
Only(p) ==
    /\ part = p /\ UNCHANGED part
    /\ IF p = "server" THEN TRUE ELSE UNCHANGED vars
    /\ IF p = "queue" THEN TRUE ELSE UNCHANGED queueVars
    /\ IF p = "panel" THEN TRUE ELSE UNCHANGED panelVars

RootInit ==
    /\ part \in Parts /\ Init /\ Queue!Init /\ Panel!Init
    /\ part # "panel" => kept = {}
    /\ part # "server" => budget = 4 /\ habits = {"clear"}

ServerStep == Only("server") /\ Next
QueueStep == Only("queue") /\ Queue!Next
PanelStep == Only("panel") /\ Panel!Next

RootNext == ServerStep \/ QueueStep \/ PanelStep

RootSpec == RootInit /\ [][RootNext]_everything

(* NoteHistory: what left the history stays gone (history.ts).  HistorySync, *)
(* HistoryPanel: the queue of a browser keeps what was not sent, takes up    *)
(* labels and leaves alone what is unwanted (createHistorySync.ts); an       *)
(* editing session that ended has a version of its last text                 *)
(* (useVaultHistory.ts).                                                     *)
HistorySafe == GoneStaysGone /\ Queue!QueueSafe /\ Panel!SessionCovered

(* NoteHistory: every row has its type, and ages leave out the trash         *)
(* (restore in writeObject, pause in the POST handler of history/routes.ts). *)
AgesHold == HistoryTypeOK /\ AgeExcludesTrash

(* What may go, and what may come: a version that replaces another in a       *)
(* rotation leaves one of its period, growth stays within the budget, and a   *)
(* restore is preceded by a version of what it replaces (history.ts,          *)
(* useVaultHistoryActions.ts).                                                *)
BudgetsHold == RotationKeepsOne /\ GrowsWithinBudget /\ Panel!CheckpointFirst

Alike == Permutations(Pages) \cup Permutations(Slots)

-----------------------------------------------------------------------------
(***************************************************************************)
(* What the history keeps, for any snapshots, notes, sizes, settings       *)
(* and times: what left the history stays gone, what was cleared does not  *)
(* come back, and what the user protects is the user's to remove.          *)
(*                                                                         *)
(* The age of a row is a sum over the periods its note spent in the trash; *)
(* no step below depends on its value, so rows are typed without it.       *)
(***************************************************************************)

Shaped(r) ==
    /\ {"retentionAt", "protected", "bytes"} \subseteq DOMAIN r
    /\ r.bytes \in Nat

RowsShaped ==
    /\ rows = [s \in Snapshots |-> rows[s]]
    /\ \A s \in Snapshots : Shaped(rows[s])

TimesTyped ==
    /\ now \in Nat
    /\ captured \in [Snapshots -> Nat \cup {Never}]
    /\ receipts \in [Snapshots -> Nat \cup {Never}]
    /\ accountCleared \in Nat \cup {Never}
    /\ noteCleared \in [Notes -> Nat \cup {Never}]
    /\ left \subseteq Snapshots

(* The operation of a snapshot that has been on the server is remembered   *)
(* until it is too old to be accepted: what makes GoneStaysGone inductive. *)
Remembered(s) == captured[s] # Never /\ (receipts[s] # Never \/ Expired(s))

ReceiptsCover ==
    /\ \A s \in Snapshots : captured[s] <= now
    /\ \A s \in Snapshots : receipts[s] # Never => captured[s] # Never /\ captured[s] <= receipts[s]
    /\ \A s \in Stored(rows) \cup left : Remembered(s)

HistoryInv == RowsShaped /\ TimesTyped /\ ReceiptsCover /\ GoneStaysGone

-----------------------------------------------------------------------------
(***************************************************************************)
(* Rows.                                                                   *)
(***************************************************************************)

LEMMA NoRowShaped == Shaped(NoRow)
  BY DEF Shaped, NoRow

LEMMA RecordShaped ==
    ASSUME NEW t, NEW p, NEW b \in Nat
    PROVE  /\ Shaped([retentionAt |-> t, protected |-> p, bytes |-> b])
           /\ [retentionAt |-> t, protected |-> p, bytes |-> b].bytes = b
  BY DEF Shaped

(* Without(set) leaves exactly the other rows stored, as they were. *)
LEMMA WithoutStored ==
    ASSUME RowsShaped, NEW set
    PROVE  /\ Stored(Without(set)) = Stored(rows) \ set
           /\ Without(set) = [s \in Snapshots |-> Without(set)[s]]
           /\ \A s \in Snapshots : Shaped(Without(set)[s])
           /\ \A s \in Stored(rows) \ set : Without(set)[s] = rows[s]
  BY NoRowShaped DEF RowsShaped, Without, Stored, NoRow

(* A row that is put among the remaining ones is stored beside them. *)
Put(set, s, r) == [Without(set) EXCEPT ![s] = r]

LEMMA PutStep ==
    ASSUME RowsShaped, NEW set, NEW s \in Snapshots, NEW r, Shaped(r) /\ r.bytes > 0,
           rows' = Put(set, s, r)
    PROVE  /\ Stored(rows') = (Stored(rows) \ set) \cup {s}
           /\ RowsShaped'
           /\ rows'[s] = r
           /\ \A u \in Stored(rows) \ set : u # s => rows'[u] = rows[u]
<1>1. /\ rows' = [u \in Snapshots |-> rows'[u]]
      /\ \A u \in Snapshots : rows'[u] = IF u = s THEN r ELSE Without(set)[u]
  BY WithoutStored DEF Put
<1>2. Stored(rows') = (Stored(Without(set)) \ {s}) \cup {s}
  BY <1>1 DEF Stored
<1>3. \A u \in Snapshots : Shaped(rows'[u])
  BY <1>1, WithoutStored
<1>4. Stored(rows') = (Stored(rows) \ set) \cup {s}
  BY <1>2, WithoutStored
<1>5. RowsShaped'
  BY <1>1, <1>3 DEF RowsShaped
<1>6. \A u \in Stored(rows) \ set : u # s => rows'[u] = rows[u]
  BY <1>1, WithoutStored DEF Stored
<1> QED
  BY <1>1, <1>4, <1>5, <1>6

(* A row keeps its shape when its protection, its size or its age changes.  *)
LEMMA LabelShaped ==
    ASSUME NEW q, Shaped(q), NEW p, NEW growth \in Nat
    PROVE  /\ Shaped([q EXCEPT !.protected = p, !.bytes = @ + growth])
           /\ [q EXCEPT !.protected = p, !.bytes = @ + growth].bytes = q.bytes + growth
  BY DEF Shaped

LEMMA StayShaped ==
    ASSUME NEW q, Shaped(q), NEW stay
    PROVE  /\ Shaped([q EXCEPT !.retentionAt = @ + stay])
           /\ [q EXCEPT !.retentionAt = @ + stay].bytes = q.bytes
  BY DEF Shaped

(* What a rotation or a reclamation takes is automatic and unprotected, of *)
(* a note that is not in the trash.                                        *)
LEMMA RotatedRotate ==
    /\ Rotated \subseteq Stored(rows)
    /\ \A s \in Rotated : Rotating(s)
  BY DEF Rotated, Thinned, Thinnable

LEMMA AdmittedRotate ==
    ASSUME NEW all, NEW incoming, NEW except, NEW set \in Admission(all, incoming, except)
    PROVE  /\ set \subseteq all /\ except \notin set
           /\ \A s \in set : Rotating(s)
  BY DEF Admission, Reclaims

-----------------------------------------------------------------------------
(***************************************************************************)
(* GoneStaysGone.                                                          *)
(***************************************************************************)

(* What an upload takes rotates; what it brings was not there before.        *)
LEMMA UploadStores ==
    ASSUME HistoryInv, NEW s \in Snapshots, UploadSnapshot(s)
    PROVE  \E gone \in SUBSET Stored(rows) :
             /\ \A u \in gone : Rotating(u)
             /\ s \notin Stored(rows) \cup left
             /\ left' = left \cup gone
             /\ Stored(rows') = (Stored(rows) \ gone) \cup {s}
             /\ RowsShaped'
             /\ ~rows'[s].protected => s \notin Manual
<1> USE SnapshotsAssumption, TimesAssumption
        DEF HistoryInv, SnapshotsAssumption, TimesAssumption, trash, clears, settings
<1>1. PICK reclaimed \in Admission(Stored(rows) \ Rotated, Size[s], s) :
        /\ rows' = [Without(Rotated \cup reclaimed) EXCEPT ![s] =
                      [retentionAt |-> captured[s] + Paused(s),
                       protected |-> s \in Manual, bytes |-> Size[s]]]
        /\ left' = left \cup Rotated \cup reclaimed
  BY DEF UploadSnapshot
<1>2. PICK gone : gone = Rotated \cup reclaimed
  OBVIOUS
<1>3. PICK r : r = [retentionAt |-> captured[s] + Paused(s),
                    protected |-> s \in Manual, bytes |-> Size[s]]
  OBVIOUS
<1>4. gone \subseteq Stored(rows)
  BY <1>2, AdmittedRotate, RotatedRotate
<1>5. s \notin Stored(rows) \cup left
  BY DEF UploadSnapshot, ReceiptsCover, Remembered
<1>6. Shaped(r) /\ r.bytes > 0
  <2>1. Size[s] \in Nat /\ Size[s] > 0
    OBVIOUS
  <2>2. Shaped(r) /\ r.bytes = Size[s]
    BY <1>3, <2>1, RecordShaped, Zenon
  <2> QED
    BY <2>1, <2>2
<1>7. rows' = Put(gone, s, r)
  BY <1>1, <1>2, <1>3, Zenon DEF Put
<1>8. /\ Stored(rows') = (Stored(rows) \ gone) \cup {s}
      /\ RowsShaped'
  BY <1>6, <1>7, PutStep, Zenon
<1>9. left' = left \cup gone /\ \A u \in gone : Rotating(u)
  BY <1>1, <1>2, RotatedRotate, AdmittedRotate
<1>10. ~rows'[s].protected => s \notin Manual
  <2>1. rows'[s] = r
    BY <1>6, <1>7, PutStep, Zenon
  <2>2. r.protected = (s \in Manual)
    BY <1>3, Zenon
  <2> QED
    BY <2>1, <2>2, Zenon
<1> QED
  BY <1>4, <1>5, <1>8, <1>9, <1>10

LEMMA LabelStores ==
    ASSUME HistoryInv, NEW s \in Snapshots, NEW protected, NEW growth \in {0, 1},
           LabelSnapshot(s, protected, growth)
    PROVE  \E gone \in SUBSET Stored(rows) :
             /\ \A u \in gone : Rotating(u)
             /\ left' = left \cup gone
             /\ Stored(rows') = Stored(rows) \ gone
             /\ RowsShaped'
<1> USE SnapshotsAssumption, TimesAssumption
        DEF HistoryInv, SnapshotsAssumption, TimesAssumption
<1>1. PICK reclaimed \in Admission(Stored(rows), growth, s) :
        /\ rows' = [Without(reclaimed) EXCEPT
                      ![s] = [rows[s] EXCEPT !.protected = protected, !.bytes = @ + growth]]
        /\ left' = left \cup reclaimed
  BY DEF LabelSnapshot
<1>2. PICK r : r = [rows[s] EXCEPT !.protected = protected, !.bytes = @ + growth]
  OBVIOUS
<1>3. s \in Stored(rows) /\ reclaimed \subseteq Stored(rows) /\ s \notin reclaimed
  BY AdmittedRotate DEF LabelSnapshot
<1>4. Shaped(r) /\ r.bytes > 0
  <2>1. Shaped(rows[s]) /\ rows[s].bytes > 0 /\ growth \in Nat
    BY <1>3 DEF RowsShaped, Stored
  <2>2. PICK q : q = rows[s]
    OBVIOUS
  <2>3. Shaped(q) /\ r = [q EXCEPT !.protected = protected, !.bytes = @ + growth]
    BY <1>2, <2>1, <2>2
  <2>4. Shaped(r) /\ r.bytes = q.bytes + growth
    BY <2>1, <2>3 DEF Shaped
  <2> QED
    BY <2>1, <2>2, <2>4 DEF Shaped
<1>5. rows' = Put(reclaimed, s, r)
  BY <1>1, <1>2, Zenon DEF Put
<1>6. RowsShaped' /\ Stored(rows') = (Stored(rows) \ reclaimed) \cup {s}
  BY <1>4, <1>5, PutStep, Zenon
<1>7. Stored(rows') = Stored(rows) \ reclaimed
  BY <1>3, <1>6
<1> QED
  BY <1>1, <1>3, <1>6, <1>7, AdmittedRotate

(* A step that only removes rows records each of them as gone. *)
LEMMA RemovalStep ==
    ASSUME HistoryInv, NEW set,
           rows' = Without(set), left' = left \cup (set \cap Stored(rows)),
           UNCHANGED <<now, captured, receipts>>
    PROVE  RowsShaped' /\ ReceiptsCover' /\ GoneStaysGone' /\ left' \subseteq Snapshots
<1> USE DEF HistoryInv
<1>1. Stored(rows') = Stored(rows) \ set
  BY WithoutStored
<1>2. RowsShaped'
  BY WithoutStored DEF RowsShaped
<1>3. GoneStaysGone' /\ left' \subseteq Snapshots
  BY <1>1 DEF GoneStaysGone, TimesTyped, Stored
<1>4. \A u \in Stored(rows)' \cup left' : Remembered(u)'
  BY <1>1 DEF ReceiptsCover, Remembered, Expired
<1> QED
  BY <1>2, <1>3, <1>4 DEF ReceiptsCover

LEMMA HistoryStep == HistoryInv /\ [Next]_vars => HistoryInv'
<1> SUFFICES ASSUME HistoryInv, [Next]_vars PROVE HistoryInv'
  OBVIOUS
<1> USE DEF HistoryInv
<1> USE SnapshotsAssumption, TimesAssumption
        DEF SnapshotsAssumption, TimesAssumption, trash, clears, settings
<1>1. ASSUME NEW s \in Snapshots, Capture(s) PROVE HistoryInv'
  <2>1. RowsShaped' /\ TimesTyped' /\ GoneStaysGone'
    BY <1>1 DEF Capture, RowsShaped, TimesTyped, GoneStaysGone, Stored, Never
  <2>2. s \notin Stored(rows) \cup left
    BY <1>1 DEF Capture, ReceiptsCover, Remembered
  <2>3. ReceiptsCover'
    BY <1>1, <2>2 DEF Capture, ReceiptsCover, Remembered, Expired, TimesTyped, Stored, Never
  <2> QED
    BY <2>1, <2>3
<1>2. ASSUME NEW s \in Snapshots, UploadSnapshot(s) PROVE HistoryInv'
  <2>1. PICK gone \in SUBSET Stored(rows) :
          /\ s \notin Stored(rows) \cup left
          /\ left' = left \cup gone
          /\ Stored(rows') = (Stored(rows) \ gone) \cup {s}
          /\ RowsShaped'
    BY <1>2, UploadStores
  <2>2. TimesTyped'
    BY <1>2, <2>1 DEF UploadSnapshot, TimesTyped, Stored
  <2>3. GoneStaysGone'
    BY <2>1 DEF GoneStaysGone, Stored
  <2>4. ReceiptsCover'
    <3>1. /\ captured' = captured /\ now' = now
          /\ receipts' = [receipts EXCEPT ![s] = now]
          /\ captured[s] # Never /\ receipts[s] = Never
      BY <1>2 DEF UploadSnapshot
    <3>2. \A u \in Snapshots : Remembered(u) => Remembered(u)'
      BY <3>1 DEF Remembered, Expired, TimesTyped, Never
    <3>3. Remembered(s)'
      BY <3>1 DEF Remembered, TimesTyped, Never
    <3>4. \A u \in Stored(rows)' \cup left' : Remembered(u)'
      BY <2>1, <3>2, <3>3 DEF ReceiptsCover, TimesTyped, Stored
    <3> QED
      BY <3>1, <3>4 DEF ReceiptsCover, TimesTyped, Never
  <2> QED
    BY <2>1, <2>2, <2>3, <2>4
<1>3. ASSUME NEW s \in Snapshots, NEW protected \in BOOLEAN, NEW growth \in {0, 1},
             LabelSnapshot(s, protected, growth)
      PROVE  HistoryInv'
  <2>1. PICK gone \in SUBSET Stored(rows) :
          left' = left \cup gone /\ Stored(rows') = Stored(rows) \ gone /\ RowsShaped'
    BY <1>3, LabelStores
  <2>2. UNCHANGED <<now, captured, receipts, accountCleared, noteCleared>>
    BY <1>3 DEF LabelSnapshot
  <2>3. TimesTyped'
    BY <2>1, <2>2 DEF TimesTyped, Stored
  <2>4. GoneStaysGone'
    BY <2>1 DEF GoneStaysGone
  <2>5. ReceiptsCover'
    BY <2>1, <2>2 DEF ReceiptsCover, Remembered, Expired
  <2> QED
    BY <2>1, <2>3, <2>4, <2>5
<1>4. ASSUME NEW s \in Snapshots, DeleteSnapshot(s) PROVE HistoryInv'
  <2>1. RowsShaped' /\ ReceiptsCover' /\ GoneStaysGone' /\ left' \subseteq Snapshots
    BY <1>4, RemovalStep DEF DeleteSnapshot
  <2> QED
    BY <1>4, <2>1 DEF DeleteSnapshot, TimesTyped
<1>5. ASSUME NEW n \in Notes, ClearNote(n) PROVE HistoryInv'
  <2>1. RowsShaped' /\ ReceiptsCover' /\ GoneStaysGone' /\ left' \subseteq Snapshots
    BY <1>5, RemovalStep DEF ClearNote, Unprotected
  <2> QED
    BY <1>5, <2>1 DEF ClearNote, TimesTyped
<1>6. CASE ClearAccount
  <2>1. RowsShaped' /\ ReceiptsCover' /\ GoneStaysGone' /\ left' \subseteq Snapshots
    BY <1>6, RemovalStep DEF ClearAccount, Unprotected
  <2> QED
    BY <1>6, <2>1 DEF ClearAccount, TimesTyped
<1>7. CASE Cleanup
  <2>1. RowsShaped' /\ ReceiptsCover' /\ GoneStaysGone' /\ left' \subseteq Snapshots
    BY <1>7, RemovalStep, RotatedRotate DEF Cleanup
  <2> QED
    BY <1>7, <2>1 DEF Cleanup, TimesTyped
<1>8. ASSUME NEW bytes, NEW days, ChangeSettings(bytes, days) PROVE HistoryInv'
  BY <1>8 DEF ChangeSettings, RowsShaped, TimesTyped, ReceiptsCover, Remembered, Expired,
              GoneStaysGone, Stored
<1>9. ASSUME NEW n \in Notes, TrashNote(n) PROVE HistoryInv'
  BY <1>9 DEF TrashNote, RowsShaped, TimesTyped, ReceiptsCover, Remembered, Expired,
              GoneStaysGone, Stored
<1>10. ASSUME NEW n \in Notes, RestoreNote(n) PROVE HistoryInv'
  <2>1. /\ rows' = [s \in Snapshots |->
                      IF s \in Of(n) \cap Stored(rows)
                        THEN [rows[s] EXCEPT !.retentionAt = @ + Stay(s)] ELSE rows[s]]
        /\ UNCHANGED <<now, captured, receipts, accountCleared, noteCleared, left>>
    BY <1>10 DEF RestoreNote
  <2>2. \A s \in Snapshots : Shaped(rows'[s]) /\ rows'[s].bytes = rows[s].bytes
    BY <2>1, StayShaped DEF RowsShaped
  <2>3. RowsShaped' /\ Stored(rows') = Stored(rows)
    BY <2>1, <2>2 DEF RowsShaped, Stored
  <2> QED
    BY <2>1, <2>3 DEF TimesTyped, ReceiptsCover, Remembered, Expired, GoneStaysGone
<1>11. ASSUME NEW n \in Notes, PurgeNote(n) PROVE HistoryInv'
  <2>1. RowsShaped' /\ ReceiptsCover' /\ GoneStaysGone' /\ left' \subseteq Snapshots
    BY <1>11, RemovalStep DEF PurgeNote
  <2> QED
    BY <1>11, <2>1 DEF PurgeNote, TimesTyped
<1>12. CASE CleanupRecords
  <2>1. /\ UNCHANGED <<now, captured, rows, accountCleared, noteCleared, left>>
        /\ receipts' = [s \in Snapshots |->
                          IF receipts[s] <= now - Lifetime THEN Never ELSE receipts[s]]
    BY <1>12 DEF CleanupRecords
  <2>2. \A s \in Stored(rows) \cup left : Remembered(s)'
    <3>1. ASSUME NEW s \in Stored(rows) \cup left PROVE Remembered(s)'
      <4>1. /\ s \in Snapshots /\ Remembered(s)
            /\ receipts[s] # Never => captured[s] <= receipts[s]
        BY DEF ReceiptsCover, TimesTyped, Stored
      <4>2. /\ captured[s] \in Int /\ receipts[s] \in Int /\ now \in Int /\ Lifetime \in Int
        BY <4>1 DEF TimesTyped, Never
      <4>3. receipts'[s] = IF receipts[s] <= now - Lifetime THEN Never ELSE receipts[s]
        BY <2>1, <4>1
      <4> QED
        BY <2>1, <4>1, <4>2, <4>3 DEF Remembered, Expired
    <3> QED
      BY <3>1
  <2> QED
    BY <2>1, <2>2 DEF RowsShaped, TimesTyped, ReceiptsCover, GoneStaysGone, Stored, Never
<1>13. CASE Tick
  <2>1. now' = now + 1 /\ UNCHANGED <<captured, rows, receipts, accountCleared, noteCleared, left>>
    BY <1>13 DEF Tick
  <2>2. \A s \in Snapshots : captured[s] \in Int /\ now \in Int /\ Lifetime \in Int
    BY DEF TimesTyped, Never
  <2>3. \A s \in Snapshots : Remembered(s) => Remembered(s)'
    BY <2>1, <2>2 DEF Remembered, Expired
  <2>4. \A s \in Snapshots : captured[s] <= now + 1
    BY <2>2 DEF ReceiptsCover
  <2>5. ReceiptsCover'
    BY <2>1, <2>3, <2>4 DEF ReceiptsCover, TimesTyped, Stored
  <2>6. RowsShaped' /\ GoneStaysGone'
    BY <2>1 DEF RowsShaped, GoneStaysGone, Stored
  <2>7. TimesTyped'
    BY <2>1 DEF TimesTyped
  <2> QED
    BY <2>5, <2>6, <2>7
<1>14. CASE UNCHANGED vars
  BY <1>14 DEF vars, RowsShaped, TimesTyped, ReceiptsCover, Remembered, Expired,
               GoneStaysGone, Stored
<1> HIDE DEF HistoryInv
<1> QED
  BY <1>1, <1>2, <1>3, <1>4, <1>5, <1>6, <1>7, <1>8, <1>9, <1>10, <1>11, <1>12, <1>13, <1>14
     DEF Next, ByUser, Of

LEMMA HistoryInit == Init => HistoryInv
  BY NoRowShaped
     DEF Init, HistoryInv, RowsShaped, TimesTyped, ReceiptsCover, Remembered, GoneStaysGone,
         Stored, NoRow, Never

LEMMA HistoryInvariant == Spec => []HistoryInv
  BY HistoryInit, HistoryStep, PTL DEF Spec

(* What was deleted, cleared, rotated or reclaimed is not on the server     *)
(* again, however often and late its upload is repeated.                    *)
THEOREM GoneSnapshotsStayGone == Spec => []GoneStaysGone
  BY HistoryInvariant, PTL DEF HistoryInv

-----------------------------------------------------------------------------
(***************************************************************************)
(* What the steps may take and bring.                                      *)
(***************************************************************************)

LEMMA RestoreStores ==
    ASSUME HistoryInv, NEW n \in Notes, RestoreNote(n)
    PROVE  Stored(rows') = Stored(rows)
<1>1. rows' = [s \in Snapshots |->
                 IF s \in Of(n) \cap Stored(rows)
                   THEN [rows[s] EXCEPT !.retentionAt = @ + Stay(s)] ELSE rows[s]]
  BY DEF RestoreNote
<1>2. \A s \in Snapshots : rows'[s].bytes = rows[s].bytes
  BY <1>1, StayShaped DEF HistoryInv, RowsShaped
<1> QED
  BY <1>2 DEF Stored

(* Only an upload brings a row. *)
LEMMA OnlyUploadsStore ==
    ASSUME HistoryInv, [Next]_vars, \A s \in Snapshots : ~UploadSnapshot(s)
    PROVE  Stored(rows') \subseteq Stored(rows)
<1> USE DEF HistoryInv
<1>1. ASSUME NEW s \in Snapshots, Capture(s) PROVE Stored(rows') \subseteq Stored(rows)
  BY <1>1 DEF Capture
<1>2. ASSUME NEW s \in Snapshots, NEW protected \in BOOLEAN, NEW growth \in {0, 1},
             LabelSnapshot(s, protected, growth)
      PROVE  Stored(rows') \subseteq Stored(rows)
  BY <1>2, LabelStores
<1>3. ASSUME NEW n \in Notes, ByUser(n) PROVE Stored(rows') \subseteq Stored(rows)
  <2>1. ASSUME NEW s \in Of(n), DeleteSnapshot(s) PROVE Stored(rows') \subseteq Stored(rows)
    BY <2>1, WithoutStored DEF DeleteSnapshot
  <2>2. CASE ClearNote(n)
    BY <2>2, WithoutStored DEF ClearNote
  <2>3. CASE TrashNote(n)
    BY <2>3 DEF TrashNote
  <2>4. CASE RestoreNote(n)
    BY <2>4, RestoreStores
  <2>5. CASE PurgeNote(n)
    BY <2>5, WithoutStored DEF PurgeNote
  <2> QED
    BY <1>3, <2>1, <2>2, <2>3, <2>4, <2>5 DEF ByUser
<1>4. CASE ClearAccount
  BY <1>4, WithoutStored DEF ClearAccount
<1>5. CASE Cleanup
  BY <1>5, WithoutStored DEF Cleanup
<1>6. CASE UNCHANGED rows
  BY <1>6
<1>7. CASE CleanupRecords \/ Tick \/ UNCHANGED vars
         \/ \E bytes \in Budgets, days \in Retentions : ChangeSettings(bytes, days)
  BY <1>7, <1>6 DEF CleanupRecords, Tick, ChangeSettings, vars
<1> HIDE DEF HistoryInv
<1> QED
  BY <1>1, <1>2, <1>3, <1>4, <1>5, <1>7 DEF Next

(* Whatever a clearing covered, on any device and however late it arrives,  *)
(* stays out of the history: the marker of the account also stands for the  *)
(* markers of the notes it replaces.                                        *)
THEOREM ClearedSnapshotsStayClear == Spec => ClearedStaysClear
<1>1. ASSUME HistoryInv, [Next]_vars, NEW s \in Stored(rows') \ Stored(rows),
             ~rows'[s].protected, NEW c \in {accountCleared, noteCleared[NoteOf[s]]}
      PROVE  captured[s] > c
  <2>1. PICK u \in Snapshots : UploadSnapshot(u)
    BY <1>1, OnlyUploadsStore
  <2>2. u = s /\ s \notin Manual
    BY <1>1, <2>1, UploadStores
  <2>3. captured[s] > Boundary(NoteOf[s])
    BY <2>1, <2>2 DEF UploadSnapshot
  <2>4. /\ captured[s] \in Int /\ accountCleared \in Int
        /\ noteCleared[NoteOf[s]] \in Int
    <3>1. NoteOf[s] \in Notes
      BY <2>1, <2>2, SnapshotsAssumption DEF SnapshotsAssumption
    <3> QED
      BY <1>1, <2>1, <2>2, <3>1 DEF HistoryInv, TimesTyped, Never
  <2> QED
    BY <1>1, <2>3, <2>4 DEF Boundary, Later
<1>2. HistoryInv /\ [Next]_vars =>
        [\A s \in Stored(rows') \ Stored(rows) :
           ~rows'[s].protected => \A c \in {accountCleared, noteCleared[NoteOf[s]]} :
                                    captured[s] > c]_vars
  BY <1>1
<1> QED
  BY <1>2, HistoryInvariant, PTL DEF Spec, ClearedStaysClear

(* A row that goes and is manual, protected or of a note in the trash goes  *)
(* by an action of the user on that note or on the account.                 *)
THEOREM KeptSnapshotsAreTheUsers == Spec => KeptUntilTheUserActs
<1> DEFINE Allowed(s) ==
      \/ s \notin Manual /\ ~rows[s].protected /\ note[NoteOf[s]] = "live"
      \/ ByUser(NoteOf[s]) \/ ClearAccount
<1>1. ASSUME HistoryInv, [Next]_vars, NEW s \in Stored(rows) \ Stored(rows')
      PROVE  Allowed(s)
  <2> USE SnapshotsAssumption DEF SnapshotsAssumption
  <2>1. ASSUME NEW u \in Snapshots, UploadSnapshot(u) PROVE Allowed(s)
    BY <1>1, <2>1, UploadStores DEF Rotating
  <2>2. ASSUME NEW u \in Snapshots, NEW protected \in BOOLEAN, NEW growth \in {0, 1},
               LabelSnapshot(u, protected, growth)
        PROVE  Allowed(s)
    BY <1>1, <2>2, LabelStores DEF Rotating
  <2>3. CASE Cleanup
    BY <1>1, <2>3, WithoutStored, RotatedRotate DEF Cleanup, Rotating, HistoryInv
  <2>4. CASE ClearAccount
    BY <2>4
  <2>5. ASSUME NEW n \in Notes, ByUser(n) PROVE ByUser(NoteOf[s])
    <3>1. n = NoteOf[s]
      <4>1. CASE \E u \in Of(n) : DeleteSnapshot(u)
        BY <1>1, <4>1, WithoutStored DEF DeleteSnapshot, HistoryInv, Of
      <4>2. CASE ClearNote(n)
        BY <1>1, <4>2, WithoutStored DEF ClearNote, Unprotected, HistoryInv, Of
      <4>3. CASE TrashNote(n)
        BY <1>1, <4>3 DEF TrashNote
      <4>4. CASE RestoreNote(n)
        BY <1>1, <4>4, RestoreStores
      <4>5. CASE PurgeNote(n)
        BY <1>1, <4>5, WithoutStored DEF PurgeNote, HistoryInv, Of
      <4> QED
        BY <2>5, <4>1, <4>2, <4>3, <4>4, <4>5 DEF ByUser
    <3> QED
      BY <2>5, <3>1
  <2>6. CASE \/ CleanupRecords \/ Tick \/ UNCHANGED vars
             \/ \E u \in Snapshots : Capture(u)
             \/ \E bytes \in Budgets, days \in Retentions : ChangeSettings(bytes, days)
    BY <1>1, <2>6 DEF CleanupRecords, Tick, Capture, ChangeSettings, vars
  <2> QED
    BY <1>1, <2>1, <2>2, <2>3, <2>4, <2>5, <2>6 DEF Next
<1>2. HistoryInv /\ [Next]_vars => [\A s \in Stored(rows) \ Stored(rows') : Allowed(s)]_vars
  BY <1>1
<1> QED
  BY <1>2, HistoryInvariant, PTL DEF Spec, KeptUntilTheUserActs

-----------------------------------------------------------------------------
(***************************************************************************)
(* HistorySync: what makes QueueSafe inductive.                            *)
(***************************************************************************)
AllLabels == Labels \cup {"captured"}
VersionRows == [there : BOOLEAN, label : AllLabels, protected : BOOLEAN]
Metas == [gen : Nat, label : AllLabels, protect : {"keep", "protect", "release"}]
Runs == [stage : {"idle", "post", "patch"}, queue : SUBSET Versions,
         read : [Versions -> Metas],
         answer : {"none", "again", "absent", "cleared", "full", "created", "done", "kept", "missing"}]
Errands == [kind : {"none", "delete", "clear", "load"}, keys : SUBSET Versions,
            answer : {"none", "done"}]

QueueTyped ==
    /\ local \in [Versions -> VersionRows] /\ table \in [Versions -> VersionRows]
    /\ meta \in [Versions -> Metas] /\ wanted \in [Versions -> AllLabels]
    /\ run \in Runs /\ errand \in Errands
    /\ outbox \subseteq Versions /\ acknowledged \subseteq Versions
    /\ barred \subseteq Versions /\ unwanted \subseteq Versions
    /\ labelled \in 0 .. MaxLabels

(* Where a captured version is accounted for. *)
Taken == outbox \cup acknowledged \cup unwanted \cup barred

(* What is shown, was refused or is being asked for is accounted for.       *)
Accounted ==
    /\ Queue!There(local) \subseteq Taken
    /\ Queue!There(table) \subseteq acknowledged
    /\ unwanted \subseteq acknowledged \cup (barred \ ByHand)
    /\ errand.keys \subseteq barred \cup unwanted
    /\ run.queue \subseteq Taken

(* Changes of metadata are numbered, and the number tells what was changed. *)
Numbered ==
    /\ run.stage = "idle" <=> run.queue = {}
    /\ \A s \in Versions :
         /\ meta[s].gen <= labelled /\ run.read[s].gen <= labelled
         /\ meta[s].gen # 0 => meta[s].label = wanted[s]
         /\ (meta[s].gen # 0 /\ meta[s].gen = run.read[s].gen) => run.read[s].label = meta[s].label

(* A label that is not queued is the one the version was captured with, or  *)
(* the server has it.                                                       *)
Named ==
    \A s \in Versions :
      /\ s \notin Taken => (wanted[s] = "captured" /\ meta[s].gen = 0)
      /\ (s \notin acknowledged /\ local[s].there /\ meta[s].gen = 0) => wanted[s] = "captured"

(* What an answer says of the version it is about. *)
Answers ==
    \A s \in run.queue :
      /\ run.stage = "post" =>
           /\ (Queue!Turn(s) /\ run.answer \in {"again", "created"}) => s \in acknowledged
           /\ (Queue!Turn(s) /\ run.answer = "cleared") => s \in barred \ (ByHand \cup acknowledged)
      /\ run.stage = "patch" =>
           /\ run.read[s].gen > 0
           /\ local[s].there => meta[s].gen >= run.read[s].gen
           /\ (Queue!Turn(s) /\ run.answer = "done") =>
                s \in acknowledged /\ (table[s].there => table[s].label = run.read[s].label)

QueueInv ==
    /\ QueueTyped /\ Accounted /\ Numbered /\ Named /\ Answers
    /\ Queue!LabelsSettle /\ Queue!UnwantedStaysAway

-----------------------------------------------------------------------------
(***************************************************************************)
(* HistoryPanel: what makes SessionCovered inductive.                      *)
(***************************************************************************)
(* A checkpoint under way that will be of the note as it is. *)
Covers(s, n) ==
    /\ tasks[s] # None
    /\ tasks[s].note = n /\ ~tasks[s].forced /\ tasks[s].content \in {None, body[n]}

PanelTyped ==
    /\ active \in Pages /\ body \in [Pages -> Panel!Content] /\ edits \in 0 .. MaxEdits
    /\ tasks \in [Slots -> Checkpoints \cup {None}]
    /\ kept \subseteq Panel!Version /\ items \subseteq Panel!Version /\ picks \subseteq Panel!Version
    /\ preview \in Panel!Version \cup {None}
    /\ going \in Ways \cup {None} /\ restore \in Restores \cup {None}
    /\ owed \subseteq Pages /\ paused \in BOOLEAN /\ enabled \in BOOLEAN

(* A navigation waits for one checkpoint at most, and a restore too.        *)
For(s, purpose) == tasks[s] # None /\ tasks[s].purpose = purpose

Awaited ==
    /\ \A s, t \in Slots, purpose \in {"going", "restore"} :
         For(s, purpose) /\ For(t, purpose) => s = t
    /\ \A s \in Slots : For(s, "going") => going # None /\ going.step = "capture"
    /\ \A s \in Slots : For(s, "restore") =>
         /\ restore # None /\ restore.step = "checkpoint"
         /\ tasks[s].note = restore.note /\ tasks[s].content \in {None, body[restore.note]}
    /\ (restore # None /\ restore.step = "persist") => Panel!Now(restore.note) \in kept

(* The session is of the note that is open, and what is owed a version has  *)
(* one, is in a session, or is in a checkpoint under way.                   *)
Held(n) == Panel!Now(n) \in kept \/ session = n \/ \E s \in Slots : Covers(s, n)

Sessions ==
    /\ session # None => (session = active /\ going = None /\ enabled)
    /\ paused \/ ~enabled => owed = {}
    /\ \A n \in owed : Held(n)

PanelInv == PanelTyped /\ Awaited /\ Sessions

LEMMA TurnIsOne ==
    ASSUME QueueTyped, NEW s, NEW t, Queue!Turn(s), Queue!Turn(t)
    PROVE  s = t
<1> USE PartsAssumption DEF PartsAssumption, Queue!HistorySyncAssumption
<1>1. s \in Versions /\ t \in Versions /\ Versions \subseteq Int
  BY DEF QueueTyped, Runs, Queue!Turn
<1>2. run.read[s].gen \in Int /\ run.read[t].gen \in Int
  BY <1>1 DEF QueueTyped, Runs, Metas
<1>3. s # t => Queue!Ahead(s, t) /\ Queue!Ahead(t, s)
  BY DEF Queue!Turn
<1>4. CASE run.stage = "post"
  BY <1>1, <1>3, <1>4 DEF Queue!Ahead
<1>5. CASE run.stage # "post"
  BY <1>2, <1>3, <1>5 DEF Queue!Ahead
<1> QED
  BY <1>4, <1>5

(* What the run is about after a step that has no answer to it yet: what it *)
(* was about, or what was queued at that moment.                            *)
Fresh ==
    /\ run' \in Runs /\ (run'.stage = "idle" <=> run'.queue = {}) /\ run'.answer = "none"
    /\ run'.queue \subseteq Taken
    /\ \A t \in Versions : run'.read[t] \in {Queue!NoMeta, run.read[t], meta[t]}
    /\ run'.stage = "patch" =>
         \A t \in run'.queue :
           run'.read[t].gen > 0 /\ (local[t].there => meta[t].gen >= run'.read[t].gen)

LEMMA NoMetaTyped == Queue!NoMeta \in Metas /\ Queue!NothingRead \in [Versions -> Metas]
  BY DEF Queue!NoMeta, Queue!NothingRead, Metas, AllLabels

LEMMA IdleIsFresh == QueueInv /\ run' = Queue!Idle => Fresh
  BY NoMetaTyped DEF Fresh, Queue!Idle, Runs, Queue!NothingRead

LEMMA PostsAreFresh ==
    ASSUME QueueInv, outbox # {}, run' = Queue!Settle("post", outbox, Queue!NothingRead)
    PROVE  Fresh
  BY NoMetaTyped DEF QueueInv, QueueTyped, Taken, Fresh, Queue!Settle, Runs, Queue!NothingRead

LEMMA PatchesAreFresh == QueueInv /\ run' = Queue!StartPatches => Fresh
<1> SUFFICES ASSUME QueueInv, run' = Queue!StartPatches PROVE Fresh
  OBVIOUS
<1>1. CASE Queue!Queued = {}
  BY <1>1, IdleIsFresh DEF Queue!StartPatches, Queue!Settle
<1>2. CASE Queue!Queued # {}
  <2>1. run' = [stage |-> "patch", queue |-> Queue!Queued, read |-> meta, answer |-> "none"]
    BY <1>2 DEF Queue!StartPatches, Queue!Settle
  <2>2. \A t \in Queue!Queued : t \in Versions /\ meta[t].gen \in Nat /\ meta[t].gen # 0
    BY DEF QueueInv, QueueTyped, Metas, Queue!Queued
  <2>3. Queue!Queued \subseteq Taken
    BY <2>2 DEF QueueInv, Named
  <2>4. run' \in Runs
    BY <2>1, <2>2 DEF QueueInv, QueueTyped, Runs
  <2> QED
    BY <1>2, <2>1, <2>2, <2>3, <2>4 DEF Fresh
<1> QED
  BY <1>1, <1>2

LEMMA ProceedIsFresh ==
    ASSUME QueueInv, NEW s, Queue!Turn(s), run.stage \in {"post", "patch"},
           run' = Queue!Proceed(s)
    PROVE  Fresh /\ (run.stage = "patch" => s \notin run'.queue)
<1>1. CASE run.queue # {s}
  <2>1. run' = [run EXCEPT !.queue = @ \ {s}, !.read[s] = Queue!NoMeta, !.answer = "none"]
    BY <1>1 DEF Queue!Proceed
  <2>2. s \in run.queue /\ s \in Versions
    BY DEF Queue!Turn, QueueInv, QueueTyped, Runs
  <2>3. run \in Runs
    BY DEF QueueInv, QueueTyped
  <2>4. /\ run'.queue = run.queue \ {s} /\ run'.stage = run.stage /\ run'.answer = "none"
        /\ run'.read = [run.read EXCEPT ![s] = Queue!NoMeta]
        /\ run' \in Runs
    <3>1. PICK read : read = [run.read EXCEPT ![s] = Queue!NoMeta]
      OBVIOUS
    <3>2. read \in [Versions -> Metas]
      BY <2>2, <2>3, <3>1, NoMetaTyped DEF Runs
    <3>3. run' = [stage |-> run.stage, queue |-> run.queue \ {s}, read |-> read, answer |-> "none"]
      BY <2>1, <2>3, <3>1 DEF Runs
    <3> QED
      BY <2>3, <3>1, <3>2, <3>3 DEF Runs
  <2>5. \A t \in Versions : run'.read[t] = IF t = s THEN Queue!NoMeta ELSE run.read[t]
    BY <2>2, <2>3, <2>4 DEF Runs
  <2>6. \A t \in run'.queue : t \in run.queue /\ t # s /\ t \in Versions /\ run'.read[t] = run.read[t]
    BY <2>3, <2>4, <2>5 DEF Runs
  <2>7. run'.queue \subseteq Taken /\ run'.queue # {} /\ run'.stage # "idle"
    BY <1>1, <2>2, <2>4 DEF QueueInv, Accounted
  <2> QED
    BY <2>4, <2>5, <2>6, <2>7 DEF Fresh, QueueInv, Answers
<1>2. CASE run.queue = {s} /\ run.stage = "post"
  BY <1>2, PatchesAreFresh DEF Queue!Proceed
<1>3. CASE run.queue = {s} /\ run.stage = "patch"
  BY <1>3, IdleIsFresh DEF Queue!Proceed, Queue!Idle
<1> QED
  BY <1>1, <1>2, <1>3

(* Such a step keeps what the numbers and the answers say.                  *)
LEMMA FreshKeeps ==
    ASSUME QueueInv, Fresh, labelled' = labelled, wanted' = wanted, Taken \subseteq Taken',
           \A t \in Versions : meta'[t] \in {meta[t], Queue!NoMeta},
           \A t \in run'.queue : local'[t].there => local[t].there /\ meta'[t] = meta[t]
    PROVE  Numbered' /\ Answers' /\ run'.queue \subseteq Taken'
<1>1. \A t \in Versions :
        /\ run'.read[t] \in {Queue!NoMeta, run.read[t], meta[t]}
        /\ run.read[t].gen \in Nat /\ meta[t].gen \in Nat
  BY DEF Fresh, QueueInv, QueueTyped, Runs, Metas
<1>2. labelled \in Nat /\ Queue!NoMeta.gen = 0
  BY DEF QueueInv, QueueTyped, Queue!NoMeta
<1>3. \A t \in Versions :
        /\ meta[t].gen <= labelled /\ run.read[t].gen <= labelled
        /\ meta[t].gen # 0 => meta[t].label = wanted[t]
        /\ (meta[t].gen # 0 /\ meta[t].gen = run.read[t].gen) => run.read[t].label = meta[t].label
  BY DEF QueueInv, Numbered
<1>4. Numbered'
  BY <1>1, <1>2, <1>3 DEF Numbered, Fresh
<1>5. Answers'
  <2>1. \A t \in run'.queue : run'.stage = "patch" =>
          run'.read[t].gen > 0 /\ (local[t].there => meta[t].gen >= run'.read[t].gen)
    BY DEF Fresh
  <2>2. run'.answer = "none"
    BY DEF Fresh
  <2> QED
    BY <2>1, <2>2 DEF Answers
<1> QED
  BY <1>4, <1>5 DEF Fresh

LEMMA RowsTyped ==
    /\ Queue!NoRow \in VersionRows /\ Queue!NoRow.there = FALSE
    /\ \A l \in AllLabels, p \in BOOLEAN :
         /\ Queue!Row(l, p) \in VersionRows /\ Queue!Row(l, p).there
         /\ Queue!Row(l, p).label = l /\ Queue!Row(l, p).protected = p
  BY DEF Queue!NoRow, Queue!Row, VersionRows, AllLabels

LEMMA CapturedTyped ==
    ASSUME NEW s
    PROVE  \E row \in VersionRows :
             row = Queue!Row("captured", s \in ByHand) /\ row.there /\ row.label = "captured"
<1>1. \A p \in BOOLEAN : \E row \in VersionRows :
        row = Queue!Row("captured", p) /\ row.there /\ row.label = "captured"
  BY RowsTyped DEF AllLabels
<1>2. (s \in ByHand) \in BOOLEAN
  <2>1. (s \in ByHand) = TRUE \/ (s \in ByHand) = FALSE
    OBVIOUS
  <2> QED
    BY <2>1, Zenon
<1> QED
  BY <1>1, <1>2, Zenon

LEMMA ForgetTyped ==
    ASSUME NEW T, NEW f \in [Versions -> T], NEW none \in T, NEW set
    PROVE  /\ Queue!Forget(f, set, none) \in [Versions -> T]
           /\ \A s \in Versions : Queue!Forget(f, set, none)[s] = IF s \in set THEN none ELSE f[s]
  BY DEF Queue!Forget

(* Everything but the run after a step that takes rows off the device or    *)
(* the server, with what is queued of them, and accounts for what it takes. *)
LEMMA TakingKeeps ==
    ASSUME QueueInv, Fresh \/ run' = run,
           local' \in [Versions -> VersionRows], table' \in [Versions -> VersionRows],
           \A t \in Versions : local'[t] = local[t] \/ ~local'[t].there,
           \A t \in Versions : table'[t] = table[t] \/ ~table'[t].there,
           meta' \in [Versions -> Metas],
           \A t \in Versions : meta'[t] = meta[t] \/ (~local'[t].there /\ meta'[t] = Queue!NoMeta),
           outbox' \subseteq outbox, acknowledged' = acknowledged,
           barred \subseteq barred', barred' \subseteq Taken,
           unwanted \subseteq unwanted', unwanted' \subseteq Taken,
           Taken \subseteq Taken',
           \A s \in Queue!There(table') : s \notin unwanted',
           unwanted' \subseteq acknowledged \cup (barred' \ ByHand),
           errand' \in Errands, errand'.keys \subseteq barred' \cup unwanted',
           labelled' = labelled, wanted' = wanted
    PROVE  QueueInv'
<1>2. /\ Taken \subseteq Versions /\ Queue!NoMeta.gen = 0
      /\ run' \in Runs
  BY DEF QueueInv, QueueTyped, Taken, Queue!NoMeta, Fresh
<1>3. QueueTyped'
  BY <1>2 DEF QueueInv, QueueTyped
<1>4. \A t \in Versions : /\ local'[t].there => local'[t] = local[t] /\ meta'[t] = meta[t]
                          /\ table'[t].there => table[t].there /\ table'[t] = table[t]
                          /\ meta'[t].gen # 0 => meta'[t] = meta[t]
  BY <1>2
<1>5. Accounted' /\ Numbered' /\ Answers'
  <2>1. CASE Fresh
    <3>1. \A t \in run'.queue : t \in Versions
      BY <1>2 DEF Runs
    <3>2. Numbered' /\ Answers' /\ run'.queue \subseteq Taken'
      BY <2>1, <1>4, <3>1, FreshKeeps
    <3> QED
      BY <1>3, <1>4, <3>2 DEF Accounted, QueueInv, Queue!There, QueueTyped
  <2>2. CASE run' = run
    <3>1. labelled \in Nat /\ \A t \in Versions : meta'[t] = meta[t] \/ meta'[t].gen = 0
      BY <1>2 DEF QueueInv, QueueTyped
    <3>5. Numbered'
      BY <2>2, <3>1 DEF QueueInv, Numbered
    <3>2. \A s : Queue!Turn(s)' <=> Queue!Turn(s)
      BY <2>2 DEF Queue!Turn, Queue!Ahead
    <3>3. \A s \in run.queue : s \in Versions
      BY DEF QueueInv, QueueTyped, Runs
    <3>4. Answers'
      BY <2>2, <3>2, <3>3, <1>4 DEF QueueInv, Answers
    <3>6. Accounted'
      BY <2>2, <1>3, <1>4 DEF Accounted, QueueInv, Queue!There, QueueTyped
    <3> QED
      BY <3>4, <3>5, <3>6
  <2> QED
    BY <2>1, <2>2
<1>6. Named'
  BY <1>4 DEF QueueInv, Named, Queue!NoMeta
<1>7. Queue!LabelsSettle' /\ Queue!UnwantedStaysAway'
  BY <1>4 DEF QueueInv, Queue!LabelsSettle, Queue!UnwantedStaysAway, Queue!There
<1> QED
  BY <1>3, <1>5, <1>6, <1>7 DEF QueueInv

(* A step of the run that changes nothing but what it is about.             *)
LEMMA RunAloneKeeps ==
    ASSUME QueueInv, Fresh,
           UNCHANGED <<local, outbox, meta, errand, table, acknowledged, barred, wanted,
                       unwanted, labelled>>
    PROVE  QueueInv'
<1>1. /\ local \in [Versions -> VersionRows] /\ table \in [Versions -> VersionRows]
      /\ meta \in [Versions -> Metas] /\ errand \in Errands
      /\ barred \subseteq Taken /\ unwanted \subseteq Taken
      /\ errand.keys \subseteq barred \cup unwanted
      /\ unwanted \subseteq acknowledged \cup (barred \ ByHand)
      /\ \A s \in Queue!There(table) : s \notin unwanted
  BY DEF QueueInv, QueueTyped, Accounted, Taken, Queue!UnwantedStaysAway
<1>2. Taken' = Taken /\ Queue!There(table') = Queue!There(table)
  BY DEF Taken
<1> QED
  BY <1>1, <1>2, TakingKeeps

LEMMA CaptureKeeps == ASSUME QueueInv, NEW s \in Versions, Queue!Capture(s) PROVE QueueInv'
<1> USE PartsAssumption DEF QueueInv, PartsAssumption, Queue!HistorySyncAssumption
<1>9. PICK row \in VersionRows : row = Queue!Row("captured", s \in ByHand) /\ row.there
  BY CapturedTyped
<1>1. /\ s \notin Taken /\ ~local[s].there
      /\ \A t \in Versions : local'[t] = IF t = s THEN row ELSE local[t]
      /\ local' \in [Versions -> VersionRows]
      /\ outbox' = outbox \cup {s} /\ Taken' = Taken \cup {s}
      /\ UNCHANGED <<meta, run, errand, table, acknowledged, barred, wanted, unwanted, labelled>>
  <2>1. local' = [local EXCEPT ![s] = row]
    BY <1>9 DEF Queue!Capture
  <2> QED
    BY <2>1
       DEF Queue!Capture, Queue!Captured, Taken, QueueTyped, Queue!server, Queue!history,
           Queue!There
<1>2. QueueTyped'
  BY <1>1 DEF QueueTyped
<1>3. s \notin acknowledged /\ ~table[s].there /\ s \notin run.queue
  BY <1>1 DEF Accounted, Queue!There, Taken
<1>4. Accounted' /\ Numbered' /\ Named'
  BY <1>1, <1>9 DEF Accounted, Numbered, Named, Queue!There
<1>5. \A t : Queue!Turn(t)' <=> Queue!Turn(t)
  BY <1>1 DEF Queue!Turn, Queue!Ahead
<1>6. Answers'
  <2>1. \A t \in run.queue : t \in Versions /\ t # s
    BY <1>3 DEF QueueTyped, Runs
  <2> QED
    BY <1>1, <1>5, <2>1 DEF Answers
<1>7. Queue!LabelsSettle' /\ Queue!UnwantedStaysAway'
  BY <1>1, <1>3 DEF Queue!LabelsSettle, Queue!UnwantedStaysAway, Queue!There
<1> QED
  BY <1>2, <1>4, <1>6, <1>7

LEMMA LabelKeeps ==
    ASSUME QueueInv, NEW s \in Versions, NEW label \in AllLabels,
           NEW change \in {"keep", "protect", "release"}, Queue!Label(s, label, change)
    PROVE  QueueInv'
<1> USE PartsAssumption DEF QueueInv, PartsAssumption, Queue!HistorySyncAssumption
<1>1. PICK p \in BOOLEAN : p = Queue!Flag(change, local[s].protected)
  BY DEF Queue!Flag, QueueTyped, VersionRows
<1>2. PICK q \in {"keep", "protect", "release"} :
        q = IF change = "keep" THEN meta[s].protect ELSE change
  BY DEF QueueTyped, Metas
<1>3. PICK m : m = [gen |-> labelled + 1, label |-> label, protect |-> q]
  OBVIOUS
<1>4. /\ local[s].there /\ labelled < MaxLabels /\ labelled' = labelled + 1
      /\ local' = [local EXCEPT ![s] = Queue!Row(label, p)]
      /\ meta' = [meta EXCEPT ![s] = m]
      /\ wanted' = [wanted EXCEPT ![s] = label]
      /\ UNCHANGED <<outbox, run, errand, table, acknowledged, barred, unwanted>>
  BY <1>1, <1>2, <1>3 DEF Queue!Label, Queue!server
<1>5. m \in Metas /\ m.gen = labelled + 1 /\ m.label = label /\ labelled \in Nat
  BY <1>3, <1>2 DEF Metas, QueueTyped
<1>6. /\ \A t \in Versions : local'[t] = IF t = s THEN Queue!Row(label, p) ELSE local[t]
      /\ \A t \in Versions : meta'[t] = IF t = s THEN m ELSE meta[t]
      /\ \A t \in Versions : wanted'[t] = IF t = s THEN label ELSE wanted[t]
      /\ Queue!Row(label, p).there /\ Queue!Row(label, p) \in VersionRows
  BY <1>4, RowsTyped DEF QueueTyped
<1>7. QueueTyped'
  BY <1>4, <1>5, <1>6 DEF QueueTyped
<1>8. \A t \in Versions : meta[t].gen \in Nat /\ run.read[t].gen \in Nat /\ run.read[t].gen <= labelled
  BY DEF QueueTyped, Runs, Metas, Numbered
<1>9. Taken' = Taken /\ s \in Taken
  BY <1>4 DEF Taken, Accounted, Queue!There
<1>10. Accounted' /\ Named'
  BY <1>4, <1>5, <1>6, <1>8, <1>9 DEF Accounted, Named, Queue!There
<1>11. Numbered'
  BY <1>4, <1>5, <1>6, <1>8 DEF Numbered
<1>12. \A t : Queue!Turn(t)' <=> Queue!Turn(t)
  BY <1>4 DEF Queue!Turn, Queue!Ahead
<1>13. Answers'
  <2>1. \A t \in run.queue : t \in Versions
    BY DEF QueueTyped, Runs
  <2> QED
    BY <1>4, <1>5, <1>6, <1>8, <1>12, <2>1 DEF Answers
<1>14. Queue!LabelsSettle' /\ Queue!UnwantedStaysAway'
  BY <1>4, <1>5, <1>6, <1>8 DEF Queue!LabelsSettle, Queue!UnwantedStaysAway, Queue!There
<1> QED
  BY <1>7, <1>10, <1>11, <1>13, <1>14

LEMMA PostExecutesKeeps == ASSUME QueueInv, NEW s, Queue!PostExecutes(s) PROVE QueueInv'
<1> USE DEF QueueInv
<1>1. /\ Queue!Turn(s) /\ run.stage = "post" /\ run.answer = "none" /\ s \in run.queue
      /\ s \in Versions /\ s \in Taken /\ run \in Runs
  BY DEF Queue!PostExecutes, Queue!At, Queue!Turn, QueueTyped, Runs, Accounted
<1>2. /\ run' = [run EXCEPT !.answer = Queue!PostAnswer(s)]
      /\ UNCHANGED <<local, outbox, meta, errand, barred, wanted, unwanted, labelled>>
  BY DEF Queue!PostExecutes, Queue!client, Queue!history
<1>3. Queue!PostAnswer(s) \in {"again", "absent", "cleared", "full", "created"}
  BY DEF Queue!PostAnswer
<1>4. /\ run' \in Runs /\ run'.stage = run.stage /\ run'.queue = run.queue /\ run'.read = run.read
      /\ run'.answer = Queue!PostAnswer(s)
  BY <1>1, <1>2, <1>3 DEF Runs
<1>5. \A t : Queue!Turn(t)' <=> Queue!Turn(t)
  BY <1>4 DEF Queue!Turn, Queue!Ahead
<1>6. \A t \in run.queue : Queue!Turn(t) => t = s
  BY <1>1, TurnIsOne
<1>7. CASE Queue!PostAnswer(s) = "created"
  <2>1. /\ table' = [table EXCEPT ![s] = Queue!Row("captured", s \in ByHand)]
        /\ acknowledged' = acknowledged \cup {s}
    BY <1>7 DEF Queue!PostExecutes
  <2>2. s \notin acknowledged /\ (s \in ByHand \/ s \notin barred)
    BY <1>7 DEF Queue!PostAnswer
  <2>3. s \notin unwanted
    BY <2>2 DEF Accounted
  <2>4. PICK row \in VersionRows :
          /\ row.label = "captured"
          /\ \A t \in Versions : table'[t] = IF t = s THEN row ELSE table[t]
          /\ table' \in [Versions -> VersionRows]
    <3>1. PICK row \in VersionRows :
            row = Queue!Row("captured", s \in ByHand) /\ row.label = "captured"
      BY CapturedTyped
    <3>2. table' = [table EXCEPT ![s] = row]
      BY <2>1, <3>1
    <3> QED
      BY <3>1, <3>2 DEF QueueTyped
  <2>5. QueueTyped' /\ Numbered'
    BY <1>1, <1>2, <1>4, <2>1, <2>4 DEF QueueTyped, Numbered
  <2>6. Taken' = Taken
    BY <1>1, <1>2, <2>1 DEF Taken
  <2>7. Accounted' /\ Named'
    BY <1>2, <1>4, <2>1, <2>4, <2>6 DEF Accounted, Named, Queue!There
  <2>8. Answers'
    BY <1>1, <1>4, <1>5, <1>6, <1>7, <2>1 DEF Answers
  <2>9. Queue!LabelsSettle' /\ Queue!UnwantedStaysAway'
    BY <1>1, <1>2, <2>2, <2>3, <2>4
       DEF Queue!LabelsSettle, Queue!UnwantedStaysAway, Queue!There, Named
  <2> QED
    BY <2>5, <2>7, <2>8, <2>9
<1>8. CASE Queue!PostAnswer(s) # "created"
  <2>1. UNCHANGED <<table, acknowledged>>
    BY <1>8 DEF Queue!PostExecutes
  <2>2. QueueTyped' /\ Numbered' /\ Taken' = Taken
    BY <1>2, <1>4, <2>1 DEF QueueTyped, Numbered, Taken
  <2>3. Accounted' /\ Named' /\ Queue!LabelsSettle' /\ Queue!UnwantedStaysAway'
    BY <1>2, <1>4, <2>1, <2>2
       DEF Accounted, Named, Queue!There, Queue!LabelsSettle, Queue!UnwantedStaysAway
  <2>4. /\ Queue!PostAnswer(s) = "again" => s \in acknowledged
        /\ Queue!PostAnswer(s) = "cleared" => s \in barred \ (ByHand \cup acknowledged)
    BY DEF Queue!PostAnswer
  <2>5. Answers'
    BY <1>1, <1>2, <1>4, <1>5, <1>6, <1>8, <2>1, <2>4 DEF Answers
  <2> QED
    BY <2>2, <2>3, <2>5
<1> QED
  BY <1>7, <1>8

LEMMA PatchExecutesKeeps == ASSUME QueueInv, NEW s, Queue!PatchExecutes(s) PROVE QueueInv'
<1> USE DEF QueueInv
<1>1. /\ Queue!Turn(s) /\ run.stage = "patch" /\ run.answer = "none" /\ s \in run.queue
      /\ s \in Versions /\ run \in Runs /\ local[s].there
  BY DEF Queue!PatchExecutes, Queue!At, Queue!Turn, QueueTyped, Runs
<1>2. PICK answer \in {"done", "kept", "missing"} :
        /\ answer = IF table[s].there THEN "done" ELSE IF local[s].protected THEN "kept" ELSE "missing"
        /\ run' = [run EXCEPT !.answer = answer]
  BY DEF Queue!PatchExecutes
<1>3. /\ run' \in Runs /\ run'.stage = run.stage /\ run'.queue = run.queue /\ run'.read = run.read
      /\ run'.answer = answer
  BY <1>1, <1>2 DEF Runs
<1>4. UNCHANGED <<local, outbox, meta, errand, acknowledged, barred, wanted, unwanted, labelled>>
  BY DEF Queue!PatchExecutes, Queue!client, Queue!history
<1>5. PICK p \in BOOLEAN : p = Queue!Flag(run.read[s].protect, table[s].protected)
  BY <1>1 DEF Queue!Flag, QueueTyped, VersionRows, Runs, Metas
<1>6. PICK row \in VersionRows :
        /\ row = IF table[s].there THEN Queue!Row(run.read[s].label, p) ELSE table[s]
        /\ row.there = table[s].there
        /\ table[s].there => row.label = run.read[s].label
  <2>1. run.read[s].label \in AllLabels /\ table[s] \in VersionRows
    BY <1>1 DEF Runs, Metas, QueueTyped
  <2> QED
    BY <2>1, RowsTyped
<1>7. table' = [table EXCEPT ![s] = row]
  BY <1>5, <1>6 DEF Queue!PatchExecutes
<1>8. /\ table' \in [Versions -> VersionRows]
      /\ \A t \in Versions : table'[t] = IF t = s THEN row ELSE table[t]
  BY <1>1, <1>7 DEF QueueTyped
<1>9. \A t : Queue!Turn(t)' <=> Queue!Turn(t)
  BY <1>3 DEF Queue!Turn, Queue!Ahead
<1>10. \A t \in run.queue : (Queue!Turn(t) => t = s) /\ t \in Versions
  BY <1>1, TurnIsOne DEF Runs
<1>11. QueueTyped' /\ Numbered' /\ Taken' = Taken
  BY <1>3, <1>4, <1>8 DEF QueueTyped, Numbered, Taken
<1>12. Accounted' /\ Named' /\ Queue!UnwantedStaysAway'
  BY <1>3, <1>4, <1>6, <1>8, <1>11 DEF Accounted, Named, Queue!There, Queue!UnwantedStaysAway
<1>13. Answers'
  <2>1. ASSUME NEW t \in run.queue
        PROVE  /\ run.read[t].gen > 0
               /\ local[t].there => meta[t].gen >= run.read[t].gen
               /\ Queue!Turn(t) /\ answer = "done" =>
                    t \in acknowledged /\ (table'[t].there => table'[t].label = run.read[t].label)
    <3>1. run.read[t].gen > 0 /\ (local[t].there => meta[t].gen >= run.read[t].gen)
      BY <1>1 DEF Answers
    <3>2. ASSUME Queue!Turn(t), answer = "done" 
          PROVE  t \in acknowledged /\ (table'[t].there => table'[t].label = run.read[t].label)
      <4>1. t = s /\ table[s].there
        BY <1>2, <1>10, <3>2
      <4> QED
        BY <1>1, <1>6, <1>8, <4>1 DEF Accounted, Queue!There
    <3> QED
      BY <3>1, <3>2
  <2> QED
    BY <1>1, <1>3, <1>4, <1>9, <2>1 DEF Answers
<1>14. meta[s].gen # 0
  <2>1. run.read[s].gen > 0 /\ meta[s].gen >= run.read[s].gen
    BY <1>1 DEF Answers
  <2> QED
    BY <1>1, <2>1 DEF Runs, Metas, QueueTyped
<1>15. Queue!LabelsSettle'
  BY <1>4, <1>6, <1>8, <1>14 DEF Queue!LabelsSettle, Queue!There
<1> QED
  BY <1>11, <1>12, <1>13, <1>15

(* The label that is no longer queued is the one the server took.           *)
LEMMA PatchSettlesKeeps == ASSUME QueueInv, NEW s, Queue!PatchSettles(s) PROVE QueueInv'
<1>1. /\ Queue!Turn(s) /\ run.stage = "patch" /\ run.answer = "done" /\ s \in run.queue
      /\ s \in Versions
  BY DEF QueueInv, Queue!PatchSettles, Queue!At, Queue!Turn, QueueTyped, Runs
<1>2. Fresh /\ s \notin run'.queue
  BY <1>1, ProceedIsFresh DEF Queue!PatchSettles
<1>3. UNCHANGED <<local, outbox, errand, table, acknowledged, barred, wanted, unwanted, labelled>>
  BY DEF Queue!PatchSettles, Queue!server, Queue!history
<1>4. CASE meta' = meta
  BY <1>2, <1>3, <1>4, RunAloneKeeps
<1>5. CASE meta[s].gen = run.read[s].gen /\ meta' = Queue!Forget(meta, {s}, Queue!NoMeta)
  <2> USE DEF QueueInv
  <2>1. /\ meta' \in [Versions -> Metas]
        /\ \A t \in Versions : meta'[t] = IF t = s THEN Queue!NoMeta ELSE meta[t]
    BY <1>5, NoMetaTyped DEF QueueTyped, Queue!Forget
  <2>2. Taken' = Taken /\ run' \in Runs /\ \A t \in run'.queue : t \in Versions
    BY <1>2, <1>3 DEF Taken, Fresh, Runs
  <2>3. QueueTyped'
    BY <1>3, <2>1, <2>2 DEF QueueTyped
  <2>4. Numbered' /\ Answers' /\ run'.queue \subseteq Taken'
    BY <1>2, <1>3, <2>1, <2>2, FreshKeeps
  <2>5. Accounted'
    BY <1>3, <2>2, <2>4 DEF Accounted, Queue!There
  <2>6. Queue!NoMeta.gen = 0 /\ run.read[s].gen > 0 /\ run.read[s].gen \in Nat
    BY <1>1 DEF Answers, Queue!NoMeta, QueueTyped, Runs, Metas
  <2>7. table[s].there => table[s].label = wanted[s]
    <3>1. table[s].there => table[s].label = run.read[s].label
      BY <1>1 DEF Answers
    <3>2. run.read[s].label = wanted[s]
      BY <1>1, <1>5, <2>6 DEF Numbered
    <3> QED
      BY <3>1, <3>2
  <2>8. s \in acknowledged
    BY <1>1 DEF Answers
  <2>9. Named'
    BY <1>1, <1>3, <2>1, <2>2, <2>6, <2>8 DEF Named
  <2>10. Queue!LabelsSettle' /\ Queue!UnwantedStaysAway'
    BY <1>3, <2>1, <2>7 DEF Queue!LabelsSettle, Queue!UnwantedStaysAway, Queue!There
  <2> QED
    BY <2>3, <2>4, <2>5, <2>9, <2>10
<1> QED
  BY <1>4, <1>5 DEF Queue!PatchSettles

(* Steps that take a version off the device.                                *)
LEMMA RunTakingKeeps ==
    ASSUME QueueInv, NEW s, Queue!Turn(s),
           Queue!PostSettles(s) \/ Queue!PostCleared(s) \/ Queue!PatchSkipped(s) \/ Queue!PatchMissing(s)
    PROVE  QueueInv'
<1>1. /\ s \in Versions /\ s \in run.queue /\ s \in Taken /\ run.stage \in {"post", "patch"}
  BY DEF QueueInv, Queue!Turn, QueueTyped, Runs, Accounted, Queue!PostSettles, Queue!PostCleared,
         Queue!PatchSkipped, Queue!PatchMissing, Queue!At
<1>2. Fresh
  BY <1>1, ProceedIsFresh
     DEF Queue!PostSettles, Queue!PostCleared, Queue!PatchSkipped, Queue!PatchMissing
<1>3. /\ UNCHANGED <<table, acknowledged, barred, errand, wanted, labelled>>
  BY DEF Queue!PostSettles, Queue!PostCleared, Queue!PatchSkipped, Queue!PatchMissing,
         Queue!server, Queue!history
<1>4. /\ local \in [Versions -> VersionRows] /\ meta \in [Versions -> Metas]
      /\ table \in [Versions -> VersionRows] /\ errand \in Errands
      /\ Queue!Forget(local, {s}, Queue!NoRow) \in [Versions -> VersionRows]
      /\ Queue!Forget(meta, {s}, Queue!NoMeta) \in [Versions -> Metas]
      /\ \A t \in Versions :
           /\ Queue!Forget(local, {s}, Queue!NoRow)[t] = IF t = s THEN Queue!NoRow ELSE local[t]
           /\ Queue!Forget(meta, {s}, Queue!NoMeta)[t] = IF t = s THEN Queue!NoMeta ELSE meta[t]
      /\ ~Queue!NoRow.there
  BY RowsTyped, NoMetaTyped DEF QueueInv, QueueTyped, Queue!Forget
<1>5. /\ barred \subseteq Taken /\ unwanted \subseteq Taken
      /\ errand.keys \subseteq barred \cup unwanted
      /\ unwanted \subseteq acknowledged \cup (barred \ ByHand)
      /\ \A t \in Queue!There(table) : t \notin unwanted
      /\ Queue!There(table) \subseteq acknowledged
  BY DEF QueueInv, Accounted, Taken, Queue!UnwantedStaysAway
<1>6. CASE Queue!PostSettles(s)
  <2>1. s \in acknowledged
    BY <1>1, <1>6 DEF Queue!PostSettles, Queue!Acknowledged, QueueInv, Answers
  <2>2. outbox' = outbox \ {s} /\ UNCHANGED <<local, meta, unwanted>>
    BY <1>6 DEF Queue!PostSettles, Queue!history
  <2>3. Taken' = Taken
    BY <1>3, <2>1, <2>2 DEF Taken
  <2> QED
    BY <1>2, <1>3, <1>4, <1>5, <2>2, <2>3, TakingKeeps
<1>7. CASE Queue!PostCleared(s)
  <2>1. s \in barred \ (ByHand \cup acknowledged)
    BY <1>1, <1>7 DEF Queue!PostCleared, Queue!At, QueueInv, Answers
  <2>2. /\ local' = Queue!Forget(local, {s}, Queue!NoRow) /\ outbox' = outbox \ {s}
        /\ unwanted' = unwanted \cup {s} /\ UNCHANGED meta
    BY <1>7 DEF Queue!PostCleared
  <2>3. Taken' = Taken
    BY <1>3, <2>1, <2>2 DEF Taken
  <2>4. /\ unwanted' \subseteq Taken /\ unwanted' \subseteq acknowledged \cup (barred \ ByHand)
        /\ \A t \in Queue!There(table) : t \notin unwanted'
        /\ errand.keys \subseteq barred \cup unwanted'
    BY <1>1, <1>5, <2>1, <2>2
  <2> QED
    BY <1>2, <1>3, <1>4, <1>5, <2>2, <2>3, <2>4, TakingKeeps
<1>8. CASE Queue!PatchSkipped(s)
  <2>1. /\ meta' = Queue!Forget(meta, {s}, Queue!NoMeta) /\ ~local[s].there
        /\ UNCHANGED <<local, outbox, unwanted>>
    BY <1>8 DEF Queue!PatchSkipped, Queue!history
  <2>2. Taken' = Taken
    BY <1>3, <2>1 DEF Taken
  <2> QED
    BY <1>2, <1>3, <1>4, <1>5, <2>1, <2>2, TakingKeeps
<1>9. CASE Queue!PatchMissing(s)
  <2>1. /\ local' = Queue!Forget(local, {s}, Queue!NoRow) /\ meta' = Queue!Forget(meta, {s}, Queue!NoMeta)
        /\ UNCHANGED <<outbox, unwanted>>
    BY <1>9 DEF Queue!PatchMissing, Queue!history
  <2>2. Taken' = Taken
    BY <1>3, <2>1 DEF Taken
  <2> QED
    BY <1>2, <1>3, <1>4, <1>5, <2>1, <2>2, TakingKeeps
<1> QED
  BY <1>6, <1>7, <1>8, <1>9

(* The user's requests and what another device does.                        *)
LEMMA RequestsKeep ==
    ASSUME QueueInv,
           \/ \E s \in Versions : Queue!DeleteRequest(s)
           \/ Queue!ClearRequest \/ Queue!LoadRequest \/ Queue!ErrandEnds \/ Queue!RemoteClear
    PROVE  QueueInv'
<1>1. UNCHANGED <<run, acknowledged, wanted, labelled>>
  BY DEF Queue!DeleteRequest, Queue!ClearRequest, Queue!LoadRequest, Queue!ErrandEnds,
         Queue!RemoteClear, Queue!server, Queue!history
<1>2. /\ local \in [Versions -> VersionRows] /\ meta \in [Versions -> Metas]
      /\ table \in [Versions -> VersionRows] /\ errand \in Errands /\ Taken \subseteq Versions
      /\ \A set : /\ Queue!Forget(local, set, Queue!NoRow) \in [Versions -> VersionRows]
                  /\ Queue!Forget(table, set, Queue!NoRow) \in [Versions -> VersionRows]
                  /\ Queue!Forget(meta, set, Queue!NoMeta) \in [Versions -> Metas]
                  /\ \A t \in Versions :
                       /\ Queue!Forget(local, set, Queue!NoRow)[t] = IF t \in set THEN Queue!NoRow ELSE local[t]
                       /\ Queue!Forget(table, set, Queue!NoRow)[t] = IF t \in set THEN Queue!NoRow ELSE table[t]
                       /\ Queue!Forget(meta, set, Queue!NoMeta)[t] = IF t \in set THEN Queue!NoMeta ELSE meta[t]
      /\ ~Queue!NoRow.there
  BY RowsTyped, NoMetaTyped DEF QueueInv, QueueTyped, Taken, Queue!Forget
<1>3. /\ barred \subseteq Taken /\ unwanted \subseteq Taken /\ outbox \subseteq Taken
      /\ errand.keys \subseteq barred \cup unwanted
      /\ unwanted \subseteq acknowledged \cup (barred \ ByHand)
      /\ \A t \in Queue!There(table) : t \notin unwanted
      /\ Queue!There(table) \subseteq acknowledged
      /\ Queue!Captured = Taken
  BY DEF QueueInv, Accounted, Taken, Queue!UnwantedStaysAway, Queue!Captured
<1>4. ASSUME NEW s \in Versions, Queue!DeleteRequest(s) PROVE QueueInv'
  <2>1. /\ table[s].there
        /\ table' = Queue!Forget(table, {s}, Queue!NoRow)
        /\ errand' = [kind |-> "delete", keys |-> {s}, answer |-> "done"]
        /\ unwanted' = unwanted \cup {s}
        /\ UNCHANGED <<local, outbox, meta, barred>>
    BY <1>4 DEF Queue!DeleteRequest, Queue!client
  <2>2. s \in acknowledged
    BY <1>3, <2>1 DEF Queue!There
  <2>3. Taken' = Taken /\ errand' \in Errands /\ errand'.keys = {s}
    BY <1>1, <2>1, <2>2 DEF Taken, Errands
  <2>4. \A t \in Queue!There(table') : t \notin unwanted'
    BY <1>2, <1>3, <2>1 DEF Queue!There
  <2>5. unwanted' \subseteq Taken /\ unwanted' \subseteq acknowledged \cup (barred \ ByHand)
    BY <1>3, <2>1, <2>2 DEF Taken
  <2> QED
    BY <1>1, <1>2, <1>3, <2>1, <2>3, <2>4, <2>5, TakingKeeps
<1>5. CASE Queue!ClearRequest \/ Queue!RemoteClear
  <2>1. /\ barred' = Taken
        /\ unwanted' = unwanted \cup Queue!Cleared
        /\ table' = Queue!Forget(table, Queue!Unprotected(table), Queue!NoRow)
        /\ UNCHANGED <<local, outbox, meta>>
    BY <1>3, <1>5 DEF Queue!ClearRequest, Queue!RemoteClear, Queue!client
  <2>2. errand' = errand \/ errand' = [kind |-> "clear", keys |-> Taken, answer |-> "done"]
    BY <1>3, <1>5 DEF Queue!ClearRequest, Queue!RemoteClear
  <2>3. Queue!Cleared \subseteq acknowledged \cup (Taken \ ByHand) /\ Queue!Cleared \subseteq Taken
    BY <1>3 DEF Queue!Cleared, Queue!Unprotected, Queue!There, Taken
  <2>4. Taken' = Taken
    BY <1>1, <1>3, <2>1, <2>3 DEF Taken
  <2>5. errand' \in Errands /\ errand'.keys \subseteq barred' \cup unwanted'
    BY <1>2, <1>3, <2>1, <2>2 DEF Errands
  <2>6. \A t \in Queue!There(table') : t \notin unwanted'
    BY <1>2, <1>3, <2>1 DEF Queue!There, Queue!Cleared, Queue!Unprotected
  <2>7. /\ unwanted' \subseteq Taken /\ unwanted' \subseteq acknowledged \cup (barred' \ ByHand)
        /\ barred \subseteq barred'
    BY <1>3, <2>1, <2>3
  <2> QED
    BY <1>1, <1>2, <2>1, <2>4, <2>5, <2>6, <2>7, TakingKeeps
<1>6. CASE Queue!LoadRequest
  <2>1. /\ errand' = [kind |-> "load", keys |-> Queue!Unprotected(local) \cap barred, answer |-> "done"]
        /\ UNCHANGED <<local, outbox, meta, table, barred, unwanted>>
    BY <1>6 DEF Queue!LoadRequest, Queue!client, Queue!server, Queue!history
  <2>2. Taken' = Taken /\ errand' \in Errands /\ errand'.keys \subseteq barred
    BY <1>1, <1>2, <1>3, <2>1 DEF Taken, Errands
  <2> QED
    BY <1>1, <1>2, <1>3, <2>1, <2>2, TakingKeeps
<1>7. CASE Queue!ErrandEnds
  <2>1. PICK gone : /\ gone = IF errand.kind = "clear" THEN errand.keys \cap Queue!Unprotected(local)
                              ELSE errand.keys
                    /\ local' = Queue!Forget(local, gone, Queue!NoRow)
                    /\ meta' = Queue!Forget(meta, gone, Queue!NoMeta)
                    /\ outbox' = outbox \ gone
    BY <1>7 DEF Queue!ErrandEnds
  <2>2. errand' = Queue!NoErrand /\ UNCHANGED <<table, barred, unwanted>>
    BY <1>7 DEF Queue!ErrandEnds, Queue!server, Queue!history
  <2>3. gone \subseteq barred \cup unwanted
    BY <1>3, <2>1
  <2>4. Taken' = Taken /\ errand' \in Errands /\ errand'.keys = {}
    BY <1>1, <2>1, <2>2, <2>3 DEF Taken, Errands, Queue!NoErrand
  <2> QED
    BY <1>1, <1>2, <1>3, <2>1, <2>2, <2>4, TakingKeeps
<1> QED
  BY <1>4, <1>5, <1>6, <1>7

LEMMA QueueStepKeeps == QueueInv /\ [Queue!Next]_queueVars => QueueInv'
<1> SUFFICES ASSUME QueueInv, [Queue!Next]_queueVars PROVE QueueInv'
  OBVIOUS
<1>1. ASSUME NEW s \in Versions, Queue!Capture(s) \/ Queue!DeleteRequest(s) PROVE QueueInv'
  BY <1>1, CaptureKeeps, RequestsKeep
<1>2. ASSUME NEW s \in Versions,
             \/ \E label \in Labels : Queue!Label(s, label, "keep")
             \/ \E change \in {"protect", "release"} : Queue!Label(s, wanted[s], change)
      PROVE  QueueInv'
  <2>1. wanted[s] \in AllLabels /\ Labels \subseteq AllLabels
    BY DEF QueueInv, QueueTyped, AllLabels
  <2> QED
    BY <1>2, <2>1, LabelKeeps
<1>3. CASE Queue!RunSteps
  <2>1. CASE Queue!StartRun
    <3>1. Fresh
      BY <2>1, PostsAreFresh, PatchesAreFresh DEF Queue!StartRun
    <3> QED
      BY <2>1, <3>1, RunAloneKeeps DEF Queue!StartRun, Queue!client, Queue!server, Queue!history
  <2>2. ASSUME NEW s \in run.queue, Queue!Answered(s) PROVE QueueInv'
    <3>1. CASE Queue!PostExecutes(s) \/ Queue!PatchExecutes(s) \/ Queue!PatchSettles(s)
      BY <3>1, PostExecutesKeeps, PatchExecutesKeeps, PatchSettlesKeeps
    <3>2. CASE Queue!PostSettles(s) \/ Queue!PostCleared(s) \/ Queue!PatchSkipped(s) \/ Queue!PatchMissing(s)
      <4>1. Queue!Turn(s)
        BY <3>2 DEF Queue!PostSettles, Queue!PostCleared, Queue!PatchSkipped, Queue!PatchMissing,
                    Queue!At
      <4> QED
        BY <3>2, <4>1, RunTakingKeeps
    <3>3. CASE Queue!PostUnacknowledged(s) \/ Queue!HeldBack(s) \/ Queue!PatchKept(s)
      <4>1. Fresh
        BY <3>3, IdleIsFresh, PatchesAreFresh
           DEF Queue!PostUnacknowledged, Queue!HeldBack, Queue!PatchKept
      <4> QED
        BY <3>3, <4>1, RunAloneKeeps
           DEF Queue!PostUnacknowledged, Queue!HeldBack, Queue!PatchKept, Queue!client,
               Queue!server, Queue!history
    <3> QED
      BY <2>2, <3>1, <3>2, <3>3 DEF Queue!Answered
  <2> QED
    BY <1>3, <2>1, <2>2 DEF Queue!RunSteps
<1>4. CASE Queue!Loses
  <2>1. Fresh
    BY <1>4, IdleIsFresh DEF Queue!Loses
  <2> QED
    BY <1>4, <2>1, RunAloneKeeps DEF Queue!Loses, Queue!client, Queue!server
<1>5. CASE Queue!ClearRequest \/ Queue!LoadRequest \/ Queue!ErrandEnds \/ Queue!RemoteClear
  BY <1>5, RequestsKeep
<1>6. CASE Queue!ServerChanges \/ UNCHANGED queueVars
  <2>1. UNCHANGED <<local, outbox, meta, run, errand, table, acknowledged, barred, wanted, unwanted,
                    labelled>>
    BY <1>6 DEF Queue!ServerChanges, queueVars, Queue!client, Queue!server, Queue!history
  <2>2. (\A t : Queue!Turn(t)' <=> Queue!Turn(t)) /\ Taken' = Taken
    BY <2>1 DEF Queue!Turn, Queue!Ahead, Taken
  <2> QED
    BY <2>1, <2>2 DEF QueueInv, QueueTyped, Accounted, Numbered, Named, Answers,
                      Queue!LabelsSettle, Queue!UnwantedStaysAway, Queue!There
<1> QED
  BY <1>1, <1>2, <1>3, <1>4, <1>5, <1>6 DEF Queue!Next

LEMMA QueueInitHolds == Queue!Init => QueueInv
<1> SUFFICES ASSUME Queue!Init PROVE QueueInv
  OBVIOUS
<1> USE PartsAssumption
    DEF Queue!Init, PartsAssumption, Queue!HistorySyncAssumption, Queue!Idle, Queue!NoErrand,
        Queue!NoRow, Queue!NoMeta, Queue!NothingRead
<1>1. QueueTyped
  BY DEF QueueTyped, VersionRows, AllLabels, Metas, Runs, Errands
<1>2. Accounted /\ Numbered /\ Named /\ Answers /\ Queue!LabelsSettle /\ Queue!UnwantedStaysAway
  BY DEF Accounted, Numbered, Named, Answers, Queue!LabelsSettle, Queue!UnwantedStaysAway,
         Queue!There, Taken
<1> QED
  BY <1>1, <1>2 DEF QueueInv

LEMMA QueueInvIsSafe == QueueInv => Queue!QueueSafe
<1> SUFFICES ASSUME QueueInv PROVE Queue!QueueSafe
  OBVIOUS
<1>1. Queue!HistorySyncTypeOK
  <2>1. meta \in [Versions -> [gen : 0 .. MaxLabels, label : Labels \cup {"captured"},
                               protect : {"keep", "protect", "release"}]]
    <3>1. \A s \in Versions :
            meta[s] \in [gen : 0 .. MaxLabels, label : Labels \cup {"captured"},
                         protect : {"keep", "protect", "release"}]
      <4> TAKE s \in Versions
      <4>1. meta[s] \in Metas /\ meta[s].gen <= labelled /\ labelled \in 0 .. MaxLabels
            /\ MaxLabels \in Nat
        BY PartsAssumption
           DEF QueueInv, QueueTyped, Numbered, PartsAssumption, Queue!HistorySyncAssumption
      <4>2. meta[s].gen \in 0 .. MaxLabels
        BY <4>1 DEF Metas
      <4> QED
        BY <4>1, <4>2 DEF Metas, AllLabels
    <3> QED
      BY <3>1 DEF QueueInv, QueueTyped
  <2> QED
    BY <2>1 DEF Queue!HistorySyncTypeOK, QueueInv, QueueTyped, VersionRows, AllLabels, Runs,
                Errands, Numbered
<1>2. Queue!NothingDropped
  BY DEF Queue!NothingDropped, Queue!Captured, QueueInv, Accounted, Taken
<1> QED
  BY <1>1, <1>2 DEF Queue!QueueSafe, QueueInv

-----------------------------------------------------------------------------
(***************************************************************************)
(* HistoryPanel: the steps.  The user stays in the note that is edited     *)
(* until it is left: no new note and no other title in between.            *)
(***************************************************************************)
StaysInNote == Overlaps \cap {"create", "rename"} = {}

LEMMA NoneIsNothing ==
    /\ None \notin Pages /\ None \notin Panel!Version /\ None \notin Checkpoints
    /\ None \notin Ways /\ None \notin Restores
  BY PartsAssumption DEF PartsAssumption

LEMMA StartsOne ==
    ASSUME PanelTyped, NEW n \in Pages, NEW forced \in BOOLEAN,
           NEW content \in Panel!Content \cup {None},
           NEW purpose \in {"none", "interval", "going", "restore"},
           Panel!Start(n, forced, content, purpose)
    PROVE  \E s \in Slots :
             /\ tasks[s] = None /\ tasks' \in [Slots -> Checkpoints \cup {None}]
             /\ tasks'[s] # None
             /\ tasks'[s].note = n /\ tasks'[s].forced = forced
             /\ tasks'[s].content = content /\ tasks'[s].purpose = purpose
             /\ \A t \in Slots \ {s} : tasks'[t] = tasks[t]
<1>1. PICK s \in Slots :
        /\ tasks[s] = None
        /\ tasks' = [tasks EXCEPT ![s] = [note |-> n, forced |-> forced, content |-> content,
                                          purpose |-> purpose]]
  BY DEF Panel!Start
<1>2. PICK task : task = [note |-> n, forced |-> forced, content |-> content, purpose |-> purpose]
  OBVIOUS
<1>3. /\ task \in Checkpoints /\ task.note = n /\ task.forced = forced
      /\ task.content = content /\ task.purpose = purpose
  BY <1>2 DEF Checkpoints
<1>4. tasks' = [tasks EXCEPT ![s] = task]
  BY <1>1, <1>2
<1> HIDE DEF Checkpoints
<1> QED
  BY <1>1, <1>3, <1>4, NoneIsNothing DEF PanelTyped

(* A checkpoint more, that no one waits for: everything held stays held.    *)
LEMMA StartKeeps ==
    ASSUME PanelTyped, Awaited, NEW n \in Pages, NEW forced \in BOOLEAN,
           NEW content \in Panel!Content \cup {None}, NEW purpose \in {"none", "interval"},
           Panel!Start(n, forced, content, purpose) \/ UNCHANGED tasks,
           UNCHANGED <<going, restore, kept>>,
           \A m \in Pages : (restore # None /\ restore.note = m) => body'[m] = body[m]
    PROVE  /\ Awaited' /\ tasks' \in [Slots -> Checkpoints \cup {None}]
           /\ \A m \in Pages, s \in Slots : body'[m] = body[m] /\ Covers(s, m) => Covers(s, m)'
<1>1. restore # None => restore.note \in Pages
  BY DEF PanelTyped, Restores
<1>2. CASE UNCHANGED tasks
  BY <1>1, <1>2 DEF Awaited, For, Covers, Panel!Now, PanelTyped
<1>3. CASE Panel!Start(n, forced, content, purpose)
  <2>1. PICK s \in Slots :
             /\ tasks[s] = None /\ tasks' \in [Slots -> Checkpoints \cup {None}]
             /\ tasks'[s] # None
             /\ tasks'[s].note = n /\ tasks'[s].forced = forced
             /\ tasks'[s].content = content /\ tasks'[s].purpose = purpose
             /\ \A t \in Slots \ {s} : tasks'[t] = tasks[t]
    BY <1>3, StartsOne
  <2>2. \A t \in Slots, p \in {"going", "restore"} : For(t, p)' => t # s /\ For(t, p)
    BY <2>1 DEF For
  <2>3. Awaited'
    BY <1>1, <2>1, <2>2 DEF Awaited, Panel!Now
  <2> QED
    BY <2>1, <2>3 DEF Covers
<1> QED
  BY <1>2, <1>3

(* A checkpoint that is over frees its slot, and who waits for it goes on.  *)
LEMMA OverKeeps ==
    ASSUME PanelTyped, Awaited, NEW s \in Slots, tasks[s] # None, NEW saved \in BOOLEAN,
           Panel!Over(s, saved), body' = body, kept \subseteq kept',
           (saved /\ For(s, "restore")) => Panel!Now(restore.note) \in kept'
    PROVE  /\ Awaited' /\ tasks' \in [Slots -> Checkpoints \cup {None}]
           /\ \A t \in Slots : tasks'[t] = IF t = s THEN None ELSE tasks[t]
           /\ going' \in Ways \cup {None} /\ restore' \in Restores \cup {None}
           /\ going' # None => going # None
<1>1. tasks' = [tasks EXCEPT ![s] = None]
  BY DEF Panel!Over
<1>2. tasks' \in [Slots -> Checkpoints \cup {None}]
  BY <1>1 DEF PanelTyped
<1>3. \A t \in Slots : tasks'[t] = IF t = s THEN None ELSE tasks[t]
  BY <1>1 DEF PanelTyped
<1>4. \A t \in Slots, p \in {"going", "restore"} : For(t, p)' => t # s /\ For(t, p)
  BY <1>3 DEF For
<1>5. going' \in Ways \cup {None} /\ (going' # None => going # None)
      /\ (For(s, "going") \/ going' = going)
  <2>1. CASE tasks[s].purpose = "going"
    <3>1. going \in Ways /\ going' = [going EXCEPT !.step = "flush"]
      BY <2>1 DEF Panel!Over, Awaited, For, PanelTyped
    <3>2. going' \in Ways
      BY <3>1 DEF Ways
    <3> QED
      BY <2>1, <3>1, <3>2, NoneIsNothing DEF For
  <2>2. CASE tasks[s].purpose # "going"
    BY <2>2 DEF Panel!Over, PanelTyped
  <2> QED
    BY <2>1, <2>2
<1>6. /\ restore' \in Restores \cup {None} /\ (For(s, "restore") \/ restore' = restore)
      /\ (For(s, "restore") /\ restore' # None) =>
            restore'.note = restore.note /\ Panel!Now(restore.note) \in kept'
  <2>1. CASE tasks[s].purpose = "restore" /\ saved
    <3>1. restore \in Restores /\ restore' = [restore EXCEPT !.step = "persist"]
      BY <2>1 DEF Panel!Over, Awaited, For, PanelTyped
    <3>2. restore' \in Restores /\ restore'.note = restore.note
      BY <3>1 DEF Restores
    <3> QED
      BY <2>1, <3>1, <3>2, NoneIsNothing DEF For
  <2>2. CASE tasks[s].purpose = "restore" /\ ~saved
    BY <2>2 DEF Panel!Over, For
  <2>3. CASE tasks[s].purpose # "restore"
    BY <2>3 DEF Panel!Over, PanelTyped, For
  <2> QED
    BY <2>1, <2>2, <2>3
<1>7. Awaited'
  <2>1. \A t \in Slots : For(t, "going")' => going' # None /\ going'.step = "capture"
    BY <1>4, <1>5 DEF Awaited
  <2>2. \A t \in Slots : For(t, "restore")' => ~For(s, "restore") /\ restore' = restore
    BY <1>4, <1>6 DEF Awaited
  <2>3. \A t \in Slots : For(t, "restore")' =>
          /\ restore' # None /\ restore'.step = "checkpoint"
          /\ tasks'[t].note = restore'.note /\ tasks'[t].content \in {None, body'[restore'.note]}
    BY <1>3, <1>4, <2>2 DEF Awaited
  <2>4. (restore' # None /\ restore'.step = "persist") => Panel!Now(restore.note)' \in kept'
    <3>1. CASE For(s, "restore")
      BY <3>1, <1>6 DEF Panel!Now
    <3>2. CASE restore' = restore
      BY <3>2 DEF Awaited, Panel!Now
    <3> QED
      BY <1>6, <3>1, <3>2
  <2> QED
    BY <1>4, <2>1, <2>3, <2>4 DEF Awaited
<1> QED
  BY <1>2, <1>3, <1>5, <1>6, <1>7

LEMMA CheckpointKeeps ==
    ASSUME PanelInv, NEW s \in Slots, Panel!Capture(s) \/ Panel!Create(s)
    PROVE  PanelInv'
<1> USE DEF PanelInv
<1>1. PICK task \in Checkpoints : task = tasks[s] /\ tasks[s] # None
  BY DEF Panel!Capture, Panel!Create, PanelTyped
<1>2. PICK n \in Pages : n = task.note
  BY DEF Checkpoints
<1>3. CASE Panel!Capture(s)
  <2>1. /\ task.content = None
        /\ UNCHANGED <<active, body, enabled, session, items, picks, preview, edits, kept, paused>>
    BY <1>1, <1>3 DEF Panel!Capture, Panel!shown
  <2>2. CASE Panel!LastSeen(n) = body[n] /\ ~task.forced
    <3>1. owed' = owed \ {n} /\ Panel!Over(s, FALSE)
      BY <1>1, <1>2, <1>3, <2>2 DEF Panel!Capture
    <3>2. /\ Awaited' /\ tasks' \in [Slots -> Checkpoints \cup {None}]
          /\ \A t \in Slots : tasks'[t] = IF t = s THEN None ELSE tasks[t]
          /\ going' \in Ways \cup {None} /\ restore' \in Restores \cup {None}
          /\ going' # None => going # None
      BY <1>1, <2>1, <3>1, OverKeeps
    <3>3. PanelTyped'
      BY <2>1, <3>1, <3>2 DEF PanelTyped
    <3>4. \A m \in Pages \ {n}, t \in Slots : Covers(t, m) => Covers(t, m)'
      BY <1>1, <1>2, <2>1, <3>2 DEF Covers
    <3>5. Sessions'
      BY <2>1, <3>1, <3>2, <3>4 DEF Sessions, Held, Panel!Now, PanelTyped
    <3> QED
      BY <3>2, <3>3, <3>5
  <2>3. CASE ~(Panel!LastSeen(n) = body[n] /\ ~task.forced)
    <3>1. PICK c \in Panel!Content : c = body[n]
      BY <1>2 DEF PanelTyped
    <3>2. PICK moved \in Checkpoints :
            /\ moved = [task EXCEPT !.content = c]
            /\ moved.content = c /\ moved.note = n /\ moved.purpose = task.purpose
            /\ moved.forced = task.forced
      <4> SUFFICES /\ [task EXCEPT !.content = c] \in Checkpoints
                   /\ [task EXCEPT !.content = c].content = c
                   /\ [task EXCEPT !.content = c].note = n
                   /\ [task EXCEPT !.content = c].purpose = task.purpose
                   /\ [task EXCEPT !.content = c].forced = task.forced
        OBVIOUS
      <4> QED
        BY <1>2 DEF Checkpoints
    <3>3. /\ tasks' = [tasks EXCEPT ![s] = moved]
          /\ UNCHANGED <<owed, going, restore>>
      <4>1. /\ tasks' = [tasks EXCEPT ![s].content = body[n]]
            /\ UNCHANGED <<owed, going, restore>>
        BY <1>1, <1>2, <1>3, <2>3 DEF Panel!Capture
      <4> QED
        BY <1>1, <3>1, <3>2, <4>1
    <3>4. /\ tasks' \in [Slots -> Checkpoints \cup {None}] /\ tasks'[s] # None
          /\ \A t \in Slots : tasks'[t] = IF t = s THEN moved ELSE tasks[t]
      BY <3>2, <3>3, NoneIsNothing DEF PanelTyped
    <3>5. PanelTyped'
      BY <2>1, <3>3, <3>4 DEF PanelTyped
    <3>6. \A t \in Slots, p \in {"going", "restore"} : For(t, p)' <=> For(t, p)
      BY <1>1, <3>2, <3>4 DEF For
    <3>7. Awaited'
      BY <1>1, <1>2, <2>1, <3>1, <3>2, <3>3, <3>4, <3>6 DEF Awaited, Panel!Now
    <3>8. \A m \in Pages, t \in Slots : Covers(t, m) => Covers(t, m)'
      BY <1>1, <1>2, <2>1, <3>1, <3>2, <3>4 DEF Covers
    <3>9. Sessions'
      BY <2>1, <3>3, <3>8 DEF Sessions, Held, Panel!Now, PanelTyped
    <3> QED
      BY <3>5, <3>7, <3>9
  <2> QED
    BY <2>2, <2>3
<1>4. CASE Panel!Create(s)
  <2>1. /\ task.content # None /\ task.content \in Panel!Content
        /\ UNCHANGED <<active, body, enabled, session, picks, preview, edits>>
    BY <1>1, <1>4 DEF Panel!Create, Checkpoints
  <2>2. CASE Panel!Created(s) /\ Panel!Over(s, TRUE)
    <3>1. PICK version \in Panel!Version :
            /\ version = [note |-> n, content |-> task.content]
            /\ kept' = kept \cup {version} /\ items' \in {items, items \cup {version}}
            /\ owed' = IF body[n] = task.content THEN owed \ {n} ELSE owed
            /\ UNCHANGED paused
      <4>1. [note |-> n, content |-> task.content] \in Panel!Version
        BY <2>1 DEF Panel!Version
      <4> QED
        BY <1>1, <1>2, <2>2, <4>1 DEF Panel!Created
    <3>2. For(s, "restore") => Panel!Now(restore.note) \in kept'
      BY <1>1, <1>2, <2>1, <3>1 DEF For, Awaited, Panel!Now
    <3>3. /\ Awaited' /\ tasks' \in [Slots -> Checkpoints \cup {None}]
          /\ \A t \in Slots : tasks'[t] = IF t = s THEN None ELSE tasks[t]
          /\ going' \in Ways \cup {None} /\ restore' \in Restores \cup {None}
          /\ going' # None => going # None
      BY <1>1, <2>1, <2>2, <3>1, <3>2, OverKeeps
    <3>4. PanelTyped'
      BY <2>1, <3>1, <3>3 DEF PanelTyped
    <3>5. \A m \in owed', t \in Slots : Covers(t, m) => Covers(t, m)'
      BY <1>1, <1>2, <2>1, <3>1, <3>3 DEF Covers
    <3>6. Sessions'
      BY <2>1, <3>1, <3>3, <3>5 DEF Sessions, Held, Panel!Now, PanelTyped
    <3> QED
      BY <3>3, <3>4, <3>6
  <2>3. CASE Panel!NoRoom(s) /\ Panel!Over(s, FALSE)
    <3>1. /\ paused' = (paused \/ ~task.forced)
          /\ owed' = IF paused' THEN {} ELSE owed
          /\ UNCHANGED <<kept, items>>
      BY <1>1, <2>3 DEF Panel!NoRoom
    <3>2. /\ Awaited' /\ tasks' \in [Slots -> Checkpoints \cup {None}]
          /\ \A t \in Slots : tasks'[t] = IF t = s THEN None ELSE tasks[t]
          /\ going' \in Ways \cup {None} /\ restore' \in Restores \cup {None}
          /\ going' # None => going # None
      BY <1>1, <2>1, <2>3, <3>1, OverKeeps
    <3>3. PanelTyped'
      BY <1>1, <2>1, <3>1, <3>2 DEF PanelTyped
    <3>4. \A m \in owed', t \in Slots : Covers(t, m) => Covers(t, m)'
      BY <1>1, <2>1, <3>1, <3>2 DEF Covers
    <3>5. Sessions'
      BY <2>1, <3>1, <3>2, <3>4 DEF Sessions, Held, Panel!Now, PanelTyped
    <3> QED
      BY <3>2, <3>3, <3>5
  <2> QED
    BY <1>4, <2>2, <2>3 DEF Panel!Create
<1> QED
  BY <1>3, <1>4

(* An edit opens a session of the note that is open, or goes on with it.    *)
LEMMA EditKeeps ==
    ASSUME PanelInv, going = None, restore = None, Panel!Changes(active),
           UNCHANGED <<active, kept, paused, enabled, going, items, picks, preview, restore>>
    PROVE  PanelInv'
<1> USE DEF PanelInv
<1>1. PICK n \in Pages : n = active
  BY DEF PanelTyped
<1>2. edits < MaxEdits /\ edits' = edits + 1 /\ edits' \in 0 .. MaxEdits
  BY PartsAssumption DEF Panel!Changes, PanelTyped, PartsAssumption, Panel!PanelAssumption
<1>3. PICK c \in Panel!Content : c = [of |-> n, v |-> edits']
  BY <1>1, <1>2 DEF Panel!Content
<1>4. /\ body' = [body EXCEPT ![n] = c] /\ Panel!Schedule(n, body[n])
  BY <1>1, <1>3 DEF Panel!Changes
<1>5. /\ body' \in [Pages -> Panel!Content]
      /\ \A m \in Pages : body'[m] = IF m = n THEN c ELSE body[m]
  BY <1>4 DEF PanelTyped
<1>6. body[n] \in Panel!Content \cup {None}
  BY DEF PanelTyped
<1>7. Panel!Start(n, FALSE, body[n], "none") \/ UNCHANGED tasks
  BY <1>4 DEF Panel!Schedule
<1>8. /\ Awaited' /\ tasks' \in [Slots -> Checkpoints \cup {None}]
      /\ \A m \in Pages, s \in Slots : body'[m] = body[m] /\ Covers(s, m) => Covers(s, m)'
  BY <1>6, <1>7, StartKeeps
<1>9. \/ (~enabled \/ paused) /\ owed' = owed \ {n} /\ session' = session
      \/ enabled /\ ~paused /\ owed' = owed \cup {n} /\ session' = n
  BY <1>4 DEF Panel!Schedule
<1>10. PanelTyped'
  BY <1>2, <1>5, <1>8, <1>9 DEF PanelTyped
<1>11. Sessions'
  <2>1. n # None
    BY NoneIsNothing
  <2>2. CASE (~enabled \/ paused) /\ owed' = owed \ {n} /\ session' = session
    BY <2>2 DEF Sessions
  <2>3. CASE enabled /\ ~paused /\ owed' = owed \cup {n} /\ session' = n
    <3>1. \A m \in owed' : m # n => m \in owed /\ m \in Pages /\ body'[m] = body[m]
      BY <1>5, <2>3 DEF PanelTyped
    <3>2. \A m \in owed : m # n => session # m
      BY <1>1, NoneIsNothing DEF Sessions, PanelTyped
    <3>3. \A m \in owed' : m # n => Held(m)'
      BY <1>8, <3>1, <3>2 DEF Sessions, Held, Panel!Now
    <3> QED
      BY <1>1, <2>3, <3>3 DEF Sessions, Held
  <2> QED
    BY <1>9, <2>2, <2>3
<1> QED
  BY <1>8, <1>10, <1>11

(* The end of a session is the beginning of a checkpoint of its note.       *)
LEMMA FinishKeeps ==
    ASSUME PanelInv, NEW purpose \in {"none", "going"}, Panel!Finish(purpose),
           UNCHANGED <<active, body, kept, paused, enabled, items, picks, preview, restore, owed, edits>>,
           \/ purpose = "none" /\ UNCHANGED going
           \/ /\ purpose = "going" /\ going = None
              /\ \E to \in Pages : going' = [to |-> to, step |-> IF tasks' = tasks THEN "flush" ELSE "capture"]
    PROVE  PanelInv'
<1> USE DEF PanelInv
<1>1. session' = None
  BY DEF Panel!Finish
<1>2. /\ going' \in Ways \cup {None}
      /\ purpose = "going" => (going' # None /\ (tasks' # tasks => going'.step = "capture"))
  BY NoneIsNothing DEF Ways, PanelTyped
<1>3. CASE session # None /\ enabled /\ ~paused
  <2>1. PICK n \in Pages : n = session
    BY <1>3 DEF Sessions, PanelTyped
  <2>2. Panel!Start(n, FALSE, None, purpose)
    BY <1>3, <2>1 DEF Panel!Finish
  <2>3. PICK s \in Slots :
          /\ tasks[s] = None /\ tasks' \in [Slots -> Checkpoints \cup {None}]
          /\ tasks'[s] # None
          /\ tasks'[s].note = n /\ tasks'[s].forced = FALSE
          /\ tasks'[s].content = None /\ tasks'[s].purpose = purpose
          /\ \A t \in Slots \ {s} : tasks'[t] = tasks[t]
    <3>1. PICK forced \in BOOLEAN, content \in Panel!Content \cup {None} :
            forced = FALSE /\ content = None
      OBVIOUS
    <3>2. Panel!Start(n, forced, content, purpose)
      BY <2>2, <3>1
    <3> QED
      BY <3>1, <3>2, StartsOne
  <2>4. PanelTyped'
    BY <1>2, <2>3 DEF PanelTyped
  <2>5. \A t \in Slots, p \in {"going", "restore"} : For(t, p)' => For(t, p) \/ (t = s /\ p = purpose)
    BY <2>3 DEF For
  <2>6. \A t \in Slots \ {s}, p \in {"going", "restore"} : For(t, p)' <=> For(t, p)
    BY <2>3 DEF For
  <2>7. For(s, "restore")' = FALSE /\ (For(s, "going")' => purpose = "going")
    BY <2>3 DEF For
  <2>8. Awaited'
    <3>1. CASE purpose = "none"
      BY <2>3, <2>6, <2>7, <3>1 DEF Awaited, Panel!Now
    <3>2. CASE purpose = "going"
      <4>1. going = None /\ \A t \in Slots : ~For(t, "going")
        BY <3>2 DEF Awaited
      <4>2. tasks' # tasks
        BY <2>3
      <4> QED
        BY <1>2, <2>3, <2>6, <2>7, <3>2, <4>1, <4>2 DEF Awaited, Panel!Now
    <3> QED
      BY <3>1, <3>2
  <2>9. /\ \A m \in Pages, t \in Slots : Covers(t, m) => Covers(t, m)'
        /\ Covers(s, n)'
    BY <2>3 DEF Covers
  <2>10. Sessions'
    BY <1>1, <2>1, <2>9 DEF Sessions, Held, Panel!Now, PanelTyped
  <2> QED
    BY <2>4, <2>8, <2>10
<1>4. CASE ~(session # None /\ enabled /\ ~paused)
  <2>1. UNCHANGED tasks
    BY <1>4 DEF Panel!Finish
  <2>2. PanelTyped'
    BY <1>2, <2>1 DEF PanelTyped
  <2>3. \A t \in Slots, p \in {"going", "restore"} : For(t, p)' <=> For(t, p)
    BY <2>1 DEF For
  <2>4. Awaited'
    BY <1>2, <2>1, <2>3 DEF Awaited, Panel!Now
  <2>5. \A m \in Pages, t \in Slots : Covers(t, m) <=> Covers(t, m)'
    BY <2>1 DEF Covers
  <2>6. Sessions'
    BY <1>1, <1>4, <2>5 DEF Sessions, Held, Panel!Now, PanelTyped
  <2> QED
    BY <2>2, <2>4, <2>6
<1> QED
  BY <1>3, <1>4

LEMMA PanelStepKeeps == StaysInNote /\ PanelInv /\ [Panel!Next]_panelVars => PanelInv'
<1> SUFFICES ASSUME StaysInNote, PanelInv, [Panel!Next]_panelVars PROVE PanelInv'
  OBVIOUS
<1> USE DEF PanelInv
<1> DEFINE Work == UNCHANGED <<active, kept, paused, enabled, session, tasks, going, owed, edits>>
<1>1. ASSUME Work, UNCHANGED <<body, restore>>, items' \subseteq Panel!Version,
             picks' \subseteq Panel!Version, preview' \in Panel!Version \cup {None}
      PROVE  PanelInv'
  <2>1. \A s \in Slots : /\ \A n \in Pages : Covers(s, n)' <=> Covers(s, n)
                         /\ \A p \in {"going", "restore"} : For(s, p)' <=> For(s, p)
    BY <1>1 DEF Covers, For
  <2>2. \A n \in Pages : Held(n)' <=> Held(n)
    BY <1>1, <2>1 DEF Held, Panel!Now
  <2> QED
    BY <1>1, <2>1, <2>2 DEF PanelTyped, Awaited, Sessions, Panel!Now
<1>2. CASE \E s \in Slots : Panel!Capture(s) \/ Panel!Create(s)
  BY <1>2, CheckpointKeeps
<1>3. CASE Panel!Uploaded
  <2>1. /\ paused = TRUE /\ paused' = FALSE /\ owed = {}
        /\ UNCHANGED <<active, body, kept, enabled, session, tasks, going, items, picks, preview,
                       restore, owed, edits>>
    BY <1>3 DEF Panel!Uploaded, Panel!shown, Sessions
  <2>2. \A s \in Slots, p \in {"going", "restore"} : For(s, p)' <=> For(s, p)
    BY <2>1 DEF For
  <2> QED
    BY <2>1, <2>2 DEF PanelTyped, Awaited, Sessions, Panel!Now
<1>4. CASE Panel!SaveNow
  <2>1. /\ Panel!Start(active, TRUE, None, "none") /\ active \in Pages
        /\ UNCHANGED <<active, body, kept, paused, enabled, session, going, items, picks, preview,
                       restore, owed, edits>>
    BY <1>4 DEF Panel!SaveNow, Panel!store, Panel!shown, PanelTyped
  <2>2. /\ Awaited' /\ tasks' \in [Slots -> Checkpoints \cup {None}]
        /\ \A m \in Pages, s \in Slots : body'[m] = body[m] /\ Covers(s, m) => Covers(s, m)'
    BY <2>1, StartKeeps
  <2> QED
    BY <2>1, <2>2 DEF PanelTyped, Sessions, Held, Panel!Now
<1>5. CASE Panel!Type
  BY <1>5, EditKeeps DEF Panel!Type, Panel!Busy, Panel!store, Panel!shown
<1>6. CASE Panel!Rename
  <2>1. PICK n \in Pages : (n = active \/ "rename" \in Overlaps) /\ Panel!Changes(n)
    BY <1>6 DEF Panel!Rename
  <2>2. Panel!Changes(active)
    BY <2>1 DEF StaysInNote
  <2> QED
    BY <1>6, <2>2, EditKeeps DEF Panel!Rename, Panel!Busy, Panel!store, Panel!shown
<1>7. CASE Panel!IdleFires
  BY <1>7, FinishKeeps DEF Panel!IdleFires, Panel!store, Panel!shown
<1>8. CASE Panel!PeriodicFires
  <2>1. UNCHANGED <<active, body, kept, paused, enabled, session, going, items, picks, preview,
                    restore, owed, edits>>
    BY <1>8 DEF Panel!PeriodicFires, Panel!store, Panel!shown
  <2>2. active \in Pages /\ (session # None => session = active)
    BY DEF PanelTyped, Sessions
  <2>3. Panel!Start(active, FALSE, None, "interval") \/ UNCHANGED tasks
    BY <1>8, <2>2 DEF Panel!PeriodicFires
  <2>4. /\ Awaited' /\ tasks' \in [Slots -> Checkpoints \cup {None}]
        /\ \A m \in Pages, s \in Slots : body'[m] = body[m] /\ Covers(s, m) => Covers(s, m)'
    BY <2>1, <2>2, <2>3, StartKeeps
  <2> QED
    BY <2>1, <2>4 DEF PanelTyped, Sessions, Held, Panel!Now
<1>9. CASE Panel!Enable
  <2>1. /\ enabled' = ~enabled /\ paused' = FALSE
        /\ IF enabled THEN session' = None /\ owed' = {} ELSE UNCHANGED <<session, owed>>
        /\ UNCHANGED <<active, body, kept, tasks, going, items, picks, preview, restore, edits>>
    BY <1>9 DEF Panel!Enable, Panel!shown
  <2>2. \A s \in Slots, p \in {"going", "restore"} : For(s, p)' <=> For(s, p)
    BY <2>1 DEF For
  <2>3. owed' = {} /\ session' = None /\ enabled' \in BOOLEAN
    BY <2>1 DEF Sessions, PanelTyped
  <2> QED
    BY <2>1, <2>2, <2>3 DEF PanelTyped, Awaited, Sessions, Panel!Now
<1>10. CASE Panel!Navigate
  <2>1. PICK to \in Pages :
          /\ Panel!Finish("going")
          /\ going' = [to |-> to, step |-> IF tasks' = tasks THEN "flush" ELSE "capture"]
    BY <1>10 DEF Panel!Navigate
  <2> QED
    BY <1>10, <2>1, FinishKeeps DEF Panel!Navigate, Panel!Busy, Panel!store, Panel!shown
<1>11. CASE Panel!Arrive
  <2>1. /\ going # None /\ going.step = "flush" /\ going' = None
        /\ active' = going.to /\ session' = None /\ preview' = None /\ items' = {}
        /\ UNCHANGED <<body, kept, paused, enabled, tasks, picks, restore, owed, edits>>
    BY <1>11 DEF Panel!Arrive, Panel!Activate, Panel!store
  <2>2. session = None /\ active' \in Pages
    BY <2>1 DEF Sessions, PanelTyped, Ways
  <2>3. \A s \in Slots : ~For(s, "going")
    BY <2>1 DEF Awaited
  <2>4. \A s \in Slots : /\ \A n \in Pages : Covers(s, n)' <=> Covers(s, n)
                         /\ \A p \in {"going", "restore"} : For(s, p)' <=> For(s, p)
    BY <2>1 DEF Covers, For
  <2>5. PanelTyped' /\ Awaited'
    BY <2>1, <2>2, <2>3, <2>4 DEF PanelTyped, Awaited, Panel!Now
  <2>6. Sessions'
    BY <2>1, <2>2, <2>4 DEF Sessions, Held, Panel!Now, PanelTyped
  <2> QED
    BY <2>5, <2>6
<1>12. CASE Panel!CreateNote
  BY <1>12 DEF Panel!CreateNote, StaysInNote
<1>13. CASE \/ Panel!OpenList \/ Panel!Loaded \/ Panel!Pick \/ Panel!Picked \/ Panel!ExitPreview
            \/ UNCHANGED panelVars
  <2>1. Work /\ UNCHANGED <<body, restore>>
    BY <1>13 DEF Panel!OpenList, Panel!Loaded, Panel!Pick, Panel!Picked, Panel!ExitPreview,
                 Panel!UnchangedWork, Panel!store, panelVars
  <2>2. /\ items' \subseteq Panel!Version /\ picks' \subseteq Panel!Version
        /\ preview' \in Panel!Version \cup {None}
    BY <1>13 DEF Panel!OpenList, Panel!Loaded, Panel!Pick, Panel!Picked, Panel!ExitPreview,
                 panelVars, PanelTyped, Panel!Of
  <2> QED
    BY <1>1, <2>1, <2>2
<1>14. CASE Panel!Restore
  <2>1. /\ preview # None /\ going = None /\ restore = None
        /\ restore' = [note |-> active, content |-> preview.content, step |-> "checkpoint"]
        /\ Panel!Start(active, TRUE, None, "restore")
        /\ UNCHANGED <<active, body, kept, paused, enabled, session, going, items, picks, preview,
                       owed, edits>>
    BY <1>14 DEF Panel!Restore, Panel!Busy, Panel!store, Panel!shown
  <2>2. PICK n \in Pages : n = active
    BY DEF PanelTyped
  <2>3. /\ restore' \in Restores /\ restore' # None
        /\ restore'.note = n /\ restore'.step = "checkpoint"
    BY <2>1, <2>2, NoneIsNothing DEF Restores, PanelTyped, Panel!Version
  <2>4. PICK s \in Slots :
          /\ tasks[s] = None /\ tasks' \in [Slots -> Checkpoints \cup {None}]
          /\ tasks'[s] # None
          /\ tasks'[s].note = n /\ tasks'[s].forced = TRUE
          /\ tasks'[s].content = None /\ tasks'[s].purpose = "restore"
          /\ \A t \in Slots \ {s} : tasks'[t] = tasks[t]
    <3>1. PICK forced \in BOOLEAN, content \in Panel!Content \cup {None},
               purpose \in {"none", "interval", "going", "restore"} :
            forced = TRUE /\ content = None /\ purpose = "restore"
      OBVIOUS
    <3>2. Panel!Start(n, forced, content, purpose)
      BY <2>1, <2>2, <3>1
    <3>3. PICK s \in Slots :
            /\ tasks[s] = None /\ tasks' \in [Slots -> Checkpoints \cup {None}]
            /\ tasks'[s] # None
            /\ tasks'[s].note = n /\ tasks'[s].forced = forced
            /\ tasks'[s].content = content /\ tasks'[s].purpose = purpose
            /\ \A t \in Slots \ {s} : tasks'[t] = tasks[t]
      BY <3>2, StartsOne
    <3> QED
      BY <3>1, <3>3
  <2>5. \A t \in Slots : /\ For(t, "going")' <=> For(t, "going")
                         /\ For(t, "restore")' <=> t = s
                         /\ \A m \in Pages : Covers(t, m) => Covers(t, m)'
    BY <2>1, <2>4 DEF For, Covers, Awaited
  <2>6. PanelTyped' /\ Awaited'
    BY <2>1, <2>3, <2>4, <2>5 DEF PanelTyped, Awaited, Panel!Now
  <2>7. Sessions'
    BY <2>1, <2>5 DEF Sessions, Held, Panel!Now, PanelTyped
  <2> QED
    BY <2>6, <2>7
<1>15. CASE Panel!Restored
  <2>1. /\ restore # None /\ restore.step = "persist"
        /\ body' = [body EXCEPT ![restore.note] = restore.content]
        /\ owed' = owed \ {restore.note} /\ preview' = None /\ restore' = None
        /\ UNCHANGED <<active, kept, paused, enabled, session, tasks, going, items, picks, edits>>
    BY <1>15 DEF Panel!Restored, Panel!store
  <2>2. restore.note \in Pages /\ restore.content \in Panel!Content
    BY <2>1 DEF PanelTyped, Restores
  <2>3. /\ body' \in [Pages -> Panel!Content]
        /\ \A m \in Pages \ {restore.note} : body'[m] = body[m]
    BY <2>1, <2>2 DEF PanelTyped
  <2>4. \A s \in Slots : /\ For(s, "going")' <=> For(s, "going")
                         /\ ~For(s, "restore") /\ ~For(s, "restore")'
                         /\ \A m \in Pages \ {restore.note} : Covers(s, m) => Covers(s, m)'
    BY <2>1, <2>3 DEF For, Covers, Awaited
  <2>5. PanelTyped' /\ Awaited'
    BY <2>1, <2>3, <2>4 DEF PanelTyped, Awaited
  <2>6. Sessions'
    BY <2>1, <2>3, <2>4 DEF Sessions, Held, Panel!Now, PanelTyped
  <2> QED
    BY <2>5, <2>6
<1> QED
  BY <1>2, <1>3, <1>4, <1>5, <1>6, <1>7, <1>8, <1>9, <1>10, <1>11, <1>12, <1>13, <1>14, <1>15
     DEF Panel!Next

LEMMA PanelInitHolds == Panel!Init => PanelInv
<1> SUFFICES ASSUME Panel!Init PROVE PanelInv
  OBVIOUS
<1>1. \A n \in Pages : Panel!First(n) \in Panel!Content
  BY PartsAssumption DEF Panel!First, Panel!Content, PartsAssumption, Panel!PanelAssumption
<1>2. kept \subseteq Panel!Version
  BY <1>1 DEF Panel!Init, Panel!Version
<1>3. PanelTyped
  <2>1. 0 \in 0 .. MaxEdits
    BY PartsAssumption DEF PartsAssumption, Panel!PanelAssumption
  <2> QED
    BY <1>1, <1>2, <2>1 DEF Panel!Init, PanelTyped
<1>4. Awaited /\ Sessions
  BY DEF Panel!Init, Awaited, Sessions, For
<1> QED
  BY <1>3, <1>4 DEF PanelInv

LEMMA PanelInvIsSafe == PanelInv => Panel!SessionCovered
  BY NoneIsNothing DEF PanelInv, PanelTyped, Sessions, Held, Covers, Panel!SessionCovered

-----------------------------------------------------------------------------
(***************************************************************************)
(* The three together.                                                     *)
(***************************************************************************)
LEMMA StepsOfParts ==
    [RootNext]_everything => [Next]_vars /\ [Queue!Next]_queueVars /\ [Panel!Next]_panelVars
<1>1. ASSUME ServerStep PROVE [Next]_vars /\ UNCHANGED queueVars /\ UNCHANGED panelVars
  BY <1>1 DEF ServerStep, Only
<1>2. ASSUME QueueStep PROVE UNCHANGED vars /\ [Queue!Next]_queueVars /\ UNCHANGED panelVars
  BY <1>2 DEF QueueStep, Only
<1>3. ASSUME PanelStep PROVE UNCHANGED vars /\ UNCHANGED queueVars /\ [Panel!Next]_panelVars
  BY <1>3 DEF PanelStep, Only
<1>4. UNCHANGED everything => UNCHANGED vars /\ UNCHANGED queueVars /\ UNCHANGED panelVars
  BY DEF everything
<1> QED
  BY <1>1, <1>2, <1>3, <1>4, Zenon DEF RootNext

(* What left the history stays gone, nothing that was captured is dropped   *)
(* from a browser's queue, labels settle, what is unwanted stays away, and  *)
(* what was written in a session that ended is a version: for any number of *)
(* versions, notes, labels, checkpoints, timers, lost answers and edits, as *)
(* long as the user stays in the note that is edited until it is left.      *)
THEOREM HistoryIsSafe == StaysInNote => (RootSpec => []HistorySafe)
<1> SUFFICES ASSUME StaysInNote PROVE RootSpec => []HistorySafe
  OBVIOUS
<1>1. RootInit => HistoryInv /\ QueueInv /\ PanelInv
  BY HistoryInit, QueueInitHolds, PanelInitHolds DEF RootInit
<1>2. HistoryInv /\ QueueInv /\ PanelInv /\ [RootNext]_everything
        => (HistoryInv /\ QueueInv /\ PanelInv)'
  BY StepsOfParts, HistoryStep, QueueStepKeeps, PanelStepKeeps
<1>3. HistoryInv /\ QueueInv /\ PanelInv => HistorySafe
  BY QueueInvIsSafe, PanelInvIsSafe DEF HistorySafe, HistoryInv
<1> QED
  BY <1>1, <1>2, <1>3, PTL DEF RootSpec

(* A note is overwritten by one of its versions only after what it says has *)
(* become a version, whatever is edited and captured meanwhile.             *)
THEOREM RestoresAreCheckpointed == StaysInNote => (RootSpec => Panel!CheckpointFirst)
<1> SUFFICES ASSUME StaysInNote PROVE RootSpec => Panel!CheckpointFirst
  OBVIOUS
<1>1. ASSUME PanelInv, [Panel!Next]_panelVars, NEW n \in Pages,
             restore # None, restore.note = n, restore' = None, body'[n] # body[n]
      PROVE  Panel!Now(n) \in kept
  <2>1. CASE Panel!Restored
    BY <1>1, <2>1 DEF Panel!Restored, PanelInv, Awaited
  <2>2. CASE UNCHANGED body
    BY <1>1, <2>2
  <2>3. CASE Panel!Type \/ Panel!Rename
    BY <1>1, <2>3 DEF Panel!Type, Panel!Rename, Panel!Busy
  <2>4. CASE \E s \in Slots : Panel!Capture(s) \/ Panel!Create(s)
    BY <2>2, <2>4 DEF Panel!Capture, Panel!Create
  <2>5. CASE \/ Panel!Uploaded \/ Panel!SaveNow \/ Panel!IdleFires \/ Panel!PeriodicFires
             \/ Panel!Enable \/ Panel!Navigate \/ Panel!Arrive \/ Panel!CreateNote
             \/ Panel!OpenList \/ Panel!Loaded \/ Panel!Pick \/ Panel!Picked \/ Panel!ExitPreview
             \/ Panel!Restore \/ UNCHANGED panelVars
    BY <2>2, <2>5
       DEF Panel!Uploaded, Panel!SaveNow, Panel!IdleFires, Panel!PeriodicFires, Panel!Enable,
           Panel!Navigate, Panel!Arrive, Panel!CreateNote, Panel!Activate, Panel!OpenList,
           Panel!Loaded, Panel!Pick, Panel!Picked, Panel!ExitPreview, Panel!Restore, panelVars
  <2> QED
    BY <1>1, <2>1, <2>3, <2>4, <2>5 DEF Panel!Next
<1>2. RootInit => PanelInv
  BY PanelInitHolds DEF RootInit
<1>3. PanelInv /\ [RootNext]_everything => PanelInv'
  BY StepsOfParts, PanelStepKeeps
<1>4. PanelInv /\ [RootNext]_everything =>
        [ \A n \in Pages :
            (restore # None /\ restore.note = n /\ restore' = None /\ body'[n] # body[n])
              => Panel!Now(n) \in kept ]_Panel!vars
  BY <1>1, StepsOfParts
<1> QED
  BY <1>2, <1>3, <1>4, PTL DEF RootSpec, Panel!CheckpointFirst
===============================================================================
