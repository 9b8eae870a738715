------------------------------ MODULE NoteHistory ------------------------------
(***************************************************************************)
(* The server's note history for one user: server/history.ts,              *)
(* server/history/routes.ts, the history budget of server/storageQuota.ts, *)
(* the trash periods of server/sync/objectStore.ts and server/trash.ts and *)
(* the operational cleanup of server/storageMaintenance.ts.                *)
(*                                                                         *)
(* A handler runs to its end without yielding (better-sqlite3), so each is *)
(* one step.  A snapshot is captured once, by a client that draws its      *)
(* operation identifier at that moment, and may be uploaded any number of  *)
(* times, at any later time.                                               *)
(***************************************************************************)
EXTENDS Integers, FiniteSets, FiniteSetsExt

CONSTANTS
    Snapshots,      \* history identifiers, ordered as SQLite orders history_id
    Notes,
    NoteOf,         \* the note a snapshot is of
    Manual,         \* snapshots of kind 'manual': uploaded protected
    Size,           \* bytes of a snapshot
    Budgets,        \* history budgets the user may set
    Retentions,     \* history_retention_days the user may set
    TotalQuota,     \* what the storage quota leaves for history
    Day, Hour,      \* lengths in ticks of the two kinds of bucket
    Week,           \* age from which snapshots are thinned by day
    Lifetime,       \* SYNC_LIFETIME_MS
    MaxTime,        \* bound on the clock
    Habits          \* bound: the ways of using the history that behaviours keep to

ASSUME SnapshotsAssumption ==
    /\ IsFiniteSet(Snapshots) /\ Snapshots \subseteq Nat
    /\ NoteOf \in [Snapshots -> Notes]
    /\ Manual \subseteq Snapshots
    /\ Size \in [Snapshots -> Nat \ {0}]
ASSUME SettingsAssumption ==
    /\ Budgets \subseteq Nat /\ Budgets # {}
    /\ Retentions \subseteq Nat \ {0} /\ Retentions # {}
    /\ TotalQuota \in Nat
ASSUME TimesAssumption ==
    /\ Day \in Nat \ {0} /\ Hour \in Nat \ {0} /\ Week \in Nat
    /\ Lifetime \in Nat \ {0} /\ MaxTime \in Nat
ASSUME HabitsAssumption == Habits \subseteq SUBSET {"label", "delete", "clear", "settings", "trash"}

Never == -1         \* a time that has not come

VARIABLES
    now,            \* the server's clock
    note,           \* objects.deleted of a note, or that it is purged
    trashedAt,      \* objects.trashed_at and the open trash period
    periods,        \* closed rows of note_trash_periods
    captured,       \* when a client captured a snapshot
    rows,           \* table note_history
    receipts,       \* sync_receipts.created_at of a snapshot's operation
    accountCleared, \* users.history_cleared_before
    noteCleared,    \* table note_history_clear_markers
    budget,         \* users.history_quota_bytes
    retention,      \* users.history_retention_days
    left,           \* history: snapshots that have been on the server and left
    asleep,         \* history: time a snapshot's note was in the trash since its capture
    habits          \* what the user does besides capturing and uploading

settings == <<budget, retention>>
clears == <<accountCleared, noteCleared>>
trash == <<note, trashedAt, periods>>
vars == <<now, trash, captured, rows, receipts, clears, settings, left, asleep, habits>>

Row == [retentionAt : Int, protected : BOOLEAN, bytes : Nat]
NoRow == [retentionAt |-> Never, protected |-> FALSE, bytes |-> 0]

Later(a, b) == IF a > b THEN a ELSE b

Stored(table) == {s \in Snapshots : table[s].bytes > 0}
Of(n) == {s \in Snapshots : NoteOf[s] = n}
Bytes(set, table) == MapThenSumSet(LAMBDA s : table[s].bytes, set)

Init ==
    /\ now = 0
    /\ note = [n \in Notes |-> "live"]
    /\ trashedAt = [n \in Notes |-> Never]
    /\ periods = [n \in Notes |-> {}]
    /\ captured = [s \in Snapshots |-> Never]
    /\ rows = [s \in Snapshots |-> NoRow]
    /\ receipts = [s \in Snapshots |-> Never]
    /\ accountCleared = Never
    /\ noteCleared = [n \in Notes |-> Never]
    /\ budget \in Budgets
    /\ retention \in Retentions
    /\ left = {}
    /\ asleep = [s \in Snapshots |-> 0]
    /\ habits \in Habits

-----------------------------------------------------------------------------
(***************************************************************************)
(* Automatic removal.  cleanupUserHistory drops what the retention has     *)
(* ended and keeps one version per hour, later per day, of what is older   *)
(* than a day; reclaimHistorySpace drops the oldest until a new one fits.  *)
(* Neither touches manual or protected versions or those of a note in the  *)
(* trash.                                                                  *)
(***************************************************************************)
(* Fault: the trash does not stop the rotation. *)
RotatingFault(s) == ~rows[s].protected /\ s \notin Manual

Rotating(s) ==
    ~rows[s].protected /\ s \notin Manual /\ note[NoteOf[s]] = "live"

Outlived(s) == rows[s].retentionAt <= now - retention

Thinnable(s) == Rotating(s) /\ ~Outlived(s) /\ rows[s].retentionAt < now - Day

(* Dates before the first tick never occur: retentionAt is at least the    *)
(* capture time.                                                           *)
Bucket(s) ==
    IF now - rows[s].retentionAt < Week
      THEN <<NoteOf[s], "hour", rows[s].retentionAt \div Hour>>
      ELSE <<NoteOf[s], "day", rows[s].retentionAt \div Day>>

Before(a, b) ==
    \/ rows[a].retentionAt < rows[b].retentionAt
    \/ rows[a].retentionAt = rows[b].retentionAt /\ a < b

Thinned(s) ==
    /\ Thinnable(s)
    /\ \E t \in Stored(rows) : Thinnable(t) /\ Bucket(t) = Bucket(s) /\ Before(s, t)

Rotated == {s \in Stored(rows) : (Rotating(s) /\ Outlived(s)) \/ Thinned(s)}

Without(set) == [s \in Snapshots |-> IF s \in set THEN NoRow ELSE rows[s]]

(* The oldest of the reclaimable versions, as few of them as make room for *)
(* incoming bytes besides the kept ones; no member if even all do not.     *)
Reclaims(kept, incoming, except) ==
    LET eligible == {s \in kept \ {except} : Rotating(s)}
        fits(set) == Bytes(kept \ set, rows) + incoming <= budget
        oldest(set) == \A s \in set, t \in eligible \ set : Before(s, t)
    IN  {set \in SUBSET eligible :
           /\ oldest(set) /\ fits(set)
           /\ \A fewer \in SUBSET set : oldest(fewer) /\ fits(fewer) => fewer = set}

(* admitHistoryGrowth: the budget first, then the storage quota; a refusal *)
(* rolls the reclamation back.  Growth of zero is always admitted.         *)
(* Fault: history is reclaimed for the quota although it does not help. *)
AdmissionFault(kept, incoming, except) ==
    IF incoming = 0 THEN {{}}
    ELSE {set \in SUBSET {s \in kept \ {except} : Rotating(s)} :
            Bytes(kept \ set, rows) + incoming <= TotalQuota}

Admission(kept, incoming, except) ==
    IF incoming = 0 THEN {{}}
    ELSE {set \in Reclaims(kept, incoming, except) :
            Bytes(kept \ set, rows) + incoming <= TotalQuota}

-----------------------------------------------------------------------------
(* createSnapshot on some client: time and operation identifier are drawn. *)
Capture(s) ==
    /\ captured[s] = Never
    /\ captured' = [captured EXCEPT ![s] = now]
    /\ UNCHANGED <<now, trash, rows, receipts, clears, settings, left, asleep, habits>>

Expired(s) == captured[s] <= now - Lifetime

(* Fault: clearing the account forgets what the marker of the note said. *)
BoundaryFault(n) == noteCleared[n]

Boundary(n) == Later(accountCleared, noteCleared[n])

(* The time the note spent in the trash between the capture and now, as far *)
(* as its closed periods tell.                                              *)
Paused(s) ==
    MapThenSumSet(LAMBDA p : Later(0, p.restored - Later(p.entered, captured[s])),
                  periods[NoteOf[s]])

(* POST /notes/:id/history/:historyId of a snapshot without receipt.  The   *)
(* cleanup it starts with also happens when it then refuses (Cleanup).      *)
UploadSnapshot(s) ==
    LET protected == s \in Manual
        kept == Stored(rows) \ Rotated
    IN  /\ captured[s] # Never /\ ~Expired(s)
        /\ receipts[s] = Never
        /\ note[NoteOf[s]] # "purged"
        /\ s \notin kept
        /\ ~protected => captured[s] > Boundary(NoteOf[s])
        /\ \E reclaimed \in Admission(kept, Size[s], s) :
             /\ rows' = [Without(Rotated \cup reclaimed) EXCEPT ![s] =
                           [retentionAt |-> captured[s] + Paused(s),
                            protected |-> protected, bytes |-> Size[s]]]
             /\ left' = left \cup Rotated \cup reclaimed
        /\ receipts' = [receipts EXCEPT ![s] = now]
        /\ UNCHANGED <<now, trash, captured, clears, settings, asleep, habits>>

(* PATCH: a new name may need more bytes; protection may change.            *)
LabelSnapshot(s, protected, growth) ==
    /\ s \in Stored(rows)
    /\ \E reclaimed \in Admission(Stored(rows), growth, s) :
         /\ rows' = [Without(reclaimed) EXCEPT
                       ![s] = [rows[s] EXCEPT !.protected = protected, !.bytes = @ + growth]]
         /\ left' = left \cup reclaimed
    /\ UNCHANGED <<now, trash, captured, receipts, clears, settings, asleep, habits>>

DeleteSnapshot(s) ==
    /\ s \in Stored(rows) /\ ~rows[s].protected
    /\ rows' = Without({s})
    /\ left' = left \cup {s}
    /\ UNCHANGED <<now, trash, captured, receipts, clears, settings, asleep, habits>>

Unprotected(set) == {s \in set \cap Stored(rows) : ~rows[s].protected}

ClearNote(n) ==
    /\ note[n] # "purged"
    /\ noteCleared' = [noteCleared EXCEPT ![n] = now]
    /\ rows' = Without(Unprotected(Of(n)))
    /\ left' = left \cup Unprotected(Of(n))
    /\ UNCHANGED <<now, trash, captured, receipts, accountCleared, settings, asleep, habits>>

ClearAccount ==
    /\ accountCleared' = now
    /\ noteCleared' = [n \in Notes |-> Never]
    /\ rows' = Without(Unprotected(Snapshots))
    /\ left' = left \cup Unprotected(Snapshots)
    /\ UNCHANGED <<now, trash, captured, receipts, settings, asleep, habits>>

(* Reading the settings, the catalogue, or the hourly job.                  *)
Cleanup ==
    /\ rows' = Without(Rotated)
    /\ left' = left \cup Rotated
    /\ UNCHANGED <<now, trash, captured, receipts, clears, settings, asleep, habits>>

(* PATCH /account/note-history-settings; the cleanup of the answer under    *)
(* the new settings is a step of its own that reading them repeats.         *)
ChangeSettings(bytes, days) ==
    /\ budget' = bytes /\ retention' = days
    /\ UNCHANGED <<now, trash, captured, rows, receipts, clears, left, asleep, habits>>

-----------------------------------------------------------------------------
(***************************************************************************)
(* The trash.  Its time does not count towards a snapshot's age.           *)
(***************************************************************************)
TrashNote(n) ==
    /\ note[n] = "live"
    /\ note' = [note EXCEPT ![n] = "trashed"]
    /\ trashedAt' = [trashedAt EXCEPT ![n] = now]
    /\ UNCHANGED <<now, periods, captured, rows, receipts, clears, settings, left, asleep, habits>>

(* Fault: a stay counts from its beginning, captured or not. *)
StayFault(s) == now - trashedAt[NoteOf[s]]

Stay(s) == Later(0, now - Later(trashedAt[NoteOf[s]], captured[s]))

RestoreNote(n) ==
    /\ note[n] = "trashed"
    /\ note' = [note EXCEPT ![n] = "live"]
    /\ rows' = [s \in Snapshots |->
                  IF s \in Of(n) \cap Stored(rows)
                    THEN [rows[s] EXCEPT !.retentionAt = @ + Stay(s)] ELSE rows[s]]
    /\ periods' = [periods EXCEPT ![n] = @ \cup {[entered |-> trashedAt[n], restored |-> now]}]
    /\ trashedAt' = [trashedAt EXCEPT ![n] = Never]
    /\ UNCHANGED <<now, captured, receipts, clears, settings, left, asleep, habits>>

(* removeObject takes every row of the note with it, protected or not.      *)
PurgeNote(n) ==
    /\ note[n] = "trashed"
    /\ note' = [note EXCEPT ![n] = "purged"]
    /\ trashedAt' = [trashedAt EXCEPT ![n] = Never]
    /\ periods' = [periods EXCEPT ![n] = {}]
    /\ rows' = Without(Of(n))
    /\ left' = left \cup (Of(n) \cap Stored(rows))
    /\ noteCleared' = [noteCleared EXCEPT ![n] = Never]
    /\ UNCHANGED <<now, captured, receipts, accountCleared, settings, asleep, habits>>

(* cleanupOperationalRecords: periods and receipts go after ninety days.    *)
OldPeriods(n) == {p \in periods[n] : p.restored <= now - Lifetime}

CleanupRecords ==
    /\ periods' = [n \in Notes |-> periods[n] \ OldPeriods(n)]
    /\ receipts' = [s \in Snapshots |->
                      IF receipts[s] <= now - Lifetime THEN Never ELSE receipts[s]]
    /\ UNCHANGED <<now, note, trashedAt, captured, rows, clears, settings, left, asleep, habits>>

Tick ==
    /\ now < MaxTime
    /\ now' = now + 1
    /\ asleep' = [s \in Snapshots |->
                    IF captured[s] # Never /\ note[NoteOf[s]] = "trashed"
                      THEN asleep[s] + 1 ELSE asleep[s]]
    /\ UNCHANGED <<trash, captured, rows, receipts, clears, settings, left, habits>>

-----------------------------------------------------------------------------
ByUser(n) ==
    \/ "delete" \in habits /\ \E s \in Of(n) : DeleteSnapshot(s)
    \/ "clear" \in habits /\ ClearNote(n)
    \/ "trash" \in habits /\ (TrashNote(n) \/ RestoreNote(n) \/ PurgeNote(n))

Next ==
    \/ \E s \in Snapshots : Capture(s) \/ UploadSnapshot(s)
    \/ /\ "label" \in habits
       /\ \E s \in Snapshots, protected \in BOOLEAN, growth \in {0, 1} :
            rows[s].bytes <= Size[s] /\ LabelSnapshot(s, protected, growth)
    \/ \E n \in Notes : ByUser(n)
    \/ "clear" \in habits /\ ClearAccount
    \/ Cleanup
    \/ "settings" \in habits /\ \E bytes \in Budgets, days \in Retentions : ChangeSettings(bytes, days)
    \/ CleanupRecords
    \/ Tick

Spec == Init /\ [][Next]_vars

-----------------------------------------------------------------------------
(***************************************************************************)
(* Properties.                                                             *)
(***************************************************************************)
HistoryTypeOK ==
    /\ now \in Nat
    /\ note \in [Notes -> {"live", "trashed", "purged"}]
    /\ trashedAt \in [Notes -> Nat \cup {Never}]
    /\ \A n \in Notes : note[n] = "trashed" <=> trashedAt[n] # Never
    /\ periods \in [Notes -> SUBSET [entered : Nat, restored : Nat]]
    /\ captured \in [Snapshots -> Nat \cup {Never}]
    /\ rows \in [Snapshots -> Row]
    /\ \A s \in Stored(rows) : captured[s] # Never /\ rows[s].retentionAt >= captured[s]
    /\ receipts \in [Snapshots -> Nat \cup {Never}]
    /\ accountCleared \in Nat \cup {Never}
    /\ noteCleared \in [Notes -> Nat \cup {Never}]
    /\ budget \in Nat /\ retention \in Nat
    /\ left \subseteq Snapshots
    /\ asleep \in [Snapshots -> Nat]
    /\ habits \in Habits

(* A snapshot that was deleted, cleared, rotated or reclaimed never comes  *)
(* back through a late or repeated upload: its receipt is kept until its   *)
(* operation identifier has expired (the POST handler's receipt lookup     *)
(* against cleanupSyncMetadata).                                           *)
GoneStaysGone == left \cap Stored(rows) = {}

(* The age that rotation and retention go by is the time since the capture *)
(* without the time the note was in the trash, whether the snapshot was    *)
(* uploaded before, during or after that stay and although the periods are *)
(* collected (restore in writeObject, pause in the POST handler).          *)
AgeExcludesTrash ==
    \A s \in Stored(rows) :
      rows[s].retentionAt =
        captured[s] + asleep[s]
          - (IF note[NoteOf[s]] = "trashed"
               THEN now - Later(trashedAt[NoteOf[s]], captured[s]) ELSE 0)

(* Manual and protected versions, and those of a note in the trash, leave  *)
(* only because the user deletes, clears or purges (docs/system-design.md, *)
(* history and data removal): no upload, label, settings or cleanup step   *)
(* takes them, however short the budget is.                                *)
KeptUntilTheUserActs ==
    [][\A s \in Stored(rows) \ Stored(rows') :
         \/ s \notin Manual /\ ~rows[s].protected /\ note[NoteOf[s]] = "live"
         \/ ByUser(NoteOf[s]) \/ ClearAccount]_vars

(* Rotation leaves no gap: a version that goes before its retention ends   *)
(* leaves a newer one of the same hour or day, unless the budget forced it *)
(* out.                                                                    *)
RotationKeepsOne ==
    [][Cleanup => \A s \in Stored(rows) \ Stored(rows') :
         \/ Outlived(s)
         \/ \E t \in Stored(rows') : Bucket(t) = Bucket(s) /\ Before(s, t)]_vars

(* History grows only within the budget, and grows only by what was asked: *)
(* after a growing step the whole history fits the budget in force.        *)
GrowsWithinBudget ==
    [][Bytes(Stored(rows'), rows') > Bytes(Stored(rows), rows)
         => Bytes(Stored(rows'), rows') <= budget]_vars

(* Nothing unprotected that was captured before a clearing enters the      *)
(* history after it, neither by a late upload nor after the account-wide   *)
(* clearing replaced the markers of the notes.                             *)
ClearedStaysClear ==
    [][\A s \in Stored(rows') \ Stored(rows) :
         ~rows'[s].protected => \A c \in {accountCleared, noteCleared[NoteOf[s]]} :
                                  captured[s] > c]_vars
===============================================================================
