------------------------------ MODULE MCStorage -------------------------------
(*****************************************************************************)
(* What the server keeps its database with: the lock, migrations, backups    *)
(* and restores of the data directory (StorageMaintenance), the rotation of  *)
(* backups (BackupRetention), and how a client comes back from a restored    *)
(* timeline (TimelineRecovery). A behaviour is about one of them, its part.  *)
(*****************************************************************************)
EXTENDS StorageMaintenance, TLC, FiniteSetTheorems, TLAPS

CONSTANTS Parts,
          Jobs, Daily, Weekly, Monthly,    \* as in BackupRetention
          DaysOfWeek, DaysOfMonth, Days, PerDay, MaxTampers,
          MaxDeaths,                       \* its MaxCrashes
          Objects, Later, MaxEpoch,        \* as in TimelineRecovery
          MaxPurges, MaxLapses, LateEdits,
          MaxMade                          \* its MaxEdits

VARIABLES part,
          clock, files, job, marks, removed, tampers, died,
          srv, seq, head, epoch, saved, row, out, copies, cursor, known, lease,
          run, made, purges, lapses

Calm == INSTANCE StorageMaintenance WITH
    MaxStarts <- MaxStarts + 1, MaxCrashes <- 0
Retention == INSTANCE BackupRetention WITH MaxCrashes <- MaxDeaths, crashes <- died
Timeline == INSTANCE TimelineRecovery WITH MaxEdits <- MaxMade

ASSUME RecoveryConstants ==
    /\ Retention!RetentionConstants
    /\ Timeline!TimelineConstants

retentionVars == <<clock, files, job, marks, removed, tampers, died>>
timelineVars == <<srv, seq, head, epoch, saved, row, out, copies, cursor,
                  known, lease, run, made, purges, lapses>>
everything == <<part, vars, retentionVars, timelineVars>>

(* Only component p moves; the others stay where they began.               *)
Only(p) ==
    /\ part = p /\ UNCHANGED part
    /\ IF p \in {"storage", "calm"} THEN TRUE ELSE UNCHANGED vars
    /\ IF p = "retention" THEN TRUE ELSE UNCHANGED retentionVars
    /\ IF p = "timeline" THEN TRUE ELSE UNCHANGED timelineVars

RootInit ==
    /\ part \in Parts /\ Init /\ Retention!Init /\ Timeline!Init
    /\ part # "storage" => main.schema = 5

StorageStep == Only("storage") /\ Next
CalmStep == Only("calm") /\ Calm!Next
RetentionStep == Only("retention") /\ Retention!Next
TimelineStep == Only("timeline") /\ Timeline!Next

RootNext == StorageStep \/ CalmStep \/ RetentionStep \/ TimelineStep

RootSpec == RootInit /\ [][RootNext]_everything

(*****************************************************************************)
(* BackupRetention: a rotation keeps the newest backups and removes only its *)
(* own (backupRetention.ts). TimelineRecovery: a device at rest shows what   *)
(* the server has (syncReconciliation.ts).                                   *)
(*****************************************************************************)
RecoverySafe == Retention!RetentionSafe /\ Timeline!TimelineSafe

(*****************************************************************************)
(* TimelineRecovery: text that waits for its upload is uploaded, or is in a  *)
(* copy. (syncReconciliation.ts)                                             *)
(*****************************************************************************)
UnsentKept == Timeline!UnsentKept

-----------------------------------------------------------------------------
(***************************************************************************)
(* What is kept when processes take the lock one at a                      *)
(* time (AtOnce = 1), for any number of processes, starts, crashes and     *)
(* edits, and with process identifiers used again.  When two take it at    *)
(* the same time OneHolder fails (README.md), and with it the rest.        *)
(***************************************************************************)

(* A process between the start and the end of acquireStorageLock. *)
TakingStages == {"try", "read", "dead", "again", "made"}
HoldingStages == {"held", "run", "migrate", "staged", "kept", "swap"}

ProcTyped ==
    \A p \in Processes :
      /\ {"at", "kind", "pid", "db", "old", "why"} \subseteq DOMAIN proc[p]
      /\ proc[p].at \in {"off"} \cup TakingStages \cup HoldingStages
      /\ proc[p].at # "off" => proc[p].pid \in Pids
      /\ proc[p].db \in DbType /\ proc[p].old \in DbType

TablesTyped ==
    /\ proc = [p \in Processes |-> proc[p]]
    /\ lock.by \in Processes \cup {"nobody"} /\ lock.pid \in Pids \cup {0}
    /\ {"by", "pid"} = DOMAIN lock
    /\ {main, pre} \cup online \cup aside \subseteq DbType
    /\ copied \in BOOLEAN
    /\ epochs \in Nat /\ edits \in Nat
    /\ DOMAIN served \subseteq 0..epochs

(* One process at a time takes the lock, one at a time has it, the file     *)
(* names the one that has it, and nobody has it when it is taken over.      *)
LockInv ==
    /\ \A p, q \in Taking : p = q
    /\ \A p, q \in Holders : p = q
    /\ \A p \in Holders : lock.pid = proc[p].pid
    /\ \A p \in Processes : proc[p].at \in {"dead", "again", "made"} => Holders = {}
    /\ \A p \in Processes : proc[p].at = "made" => lock.by = p

(* What the holder's place in its work says of the database. *)
WorkInv ==
    \A p \in Processes :
      /\ proc[p].at \in {"run", "migrate"} => proc[p].kind = "service"
      /\ proc[p].at \in {"staged", "swap"} => proc[p].kind = "restore"
      /\ proc[p].at = "run" => main.schema = SchemaVersion
      /\ proc[p].at = "migrate" => main.schema \in Supported \ {SchemaVersion}
      /\ proc[p].at = "swap" => main = NoDb
      /\ proc[p].at \in TakingStages \cup {"held", "staged"} => proc[p].old = NoDb

(* A database that may be shown under its epoch holds what was shown under  *)
(* it; an epoch that was just drawn was never shown.                        *)
Continues(db) ==
    db.schema >= 3 /\ db.epoch \in DOMAIN served => served[db.epoch] \subseteq db.edits

EpochInv ==
    /\ ~copied => Continues(main)
    /\ \A p \in Processes :
         /\ proc[p].at # "off" /\ proc[p].kind = "service" => ~copied
         /\ proc[p].at \in {"staged", "kept", "swap"} /\ proc[p].kind = "restore"
              => (proc[p].db.schema >= 3 => proc[p].db.epoch \notin DOMAIN served)
         /\ proc[p].at = "swap" /\ ~copied => Continues(proc[p].old)

StorageInv == TablesTyped /\ ProcTyped /\ LockInv /\ WorkInv /\ EpochInv /\ EditsKept

-----------------------------------------------------------------------------
LEMMA AliveStages ==
    ASSUME ProcTyped
    PROVE  \A p \in Processes :
             /\ p \in Taking <=> proc[p].at \in TakingStages
             /\ p \in Holders <=> proc[p].at \in HoldingStages
             /\ p \in Alive <=> proc[p].at # "off"
  BY DEF ProcTyped, Taking, Holders, Alive, TakingStages, HoldingStages

LEMMA NobodyTakes ==
    ASSUME Cardinality(Taking) < AtOnce, AtOnce = 1
    PROVE  Taking = {}
<1>1. IsFiniteSet(Taking)
  BY FS_Subset, StorageConstants DEF StorageConstants, Taking, Alive
<1>2. Cardinality(Taking) \in Nat
  BY <1>1, FS_CardinalityType
<1> QED
  BY <1>1, <1>2, FS_EmptySet

LEMMA NoDbTyped ==
    ASSUME epochs \in Nat
    PROVE  NoDb \in DbType /\ NoDb.schema = 0 /\ NoDb.edits = {} /\ Continues(NoDb)
  BY DEF NoDb, DbType, Continues

(* The operations on a database. *)
LEMMA DbFields ==
    ASSUME NEW db \in DbType
    PROVE  /\ db.schema \in Nat /\ db.epoch \in 0..epochs /\ db.edits \subseteq 1..edits
           /\ db.schema \in {0} \cup Supported
  BY DEF DbType, Supported

LEMMA RotatedDb ==
    ASSUME NEW db \in DbType, epochs \in Nat
    PROVE  /\ Rotated(db) \in [schema : {0} \cup Supported, epoch : 0..(epochs + 1), edits : SUBSET (1..edits)]
           /\ Rotated(db).schema = db.schema /\ Rotated(db).epoch = epochs + 1
           /\ Rotated(db).edits = db.edits
  BY DEF DbType, Rotated

LEMMA DbMonotone ==
    ASSUME epochs \in Nat, edits \in Nat, epochs' \in Nat, edits' \in Nat,
           epochs <= epochs', edits <= edits', NEW db \in DbType
    PROVE  db \in DbType'
  BY DEF DbType

Files == {main, pre} \cup online \cup aside

LEMMA FilesKeep ==
    ASSUME EditsKept, edits \in Nat,
           \A db \in Files : \E kept \in Files' : db.edits \subseteq kept.edits,
           \/ edits' = edits
           \/ edits' = edits + 1 /\ \E kept \in Files' : edits + 1 \in kept.edits
    PROVE  EditsKept'
<1>1. \A e \in 1..edits : \E db \in Files : e \in db.edits
  BY DEF EditsKept, Files
<1>2. \A e \in 1..edits' : \E kept \in Files' : e \in kept.edits
  <2>1. \A e \in 1..edits' : e \in 1..edits \/ e = edits'
    OBVIOUS
  <2> QED
    BY <1>1, <2>1
<1> QED
  BY <1>2 DEF EditsKept, Files

-----------------------------------------------------------------------------
(***************************************************************************)
(* A step of the process that has the lock: the others are not at work,    *)
(* so what must hold of a process's work is to be shown of this one alone. *)
(***************************************************************************)
Settles(p) ==
    /\ proc' = [q \in Processes |-> proc'[q]]
    /\ \A q \in Processes \ {p} : proc'[q] = proc[q]
    /\ {"at", "kind", "pid", "db", "old", "why"} \subseteq DOMAIN proc'[p]
    /\ \/ /\ proc'[p].at \in HoldingStages /\ lock' = lock
          /\ proc'[p].pid = proc[p].pid /\ proc'[p].kind = proc[p].kind
       \/ proc'[p].at = "off" /\ lock' \in {lock, NoLock}
    /\ proc'[p].db \in DbType' /\ proc'[p].old \in DbType'
    /\ epochs' \in Nat /\ epochs <= epochs' /\ edits' \in Nat /\ edits <= edits'
    /\ {main', pre'} \cup online' \cup aside' \subseteq DbType'
    /\ copied' \in {copied, FALSE}
    /\ DOMAIN served' \subseteq 0..epochs'
    /\ ~copied' => Continues(main)'
    /\ EditsKept'

Works(p) ==
    /\ proc[p].at \in {"run", "migrate"} => proc[p].kind = "service"
    /\ proc[p].at \in {"staged", "swap"} => proc[p].kind = "restore"
    /\ proc[p].at = "run" => main.schema = SchemaVersion
    /\ proc[p].at = "migrate" => main.schema \in Supported \ {SchemaVersion}
    /\ proc[p].at = "swap" => main = NoDb
    /\ proc[p].at \in {"held", "staged"} => proc[p].old = NoDb
    /\ proc[p].at \in {"staged", "kept", "swap"} /\ proc[p].kind = "restore"
         => (proc[p].db.schema >= 3 => proc[p].db.epoch \notin DOMAIN served)
    /\ proc[p].at = "swap" /\ ~copied => Continues(proc[p].old)

LEMMA HolderStep ==
    ASSUME StorageInv, NEW p \in Holders, Settles(p), Works(p)'
    PROVE  StorageInv'
<1>1. /\ TablesTyped /\ ProcTyped /\ LockInv /\ WorkInv /\ EpochInv
      /\ p \in Processes /\ proc[p].at \in HoldingStages /\ proc[p].at # "off"
  BY AliveStages DEF StorageInv, Holders, Alive, HoldingStages
<1>2. \A q \in Processes \ {p} : /\ proc'[q] = proc[q]
                                 /\ proc[q].at \in {"off"} \cup {"try", "read"}
  <2>1. \A q \in Processes \ {p} : proc[q].at \notin HoldingStages \cup {"dead", "again", "made"}
    BY <1>1, AliveStages DEF LockInv
  <2> QED
    BY <1>1, <2>1 DEF Settles, ProcTyped, TakingStages
<1>3. TablesTyped'
  <2>1. /\ lock'.by \in Processes \cup {"nobody"} /\ lock'.pid \in Pids \cup {0}
        /\ {"by", "pid"} = DOMAIN lock'
    BY <1>1 DEF Settles, TablesTyped, NoLock
  <2>2. copied' \in BOOLEAN
    BY <1>1 DEF Settles, TablesTyped
  <2> QED
    BY <2>1, <2>2 DEF Settles, TablesTyped
<1>4. ProcTyped'
  <2>1. \A q \in Processes \ {p} : proc[q].db \in DbType' /\ proc[q].old \in DbType'
    BY <1>1, DbMonotone DEF ProcTyped, TablesTyped, Settles
  <2>2. ASSUME NEW q \in Processes
        PROVE  /\ {"at", "kind", "pid", "db", "old", "why"} \subseteq DOMAIN proc'[q]
               /\ proc'[q].at \in {"off"} \cup TakingStages \cup HoldingStages
               /\ proc'[q].at # "off" => proc'[q].pid \in Pids
               /\ proc'[q].db \in DbType' /\ proc'[q].old \in DbType'
    <3>1. CASE q = p
      BY <1>1, <3>1 DEF Settles, ProcTyped
    <3>2. CASE q # p
      BY <1>1, <1>2, <2>1, <3>2 DEF ProcTyped
    <3> QED
      BY <3>1, <3>2
  <2> QED
    BY <2>2 DEF ProcTyped
<1>5. /\ \A q \in Processes : q \in Taking' <=> proc'[q].at \in TakingStages
      /\ \A q \in Processes : q \in Holders' <=> proc'[q].at \in HoldingStages
      /\ Taking' \subseteq Processes /\ Holders' \subseteq Processes
  <2>1. Taking' \subseteq Processes /\ Holders' \subseteq Processes
    BY DEF Taking, Holders, Alive
  <2> QED
    BY <1>4, <2>1 DEF ProcTyped, Taking, Holders, Alive, TakingStages, HoldingStages
<1>6. LockInv'
  <2>1. Holders' \subseteq {p} /\ p \notin Taking'
    BY <1>2, <1>5 DEF Settles, TakingStages, HoldingStages
  <2>2. \A q \in Taking' : q \in Taking
    BY <1>1, <1>2, <1>5, <2>1, AliveStages
  <2>3. p \in Holders' => lock' = lock /\ proc'[p].pid = proc[p].pid
    BY <1>5 DEF Settles, HoldingStages
  <2>4. \A q \in Processes : proc'[q].at \notin {"dead", "again", "made"}
    BY <1>2 DEF Settles, HoldingStages
  <2> QED
    BY <1>1, <2>1, <2>2, <2>3, <2>4 DEF LockInv
<1>7. WorkInv'
  <2>1. main' = NoDb \/ \A q \in Processes : proc'[q].at = "swap" => q = p
    BY <1>2
  <2>2. proc'[p].at \notin TakingStages
    BY DEF Settles, TakingStages, HoldingStages
  <2> QED
    BY <1>1, <1>2, <2>1, <2>2 DEF WorkInv, Works, Settles
<1>8. EpochInv'
  <2>1. \A q \in Processes \ {p} : proc'[q].at # "off" /\ proc'[q].kind = "service" => ~copied'
    BY <1>1, <1>2 DEF Settles, EpochInv
  <2>2. proc'[p].at # "off" /\ proc'[p].kind = "service" => ~copied'
    BY <1>1 DEF Settles, EpochInv
  <2> QED
    BY <1>2, <2>1, <2>2 DEF Settles, Works, EpochInv
<1> QED
  BY <1>3, <1>4, <1>6, <1>7, <1>8 DEF StorageInv, Settles

-----------------------------------------------------------------------------
(***************************************************************************)
(* The operations of the holder.                                           *)
(***************************************************************************)

LEMMA HolderFacts ==
    ASSUME StorageInv, NEW p \in Processes, proc[p].at \in HoldingStages
    PROVE  /\ p \in Holders /\ proc[p].pid \in Pids /\ proc[p].pid # 0 /\ lock.pid = proc[p].pid
           /\ proc[p] = proc[p] /\ {"at", "kind", "pid", "db", "old", "why"} \subseteq DOMAIN proc[p]
           /\ proc[p].db \in DbType /\ proc[p].old \in DbType
           /\ proc = [q \in Processes |-> proc[q]]
           /\ epochs \in Nat /\ edits \in Nat /\ DOMAIN served \subseteq 0..epochs
           /\ main \in DbType /\ pre \in DbType /\ online \subseteq DbType /\ aside \subseteq DbType
           /\ copied \in BOOLEAN
           /\ EditsKept /\ (~copied => Continues(main))
  BY AliveStages, StorageConstants
     DEF StorageInv, LockInv, ProcTyped, TablesTyped, EpochInv, StorageConstants, HoldingStages

LEMMA StageEffect ==
    ASSUME StorageInv, NEW p \in Processes, proc[p].at \in HoldingStages,
           NEW stage \in HoldingStages, At(p, stage)
    PROVE  /\ proc' = [q \in Processes |-> proc'[q]]
           /\ \A q \in Processes \ {p} : proc'[q] = proc[q]
           /\ {"at", "kind", "pid", "db", "old", "why"} \subseteq DOMAIN proc'[p]
           /\ proc'[p].at = stage /\ proc'[p].pid = proc[p].pid /\ proc'[p].kind = proc[p].kind
           /\ proc'[p].db = proc[p].db /\ proc'[p].old = proc[p].old
  BY HolderFacts DEF At

LEMMA ReleaseEffect ==
    ASSUME StorageInv, NEW p \in Processes, proc[p].at \in HoldingStages, NEW why, Release(p, why)
    PROVE  /\ proc' = [q \in Processes |-> proc'[q]]
           /\ \A q \in Processes \ {p} : proc'[q] = proc[q]
           /\ {"at", "kind", "pid", "db", "old", "why"} \subseteq DOMAIN proc'[p]
           /\ proc'[p].at = "off" /\ lock' = NoLock
           /\ proc'[p].db = NoDb /\ proc'[p].old = NoDb
           /\ Works(p)'
<1>1. proc' = [proc EXCEPT ![p] = [Off EXCEPT !.why = why, !.kind = proc[p].kind]]
      /\ lock' = NoLock
  BY HolderFacts DEF Release, Quit
<1>2. /\ proc' = [q \in Processes |-> proc'[q]]
      /\ \A q \in Processes \ {p} : proc'[q] = proc[q]
      /\ proc'[p] = [Off EXCEPT !.why = why, !.kind = proc[p].kind]
  BY <1>1, HolderFacts
<1>3. /\ {"at", "kind", "pid", "db", "old", "why"} \subseteq DOMAIN proc'[p]
      /\ proc'[p].at = "off" /\ proc'[p].db = NoDb /\ proc'[p].old = NoDb
  BY <1>2 DEF Off
<1> QED
  BY <1>1, <1>2, <1>3 DEF Works

(* A step that leaves the database and what was shown as they are. *)
LEMMA QuietRelease ==
    ASSUME StorageInv, NEW p \in Processes, proc[p].at \in HoldingStages, NEW why, Release(p, why),
           UNCHANGED <<disk, counters, served>>
    PROVE  StorageInv'
<1>1. UNCHANGED <<main, online, pre, aside, copied, epochs, edits, served>>
  BY DEF disk, counters
<1>2. EditsKept' /\ DbType' = DbType /\ (~copied' => Continues(main)')
  BY <1>1, HolderFacts DEF EditsKept, DbType, Continues
<1>3. Settles(p)
  BY <1>1, <1>2, HolderFacts, ReleaseEffect, NoDbTyped DEF Settles
<1> QED
  BY <1>3, HolderFacts, ReleaseEffect, HolderStep

(* A step of the holder that goes on with its work. *)
Goes(p, stage) ==
    /\ At(p, stage) /\ lock' = lock
    /\ epochs' \in Nat /\ epochs <= epochs' /\ edits' \in Nat /\ edits <= edits'

LEMMA GoesOn ==
    ASSUME StorageInv, NEW p \in Processes, proc[p].at \in HoldingStages,
           NEW stage \in HoldingStages, Goes(p, stage),
           {main', pre'} \cup online' \cup aside' \subseteq DbType',
           copied' \in {copied, FALSE}, DOMAIN served' \subseteq 0..epochs',
           ~copied' => Continues(main)', EditsKept'
    PROVE  Settles(p)
<1>1. proc[p].db \in DbType' /\ proc[p].old \in DbType'
  BY HolderFacts, DbMonotone DEF Goes
<1> QED
  BY <1>1, StageEffect DEF Settles, Goes

LEMMA OpenStep ==
    ASSUME StorageInv, NEW p \in Processes, Open(p)
    PROVE  StorageInv'
<1>1. proc[p].at \in HoldingStages /\ proc[p].kind = "service" /\ ~copied
  BY DEF Open, HoldingStages, StorageInv, EpochInv
<1>2. UNCHANGED <<online, aside, copied, edits>>
  BY DEF Open
<1>3. ASSUME main = NoDb,
             main' = [Rotated(NoDb) EXCEPT !.schema = SchemaVersion], epochs' = epochs + 1,
             At(p, "run"), Shown(main'), UNCHANGED <<lock, pre>>
      PROVE  StorageInv'
  <2>1. /\ main' \in DbType' /\ main'.schema = SchemaVersion /\ main'.epoch = epochs + 1
        /\ main'.edits = {}
    <3>1. /\ main' = [schema |-> SchemaVersion, epoch |-> epochs + 1, edits |-> {}]
          /\ epochs \in Nat /\ edits' = edits /\ epochs' = epochs + 1
      BY <1>2, <1>3, <1>1, HolderFacts DEF Rotated, NoDb
    <3>2. epochs + 1 \in 0..epochs' /\ SchemaVersion \in Supported
      BY <3>1 DEF SchemaVersion, Supported
    <3> QED
      BY <3>1, <3>2 DEF DbType
  <2>2. DOMAIN served' \subseteq 0..epochs' /\ served'[main'.epoch] = main'.edits
    BY <1>1, <1>3, <2>1, HolderFacts DEF Shown
  <2>3. \A db \in Files : \E kept \in Files' : db.edits \subseteq kept.edits
    BY <1>2, <1>3, NoDbTyped DEF Files, NoDb
  <2>4. EditsKept'
    BY <1>1, <1>2, <2>3, HolderFacts, FilesKeep
  <2>5. {pre'} \cup online' \cup aside' \subseteq DbType'
    BY <1>1, <1>2, <1>3, HolderFacts, DbMonotone
  <2>6. Goes(p, "run") /\ Continues(main)' /\ "run" \in HoldingStages
    BY <1>1, <1>2, <1>3, <2>2, HolderFacts DEF Goes, Continues, HoldingStages
  <2>7. Settles(p)
    BY <1>1, <1>2, <2>1, <2>2, <2>4, <2>5, <2>6, GoesOn
  <2>8. Works(p)'
    BY <1>1, <1>3, <2>1, <2>6, StageEffect DEF Works
  <2> QED
    BY <1>1, <2>7, <2>8, HolderFacts, HolderStep
<1>4. ASSUME main.schema = SchemaVersion, At(p, "run"), Shown(main),
             UNCHANGED <<lock, main, pre, epochs>>
      PROVE  StorageInv'
  <2>1. DOMAIN served' \subseteq 0..epochs' /\ served'[main'.epoch] = main'.edits
    BY <1>1, <1>4, HolderFacts, DbFields DEF Shown
  <2>2. EditsKept' /\ DbType' = DbType
    BY <1>1, <1>2, <1>4, HolderFacts DEF EditsKept, DbType
  <2>3. Goes(p, "run") /\ Continues(main)' /\ "run" \in HoldingStages
    BY <1>1, <1>2, <1>4, <2>1, HolderFacts DEF Goes, Continues, HoldingStages
  <2>4. Settles(p)
    BY <1>1, <1>2, <1>4, <2>1, <2>2, <2>3, HolderFacts, GoesOn
  <2>5. Works(p)'
    BY <1>1, <1>4, <2>3, StageEffect DEF Works
  <2> QED
    BY <1>1, <2>4, <2>5, HolderFacts, HolderStep
<1>5. ASSUME main.schema \in Supported \ {SchemaVersion}, pre = NoDb, pre' = main,
             At(p, "migrate"), UNCHANGED <<lock, main, epochs, served>>
      PROVE  StorageInv'
  <2>1. \A db \in Files : \E kept \in Files' : db.edits \subseteq kept.edits
    BY <1>2, <1>5, NoDbTyped DEF Files, NoDb
  <2>2. EditsKept' /\ DbType' = DbType
    BY <1>1, <1>2, <1>5, <2>1, HolderFacts, FilesKeep DEF DbType
  <2>3. Goes(p, "migrate") /\ Continues(main)' /\ "migrate" \in HoldingStages
    BY <1>1, <1>2, <1>5, HolderFacts DEF Goes, Continues, HoldingStages
  <2>4. Settles(p)
    BY <1>1, <1>2, <1>5, <2>2, <2>3, HolderFacts, GoesOn
  <2>5. Works(p)'
    BY <1>1, <1>5, <2>3, StageEffect DEF Works
  <2> QED
    BY <1>1, <2>4, <2>5, HolderFacts, HolderStep
<1>6. ASSUME Release(p, "kept"), UNCHANGED <<main, pre, epochs, served>>
      PROVE  StorageInv'
  <2>1. UNCHANGED <<disk, counters, served>>
    BY <1>6 DEF Open, disk, counters
  <2> QED
    BY <1>1, <1>6, <2>1, QuietRelease
<1> QED
  BY <1>3, <1>4, <1>5, <1>6 DEF Open

LEMMA MigrateStep ==
    ASSUME StorageInv, NEW p \in Processes, Migrate(p)
    PROVE  StorageInv'
<1>1. /\ proc[p].at \in HoldingStages /\ proc[p].kind = "service"
      /\ main.schema \in Supported \ {SchemaVersion} /\ ~copied
  BY DEF Migrate, HoldingStages, StorageInv, EpochInv, WorkInv
<1>2. UNCHANGED <<online, aside, copied, edits, lock, pre>> /\ epochs' = epochs + 1
  BY DEF Migrate
<1>3. /\ main' \in DbType' /\ main'.schema = SchemaVersion /\ main'.edits = main.edits
      /\ main'.epoch \in 0..epochs'
  BY <1>1, <1>2, HolderFacts DEF Migrate, Rotated, DbType, SchemaVersion, Supported
<1>4. DOMAIN served' \subseteq 0..epochs' /\ served'[main'.epoch] = main'.edits
  BY <1>1, <1>2, <1>3, HolderFacts DEF Shown, Migrate
<1>5. \A db \in Files : \E kept \in Files' : db.edits \subseteq kept.edits
  BY <1>2, <1>3 DEF Files
<1>6. EditsKept'
  BY <1>1, <1>2, <1>5, HolderFacts, FilesKeep
<1>7. {pre'} \cup online' \cup aside' \subseteq DbType'
  BY <1>1, <1>2, HolderFacts, DbMonotone
<1>8. Goes(p, "run") /\ Continues(main)' /\ "run" \in HoldingStages
  BY <1>1, <1>2, <1>4, HolderFacts DEF Goes, Continues, HoldingStages, Migrate
<1>9. Settles(p)
  BY <1>1, <1>2, <1>3, <1>4, <1>6, <1>7, <1>8, GoesOn
<1>10. Works(p)'
  BY <1>1, <1>3, <1>8, StageEffect DEF Works, Goes
<1> QED
  BY <1>1, <1>9, <1>10, HolderFacts, HolderStep

LEMMA EditStep ==
    ASSUME StorageInv, NEW p \in Processes, Edit(p)
    PROVE  StorageInv'
<1>1. /\ proc[p].at = "run" /\ proc[p].at \in HoldingStages
      /\ main.schema = SchemaVersion
  BY DEF Edit, HoldingStages, StorageInv, WorkInv
<1>2. UNCHANGED <<proc, online, aside, copied, lock, pre, epochs>> /\ edits' = edits + 1
  BY DEF Edit
<1>3. /\ main' \in DbType' /\ main'.schema = main.schema /\ main'.edits = main.edits \cup {edits + 1}
      /\ main'.epoch \in 0..epochs'
  BY <1>1, <1>2, HolderFacts DEF Edit, DbType
<1>4. DOMAIN served' \subseteq 0..epochs' /\ served'[main'.epoch] = main'.edits
  BY <1>1, <1>2, <1>3, HolderFacts DEF Shown, Edit
<1>5. /\ \A db \in Files : \E kept \in Files' : db.edits \subseteq kept.edits
      /\ \E kept \in Files' : edits + 1 \in kept.edits
  BY <1>2, <1>3 DEF Files
<1>6. EditsKept'
  BY <1>1, <1>2, <1>5, HolderFacts, FilesKeep
<1>7. {pre'} \cup online' \cup aside' \cup {proc[p].db, proc[p].old} \subseteq DbType'
  BY <1>1, <1>2, HolderFacts, DbMonotone
<1>8. Settles(p)
  BY <1>1, <1>2, <1>3, <1>4, <1>6, <1>7, HolderFacts DEF Settles, Continues
<1>9. Works(p)'
  BY <1>1, <1>2, <1>3 DEF Works, StorageInv, WorkInv
<1> QED
  BY <1>1, <1>8, <1>9, HolderFacts, HolderStep

LEMMA StopStep ==
    ASSUME StorageInv, NEW p \in Processes, Stop(p) \/ Compact(p)
    PROVE  StorageInv'
  BY QuietRelease DEF Stop, Compact, HoldingStages

LEMMA StageStep ==
    ASSUME StorageInv, NEW p \in Processes, NEW b \in online \cup {pre}, Stage(p, b)
    PROVE  StorageInv'
<1>1. /\ proc[p].at \in HoldingStages /\ proc[p].kind = "restore" /\ "staged" \in HoldingStages
      /\ UNCHANGED <<disk, edits, starts, crashes, served>> /\ b \in DbType
  BY HolderFacts DEF Stage, HoldingStages
<1>2. UNCHANGED <<main, online, pre, aside, copied, edits>>
  BY <1>1 DEF disk
<1>3. ASSUME Release(p, "schema"), UNCHANGED epochs
      PROVE  StorageInv'
  BY <1>1, <1>3, QuietRelease DEF counters
<1>4. ASSUME UNCHANGED lock, epochs' = epochs + 1,
             proc' = [proc EXCEPT ![p].at = "staged", ![p].db = IF b.schema >= 3 THEN Rotated(b) ELSE b]
      PROVE  StorageInv'
  <2>1. PICK db : db = IF b.schema >= 3 THEN Rotated(b) ELSE b
    OBVIOUS
  <2>2. db \in DbType' /\ (db.schema >= 3 => db.epoch = epochs + 1)
    <3>1. b \in DbType' /\ Rotated(b) \in DbType' /\ Rotated(b).epoch = epochs + 1
      BY <1>1, <1>2, <1>4, HolderFacts, DbMonotone, RotatedDb DEF DbType
    <3> QED
      BY <2>1, <3>1
  <2>3. /\ proc' = [q \in Processes |-> proc'[q]]
        /\ \A q \in Processes \ {p} : proc'[q] = proc[q]
        /\ proc'[p] = [proc[p] EXCEPT !.at = "staged", !.db = db]
    BY <1>1, <1>4, <2>1, HolderFacts
  <2>4. /\ {"at", "kind", "pid", "db", "old", "why"} \subseteq DOMAIN proc'[p]
        /\ proc'[p].at = "staged" /\ proc'[p].pid = proc[p].pid /\ proc'[p].kind = proc[p].kind
        /\ proc'[p].db = db /\ proc'[p].old = proc[p].old
    BY <1>1, <2>3, HolderFacts
  <2>5. {main', pre', proc[p].old} \cup online' \cup aside' \subseteq DbType'
    BY <1>1, <1>2, <1>4, HolderFacts, DbMonotone
  <2>6. EditsKept' /\ (~copied' => Continues(main)') /\ served' = served
    BY <1>1, <1>2, HolderFacts DEF EditsKept, Continues
  <2>7. DOMAIN served' \subseteq 0..epochs' /\ epochs + 1 \notin DOMAIN served'
    BY <1>1, <1>4, <2>6, HolderFacts
  <2>8. Settles(p)
    BY <1>1, <1>2, <1>4, <2>2, <2>3, <2>4, <2>5, <2>6, <2>7, HolderFacts DEF Settles
  <2>9. proc[p].old = NoDb
    BY <1>1 DEF Stage, StorageInv, WorkInv
  <2>10. Works(p)'
    BY <1>1, <2>2, <2>4, <2>7, <2>9 DEF Works, NoDb
  <2> QED
    BY <1>1, <2>8, <2>10, HolderFacts, HolderStep
<1> QED
  BY <1>3, <1>4 DEF Stage

LEMMA KeepStep ==
    ASSUME StorageInv, NEW p \in Processes, Keep(p)
    PROVE  StorageInv'
<1>1. /\ proc[p].at \in HoldingStages /\ {"kept", "swap"} \subseteq HoldingStages
      /\ UNCHANGED <<main, online, pre, copied, counters, served>>
      /\ proc[p].at = "staged" \/ proc[p].kind \in {"compact", "rotate"}
  BY DEF Keep, HoldingStages
<1>2. UNCHANGED <<epochs, edits>> /\ DbType' = DbType
  BY <1>1 DEF counters, DbType
<1>3. (~copied' => Continues(main)') /\ DOMAIN served' \subseteq 0..epochs'
  BY <1>1, <1>2, HolderFacts DEF Continues
<1>4. ASSUME NEW stage \in {"kept", "swap"}, At(p, stage), UNCHANGED lock,
             aside' = aside \/ aside' = aside \cup {main},
             stage = "swap" => main = NoDb /\ proc[p].at = "staged"
      PROVE  StorageInv'
  <2>1. \A db \in Files : \E kept \in Files' : db.edits \subseteq kept.edits
    BY <1>1, <1>4 DEF Files
  <2>2. EditsKept'
    BY <1>1, <1>2, <2>1, HolderFacts, FilesKeep
  <2>3. Goes(p, stage) /\ {main', pre'} \cup online' \cup aside' \subseteq DbType'
    BY <1>1, <1>2, <1>4, HolderFacts DEF Goes
  <2>4. Settles(p)
    BY <1>1, <1>3, <1>4, <2>2, <2>3, HolderFacts, GoesOn
  <2>5. /\ proc'[p].at = stage /\ proc'[p].kind = proc[p].kind /\ proc'[p].db = proc[p].db
        /\ proc'[p].old = proc[p].old
    BY <1>1, <1>4, StageEffect
  <2>6. /\ proc[p].kind = "restore" => proc[p].at = "staged"
        /\ proc[p].at = "staged" => proc[p].kind = "restore"
        /\ proc[p].at = "staged" => (proc[p].db.schema >= 3 => proc[p].db.epoch \notin DOMAIN served)
    BY <1>1 DEF StorageInv, WorkInv, EpochInv
  <2>7. proc[p].at = "staged" => proc[p].kind = "restore" /\ Continues(proc[p].old)'
    <3>1. proc[p].at = "staged" => proc[p].kind = "restore" /\ proc[p].old = NoDb
      BY DEF StorageInv, WorkInv
    <3>2. proc'[p].old = NoDb => Continues(proc[p].old)'
      BY DEF Continues, NoDb
    <3> QED
      BY <2>5, <3>1, <3>2
  <2>8. Works(p)'
    BY <1>1, <1>4, <2>5, <2>6, <2>7 DEF Works
  <2> QED
    BY <1>1, <2>4, <2>8, HolderFacts, HolderStep
<1>5. ASSUME Release(p, "no database"), UNCHANGED aside
      PROVE  StorageInv'
  BY <1>1, <1>5, QuietRelease DEF disk
<1>6. CASE main # NoDb
  BY <1>1, <1>4, <1>5, <1>6 DEF Keep
<1>7. CASE main = NoDb
  BY <1>1, <1>4, <1>5, <1>7 DEF Keep
<1> QED
  BY <1>6, <1>7

LEMMA DisplaceStep ==
    ASSUME StorageInv, NEW p \in Processes, Displace(p)
    PROVE  StorageInv'
<1>1. /\ proc[p].at = "kept" /\ proc[p].kind = "restore" /\ "swap" \in HoldingStages
      /\ proc[p].at \in HoldingStages /\ lock' = lock
      /\ aside' = aside \cup {main} /\ main' = NoDb
      /\ proc' = [proc EXCEPT ![p].at = "swap", ![p].old = main]
      /\ UNCHANGED <<online, pre, copied, epochs, edits, served>>
  BY DEF Displace, counters, HoldingStages
<1>2. DbType' = DbType /\ NoDb \in DbType /\ Continues(NoDb)'
  BY <1>1, HolderFacts, NoDbTyped DEF DbType, Continues, NoDb
<1>3. /\ proc' = [q \in Processes |-> proc'[q]]
      /\ \A q \in Processes \ {p} : proc'[q] = proc[q]
      /\ proc'[p] = [proc[p] EXCEPT !.at = "swap", !.old = main]
  BY <1>1, HolderFacts
<1>4. /\ {"at", "kind", "pid", "db", "old", "why"} \subseteq DOMAIN proc'[p]
      /\ proc'[p].at = "swap" /\ proc'[p].pid = proc[p].pid /\ proc'[p].kind = proc[p].kind
      /\ proc'[p].db = proc[p].db /\ proc'[p].old = main
  BY <1>1, <1>3, HolderFacts
<1>5. \A db \in Files : \E kept \in Files' : db.edits \subseteq kept.edits
  BY <1>1 DEF Files
<1>6. EditsKept'
  BY <1>1, <1>5, HolderFacts, FilesKeep
<1>7. ~copied' => Continues(main)' /\ Continues(proc[p].old)'
  <2>1. ~copied' => Continues(main)
    BY <1>1, HolderFacts
  <2>2. proc'[p].old = main
    BY <1>4
  <2> QED
    BY <1>1, <1>2, <2>1, <2>2 DEF Continues
<1>8. Settles(p)
  BY <1>1, <1>2, <1>3, <1>4, <1>6, <1>7, HolderFacts DEF Settles
<1>9. proc[p].db.schema >= 3 => proc[p].db.epoch \notin DOMAIN served
  BY <1>1 DEF StorageInv, EpochInv
<1>10. Works(p)'
  BY <1>1, <1>4, <1>7, <1>9 DEF Works
<1> QED
  BY <1>1, <1>8, <1>10, HolderFacts, HolderStep

LEMMA SwapStep ==
    ASSUME StorageInv, NEW p \in Processes, Swap(p) \/ SwapFails(p)
    PROVE  StorageInv'
<1>1. /\ proc[p].at = "swap" /\ main = NoDb /\ proc[p].at \in HoldingStages /\ proc[p].kind = "restore"
      /\ proc[p].db.schema >= 3 => proc[p].db.epoch \notin DOMAIN served
      /\ ~copied => Continues(proc[p].old)
  BY DEF Swap, SwapFails, StorageInv, WorkInv, EpochInv, HoldingStages
<1>2. /\ UNCHANGED <<online, pre, aside, epochs, edits, served>>
      /\ \/ main' = proc[p].db /\ copied' = FALSE
         \/ main' = proc[p].old /\ copied' = copied
  BY DEF Swap, SwapFails, counters
<1>3. PICK why : Release(p, why)
  BY DEF Swap, SwapFails
<1>4. DbType' = DbType /\ main' \in DbType /\ (~copied' => Continues(main)')
  BY <1>1, <1>2, HolderFacts DEF DbType, Continues
<1>5. \A db \in Files : \E kept \in Files' : db.edits \subseteq kept.edits
  BY <1>1, <1>2 DEF Files, NoDb
<1>6. EditsKept'
  BY <1>1, <1>2, <1>5, HolderFacts, FilesKeep
<1>7. Settles(p)
  <2>1. /\ proc' = [q \in Processes |-> proc'[q]]
        /\ \A q \in Processes \ {p} : proc'[q] = proc[q]
        /\ {"at", "kind", "pid", "db", "old", "why"} \subseteq DOMAIN proc'[p]
        /\ proc'[p].at = "off" /\ lock' = NoLock
        /\ proc'[p].db = NoDb /\ proc'[p].old = NoDb
    BY <1>1, <1>3, ReleaseEffect
  <2>2. /\ epochs' \in Nat /\ epochs <= epochs' /\ edits' \in Nat /\ edits <= edits'
        /\ {pre', NoDb} \cup online' \cup aside' \subseteq DbType
        /\ DOMAIN served' \subseteq 0..epochs'
    BY <1>1, <1>2, HolderFacts, NoDbTyped
  <2> QED
    BY <1>2, <1>4, <1>6, <2>1, <2>2 DEF Settles
<1> QED
  BY <1>1, <1>3, <1>7, HolderFacts, ReleaseEffect, HolderStep

LEMMA RotateStep ==
    ASSUME StorageInv, NEW p \in Processes, Rotate(p)
    PROVE  StorageInv'
<1> PICK why : Release(p, why)
  BY DEF Rotate
<1>1. /\ proc[p].at \in HoldingStages
      /\ UNCHANGED <<online, pre, aside, edits, starts, crashes, served>>
  BY DEF Rotate, HoldingStages
<1>2. /\ epochs \in Nat /\ edits \in Nat /\ DOMAIN served \subseteq 0..epochs /\ EditsKept
      /\ main \in DbType /\ pre \in DbType /\ online \subseteq DbType /\ aside \subseteq DbType
  BY <1>1, HolderFacts
<1>3. CASE main.schema = 2
  <2>1. UNCHANGED <<disk, counters, served>>
    BY <1>1, <1>3 DEF Rotate, disk, counters
  <2> QED
    BY <1>1, <2>1, QuietRelease
<1>4. CASE main.schema # 2
  <2>0. copied' = FALSE
    BY <1>4 DEF Rotate
  <2>1. main' = Rotated(main) /\ epochs' = epochs + 1
    BY <1>4 DEF Rotate
  <2>9. edits' = edits /\ epochs \in Nat /\ edits \in Nat /\ epochs' \in Nat /\ epochs <= epochs'
    BY <1>1, <1>2, <2>1
  <2>2. /\ main' \in DbType' /\ main'.epoch = epochs + 1 /\ main'.edits = main.edits
    <3>1. edits' = edits /\ main \in DbType /\ epochs \in Nat
      BY <1>1, <1>2
    <3> QED
      BY <2>1, <2>9, <3>1, <1>2, RotatedDb DEF DbType
  <2>3. Continues(main)' /\ DOMAIN served' \subseteq 0..epochs'
    BY <1>1, <1>2, <2>1, <2>2 DEF Continues
  <2>4. \A db \in Files : \E kept \in Files' : db.edits \subseteq kept.edits
    BY <1>1, <2>2 DEF Files
  <2>5. EditsKept'
    BY <1>1, <1>2, <2>4, FilesKeep
  <2>6. {pre'} \cup online' \cup aside' \subseteq DbType' /\ NoDb \in DbType'
    <3>2. {pre} \cup online \cup aside \cup {NoDb} \subseteq DbType
      BY <1>1, <1>2, NoDbTyped
    <3> QED
      BY <1>1, <2>9, <3>2, DbMonotone
  <2>7. Settles(p)
    <3>1. /\ proc' = [q \in Processes |-> proc'[q]]
          /\ \A q \in Processes \ {p} : proc'[q] = proc[q]
          /\ {"at", "kind", "pid", "db", "old", "why"} \subseteq DOMAIN proc'[p]
          /\ proc'[p].at = "off" /\ lock' = NoLock
          /\ proc'[p].db = NoDb /\ proc'[p].old = NoDb
      BY <1>1, ReleaseEffect
    <3>2. /\ {main', pre'} \cup online' \cup aside' \subseteq DbType'
          /\ proc'[p].db \in DbType' /\ proc'[p].old \in DbType'
      BY <2>2, <2>6, <3>1
    <3>3. copied' \in {copied, FALSE} /\ (~copied' => Continues(main)')
      BY <2>0, <2>3
    <3>4. /\ epochs' \in Nat /\ epochs <= epochs' /\ edits' \in Nat /\ edits <= edits'
          /\ DOMAIN served' \subseteq 0..epochs'
      BY <2>3, <2>9
    <3> QED
      BY <2>5, <3>1, <3>2, <3>3, <3>4 DEF Settles
  <2> QED
    BY <1>1, <2>7, HolderFacts, ReleaseEffect, HolderStep
<1> QED
  BY <1>3, <1>4

-----------------------------------------------------------------------------
(***************************************************************************)
(* The lock, crashes, and what happens beside the processes.               *)
(***************************************************************************)

(* LockInv in terms of the places of the processes. *)
Locked ==
    /\ \A p, q \in Processes : proc[p].at \in TakingStages /\ proc[q].at \in TakingStages => p = q
    /\ \A p, q \in Processes : proc[p].at \in HoldingStages /\ proc[q].at \in HoldingStages
         => p = q /\ lock.pid = proc[p].pid
    /\ \A p, q \in Processes : proc[p].at \in {"dead", "again", "made"} => proc[q].at \notin HoldingStages
    /\ \A p \in Processes : proc[p].at = "made" => lock.by = p

LEMMA LockStages == ProcTyped => (LockInv <=> Locked)
<1> SUFFICES ASSUME ProcTyped PROVE LockInv <=> Locked
  OBVIOUS
<1>1. Taking \subseteq Processes /\ Holders \subseteq Processes
  BY DEF Taking, Holders, Alive
<1>2. \A p \in Processes : proc[p].at \in {"dead", "again", "made"}
        => (Holders = {} <=> \A q \in Processes : proc[q].at \notin HoldingStages)
  BY <1>1, AliveStages
<1> QED
  BY <1>1, <1>2, AliveStages DEF LockInv, Locked

(* A step of a process that is taking the lock: the database stays as it is.*)
Tries(p) ==
    /\ p \in Processes /\ proc[p].at \notin HoldingStages
    /\ UNCHANGED <<main, online, pre, aside, copied, epochs, edits, served>>
    /\ proc' = [q \in Processes |-> proc'[q]]
    /\ \A q \in Processes \ {p} : proc'[q] = proc[q]
    /\ {"at", "kind", "pid", "db", "old", "why"} \subseteq DOMAIN proc'[p]
    /\ proc'[p].at \in {"off", "held"} \cup TakingStages
    /\ proc'[p].at # "off" => proc'[p].pid \in Pids
    /\ proc'[p].at # "off" /\ proc'[p].kind = "service" => ~copied
    /\ proc'[p].db \in DbType /\ proc'[p].old = NoDb

LEMMA TryStep ==
    ASSUME StorageInv, NEW p \in Processes, Tries(p),
           lock'.by \in Processes \cup {"nobody"}, lock'.pid \in Pids \cup {0},
           {"by", "pid"} = DOMAIN lock', Locked'
    PROVE  StorageInv'
<1>1. TablesTyped /\ ProcTyped /\ WorkInv /\ EpochInv /\ EditsKept
  BY DEF StorageInv
<1>2. DbType' = DbType /\ EditsKept'
  BY <1>1 DEF Tries, DbType, EditsKept
<1>3. TablesTyped'
  BY <1>1, <1>2 DEF TablesTyped, Tries
<1>4. ProcTyped'
  BY <1>1, <1>2, NoDbTyped DEF ProcTyped, TablesTyped, Tries, HoldingStages
<1>5. WorkInv'
  <2>1. proc'[p].at \notin {"run", "migrate", "staged", "swap"}
    BY DEF Tries, TakingStages
  <2> QED
    BY <1>1, <2>1 DEF WorkInv, Tries
<1>6. EpochInv'
  <2>1. proc'[p].at \notin {"staged", "kept", "swap"}
    BY DEF Tries, TakingStages
  <2>2. \A db : Continues(db)' <=> Continues(db)
    BY DEF Tries, Continues
  <2> QED
    BY <1>1, <2>1 DEF EpochInv, Tries, Continues
<1>7. LockInv'
  BY <1>4, LockStages, PTL
<1> QED
  BY <1>2, <1>3, <1>4, <1>5, <1>6, <1>7 DEF StorageInv

LEMMA TakingFacts ==
    ASSUME StorageInv, NEW p \in Processes, proc[p].at \in TakingStages
    PROVE  /\ proc[p].at \notin HoldingStages /\ proc[p].at # "off" /\ proc[p].pid \in Pids
           /\ {"at", "kind", "pid", "db", "old", "why"} \subseteq DOMAIN proc[p]
           /\ proc[p].db \in DbType /\ proc[p].old = NoDb
           /\ proc[p].kind = "service" => ~copied
           /\ proc = [q \in Processes |-> proc[q]]
           /\ lock.by \in Processes \cup {"nobody"} /\ lock.pid \in Pids \cup {0}
           /\ {"by", "pid"} = DOMAIN lock /\ epochs \in Nat
           /\ Locked
<1>1. proc[p].at \notin HoldingStages /\ proc[p].at # "off"
  BY DEF TakingStages, HoldingStages
<1>2. /\ proc[p].pid \in Pids /\ {"at", "kind", "pid", "db", "old", "why"} \subseteq DOMAIN proc[p]
      /\ proc[p].db \in DbType /\ proc[p].old = NoDb
  BY <1>1 DEF StorageInv, WorkInv, ProcTyped
<1>3. proc[p].kind = "service" => ~copied
  BY <1>1 DEF StorageInv, EpochInv
<1>4. Locked
  BY LockStages DEF StorageInv
<1> QED
  BY <1>1, <1>2, <1>3, <1>4 DEF StorageInv, TablesTyped

LEMMA StartStep ==
    ASSUME StorageInv, AtOnce = 1, NEW p \in Processes, NEW kind \in Kinds, NEW pid \in Pids,
           Start(p, kind, pid)
    PROVE  StorageInv'
<1>1. ProcTyped /\ TablesTyped /\ proc[p].at = "off" /\ Locked
  BY LockStages DEF Start, StorageInv
<1>2. \A q \in Processes : proc[q].at \notin TakingStages
  BY <1>1, AliveStages, NobodyTakes DEF Start
<1>3. /\ UNCHANGED <<lock, main, online, pre, aside, copied, epochs, edits, served>>
      /\ kind = "service" => ~copied
      /\ proc' = [q \in Processes |-> proc'[q]]
      /\ \A q \in Processes \ {p} : proc'[q] = proc[q]
      /\ proc'[p] = [Off EXCEPT !.at = "try", !.kind = kind, !.pid = pid]
  BY <1>1 DEF Start, disk, TablesTyped
<1>4. /\ {"at", "kind", "pid", "db", "old", "why"} \subseteq DOMAIN proc'[p]
      /\ proc'[p].at = "try" /\ proc'[p].kind = kind /\ proc'[p].pid = pid
      /\ proc'[p].db = NoDb /\ proc'[p].old = NoDb
  BY <1>3 DEF Off
<1>5. Tries(p)
  BY <1>1, <1>3, <1>4, NoDbTyped DEF Tries, TakingStages, HoldingStages, TablesTyped
<1>6. Locked'
  <2>1. \A q \in Processes : proc'[q].at \in TakingStages => q = p
    BY <1>2, <1>3
  <2>2. \A q \in Processes : proc'[q].at \in HoldingStages => proc'[q] = proc[q]
    BY <1>3, <1>4 DEF HoldingStages
  <2>3. \A q \in Processes : proc'[q].at \notin {"dead", "again", "made"}
    BY <1>2, <1>3, <1>4 DEF TakingStages
  <2> QED
    BY <1>1, <1>3, <2>1, <2>2, <2>3 DEF Locked
<1> QED
  BY <1>1, <1>3, <1>5, <1>6, TryStep DEF TablesTyped

(* What a step does to a process that is taking the lock. *)
LEMMA TriesAt ==
    ASSUME StorageInv, NEW p \in Processes, proc[p].at \in TakingStages,
           NEW stage \in {"held"} \cup TakingStages, At(p, stage),
           UNCHANGED <<disk, counters, served>>
    PROVE  /\ Tries(p) /\ proc'[p].at = stage /\ proc'[p].pid = proc[p].pid
           /\ \A q \in Processes \ {p} : proc'[q] = proc[q]
<1>1. UNCHANGED <<main, online, pre, aside, copied, epochs, edits, served>>
  BY DEF disk, counters
<1>2. /\ proc' = [q \in Processes |-> proc'[q]]
      /\ \A q \in Processes \ {p} : proc'[q] = proc[q]
      /\ proc'[p] = [proc[p] EXCEPT !.at = stage]
  BY TakingFacts DEF At
<1>3. /\ {"at", "kind", "pid", "db", "old", "why"} \subseteq DOMAIN proc'[p]
      /\ proc'[p].at = stage /\ proc'[p].kind = proc[p].kind /\ proc'[p].pid = proc[p].pid
      /\ proc'[p].db = proc[p].db /\ proc'[p].old = proc[p].old
  BY <1>2, TakingFacts
<1> QED
  BY <1>1, <1>2, <1>3, TakingFacts DEF Tries

LEMMA QuitTries ==
    ASSUME StorageInv, NEW p \in Processes, proc[p].at \in TakingStages, NEW why, Quit(p, why),
           lock' = lock, UNCHANGED <<disk, counters, served>>
    PROVE  StorageInv'
<1>1. UNCHANGED <<main, online, pre, aside, copied, epochs, edits, served>>
  BY DEF disk, counters
<1>2. /\ proc' = [q \in Processes |-> proc'[q]]
      /\ \A q \in Processes \ {p} : proc'[q] = proc[q]
      /\ proc'[p] = [Off EXCEPT !.why = why, !.kind = proc[p].kind]
  BY TakingFacts DEF Quit
<1>3. /\ {"at", "kind", "pid", "db", "old", "why"} \subseteq DOMAIN proc'[p]
      /\ proc'[p].at = "off" /\ proc'[p].db = NoDb /\ proc'[p].old = NoDb
  BY <1>2 DEF Off
<1>4. Tries(p)
  BY <1>1, <1>2, <1>3, TakingFacts, NoDbTyped DEF Tries
<1>5. Locked'
  <2>1. \A q \in Processes : proc'[q].at # "off" => q # p /\ proc'[q] = proc[q]
    BY <1>2, <1>3
  <2>2. "off" \notin TakingStages \cup HoldingStages \cup {"dead", "again", "made"}
    BY DEF TakingStages, HoldingStages
  <2> QED
    BY <2>1, <2>2, TakingFacts DEF Locked
<1> QED
  BY <1>4, <1>5, TakingFacts, TryStep

LEMMA CreateStep ==
    ASSUME StorageInv, NEW p \in Processes, proc[p].at \in TakingStages, Create(p),
           \A q \in Processes : proc[q].at \notin HoldingStages,
           UNCHANGED <<disk, counters, served>>
    PROVE  StorageInv'
<1>1. lock' = [by |-> p, pid |-> 0] /\ At(p, "made") /\ "made" \in TakingStages
  BY DEF Create, TakingStages
<1>2. /\ Tries(p) /\ proc'[p].at = "made" /\ proc'[p].pid = proc[p].pid
      /\ \A q \in Processes \ {p} : proc'[q] = proc[q]
  BY <1>1, TriesAt
<1>3. Locked'
  BY <1>1, <1>2, TakingFacts DEF Locked, TakingStages, HoldingStages
<1> QED
  BY <1>1, <1>2, <1>3, TakingFacts, TryStep

LEMMA TakeStep ==
    ASSUME StorageInv, NEW p \in Processes, Take(p)
    PROVE  StorageInv'
<1>1. proc[p].at = "try" /\ {"try", "read"} \subseteq TakingStages /\ UNCHANGED <<disk, counters, served>>
  BY DEF Take, TakingStages
<1>2. CASE lock = NoLock /\ Create(p)
  <2>1. \A q \in Processes : proc[q].at \notin HoldingStages
    <3>1. \A q \in Processes : proc[q].at \in HoldingStages => proc[q].pid # 0 /\ lock.pid = proc[q].pid
      BY HolderFacts
    <3> QED
      BY <1>2, <3>1 DEF NoLock
  <2> QED
    BY <1>1, <1>2, <2>1, CreateStep
<1>3. CASE At(p, "read") /\ UNCHANGED lock
  <2>1. /\ Tries(p) /\ proc'[p].at = "read" /\ proc'[p].pid = proc[p].pid
        /\ \A q \in Processes \ {p} : proc'[q] = proc[q]
    BY <1>1, <1>3, TriesAt
  <2>2. Locked'
    BY <1>1, <1>3, <2>1, TakingFacts DEF Locked, TakingStages, HoldingStages
  <2> QED
    BY <1>1, <1>3, <2>1, <2>2, TakingFacts, TryStep
<1> QED
  BY <1>2, <1>3 DEF Take

LEMMA ReadStep ==
    ASSUME StorageInv, NEW p \in Processes, Read(p)
    PROVE  StorageInv'
<1>1. /\ proc[p].at = "read" /\ {"read", "dead"} \subseteq TakingStages
      /\ UNCHANGED <<lock, disk, counters, served>>
  BY DEF Read, TakingStages
<1>2. CASE \E why : Quit(p, why)
  BY <1>1, <1>2, QuitTries
<1>3. CASE lock.pid \notin AlivePids /\ At(p, "dead")
  <2>1. /\ Tries(p) /\ proc'[p].at = "dead" /\ proc'[p].pid = proc[p].pid
        /\ \A q \in Processes \ {p} : proc'[q] = proc[q]
    BY <1>1, <1>3, TriesAt
  <2>2. \A q \in Processes : proc[q].at \notin HoldingStages
    <3>1. \A q \in Processes : proc[q].at \in HoldingStages => q \in Alive /\ lock.pid = proc[q].pid
      BY HolderFacts DEF Holders
    <3> QED
      BY <1>3, <3>1 DEF AlivePids
  <2>3. Locked'
    BY <1>1, <2>1, <2>2, TakingFacts DEF Locked, TakingStages, HoldingStages
  <2> QED
    BY <1>1, <2>1, <2>3, TakingFacts, TryStep
<1> QED
  BY <1>2, <1>3 DEF Read

LEMMA UnlinkStep ==
    ASSUME StorageInv, NEW p \in Processes, Unlink(p)
    PROVE  StorageInv'
<1>1. /\ proc[p].at = "dead" /\ {"again", "dead"} \subseteq TakingStages
      /\ UNCHANGED <<disk, counters, served>>
  BY DEF Unlink, TakingStages
<1>2. CASE (\E why : Quit(p, why)) /\ UNCHANGED lock
  BY <1>1, <1>2, QuitTries
<1>3. CASE lock' = NoLock /\ At(p, "again")
  <2>1. /\ Tries(p) /\ proc'[p].at = "again" /\ proc'[p].pid = proc[p].pid
        /\ \A q \in Processes \ {p} : proc'[q] = proc[q]
    BY <1>1, <1>3, TriesAt
  <2>2. Locked'
    BY <1>1, <2>1, TakingFacts DEF Locked, TakingStages, HoldingStages
  <2> QED
    BY <1>1, <1>3, <2>1, <2>2, TakingFacts, TryStep DEF NoLock
<1> QED
  BY <1>2, <1>3 DEF Unlink

LEMMA AgainStep ==
    ASSUME StorageInv, NEW p \in Processes, Again(p)
    PROVE  StorageInv'
<1>1. proc[p].at = "again" /\ "again" \in TakingStages /\ UNCHANGED <<disk, counters, served>>
  BY DEF Again, TakingStages
<1>2. CASE (\E why : Quit(p, why)) /\ UNCHANGED lock
  BY <1>1, <1>2, QuitTries
<1>3. CASE Create(p)
  BY <1>1, <1>3, TakingFacts, CreateStep DEF Locked
<1> QED
  BY <1>2, <1>3 DEF Again

LEMMA WriteStep ==
    ASSUME StorageInv, NEW p \in Processes, Write(p)
    PROVE  StorageInv'
<1>1. /\ proc[p].at = "made" /\ "made" \in TakingStages /\ At(p, "held")
      /\ UNCHANGED <<disk, counters, served>>
  BY DEF Write, TakingStages
<1>2. lock' = [lock EXCEPT !.pid = proc[p].pid]
  BY <1>1, TakingFacts DEF Write, Locked
<1>3. lock'.pid = proc[p].pid /\ lock'.by = lock.by /\ {"by", "pid"} = DOMAIN lock'
  BY <1>1, <1>2, TakingFacts
<1>4. /\ Tries(p) /\ proc'[p].at = "held" /\ proc'[p].pid = proc[p].pid
      /\ \A q \in Processes \ {p} : proc'[q] = proc[q]
  BY <1>1, TriesAt
<1>5. Locked'
  BY <1>1, <1>3, <1>4, TakingFacts DEF Locked, TakingStages, HoldingStages
<1> QED
  BY <1>1, <1>3, <1>4, <1>5, TakingFacts, TryStep

LEMMA CrashStep ==
    ASSUME StorageInv, NEW p \in Processes, Crash(p)
    PROVE  StorageInv'
<1>1. TablesTyped /\ ProcTyped /\ WorkInv /\ EpochInv /\ EditsKept /\ Locked
  BY LockStages DEF StorageInv
<1>2. /\ UNCHANGED <<lock, main, online, pre, aside, copied, epochs, edits, served>>
      /\ proc' = [q \in Processes |-> proc'[q]]
      /\ \A q \in Processes \ {p} : proc'[q] = proc[q]
      /\ proc'[p] = Off
  BY <1>1 DEF Crash, disk, TablesTyped
<1>3. /\ {"at", "kind", "pid", "db", "old", "why"} \subseteq DOMAIN Off
      /\ Off.at = "off" /\ Off.db = NoDb /\ Off.old = NoDb
  BY DEF Off
<1>4. /\ \A q \in Processes : proc'[q].at # "off" => q # p /\ proc'[q] = proc[q]
      /\ "off" \notin TakingStages \cup HoldingStages \cup {"dead", "again", "made"}
  BY <1>2, <1>3 DEF TakingStages, HoldingStages
<1>5. DbType' = DbType /\ EditsKept' /\ TablesTyped'
  BY <1>1, <1>2 DEF DbType, EditsKept, TablesTyped
<1>6. ProcTyped'
  BY <1>1, <1>2, <1>3, <1>5, NoDbTyped DEF ProcTyped, TablesTyped
<1>7. LockInv'
  <2>1. Locked'
    BY <1>1, <1>2, <1>4 DEF Locked
  <2> QED
    BY <1>6, <2>1, LockStages, PTL
<1>8. WorkInv'
  BY <1>1, <1>2, <1>4 DEF WorkInv
<1>9. EpochInv'
  BY <1>1, <1>2, <1>4 DEF EpochInv, Continues
<1> QED
  BY <1>5, <1>6, <1>7, <1>8, <1>9 DEF StorageInv

(* Backup and what operators do by hand: the processes stay as they are. *)
LEMMA BesideStep ==
    ASSUME StorageInv, UNCHANGED <<lock, proc, epochs, edits, served>>,
           {main', pre'} \cup online' \cup aside' \subseteq DbType, copied' \in BOOLEAN,
           Files \ {NoDb} \subseteq Files',
           Alive = {} \/ (main' = main /\ copied' = copied),
           ~copied' => main' = main /\ copied' = copied
    PROVE  StorageInv'
<1>1. TablesTyped /\ ProcTyped /\ LockInv /\ WorkInv /\ EpochInv /\ EditsKept
  BY DEF StorageInv
<1>2. DbType' = DbType
  BY DEF DbType
<1>3. TablesTyped' /\ ProcTyped' /\ LockInv'
  BY <1>1, <1>2 DEF TablesTyped, ProcTyped, LockInv, Taking, Holders, Alive
<1>4. EditsKept'
  BY <1>1, NoDbTyped DEF EditsKept, Files, TablesTyped
<1>5. CASE Alive = {}
  <2>1. \A p \in Processes : proc[p].at = "off"
    BY <1>5 DEF Alive
  <2>2. WorkInv' /\ EpochInv'
    BY <1>1, <2>1 DEF WorkInv, EpochInv, Continues, TakingStages
  <2> QED
    BY <1>3, <1>4, <2>2 DEF StorageInv
<1>6. CASE main' = main /\ copied' = copied
  <2>1. WorkInv' /\ EpochInv'
    BY <1>1, <1>6 DEF WorkInv, EpochInv, Continues
  <2> QED
    BY <1>3, <1>4, <2>1 DEF StorageInv
<1> QED
  BY <1>5, <1>6

LEMMA BackupStep ==
    ASSUME StorageInv, Backup \/ PutAway \/ \E b \in online : CopyByHand(b)
    PROVE  StorageInv'
<1>1. TablesTyped
  BY DEF StorageInv
<1>2. CASE Backup
  BY <1>1, <1>2, BesideStep DEF Backup, TablesTyped, Files, counters
<1>3. CASE PutAway
  BY <1>1, <1>3, BesideStep, NoDbTyped DEF PutAway, TablesTyped, Files, counters
<1>4. ASSUME NEW b \in online, CopyByHand(b)
      PROVE  StorageInv'
  <2>1. /\ Alive = {}
        /\ aside' = aside \cup ({main} \ {NoDb}) /\ main' = b
        /\ UNCHANGED <<lock, proc, online, pre, epochs, edits, served>>
    BY <1>4 DEF CopyByHand, counters
  <2>2. {main', pre'} \cup online' \cup aside' \subseteq DbType /\ Files \ {NoDb} \subseteq Files'
    BY <1>1, <2>1 DEF TablesTyped, Files
  <2>3. copied' \in BOOLEAN /\ copied'
    BY <1>4 DEF CopyByHand
  <2>4. Alive = {} \/ (main' = main /\ copied' = copied)
    BY <1>4 DEF CopyByHand
  <2>5. ~copied' => main' = main /\ copied' = copied
    BY <2>3
  <2>6. UNCHANGED <<lock, proc, epochs, edits, served>>
    BY <2>1
  <2> QED
    BY <2>2, <2>3, <2>4, <2>5, <2>6, BesideStep, Zenon
<1> QED
  BY <1>2, <1>3, <1>4

-----------------------------------------------------------------------------
LEMMA StorageInit == Init => StorageInv
<1> SUFFICES ASSUME Init PROVE StorageInv
  OBVIOUS
<1>1. /\ lock = NoLock /\ proc = [p \in Processes |-> Off] /\ main \in Dbs /\ pre = NoDb
      /\ online \in {{}, {main} \ {NoDb}} /\ aside = {} /\ copied = FALSE
      /\ epochs = 1 /\ edits = Cardinality(main.edits) /\ served = [e \in {1} |-> main.edits]
  BY DEF Init
<1>2. /\ {"at", "kind", "pid", "db", "old", "why"} \subseteq DOMAIN Off
      /\ Off.at = "off" /\ Off.db = NoDb /\ Off.old = NoDb
  BY DEF Off
<1>3. \/ main = NoDb /\ edits = 0
      \/ /\ edits = 1 /\ main.edits = {1} /\ main.epoch = 1 /\ main.schema \in Supported
         /\ main \in [schema : Supported, epoch : {1}, edits : {{1}}]
  <2>1. Cardinality({}) = 0 /\ Cardinality({1}) = 1
    BY FS_EmptySet, FS_Singleton
  <2>2. CASE main = NoDb
    BY <1>1, <2>1, <2>2 DEF NoDb
  <2>3. CASE main \in [schema : Initial, epoch : {1}, edits : {{1}}]
    BY <1>1, <2>1, <2>3, StorageConstants DEF StorageConstants
  <2> QED
    BY <1>1, <2>2, <2>3 DEF Dbs
<1>4. main \in DbType /\ NoDb \in DbType /\ edits \in Nat /\ 1..edits \subseteq main.edits
  BY <1>1, <1>3 DEF DbType, NoDb
<1>5. TablesTyped /\ ProcTyped
  <2>1. \A p \in Processes : proc[p] = Off
    BY <1>1
  <2>2. ProcTyped
    BY <1>2, <1>4, <2>1 DEF ProcTyped
  <2> QED
    <3>1. lock.by = "nobody" /\ lock.pid = 0 /\ {"by", "pid"} = DOMAIN lock
      BY <1>1 DEF NoLock
    <3>2. proc = [p \in Processes |-> proc[p]] /\ copied \in BOOLEAN
      BY <1>1
    <3>3. {main, pre} \cup online \cup aside \subseteq DbType
      BY <1>1, <1>4
    <3>4. epochs \in Nat /\ DOMAIN served \subseteq 0..epochs
      BY <1>1
    <3> QED
      BY <1>4, <2>2, <3>1, <3>2, <3>3, <3>4 DEF TablesTyped
<1>6. Locked
  BY <1>1, <1>2 DEF Locked, TakingStages, HoldingStages
<1>7. LockInv
  BY <1>5, <1>6, LockStages
<1>8. WorkInv
  BY <1>1, <1>2 DEF WorkInv, TakingStages
<1>9. Continues(main)
  BY <1>1 DEF Continues
<1>10. EpochInv
  BY <1>1, <1>2, <1>9 DEF EpochInv
<1>11. EditsKept
  BY <1>4 DEF EditsKept
<1> QED
  BY <1>5, <1>7, <1>8, <1>10, <1>11 DEF StorageInv

LEMMA StorageNext == AtOnce = 1 /\ StorageInv /\ [Next]_vars => StorageInv'
<1> SUFFICES ASSUME AtOnce = 1, StorageInv, [Next]_vars PROVE StorageInv'
  OBVIOUS
<1>1. ASSUME NEW p \in Processes, NEW kind \in Kinds, NEW pid \in Pids, Start(p, kind, pid)
      PROVE  StorageInv'
  BY <1>1, StartStep
<1>2. ASSUME NEW p \in Processes, Take(p) \/ Read(p) \/ Unlink(p) \/ Again(p) \/ Write(p)
      PROVE  StorageInv'
  BY <1>2, TakeStep, ReadStep, UnlinkStep, AgainStep, WriteStep
<1>3. ASSUME NEW p \in Processes,
             Open(p) \/ Migrate(p) \/ Edit(p) \/ Stop(p) \/ Compact(p) \/ Keep(p)
      PROVE  StorageInv'
  BY <1>3, OpenStep, MigrateStep, EditStep, StopStep, KeepStep
<1>4. ASSUME NEW p \in Processes, NEW b \in online \cup {pre}, Stage(p, b)
      PROVE  StorageInv'
  BY <1>4, StageStep
<1>5. ASSUME NEW p \in Processes,
             Displace(p) \/ Swap(p) \/ SwapFails(p) \/ Rotate(p) \/ Crash(p)
      PROVE  StorageInv'
  BY <1>5, DisplaceStep, SwapStep, RotateStep, CrashStep
<1>6. ASSUME Backup \/ PutAway \/ \E b \in online : CopyByHand(b)
      PROVE  StorageInv'
  BY <1>6, BackupStep
<1>7. CASE UNCHANGED vars
  <2>1. UNCHANGED <<lock, proc, main, online, pre, aside, copied, epochs, edits, served>>
    BY <1>7 DEF vars, disk, counters
  <2> QED
    <3>1. copied' \in BOOLEAN /\ {main', pre'} \cup online' \cup aside' \subseteq DbType
      BY <2>1 DEF StorageInv, TablesTyped
    <3>2. Files \ {NoDb} \subseteq Files'
      BY <2>1 DEF Files
    <3> QED
      BY <2>1, <3>1, <3>2, BesideStep
<1> QED
  BY <1>1, <1>2, <1>3, <1>4, <1>5, <1>6, <1>7 DEF Next

(* Whichever process runs, one at a time has the lock; every edit the server  *)
(* ever accepted is in a file of the data directory, whichever call a restore, *)
(* a migration or a start dies at.                                             *)
LEMMA InvIsSafe == StorageInv => StorageSafe
<1> SUFFICES ASSUME StorageInv PROVE StorageSafe
  OBVIOUS
<1>1. TablesTyped /\ ProcTyped /\ LockInv /\ WorkInv /\ EditsKept
  BY DEF StorageInv
<1>2. StorageTypeOK
  BY <1>1, AliveStages DEF StorageTypeOK, TablesTyped, ProcTyped, WorkInv
<1>3. OneHolder
  <2>1. CASE Holders = {}
    BY <2>1, FS_EmptySet DEF OneHolder
  <2>2. CASE Holders # {}
    <3>1. PICK p : Holders = {p}
      <4>1. PICK p \in Holders : TRUE
        BY <2>2
      <4>2. \A q \in Holders : q = p
        BY <1>1, <4>1 DEF LockInv
      <4> QED
        BY <4>1, <4>2
    <3>2. Cardinality(Holders) = 1
      BY <3>1, FS_Singleton
    <3> QED
      BY <3>2 DEF OneHolder
  <2> QED
    BY <2>1, <2>2
<1> QED
  BY <1>1, <1>2, <1>3 DEF StorageSafe

THEOREM StorageIsSafe == AtOnce = 1 => (Spec => []StorageSafe)
<1> SUFFICES ASSUME AtOnce = 1 PROVE Spec => []StorageSafe
  OBVIOUS
<1>1. StorageInv /\ [Next]_vars => StorageInv'
  BY StorageNext
<1> QED
  BY <1>1, StorageInit, InvIsSafe, PTL DEF Spec

(* Within one epoch what the service shows never goes back to an earlier state, *)
(* whatever was restored, migrated or copied in between, and wherever it died.  *)
LEMMA ShownGrows ==
    ASSUME StorageInv, [Next]_vars
    PROVE  \A e \in DOMAIN served : served[e] \subseteq served'[e]
<1>1. CASE UNCHANGED served
  BY <1>1
<1>2. ASSUME NEW p \in Processes, Open(p) \/ Migrate(p) \/ Edit(p), ~UNCHANGED served
      PROVE  /\ Shown(main') /\ main'.schema >= 3
             /\ main'.epoch \in DOMAIN served => served[main'.epoch] \subseteq main'.edits
  <2>1. /\ proc[p].at \in HoldingStages /\ proc[p].kind = "service" /\ ~copied
    BY <1>2 DEF Open, Migrate, Edit, HoldingStages, StorageInv, EpochInv, WorkInv
  <2>2. main \in DbType /\ epochs \in Nat /\ DOMAIN served \subseteq 0..epochs /\ Continues(main)
    BY <2>1, HolderFacts
  <2>3. CASE Open(p)
    <3>1. CASE main = NoDb /\ main' = [Rotated(NoDb) EXCEPT !.schema = SchemaVersion] /\ Shown(main')
      BY <2>2, <3>1 DEF Rotated, NoDb, SchemaVersion
    <3>2. CASE main.schema = SchemaVersion /\ main' = main /\ Shown(main)
      BY <2>2, <3>2 DEF Continues, SchemaVersion
    <3> QED
      BY <1>2, <2>3, <3>1, <3>2 DEF Open
  <2>4. CASE Migrate(p)
    <3>1. main.schema \in Supported /\ Shown(main')
      BY <2>4 DEF StorageInv, WorkInv, Migrate
    <3>2. CASE main.schema = 2
      BY <2>2, <2>4, <3>1, <3>2 DEF Migrate, Rotated, SchemaVersion, DbType
    <3>3. CASE main.schema # 2
      BY <2>2, <2>4, <3>1, <3>3 DEF Migrate, SchemaVersion, DbType, Continues, Supported
    <3> QED
      BY <3>2, <3>3
  <2>5. CASE Edit(p)
    <3>1. main.schema = SchemaVersion
      BY <2>5 DEF Edit, StorageInv, WorkInv
    <3> QED
      BY <2>2, <2>5, <3>1 DEF Edit, Continues, SchemaVersion, DbType
  <2> QED
    BY <1>2, <2>3, <2>4, <2>5
<1>3. ASSUME NEW p \in Processes, Open(p) \/ Migrate(p) \/ Edit(p), ~UNCHANGED served
      PROVE  \A e \in DOMAIN served : served[e] \subseteq served'[e]
  BY <1>2, <1>3 DEF Shown
<1>4. UNCHANGED served \/ \E p \in Processes : Open(p) \/ Migrate(p) \/ Edit(p)
  BY DEF Next, vars, Start, Take, Read, Unlink, Again, Write, Stop, Stage, Keep, Displace, Swap,
         SwapFails, Compact, Rotate, Crash, Backup, PutAway, CopyByHand
<1> QED
  BY <1>1, <1>3, <1>4

THEOREM EpochsNeverGoBack == AtOnce = 1 => (Spec => EpochsGoForward)
<1> SUFFICES ASSUME AtOnce = 1 PROVE Spec => EpochsGoForward
  OBVIOUS
<1>1. StorageInv /\ [Next]_vars => StorageInv'
  BY StorageNext
<1>2. StorageInv /\ [Next]_vars => [\A e \in DOMAIN served : served[e] \subseteq served'[e]]_vars
  BY ShownGrows
<1> QED
  BY <1>1, <1>2, StorageInit, PTL DEF Spec, EpochsGoForward

-----------------------------------------------------------------------------
(***************************************************************************)
(* What a rotation keeps, for any sequence of backups, adoptions, crashes  *)
(* and days, and any numbers of days, weeks and months.  A backup that is  *)
(* due when a rotation lists is kept by it; one that is not due then is    *)
(* never due again, so that the rotation may remove it however late, and   *)
(* whatever another rotation has removed in between.                       *)
(***************************************************************************)
Bucket(t, days) == Retention!DayOf(t) \div days
Buckets(set, days) == {Bucket(u, days) : u \in set}

(* Backup t of a set is the newest of a bucket, and the bucket is among the *)
(* last ones.                                                               *)
NewestIn(set, t, limit, days) ==
    /\ \A u \in set : Bucket(u, days) = Bucket(t, days) => u <= t
    /\ Cardinality(Buckets({u \in set : Bucket(u, days) > Bucket(t, days)}, days)) < limit

Due(set, t) ==
    \/ NewestIn(set, t, Daily, 1)
    \/ NewestIn(set, t, Weekly, DaysOfWeek)
    \/ NewestIn(set, t, Monthly, DaysOfMonth)

RetentionTyped ==
    /\ clock \in [day : Nat, n : 0 .. PerDay] /\ tampers \in Nat
    /\ files \subseteq [stamp : Nat, marked : BOOLEAN, intact : BOOLEAN]
    /\ marks \subseteq Nat
    /\ job \in [Jobs -> [at : {"idle", "copied", "list", "remove"}, own : Nat, todo : SUBSET Nat]]

(* A backup has a stamp of its own, of a time that is past.                 *)
Dated ==
    /\ \A f \in files : f.stamp < Retention!Stamp
    /\ \A t \in marks : t < Retention!Stamp
    /\ \A f, g \in files : f.stamp = g.stamp => f = g

(* Manifests are not taken away, and only tampering damages a backup.       *)
Manifests ==
    /\ \A f \in files : f.marked <=> f.stamp \in marks
    /\ tampers = 0 => \A f \in files : f.intact

DueStay == tampers = 0 => \A t \in marks : Due(marks, t) => Retention!Has(t)

NotDue == \A j \in Jobs : \A t \in job[j].todo : t \in marks /\ ~Due(marks, t)

RetentionInv ==
    /\ RetentionTyped /\ Dated /\ Manifests /\ DueStay /\ NotDue
    /\ Retention!OnlyOwnAndIntact

-----------------------------------------------------------------------------
LEMMA SameCardinality == \A S : Retention!Cardinality(S) = Cardinality(S)
  BY DEF Retention!Cardinality, Cardinality

LEMMA RetentionNumbers ==
    /\ Daily \in Nat \ {0} /\ Weekly \in Nat \ {0} /\ Monthly \in Nat \ {0}
    /\ DaysOfWeek \in Nat \ {0} /\ DaysOfMonth \in Nat \ {0}
    /\ PerDay \in Nat /\ Days \in Nat
  BY RecoveryConstants DEF RecoveryConstants, Retention!RetentionConstants

LEMMA DayIsBucket == \A t \in Nat : Bucket(t, 1) = Retention!DayOf(t)
  BY RetentionNumbers DEF Bucket, Retention!DayOf

LEMMA BucketsFinite ==
    ASSUME NEW S, IsFiniteSet(S), NEW days
    PROVE  IsFiniteSet(Buckets(S, days))
<1> DEFINE f == [u \in S |-> Bucket(u, days)]
<1>1. f \in Surjection(S, Buckets(S, days))
  BY DEF Surjection, Buckets
<1> QED
  BY <1>1, FS_Surjection

(* A backup that is due among more is due among fewer.                      *)
LEMMA NewestAmongFewer ==
    ASSUME NEW S, NEW T, S \subseteq T, IsFiniteSet(T), NEW t \in S,
           NEW limit \in Nat, NEW days, NewestIn(T, t, limit, days)
    PROVE  NewestIn(S, t, limit, days)
<1> DEFINE Above(set) == {u \in set : Bucket(u, days) > Bucket(t, days)}
<1>1. IsFiniteSet(Buckets(Above(T), days))
  BY FS_Subset, BucketsFinite
<1>2. Buckets(Above(S), days) \subseteq Buckets(Above(T), days)
  BY DEF Buckets
<1>3. /\ Cardinality(Buckets(Above(S), days)) <= Cardinality(Buckets(Above(T), days))
      /\ Cardinality(Buckets(Above(S), days)) \in Nat
      /\ Cardinality(Buckets(Above(T), days)) \in Nat
  BY <1>1, <1>2, FS_Subset, FS_CardinalityType
<1>4. Cardinality(Buckets(Above(T), days)) < limit
  BY DEF NewestIn
<1> HIDE DEF Above
<1>5. Cardinality(Buckets(Above(S), days)) < limit
  BY <1>3, <1>4
<1> QED
  BY <1>5 DEF NewestIn, Above

LEMMA DueAmongFewer ==
    ASSUME NEW S, NEW T, S \subseteq T, IsFiniteSet(T), NEW t \in S, Due(T, t)
    PROVE  Due(S, t)
  BY NewestAmongFewer, RetentionNumbers DEF Due

(* What a rotation keeps.                                                   *)
LastBuckets(S, limit, days) ==
    {b \in Buckets(S, days) : Retention!Cardinality({c \in Buckets(S, days) : c > b}) < limit}
NewestOfLast(S, limit, days) ==
    {Retention!Max({u \in S : Bucket(u, days) = b}) : b \in LastBuckets(S, limit, days)}

LEMMA NewestIsMax ==
    ASSUME NEW S \in SUBSET Nat, NEW t \in S, NEW limit, NEW days, NewestIn(S, t, limit, days)
    PROVE  t \in NewestOfLast(S, limit, days)
<1> DEFINE b == Bucket(t, days)
           buckets == Buckets(S, days)
           same == {u \in S : Bucket(u, days) = b}
<1>1. b \in buckets
  BY DEF Buckets
<1>2. {c \in buckets : c > b} = Buckets({u \in S : Bucket(u, days) > b}, days)
  BY DEF Buckets
<1>3. Retention!Cardinality({c \in buckets : c > b}) < limit
  BY <1>2, SameCardinality DEF NewestIn
<1>4. t \in same /\ \A u \in same : t >= u
  BY DEF NewestIn
<1>5. same \subseteq Nat
  OBVIOUS
<1>6. Retention!Max(same) = t
  <2> HIDE DEF same
  <2>1. PICK m : m = Retention!Max(same)
    OBVIOUS
  <2>2. m \in same /\ \A u \in same : m >= u
    BY <2>1, <1>4 DEF Retention!Max
  <2>3. m \in Nat /\ t \in Nat /\ m >= t /\ t >= m
    BY <2>2, <1>4, <1>5
  <2> QED
    BY <2>1, <2>3
<1> QED
  BY <1>1, <1>3, <1>6 DEF NewestOfLast, LastBuckets

LEMMA DueIsKept ==
    ASSUME NEW S \in SUBSET Nat, NEW t \in S, Due(S, t)
    PROVE  t \in Retention!Keep(S)
<1>1. CASE NewestIn(S, t, Daily, 1)
  <2>1. t \in NewestOfLast(S, Daily, 1)
    BY <1>1, NewestIsMax
  <2>2. Buckets(S, 1) = {Retention!DayOf(u) : u \in S}
    BY DayIsBucket DEF Buckets
  <2>3. \A b : {u \in S : Bucket(u, 1) = b} = {u \in S : Retention!DayOf(u) = b}
    BY DayIsBucket
  <2>4. NewestOfLast(S, Daily, 1) = Retention!NewestOf(S, Daily, Retention!DayOf)
    <3>1. LastBuckets(S, Daily, 1)
            = LET buckets == {Retention!DayOf(u) : u \in S}
              IN  {b \in buckets : Retention!Cardinality({c \in buckets : c > b}) < Daily}
      BY <2>2 DEF LastBuckets
    <3> QED
      BY <3>1, <2>3 DEF Retention!NewestOf, NewestOfLast
  <2> QED
    BY <2>1, <2>4 DEF Retention!Keep
<1>2. CASE NewestIn(S, t, Weekly, DaysOfWeek)
  <2>1. t \in NewestOfLast(S, Weekly, DaysOfWeek)
    BY <1>2, NewestIsMax
  <2>2. NewestOfLast(S, Weekly, DaysOfWeek) = Retention!NewestOf(S, Weekly, Retention!WeekOf)
    BY DEF Retention!NewestOf, Retention!WeekOf, Buckets, Bucket, NewestOfLast, LastBuckets
  <2> QED
    BY <2>1, <2>2 DEF Retention!Keep
<1>3. CASE NewestIn(S, t, Monthly, DaysOfMonth)
  <2>1. t \in NewestOfLast(S, Monthly, DaysOfMonth)
    BY <1>3, NewestIsMax
  <2>2. NewestOfLast(S, Monthly, DaysOfMonth) = Retention!NewestOf(S, Monthly, Retention!MonthOf)
    BY DEF Retention!NewestOf, Retention!MonthOf, Buckets, Bucket, NewestOfLast, LastBuckets
  <2> QED
    BY <2>1, <2>2 DEF Retention!Keep
<1> QED
  BY <1>1, <1>2, <1>3 DEF Due

LEMMA DueStayIsNewestStay == DueStay => Retention!NewestStay
<1> DEFINE bucket(days) == [u \in marks |-> Retention!DayOf(u) \div days]
           above(days, t) == {bucket(days)[u] : u \in {v \in marks : bucket(days)[v] > bucket(days)[t]}}
           Wanted(t, limit, days) ==
             /\ \A u \in marks : bucket(days)[u] = bucket(days)[t] => u <= t
             /\ Retention!Cardinality(above(days, t)) < limit
<1>1. ASSUME NEW t \in marks, NEW limit, NEW days, Wanted(t, limit, days)
      PROVE  NewestIn(marks, t, limit, days)
  <2>1. \A u \in marks : bucket(days)[u] = Bucket(u, days)
    BY DEF Bucket
  <2>2. {v \in marks : bucket(days)[v] > bucket(days)[t]} = {u \in marks : Bucket(u, days) > Bucket(t, days)}
    BY <2>1
  <2>3. above(days, t) = Buckets({u \in marks : Bucket(u, days) > Bucket(t, days)}, days)
    BY <2>1, <2>2 DEF Buckets
  <2> QED
    BY <1>1, <2>1, <2>3, SameCardinality DEF NewestIn
<1>2. ASSUME DueStay, tampers = 0, NEW t \in marks,
             \/ Wanted(t, Daily, 1) \/ Wanted(t, Weekly, DaysOfWeek)
             \/ Wanted(t, Monthly, DaysOfMonth)
      PROVE  Retention!Has(t)
  <2> HIDE DEF Wanted
  <2> QED
    BY <1>1, <1>2 DEF DueStay, Due
<1> QED
  BY <1>2 DEF Retention!NewestStay

-----------------------------------------------------------------------------
LEMMA PastIsFinite ==
    ASSUME NEW S \in SUBSET Nat, NEW n \in Nat, \A t \in S : t < n
    PROVE  IsFiniteSet(S)
<1>1. \A t \in S : t <= n
  OBVIOUS
<1> QED
  BY <1>1, FS_BoundedSetOfNaturals

(* Marks only grow, so what is not due stays that way, and what is due and  *)
(* was marked before was due before.                                        *)
LEMMA DueWasDue ==
    ASSUME marks \subseteq marks', IsFiniteSet(marks'), NEW t \in marks, Due(marks', t)
    PROVE  Due(marks, t)
  BY DueAmongFewer

(* The backup that is found by its stamp. *)
LEMMA TheFile ==
    ASSUME NEW t, Retention!Has(t)
    PROVE  Retention!File(t) \in files /\ Retention!File(t).stamp = t
  BY DEF Retention!Has, Retention!File

LEMMA LargestOfTodo ==
    ASSUME RetentionTyped, Dated, NotDue, NEW j \in Jobs, job[j].todo # {}
    PROVE  Retention!Max(job[j].todo) \in job[j].todo
<1>1. PICK todo : todo = job[j].todo
  OBVIOUS
<1>2. todo \subseteq Nat /\ todo # {} /\ \A t \in todo : t < Retention!Stamp
  BY <1>1 DEF NotDue, Dated, RetentionTyped
<1>3. Retention!Stamp \in Nat
  BY RetentionNumbers DEF RetentionTyped, Retention!Stamp
<1> DEFINE gaps == {Retention!Stamp - t : t \in todo}
<1>4. gaps \subseteq Nat /\ gaps # {}
  <2>1. \A t \in todo : Retention!Stamp - t \in Nat
    BY <1>2, <1>3
  <2> QED
    BY <1>2, <2>1
<1> HIDE DEF gaps
<1>5. PICK g \in gaps : \A h \in gaps : ~(h < g)
  <2>1. PICK g \in gaps : \A h \in gaps : ~(<<h, g>> \in OpToRel(<, Nat))
    BY <1>4, WFMin, NatLessThanWellFounded, Zenon
  <2> QED
    BY <1>4, <2>1 DEF OpToRel
<1>6. PICK m \in todo : g = Retention!Stamp - m
  BY DEF gaps
<1>7. \A t \in todo : m >= t
  <2> TAKE t \in todo
  <2>1. ~(Retention!Stamp - t < Retention!Stamp - m)
    BY <1>5, <1>6 DEF gaps
  <2> QED
    BY <2>1, <1>2, <1>3
<1>8. PICK x : x = Retention!Max(todo)
  OBVIOUS
<1> QED
  BY <1>1, <1>7, <1>8 DEF Retention!Max

-----------------------------------------------------------------------------
(* A step of a rotation that neither makes nor marks a backup. *)
LEMMA CopyKeeps ==
    ASSUME RetentionInv, NEW j \in Jobs, Retention!Copy(j)
    PROVE  RetentionInv'
<1> USE RetentionNumbers DEF RetentionInv
<1>1. /\ clock' = [clock EXCEPT !.n = @ + 1] /\ clock.n < PerDay
      /\ files' = files \cup {[stamp |-> Retention!Stamp, marked |-> FALSE, intact |-> TRUE]}
      /\ job' = [job EXCEPT ![j] = [Retention!Idle EXCEPT !.at = "copied", !.own = Retention!Stamp]]
      /\ marks' = marks /\ tampers' = tampers /\ removed' = {}
  BY DEF Retention!Copy
<1>2. /\ clock.day \in Nat /\ clock.n \in Nat /\ clock'.day = clock.day /\ clock'.n = clock.n + 1
      /\ clock' \in [day : Nat, n : 0 .. PerDay]
  BY <1>1 DEF RetentionTyped
<1>3. Retention!Stamp \in Nat /\ (Retention!Stamp)' = Retention!Stamp + 1
  BY <1>2 DEF Retention!Stamp
<1> DEFINE new == [stamp |-> Retention!Stamp, marked |-> FALSE, intact |-> TRUE]
<1>4. RetentionTyped'
  <2>1. [Retention!Idle EXCEPT !.at = "copied", !.own = Retention!Stamp]
          \in [at : {"idle", "copied", "list", "remove"}, own : Nat, todo : SUBSET Nat]
    <3>1. PICK n \in Nat : n = Retention!Stamp
      BY <1>3
    <3> QED
      BY <3>1 DEF Retention!Idle
  <2>2. job' \in [Jobs -> [at : {"idle", "copied", "list", "remove"}, own : Nat, todo : SUBSET Nat]]
    BY <1>1, <1>3, <2>1 DEF RetentionTyped
  <2>3. new \in [stamp : Nat, marked : BOOLEAN, intact : BOOLEAN]
    BY <1>3
  <2> QED
    BY <1>1, <1>2, <2>2, <2>3 DEF RetentionTyped
<1>5. Retention!Stamp \notin marks /\ \A f \in files : f.stamp # Retention!Stamp
  BY <1>3 DEF Dated, RetentionTyped
<1>6. Dated'
  <2>1. \A f \in files : f.stamp \in Nat
    BY DEF RetentionTyped
  <2>2. new.stamp = Retention!Stamp /\ files' = files \cup {new}
    BY <1>1
  <2> HIDE DEF new
  <2>3. \A f \in files' : f.stamp < (Retention!Stamp)'
    BY <2>1, <2>2, <1>3 DEF Dated
  <2>4. \A t \in marks' : t < (Retention!Stamp)'
    BY <1>1, <1>3 DEF Dated, RetentionTyped
  <2>5. \A f, g \in files' : f.stamp = g.stamp => f = g
    BY <2>2, <1>5 DEF Dated
  <2> QED
    BY <2>3, <2>4, <2>5 DEF Dated
<1>7. Manifests'
  BY <1>1, <1>5 DEF Manifests
<1>8. DueStay'
  BY <1>1 DEF DueStay, Retention!Has
<1>9. NotDue'
  BY <1>1 DEF NotDue, Retention!Idle, RetentionTyped
<1>10. Retention!OnlyOwnAndIntact'
  BY <1>1 DEF Retention!OnlyOwnAndIntact
<1> QED
  BY <1>4, <1>6, <1>7, <1>8, <1>9, <1>10

LEMMA MarkKeeps ==
    ASSUME RetentionInv, NEW j \in Jobs, Retention!Mark(j)
    PROVE  RetentionInv'
<1> USE RetentionNumbers DEF RetentionInv
<1>1. PICK f : f = Retention!File(job[j].own) /\ f \in files
  BY TheFile DEF Retention!Mark
<1>2. clock' = clock /\ tampers' = tampers /\ removed' = {} /\ (Retention!Stamp)' = Retention!Stamp
  BY DEF Retention!Mark, Retention!Stamp
<1>3. Retention!OnlyOwnAndIntact'
  BY <1>2 DEF Retention!OnlyOwnAndIntact
<1>4. CASE f.marked \/ ~f.intact
  <2>1. job' = [job EXCEPT ![j] = Retention!Idle] /\ files' = files /\ marks' = marks
    BY <1>1, <1>4 DEF Retention!Mark
  <2>2. RetentionTyped'
    BY <1>2, <2>1 DEF RetentionTyped, Retention!Idle
  <2>3. NotDue'
    BY <2>1 DEF NotDue, Retention!Idle, RetentionTyped
  <2>4. Dated' /\ Manifests' /\ DueStay'
    BY <1>2, <2>1 DEF Dated, Manifests, DueStay, Retention!Has
  <2> QED
    BY <1>3, <2>2, <2>3, <2>4
<1>5. CASE ~(f.marked \/ ~f.intact)
  <2> DEFINE g == [f EXCEPT !.marked = TRUE]
  <2>1. /\ files' = (files \ {f}) \cup {g} /\ marks' = marks \cup {f.stamp}
        /\ job' = [job EXCEPT ![j].at = "list"]
    BY <1>1, <1>5 DEF Retention!Mark
  <2>2. /\ f.stamp \in Nat /\ g \in [stamp : Nat, marked : BOOLEAN, intact : BOOLEAN]
        /\ g.stamp = f.stamp /\ g.marked /\ g.intact = f.intact /\ f.intact
    BY <1>1, <1>5 DEF RetentionTyped
  <2> HIDE DEF g
  <2>3. RetentionTyped'
    BY <1>2, <2>1, <2>2 DEF RetentionTyped
  <2>4. Dated'
    <3>1. \A h \in files' : h.stamp < (Retention!Stamp)'
      BY <1>1, <1>2, <2>1, <2>2 DEF Dated
    <3>2. \A t \in marks' : t < (Retention!Stamp)'
      BY <1>1, <1>2, <2>1 DEF Dated
    <3>3. \A h, k \in files' : h.stamp = k.stamp => h = k
      BY <1>1, <2>1, <2>2 DEF Dated
    <3> QED
      BY <3>1, <3>2, <3>3 DEF Dated
  <2>5. Manifests'
    BY <1>1, <1>2, <2>1, <2>2 DEF Manifests, Dated
  <2>6. IsFiniteSet(marks')
    <3>1. marks' \subseteq Nat /\ (Retention!Stamp)' \in Nat
      <4>1. marks' \subseteq Nat
        BY <2>3 DEF RetentionTyped
      <4>2. Retention!Stamp \in Nat
        BY DEF RetentionTyped, Retention!Stamp
      <4> QED
        BY <1>2, <4>1, <4>2
    <3> QED
      BY <3>1, <2>4, PastIsFinite DEF Dated
  <2>7. DueStay'
    <3> SUFFICES ASSUME tampers' = 0, NEW t \in marks', Due(marks', t) PROVE Retention!Has(t)'
      BY DEF DueStay
    <3>1. CASE t = f.stamp
      BY <3>1, <2>1, <2>2 DEF Retention!Has
    <3>2. CASE t \in marks
      <4>1. Retention!Has(t)
        BY <3>2, <2>1, <2>6, <1>2, DueWasDue DEF DueStay
      <4> QED
        BY <4>1, <2>1, <2>2 DEF Retention!Has
    <3> QED
      BY <3>1, <3>2, <2>1
  <2>8. NotDue'
    <3> SUFFICES ASSUME NEW i \in Jobs, NEW t \in job'[i].todo PROVE t \in marks' /\ ~Due(marks', t)
      BY DEF NotDue
    <3>1. t \in marks /\ ~Due(marks, t)
      BY <2>1 DEF NotDue, RetentionTyped
    <3> QED
      BY <3>1, <2>1, <2>6, DueWasDue
  <2> QED
    BY <1>3, <2>3, <2>4, <2>5, <2>7, <2>8
<1> QED
  BY <1>4, <1>5

(* What an adoption, and the backup's own rotation, find in the directory.  *)
LEMMA Listed ==
    ASSUME RetentionInv, NEW j \in Jobs, Retention!List(j)
    PROVE  \E fs : /\ files' = fs /\ marks' = marks \cup Retention!Managed(fs)
                   /\ job' = [job EXCEPT ![j] =
                        [Retention!Idle EXCEPT !.at = "remove",
                           !.todo = Retention!Managed(fs) \ Retention!Keep(Retention!Managed(fs))]]
                   /\ \A g \in fs : \E f \in files :
                        /\ g = [stamp |-> f.stamp, marked |-> g.marked, intact |-> f.intact]
                        /\ g.marked = f.marked \/ (g.marked = TRUE /\ f.intact)
                   /\ \A f \in files : \E g \in fs : g.stamp = f.stamp
                   /\ \A g, h \in fs : g.stamp = h.stamp => g = h
<1> USE DEF RetentionInv
<1> DEFINE adopted == {[f EXCEPT !.marked = @ \/ f.intact] : f \in files}
<1>1. ASSUME NEW f \in files
      PROVE  LET g == [f EXCEPT !.marked = @ \/ f.intact]
             IN  /\ g = [stamp |-> f.stamp, marked |-> g.marked, intact |-> f.intact]
                 /\ g.marked = f.marked \/ (g.marked = TRUE /\ f.intact)
  BY DEF RetentionTyped
<1>2. CASE j = "adopt"
  <2>1. \A g \in adopted : \E f \in files :
          /\ g = [f EXCEPT !.marked = @ \/ f.intact]
          /\ g = [stamp |-> f.stamp, marked |-> g.marked, intact |-> f.intact]
          /\ g.marked = f.marked \/ (g.marked = TRUE /\ f.intact)
    <3> TAKE g \in adopted
    <3>1. PICK f \in files : g = [f EXCEPT !.marked = @ \/ f.intact]
      OBVIOUS
    <3>2. /\ g = [stamp |-> f.stamp, marked |-> g.marked, intact |-> f.intact]
          /\ g.marked = f.marked \/ (g.marked = TRUE /\ f.intact)
      BY <1>1, <3>1
    <3> QED
      BY <3>1, <3>2
  <2>2. \A f \in files : \E g \in adopted : g.stamp = f.stamp
    <3> TAKE f \in files
    <3>1. [f EXCEPT !.marked = @ \/ f.intact] \in adopted
      OBVIOUS
    <3>2. [f EXCEPT !.marked = @ \/ f.intact].stamp = f.stamp
      BY DEF RetentionTyped
    <3> QED
      BY <3>1, <3>2
  <2>3. \A g, h \in adopted : g.stamp = h.stamp => g = h
    <3> SUFFICES ASSUME NEW g \in adopted, NEW h \in adopted, g.stamp = h.stamp PROVE g = h
      OBVIOUS
    <3>1. PICK f \in files : g = [f EXCEPT !.marked = @ \/ f.intact] /\ g.stamp = f.stamp
      BY <2>1
    <3>2. PICK k \in files : h = [k EXCEPT !.marked = @ \/ k.intact] /\ h.stamp = k.stamp
      BY <2>1
    <3> HIDE DEF adopted
    <3>3. f = k
      BY <3>1, <3>2 DEF Dated
    <3> QED
      BY <3>1, <3>2, <3>3
  <2>4. /\ files' = adopted /\ marks' = marks \cup Retention!Managed(adopted)
        /\ job' = [job EXCEPT ![j] =
                     [Retention!Idle EXCEPT !.at = "remove",
                        !.todo = Retention!Managed(adopted) \ Retention!Keep(Retention!Managed(adopted))]]
    BY <1>2 DEF Retention!List
  <2>5. \A g \in adopted : \E f \in files :
          /\ g = [stamp |-> f.stamp, marked |-> g.marked, intact |-> f.intact]
          /\ g.marked = f.marked \/ (g.marked = TRUE /\ f.intact)
    BY <2>1
  <2> HIDE DEF adopted
  <2> WITNESS adopted
  <2> QED
    BY <2>2, <2>3, <2>4, <2>5
<1>3. CASE j # "adopt"
  <2>1. \A g \in files : \E f \in files :
          /\ g = [stamp |-> f.stamp, marked |-> g.marked, intact |-> f.intact]
          /\ g.marked = f.marked \/ (g.marked = TRUE /\ f.intact)
    BY DEF RetentionTyped
  <2>2. \A f \in files : \E g \in files : g.stamp = f.stamp
    OBVIOUS
  <2>3. \A g, h \in files : g.stamp = h.stamp => g = h
    BY DEF Dated
  <2>4. /\ files' = files /\ marks' = marks \cup Retention!Managed(files)
        /\ job' = [job EXCEPT ![j] =
                     [Retention!Idle EXCEPT !.at = "remove",
                        !.todo = Retention!Managed(files) \ Retention!Keep(Retention!Managed(files))]]
    BY <1>3 DEF Retention!List
  <2> QED
    BY <2>1, <2>2, <2>3, <2>4
<1> QED
  BY <1>2, <1>3

LEMMA ListKeeps ==
    ASSUME RetentionInv, NEW j \in Jobs, Retention!List(j)
    PROVE  RetentionInv'
<1> USE RetentionNumbers DEF RetentionInv
<1>1. PICK fs : /\ files' = fs /\ marks' = marks \cup Retention!Managed(fs)
                /\ job' = [job EXCEPT ![j] =
                     [Retention!Idle EXCEPT !.at = "remove",
                        !.todo = Retention!Managed(fs) \ Retention!Keep(Retention!Managed(fs))]]
                /\ \A g \in fs : \E f \in files :
                     /\ g = [stamp |-> f.stamp, marked |-> g.marked, intact |-> f.intact]
                     /\ g.marked = f.marked \/ (g.marked = TRUE /\ f.intact)
                /\ \A f \in files : \E g \in fs : g.stamp = f.stamp
                /\ \A g, h \in fs : g.stamp = h.stamp => g = h
  BY Listed
<1> DEFINE managed == Retention!Managed(fs)
<1>2. clock' = clock /\ tampers' = tampers /\ removed' = {} /\ (Retention!Stamp)' = Retention!Stamp
  BY DEF Retention!List, Retention!Stamp
<1>3. Retention!OnlyOwnAndIntact'
  BY <1>2 DEF Retention!OnlyOwnAndIntact
<1>4. ASSUME NEW g \in fs
      PROVE  \E f \in files : /\ g.stamp = f.stamp /\ g.intact = f.intact
                              /\ g.marked = f.marked \/ (g.marked = TRUE /\ f.intact)
                              /\ g \in [stamp : Nat, marked : BOOLEAN, intact : BOOLEAN]
  <2>1. PICK f \in files : /\ g = [stamp |-> f.stamp, marked |-> g.marked, intact |-> f.intact]
                           /\ g.marked = f.marked \/ (g.marked = TRUE /\ f.intact)
    BY <1>1
  <2>2. f.stamp \in Nat /\ f.marked \in BOOLEAN /\ f.intact \in BOOLEAN
    BY DEF RetentionTyped
  <2>3. g.marked \in BOOLEAN
    BY <2>1, <2>2
  <2> QED
    BY <2>1, <2>2, <2>3
<1>5. /\ \A t \in managed : \E g \in fs : g.stamp = t /\ g.marked /\ g.intact
      /\ \A g \in fs : g.marked /\ g.intact => g.stamp \in managed
  BY DEF Retention!Managed
<1> HIDE DEF managed
<1>6. managed \subseteq Nat
  BY <1>4, <1>5
<1>7. RetentionTyped'
  <2>1. [Retention!Idle EXCEPT !.at = "remove", !.todo = managed \ Retention!Keep(managed)]
          \in [at : {"idle", "copied", "list", "remove"}, own : Nat, todo : SUBSET Nat]
    <3>1. PICK set \in SUBSET Nat : set = managed \ Retention!Keep(managed)
      BY <1>6
    <3> QED
      BY <3>1 DEF Retention!Idle
  <2>2. job' \in [Jobs -> [at : {"idle", "copied", "list", "remove"}, own : Nat, todo : SUBSET Nat]]
    BY <1>1, <2>1 DEF RetentionTyped, managed
  <2>3. fs \subseteq [stamp : Nat, marked : BOOLEAN, intact : BOOLEAN]
    BY <1>4
  <2>4. marks' \subseteq Nat
    BY <1>1, <1>6 DEF RetentionTyped, managed
  <2> QED
    BY <1>1, <1>2, <2>2, <2>3, <2>4 DEF RetentionTyped
<1>8. Dated'
  <2>1. \A g \in fs : g.stamp < Retention!Stamp
    BY <1>4 DEF Dated
  <2>2. \A t \in managed : t < Retention!Stamp
    BY <1>5, <2>1
  <2>3. \A t \in marks' : t < Retention!Stamp
    BY <1>1, <2>2 DEF Dated, managed
  <2> QED
    BY <1>1, <1>2, <2>1, <2>3 DEF Dated
<1>9. IsFiniteSet(marks')
  <2>1. marks' \subseteq Nat
    BY <1>7 DEF RetentionTyped
  <2>2. Retention!Stamp \in Nat
    BY DEF RetentionTyped, Retention!Stamp
  <2> QED
    BY <1>2, <1>8, <2>1, <2>2, PastIsFinite DEF Dated
<1>10. marks' = marks \cup managed
  BY <1>1 DEF managed
<1>11. Manifests'
  <2>1. ASSUME NEW g \in fs PROVE g.marked <=> g.stamp \in marks'
    <3>1. PICK f \in files : /\ g.stamp = f.stamp /\ g.intact = f.intact
                             /\ g.marked = f.marked \/ (g.marked = TRUE /\ f.intact)
      BY <1>4
    <3>2. g.marked => g.stamp \in marks'
      <4>1. CASE g.marked = f.marked
        BY <4>1, <3>1, <1>10 DEF Manifests
      <4>2. CASE g.marked = TRUE /\ f.intact
        BY <4>2, <3>1, <1>5, <1>10
      <4> QED
        BY <4>1, <4>2, <3>1
    <3>3. g.stamp \in marks => g.marked
      BY <3>1 DEF Manifests
    <3>4. g.stamp \in managed => g.marked
      BY <1>1, <1>5
    <3> QED
      BY <3>2, <3>3, <3>4, <1>10
  <2>2. tampers' = 0 => \A g \in fs : g.intact
    BY <1>2, <1>4 DEF Manifests
  <2> QED
    BY <1>1, <2>1, <2>2 DEF Manifests
<1>12. DueStay'
  <2> SUFFICES ASSUME tampers' = 0, NEW t \in marks', Due(marks', t) PROVE Retention!Has(t)'
    BY DEF DueStay
  <2>1. CASE t \in managed
    BY <2>1, <1>1, <1>5 DEF Retention!Has
  <2>2. CASE t \in marks
    <3>1. Retention!Has(t)
      BY <2>2, <1>2, <1>9, <1>10, DueWasDue DEF DueStay
    <3> QED
      BY <3>1, <1>1 DEF Retention!Has
  <2> QED
    BY <2>1, <2>2, <1>10
<1>13. NotDue'
  <2> SUFFICES ASSUME NEW i \in Jobs, NEW t \in job'[i].todo PROVE t \in marks' /\ ~Due(marks', t)
    BY DEF NotDue
  <2>1. CASE i # j
    <3>1. t \in marks /\ ~Due(marks, t)
      BY <1>1, <2>1 DEF NotDue, RetentionTyped
    <3> QED
      BY <3>1, <1>10, <1>9, DueWasDue
  <2>2. CASE i = j
    <3>1. job'[j].todo = managed \ Retention!Keep(managed)
      BY <1>1 DEF RetentionTyped, Retention!Idle, managed
    <3>2. t \in managed /\ t \notin Retention!Keep(managed)
      BY <2>2, <3>1
    <3>3. ~Due(managed, t)
      BY <3>2, <1>6, DueIsKept
    <3> QED
      BY <3>2, <3>3, <1>9, <1>10, DueAmongFewer
  <2> QED
    BY <2>1, <2>2
<1> QED
  BY <1>3, <1>7, <1>8, <1>11, <1>12, <1>13

(* A step that takes one job back to rest, or one backup off its list, and  *)
(* changes neither the marks nor the clock.                                 *)
LEMMA JobsShrink ==
    ASSUME RetentionInv, NEW j \in Jobs, marks' = marks, NEW work,
           job' = [job EXCEPT ![j] = work],
           work \in [at : {"idle", "copied", "list", "remove"}, own : Nat, todo : SUBSET Nat],
           work.todo \subseteq job[j].todo
    PROVE  /\ job' \in [Jobs -> [at : {"idle", "copied", "list", "remove"}, own : Nat, todo : SUBSET Nat]]
           /\ NotDue'
  BY DEF RetentionInv, RetentionTyped, NotDue

LEMMA RemoveKeeps ==
    ASSUME RetentionInv, NEW j \in Jobs, Retention!Remove(j)
    PROVE  RetentionInv'
<1> USE RetentionNumbers DEF RetentionInv
<1>1. PICK t \in job[j].todo : t = Retention!Max(job[j].todo)
  BY LargestOfTodo DEF Retention!Remove
<1>2. /\ clock' = clock /\ tampers' = tampers /\ marks' = marks /\ (Retention!Stamp)' = Retention!Stamp
  BY DEF Retention!Remove, Retention!Stamp
<1>3. t \in marks /\ ~Due(marks, t)
  BY <1>1 DEF NotDue
<1>4. CASE ~Retention!Has(t) \/ ~Retention!File(t).intact
  <2>1. job' = [job EXCEPT ![j] = Retention!Idle] /\ removed' = {} /\ files' = files
    BY <1>1, <1>4 DEF Retention!Remove
  <2>2. /\ job' \in [Jobs -> [at : {"idle", "copied", "list", "remove"}, own : Nat, todo : SUBSET Nat]]
        /\ NotDue'
    BY <1>2, <2>1, JobsShrink DEF Retention!Idle
  <2> QED
    BY <1>2, <2>1, <2>2 DEF RetentionTyped, Dated, Manifests, DueStay, Retention!Has,
       Retention!OnlyOwnAndIntact
<1>5. CASE Retention!Has(t) /\ Retention!File(t).intact
  <2>1. PICK f \in files : f = Retention!File(t) /\ f.stamp = t
    BY <1>5, TheFile
  <2>2. files' = files \ {f} /\ removed' = {f} /\ job' = [job EXCEPT ![j].todo = @ \ {t}]
    BY <1>1, <1>5, <2>1 DEF Retention!Remove
  <2>3. /\ job' \in [Jobs -> [at : {"idle", "copied", "list", "remove"}, own : Nat, todo : SUBSET Nat]]
        /\ NotDue'
    <3>1. PICK work : work = [job[j] EXCEPT !.todo = @ \ {t}]
      OBVIOUS
    <3>2. /\ work \in [at : {"idle", "copied", "list", "remove"}, own : Nat, todo : SUBSET Nat]
          /\ work.todo \subseteq job[j].todo
      BY <3>1 DEF RetentionTyped
    <3>3. job' = [job EXCEPT ![j] = work]
      BY <2>2, <3>1 DEF RetentionTyped
    <3> QED
      BY <1>2, <3>2, <3>3, JobsShrink
  <2>4. RetentionTyped' /\ Dated' /\ Manifests'
    BY <1>2, <2>2, <2>3 DEF RetentionTyped, Dated, Manifests
  <2>5. DueStay'
    <3> SUFFICES ASSUME tampers = 0, NEW u \in marks, Due(marks, u) PROVE Retention!Has(u)'
      BY <1>2 DEF DueStay
    <3>1. PICK g \in files : g.stamp = u
      BY DEF DueStay, Retention!Has
    <3>2. g # f
      BY <1>3, <2>1, <3>1
    <3> QED
      BY <2>2, <3>1, <3>2 DEF Retention!Has
  <2>6. Retention!OnlyOwnAndIntact'
    BY <1>3, <1>5, <2>1, <2>2 DEF Retention!OnlyOwnAndIntact, Manifests
  <2> QED
    BY <2>3, <2>4, <2>5, <2>6
<1> QED
  BY <1>4, <1>5

LEMMA StopKeeps ==
    ASSUME RetentionInv, NEW j \in Jobs, Retention!Finish(j) \/ Retention!Crash(j)
    PROVE  RetentionInv'
<1> USE DEF RetentionInv
<1>1. /\ job' = [job EXCEPT ![j] = Retention!Idle] /\ removed' = {}
      /\ clock' = clock /\ files' = files /\ marks' = marks /\ tampers' = tampers
  BY DEF Retention!Finish, Retention!Crash
<1>2. (Retention!Stamp)' = Retention!Stamp
  BY <1>1 DEF Retention!Stamp
<1>3. /\ job' \in [Jobs -> [at : {"idle", "copied", "list", "remove"}, own : Nat, todo : SUBSET Nat]]
      /\ NotDue'
  BY <1>1, JobsShrink DEF Retention!Idle
<1> QED
  BY <1>1, <1>2, <1>3 DEF RetentionTyped, Dated, Manifests, DueStay, Retention!Has,
     Retention!OnlyOwnAndIntact

LEMMA TomorrowKeeps ==
    ASSUME RetentionInv, Retention!Tomorrow
    PROVE  RetentionInv'
<1> USE RetentionNumbers DEF RetentionInv
<1>1. /\ clock' = [day |-> clock.day + 1, n |-> 0] /\ removed' = {}
      /\ files' = files /\ job' = job /\ marks' = marks /\ tampers' = tampers
  BY DEF Retention!Tomorrow
<1>2. /\ clock.day \in Nat /\ clock.n \in Nat /\ clock.n <= PerDay
      /\ clock'.day = clock.day + 1 /\ clock'.n = 0
  BY <1>1 DEF RetentionTyped
<1>3. /\ Retention!Stamp \in Nat /\ (Retention!Stamp)' \in Nat
      /\ Retention!Stamp <= (Retention!Stamp)'
  <2>1. (clock.day + 1) * (PerDay + 1) = clock.day * (PerDay + 1) + (PerDay + 1)
    BY <1>2
  <2>2. clock.day * (PerDay + 1) \in Nat
    BY <1>2
  <2> QED
    BY <1>2, <2>1, <2>2 DEF Retention!Stamp
<1>4. Dated'
  BY <1>1, <1>3 DEF Dated, RetentionTyped
<1>5. RetentionTyped'
  BY <1>1, <1>2 DEF RetentionTyped
<1> QED
  BY <1>1, <1>4, <1>5 DEF Manifests, DueStay, NotDue, Retention!Has, Retention!OnlyOwnAndIntact

LEMMA TamperKeeps ==
    ASSUME RetentionInv, NEW f \in files, Retention!Tamper(f)
    PROVE  RetentionInv'
<1> USE DEF RetentionInv
<1> DEFINE g == [f EXCEPT !.intact = FALSE]
<1>1. /\ files' = (files \ {f}) \cup {g} /\ tampers' = tampers + 1 /\ removed' = {}
      /\ clock' = clock /\ job' = job /\ marks' = marks
  BY DEF Retention!Tamper
<1>2. /\ g \in [stamp : Nat, marked : BOOLEAN, intact : BOOLEAN]
      /\ g.stamp = f.stamp /\ g.marked = f.marked
  BY DEF RetentionTyped
<1>3. tampers' \in Nat /\ tampers' # 0
  BY <1>1 DEF RetentionTyped
<1>4. (Retention!Stamp)' = Retention!Stamp
  BY <1>1 DEF Retention!Stamp
<1> HIDE DEF g
<1>5. RetentionTyped'
  BY <1>1, <1>2, <1>3 DEF RetentionTyped
<1>6. Dated' /\ Manifests'
  BY <1>1, <1>2, <1>3, <1>4 DEF Dated, Manifests
<1> QED
  BY <1>1, <1>3, <1>5, <1>6 DEF DueStay, NotDue, Retention!OnlyOwnAndIntact

LEMMA RetentionInitHolds == Retention!Init => RetentionInv
<1> SUFFICES ASSUME Retention!Init PROVE RetentionInv
  OBVIOUS
<1>1. RetentionTyped
  BY RetentionNumbers DEF Retention!Init, RetentionTyped, Retention!Idle
<1>2. NotDue
  BY DEF Retention!Init, NotDue, Retention!Idle
<1> QED
  BY <1>1, <1>2 DEF Retention!Init, RetentionInv, Dated, Manifests, DueStay, Retention!OnlyOwnAndIntact

LEMMA RetentionNext == RetentionInv /\ Retention!Next => RetentionInv'
  BY CopyKeeps, MarkKeeps, ListKeeps, RemoveKeeps, StopKeeps, TomorrowKeeps, TamperKeeps
  DEF Retention!Next

LEMMA RetentionRests ==
    RetentionInv /\ UNCHANGED retentionVars => RetentionInv'
<1> SUFFICES ASSUME RetentionInv, UNCHANGED retentionVars PROVE RetentionInv'
  OBVIOUS
<1>1. (Retention!Stamp)' = Retention!Stamp
  BY DEF retentionVars, Retention!Stamp
<1> QED
  BY <1>1 DEF retentionVars, RetentionInv, RetentionTyped, Dated, Manifests, DueStay, NotDue,
     Retention!Has, Retention!OnlyOwnAndIntact

LEMMA RetentionInvIsSafe == RetentionInv => Retention!RetentionSafe
  BY DueStayIsNewestStay DEF RetentionInv, Retention!RetentionSafe

-----------------------------------------------------------------------------
(***************************************************************************)
(* What a device makes of a restored timeline, for any objects, edits,     *)
(* purges, backups, restores and expired leases, whether or not the user   *)
(* writes while it reconciles.  Within one timeline a row that waits for   *)
(* nothing is not ahead of the server's and is the server's up to the      *)
(* cursor; a reconciliation establishes the same for the timeline it began *)
(* in, object by object: what was seen, and what was not there.            *)
(***************************************************************************)
Rows == [rev : Nat, text : SUBSET Nat]
Stages == {"off", "scan", "missing", "adopt", "ready"}

TimelineTyped ==
    /\ srv \in [Objects -> Rows] /\ row \in [Objects -> Rows]
    /\ out \in [Objects -> [base : Nat, text : SUBSET Nat, old : BOOLEAN]]
    /\ seq \in [Objects -> Nat] /\ head \in Nat /\ cursor \in Nat
    /\ epoch \in Nat /\ known \in 1 .. epoch /\ made \in Nat
    /\ run \in [at : Stages, epoch : Nat, head : Nat, changed : BOOLEAN,
                forced : SUBSET Objects, todo : SUBSET Objects, seen : SUBSET Objects]
    /\ \A o \in Objects : seq[o] <= head

SavedTyped ==
    /\ saved.srv \in [Objects -> Rows] /\ saved.seq \in [Objects -> Nat] /\ saved.head \in Nat
    /\ \A o \in Objects : saved.seq[o] <= saved.head

(* A row without a revision is no row; what waits is what the row shows. *)
RowsWhole ==
    \A o \in Objects :
      /\ srv[o].rev = 0 => srv[o] = Timeline!NoRow
      /\ saved.srv[o].rev = 0 => saved.srv[o] = Timeline!NoRow
      /\ row[o].rev = 0 => row[o] = Timeline!NoRow
      /\ Timeline!Pending(o) => row[o] = [rev |-> out[o].base + 1, text |-> out[o].text]

Follows(o, h) ==
    \/ Timeline!Pending(o)
    \/ /\ srv[o].rev = 0 \/ row[o].rev <= srv[o].rev
       /\ seq[o] > h \/ row[o] = srv[o]

SameTimeline == known = epoch => cursor <= head /\ \A o \in Objects : Follows(o, cursor)

Reconciling ==
    run.at \in {"scan", "missing", "adopt"} =>
      /\ known <= run.epoch /\ run.epoch <= epoch
      /\ run.epoch = epoch =>
           /\ run.head <= head
           /\ run.at \in {"scan", "missing"} =>
                \A o \in Objects \ run.todo :
                  IF o \in run.seen THEN Follows(o, run.head) ELSE srv[o].rev = 0
           /\ run.at = "scan" => run.seen \cap run.todo = {}
           /\ run.at = "missing" => run.todo = {}
           /\ run.at = "adopt" => \A o \in Objects : Follows(o, run.head)

TimelineInv == TimelineTyped /\ SavedTyped /\ RowsWhole /\ SameTimeline /\ Reconciling

-----------------------------------------------------------------------------
LEMMA ObjectsAreNumbers == Objects \subseteq Nat
  BY RecoveryConstants DEF RecoveryConstants, Timeline!TimelineConstants

LEMMA LeastOfTodo ==
    ASSUME NEW todo \in SUBSET Objects, todo # {}
    PROVE  Timeline!Min(todo) \in todo
<1>1. todo \subseteq Nat
  BY ObjectsAreNumbers
<1>2. PICK m \in todo : \A t \in todo : ~(<<t, m>> \in OpToRel(<, Nat))
  BY <1>1, WFMin, NatLessThanWellFounded, Zenon
<1>3. \A t \in todo : m <= t
  <2>1. \A t \in todo : ~(t < m)
    BY <1>1, <1>2 DEF OpToRel
  <2> QED
    BY <1>1, <2>1
<1>4. PICK x : x = Timeline!Min(todo)
  OBVIOUS
<1> QED
  BY <1>3, <1>4 DEF Timeline!Min

(* What becomes of one object when its state on the server is applied.      *)
LEMMA OutcomeOf ==
    ASSUME TimelineTyped, RowsWhole, NEW o \in Objects, NEW snapshot \in BOOLEAN,
           NEW change \in Rows, NEW outcome,
           outcome = Timeline!Outcome(o, change, snapshot)
    PROVE  /\ outcome.row \in {change, row[o]}
           /\ outcome.out = Timeline!NoOut \/ (outcome.out = out[o] /\ outcome.row = row[o])
           /\ out[o].text \subseteq outcome.row.text \cup outcome.copy
           /\ outcome.row = change \/ Timeline!Pending(o)
                \/ (change # Timeline!NoRow /\ row[o].rev > change.rev /\ ~snapshot)
           /\ outcome.out = Timeline!NoOut /\ Timeline!Pending(o) => outcome.row = change
           /\ change = Timeline!NoRow => outcome.row = change /\ outcome.out = Timeline!NoOut
<1>1. /\ out[o].text = {} \/ row[o] = [rev |-> out[o].base + 1, text |-> out[o].text]
      /\ out[o] \in [base : Nat, text : SUBSET Nat, old : BOOLEAN] /\ row[o] \in Rows
  BY DEF RowsWhole, Timeline!Pending, TimelineTyped
<1>2. CASE Timeline!Pending(o) /\ change = [rev |-> out[o].base + 1, text |-> out[o].text]
  <2>1. outcome = [row |-> change, out |-> Timeline!NoOut, copy |-> {}]
    BY <1>2 DEF Timeline!Outcome
  <2>2. change # Timeline!NoRow /\ change.text = out[o].text
    BY <1>1, <1>2 DEF Timeline!NoRow
  <2> QED
    BY <2>1, <2>2
<1>3. CASE /\ Timeline!Pending(o) /\ change # [rev |-> out[o].base + 1, text |-> out[o].text]
           /\ change # Timeline!NoRow /\ Timeline!Stays(o, change, snapshot)
  <2>1. outcome = [row |-> row[o], out |-> out[o], copy |-> {}]
    BY <1>3 DEF Timeline!Outcome
  <2>2. row[o].text = out[o].text /\ out[o] # Timeline!NoOut
    BY <1>1, <1>3 DEF Timeline!Pending, Timeline!NoOut
  <2> QED
    BY <1>3, <2>1, <2>2
<1>4. CASE /\ Timeline!Pending(o) /\ change # [rev |-> out[o].base + 1, text |-> out[o].text]
           /\ ~(change # Timeline!NoRow /\ Timeline!Stays(o, change, snapshot))
  <2>1. outcome = [row |-> change, out |-> Timeline!NoOut, copy |-> out[o].text]
    BY <1>4 DEF Timeline!Outcome
  <2> QED
    BY <2>1
<1>5. CASE ~Timeline!Pending(o)
  <2>1. out[o].text = {}
    BY <1>5 DEF Timeline!Pending
  <2>2. CASE change # Timeline!NoRow /\ Timeline!Recovers(o, change, snapshot)
    <3>1. outcome = [row |-> change, out |-> Timeline!NoOut, copy |-> row[o].text]
      BY <1>5, <2>2 DEF Timeline!Outcome
    <3> QED
      BY <1>5, <2>1, <3>1
  <2>3. CASE /\ ~(change # Timeline!NoRow /\ Timeline!Recovers(o, change, snapshot))
             /\ change # Timeline!NoRow /\ row[o].rev > change.rev
    <3>1. outcome = [row |-> row[o], out |-> Timeline!NoOut, copy |-> {}]
      BY <1>5, <2>3 DEF Timeline!Outcome
    <3>2. change.rev \in Nat /\ row[o].rev \in Nat
      BY <1>1 DEF Rows
    <3>3. ~snapshot
      BY <2>3, <3>2 DEF Timeline!Recovers
    <3> QED
      BY <1>5, <2>1, <2>3, <3>1, <3>3
  <2>4. CASE /\ ~(change # Timeline!NoRow /\ Timeline!Recovers(o, change, snapshot))
             /\ ~(change # Timeline!NoRow /\ row[o].rev > change.rev)
    <3>1. outcome = [row |-> change, out |-> Timeline!NoOut, copy |-> {}]
      BY <1>5, <2>4 DEF Timeline!Outcome
    <3> QED
      BY <1>5, <2>1, <3>1
  <2> QED
    BY <2>2, <2>3, <2>4
<1> QED
  BY <1>2, <1>3, <1>4, <1>5

LEMMA Applied ==
    ASSUME TimelineTyped, RowsWhole, NEW changes, NEW snapshot \in BOOLEAN,
           Timeline!Apply(changes, snapshot), DOMAIN changes \subseteq Objects,
           \A o \in DOMAIN changes :
             changes[o] \in Rows /\ (changes[o].rev = 0 => changes[o] = Timeline!NoRow)
    PROVE  /\ row' \in [Objects -> Rows]
           /\ out' \in [Objects -> [base : Nat, text : SUBSET Nat, old : BOOLEAN]]
           /\ \A o \in Objects :
                /\ row'[o].rev = 0 => row'[o] = Timeline!NoRow
                /\ out'[o].text # {} => row'[o] = [rev |-> out'[o].base + 1, text |-> out'[o].text]
                /\ o \notin DOMAIN changes => row'[o] = row[o] /\ out'[o] = out[o]
                /\ o \in DOMAIN changes =>
                     /\ out'[o].text # {} \/ row'[o] = changes[o]
                          \/ (~Timeline!Pending(o) /\ changes[o] # Timeline!NoRow
                                /\ row[o].rev > changes[o].rev /\ ~snapshot)
                     /\ changes[o] = Timeline!NoRow => row'[o] = changes[o]
                /\ out[o].text \subseteq row'[o].text \cup copies'
<1>1. ASSUME NEW o \in Objects
      PROVE  /\ row'[o] \in Rows
             /\ out'[o] \in [base : Nat, text : SUBSET Nat, old : BOOLEAN]
             /\ row'[o].rev = 0 => row'[o] = Timeline!NoRow
             /\ out'[o].text # {} => row'[o] = [rev |-> out'[o].base + 1, text |-> out'[o].text]
             /\ o \notin DOMAIN changes => row'[o] = row[o] /\ out'[o] = out[o]
             /\ o \in DOMAIN changes =>
                  /\ out'[o].text # {} \/ row'[o] = changes[o]
                       \/ (~Timeline!Pending(o) /\ changes[o] # Timeline!NoRow
                             /\ row[o].rev > changes[o].rev /\ ~snapshot)
                  /\ changes[o] = Timeline!NoRow => row'[o] = changes[o]
             /\ out[o].text \subseteq row'[o].text \cup copies'
  <2>1. /\ out[o] \in [base : Nat, text : SUBSET Nat, old : BOOLEAN] /\ row[o] \in Rows
        /\ row[o].rev = 0 => row[o] = Timeline!NoRow
        /\ out[o].text # {} => row[o] = [rev |-> out[o].base + 1, text |-> out[o].text]
    BY DEF TimelineTyped, RowsWhole, Timeline!Pending
  <2>2. CASE o \notin DOMAIN changes
    <3>1. row'[o] = row[o] /\ out'[o] = out[o]
      BY <2>2 DEF Timeline!Apply
    <3>2. out[o].text \subseteq row[o].text
      BY <2>1
    <3> QED
      BY <2>1, <2>2, <3>1, <3>2
  <2>3. CASE o \in DOMAIN changes
    <3>1. PICK outcome : outcome = Timeline!Outcome(o, changes[o], snapshot)
      OBVIOUS
    <3>2. /\ row'[o] = outcome.row /\ out'[o] = outcome.out
          /\ copies' = copies \cup UNION {Timeline!Outcome(p, changes[p], snapshot).copy : p \in DOMAIN changes}
      BY <2>3, <3>1 DEF Timeline!Apply
    <3>3. outcome.copy \subseteq copies'
      BY <2>3, <3>1, <3>2
    <3>4. PICK change \in Rows : change = changes[o] /\ (change.rev = 0 => change = Timeline!NoRow)
      BY <2>3
    <3>5. /\ outcome.row \in {change, row[o]}
          /\ outcome.out = Timeline!NoOut \/ (outcome.out = out[o] /\ outcome.row = row[o])
          /\ out[o].text \subseteq outcome.row.text \cup outcome.copy
          /\ outcome.row = change \/ Timeline!Pending(o)
               \/ (change # Timeline!NoRow /\ row[o].rev > change.rev /\ ~snapshot)
          /\ outcome.out = Timeline!NoOut /\ Timeline!Pending(o) => outcome.row = change
          /\ change = Timeline!NoRow => outcome.row = change /\ outcome.out = Timeline!NoOut
      BY <3>1, <3>4, OutcomeOf
    <3>6. Timeline!NoOut \in [base : Nat, text : SUBSET Nat, old : BOOLEAN] /\ Timeline!NoOut.text = {}
      BY DEF Timeline!NoOut
    <3>7. /\ row'[o] \in Rows
          /\ out'[o] \in [base : Nat, text : SUBSET Nat, old : BOOLEAN]
          /\ row'[o].rev = 0 => row'[o] = Timeline!NoRow
      BY <2>1, <3>2, <3>4, <3>5, <3>6
    <3>8. out'[o].text # {} => row'[o] = [rev |-> out'[o].base + 1, text |-> out'[o].text]
      BY <2>1, <3>2, <3>5, <3>6
    <3>9. \/ out'[o].text # {} \/ row'[o] = change
          \/ (~Timeline!Pending(o) /\ change # Timeline!NoRow /\ row[o].rev > change.rev /\ ~snapshot)
      <4>1. CASE Timeline!Pending(o) /\ outcome.out = out[o]
        BY <4>1, <3>2 DEF Timeline!Pending
      <4>2. CASE Timeline!Pending(o) /\ outcome.out = Timeline!NoOut
        BY <4>2, <3>2, <3>5
      <4>3. CASE ~Timeline!Pending(o)
        BY <4>3, <3>2, <3>5
      <4> QED
        BY <4>1, <4>2, <4>3, <3>5
    <3>10. out[o].text \subseteq row'[o].text \cup copies'
      BY <3>2, <3>3, <3>5
    <3>11. change = Timeline!NoRow => row'[o] = change
      BY <3>2, <3>5
    <3> QED
      BY <2>3, <3>4, <3>7, <3>8, <3>9, <3>10, <3>11
  <2> QED
    BY <2>2, <2>3
<1>2. /\ row' = [o \in Objects |-> row'[o]] /\ out' = [o \in Objects |-> out'[o]]
  BY DEF Timeline!Apply
<1>3. row' \in [Objects -> Rows] /\ out' \in [Objects -> [base : Nat, text : SUBSET Nat, old : BOOLEAN]]
  <2>1. \A o \in Objects : row'[o] \in Rows
    BY <1>1
  <2>2. \A o \in Objects : out'[o] \in [base : Nat, text : SUBSET Nat, old : BOOLEAN]
    BY <1>1
  <2> QED
    BY <1>2, <2>1, <2>2
<1> QED
  BY <1>1, <1>3

-----------------------------------------------------------------------------
(* A step within one timeline: what follows the server goes on following it. *)
LEMMA StillFollows ==
    ASSUME TimelineInv, TimelineTyped',
           epoch' = epoch, known' = known, cursor' = cursor, head <= head',
           run' = run \/ run'.at \in {"off", "ready"},
           \A o \in Objects : \A h \in Nat : h <= head /\ Follows(o, h) => Follows(o, h)',
           run'.at \in {"scan", "missing"} => \A o \in Objects : srv[o].rev = 0 => srv'[o].rev = 0
    PROVE  SameTimeline' /\ Reconciling'
<1> USE DEF TimelineInv
<1>1. head \in Nat /\ head' \in Nat /\ cursor \in Nat /\ run.head \in Nat
  BY DEF TimelineTyped
<1>2. SameTimeline'
  <2>1. SUFFICES ASSUME known' = epoch' PROVE cursor' <= head' /\ \A o \in Objects : Follows(o, cursor)'
    BY DEF SameTimeline
  <2>2. PICK h \in Nat : h = cursor
    BY <1>1
  <2>3. h <= head /\ \A o \in Objects : Follows(o, h)
    BY <2>1, <2>2 DEF SameTimeline
  <2>4. \A o \in Objects : Follows(o, h)'
    BY <2>3
  <2>5. \A o \in Objects : Follows(o, cursor)'
    BY <2>2, <2>4 DEF Follows
  <2> QED
    BY <1>1, <2>2, <2>3, <2>5
<1>3. Reconciling'
  <2>1. CASE run'.at \in {"off", "ready"}
    BY <2>1 DEF Reconciling
  <2>2. CASE run' = run /\ run.at \notin {"scan", "missing", "adopt"}
    BY <2>2 DEF Reconciling
  <2>3. CASE run' = run /\ run.at \in {"scan", "missing", "adopt"}
    <3>1. PICK h \in Nat : h = run.head
      BY <1>1
    <3>2. known <= run.epoch /\ run.epoch <= epoch
      BY <2>3 DEF Reconciling
    <3>3. ASSUME run.epoch = epoch
          PROVE  /\ h <= head
                 /\ run.at \in {"scan", "missing"} =>
                      \A o \in Objects \ run.todo :
                        IF o \in run.seen THEN Follows(o, h) ELSE srv[o].rev = 0
                 /\ run.at = "scan" => run.seen \cap run.todo = {}
                 /\ run.at = "missing" => run.todo = {}
                 /\ run.at = "adopt" => \A o \in Objects : Follows(o, h)
      BY <2>3, <3>1, <3>3 DEF Reconciling
    <3>4. ASSUME run.epoch = epoch
          PROVE  /\ h <= head'
                 /\ run.at \in {"scan", "missing"} =>
                      \A o \in Objects \ run.todo :
                        IF o \in run.seen THEN Follows(o, h)' ELSE srv'[o].rev = 0
                 /\ run.at = "adopt" => \A o \in Objects : Follows(o, h)'
      <4>1. h <= head'
        BY <1>1, <3>3, <3>4
      <4>2. ASSUME run.at \in {"scan", "missing"}, NEW o \in Objects \ run.todo
            PROVE  IF o \in run.seen THEN Follows(o, h)' ELSE srv'[o].rev = 0
        BY <2>3, <3>3, <3>4, <4>2
      <4>3. run.at = "adopt" => \A o \in Objects : Follows(o, h)'
        BY <3>3, <3>4
      <4> QED
        BY <4>1, <4>2, <4>3
    <3>5. \A o \in Objects : Follows(o, h)' <=> Follows(o, run.head)'
      BY <2>3, <3>1 DEF Follows
    <3> QED
      BY <2>3, <3>1, <3>2, <3>3, <3>4, <3>5 DEF Reconciling
  <2> QED
    BY <2>1, <2>2, <2>3
<1> QED
  BY <1>2, <1>3

(* Another device changes an object: it is ahead of every cursor.           *)
LEMMA ChangeKeeps ==
    ASSUME TimelineInv, NEW o \in Objects, Timeline!Write(o) \/ Timeline!Purge(o)
    PROVE  TimelineInv'
<1> USE DEF TimelineInv
<1>1. PICK next \in Rows : /\ srv' = [srv EXCEPT ![o] = next]
                           /\ next.rev = 0 => next = Timeline!NoRow
                           /\ next.rev = 0 \/ next.rev >= srv[o].rev
  <2>1. CASE Timeline!Write(o)
    <3>1. /\ srv' = [srv EXCEPT ![o] = [rev |-> @.rev + 1, text |-> @.text \cup {made + 1}]]
          /\ srv[o].rev > 0 /\ srv[o] \in Rows /\ made + 1 \in Nat
      BY <2>1 DEF Timeline!Write, Timeline!New, TimelineTyped
    <3>2. PICK next : next = [rev |-> srv[o].rev + 1, text |-> srv[o].text \cup {made + 1}]
      OBVIOUS
    <3>3. next \in Rows /\ next.rev = srv[o].rev + 1 /\ srv[o].rev \in Nat
      BY <3>1, <3>2 DEF Rows
    <3>4. srv' = [srv EXCEPT ![o] = next]
      BY <3>1, <3>2 DEF TimelineTyped
    <3>5. next.rev # 0 /\ next.rev >= srv[o].rev
      BY <3>3
    <3> QED
      BY <3>3, <3>4, <3>5
  <2>2. CASE Timeline!Purge(o)
    <3>1. Timeline!NoRow \in Rows /\ Timeline!NoRow.rev = 0
      BY DEF Timeline!NoRow, Rows
    <3> QED
      BY <2>2, <3>1 DEF Timeline!Purge
  <2> QED
    BY <2>1, <2>2
<1>2. /\ seq' = [seq EXCEPT ![o] = head + 1] /\ head' = head + 1 /\ made' \in Nat
      /\ epoch' = epoch /\ saved' = saved /\ row' = row /\ out' = out /\ copies' = copies
      /\ cursor' = cursor /\ known' = known /\ lease' = lease /\ run' = run
      /\ srv[o].rev > 0
  BY DEF Timeline!Write, Timeline!Purge, Timeline!Record, Timeline!device, Timeline!New, TimelineTyped
<1>3. TimelineTyped' /\ SavedTyped' /\ RowsWhole'
  BY <1>1, <1>2 DEF TimelineTyped, SavedTyped, RowsWhole, Timeline!Pending
<1>4. ASSUME NEW p \in Objects, NEW h \in Nat, h <= head, Follows(p, h) PROVE Follows(p, h)'
  <2>1. CASE p = o
    <3>1. seq'[p] = head + 1 /\ srv'[p] = next /\ row'[p] = row[p] /\ out'[p] = out[p]
      BY <1>1, <1>2, <2>1 DEF TimelineTyped
    <3>2. /\ head \in Nat /\ srv[o].rev \in Nat /\ row[o].rev \in Nat /\ next.rev \in Nat
      BY <1>1 DEF TimelineTyped, Rows
    <3>3. seq'[p] > h
      BY <1>4, <3>1, <3>2
    <3>4. Timeline!Pending(p)' <=> Timeline!Pending(p)
      BY <1>2 DEF Timeline!Pending
    <3>5. Timeline!Pending(p) \/ next.rev = 0 \/ row[p].rev <= next.rev
      BY <1>1, <1>2, <1>4, <2>1, <3>2 DEF Follows
    <3> QED
      BY <3>1, <3>3, <3>4, <3>5 DEF Follows
  <2>2. CASE p # o
    BY <1>1, <1>2, <1>4, <2>2 DEF Follows, Timeline!Pending, TimelineTyped
  <2> QED
    BY <2>1, <2>2
<1>5. \A p \in Objects : srv[p].rev = 0 => srv'[p].rev = 0
  BY <1>1, <1>2 DEF TimelineTyped
<1>6. head <= head'
  BY <1>2 DEF TimelineTyped
<1>7. SameTimeline' /\ Reconciling'
  BY <1>2, <1>3, <1>4, <1>5, <1>6, StillFollows
<1> QED
  BY <1>3, <1>7

LEMMA BackupKeeps ==
    ASSUME TimelineInv, Timeline!Backup
    PROVE  TimelineInv'
<1> USE DEF TimelineInv
<1>1. /\ saved' = [srv |-> srv, seq |-> seq, head |-> head]
      /\ srv' = srv /\ seq' = seq /\ head' = head /\ epoch' = epoch
      /\ row' = row /\ out' = out /\ copies' = copies /\ cursor' = cursor
      /\ known' = known /\ lease' = lease /\ run' = run /\ made' = made
  BY DEF Timeline!Backup, Timeline!server, Timeline!device, Timeline!bounds
<1>2. TimelineTyped' /\ SavedTyped' /\ RowsWhole'
  BY <1>1 DEF TimelineTyped, SavedTyped, RowsWhole, Timeline!Pending
<1> QED
  BY <1>1, <1>2 DEF SameTimeline, Reconciling, Follows, Timeline!Pending

(* A restored database is another timeline: nobody knows its epoch. *)
LEMMA RestoreKeeps ==
    ASSUME TimelineInv, Timeline!Restore
    PROVE  TimelineInv'
<1> USE DEF TimelineInv
<1>1. /\ epoch' = epoch + 1 /\ srv' = saved.srv /\ seq' = saved.seq /\ head' = saved.head
      /\ saved' = saved /\ row' = row /\ out' = out /\ copies' = copies /\ cursor' = cursor
      /\ known' = known /\ lease' = lease /\ run' = run /\ made' = made
  BY DEF Timeline!Restore, Timeline!device, Timeline!bounds
<1>2. known \in 1 .. epoch /\ epoch \in Nat
  BY DEF TimelineTyped
<1>3. TimelineTyped' /\ SavedTyped' /\ RowsWhole'
  BY <1>1, <1>2 DEF TimelineTyped, SavedTyped, RowsWhole, Timeline!Pending
<1>4. SameTimeline'
  BY <1>1, <1>2 DEF SameTimeline
<1>5. Reconciling'
  <2>1. run.epoch \in Nat
    BY DEF TimelineTyped
  <2>2. run.at \in {"scan", "missing", "adopt"} => known' <= run'.epoch /\ run'.epoch <= epoch' /\ run'.epoch # epoch'
    BY <1>1, <1>2, <2>1 DEF Reconciling
  <2> QED
    BY <1>1, <2>2 DEF Reconciling
<1> QED
  BY <1>3, <1>4, <1>5

(* What the device alone changes leaves the timeline as it is.              *)
LEMMA DeviceKeeps ==
    ASSUME TimelineInv, TimelineTyped', NEW o \in Objects,
           srv' = srv, seq' = seq, head' = head, epoch' = epoch, saved' = saved,
           known' = known, cursor' = cursor,
           run' = run \/ run'.at \in {"off", "ready"},
           \A p \in Objects :
             /\ Timeline!Pending(p) => Timeline!Pending(p)'
             /\ ~Timeline!Pending(p)' => row'[p] = row[p]
    PROVE  SameTimeline' /\ Reconciling'
<1>1. \A p \in Objects : \A h \in Nat : h <= head /\ Follows(p, h) => Follows(p, h)'
  BY DEF Follows
<1>2. head <= head'
  BY DEF TimelineInv, TimelineTyped
<1> QED
  BY <1>1, <1>2, StillFollows

LEMMA LapseKeeps ==
    ASSUME TimelineInv, Timeline!Lapse
    PROVE  TimelineInv'
<1> USE DEF TimelineInv
<1>1. /\ out' = [o \in Objects |-> IF Timeline!Pending(o) THEN [out[o] EXCEPT !.old = TRUE] ELSE Timeline!NoOut]
      /\ srv' = srv /\ seq' = seq /\ head' = head /\ epoch' = epoch /\ saved' = saved
      /\ row' = row /\ copies' = copies /\ cursor' = cursor
      /\ known' = known /\ run' = run /\ made' = made
  BY DEF Timeline!Lapse, Timeline!server
<1>2. ASSUME NEW o \in Objects
      PROVE  /\ out'[o] \in [base : Nat, text : SUBSET Nat, old : BOOLEAN]
             /\ out'[o].text = out[o].text
             /\ out[o].text # {} => out'[o].base = out[o].base
  <2>1. CASE Timeline!Pending(o)
    <3>1. out'[o] = [out[o] EXCEPT !.old = TRUE]
      BY <1>1, <2>1
    <3> QED
      BY <3>1 DEF TimelineTyped
  <2>2. CASE ~Timeline!Pending(o)
    BY <1>1, <2>2 DEF Timeline!Pending, Timeline!NoOut
  <2> QED
    BY <2>1, <2>2
<1>3. out' \in [Objects -> [base : Nat, text : SUBSET Nat, old : BOOLEAN]]
  BY <1>1, <1>2
<1>4. TimelineTyped' /\ SavedTyped' /\ RowsWhole'
  <2>1. TimelineTyped' /\ SavedTyped'
    BY <1>1, <1>3 DEF TimelineTyped, SavedTyped
  <2>2. RowsWhole'
    <3> SUFFICES ASSUME NEW o \in Objects
                 PROVE  out'[o].text # {} => row[o] = [rev |-> out'[o].base + 1, text |-> out'[o].text]
      BY <1>1 DEF RowsWhole, Timeline!Pending
    <3> QED
      BY <1>2 DEF RowsWhole, Timeline!Pending
  <2> QED
    BY <2>1, <2>2
<1>5. \A o \in Objects : Timeline!Pending(o)' <=> Timeline!Pending(o)
  BY <1>2 DEF Timeline!Pending
<1>6. SameTimeline' /\ Reconciling'
  <2>1. \A p \in Objects : \A h \in Nat : h <= head /\ Follows(p, h) => Follows(p, h)'
    BY <1>1, <1>5 DEF Follows
  <2>2. head <= head'
    BY <1>1 DEF TimelineTyped
  <2> QED
    BY <1>1, <1>4, <2>1, <2>2, StillFollows
<1> QED
  BY <1>4, <1>6

LEMMA EditKeeps ==
    ASSUME TimelineInv, NEW o \in Objects, Timeline!Edit(o)
    PROVE  TimelineInv'
<1> USE DEF TimelineInv
<1>1. PICK base \in Nat, text \in SUBSET Nat :
        /\ text # {}
        /\ row' = [row EXCEPT ![o] = [rev |-> base + 1, text |-> text]]
        /\ out' = [out EXCEPT ![o] = [base |-> base, text |-> text, old |-> FALSE]]
  <2>1. PICK base, text : /\ base = IF Timeline!Pending(o) THEN out[o].base ELSE row[o].rev
                          /\ text = row[o].text \cup {made + 1}
    OBVIOUS
  <2>2. /\ row' = [row EXCEPT ![o] = [rev |-> base + 1, text |-> text]]
        /\ out' = [out EXCEPT ![o] = [base |-> base, text |-> text, old |-> FALSE]]
    BY <2>1 DEF Timeline!Edit, Timeline!New
  <2>3. base \in Nat /\ text \in SUBSET Nat /\ text # {}
    BY <2>1 DEF TimelineTyped, Rows
  <2> QED
    BY <2>2, <2>3
<1>2. /\ srv' = srv /\ seq' = seq /\ head' = head /\ epoch' = epoch /\ saved' = saved
      /\ copies' = copies /\ cursor' = cursor /\ known' = known /\ run' = run /\ made' \in Nat
  BY DEF Timeline!Edit, Timeline!server, Timeline!New, TimelineTyped
<1>3. ASSUME NEW p \in Objects
      PROVE  /\ p # o => row'[p] = row[p] /\ out'[p] = out[p]
             /\ p = o => /\ row'[p] = [rev |-> base + 1, text |-> text]
                         /\ out'[p] = [base |-> base, text |-> text, old |-> FALSE]
  BY <1>1 DEF TimelineTyped
<1>4. TimelineTyped'
  BY <1>1, <1>2 DEF TimelineTyped, Rows
<1>5. SavedTyped'
  BY <1>2 DEF SavedTyped
<1>6. RowsWhole'
  <2> SUFFICES ASSUME NEW p \in Objects
               PROVE  /\ row'[p].rev = 0 => row'[p] = Timeline!NoRow
                      /\ out'[p].text # {} => row'[p] = [rev |-> out'[p].base + 1, text |-> out'[p].text]
    BY <1>2 DEF RowsWhole, Timeline!Pending
  <2>1. CASE p = o
    BY <1>1, <1>3, <2>1
  <2>2. CASE p # o
    BY <1>3, <2>2 DEF RowsWhole, Timeline!Pending
  <2> QED
    BY <2>1, <2>2
<1>7. \A p \in Objects : /\ Timeline!Pending(p) => Timeline!Pending(p)'
                         /\ ~Timeline!Pending(p)' => row'[p] = row[p]
  BY <1>1, <1>3 DEF Timeline!Pending
<1>8. SameTimeline' /\ Reconciling'
  BY <1>2, <1>4, <1>7, DeviceKeeps
<1> QED
  BY <1>4, <1>5, <1>6, <1>8

(* A reconciliation begins, is broken off, or ends. *)
LEMMA StatusKeeps ==
    ASSUME TimelineInv, Timeline!Status
    PROVE  TimelineInv'
<1> USE DEF TimelineInv
<1>1. /\ srv' = srv /\ seq' = seq /\ head' = head /\ epoch' = epoch /\ saved' = saved
      /\ row' = row /\ out' = out /\ copies' = copies /\ cursor' = cursor
      /\ known' = known /\ made' = made
  BY DEF Timeline!Status, Timeline!server, Timeline!bounds
<1>2. \/ run' = [Timeline!Off EXCEPT !.at = "ready"]
      \/ \E changed \in BOOLEAN, forced \in SUBSET Objects :
           run' = [at |-> "scan", epoch |-> epoch, head |-> head, changed |-> changed,
                   forced |-> forced, todo |-> Objects, seen |-> {}]
  <2>1. PICK changed, forced : /\ changed = (known # epoch)
                               /\ forced = IF changed THEN {o \in Objects : Timeline!Pending(o)} ELSE {}
    OBVIOUS
  <2>2. changed \in BOOLEAN /\ forced \in SUBSET Objects
    BY <2>1
  <2>3. \/ run' = [Timeline!Off EXCEPT !.at = "ready"]
        \/ run' = [at |-> "scan", epoch |-> epoch, head |-> head, changed |-> changed,
                   forced |-> forced, todo |-> Objects, seen |-> {}]
    BY <2>1 DEF Timeline!Status
  <2> QED
    BY <2>2, <2>3
<1>3. SavedTyped' /\ RowsWhole'
  BY <1>1 DEF SavedTyped, RowsWhole, Timeline!Pending
<1>4. SameTimeline'
  BY <1>1 DEF SameTimeline, Follows, Timeline!Pending
<1>5. CASE run' = [Timeline!Off EXCEPT !.at = "ready"]
  <2>1. /\ run' \in [at : Stages, epoch : Nat, head : Nat, changed : BOOLEAN,
                     forced : SUBSET Objects, todo : SUBSET Objects, seen : SUBSET Objects]
        /\ run'.at = "ready"
    BY <1>5 DEF Timeline!Off, Stages
  <2> QED
    BY <1>1, <1>3, <1>4, <2>1 DEF TimelineTyped, Reconciling
<1>6. ASSUME NEW changed \in BOOLEAN, NEW forced \in SUBSET Objects,
             run' = [at |-> "scan", epoch |-> epoch, head |-> head, changed |-> changed,
                     forced |-> forced, todo |-> Objects, seen |-> {}]
      PROVE  TimelineInv'
  <2>1. run' \in [at : Stages, epoch : Nat, head : Nat, changed : BOOLEAN,
                  forced : SUBSET Objects, todo : SUBSET Objects, seen : SUBSET Objects]
    BY <1>6 DEF TimelineTyped, Stages
  <2>2. TimelineTyped'
    BY <1>1, <2>1 DEF TimelineTyped
  <2>3. known <= epoch /\ head <= head
    BY DEF TimelineTyped
  <2>4. Reconciling'
    <3>1. /\ run'.at = "scan" /\ run'.epoch = epoch /\ run'.head = head
          /\ run'.seen \cap run'.todo = {}
      BY <1>6
    <3>2. \A o \in Objects \ run'.todo :
            IF o \in run'.seen THEN Follows(o, run.head)' ELSE srv'[o].rev = 0
      BY <1>6
    <3>3. /\ known' <= run'.epoch /\ run'.epoch <= epoch' /\ run'.head <= head'
          /\ run'.at # "missing" /\ run'.at # "adopt"
      <4>1. known' <= run'.epoch
        BY <1>1, <2>3, <3>1
      <4>2. run'.epoch <= epoch'
        BY <1>1, <2>3, <3>1 DEF TimelineTyped
      <4>3. run'.head <= head'
        BY <1>1, <2>3, <3>1
      <4> QED
        BY <3>1, <4>1, <4>2, <4>3
    <3> QED
      BY <3>1, <3>2, <3>3 DEF Reconciling
  <2> QED
    BY <1>3, <1>4, <2>2, <2>4
<1> QED
  BY <1>2, <1>5, <1>6

LEMMA StopRunKeeps ==
    ASSUME TimelineInv, Timeline!Stop
    PROVE  TimelineInv'
<1> USE DEF TimelineInv
<1>1. /\ run' = Timeline!Off
      /\ srv' = srv /\ seq' = seq /\ head' = head /\ epoch' = epoch /\ saved' = saved
      /\ row' = row /\ out' = out /\ copies' = copies /\ cursor' = cursor
      /\ known' = known /\ made' = made
  BY DEF Timeline!Stop, Timeline!server, Timeline!device, Timeline!bounds
<1>2. /\ run' \in [at : Stages, epoch : Nat, head : Nat, changed : BOOLEAN,
                   forced : SUBSET Objects, todo : SUBSET Objects, seen : SUBSET Objects]
      /\ run'.at = "off"
  BY <1>1 DEF Timeline!Off, Stages
<1> QED
  BY <1>1, <1>2 DEF TimelineTyped, SavedTyped, RowsWhole, Timeline!Pending, SameTimeline, Follows,
     Reconciling

LEMMA AdoptKeeps ==
    ASSUME TimelineInv, Timeline!Adopt
    PROVE  TimelineInv'
<1> USE DEF TimelineInv
<1>1. /\ run.at = "adopt" /\ run' = [Timeline!Off EXCEPT !.at = "ready"]
      /\ cursor' = run.head /\ known' = run.epoch
      /\ srv' = srv /\ seq' = seq /\ head' = head /\ epoch' = epoch /\ saved' = saved
      /\ row' = row /\ out' = out /\ copies' = copies /\ made' = made
  BY DEF Timeline!Adopt, Timeline!server, Timeline!bounds
<1>2. /\ run' \in [at : Stages, epoch : Nat, head : Nat, changed : BOOLEAN,
                   forced : SUBSET Objects, todo : SUBSET Objects, seen : SUBSET Objects]
      /\ run'.at = "ready"
  BY <1>1 DEF Timeline!Off, Stages
<1>3. /\ run.head \in Nat /\ run.epoch \in Nat /\ known \in 1 .. epoch /\ epoch \in Nat
      /\ known <= run.epoch /\ run.epoch <= epoch
  BY <1>1 DEF TimelineTyped, Reconciling
<1>4. TimelineTyped'
  BY <1>1, <1>2, <1>3 DEF TimelineTyped
<1>5. run.epoch = epoch => run.head <= head /\ \A o \in Objects : Follows(o, run.head)
  BY <1>1 DEF Reconciling
<1>6. SameTimeline'
  BY <1>1, <1>5 DEF SameTimeline, Follows, Timeline!Pending
<1>7. SavedTyped' /\ RowsWhole' /\ Reconciling'
  BY <1>1, <1>2 DEF SavedTyped, RowsWhole, Timeline!Pending, Reconciling
<1> QED
  BY <1>4, <1>6, <1>7

(* What is uploaded is on the server as the device shows it. *)
LEMMA PushKeeps ==
    ASSUME TimelineInv, NEW o \in Objects, Timeline!Push(o)
    PROVE  TimelineInv'
<1> USE DEF TimelineInv
<1>1. /\ run.at = "ready" /\ Timeline!Pending(o) /\ srv[o].rev = out[o].base
      /\ srv' = [srv EXCEPT ![o] = [rev |-> @.rev + 1, text |-> out[o].text]]
      /\ seq' = [seq EXCEPT ![o] = head + 1] /\ head' = head + 1
      /\ epoch' = epoch /\ saved' = saved /\ row' = row /\ copies' = copies
      /\ cursor' = cursor /\ known' = known /\ made' = made
      /\ \/ out' = [out EXCEPT ![o] = Timeline!NoOut] /\ run' = run
         \/ out' = out /\ run' = Timeline!Off
  BY DEF Timeline!Push, Timeline!Record, Timeline!bounds
<1>2. srv'[o] = row[o] /\ row[o] \in Rows /\ row[o].rev > 0
  <2>1. row[o] = [rev |-> out[o].base + 1, text |-> out[o].text]
    BY <1>1 DEF RowsWhole
  <2>2. out[o].base \in Nat /\ out[o].text \in SUBSET Nat
    BY DEF TimelineTyped
  <2>3. srv'[o] = [rev |-> srv[o].rev + 1, text |-> out[o].text]
    BY <1>1 DEF TimelineTyped
  <2> QED
    BY <1>1, <2>1, <2>2, <2>3 DEF Rows
<1>3. \A p \in Objects : p # o => srv'[p] = srv[p] /\ seq'[p] = seq[p] /\ out'[p] = out[p]
  BY <1>1 DEF TimelineTyped
<1>4. out'[o] = out[o] \/ out'[o] = Timeline!NoOut
  BY <1>1 DEF TimelineTyped
<1>5. /\ run' \in [at : Stages, epoch : Nat, head : Nat, changed : BOOLEAN,
                   forced : SUBSET Objects, todo : SUBSET Objects, seen : SUBSET Objects]
      /\ run'.at \in {"off", "ready"}
  <2>1. /\ Timeline!Off \in [at : Stages, epoch : Nat, head : Nat, changed : BOOLEAN,
                          forced : SUBSET Objects, todo : SUBSET Objects, seen : SUBSET Objects]
        /\ Timeline!Off.at = "off"
    BY DEF Timeline!Off, Stages
  <2>2. CASE run' = run
    BY <1>1, <2>2 DEF TimelineTyped
  <2>3. CASE run' = Timeline!Off
    BY <2>1, <2>3
  <2> QED
    BY <1>1, <2>2, <2>3
<1>6. TimelineTyped'
  <2>1. srv' \in [Objects -> Rows]
    <3>1. PICK new \in Rows : srv' = [srv EXCEPT ![o] = new]
      <4>1. srv' = [srv EXCEPT ![o] = row[o]]
        BY <1>1, <1>2 DEF TimelineTyped
      <4> QED
        BY <4>1, <1>2
    <3> QED
      BY <3>1 DEF TimelineTyped
  <2>2. Timeline!NoOut \in [base : Nat, text : SUBSET Nat, old : BOOLEAN]
    BY DEF Timeline!NoOut
  <2>3. out' \in [Objects -> [base : Nat, text : SUBSET Nat, old : BOOLEAN]]
    BY <1>1, <2>2 DEF TimelineTyped
  <2> QED
    BY <1>1, <1>5, <2>1, <2>3 DEF TimelineTyped
<1>7. SavedTyped'
  BY <1>1 DEF SavedTyped
<1>8. RowsWhole'
  <2> SUFFICES ASSUME NEW p \in Objects
               PROVE  /\ srv'[p].rev = 0 => srv'[p] = Timeline!NoRow
                      /\ out'[p].text # {} => row[p] = [rev |-> out'[p].base + 1, text |-> out'[p].text]
    BY <1>1 DEF RowsWhole, Timeline!Pending
  <2>1. out'[p].text # {} => out'[p] = out[p]
    BY <1>3, <1>4 DEF Timeline!NoOut
  <2> QED
    BY <1>2, <1>3, <2>1 DEF RowsWhole, Timeline!Pending
<1>9. ASSUME NEW p \in Objects, NEW h \in Nat, h <= head, Follows(p, h) PROVE Follows(p, h)'
  <2>1. CASE p = o
    <3>1. srv'[o].rev = 0 \/ row'[o].rev <= srv'[o].rev
      BY <1>1, <1>2 DEF Rows
    <3>2. row'[o] = srv'[o]
      BY <1>1, <1>2
    <3> QED
      BY <2>1, <3>1, <3>2 DEF Follows
  <2>2. CASE p # o
    BY <1>1, <1>3, <1>9, <2>2 DEF Follows, Timeline!Pending
  <2> QED
    BY <2>1, <2>2
<1>10. head <= head'
  BY <1>1 DEF TimelineTyped
<1>11. SameTimeline' /\ Reconciling'
  BY <1>1, <1>5, <1>6, <1>9, <1>10, StillFollows
<1> QED
  BY <1>6, <1>7, <1>8, <1>11

-----------------------------------------------------------------------------
(* A pull, a page, a catch-up and the removal of what is missing: what they *)
(* apply is what the server has.                                            *)
LEMMA AppliesServer ==
    ASSUME TimelineInv, NEW changes, NEW snapshot \in BOOLEAN,
           Timeline!Apply(changes, snapshot), DOMAIN changes \subseteq Objects,
           \A o \in DOMAIN changes : changes[o] = srv[o] \/ changes[o] = Timeline!NoRow,
           srv' = srv, seq' = seq, head' = head, epoch' = epoch, saved' = saved, made' = made,
           known' = known, cursor' \in Nat,
           run' \in [at : Stages, epoch : Nat, head : Nat, changed : BOOLEAN,
                     forced : SUBSET Objects, todo : SUBSET Objects, seen : SUBSET Objects]
    PROVE  /\ TimelineTyped' /\ SavedTyped' /\ RowsWhole'
           /\ \A o \in Objects :
                /\ o \notin DOMAIN changes =>
                     row'[o] = row[o] /\ (Timeline!Pending(o)' <=> Timeline!Pending(o))
                /\ o \in DOMAIN changes =>
                     \/ Timeline!Pending(o)'
                     \/ row'[o] = changes[o]
                     \/ /\ ~Timeline!Pending(o) /\ changes[o] # Timeline!NoRow
                        /\ row[o].rev > changes[o].rev /\ ~snapshot
<1> USE DEF TimelineInv
<1>1. \A o \in DOMAIN changes :
        changes[o] \in Rows /\ (changes[o].rev = 0 => changes[o] = Timeline!NoRow)
  BY DEF TimelineTyped, RowsWhole, Timeline!NoRow, Rows
<1>2. /\ row' \in [Objects -> Rows]
      /\ out' \in [Objects -> [base : Nat, text : SUBSET Nat, old : BOOLEAN]]
      /\ \A o \in Objects :
           /\ row'[o].rev = 0 => row'[o] = Timeline!NoRow
           /\ out'[o].text # {} => row'[o] = [rev |-> out'[o].base + 1, text |-> out'[o].text]
           /\ o \notin DOMAIN changes => row'[o] = row[o] /\ out'[o] = out[o]
           /\ o \in DOMAIN changes =>
                /\ out'[o].text # {} \/ row'[o] = changes[o]
                     \/ (~Timeline!Pending(o) /\ changes[o] # Timeline!NoRow
                           /\ row[o].rev > changes[o].rev /\ ~snapshot)
                /\ changes[o] = Timeline!NoRow => row'[o] = changes[o]
           /\ out[o].text \subseteq row'[o].text \cup copies'
  BY <1>1, Applied
<1>3. TimelineTyped' /\ SavedTyped'
  BY <1>2 DEF TimelineTyped, SavedTyped
<1>4. RowsWhole'
  BY <1>2 DEF RowsWhole, Timeline!Pending
<1> QED
  BY <1>2, <1>3, <1>4 DEF Timeline!Pending

(* Within a timeline that the device knows, an object that waits for nothing *)
(* is not ahead, so that what the server has is applied.                     *)
LEMMA AppliedFollows ==
    ASSUME TimelineInv, NEW changes, NEW snapshot \in BOOLEAN,
           Timeline!Apply(changes, snapshot), DOMAIN changes \subseteq Objects,
           \A o \in DOMAIN changes : changes[o] = srv[o] \/ changes[o] = Timeline!NoRow,
           srv' = srv, seq' = seq, head' = head, epoch' = epoch, saved' = saved, made' = made,
           known' = known, cursor' \in Nat,
           run' \in [at : Stages, epoch : Nat, head : Nat, changed : BOOLEAN,
                     forced : SUBSET Objects, todo : SUBSET Objects, seen : SUBSET Objects],
           NEW o \in Objects, o \in DOMAIN changes, changes[o] = srv[o],
           snapshot \/ Timeline!Pending(o) \/ srv[o].rev = 0 \/ row[o].rev <= srv[o].rev
    PROVE  \A h \in Nat : Follows(o, h)'
<1>1. srv[o] \in Rows /\ row[o] \in Rows /\ (srv[o].rev = 0 => srv[o] = Timeline!NoRow)
  BY DEF TimelineInv, TimelineTyped, RowsWhole
<1>2. Timeline!Pending(o)' \/ row'[o] = srv[o]
  <2>1. \/ Timeline!Pending(o)' \/ row'[o] = srv[o]
        \/ /\ ~Timeline!Pending(o) /\ srv[o] # Timeline!NoRow
           /\ row[o].rev > srv[o].rev /\ ~snapshot
    BY AppliesServer
  <2>2. srv[o].rev \in Nat /\ row[o].rev \in Nat
    BY <1>1 DEF Rows
  <2> QED
    BY <1>1, <2>1, <2>2
<1>3. srv'[o] = srv[o] /\ (row'[o] = srv[o] => row'[o].rev <= srv'[o].rev)
  BY <1>1 DEF Rows
<1> QED
  BY <1>2, <1>3 DEF Follows

LEMMA SinceChanges ==
    ASSUME NEW n
    PROVE  /\ DOMAIN Timeline!Since(n) = {o \in Objects : seq[o] > n}
           /\ \A o \in DOMAIN Timeline!Since(n) : Timeline!Since(n)[o] = srv[o]
  BY DEF Timeline!Since

LEMMA PullKeeps ==
    ASSUME TimelineInv, Timeline!Pull
    PROVE  TimelineInv'
<1> USE DEF TimelineInv
<1>1. /\ run.at = "ready" /\ epoch = known /\ run' = Timeline!Off /\ cursor' = head
      /\ Timeline!Apply(Timeline!Since(cursor), FALSE)
      /\ srv' = srv /\ seq' = seq /\ head' = head /\ epoch' = epoch /\ saved' = saved
      /\ known' = known /\ made' = made
  BY DEF Timeline!Pull, Timeline!server, Timeline!bounds
<1>2. PICK changes : changes = Timeline!Since(cursor)
  OBVIOUS
<1>10. PICK forced \in BOOLEAN : forced = FALSE
  OBVIOUS
<1>3. /\ DOMAIN changes = {o \in Objects : seq[o] > cursor}
      /\ \A o \in DOMAIN changes : changes[o] = srv[o]
      /\ Timeline!Apply(changes, forced)
  BY <1>1, <1>2, <1>10, SinceChanges
<1>4. /\ run' \in [at : Stages, epoch : Nat, head : Nat, changed : BOOLEAN,
                   forced : SUBSET Objects, todo : SUBSET Objects, seen : SUBSET Objects]
      /\ run'.at = "off" /\ cursor' \in Nat /\ head \in Nat
  BY <1>1 DEF TimelineTyped, Timeline!Off, Stages
<1>5. /\ TimelineTyped' /\ SavedTyped' /\ RowsWhole'
      /\ \A o \in Objects \ DOMAIN changes :
           row'[o] = row[o] /\ (Timeline!Pending(o)' <=> Timeline!Pending(o))
  BY <1>1, <1>3, <1>4, AppliesServer
<1>6. \A o \in Objects : Follows(o, cursor)
  BY <1>1 DEF SameTimeline
<1>7. ASSUME NEW o \in Objects PROVE Follows(o, cursor)'
  <2>1. CASE o \in DOMAIN changes
    <3>1. Timeline!Pending(o) \/ srv[o].rev = 0 \/ row[o].rev <= srv[o].rev
      BY <1>6 DEF Follows
    <3>2. \A h \in Nat : Follows(o, h)'
      BY <1>1, <1>3, <1>4, <2>1, <3>1, AppliedFollows
    <3>3. PICK h \in Nat : h = cursor'
      BY <1>4
    <3> QED
      BY <3>2, <3>3 DEF Follows
  <2>2. CASE o \notin DOMAIN changes
    <3>1. ~(seq[o] > cursor)
      BY <1>3, <2>2
    <3> QED
      BY <1>1, <1>5, <1>6, <2>2, <3>1 DEF Follows
  <2> QED
    BY <2>1, <2>2
<1>8. SameTimeline'
  BY <1>1, <1>4, <1>7 DEF SameTimeline
<1>9. Reconciling'
  BY <1>4 DEF Reconciling
<1> QED
  BY <1>5, <1>8, <1>9

(* A page of the snapshot: the object that is read, or not there. *)
LEMMA ScanKeeps ==
    ASSUME TimelineInv, Timeline!Scan
    PROVE  TimelineInv'
<1> USE DEF TimelineInv
<1>1. PICK o \in run.todo : o = Timeline!Min(run.todo)
  BY LeastOfTodo DEF Timeline!Scan, TimelineTyped
<1>2. PICK there, changes :
        /\ there = IF srv[o].rev > 0 THEN {o} ELSE {}
        /\ changes = [p \in there |-> srv[p]]
  OBVIOUS
<1>3. PICK whole \in BOOLEAN : whole = TRUE
  OBVIOUS
<1>4. /\ run.at = "scan" /\ epoch = run.epoch /\ o \in Objects
      /\ Timeline!Apply(changes, whole)
      /\ run' = [run EXCEPT !.todo = @ \ {o}, !.seen = @ \cup there]
      /\ srv' = srv /\ seq' = seq /\ head' = head /\ epoch' = epoch /\ saved' = saved
      /\ known' = known /\ made' = made /\ cursor' = cursor
  BY <1>1, <1>2, <1>3 DEF Timeline!Scan, Timeline!server, Timeline!bounds, TimelineTyped
<1>5. /\ run' \in [at : Stages, epoch : Nat, head : Nat, changed : BOOLEAN,
                   forced : SUBSET Objects, todo : SUBSET Objects, seen : SUBSET Objects]
      /\ run'.at = "scan" /\ run'.epoch = run.epoch /\ run'.head = run.head
      /\ run'.todo = run.todo \ {o} /\ run'.seen = run.seen \cup there
      /\ cursor' \in Nat /\ head \in Nat /\ there \subseteq {o}
  BY <1>2, <1>4 DEF TimelineTyped
<1>6. DOMAIN changes = there /\ \A p \in DOMAIN changes : changes[p] = srv[p]
  BY <1>2
<1>7. /\ TimelineTyped' /\ SavedTyped' /\ RowsWhole'
      /\ \A p \in Objects \ there :
           row'[p] = row[p] /\ (Timeline!Pending(p)' <=> Timeline!Pending(p))
  BY <1>4, <1>5, <1>6, AppliesServer
<1>8. \A p \in there : \A h \in Nat : Follows(p, h)'
  <2>1. o \in there => \A h \in Nat : Follows(o, h)'
    BY <1>3, <1>4, <1>5, <1>6, AppliedFollows
  <2> QED
    BY <1>5, <2>1
<1>9. ASSUME NEW p \in Objects, NEW h \in Nat, Follows(p, h) PROVE Follows(p, h)'
  <2>1. CASE p \in there
    BY <1>8, <2>1
  <2>2. CASE p \notin there
    BY <1>4, <1>7, <1>9, <2>2 DEF Follows
  <2> QED
    BY <2>1, <2>2
<1>10. SameTimeline'
  <2> SUFFICES ASSUME known = epoch PROVE cursor <= head /\ \A p \in Objects : Follows(p, cursor)'
    BY <1>4 DEF SameTimeline
  <2>1. cursor <= head /\ \A p \in Objects : Follows(p, cursor)
    BY DEF SameTimeline
  <2>2. PICK h \in Nat : h = cursor
    BY DEF TimelineTyped
  <2>3. \A p \in Objects : Follows(p, h)'
    BY <1>9, <2>1, <2>2
  <2> QED
    BY <1>4, <2>1, <2>2, <2>3 DEF Follows
<1>11. Reconciling'
  <2>1. PICK h \in Nat : h = run.head
    BY DEF TimelineTyped
  <2>2. /\ known <= run.epoch /\ run.epoch <= epoch /\ run.head <= head
        /\ \A p \in Objects \ run.todo :
             IF p \in run.seen THEN Follows(p, run.head) ELSE srv[p].rev = 0
        /\ run.seen \cap run.todo = {}
    BY <1>4 DEF Reconciling
  <2>3. ASSUME NEW p \in Objects \ run'.todo
        PROVE  IF p \in run'.seen THEN Follows(p, run.head)' ELSE srv'[p].rev = 0
    <3>1. CASE p = o /\ p \in there
      BY <1>5, <1>8, <2>1, <3>1 DEF Follows
    <3>2. CASE p = o /\ p \notin there
      <4>1. srv[p].rev = 0
        BY <1>2, <3>2 DEF TimelineTyped, Rows
      <4>2. p \notin run'.seen
        BY <1>1, <1>5, <2>2, <3>2
      <4> QED
        BY <1>4, <4>1, <4>2
    <3>3. CASE p # o /\ p \in run.seen
      <4>1. Follows(p, h)
        BY <1>5, <2>1, <2>2, <2>3, <3>3
      <4>2. Follows(p, h)'
        BY <1>9, <4>1
      <4>3. p \in run'.seen /\ run'.head = h
        BY <1>5, <2>1, <3>3
      <4> QED
        BY <4>2, <4>3 DEF Follows
    <3>4. CASE p # o /\ p \notin run.seen
      BY <1>4, <1>5, <2>2, <2>3, <3>4
    <3> QED
      BY <3>1, <3>2, <3>3, <3>4
  <2>4. run'.seen \cap run'.todo = {}
    BY <1>5, <2>2
  <2>5. known' <= run'.epoch /\ run'.epoch <= epoch' /\ run'.head <= head'
    BY <1>4, <1>5, <2>2
  <2>6. run'.at # "missing" /\ run'.at # "adopt" /\ run'.at = "scan"
    BY <1>5
  <2>7. \A p \in Objects \ run'.todo :
          IF p \in run'.seen THEN Follows(p, run.head)' ELSE srv'[p].rev = 0
    BY <2>3
  <2> QED
    BY <2>4, <2>5, <2>6, <2>7 DEF Reconciling
<1> QED
  BY <1>7, <1>10, <1>11

(* The changes since the scan began. *)
LEMMA CatchUpKeeps ==
    ASSUME TimelineInv, Timeline!CatchUp
    PROVE  TimelineInv'
<1> USE DEF TimelineInv
<1>1. PICK changes : changes = Timeline!Since(run.head)
  OBVIOUS
<1>2. PICK whole \in BOOLEAN : whole = FALSE
  OBVIOUS
<1>3. /\ run.at = "scan" /\ run.todo = {} /\ epoch = run.epoch
      /\ Timeline!Apply(changes, whole)
      /\ run' = [run EXCEPT !.at = "missing", !.head = head,
                   !.seen = @ \cup {o \in DOMAIN changes : srv[o].rev > 0}]
      /\ srv' = srv /\ seq' = seq /\ head' = head /\ epoch' = epoch /\ saved' = saved
      /\ known' = known /\ made' = made /\ cursor' = cursor
  BY <1>1, <1>2 DEF Timeline!CatchUp, Timeline!server, Timeline!bounds
<1>4. /\ DOMAIN changes = {o \in Objects : seq[o] > run.head}
      /\ \A o \in DOMAIN changes : changes[o] = srv[o]
  BY <1>1, SinceChanges
<1>5. PICK seen \in SUBSET Objects : seen = run.seen \cup {o \in DOMAIN changes : srv[o].rev > 0}
  BY <1>4 DEF TimelineTyped
<1>6. /\ run' \in [at : Stages, epoch : Nat, head : Nat, changed : BOOLEAN,
                   forced : SUBSET Objects, todo : SUBSET Objects, seen : SUBSET Objects]
      /\ run'.at = "missing" /\ run'.epoch = run.epoch /\ run'.head = head
      /\ run'.todo = {} /\ run'.seen = seen
      /\ cursor' \in Nat /\ head \in Nat
  <2>1. run' = [run EXCEPT !.at = "missing", !.head = head, !.seen = seen]
    BY <1>3, <1>5 DEF TimelineTyped
  <2> QED
    BY <1>3, <2>1 DEF TimelineTyped, Stages
<1>7. /\ known <= run.epoch /\ run.epoch <= epoch /\ run.head <= head /\ run.head \in Nat
      /\ \A p \in Objects : IF p \in run.seen THEN Follows(p, run.head) ELSE srv[p].rev = 0
  BY <1>3 DEF Reconciling, TimelineTyped
<1>8. /\ TimelineTyped' /\ SavedTyped' /\ RowsWhole'
      /\ \A p \in Objects \ DOMAIN changes :
           row'[p] = row[p] /\ (Timeline!Pending(p)' <=> Timeline!Pending(p))
  BY <1>3, <1>4, <1>6, AppliesServer
<1>9. ASSUME NEW p \in DOMAIN changes PROVE \A h \in Nat : Follows(p, h)'
  <2>1. p \in Objects /\ changes[p] = srv[p]
    BY <1>4
  <2>2. Timeline!Pending(p) \/ srv[p].rev = 0 \/ row[p].rev <= srv[p].rev
    BY <1>7, <2>1 DEF Follows
  <2> QED
    BY <1>3, <1>4, <1>6, <2>1, <2>2, AppliedFollows
<1>10. SameTimeline'
  <2> SUFFICES ASSUME known = epoch PROVE cursor <= head /\ \A p \in Objects : Follows(p, cursor)'
    BY <1>3 DEF SameTimeline
  <2>1. cursor <= head /\ \A p \in Objects : Follows(p, cursor)
    BY DEF SameTimeline
  <2>2. PICK h \in Nat : h = cursor
    BY DEF TimelineTyped
  <2>3. ASSUME NEW p \in Objects PROVE Follows(p, h)'
    <3>1. CASE p \in DOMAIN changes
      BY <1>9, <3>1
    <3>2. CASE p \notin DOMAIN changes
      BY <1>3, <1>8, <2>1, <2>2, <3>2 DEF Follows
    <3> QED
      BY <3>1, <3>2
  <2> QED
    BY <1>3, <2>1, <2>2, <2>3 DEF Follows
<1>11. ASSUME NEW p \in Objects
       PROVE  IF p \in seen THEN \A h \in Nat : h = head => Follows(p, h)' ELSE srv'[p].rev = 0
  <2>1. CASE p \in DOMAIN changes
    <3>1. \A h \in Nat : Follows(p, h)'
      BY <1>9, <2>1
    <3>2. p \notin seen => srv[p].rev = 0
      BY <1>5, <2>1 DEF TimelineTyped, Rows
    <3> QED
      BY <1>3, <3>1, <3>2
  <2>2. CASE p \notin DOMAIN changes
    <3>1. p \in seen <=> p \in run.seen
      BY <1>5, <2>2
    <3>2. CASE p \in run.seen
      <4>1. Follows(p, run.head) /\ ~(seq[p] > run.head)
        BY <1>4, <1>7, <2>2, <3>2
      <4>2. \A h \in Nat : Follows(p, h)'
        BY <1>3, <1>8, <2>2, <4>1 DEF Follows
      <4> QED
        BY <3>1, <3>2, <4>2
    <3>3. CASE p \notin run.seen
      BY <1>3, <1>7, <3>1, <3>3
    <3> QED
      BY <3>2, <3>3
  <2> QED
    BY <2>1, <2>2
<1>12. Reconciling'
  <2>1. PICK h \in Nat : h = head
    BY <1>6
  <2>2. \A p \in Objects \ run'.todo :
          IF p \in run'.seen THEN Follows(p, run.head)' ELSE srv'[p].rev = 0
    <3> TAKE p \in Objects \ run'.todo
    <3>1. IF p \in seen THEN Follows(p, h)' ELSE srv'[p].rev = 0
      BY <1>11, <2>1
    <3>2. run'.head = h /\ run'.seen = seen
      BY <1>6, <2>1
    <3> QED
      BY <3>1, <3>2 DEF Follows
  <2>3. known' <= run'.epoch /\ run'.epoch <= epoch' /\ run'.head <= head'
    <3>1. known' <= run'.epoch
      BY <1>3, <1>6, <1>7
    <3>2. run'.epoch <= epoch'
      BY <1>3, <1>6, <1>7
    <3>3. run'.head <= head'
      <4>1. run'.head = h /\ head' = h
        BY <1>3, <1>6, <2>1
      <4> QED
        BY <4>1
    <3> QED
      BY <3>1, <3>2, <3>3
  <2> QED
    BY <1>6, <2>2, <2>3 DEF Reconciling
<1> QED
  BY <1>8, <1>10, <1>12

(* What was not seen is not there, unless it waits for its first upload. *)
LEMMA RemoveMissingKeeps ==
    ASSUME TimelineInv, Timeline!RemoveMissing
    PROVE  TimelineInv'
<1> USE DEF TimelineInv
<1> DEFINE Fresh(o) == Timeline!Pending(o) /\ out[o].base = 0 /\ o \notin run.forced /\ ~out[o].old
<1>1. PICK missing : missing = {o \in Objects : row[o].rev > 0 /\ o \notin run.seen /\ ~Fresh(o)}
  OBVIOUS
<1>2. PICK changes : changes = [o \in missing |-> Timeline!NoRow]
  OBVIOUS
<1>3. PICK whole \in BOOLEAN : whole = FALSE
  OBVIOUS
<1>4. /\ run.at = "missing" /\ run' = [run EXCEPT !.at = "adopt"]
      /\ Timeline!Apply(changes, whole)
      /\ srv' = srv /\ seq' = seq /\ head' = head /\ epoch' = epoch /\ saved' = saved
      /\ known' = known /\ made' = made /\ cursor' = cursor
  BY <1>1, <1>2, <1>3 DEF Timeline!RemoveMissing, Timeline!server, Timeline!bounds
<1>5. /\ run' \in [at : Stages, epoch : Nat, head : Nat, changed : BOOLEAN,
                   forced : SUBSET Objects, todo : SUBSET Objects, seen : SUBSET Objects]
      /\ run'.at = "adopt" /\ run'.epoch = run.epoch /\ run'.head = run.head
      /\ cursor' \in Nat /\ head \in Nat
  BY <1>4 DEF TimelineTyped, Stages
<1>6. DOMAIN changes = missing /\ \A p \in missing : changes[p] = Timeline!NoRow
  BY <1>2
<1>7. /\ TimelineTyped' /\ SavedTyped' /\ RowsWhole'
      /\ \A p \in Objects :
           /\ p \notin missing => row'[p] = row[p] /\ (Timeline!Pending(p)' <=> Timeline!Pending(p))
           /\ p \in missing => Timeline!Pending(p)' \/ row'[p] = Timeline!NoRow
  <2>1. missing \subseteq Objects
    BY <1>1
  <2> QED
    BY <1>4, <1>5, <1>6, <2>1, AppliesServer
<1>8. /\ known <= run.epoch /\ run.epoch <= epoch
      /\ run.epoch = epoch =>
           /\ run.head <= head
           /\ \A p \in Objects : IF p \in run.seen THEN Follows(p, run.head) ELSE srv[p].rev = 0
  BY <1>4 DEF Reconciling
<1>9. ASSUME run.epoch = epoch, NEW p \in Objects, NEW h \in Nat,
             h = run.head \/ Follows(p, h)
      PROVE  Follows(p, h)'
  <2>1. CASE p \in run.seen
    <3>1. Follows(p, h)
      BY <1>8, <1>9, <2>1
    <3>2. p \notin missing
      BY <1>1, <2>1
    <3> QED
      BY <1>4, <1>7, <3>1, <3>2 DEF Follows
  <2>2. CASE p \notin run.seen
    <3>1. srv'[p] = Timeline!NoRow /\ srv'[p].rev = 0
      BY <1>4, <1>8, <1>9, <2>2 DEF RowsWhole, Timeline!NoRow
    <3>2. Timeline!Pending(p)' \/ row'[p] = Timeline!NoRow
      <4>1. CASE p \in missing
        BY <1>7, <4>1
      <4>2. CASE p \notin missing /\ row[p].rev > 0
        <5>1. Timeline!Pending(p)
          BY <1>1, <2>2, <4>2
        <5> QED
          BY <1>7, <4>2, <5>1
      <4>3. CASE p \notin missing /\ ~(row[p].rev > 0)
        <5>1. row[p].rev = 0
          BY <4>3 DEF TimelineTyped, Rows
        <5>2. row[p] = Timeline!NoRow
          BY <5>1 DEF RowsWhole
        <5> QED
          BY <1>7, <4>3, <5>2
      <4> QED
        BY <4>1, <4>2, <4>3
    <3> QED
      BY <3>1, <3>2 DEF Follows
  <2> QED
    BY <2>1, <2>2
<1>10. SameTimeline'
  <2> SUFFICES ASSUME known = epoch PROVE cursor <= head /\ \A p \in Objects : Follows(p, cursor)'
    BY <1>4 DEF SameTimeline
  <2>1. cursor <= head /\ \A p \in Objects : Follows(p, cursor)
    BY DEF SameTimeline
  <2>2. PICK h \in Nat : h = cursor
    BY DEF TimelineTyped
  <2>3. run.epoch = epoch
    BY <1>8 DEF TimelineTyped
  <2>4. \A p \in Objects : Follows(p, h)'
    BY <1>9, <2>1, <2>2, <2>3
  <2> QED
    BY <1>4, <2>1, <2>2, <2>4 DEF Follows
<1>11. Reconciling'
  <2>1. PICK h \in Nat : h = run.head
    BY DEF TimelineTyped
  <2>2. run.epoch = epoch => \A p \in Objects : Follows(p, h)'
    BY <1>9, <2>1
  <2>3. run'.head = h
    BY <1>5, <2>1
  <2>4. run'.epoch = epoch' => \A p \in Objects : Follows(p, run.head)'
    BY <1>4, <1>5, <2>2, <2>3 DEF Follows
  <2>5. /\ known' <= run'.epoch /\ run'.epoch <= epoch'
        /\ run'.epoch = epoch' => run'.head <= head'
    BY <1>4, <1>5, <1>8
  <2> QED
    BY <1>5, <2>4, <2>5 DEF Reconciling
<1> QED
  BY <1>7, <1>10, <1>11

LEMMA TimelineInitHolds == Timeline!Init => TimelineInv
<1> SUFFICES ASSUME Timeline!Init PROVE TimelineInv
  OBVIOUS
<1>1. /\ srv = [o \in Objects |-> Timeline!FirstRow(o)]
      /\ seq = [o \in Objects |-> Timeline!FirstRow(o).rev]
      /\ head = 1 /\ epoch = 1 /\ cursor = 1 /\ known = 1 /\ made = 0
      /\ row = srv /\ out = [o \in Objects |-> Timeline!NoOut] /\ run = Timeline!Off
      /\ saved = [srv |-> srv, seq |-> seq, head |-> head]
  BY DEF Timeline!Init
<1>2. \A o \in Objects :
        /\ Timeline!FirstRow(o) \in Rows /\ Timeline!FirstRow(o).rev \in {0, 1}
        /\ Timeline!FirstRow(o).rev = 0 => Timeline!FirstRow(o) = Timeline!NoRow
  BY DEF Timeline!FirstRow, Timeline!NoRow, Rows
<1>3. /\ srv \in [Objects -> Rows] /\ seq \in [Objects -> Nat]
      /\ \A o \in Objects : seq[o] <= head /\ (srv[o].rev = 0 => srv[o] = Timeline!NoRow)
  BY <1>1, <1>2
<1>4. /\ Timeline!NoOut \in [base : Nat, text : SUBSET Nat, old : BOOLEAN]
      /\ Timeline!NoOut.text = {}
  BY DEF Timeline!NoOut
<1>5. /\ Timeline!Off \in [at : Stages, epoch : Nat, head : Nat, changed : BOOLEAN,
                           forced : SUBSET Objects, todo : SUBSET Objects, seen : SUBSET Objects]
      /\ Timeline!Off.at = "off"
  BY DEF Timeline!Off, Stages
<1>6. \A o \in Objects : ~Timeline!Pending(o)
  BY <1>1, <1>4 DEF Timeline!Pending
<1>7. TimelineTyped /\ SavedTyped
  BY <1>1, <1>3, <1>4, <1>5 DEF TimelineTyped, SavedTyped
<1>8. RowsWhole
  BY <1>1, <1>3, <1>6 DEF RowsWhole
<1>9. SameTimeline
  <2>1. \A o \in Objects : row[o] = srv[o] /\ row[o].rev <= srv[o].rev
    BY <1>1, <1>3 DEF Rows
  <2> QED
    BY <1>1, <2>1 DEF SameTimeline, Follows
<1>10. Reconciling
  BY <1>1, <1>5 DEF Reconciling
<1> QED
  BY <1>7, <1>8, <1>9, <1>10 DEF TimelineInv

LEMMA TimelineNext == TimelineInv /\ Timeline!Next => TimelineInv'
  BY ChangeKeeps, BackupKeeps, RestoreKeeps, LapseKeeps, EditKeeps, StatusKeeps, StopRunKeeps,
     AdoptKeeps, PushKeeps, PullKeeps, ScanKeeps, CatchUpKeeps, RemoveMissingKeeps
  DEF Timeline!Next

LEMMA TimelineRests ==
    TimelineInv /\ UNCHANGED timelineVars => TimelineInv'
  BY DEF timelineVars, TimelineInv, TimelineTyped, SavedTyped, RowsWhole, SameTimeline,
     Reconciling, Follows, Timeline!Pending

LEMMA TimelineInvIsSafe == TimelineInv => Timeline!TimelineSafe
<1> SUFFICES ASSUME TimelineInv PROVE Timeline!TimelineSafe
  OBVIOUS
<1> USE DEF TimelineInv
<1>1. \A o \in Objects : srv[o].rev \in Nat /\ out[o].base \in Nat
  BY DEF TimelineTyped, Rows
<1>2. ASSUME NEW o \in Objects, Timeline!Pending(o) PROVE row[o].rev = out[o].base + 1
  <2>1. row[o] = [rev |-> out[o].base + 1, text |-> out[o].text]
    BY <1>2 DEF RowsWhole
  <2> QED
    BY <2>1
<1>3. run.at \in {"off", "scan", "missing", "adopt", "ready"}
  BY DEF TimelineTyped, Stages
<1>4. Timeline!TimelineTypeOK
  BY <1>1, <1>2, <1>3 DEF Timeline!TimelineTypeOK, TimelineTyped
<1>5. Timeline!Mirrored
  BY DEF Timeline!Mirrored, SameTimeline, Follows
<1> QED
  BY <1>4, <1>5 DEF Timeline!TimelineSafe

-----------------------------------------------------------------------------
(* A step of the root is a step of one part; the others rest. *)
LEMMA StepsOfParts ==
    ASSUME [RootNext]_everything
    PROVE  /\ Retention!Next \/ UNCHANGED retentionVars
           /\ Timeline!Next \/ UNCHANGED timelineVars
<1>1. CASE StorageStep \/ CalmStep
  BY <1>1 DEF StorageStep, CalmStep, Only
<1>2. CASE RetentionStep
  BY <1>2 DEF RetentionStep, Only
<1>3. CASE TimelineStep
  BY <1>3 DEF TimelineStep, Only
<1>4. CASE UNCHANGED everything
  BY <1>4 DEF everything
<1> QED
  BY <1>1, <1>2, <1>3, <1>4 DEF RootNext

LEMMA RecoveryInitHolds == RootInit => RetentionInv /\ TimelineInv
  BY RetentionInitHolds, TimelineInitHolds DEF RootInit

LEMMA RecoveryStepKeeps ==
    RetentionInv /\ TimelineInv /\ [RootNext]_everything => RetentionInv' /\ TimelineInv'
  BY StepsOfParts, RetentionNext, RetentionRests, TimelineNext, TimelineRests

(* However many days pass, backups are made, adopted, tampered with and     *)
(* rotated, and jobs die: the newest backup of each day, week and month     *)
(* that is due is there, and only the server's own intact backups go.  And  *)
(* whatever was restored, a device at rest in the server's timeline has     *)
(* what the server has, up to its cursor.                                   *)
THEOREM RecoveryIsSafe == RootSpec => []RecoverySafe
<1>1. RetentionInv /\ TimelineInv => RecoverySafe
  BY RetentionInvIsSafe, TimelineInvIsSafe DEF RecoverySafe
<1> QED
  BY <1>1, RecoveryInitHolds, RecoveryStepKeeps, PTL DEF RootSpec

-----------------------------------------------------------------------------
LEMMA OneOfUnion ==
    ASSUME NEW sets, NEW rest, NEW X \in sets
    PROVE  X \cup rest \subseteq rest \cup UNION sets
  OBVIOUS

LEMMA LocalHas ==
    ASSUME NEW o \in Objects
    PROVE  /\ row[o].text \cup out[o].text \cup copies \subseteq Timeline!Local
           /\ row'[o].text \cup out'[o].text \cup copies' \subseteq (Timeline!Local)'
<1>1. ASSUME NEW sets, sets = {row[p].text \cup out[p].text : p \in Objects}
      PROVE  row[o].text \cup out[o].text \cup copies \subseteq copies \cup UNION sets
  <2>1. row[o].text \cup out[o].text \in sets
    BY <1>1
  <2> QED
    BY <2>1, OneOfUnion
<1>2. ASSUME NEW sets, sets = {row'[p].text \cup out'[p].text : p \in Objects}
      PROVE  row'[o].text \cup out'[o].text \cup copies' \subseteq copies' \cup UNION sets
  <2>1. row'[o].text \cup out'[o].text \in sets
    BY <1>2
  <2> QED
    BY <2>1, OneOfUnion
<1>3. Timeline!Local = copies \cup UNION {row[p].text \cup out[p].text : p \in Objects}
  BY Zenon DEF Timeline!Local
<1>4. (Timeline!Local)' = copies' \cup UNION {row'[p].text \cup out'[p].text : p \in Objects}
  BY Zenon DEF Timeline!Local
<1> QED
  BY <1>1, <1>2, <1>3, <1>4

(* What is applied leaves what waits in the row or in a copy. *)
LEMMA AppliedKeepsUnsent ==
    ASSUME TimelineInv, NEW changes, NEW snapshot \in BOOLEAN,
           Timeline!Apply(changes, snapshot), DOMAIN changes \subseteq Objects,
           \A o \in DOMAIN changes : changes[o] = srv[o] \/ changes[o] = Timeline!NoRow
    PROVE  \A o \in Objects : out[o].text \subseteq (Timeline!Local)'
<1>1. Timeline!NoRow \in Rows
  BY DEF Timeline!NoRow, Rows
<1>2. \A o \in DOMAIN changes :
        changes[o] \in Rows /\ (changes[o].rev = 0 => changes[o] = Timeline!NoRow)
  BY <1>1 DEF TimelineInv, TimelineTyped, RowsWhole
<1>3. \A o \in Objects : out[o].text \subseteq row'[o].text \cup copies'
  BY <1>2, Applied DEF TimelineInv
<1> QED
  BY <1>3, LocalHas

(* Only what is applied, an edit and an upload change what waits. *)
LEMMA UnsentStays ==
    ASSUME TimelineInv, Timeline!Next \/ UNCHANGED timelineVars
    PROVE  \A o \in Objects : out[o].text \subseteq (Timeline!Local)' \cup srv'[o].text
<1> USE DEF TimelineInv
<1>1. CASE out' = out
  BY <1>1, LocalHas
<1>2. CASE Timeline!Lapse
  <2>1. \A o \in Objects : out'[o].text = out[o].text
    BY <1>2 DEF Timeline!Lapse, Timeline!Pending, Timeline!NoOut, TimelineTyped
  <2> QED
    BY <2>1, LocalHas
<1>3. ASSUME NEW o \in Objects, Timeline!Edit(o)
      PROVE  \A p \in Objects : out[p].text \subseteq (Timeline!Local)'
  <2>1. out[o].text \subseteq row[o].text
    BY DEF RowsWhole, Timeline!Pending, TimelineTyped
  <2>2. PICK base \in Nat :
          out' = [out EXCEPT ![o] = [base |-> base, text |-> row[o].text \cup {Timeline!New},
                                     old |-> FALSE]]
    <3>1. out[o].base \in Nat /\ row[o].rev \in Nat
      BY DEF TimelineTyped, Rows
    <3> QED
      BY <1>3, <3>1 DEF Timeline!Edit
  <2>3. out'[o].text = row[o].text \cup {Timeline!New}
    BY <2>2 DEF TimelineTyped
  <2>4. \A p \in Objects \ {o} : out'[p] = out[p]
    BY <2>2 DEF TimelineTyped
  <2> QED
    BY <2>1, <2>3, <2>4, LocalHas
<1>4. ASSUME NEW o \in Objects, Timeline!Push(o)
      PROVE  \A p \in Objects : out[p].text \subseteq (Timeline!Local)' \cup srv'[p].text
  <2>1. srv'[o].text = out[o].text
    BY <1>4 DEF Timeline!Push, TimelineTyped
  <2>2. \A p \in Objects \ {o} : out'[p] = out[p]
    BY <1>4 DEF Timeline!Push, TimelineTyped
  <2> QED
    BY <2>1, <2>2, LocalHas
<1>5. CASE Timeline!Pull
  <2>1. PICK changes : changes = Timeline!Since(cursor)
    OBVIOUS
  <2>2. PICK whole \in BOOLEAN : whole = FALSE
    OBVIOUS
  <2>3. Timeline!Apply(changes, whole)
    BY <1>5, <2>1, <2>2 DEF Timeline!Pull
  <2> QED
    BY <2>1, <2>3, SinceChanges, AppliedKeepsUnsent
<1>6. CASE Timeline!CatchUp
  <2>1. PICK changes : changes = Timeline!Since(run.head)
    OBVIOUS
  <2>2. PICK whole \in BOOLEAN : whole = FALSE
    OBVIOUS
  <2>3. Timeline!Apply(changes, whole)
    BY <1>6, <2>1, <2>2 DEF Timeline!CatchUp
  <2> QED
    BY <2>1, <2>3, SinceChanges, AppliedKeepsUnsent
<1>7. CASE Timeline!Scan
  <2>1. PICK o \in run.todo : o = Timeline!Min(run.todo)
    BY <1>7, LeastOfTodo DEF Timeline!Scan, TimelineTyped
  <2>2. PICK there, changes :
          /\ there = IF srv[o].rev > 0 THEN {o} ELSE {}
          /\ changes = [p \in there |-> srv[p]]
    OBVIOUS
  <2>3. PICK whole \in BOOLEAN : whole = TRUE
    OBVIOUS
  <2>4. Timeline!Apply(changes, whole) /\ o \in Objects
    BY <1>7, <2>1, <2>2, <2>3 DEF Timeline!Scan, TimelineTyped
  <2>5. DOMAIN changes \subseteq Objects /\ \A p \in DOMAIN changes : changes[p] = srv[p]
    BY <2>2, <2>4
  <2> QED
    BY <2>4, <2>5, AppliedKeepsUnsent
<1>8. CASE Timeline!RemoveMissing
  <2>1. \E missing \in SUBSET Objects : \E whole \in BOOLEAN :
          Timeline!Apply([o \in missing |-> Timeline!NoRow], whole)
    <3>1. PICK whole \in BOOLEAN : whole = FALSE
      OBVIOUS
    <3>2. PICK missing :
            missing = {o \in Objects : /\ row[o].rev > 0 /\ o \notin run.seen
                                       /\ ~( /\ Timeline!Pending(o) /\ out[o].base = 0
                                             /\ o \notin run.forced /\ ~out[o].old )}
      OBVIOUS
    <3> QED
      BY <1>8, <3>1, <3>2 DEF Timeline!RemoveMissing
  <2>2. PICK missing \in SUBSET Objects : \E whole \in BOOLEAN :
          Timeline!Apply([o \in missing |-> Timeline!NoRow], whole)
    BY <2>1
  <2>3. PICK whole \in BOOLEAN : Timeline!Apply([o \in missing |-> Timeline!NoRow], whole)
    BY <2>2
  <2>4. PICK changes : changes = [o \in missing |-> Timeline!NoRow]
    OBVIOUS
  <2>5. DOMAIN changes \subseteq Objects /\ \A p \in DOMAIN changes : changes[p] = Timeline!NoRow
    BY <2>4
  <2> QED
    BY <2>3, <2>4, <2>5, AppliedKeepsUnsent
<1>9. CASE \/ \E o \in Objects : Timeline!Write(o) \/ Timeline!Purge(o)
           \/ Timeline!Backup \/ Timeline!Restore \/ Timeline!Status \/ Timeline!Adopt
           \/ Timeline!Stop \/ UNCHANGED timelineVars
  <2>1. out' = out
    BY <1>9 DEF Timeline!Write, Timeline!Purge, Timeline!Backup, Timeline!Restore, Timeline!Status,
       Timeline!Adopt, Timeline!Stop, Timeline!device, timelineVars
  <2> QED
    BY <1>1, <2>1
<1> QED
  BY <1>2, <1>3, <1>4, <1>5, <1>6, <1>7, <1>8, <1>9 DEF Timeline!Next

(* No restore, reconciliation, expired lease or concurrent upload takes     *)
(* text that waits for its upload: the server has it, or the device.        *)
THEOREM UnsentTextIsKept == RootSpec => UnsentKept
<1>1. RetentionInv /\ TimelineInv /\ [RootNext]_everything =>
        [ \A o \in Objects : out[o].text \subseteq (Timeline!Local)' \cup srv'[o].text ]_Timeline!vars
  BY StepsOfParts, UnsentStays
<1> QED
  BY <1>1, RecoveryInitHolds, RecoveryStepKeeps, PTL DEF RootSpec, UnsentKept, Timeline!UnsentKept
===============================================================================
