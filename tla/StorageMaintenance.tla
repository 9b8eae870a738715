-------------------------- MODULE StorageMaintenance --------------------------
(* The data directory of a server: the lock file (storageLock.ts), the service *)
(* that opens and migrates notes.sqlite (database.ts, index.ts), the online    *)
(* backup (backup.ts) and the offline commands restore, compact and            *)
(* rotate-epoch (storageCli.ts). Processes run side by side and may be killed  *)
(* between any two system calls; process identifiers are used again. A         *)
(* database is its schema version, its synchronization epoch and the edits it  *)
(* holds; one epoch stands for those of all accounts.                          *)
EXTENDS Naturals, FiniteSets

CONSTANTS Processes,
          Kinds,      \* what is started: "service", "restore", "compact", "rotate"
          Pids,       \* process identifiers of the namespace
          Initial,    \* schema versions of the database at first
          AtOnce,     \* processes that may take the lock at the same time
          MaxStarts, MaxCrashes, MaxEdits

Supported == {2, 3, 4, 5, 6}

ASSUME StorageConstants ==
  /\ {MaxStarts, MaxCrashes, MaxEdits, AtOnce} \subseteq Nat
  /\ IsFiniteSet(Processes) /\ Pids \subseteq Nat \ {0} /\ Initial \subseteq Supported

VARIABLES lock,    \* .mint-notes.lock
          proc,    \* the processes
          main,    \* notes.sqlite
          online,  \* backups made by backup.ts
          pre,     \* backups/pre-schema6.sqlite
          aside,   \* pre-restore-*, pre-compact-*, .before-restore-*, and what operators put away
          copied,  \* an operator replaced notes.sqlite by hand
          epochs, edits, starts, crashes,  \* counters
          served   \* per epoch: the edits clients have been shown

disk == <<main, online, pre, aside, copied>>
counters == <<epochs, edits, starts, crashes>>
vars == <<lock, proc, disk, counters, served>>

SchemaVersion == 6
Restorable == {2, 3, 4, 5}
NoDb == [schema |-> 0, epoch |-> 0, edits |-> {}]
NoLock == [by |-> "nobody", pid |-> 0]
Off == [at |-> "off", kind |-> "", pid |-> 0, db |-> NoDb, old |-> NoDb, why |-> ""]
Alive == {p \in Processes : proc[p].at # "off"}
Taking == {p \in Alive : proc[p].at \in {"try", "read", "dead", "again", "made"}}
Holders == Alive \ Taking
AlivePids == {proc[p].pid : p \in Alive}

(* A v2 database has no sync_state: its first epoch comes with its migration. *)
Dbs == {NoDb} \cup [schema : Initial, epoch : {1}, edits : {{1}}]
Init == /\ lock = NoLock /\ proc = [p \in Processes |-> Off] /\ main \in Dbs /\ pre = NoDb
        /\ online \in {{}, {main} \ {NoDb}} /\ aside = {} /\ copied = FALSE
        /\ epochs = 1 /\ edits = Cardinality(main.edits) /\ starts = 0 /\ crashes = 0 /\ served = [e \in {1} |-> main.edits]

Rotated(db) == [db EXCEPT !.epoch = epochs + 1]
At(p, stage) == proc' = [proc EXCEPT ![p].at = stage]
Shown(db) == served' = [e \in DOMAIN served \cup {db.epoch} |-> IF e = db.epoch THEN db.edits ELSE served[e]]

-----------------------------------------------------------------------------
(* acquireStorageLock: openSync "wx", then on EEXIST read the file, probe the  *)
(* process, unlink, open again; last the own pid is written.                   *)
Start(p, kind, pid) ==
  /\ proc[p].at = "off" /\ starts < MaxStarts /\ Cardinality(Taking) < AtOnce /\ pid \notin AlivePids
  /\ kind = "service" => ~copied
  /\ proc' = [proc EXCEPT ![p] = [Off EXCEPT !.at = "try", !.kind = kind, !.pid = pid]]
  /\ starts' = starts + 1
  /\ UNCHANGED <<lock, disk, epochs, edits, crashes, served>>

Quit(p, why) == proc' = [proc EXCEPT ![p] = [Off EXCEPT !.why = why, !.kind = proc[p].kind]]

Create(p) == lock' = [by |-> p, pid |-> 0] /\ At(p, "made")

Take(p) ==
  /\ proc[p].at = "try"
  /\ \/ lock = NoLock /\ Create(p)
     \/ lock # NoLock /\ At(p, "read") /\ UNCHANGED lock
  /\ UNCHANGED <<disk, counters, served>>

Read(p) ==
  /\ proc[p].at = "read"
  /\ \/ lock = NoLock /\ Quit(p, "no file")
     \/ lock # NoLock /\ lock.pid = 0 /\ Quit(p, "invalid")
     \/ lock.pid \in AlivePids /\ Quit(p, "in use")
     \/ lock # NoLock /\ lock.pid \notin AlivePids \cup {0} /\ At(p, "dead")
  /\ UNCHANGED <<lock, disk, counters, served>>

Unlink(p) ==
  /\ proc[p].at = "dead"
  /\ \/ lock = NoLock /\ Quit(p, "no file") /\ UNCHANGED lock
     \/ lock # NoLock /\ lock' = NoLock /\ At(p, "again")
  /\ UNCHANGED <<disk, counters, served>>

Again(p) ==
  /\ proc[p].at = "again"
  /\ \/ lock = NoLock /\ Create(p)
     \/ lock # NoLock /\ Quit(p, "exists") /\ UNCHANGED lock
  /\ UNCHANGED <<disk, counters, served>>

(* The descriptor may name a file another process has unlinked. *)
Write(p) ==
  /\ proc[p].at = "made" /\ At(p, "held")
  /\ lock' = IF lock.by = p THEN [lock EXCEPT !.pid = proc[p].pid] ELSE lock
  /\ UNCHANGED <<disk, counters, served>>

(* A file that names another process stays; if there is none, the command     *)
(* fails after its work.                                                       *)
Release(p, why) == Quit(p, why) /\ lock' = IF lock.pid = proc[p].pid THEN NoLock ELSE lock

-----------------------------------------------------------------------------
(* The service: openDatabase, then edits until it is stopped. *)
(* The one-off copy before a migration is never overwritten: VACUUM INTO an    *)
(* existing file fails, and the start with it.                                 *)
Open(p) ==
  /\ proc[p].at = "held" /\ proc[p].kind = "service"
  /\ \/ /\ main = NoDb
        /\ main' = [Rotated(NoDb) EXCEPT !.schema = SchemaVersion] /\ epochs' = epochs + 1
        /\ At(p, "run") /\ Shown(main') /\ UNCHANGED <<lock, pre>>
     \/ /\ main.schema = SchemaVersion /\ At(p, "run") /\ Shown(main)
        /\ UNCHANGED <<lock, main, pre, epochs>>
     \/ /\ main.schema \in Supported \ {SchemaVersion} /\ pre = NoDb
        /\ pre' = main /\ At(p, "migrate") /\ UNCHANGED <<lock, main, epochs, served>>
     \/ /\ main.schema \in Supported \ {SchemaVersion} /\ pre # NoDb
        /\ Release(p, "kept") /\ UNCHANGED <<main, pre, epochs, served>>
  /\ UNCHANGED <<online, aside, copied, edits, starts, crashes>>

(* One immediate transaction; v2 receives its first epoch in it. *)
Migrate(p) ==
  /\ proc[p].at = "migrate"
  /\ main' = [(IF main.schema = 2 THEN Rotated(main) ELSE main) EXCEPT !.schema = SchemaVersion]
  /\ epochs' = epochs + 1 /\ At(p, "run") /\ Shown(main')
  /\ UNCHANGED <<lock, online, pre, aside, copied, edits, starts, crashes>>

Edit(p) ==
  /\ proc[p].at = "run" /\ edits < MaxEdits
  /\ edits' = edits + 1 /\ main' = [main EXCEPT !.edits = @ \cup {edits + 1}] /\ Shown(main')
  /\ UNCHANGED <<lock, proc, online, pre, aside, copied, epochs, starts, crashes>>

Stop(p) == proc[p].at = "run" /\ Release(p, "") /\ UNCHANGED <<disk, counters, served>>

-----------------------------------------------------------------------------
(* restore --source: a copy of the backup, with an epoch of its own, takes the *)
(* place of the database, which is copied and then renamed.                    *)
StageFault(p, b) ==
  /\ proc[p].at = "held" /\ proc[p].kind = "restore" /\ b \in (online \cup {pre}) \ {NoDb}
  /\ b.schema \in Restorable /\ proc' = [proc EXCEPT ![p].at = "staged", ![p].db = b]
  /\ UNCHANGED <<lock, disk, counters, served>>

Stage(p, b) ==
  /\ proc[p].at = "held" /\ proc[p].kind = "restore" /\ b \in (online \cup {pre}) \ {NoDb}
  /\ \/ /\ b.schema \notin Restorable /\ Release(p, "schema") /\ UNCHANGED epochs
     \/ /\ b.schema \in Restorable /\ UNCHANGED lock
        /\ proc' = [proc EXCEPT ![p].at = "staged", ![p].db = IF b.schema >= 3 THEN Rotated(b) ELSE b]
        /\ epochs' = epochs + 1
  /\ UNCHANGED <<disk, edits, starts, crashes, served>>

(* migrationBackup of the database as it is; compact and rotate-epoch begin    *)
(* with it too, and need a database.                                           *)
Keep(p) ==
  /\ \/ proc[p].at = "staged"
     \/ proc[p].at = "held" /\ proc[p].kind \in {"compact", "rotate"}
  /\ \/ /\ main # NoDb /\ aside' = aside \cup {main} /\ At(p, "kept") /\ UNCHANGED lock
     \/ /\ main = NoDb /\ proc[p].kind = "restore" /\ At(p, "swap") /\ UNCHANGED <<lock, aside>>
     \/ /\ main = NoDb /\ proc[p].kind # "restore" /\ Release(p, "no database") /\ UNCHANGED aside
  /\ UNCHANGED <<main, online, pre, copied, counters, served>>

(* Fault: the displaced database is deleted at once. *)
DisplaceFault(p) ==
  /\ proc[p].at = "staged" /\ main' = NoDb /\ At(p, "swap")
  /\ UNCHANGED <<lock, online, pre, aside, copied, counters, served>>

Displace(p) ==
  /\ proc[p].at = "kept" /\ proc[p].kind = "restore" /\ main # NoDb
  /\ aside' = aside \cup {main} /\ main' = NoDb
  /\ proc' = [proc EXCEPT ![p].at = "swap", ![p].old = main]
  /\ UNCHANGED <<lock, online, pre, copied, counters, served>>

Swap(p) ==
  /\ proc[p].at = "swap" /\ main' = proc[p].db /\ copied' = FALSE /\ Release(p, "")
  /\ UNCHANGED <<online, pre, aside, counters, served>>

(* rename fails: the displaced database goes back. *)
SwapFails(p) ==
  /\ proc[p].at = "swap" /\ main = NoDb /\ crashes < MaxCrashes /\ crashes' = crashes + 1
  /\ main' = proc[p].old /\ Release(p, "rename")
  /\ UNCHANGED <<online, pre, aside, copied, epochs, edits, starts, served>>

Compact(p) ==
  /\ proc[p].at = "kept" /\ proc[p].kind = "compact" /\ Release(p, "")
  /\ UNCHANGED <<disk, counters, served>>

(* A v2 database has no sync_state to update: the command fails. *)
Rotate(p) ==
  /\ proc[p].at = "kept" /\ proc[p].kind = "rotate" /\ Release(p, "")
  /\ IF main.schema = 2 THEN UNCHANGED <<main, copied, epochs>>
     ELSE main' = Rotated(main) /\ epochs' = epochs + 1 /\ copied' = FALSE
  /\ UNCHANGED <<online, pre, aside, edits, starts, crashes, served>>

-----------------------------------------------------------------------------
(* backup.ts needs no lock: SQLite copies a consistent state of the database,  *)
(* which is verified before it counts.                                         *)
Backup ==
  /\ main # NoDb /\ online' = online \cup {main}
  /\ UNCHANGED <<lock, proc, main, pre, aside, copied, counters, served>>

(* What docs/deployment.md has operators do while nothing runs: put            *)
(* pre-schema6.sqlite away, and put a backup in place by hand, keeping the old *)
(* database; the service is then not started before rotate-epoch.              *)
PutAway ==
  /\ Alive = {} /\ pre # NoDb /\ aside' = aside \cup {pre} /\ pre' = NoDb
  /\ UNCHANGED <<lock, proc, main, online, copied, counters, served>>

CopyByHand(b) ==
  /\ Alive = {} /\ b \in online /\ b.schema >= 3 /\ b # main
  /\ aside' = aside \cup ({main} \ {NoDb}) /\ main' = b /\ copied' = TRUE
  /\ UNCHANGED <<lock, proc, online, pre, counters, served>>

Crash(p) ==
  /\ p \in Alive /\ crashes < MaxCrashes /\ crashes' = crashes + 1
  /\ proc' = [proc EXCEPT ![p] = Off]
  /\ UNCHANGED <<lock, disk, epochs, edits, starts, served>>

Next ==
  \/ \E p \in Processes :
       \/ \E kind \in Kinds, pid \in Pids : Start(p, kind, pid)
       \/ Take(p) \/ Read(p) \/ Unlink(p) \/ Again(p) \/ Write(p)
       \/ Open(p) \/ Migrate(p) \/ Edit(p) \/ Stop(p)
       \/ \E b \in online \cup {pre} : Stage(p, b)
       \/ Keep(p) \/ Displace(p) \/ Swap(p) \/ SwapFails(p) \/ Compact(p) \/ Rotate(p) \/ Crash(p)
  \/ Backup \/ PutAway \/ \E b \in online : CopyByHand(b)

Spec == Init /\ [][Next]_vars

-----------------------------------------------------------------------------
DbType == [schema : {0} \cup Supported, epoch : 0..epochs, edits : SUBSET (1..edits)]

(* Every variable has its type; the service runs on the current schema.        *)
StorageTypeOK ==
  /\ lock.by \in Processes \cup {"nobody"} /\ lock.pid \in Pids \cup {0}
  /\ \A p \in Processes : proc[p].db \in DbType /\ (p \in Alive => proc[p].pid \in Pids)
  /\ (\E p \in Processes : proc[p].at = "run") => main.schema = SchemaVersion
  /\ {main, pre} \cup online \cup aside \subseteq DbType
  /\ copied \in BOOLEAN /\ DOMAIN served \subseteq 0..epochs

(* Whichever call a restore, a migration or a start dies at: every edit the    *)
(* server ever accepted is still in a file of the data directory.              *)
EditsKept == 1..edits \subseteq UNION {db.edits : db \in {main, pre} \cup online \cup aside}

(* A client keeps its cursor as long as the epoch stays the same: within one   *)
(* epoch what the service shows never goes back to an earlier state, whatever  *)
(* was restored in between.                                                    *)
EpochsGoForward ==
  [][\A e \in DOMAIN served : served[e] \subseteq served'[e]]_vars

(* A migration changes a database only when pre-schema6.sqlite holds exactly   *)
(* that database, not one of an earlier attempt.                               *)
MigratesWhatItKept ==
  [][main.schema \in Supported \ {SchemaVersion} /\ main'.schema = SchemaVersion
       /\ (\E p \in Processes : proc[p].at = "migrate") => pre = main]_vars

(* docs/deployment.md: the service and the maintenance commands share the lock *)
(* of the data directory; while one runs, no other does.                       *)
OneHolder == Cardinality(Holders) <= 1

(* docs/deployment.md: the process is restarted after it ended abnormally. So  *)
(* a start is refused as STORAGE_IN_USE only while another process runs.       *)
RefusedOnlyWhenHeld ==
  [][\A p \in Processes : proc[p].at = "read" /\ proc'[p].why = "in use" => Alive \ {p} # {}]_vars

(* docs/deployment.md: a backup that backup.ts made is put back with restore.  *)
BackupsRestore == \A p \in Processes : proc[p].why # "schema"

(* One process at a time works on the directory, and no edit that was accepted  *)
(* is lost, whichever call a restore, a migration or a start dies at.          *)
StorageSafe == StorageTypeOK /\ OneHolder /\ EditsKept
===============================================================================
