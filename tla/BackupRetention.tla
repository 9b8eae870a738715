---------------------------- MODULE BackupRetention ----------------------------
(* Online backups and their rotation (backup.ts, backupRetention.ts). A backup *)
(* is copied, verified, and only then marked with a manifest; the rotation     *)
(* lists marked and intact backups, keeps the newest of each of the last days, *)
(* weeks and months that have one, and removes the others one by one. The      *)
(* scheduled backup and an operator's backup-retention --adopt --apply may     *)
(* overlap, and either may be killed anywhere.                                 *)
EXTENDS Naturals, FiniteSets, FiniteSetsExt

CONSTANTS Jobs,        \* of these, "backup" makes backups and "adopt" only rotates
          Daily, Weekly, Monthly,  \* buckets of each kind that are kept
          DaysOfWeek, DaysOfMonth,
          Days, PerDay,            \* bounds: days that pass, backups of a day
          MaxTampers, MaxCrashes

RetentionConstants ==
  /\ {Daily, Weekly, Monthly, DaysOfWeek, DaysOfMonth} \subseteq Nat \ {0}
  /\ {Days, PerDay, MaxTampers, MaxCrashes} \subseteq Nat

VARIABLES clock,   \* [day, n]: the time of the next backup
          files,   \* the backups in the directory
          job,     \* per job: where it is, its backup, what it still removes
          marks,   \* every backup that was ever marked
          removed, \* the backup just removed, as it was
          tampers, crashes

vars == <<clock, files, job, marks, removed, tampers, crashes>>

Idle == [at |-> "idle", own |-> 0, todo |-> {}]
Stamp == clock.day * (PerDay + 1) + clock.n
DayOf(t) == t \div (PerDay + 1)
WeekOf(t) == DayOf(t) \div DaysOfWeek
MonthOf(t) == DayOf(t) \div DaysOfMonth

Init == /\ clock = [day |-> 0, n |-> 0] /\ files = {} /\ job = [j \in Jobs |-> Idle]
        /\ marks = {} /\ removed = {} /\ tampers = 0 /\ crashes = 0

(* The newest of each of the last buckets of a kind. *)
NewestOf(stamps, limit, Bucket(_)) ==
  LET buckets == {Bucket(t) : t \in stamps}
      last == {b \in buckets : Cardinality({c \in buckets : c > b}) < limit}
  IN  {Max({t \in stamps : Bucket(t) = b}) : b \in last}

(* Fault: the oldest of the bucket is kept. *)
KeepFault(stamps) ==
  LET OldestOf(limit, Bucket(_)) ==
        LET buckets == {Bucket(t) : t \in stamps}
            last == {b \in buckets : Cardinality({c \in buckets : c > b}) < limit}
        IN  {Min({t \in stamps : Bucket(t) = b}) : b \in last}
  IN  NewestOf(stamps, Daily, DayOf) \cup OldestOf(Weekly, WeekOf) \cup OldestOf(Monthly, MonthOf)

Keep(stamps) == NewestOf(stamps, Daily, DayOf) \cup NewestOf(stamps, Weekly, WeekOf) \cup NewestOf(stamps, Monthly, MonthOf)

Managed(fs) == {f.stamp : f \in {g \in fs : g.marked /\ g.intact}}
File(t) == CHOOSE f \in files : f.stamp = t
Has(t) == \E f \in files : f.stamp = t

Copy(j) ==
  /\ j = "backup" /\ job[j] = Idle /\ clock.n < PerDay
  /\ clock' = [clock EXCEPT !.n = @ + 1]
  /\ files' = files \cup {[stamp |-> Stamp, marked |-> FALSE, intact |-> TRUE]}
  /\ job' = [job EXCEPT ![j] = [Idle EXCEPT !.at = "copied", !.own = Stamp]]
  /\ removed' = {} /\ UNCHANGED <<marks, tampers, crashes>>

(* verifyBackup and markBackup. *)
Mark(j) ==
  /\ job[j].at = "copied" /\ Has(job[j].own)
  /\ LET f == File(job[j].own) IN
       IF f.marked \/ ~f.intact THEN job' = [job EXCEPT ![j] = Idle] /\ UNCHANGED <<files, marks>>
       ELSE /\ files' = (files \ {f}) \cup {[f EXCEPT !.marked = TRUE]} /\ marks' = marks \cup {f.stamp}
            /\ job' = [job EXCEPT ![j].at = "list"]
  /\ removed' = {} /\ UNCHANGED <<clock, tampers, crashes>>

(* An adoption first marks every intact backup without a manifest. *)
List(j) ==
  /\ \/ job[j].at = "list"
     \/ j = "adopt" /\ job[j] = Idle
  /\ LET fs == IF j = "adopt" THEN {[f EXCEPT !.marked = @ \/ f.intact] : f \in files} ELSE files
     IN  /\ files' = fs /\ marks' = marks \cup Managed(fs)
         /\ job' = [job EXCEPT ![j] = [Idle EXCEPT !.at = "remove", !.todo = Managed(fs) \ Keep(Managed(fs))]]
  /\ removed' = {} /\ UNCHANGED <<clock, tampers, crashes>>

(* A backup that is gone or has changed ends the rotation. *)
Remove(j) ==
  /\ job[j].at = "remove" /\ job[j].todo # {}
  /\ LET t == Max(job[j].todo) IN
       IF ~Has(t) \/ ~File(t).intact THEN job' = [job EXCEPT ![j] = Idle] /\ removed' = {} /\ UNCHANGED files
       ELSE /\ files' = files \ {File(t)} /\ removed' = {File(t)}
            /\ job' = [job EXCEPT ![j].todo = @ \ {t}]
  /\ UNCHANGED <<clock, marks, tampers, crashes>>

Finish(j) ==
  /\ job[j].at = "remove" /\ job[j].todo = {} /\ job' = [job EXCEPT ![j] = Idle]
  /\ removed' = {} /\ UNCHANGED <<clock, files, marks, tampers, crashes>>

(* Time goes by between the commands. *)
Tomorrow ==
  /\ clock.day < Days /\ \A j \in Jobs : job[j] = Idle
  /\ clock' = [day |-> clock.day + 1, n |-> 0]
  /\ removed' = {} /\ UNCHANGED <<files, job, marks, tampers, crashes>>

(* Someone overwrites or damages a file. *)
Tamper(f) ==
  /\ f \in files /\ f.intact /\ tampers < MaxTampers /\ tampers' = tampers + 1
  /\ files' = (files \ {f}) \cup {[f EXCEPT !.intact = FALSE]}
  /\ removed' = {} /\ UNCHANGED <<clock, job, marks, crashes>>

Crash(j) ==
  /\ job[j] # Idle /\ crashes < MaxCrashes /\ crashes' = crashes + 1
  /\ job' = [job EXCEPT ![j] = Idle]
  /\ removed' = {} /\ UNCHANGED <<clock, files, marks, tampers>>

Next == \/ \E j \in Jobs : Copy(j) \/ Mark(j) \/ List(j) \/ Remove(j) \/ Finish(j) \/ Crash(j)
        \/ Tomorrow \/ \E f \in files : Tamper(f)

Spec == Init /\ [][Next]_vars

-----------------------------------------------------------------------------
(* docs/deployment.md: of the last 7 days, 4 weeks and 12 months that have a   *)
(* backup, the newest stays. Rotations of earlier days have already thinned    *)
(* out what a rotation chooses from, and one may die half-way: still the       *)
(* newest backup that was ever marked in such a day, week or month is there.   *)
NewestStay ==
  LET Due(t, limit, days) ==
        LET bucket == [u \in marks |-> DayOf(u) \div days]
        IN  /\ \A u \in marks : bucket[u] = bucket[t] => u <= t
            /\ Cardinality({bucket[u] : u \in {v \in marks : bucket[v] > bucket[t]}}) < limit
  IN  tampers = 0 => \A t \in marks :
        Due(t, Daily, 1) \/ Due(t, Weekly, DaysOfWeek) \/ Due(t, Monthly, DaysOfMonth) => Has(t)

(* docs/deployment.md: only a backup with a valid manifest and a matching      *)
(* digest is removed, also when it changes while a rotation is under way.      *)
OnlyOwnAndIntact == \A f \in removed : f.marked /\ f.intact

(* A rotation keeps what it must and removes only its own (backupRetention).   *)
RetentionSafe == NewestStay /\ OnlyOwnAndIntact
=============================================================================
