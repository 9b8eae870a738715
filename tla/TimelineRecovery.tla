---------------------------- MODULE TimelineRecovery ----------------------------
(* A backup is put in place of the server's database: the epoch changes, and   *)
(* revisions and sequences are given out a second time. A device that knows    *)
(* the earlier timeline reconciles (syncReconciliation.ts, with the rules of   *)
(* pullController.ts for snapshot pages), while its user goes on writing. Text *)
(* is the set of edits in it. SyncFeed has the paging of one timeline and      *)
(* VaultSync the races of one object; here a page is read and applied in one   *)
(* step.                                                                       *)
EXTENDS Naturals, FiniteSets, FiniteSetsExt

CONSTANTS Objects, Later,  \* numbers; the later ones are created by the device
          MaxEdits, MaxEpoch, MaxPurges, MaxLapses,
          LateEdits   \* may the user write while the device reconciles?

TimelineConstants == Later \subseteq Objects /\ Objects \subseteq Nat /\ LateEdits \in BOOLEAN
                            /\ {MaxEdits, MaxEpoch, MaxPurges, MaxLapses} \subseteq Nat

VARIABLES srv, seq, head, epoch,   \* the server: rows, their last change, and the watermark
          saved,                   \* a backup of it
          row, out, copies,        \* the device: rows, outbox, recovery copies
          cursor, known, lease,    \* its cursor, epoch and lease (the epoch it was given in)
          run,                     \* the synchronization under way
          made, purges, lapses

server == <<srv, seq, head, epoch>>
device == <<row, out, copies, cursor, known, lease>>
bounds == <<made, purges, lapses>>
vars == <<server, saved, device, run, bounds>>

NoRow == [rev |-> 0, text |-> {}]
NoOut == [base |-> 0, text |-> {}, old |-> FALSE]
Off == [at |-> "off", epoch |-> 0, head |-> 0, changed |-> FALSE, forced |-> {}, todo |-> {}, seen |-> {}]
FirstRow(o) == IF o \in Later THEN NoRow ELSE [rev |-> 1, text |-> {}]

Init == /\ srv = [o \in Objects |-> FirstRow(o)] /\ seq = [o \in Objects |-> FirstRow(o).rev]
        /\ head = 1 /\ epoch = 1
        /\ saved = [srv |-> srv, seq |-> seq, head |-> head]
        /\ row = srv /\ out = [o \in Objects |-> NoOut] /\ copies = {}
        /\ cursor = 1 /\ known = 1 /\ lease = 1 /\ run = Off
        /\ made = 0 /\ purges = 0 /\ lapses = 0

Pending(o) == out[o].text # {}
New == made + 1
Local == copies \cup UNION {row[o].text \cup out[o].text : o \in Objects}
Record(o) == seq' = [seq EXCEPT ![o] = head + 1] /\ head' = head + 1

-----------------------------------------------------------------------------
(* Other devices, which are up to date, write and purge.                       *)
Write(o) ==
  /\ srv[o].rev > 0 /\ made < MaxEdits /\ made' = New
  /\ srv' = [srv EXCEPT ![o] = [rev |-> @.rev + 1, text |-> @.text \cup {New}]] /\ Record(o)
  /\ UNCHANGED <<epoch, saved, device, run, purges, lapses>>

Purge(o) ==
  /\ srv[o].rev > 0 /\ purges < MaxPurges /\ purges' = purges + 1
  /\ srv' = [srv EXCEPT ![o] = NoRow] /\ Record(o)
  /\ UNCHANGED <<epoch, saved, device, run, made, lapses>>

Backup == /\ saved' = [srv |-> srv, seq |-> seq, head |-> head] /\ saved' # saved
          /\ UNCHANGED <<server, device, run, bounds>>

(* storageCli restore: rows and watermark of the backup, a new epoch and lease *)
(* secret.                                                                     *)
Restore ==
  /\ epoch < MaxEpoch /\ epoch' = epoch + 1
  /\ srv' = saved.srv /\ seq' = saved.seq /\ head' = saved.head
  /\ UNCHANGED <<saved, device, run, bounds>>

(* Ninety days: the lease and the operations in the outbox expire.             *)
Lapse ==
  /\ lapses < MaxLapses /\ lapses' = lapses + 1 /\ lease' = 0
  /\ out' = [o \in Objects |-> IF Pending(o) THEN [out[o] EXCEPT !.old = TRUE] ELSE NoOut]
  /\ UNCHANGED <<server, saved, row, copies, cursor, known, run, made, purges>>

(* The user writes; a save replaces the outbox entry and keeps its base.       *)
Edit(o) ==
  /\ row[o].rev > 0 \/ (o \in Later /\ \A e \in 1 .. made : e \notin Local /\ seq[o] = 0)
  /\ LateEdits \/ run.at \in {"off", "ready"}
  /\ made < MaxEdits /\ made' = New
  /\ LET base == IF Pending(o) THEN out[o].base ELSE row[o].rev
         text == row[o].text \cup {New}
     IN  /\ row' = [row EXCEPT ![o] = [rev |-> base + 1, text |-> text]]
         /\ out' = [out EXCEPT ![o] = [base |-> base, text |-> text, old |-> FALSE]]
  /\ UNCHANGED <<server, saved, copies, cursor, known, lease, run, purges, lapses>>

-----------------------------------------------------------------------------
(* prepareVaultSynchronization: what is pending at the status answer is forced *)
(* into a copy when the epoch has changed.                                     *)
Status ==
  /\ run.at = "off"
  /\ LET changed == known # epoch
         expired == \E o \in Objects : out[o].old
     IN  IF changed \/ lease # epoch \/ cursor > head \/ expired
           THEN /\ run' = [at |-> "scan", epoch |-> epoch, head |-> head, changed |-> changed,
                           forced |-> IF changed THEN {o \in Objects : Pending(o)} ELSE {},
                           todo |-> Objects, seen |-> {}]
                /\ UNCHANGED lease
           ELSE run' = [Off EXCEPT !.at = "ready"] /\ lease' = epoch
  /\ UNCHANGED <<server, saved, row, out, copies, cursor, known, bounds>>

(* A pending entry that is based on this revision stays, unless it is forced.  *)
Stays(o, change, snapshot) ==
  /\ change.rev <= out[o].base /\ ~(snapshot /\ change.rev < out[o].base)
  /\ ~(snapshot /\ o \in run.forced) /\ ~out[o].old

(* Confirmed text goes into a copy when it is of another timeline, or newer    *)
(* than the server's.                                                          *)
Recovers(o, change, snapshot) ==
  snapshot /\ row[o].rev > 0 /\ row[o] # change /\ (row[o].rev > change.rev \/ run.changed)

(* What pullVaultChanges does with the row of each changed object: a purged    *)
(* one is a change to NoRow.                                                   *)
Outcome(o, change, snapshot) ==
  IF Pending(o)
  THEN IF change = [rev |-> out[o].base + 1, text |-> out[o].text] THEN [row |-> change, out |-> NoOut, copy |-> {}]
       ELSE IF change # NoRow /\ Stays(o, change, snapshot) THEN [row |-> row[o], out |-> out[o], copy |-> {}]
       ELSE [row |-> change, out |-> NoOut, copy |-> out[o].text]
  ELSE IF change # NoRow /\ Recovers(o, change, snapshot) THEN [row |-> change, out |-> NoOut, copy |-> row[o].text]
  ELSE IF change # NoRow /\ row[o].rev > change.rev THEN [row |-> row[o], out |-> NoOut, copy |-> {}]
  ELSE [row |-> change, out |-> NoOut, copy |-> {}]

(* Fault: entries are dropped with their rows. *)
ApplyFault(changes, snapshot) ==
  /\ row' = [o \in Objects |-> IF o \in DOMAIN changes THEN Outcome(o, changes[o], snapshot).row ELSE row[o]]
  /\ out' = [o \in Objects |-> IF o \in DOMAIN changes THEN Outcome(o, changes[o], snapshot).out ELSE out[o]]
  /\ UNCHANGED copies

Apply(changes, snapshot) ==
  /\ row' = [o \in Objects |-> IF o \in DOMAIN changes THEN Outcome(o, changes[o], snapshot).row ELSE row[o]]
  /\ out' = [o \in Objects |-> IF o \in DOMAIN changes THEN Outcome(o, changes[o], snapshot).out ELSE out[o]]
  /\ copies' = copies \cup UNION {Outcome(o, changes[o], snapshot).copy : o \in DOMAIN changes}

Since(n) == [o \in {p \in Objects : seq[p] > n} |-> srv[o]]

(* A snapshot page, of one object. *)
Scan ==
  /\ run.at = "scan" /\ run.todo # {} /\ epoch = run.epoch
  /\ LET o == Min(run.todo)
         there == IF srv[o].rev > 0 THEN {o} ELSE {}
     IN  /\ Apply([p \in there |-> srv[p]], TRUE)
         /\ run' = [run EXCEPT !.todo = @ \ {o}, !.seen = @ \cup there]
  /\ UNCHANGED <<server, saved, cursor, known, lease, bounds>>

CatchUp ==
  /\ run.at = "scan" /\ run.todo = {} /\ epoch = run.epoch
  /\ Apply(Since(run.head), FALSE)
  /\ run' = [run EXCEPT !.at = "missing", !.head = head,
                        !.seen = @ \cup {o \in DOMAIN Since(run.head) : srv[o].rev > 0}]
  /\ UNCHANGED <<server, saved, cursor, known, lease, bounds>>

(* Local rows that were not seen go, new ones that wait for their first upload *)
(* excepted.                                                                   *)
RemoveMissing ==
  /\ run.at = "missing" /\ run' = [run EXCEPT !.at = "adopt"]
  /\ LET fresh(o) == Pending(o) /\ out[o].base = 0 /\ o \notin run.forced /\ ~out[o].old
         missing == {o \in Objects : row[o].rev > 0 /\ o \notin run.seen /\ ~fresh(o)}
     IN  Apply([o \in missing |-> NoRow], FALSE)
  /\ UNCHANGED <<server, saved, cursor, known, lease, bounds>>

Adopt ==
  /\ run.at = "adopt" /\ run' = [Off EXCEPT !.at = "ready"]
  /\ cursor' = run.head /\ known' = run.epoch /\ lease' = run.epoch
  /\ UNCHANGED <<server, saved, row, out, copies, bounds>>

(* Uploads and pulls. The server refuses a lease that is not of its database.  *)
Push(o) ==
  /\ run.at = "ready" /\ Pending(o) /\ lease = epoch /\ ~out[o].old
  /\ srv[o].rev = out[o].base /\ (out[o].base = 0 => seq[o] = 0)
  /\ srv' = [srv EXCEPT ![o] = [rev |-> @.rev + 1, text |-> out[o].text]] /\ Record(o)
  /\ \/ out' = [out EXCEPT ![o] = NoOut] /\ UNCHANGED run
     \/ run' = Off /\ UNCHANGED out
  /\ UNCHANGED <<epoch, saved, row, copies, cursor, known, lease, bounds>>

Pull ==
  /\ run.at = "ready" /\ epoch = known /\ run' = Off
  /\ Apply(Since(cursor), FALSE) /\ cursor' = head
  /\ UNCHANGED <<server, saved, known, lease, bounds>>

(* Locking, a failure, or an answer of another epoch. *)
Stop == run.at # "off" /\ run' = Off /\ UNCHANGED <<server, saved, device, bounds>>

Next ==
  \/ \E o \in Objects : Write(o) \/ Purge(o) \/ Edit(o) \/ Push(o)
  \/ Backup \/ Restore \/ Lapse \/ Status \/ Scan \/ CatchUp \/ RemoveMissing \/ Adopt \/ Pull \/ Stop

Spec == Init /\ [][Next]_vars

-----------------------------------------------------------------------------
(* Types; what the device holds of an object has a revision.                   *)
TimelineTypeOK ==
  /\ \A o \in Objects : srv[o].rev \in Nat /\ seq[o] <= head /\ (Pending(o) => row[o].rev = out[o].base + 1)
  /\ known \in 1 .. epoch /\ run.at \in {"off", "scan", "missing", "adopt", "ready"}

(* "Old requests do not overwrite restored objects" (docs/system-design.md,    *)
(* section on revisions and recovery): whatever replaces the text of an object *)
(* on the server contains that text.                                           *)
NoSilentOverwrite ==
  [][\A o \in Objects : (epoch' = epoch /\ srv'[o].rev > 0) => srv[o].text \subseteq srv'[o].text]_vars

(* Text that waits for its upload is uploaded, or is in a copy.                *)
UnsentKept ==
  [][\A o \in Objects : out[o].text \subseteq Local' \cup srv'[o].text]_vars

(* "Local content of the old timeline must be kept as a recovery copy, even if *)
(* the revision is the same" (docs/system-design.md): reconciling with another *)
(* timeline removes no text from the device.                                   *)
TimelineKept ==
  [][run.changed => \A o \in Objects : row[o].text \subseteq Local']_vars

(* What the cursor has passed is here as it is there, unless an edit waits.    *)
Mirrored ==
  (run.at = "off" /\ known = epoch) =>
     \A o \in Objects : Pending(o) \/ seq[o] > cursor \/ row[o] = srv[o]

(* The invariant that is checked. *)
TimelineSafe == TimelineTypeOK /\ Mirrored
=============================================================================
