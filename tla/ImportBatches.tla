---------------------------- MODULE ImportBatches ----------------------------
(***************************************************************************)
(* An import while the workspace lives on (useImportExport.ts,             *)
(* importPlan.ts, importPersistence.ts): the plan is prepared before       *)
(* anything is written, then each folder and note is given a name, sealed, *)
(* committed to the browser's database in one transaction, and published   *)
(* in the workspace.  The user may create documents meanwhile, saves may   *)
(* fail, and closing the workspace cancels the import and waits for what   *)
(* is being committed; a close that cannot save resumes the workspace.     *)
(***************************************************************************)
EXTENDS Sequences, FiniteSets, Naturals

CONSTANTS Plan,        \* sequence of [title, parent]: 0, or an earlier folder
          Titles,      \* names, before numbering
          MaxBatches,  \* imports started
          MaxCreated,  \* documents the user creates
          MaxFailed,   \* closes that fail
          None

ImportAssumption ==
  /\ Plan \in Seq([title : Titles, parent : Nat])
  /\ \A i \in DOMAIN Plan : Plan[i].parent < i
  /\ {MaxBatches, MaxCreated, MaxFailed} \subseteq Nat

VARIABLES disk,      \* documents committed to IndexedDB
          shown,     \* documents published in the workspace
          reserved,  \* names of documents that are not published yet
          batch,     \* the import that runs
          result,    \* the report the user sees
          epoch,     \* cancels of this workspace
          leaving,   \* "open", "cancelling", "saving" or "closed"
          batches, created, failed

vars == <<disk, shown, reserved, batch, result, epoch, leaving,
          batches, created, failed>>

Jobs == DOMAIN Plan
\* The top of the tree, a folder of a batch, or a document of the user.
Id(b, i) == <<b, i>>
Top == <<0, 0>>
Numbers == 0..(MaxCreated + MaxBatches * Len(Plan))
Documents == [id : (0..MaxBatches) \X (0..(Len(Plan) + MaxCreated)),
              title : Titles, number : Numbers,
              parent : (0..MaxBatches) \X (0..Len(Plan))]

Idle == [phase |-> "idle"]

TypeOK ==
  /\ shown \subseteq disk /\ disk \subseteq Documents /\ reserved \subseteq Documents
  /\ batch.phase \in {"idle", "prepare", "begin", "persist", "publish", "end"}
  /\ \A d \in disk : d.parent = Top \/ \E f \in disk : f.id = d.parent
  /\ leaving \in {"open", "cancelling", "saving", "closed"}
  /\ batches \in 0..MaxBatches /\ created \in 0..MaxCreated /\ failed \in 0..MaxFailed

Init ==
  /\ disk = {} /\ shown = {} /\ reserved = {}
  /\ batch = Idle /\ result = None
  /\ epoch = 0 /\ leaving = "open"
  /\ batches = 0 /\ created = 0 /\ failed = 0

Suspended == leaving # "open"
Active == batch.phase # "idle" /\ batch.epoch = epoch /\ leaving # "closed"

(* NameReservations.reserve: a title, numbered if a sibling that is shown  *)
(* or being prepared has it.                                               *)
Named(id, title, parent) ==
  LET taken == {d.number : d \in {x \in shown \cup reserved :
                                    x.parent = parent /\ x.title = title}}
      free  == {n \in Numbers : n \notin taken}
  IN [id |-> id, title |-> title, parent |-> parent,
      number |-> CHOOSE n \in free : \A m \in free : n <= m]

(* The user creates a document at the top. *)
Create ==
  /\ leaving = "open"
  /\ created < MaxCreated /\ created' = created + 1
  /\ \E title \in Titles :
       LET document == Named(Id(0, created + 1), title, Top)
       IN disk' = disk \cup {document} /\ shown' = shown \cup {document}
  /\ UNCHANGED <<reserved, batch, result, epoch, leaving, batches, failed>>

(* One import at a time, and none while the workspace is closing. *)
Start ==
  /\ batch.phase = "idle" /\ ~ Suspended
  /\ batches < MaxBatches /\ batches' = batches + 1
  /\ batch' = [phase |-> "prepare", epoch |-> epoch, job |-> 1, document |-> None,
               completed |-> {}, pending |-> {}]
  /\ result' = None
  /\ UNCHANGED <<disk, shown, reserved, epoch, leaving, created, failed>>

(* prepareImport: everything is read and checked first.  An archive that   *)
(* is not valid, or a cancel, leaves every file pending.                   *)
Prepare ==
  /\ batch.phase = "prepare"
  /\ \E valid \in BOOLEAN :
       batch' = IF valid /\ Active THEN [batch EXCEPT !.phase = "begin"]
                ELSE [batch EXCEPT !.phase = "end", !.pending = Jobs]
  /\ UNCHANGED <<disk, shown, reserved, result, epoch, leaving, batches, created, failed>>

(* A job that fails stops the batch; it and the rest are pending.          *)
Stop == [batch EXCEPT !.phase = "end",
                      !.pending = {j \in Jobs : j >= batch.job} \ batch.completed]

(* The next folder or note gets its name.  Folders come before notes.      *)
Begin ==
  /\ batch.phase = "begin"
  /\ IF batch.job > Len(Plan)
       THEN batch' = [batch EXCEPT !.phase = "end"] /\ UNCHANGED reserved
       ELSE IF ~ Active
         THEN batch' = Stop /\ UNCHANGED reserved
         ELSE LET job == Plan[batch.job]
                  document == Named(Id(batches, batch.job), job.title,
                                    IF job.parent = 0 THEN Top ELSE Id(batches, job.parent))
              IN /\ reserved' = reserved \cup {document}
                 /\ batch' = [batch EXCEPT !.phase = "persist", !.document = document]
  /\ UNCHANGED <<disk, shown, result, epoch, leaving, batches, created, failed>>

(* persistImportedDocument: sealed, then one transaction for the object,   *)
(* its attachments and the outbox, that asks at its end whether the import *)
(* is still wanted.                                                        *)
Persist ==
  /\ batch.phase = "persist"
  /\ \E ok \in BOOLEAN :
       IF ok /\ Active
         THEN /\ disk' = disk \cup {batch.document}
              /\ batch' = [batch EXCEPT !.phase = "publish"]
              /\ UNCHANGED reserved
         ELSE /\ batch' = Stop
              /\ reserved' = reserved \ {batch.document}
              /\ UNCHANGED disk
  /\ UNCHANGED <<shown, result, epoch, leaving, batches, created, failed>>

(* The transaction is done; only a live workspace shows the document.      *)
Publish ==
  /\ batch.phase = "publish"
  /\ shown' = IF Active THEN shown \cup {batch.document} ELSE shown
  /\ reserved' = reserved \ {batch.document}
  /\ LET done == [batch EXCEPT !.completed = @ \cup {batch.job}]
     IN batch' = IF Active THEN [done EXCEPT !.phase = "begin", !.job = @ + 1]
                 ELSE [done EXCEPT !.phase = "end",
                                   !.pending = {j \in Jobs : j > batch.job}]
  /\ UNCHANGED <<disk, result, epoch, leaving, batches, created, failed>>

(* The report, unless the workspace has been cancelled meanwhile. *)
End ==
  /\ batch.phase = "end"
  /\ result' = IF Active THEN [completed |-> batch.completed, pending |-> batch.pending]
               ELSE result
  /\ batch' = Idle
  /\ UNCHANGED <<disk, shown, reserved, epoch, leaving, batches, created, failed>>

(* Locking or signing out: cancel, and wait for the tasks. *)
Close ==
  /\ leaving = "open"
  /\ leaving' = "cancelling"
  /\ epoch' = epoch + 1
  /\ result' = None
  /\ UNCHANGED <<disk, shown, reserved, batch, batches, created, failed>>

Cancelled ==
  /\ leaving = "cancelling" /\ batch.phase = "idle"
  /\ leaving' = "saving"
  /\ UNCHANGED <<disk, shown, reserved, batch, result, epoch, batches, created, failed>>

Closed ==
  /\ leaving = "saving"
  /\ leaving' = "closed"
  /\ UNCHANGED <<disk, shown, reserved, batch, result, epoch, batches, created, failed>>

(* What is unsaved cannot be saved: the workspace stays. *)
CloseFails ==
  /\ leaving = "saving"
  /\ failed < MaxFailed /\ failed' = failed + 1
  /\ leaving' = "open"
  /\ UNCHANGED <<disk, shown, reserved, batch, result, epoch, batches, created>>

Step == Prepare \/ Begin \/ Persist \/ Publish \/ End
Next == Create \/ Start \/ Step \/ Close \/ Cancelled \/ Closed \/ CloseFails

Spec == Init /\ [][Next]_vars

(* Files are read, sealed and written, or the attempt fails; the close     *)
(* goes on when the tasks are over.                                        *)
FairSpec == Spec /\ WF_vars(Step) /\ WF_vars(Cancelled)

(***************************************************************************)
(* Properties                                                              *)
(***************************************************************************)

(* The report is true: what it lists as done is in the database, what it   *)
(* lists as not done is not, and nothing of the batch is left out.         *)
ReportTrue ==
  (result # None) =>
    /\ result.completed \cap result.pending = {}
    /\ result.completed \cup result.pending = Jobs
    /\ {j \in Jobs : \E d \in disk : d.id = Id(batches, j)} = result.completed

(* What a close saves is all there is: once it has waited for the import,  *)
(* no late step of one writes or shows anything, also not after the close. *)
NothingAfterClose ==
  [][(leaving \in {"saving", "closed"}) => UNCHANGED <<disk, shown>>]_vars

(* Documents made at once, by an import and by the user, get different     *)
(* names, and so do documents that are on disk but not shown yet.          *)
NamesDistinct ==
  \A d, e \in disk :
    (d # e /\ d.parent = e.parent /\ d.title = e.title) => (d.number # e.number)

(* While the workspace is open and nothing runs, it shows all there is.    *)
AllShown == (leaving = "open" /\ batch.phase = "idle") => (disk = shown)

(* A close is never held up by an import. *)
CloseGoesOn == (leaving = "cancelling") ~> (leaving # "cancelling")

(* The report of an import is true, and what is on disk is shown.          *)
ImportSafe == TypeOK /\ ReportTrue
=============================================================================
