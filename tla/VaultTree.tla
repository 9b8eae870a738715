------------------------------- MODULE VaultTree -------------------------------
(* The tree of folders and notes (features/tree.ts, siblingNames.ts, the       *)
(* hooks useVaultDocuments, useVaultTrash and useSiblingNameRepair) on the     *)
(* devices of one account. An operation on several documents persists them     *)
(* one after another; other operations and synchronization go on in between.   *)
(* Bodies, attachments and order are left out. A title is a sequence: a name,  *)
(* then what was appended: CopySuffix, ConflictSuffix or a number from 2 on.   *)
(* Names that nameKey does not tell apart are one name. How one object is      *)
(* saved and synchronized is VaultSync's subject; here it is one step each.    *)
EXTENDS Naturals, FiniteSets, Sequences, SequencesExt

CONSTANTS Devices,
          Objects,  \* the identifiers, ordered as objectId strings are
          Folders,  \* those that are folders
          Names,    \* what users call things, above the suffixes
          Habits,   \* the operations users make
          MaxJobs,  \* operations one device may have under way
          MaxWork   \* operations users make altogether

TreeConstants == /\ Objects \subseteq Nat /\ Folders \subseteq Objects
                        /\ Names \subseteq Nat /\ {MaxJobs, MaxWork} \subseteq Nat /\ 0 \notin Objects

VARIABLES docs,    \* per device: the documents in memory
          rows,    \* per device: what is stored, based on which revision
          writes,  \* per device: persistObject calls under way, in order
          queue,   \* per device: what the save queue holds
          names,   \* per device: NameReservations
          jobs,    \* per device: operations under way
          store,   \* the server
          copies,  \* conflict copies made
          work

local == <<docs, rows, writes, queue, names, jobs>>
vars == <<local, store, copies, work>>

Root == 0
CopySuffix == 0
ConflictSuffix == 1
Slots == 1..MaxJobs
NoDoc == [title |-> <<>>, parent |-> Root, deleted |-> FALSE, locked |-> FALSE]
NoRow == [rev |-> 0, doc |-> NoDoc, dirty |-> FALSE]
NoJob == [kind |-> "none", todo |-> <<>>, to |-> Root, ids |-> {}, busy |-> FALSE]

Init == /\ docs = [d \in Devices |-> [o \in Objects |-> NoDoc]]
        /\ rows = [d \in Devices |-> [o \in Objects |-> NoRow]]
        /\ writes = [d \in Devices |-> <<>>] /\ queue = [d \in Devices |-> {}]
        /\ names = docs /\ jobs = [d \in Devices |-> [s \in Slots |-> NoJob]]
        /\ store = [o \in Objects |-> NoRow] /\ copies = {} /\ work = 0

Present(d) == {o \in Objects : docs[d][o] # NoDoc}
Live(d) == {o \in Present(d) : ~docs[d][o].deleted}
Fresh == {o \in Objects : store[o] = NoRow /\ \A d \in Devices : docs[d][o] = NoDoc /\ names[d][o] = NoDoc}

-----------------------------------------------------------------------------
(* tree.ts. *)
Ancestors(d, o) ==
  LET Up[n \in Nat] == IF n = 0 THEN {docs[d][o].parent}
                       ELSE Up[n - 1] \cup {docs[d][x].parent : x \in Up[n - 1] \cap Present(d)}
  IN  Up[Cardinality(Objects)] \ {Root}

(* Fault: only the children are found. *)
DescendantsFault(d, o) == {o} \cup {x \in Present(d) : docs[d][x].parent = o}

Descendants(d, o) == {o} \cup {x \in Present(d) : o \in Ancestors(d, x)}
Subtrees(d, roots) == UNION {Descendants(d, o) : o \in roots}
SelectionRoots(d, selected) == {o \in selected : Ancestors(d, o) \cap selected = {}}
TrashRoots(d) == {o \in Present(d) \ Live(d) : docs[d][o].parent \notin Present(d) \ Live(d)}
LockedIn(d, roots) == {o \in Subtrees(d, roots) \cap Live(d) : docs[d][o].locked}
CanMove(d, o, p) == p \notin Descendants(d, o)

-----------------------------------------------------------------------------
(* siblingNames.ts. *)
Allocate(title, occupied) ==
  IF title \notin occupied THEN title
  ELSE LET k == CHOOSE i \in 2..(Cardinality(occupied) + 2) :
                  /\ Append(title, i) \notin occupied
                  /\ \A j \in 2..(i - 1) : Append(title, j) \in occupied
       IN  Append(title, k)

Taken(entries, p) == {e[2].title : e \in {x \in entries : ~x[2].deleted /\ x[2].parent = p}}

(* nameDocuments: the documents, and the names reserved. *)
Namespace(d) == {<<o, docs[d][o]>> : o \in Present(d)}
                \cup {<<o, names[d][o]>> : o \in {x \in Objects : names[d][x] # NoDoc}}

(* batchNameConflict finds nothing. *)
Claimable(d, proposed) ==
  LET others == {e \in Namespace(d) : e[1] \notin DOMAIN proposed}
  IN  /\ \A o \in DOMAIN proposed : proposed[o].title \notin Taken(others, proposed[o].parent)
      /\ \A o, q \in DOMAIN proposed :
           o # q => <<proposed[o].title, proposed[o].parent>> # <<proposed[q].title, proposed[q].parent>>
Claimed(d, proposed) ==
  [names EXCEPT ![d] = [o \in Objects |-> IF o \in DOMAIN proposed THEN proposed[o] ELSE @[o]]]
Released(d, ids) == [names EXCEPT ![d] = [o \in Objects |-> IF o \in ids THEN NoDoc ELSE @[o]]]

(* siblingNameRepairs: the smallest identifier keeps the name. *)
Repaired(d) ==
  LET Siblings(o) == {q \in Live(d) : docs[d][q].parent = docs[d][o].parent}
      Title[o \in Objects] ==
        IF o \in Live(d) /\ \E q \in Siblings(o) : q < o /\ docs[d][q].title = docs[d][o].title
        THEN Allocate(docs[d][o].title, {docs[d][q].title : q \in Siblings(o)}
                                        \cup {Title[q] : q \in {x \in Siblings(o) : x < o}})
        ELSE docs[d][o].title
  IN  Title

-----------------------------------------------------------------------------
(* persistObject, enqueued for a document as it is now, by an operation or by  *)
(* the save queue (slot 0). Writes of one object happen in order; only the     *)
(* last is published. A rename and the save queue have published before.       *)
Write(d, s, o, doc) == writes' = [writes EXCEPT ![d] = Append(@, [slot |-> s, id |-> o, doc |-> doc])]

Busy(d, s, job) == jobs' = [jobs EXCEPT ![d][s] = [job EXCEPT !.busy = TRUE]]

(* An operation goes on, or ends and releases what it claimed. *)
Resume(d, s, job, released) ==
  /\ jobs' = [jobs EXCEPT ![d][s] = IF job.todo = <<>> THEN NoJob ELSE [job EXCEPT !.busy = FALSE]]
  /\ names' = Released(d, released \cup IF job.todo = <<>> THEN job.ids ELSE {})

Commit(d, i) ==
  LET w == writes[d][i]
      last == \A j \in (i + 1)..Len(writes[d]) : writes[d][j].id # w.id
      job == jobs[d][w.slot]
  IN
  /\ \A j \in 1..(i - 1) : writes[d][j].id # w.id
  /\ writes' = [writes EXCEPT ![d] = RemoveAt(@, i)]
  /\ rows' = [rows EXCEPT ![d][w.id] = [@ EXCEPT !.doc = w.doc, !.dirty = TRUE]]
  /\ IF last /\ w.slot # 0 /\ job.kind # "rename" THEN docs' = [docs EXCEPT ![d][w.id] = w.doc] ELSE UNCHANGED docs
  /\ IF w.slot = 0 THEN UNCHANGED <<names, jobs>>
     ELSE Resume(d, w.slot, job, IF job.kind \in {"move", "copy"} THEN {w.id} ELSE {})
  /\ UNCHANGED <<queue, store, copies, work>>

Begin(d, s, habit) ==
  /\ habit \in Habits /\ work < MaxWork /\ work' = work + 1
  /\ jobs[d][s] = NoJob
  /\ UNCHANGED <<rows, queue, store, copies>>

(* createDocument is in memory before it is stored. *)
NewIn(d, s, job, o, p, title) ==
  LET doc == [NoDoc EXCEPT !.title = Allocate(title, Taken(Namespace(d), p)), !.parent = p]
  IN  /\ docs' = [docs EXCEPT ![d][o] = doc] /\ Write(d, s, o, doc)
      /\ Busy(d, s, job) /\ UNCHANGED names
Create(d, s) ==
  /\ Begin(d, s, "create")
  /\ \E o \in Fresh, p \in {Root} \cup (Live(d) \cap Folders), n \in Names :
       NewIn(d, s, [NoJob EXCEPT !.kind = "create"], o, p, <<n>>)

(* Renames wait for one another. *)
Rename(d, s) ==
  /\ Begin(d, s, "rename") /\ \A x \in Slots : jobs[d][x].kind # "rename"
  /\ \E o \in Live(d), n \in Names :
       LET doc == [docs[d][o] EXCEPT !.title = <<n>>]
       IN  /\ ~docs[d][o].locked /\ docs[d][o].title # <<n>>
           /\ <<n>> \notin Taken({e \in Namespace(d) : e[1] # o}, doc.parent)
           /\ docs' = [docs EXCEPT ![d][o] = doc] /\ Write(d, s, o, doc)
           /\ Busy(d, s, [NoJob EXCEPT !.kind = "rename"]) /\ UNCHANGED names

(* toggleNoteLock. *)
ToggleLock(d, s) ==
  /\ Begin(d, s, "lock") /\ UNCHANGED <<docs, names>>
  /\ \E o \in Live(d) \ Folders :
       /\ Write(d, s, o, [docs[d][o] EXCEPT !.locked = ~@])
       /\ Busy(d, s, [NoJob EXCEPT !.kind = "lock"])

(* The operations on several documents begin. *)
Launch(d, s, kind, order, to, claim) ==
  /\ jobs' = [jobs EXCEPT ![d][s] = [NoJob EXCEPT !.kind = kind, !.todo = order, !.to = to, !.ids = DOMAIN claim]]
  /\ Claimable(d, claim) /\ names' = Claimed(d, claim)
  /\ UNCHANGED <<docs, writes>>
NoClaim == [o \in {} |-> NoDoc]
Selections(S) == {x \in SUBSET S : Cardinality(x) \in 1..2}
ParentsFirst(d, ids) == {order \in SetToSeqs(ids) : \A i, j \in DOMAIN order : i < j => docs[d][order[i]].parent # order[j]}

(* setDeletedMany; the trash offers only its roots for restoring. *)
Trash(d, s) ==
  /\ Begin(d, s, "trash")
  /\ \E selected \in Selections(Live(d)) :
       LET roots == SelectionRoots(d, selected)
       IN  /\ roots # {} /\ LockedIn(d, roots) = {}
           /\ \E order \in ParentsFirst(d, Subtrees(d, roots)) : Launch(d, s, "trash", order, Root, NoClaim)
Restore(d, s) ==
  /\ Begin(d, s, "restore")
  /\ \E o \in TrashRoots(d) :
       LET ids == Descendants(d, o)
       IN  \E order \in ParentsFirst(d, ids) :
             Launch(d, s, "restore", order, Root, [x \in ids |-> [docs[d][x] EXCEPT !.deleted = FALSE]])

(* moveDocuments, sorted by name or, "reorder", by hand: then the siblings     *)
(* among which the moved ones are dropped are renumbered with them.            *)
Move(d, s) ==
  /\ \E selected \in Selections(Live(d)), p \in {Root} \cup (Live(d) \cap Folders), kind \in {"move", "reorder"} :
       LET roots == SelectionRoots(d, selected)
           siblings == IF kind = "move" THEN {} ELSE {x \in Live(d) : docs[d][x].parent = p}
       IN  /\ Begin(d, s, kind)
           /\ roots # {} /\ p \notin Subtrees(d, roots)
           /\ \E order \in SetToSeqs(roots \cup siblings) :
                Launch(d, s, kind, order, p, [o \in roots |-> [docs[d][o] EXCEPT !.parent = p]])

(* duplicateDocument. *)
Duplicate(d, s) ==
  /\ Begin(d, s, "copy")
  /\ \E o \in Live(d) : Launch(d, s, "copy", <<<<o, docs[d][o].parent>>>>, Root, NoClaim)

(* An operation takes its next document. *)
Rest(job) == [job EXCEPT !.todo = Tail(@)]
Skip(d, s, job) == Resume(d, s, Rest(job), {}) /\ UNCHANGED <<docs, writes>>
Put(d, s, job, o, doc) == Write(d, s, o, doc) /\ Busy(d, s, Rest(job)) /\ UNCHANGED <<docs, names>>

Mark(d, s, job, o) ==
  /\ job.kind \in {"trash", "restore"}
  /\ IF o \in Present(d) THEN Put(d, s, job, o, [docs[d][o] EXCEPT !.deleted = job.kind = "trash"]) ELSE Skip(d, s, job)

Place(d, s, job, o) ==
  LET moved == [docs[d][o] EXCEPT !.parent = job.to]
      claim == [x \in {o} |-> moved]
  IN
  /\ job.kind = "move"
  /\ IF o \in Present(d) /\ CanMove(d, o, job.to) /\ Claimable(d, claim)
     THEN /\ Write(d, s, o, moved) /\ Busy(d, s, Rest(job))
          /\ names' = Claimed(d, claim) /\ UNCHANGED docs
     ELSE Skip(d, s, job)

Renumber(d, s, job, o) ==
  /\ job.kind = "reorder"
  /\ IF o \notin Present(d) THEN Skip(d, s, job)
     ELSE \/ Put(d, s, job, o, [docs[d][o] EXCEPT !.parent = job.to])
          \/ docs[d][o].parent = job.to /\ Skip(d, s, job)

(* A note reserves its name and is published when stored; a folder is created, *)
(* then its children are copied into it.                                       *)
Copy(d, s, job, item) ==
  LET o == item[1]  p == item[2]  title == Append(docs[d][o].title, CopySuffix) IN
  /\ job.kind = "copy"
  /\ IF o \notin Present(d) THEN Skip(d, s, job)
     ELSE \E c \in Fresh :
            IF o \in Folders
            THEN /\ c \in Folders
                 /\ \E children \in SetToSeqs({x \in Live(d) : docs[d][x].parent = o}) :
                      NewIn(d, s, [job EXCEPT !.todo = [i \in DOMAIN children |-> <<children[i], c>>] \o Tail(@)], c, p, title)
            ELSE LET doc == [NoDoc EXCEPT !.title = Allocate(title, Taken(Namespace(d), p)), !.parent = p]
                 IN  /\ c \notin Folders
                     /\ names' = Claimed(d, [x \in {c} |-> doc])
                     /\ Write(d, s, c, doc) /\ Busy(d, s, Rest(job)) /\ UNCHANGED docs

Step(d, s) ==
  LET job == jobs[d][s] IN
  /\ job.todo # <<>> /\ ~job.busy
  /\ LET next == Head(job.todo)
     IN Mark(d, s, job, next) \/ Place(d, s, job, next) \/ Renumber(d, s, job, next) \/ Copy(d, s, job, next)
  /\ UNCHANGED <<rows, queue, store, copies, work>>

(* purgeTrash, with all lanes held: refused while anything is not synchronized. *)
Purge(d, s) ==
  /\ Begin(d, s, "purge") /\ UNCHANGED <<jobs, names>>
  /\ \E ids \in {Present(d) \ Live(d)} \cup {Descendants(d, o) \ Live(d) : o \in Present(d) \ Live(d)} :
       /\ ids # {} /\ ids \cap (queue[d] \cup {writes[d][i].id : i \in DOMAIN writes[d]}) = {}
       /\ \A o \in ids : ~rows[d][o].dirty /\ store[o].rev = rows[d][o].rev
       /\ store' = [o \in Objects |-> IF o \in ids THEN [NoRow EXCEPT !.rev = store[o].rev + 1] ELSE store[o]]
       /\ rows' = [rows EXCEPT ![d] = [o \in Objects |-> IF o \in ids THEN store'[o] ELSE @[o]]]
       /\ docs' = [docs EXCEPT ![d] = [o \in Objects |-> IF o \in ids THEN NoDoc ELSE @[o]]]
       /\ UNCHANGED writes

-----------------------------------------------------------------------------
(* useSiblingNameRepair: at once in memory, and into the save queue. *)
Repair(d) ==
  LET title == Repaired(d)
      changed == {o \in Present(d) : title[o] # docs[d][o].title}
  IN
  /\ changed # {}
  /\ docs' = [docs EXCEPT ![d] = [o \in Objects |-> [@[o] EXCEPT !.title = title[o]]]]
  /\ queue' = [queue EXCEPT ![d] = @ \cup changed]
  /\ UNCHANGED <<rows, writes, names, jobs, store, copies, work>>

Save(d) ==
  /\ \E o \in queue[d] : /\ \A i \in DOMAIN writes[d] : <<writes[d][i].slot, writes[d][i].id>> # <<0, o>>
                         /\ queue' = [queue EXCEPT ![d] = @ \ {o}]
                         /\ IF o \in Present(d) THEN Write(d, 0, o, docs[d][o]) ELSE UNCHANGED writes
  /\ UNCHANGED <<docs, rows, names, jobs, store, copies, work>>

(* Synchronization of one object. *)
Upload(d, o) ==
  /\ rows[d][o].dirty /\ store[o].rev = rows[d][o].rev
  /\ store' = [store EXCEPT ![o] = [rev |-> @.rev + 1, doc |-> rows[d][o].doc, dirty |-> FALSE]]
  /\ rows' = [rows EXCEPT ![d][o] = store'[o]]
  /\ UNCHANGED <<docs, writes, queue, names, jobs, copies, work>>

(* The server's version replaces the local one, of which preserveConflict      *)
(* makes a copy if it was not uploaded.                                        *)
Pull(d, o) ==
  LET mine == rows[d][o].doc
      p == IF mine.parent \in Live(d) \cap Folders THEN mine.parent ELSE Root
      copy == [mine EXCEPT !.title = Allocate(Append(@, ConflictSuffix), Taken(Namespace(d), p)),
                           !.parent = p, !.deleted = FALSE]
  IN
  /\ store[o].rev > rows[d][o].rev
  /\ o \notin queue[d] /\ \A i \in DOMAIN writes[d] : writes[d][i].id # o
  /\ IF ~rows[d][o].dirty
     THEN /\ rows' = [rows EXCEPT ![d][o] = store[o]]
          /\ docs' = [docs EXCEPT ![d][o] = store[o].doc]
          /\ UNCHANGED copies
     ELSE \E c \in Fresh :
            /\ c \in Folders <=> o \in Folders
            /\ rows' = [rows EXCEPT ![d][o] = store[o], ![d][c] = [NoRow EXCEPT !.doc = copy, !.dirty = TRUE]]
            /\ docs' = [docs EXCEPT ![d][o] = store[o].doc, ![d][c] = copy]
            /\ copies' = copies \cup {c}
  /\ UNCHANGED <<writes, queue, names, jobs, store, work>>

Users(d, s) == \/ Create(d, s) \/ Rename(d, s) \/ ToggleLock(d, s) \/ Trash(d, s)
               \/ Restore(d, s) \/ Move(d, s) \/ Duplicate(d, s) \/ Purge(d, s)
Program(d) == \/ \E s \in Slots : Step(d, s)
              \/ \E i \in DOMAIN writes[d] : Commit(d, i)
              \/ Repair(d) \/ Save(d)
              \/ \E o \in Objects : Upload(d, o) \/ Pull(d, o)
Next == \E d \in Devices : Program(d) \/ \E s \in Slots : Users(d, s)

Spec == Init /\ [][Next]_vars
FairSpec == /\ Spec
            /\ \A d \in Devices : /\ WF_vars(Repair(d)) /\ WF_vars(Save(d))
                                  /\ WF_vars(\E s \in Slots : Step(d, s))
                                  /\ WF_vars(\E i \in DOMAIN writes[d] : Commit(d, i))
                                  /\ \A o \in Objects : WF_vars(Upload(d, o)) /\ WF_vars(Pull(d, o))

-----------------------------------------------------------------------------
(* Types of the state; an operation waits for its write. *)
TreeTypeOK ==
  LET Doc == [title : Seq(Nat), parent : Objects \cup {Root}, deleted : BOOLEAN, locked : BOOLEAN]
  IN  /\ docs \in [Devices -> [Objects -> Doc]] /\ names \in [Devices -> [Objects -> Doc]]
      /\ rows \in [Devices -> [Objects -> [rev : Nat, doc : Doc, dirty : BOOLEAN]]]
      /\ copies \subseteq Objects /\ queue \in [Devices -> SUBSET Objects]
      /\ \A d \in Devices : \A i \in DOMAIN writes[d] :
           /\ writes[d][i].doc \in Doc
           /\ writes[d][i].slot # 0 => jobs[d][writes[d][i].slot].busy

Idle(d) == writes[d] = <<>> /\ \A s \in Slots : jobs[d][s] = NoJob

(* Between operations, every document out of the trash hangs on the root by    *)
(* folders out of the trash: the tree shows it. (descendantsOf, selectionRoots, *)
(* canMoveDocument)                                                            *)
Reachable == \A d \in Devices : Idle(d) =>
  \A o \in Live(d) : /\ o \notin Ancestors(d, o)
                     /\ Ancestors(d, o) \subseteq Live(d) \cap Folders

(* When no operation is under way, no name is reserved any more, however the   *)
(* operations ended. (NameReservations.release)                                *)
ReservationsEnd == \A d \in Devices : Idle(d) => \A o \in Objects : names[d][o] = NoDoc

(* On one device, whatever operations overlap, except ordering by hand, no two *)
(* siblings out of the trash ever have the same name: names are reserved until *)
(* they are published. (NameReservations)                                      *)
NamesDiffer == \A d \in Devices : \A o, q \in Live(d) :
  o # q => <<docs[d][o].parent, docs[d][o].title>> # <<docs[d][q].parent, docs[d][q].title>>

(* When the users stop, all devices show the same documents in the end, under  *)
(* names that differ: the repairs of several devices do not chase one another. *)
(* (useSiblingNameRepair)                                                      *)
Settled == NamesDiffer /\ \A d \in Devices, o \in Objects : docs[d][o] = store[o].doc
NamesSettle == <>[]Settled

(* docs/system-design.md: a folder cannot be moved into itself or one of its   *)
(* descendants. Two moves on two devices, or two at the same time on one, can. *)
NoFolderInItself == \A d \in Devices : \A o \in Present(d) : o \notin Ancestors(d, o)

(* docs/system-design.md: a locked note may not be put into the trash.         *)
LockedStaysOut == [][\A d \in Devices : \A o \in Live(d) : docs[d][o].locked => ~docs'[d][o].deleted]_docs

(* Conflict copies are for concurrent updates. Where users do nothing but      *)
(* create notes there are none; the repairs of two devices, though computed to *)
(* agree, are concurrent updates of the same note.                             *)
NewNotesNeverConflict == Habits = {"create"} => copies = {}

(* The tree stays usable, whatever operations overlap: reachable documents, no   *)
(* leaked reservation.                                                         *)
TreeSafe == TreeTypeOK /\ Reachable /\ ReservationsEnd
=============================================================================
