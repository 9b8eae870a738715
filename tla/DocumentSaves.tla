---------------------------- MODULE DocumentSaves ----------------------------
(* Saving open documents: the save queue with its timers and retries
   (useDocumentSaveQueue.ts), the per-object write lanes under it
   (objectPersistence.ts, useObjectPersistence.ts), the operations that write
   around the queue (renaming, moving, pinning and locking, useVaultDocuments.ts),
   and the routines that wait for it: switching documents (useVaultTree.ts), hiding
   the page and closing the workspace (useWorkspaceClose.ts).

   A document is a record of two numbers: text, the last edit the user typed into
   it, and place, the last structural change (folder, pin or lock). An object of the
   code is identified by its value: two objects of the same value are one.  What a
   durable write holds (revision, outbox row) is the subject of VaultSync. *)
EXTENDS Naturals, Sequences, SequencesExt

CONSTANTS Notes,          \* the open documents
          MaxEdits,       \* bound on edits typed
          MaxStructural,  \* bound on structural changes started
          MaxFailures     \* bound on IndexedDB writes that fail

ASSUME DocumentSavesAssumption ==
  /\ Notes # {} /\ IsFiniteSet(Notes)
  /\ {MaxEdits, MaxStructural, MaxFailures} \subseteq Nat

VARIABLES
  doc,      \* documentIndexRef: the documents in memory
  disk,     \* what the encrypted rows hold
  pending,  \* PendingSave per note: exists, timer armed, attempt running
  lane,     \* write lane per note, the running write first
  failed,   \* failedLocalObjectIds
  todo,     \* what each waiting routine still has to do
  phase,    \* "open", "closing" (inert) or "stopped" (logoutStarted)
  active,   \* the active document
  given,    \* the notes whose unsaved edits the user chose to discard
  spent     \* edits, structural changes and failures so far

vars == <<doc, disk, pending, lane, failed, todo, phase, active, given, spent>>

Documents == [text : 0..MaxEdits, place : 0..MaxStructural]

(* What asked for a write: the queue, a title commit or a structural change. *)
Writers == {"save", "title", "structure"}
Writes  == [value : Documents, by : Writers]

(* The asynchronous routines that wait for saves: selectDocument, onHidden's
   flushDocument, the structural operations (a batch move, pinning or locking beside
   it) and the close handler. *)
Structural == {"move", "pin"}
Routines   == {"select", "hidden", "close"} \cup Structural

(* One await of a routine.  note is the document it concerns. *)
Steps == [op : {"flush", "saved", "drain", "activate", "place", "placed",
                "flushAll", "drainAll", "stop"}, note : Notes]

NoSave == [queued |-> FALSE, armed |-> FALSE, running |-> FALSE]

Init ==
  /\ doc     = [n \in Notes |-> [text |-> 0, place |-> 0]]
  /\ disk    = doc
  /\ pending = [n \in Notes |-> NoSave]
  /\ lane    = [n \in Notes |-> << >>]
  /\ failed  = {}
  /\ todo    = [r \in Routines |-> << >>]
  /\ phase   = "open"
  /\ active \in Notes
  /\ given   = {}
  /\ spent   = [edits |-> 0, structural |-> 0, failures |-> 0]

IsActive == phase # "stopped"

Step(op, n) == [op |-> op, note |-> n]

Idle(r) == todo[r] = << >>

Enqueued(n, value, by) == [lane EXCEPT ![n] = Append(@, [value |-> value, by |-> by])]

-----------------------------------------------------------------------------
(* The save queue.                                                           *)

(* The user edits the body: patchDocument queues the changed document, which
   publishes it in memory and arms the timer.  A running attempt is kept. *)
Patch(n) ==
  /\ phase = "open" /\ spent.edits < MaxEdits
  /\ spent' = [spent EXCEPT !.edits = @ + 1]
  /\ doc' = [doc EXCEPT ![n].text = spent.edits + 1]
  /\ pending' = [pending EXCEPT ![n].queued = TRUE, ![n].armed = TRUE]
  /\ UNCHANGED <<disk, lane, failed, todo, phase, active, given>>

(* run: a running attempt is joined; otherwise the timer is cleared and the
   document of this moment is handed to the lane. *)
Run(n) ==
  IF pending[n].running
  THEN /\ pending' = [pending EXCEPT ![n].armed = FALSE]
       /\ UNCHANGED lane
  ELSE /\ pending' = [pending EXCEPT ![n].armed = FALSE, ![n].running = TRUE]
       /\ lane' = Enqueued(n, doc[n], "save")

TimerFires(n) ==
  /\ IsActive /\ pending[n].armed
  /\ Run(n)
  /\ UNCHANGED <<doc, disk, failed, todo, phase, active, given, spent>>

(* Fault: a newer edit made during the attempt is taken for saved. *)
AttemptSucceededFault(n, value) == [pending EXCEPT ![n] = NoSave]

(* The attempt's continuation: nothing newer in memory ends the entry, a newer
   edit arms the timer again at once. An attempt whose entry was cancelled does
   nothing. *)
AttemptSucceeded(n, value) ==
  [pending EXCEPT ![n] = IF doc'[n] = value \/ ~@.queued THEN NoSave
                         ELSE [@ EXCEPT !.running = FALSE, !.armed = TRUE]]

(* Fault: a failed attempt is not retried. *)
AttemptFailedFault(n) == [pending EXCEPT ![n].running = FALSE]

AttemptFailed(n) ==
  [pending EXCEPT ![n] = IF @.queued THEN [@ EXCEPT !.running = FALSE, !.armed = TRUE] ELSE @]

-----------------------------------------------------------------------------
(* The write lane.  A write is the encryption and the transaction of
   persistObject; the document it writes was captured when it was enqueued.  *)

(* commitState: a queued save and a title publish their result only when the
   document in memory is still the one they wrote; the other writers always. *)
CommitsState(n, write) == write.by \in {"save", "title"} => doc[n] = write.value

(* A routine waiting for the attempt's outcome continues or is rejected. *)
Continued(op, n, ok) ==
  [r \in Routines |->
     IF Idle(r) \/ Head(todo[r]) # Step(op, n) THEN todo[r]
     ELSE IF ~ok THEN << >>
     ELSE IF op = "saved" THEN <<Step("flush", n)>> \o Tail(todo[r])
     ELSE Tail(todo[r])]

Awaited(write) == CASE write.by = "save" -> "saved"
                    [] write.by = "structure" -> "placed"
                    [] write.by = "title" -> "titled"    \* no routine waits for it

WriteSucceeds(n) ==
  /\ IsActive /\ lane[n] # << >>
  /\ LET write  == Head(lane[n])
         latest == Len(lane[n]) = 1
     IN  /\ disk' = [disk EXCEPT ![n] = write.value]
         /\ doc' = IF latest /\ CommitsState(n, write)
                   THEN [doc EXCEPT ![n] = write.value] ELSE doc
         /\ pending' = IF write.by = "save" THEN AttemptSucceeded(n, write.value) ELSE pending
         /\ todo' = Continued(Awaited(write), n, TRUE)
  /\ lane' = [lane EXCEPT ![n] = Tail(@)]
  /\ failed' = failed \ {n}
  /\ UNCHANGED <<phase, active, given, spent>>

(* A close whose flush is rejected reopens the workspace. *)
WriteFails(n) ==
  /\ IsActive /\ lane[n] # << >> /\ spent.failures < MaxFailures
  /\ spent' = [spent EXCEPT !.failures = @ + 1]
  /\ LET write == Head(lane[n])
     IN  /\ pending' = IF write.by = "save" THEN AttemptFailed(n) ELSE pending
         /\ todo' = Continued(Awaited(write), n, FALSE)
  /\ phase' = IF ~Idle("close") /\ todo'["close"] = << >> THEN "open" ELSE phase
  /\ lane' = [lane EXCEPT ![n] = Tail(@)]
  /\ failed' = failed \cup {n}
  /\ UNCHANGED <<doc, disk, active, given>>

(* A write under way when the workspace stops is skipped, or its transaction had
   begun and commits; memory is left alone. *)
WriteAfterStop(n) ==
  /\ ~IsActive /\ lane[n] # << >>
  /\ \/ disk' = [disk EXCEPT ![n] = Head(lane[n]).value]
     \/ UNCHANGED disk
  /\ lane' = [lane EXCEPT ![n] = Tail(@)]
  /\ UNCHANGED <<doc, pending, failed, todo, phase, active, given, spent>>

-----------------------------------------------------------------------------
(* Writes around the queue.                                                  *)

(* updateDocumentTitle publishes the new title, then writes it. *)
UpdateTitle(n) ==
  /\ phase = "open" /\ spent.edits < MaxEdits
  /\ spent' = [spent EXCEPT !.edits = @ + 1]
  /\ doc' = [doc EXCEPT ![n].text = spent.edits + 1]
  /\ lane' = Enqueued(n, doc'[n], "title")
  /\ UNCHANGED <<disk, pending, failed, todo, phase, active, given>>

(* moveDocuments: one awaited persistObject per sibling that moves. *)
MoveDocuments(r, batch) ==
  /\ phase = "open" /\ Idle(r) /\ spent.structural < MaxStructural
  /\ todo' = [todo EXCEPT ![r] = [i \in DOMAIN batch |-> Step("place", batch[i])]]
  /\ UNCHANGED <<doc, disk, pending, lane, failed, phase, active, given, spent>>

(* persistObject({...document, ...change}): also pinDocuments, toggleNoteLock.
   The document is published when the write is done, not before. *)
PlaceDocument(r, n) ==
  /\ IsActive /\ spent.structural < MaxStructural
  /\ spent' = [spent EXCEPT !.structural = @ + 1]
  /\ lane' = Enqueued(n, [doc[n] EXCEPT !.place = spent.structural + 1], "structure")
  /\ todo' = [todo EXCEPT ![r] = <<Step("placed", n)>> \o Tail(@)]
  /\ UNCHANGED <<doc, disk, pending, failed, phase, active, given>>

-----------------------------------------------------------------------------
(* Routines that wait for the queue.                                         *)

(* selectDocument: flushDocument of the active document, then activation. *)
SelectDocument(n) ==
  /\ phase = "open" /\ Idle("select") /\ n # active
  /\ todo' = [todo EXCEPT !["select"] =
       <<Step("flush", active), Step("drain", active), Step("activate", n)>>]
  /\ UNCHANGED <<doc, disk, pending, lane, failed, phase, active, given, spent>>

(* onHidden: flushDocument of every pending id. *)
PageHidden ==
  /\ phase = "open" /\ Idle("hidden")
  /\ \E n \in Notes :
       /\ pending[n].queued
       /\ todo' = [todo EXCEPT !["hidden"] = <<Step("flush", n), Step("drain", n)>>]
  /\ UNCHANGED <<doc, disk, pending, lane, failed, phase, active, given, spent>>

CloseSteps == <<Step("flushAll", active), Step("drainAll", active), Step("stop", active)>>

(* The close handler: flushAll, drainAll, then logoutStarted.  With discard the
   queue is cancelled instead of flushed: what is typed but unsaved is given up. *)
Close(discard) ==
  /\ phase = "open" /\ Idle("close")
  /\ phase' = "closing"
  /\ pending' = IF discard THEN [n \in Notes |-> NoSave] ELSE pending
  /\ given' = IF discard THEN {n \in Notes : pending[n].queued} ELSE {}
  /\ todo' = [todo EXCEPT !["close"] = IF discard THEN Tail(CloseSteps) ELSE CloseSteps]
  /\ UNCHANGED <<doc, disk, lane, failed, active, spent>>

(* flush: until the note has no entry, run or join an attempt and await it. *)
Flush(r, n) ==
  /\ IF pending[n].queued /\ IsActive
     THEN /\ Run(n)
          /\ todo' = [todo EXCEPT ![r] = <<Step("saved", n)>> \o Tail(@)]
     ELSE /\ todo' = [todo EXCEPT ![r] = Tail(@)]
          /\ UNCHANGED <<pending, lane>>
  /\ UNCHANGED <<doc, disk, failed, phase, active, given, spent>>

(* flushAll: flush, one after another, every id pending now. *)
FlushAll(r) ==
  /\ \E ids \in SetToSeqs({n \in Notes : pending[n].queued}) :
       todo' = [todo EXCEPT ![r] = [i \in DOMAIN ids |-> Step("flush", ids[i])] \o Tail(@)]
  /\ UNCHANGED <<doc, disk, pending, lane, failed, phase, active, given, spent>>

Drained(ids) == \A n \in ids : lane[n] = << >>

Continue(r) == todo' = [todo EXCEPT ![r] = Tail(@)]

RoutineStep(r) ==
  /\ ~Idle(r)
  /\ LET step == Head(todo[r])
         n    == step.note
     IN  \/ step.op = "flush" /\ Flush(r, n)
         \/ step.op = "flushAll" /\ FlushAll(r)
         \/ step.op = "place" /\ PlaceDocument(r, n)
         \/ /\ step.op = "drain" /\ Drained({n})
            /\ Continue(r)
            /\ UNCHANGED <<doc, disk, pending, lane, failed, phase, active, given, spent>>
         \/ /\ step.op = "drainAll" /\ Drained(Notes)
            /\ Continue(r)
            /\ UNCHANGED <<doc, disk, pending, lane, failed, phase, active, given, spent>>
         \/ /\ step.op = "activate"
            /\ active' = n
            /\ Continue(r)
            /\ UNCHANGED <<doc, disk, pending, lane, failed, phase, given, spent>>
         \/ /\ step.op = "stop"
            /\ phase' = "stopped"
            /\ todo' = [q \in Routines |-> << >>]
            /\ UNCHANGED <<doc, disk, pending, lane, failed, active, given, spent>>

UserStep ==
  \/ \E n \in Notes : Patch(n) \/ UpdateTitle(n) \/ SelectDocument(n)
  \/ \E r \in Structural, b \in SetToSeqs(Notes) \cup {<<n>> : n \in Notes} : MoveDocuments(r, b)
  \/ PageHidden
  \/ \E discard \in BOOLEAN : Close(discard)

Next ==
  \/ UserStep
  \/ \E n \in Notes : TimerFires(n) \/ WriteSucceeds(n) \/ WriteFails(n) \/ WriteAfterStop(n)
  \/ \E r \in Routines : RoutineStep(r)

(* Timers fire, IndexedDB answers and promises continue while the page lives. *)
Fairness ==
  /\ \A n \in Notes : WF_vars(TimerFires(n)) /\ WF_vars(WriteSucceeds(n) \/ WriteFails(n))
  /\ \A r \in Routines : WF_vars(RoutineStep(r))

Spec == Init /\ [][Next]_vars /\ Fairness

-----------------------------------------------------------------------------
(* Types, and how an entry of the queue and the lane of its note correspond: an
   attempt is running exactly while one save of the note is in its lane. *)
SavesTypeOK ==
  /\ doc \in [Notes -> Documents] /\ disk \in [Notes -> Documents]
  /\ pending \in [Notes -> [queued : BOOLEAN, armed : BOOLEAN, running : BOOLEAN]]
  /\ \A n \in Notes : \A i \in DOMAIN lane[n] : lane[n][i] \in Writes
  /\ \A n \in Notes \ given :
       LET saves == {i \in DOMAIN lane[n] : lane[n][i].by = "save"}
       IN  /\ pending[n].running <=> saves # {}
           /\ \A i, j \in saves : i = j
  /\ failed \subseteq Notes /\ active \in Notes
  /\ \A r \in Routines : \A i \in DOMAIN todo[r] : todo[r][i] \in Steps
  /\ phase \in {"open", "closing", "stopped"}

(* The text in memory is in the database or in a write under way. *)
Covered(n) ==
  \/ disk[n].text = doc[n].text
  \/ \E i \in DOMAIN lane[n] : lane[n][i].value.text = doc[n].text

(* An edit is never stranded: a text in memory that neither the database nor a
   write under way holds has a queue entry whose timer is armed or whose
   attempt is running, or its failure is shown to the user. This must survive
   timers firing during attempts, attempts failing while newer edits arrive, and
   flushes clearing the timers (useDocumentSaveQueue.ts run, queue, flush). *)
NoStrandedEdit ==
  \A n \in Notes :
    \/ Covered(n)
    \/ n \in failed \cup given
    \/ pending[n].queued /\ (pending[n].armed \/ pending[n].running)

(* A workspace that was closed (locked, switched or signed out) has every
   document of memory in its database, except one whose failed write was shown
   as a local save failure: edits typed while a flush waits, and attempts joined
   by several routines, included (useWorkspaceClose.ts). A structural change that
   was under way may have reached the database only. *)
ClosedMeansDurable ==
  phase = "stopped" =>
    \A n \in Notes \ (failed \cup given) :
      disk[n].text = doc[n].text /\ disk[n].place >= doc[n].place

(* "does not let an older durable completion replace edits still waiting in
   memory" (useObjectPersistence.test.tsx): no completed write takes a document
   in memory back to an older text. *)
WaitingEditsKept ==
  [][\A n \in Notes : doc'[n].text >= doc[n].text]_vars

(* What the user typed last reaches the database: a failed save is retried until
   IndexedDB accepts it. Two exceptions: a close with discard, and a failed title
   commit, which the code shows as a failure and does not retry. *)
EditsReachDisk ==
  \A n \in Notes :
    []<>(disk[n].text = doc[n].text \/ n \in given \/ (n \in failed /\ ~pending[n].queued))

(* No edit is stranded between memory, queue, lane and database, and a closed  *)
(* workspace has written all it did not report.                                *)
SavesSafe == SavesTypeOK /\ NoStrandedEdit /\ ClosedMeansDurable
==============================================================================
