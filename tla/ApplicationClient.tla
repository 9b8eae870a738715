--------------------------- MODULE ApplicationClient ---------------------------
(* An application client (packages/application-client, client.ts and           *)
(* store.ts), its SQLite and the server it writes to: operations on one note,  *)
(* staged first, then sent as snapshot and note, or as a conflict copy, until  *)
(* the server has answered. Others edit, trash, purge and clear the note; the  *)
(* history quota fills up; requests are lost, or arrive after the client gave  *)
(* up on them; the client stops anywhere; the server is restored from a        *)
(* backup. A text is the set of edits in it. Calls are served one at a time.   *)
(* Attachments and body blocks travel with their note and are left out.        *)
EXTENDS Naturals, Sequences, SequencesExt

CONSTANTS MaxOps,      \* operations staged by the client
          MaxEdits,    \* changes of the note by other editors
          MaxLosses,   \* requests lost, and stops of the client
          MaxChanges,  \* times the history quota fills up or is freed
          MaxRestores, \* restores of the server
          MaxExpiries, \* times a 90 days' wait expires what is pending
          Recovering   \* whether mint_notes_recover is called

ASSUME ClientBounds == {MaxOps, MaxEdits, MaxLosses, MaxChanges, MaxRestores, MaxExpiries} \subseteq Nat

VARIABLES note, receipts, copies, history, cleared, \* the server
          epoch, backup, full, late, edits, changes,
          cache, cursor, known, ops,                \* the client's SQLite
          pc, todo, losses, expiries

server == <<note, receipts, copies, history, cleared>>
others == <<epoch, backup, full, edits, changes>>
stored == <<cache, cursor, known, ops>>
running == <<pc, todo>>
counts == <<losses, expiries>>
vars == <<server, others, late, stored, running, counts>>

Ops == 1..MaxOps
Absent == [rev |-> 0, text |-> {}, trashed |-> FALSE]
NewOp == [state |-> "none", base |-> 0, text |-> {}, history |-> FALSE, draft |-> 0, force |-> FALSE,
          committed |-> FALSE, confirmed |-> FALSE, old |-> FALSE]
Idle == [at |-> "idle", op |-> 0, acted |-> FALSE, deferred |-> FALSE]
Purged == MaxEdits + MaxOps + 2 \* the revision under which a purge is remembered

Init == /\ note \in {Absent, [Absent EXCEPT !.rev = 1]}
        /\ receipts = {} /\ copies = [o \in Ops |-> 0] /\ history = {} /\ cleared = {}
        /\ epoch = 0 /\ backup = <<>> /\ full = FALSE /\ late = {} /\ edits = 0 /\ changes = 0
        /\ cache = note /\ cursor = note.rev /\ known = 0
        /\ ops = [o \in Ops |-> NewOp] /\ pc = Idle /\ todo = <<>> /\ losses = 0 /\ expiries = 0

Pending(o) == ops[o].state = "pending"
Present == note.rev \notin {0, Purged}

-----------------------------------------------------------------------------
(* The SQLite's rules. putObject keeps the newer revision. *)
Put(object) == IF object.rev >= cache.rev THEN object ELSE cache

(* Where flush starts, or "over" if the operation has expired: until recovery  *)
(* is asked for, its own age counts, then that of the copy.                    *)
Start(r) == IF r.old THEN "over"
            ELSE IF r.draft # 0 THEN "copy"
            ELSE IF r.force THEN "draft"
            ELSE IF r.history THEN "history" ELSE "note"

(* flush returns to prepare's loop, or to the caller. *)
After == IF pc.acted THEN Idle ELSE [pc EXCEPT !.at = "next", !.op = 0, !.deferred = FALSE]
Flush(o, r) == IF Start(r) = "over" THEN pc' = After
               ELSE pc' = [pc EXCEPT !.at = Start(r), !.op = o, !.deferred = FALSE]

(* conflictDraft: a new idempotency key, always for the same new note. *)
Drafted(r) == [r EXCEPT !.draft = @ + 1]

Complete(o, state, object) ==
  /\ ops' = [ops EXCEPT ![o].state = state]
  /\ cache' = object
  /\ pc' = After /\ UNCHANGED <<cursor, known, todo, counts>>
Failed == pc' = After /\ UNCHANGED <<stored, todo, expiries>>
Goto(step, r) == /\ pc' = [pc EXCEPT !.at = step] /\ ops' = [ops EXCEPT ![pc.op] = r]
                 /\ UNCHANGED <<cache, cursor, known, todo, counts>>

-----------------------------------------------------------------------------
(* Fault: the revision a note is written over is not compared. *)
FitsFault(o, d) == IF d = 0 THEN Present ELSE copies[o] = 0

(* The server. A receipt answers a repeated request without looking further.   *)
Fits(o, d) == IF d = 0 THEN note.rev = ops[o].base ELSE copies[o] = 0
(* Fault: a repeated request is refused like a new one. *)
AcceptsFault(o, d) == Fits(o, d)

Accepts(o, d) == <<o, d>> \in receipts \/ Fits(o, d)
WriteObject(o, d) ==
  /\ UNCHANGED <<history, cleared>>
  /\ IF <<o, d>> \in receipts \/ ~Fits(o, d) THEN UNCHANGED <<note, receipts, copies>>
     ELSE /\ receipts' = receipts \cup {<<o, d>>}
          /\ IF d = 0 THEN note' = [rev |-> note.rev + 1, text |-> ops[o].text, trashed |-> FALSE] /\ UNCHANGED copies
             ELSE copies' = [copies EXCEPT ![o] = d] /\ UNCHANGED note

(* A snapshot <<o, d>>: of the note before operation o (d = 0), or with a copy. *)
HistoryAnswer(o, d) ==
  IF <<o, d, "history">> \in receipts THEN "stored"
  ELSE IF d = 0 /\ ~Present THEN "missing"
  ELSE IF d = 0 /\ o \in cleared THEN "cleared"
  ELSE IF full THEN "quota" ELSE "new"
StoreHistory(o, d) ==
  /\ UNCHANGED <<note, copies, cleared>>
  /\ IF HistoryAnswer(o, d) # "new" THEN UNCHANGED <<receipts, history>>
     ELSE history' = history \cup {<<o, d>>} /\ receipts' = receipts \cup {<<o, d, "history">>}

(* Other clients of the account, the quota, and the operator. *)
OtherEdit ==
  /\ Present /\ edits < MaxEdits /\ edits' = edits + 1
  /\ \E t \in BOOLEAN : note' = [rev |-> note.rev + 1, text |-> note.text \cup {MaxOps + edits + 1}, trashed |-> t]
  /\ UNCHANGED <<receipts, copies, history, cleared, epoch, backup, full, late, changes, stored, running, counts>>
Purge ==
  /\ Present /\ note.trashed
  /\ note' = [Absent EXCEPT !.rev = Purged] /\ history' = {h \in history : h[2] # 0}
  /\ UNCHANGED <<receipts, copies, cleared, others, late, stored, running, counts>>
ClearHistory ==
  /\ Present /\ \E o \in Ops : Pending(o) /\ ops[o].history /\ o \notin cleared
  /\ cleared' = {o \in Ops : ops[o].state # "none"} /\ history' = {h \in history : h[2] # 0}
  /\ UNCHANGED <<note, receipts, copies, others, late, stored, running, counts>>
Quota ==
  /\ changes < MaxChanges /\ changes' = changes + 1 /\ full' = ~full
  /\ UNCHANGED <<server, epoch, backup, edits, late, stored, running, counts>>
Backup ==
  /\ backup = <<>> /\ MaxRestores > 0 /\ backup' = <<note, receipts, copies, history, cleared>>
  /\ UNCHANGED <<server, epoch, full, edits, changes, late, stored, running, counts>>
Restore ==
  /\ backup # <<>> /\ epoch < MaxRestores /\ epoch' = epoch + 1
  /\ note' = backup[1] /\ receipts' = backup[2] /\ copies' = backup[3] /\ history' = backup[4] /\ cleared' = backup[5]
  /\ late' = {} \* refused: their leases are not valid any more
  /\ UNCHANGED <<backup, full, edits, changes, stored, running, counts>>
Arrive ==
  /\ \E k \in late : WriteObject(k[1], k[2]) /\ late' = late \ {k}
  /\ UNCHANGED <<others, stored, running, counts>>
Expire(o) ==
  /\ pc.at = "idle" /\ Pending(o) /\ ~ops[o].old /\ expiries < MaxExpiries /\ expiries' = expiries + 1
  /\ ops' = [ops EXCEPT ![o].old = TRUE] /\ late' = {k \in late : k[1] # o}
  /\ UNCHANGED <<server, others, cache, cursor, known, running, losses>>

-----------------------------------------------------------------------------
(* A call prepares: status, perhaps reconciliation, flush of what is pending,  *)
(* pull. Then its tool acts.                                                   *)
Call ==
  /\ pc.at = "idle" /\ pc' = [Idle EXCEPT !.at = "status"]
  /\ UNCHANGED <<server, others, late, stored, todo, counts>>

(* reconcile, staged page by page and completed in one transaction. *)
CompleteReconciliation ==
  /\ known' = epoch /\ cursor' = note.rev /\ cache' = IF Present THEN note ELSE Absent
  /\ ops' = [o \in Ops |-> [ops[o] EXCEPT !.force = @ \/ Pending(o)]]
Status ==
  /\ pc.at = "status" /\ pc' = [pc EXCEPT !.at = "next"]
  /\ IF known = epoch THEN UNCHANGED stored ELSE CompleteReconciliation
  /\ todo' = SetToSortSeq({o \in Ops : Pending(o)}, <)
  /\ UNCHANGED <<server, others, late, counts>>

FlushNext ==
  /\ pc.at = "next"
  /\ IF todo = <<>> THEN pc' = [pc EXCEPT !.at = "pull"] /\ UNCHANGED todo
     ELSE Flush(Head(todo), ops[Head(todo)]) /\ todo' = Tail(todo)
  /\ UNCHANGED <<server, others, late, stored, counts>>

(* applyPage: what changed since the cursor, the purge of the note included.   *)
(* The request does not name the epoch: a server restored since the status may *)
(* answer from its own sequence, or find the cursor too new.                   *)
Pulled == IF cursor = note.rev THEN cache ELSE IF Present THEN Put(note) ELSE Absent
Pull ==
  /\ pc.at = "pull" /\ UNCHANGED <<server, others, late, known, ops, todo, counts>>
  /\ \/ /\ pc' = [pc EXCEPT !.at = "act", !.acted = TRUE]
        /\ cursor' = note.rev
        /\ cache' \in IF known = epoch THEN {Pulled} ELSE {Pulled, cache}
     \/ known # epoch /\ pc' = Idle /\ UNCHANGED <<cache, cursor>>

(* Reads, tools that are refused, and a write repeated under its operation ID. *)
Return ==
  /\ pc.at = "act"
  /\ pc' = Idle \/ \E o \in Ops : Pending(o) /\ ~ops[o].old /\ Flush(o, ops[o])
  /\ UNCHANGED <<server, others, late, stored, todo, counts>>

(* mutate: a new operation is staged, with a snapshot of the note if the       *)
(* history is enabled and the bytes fit; the note is created if there is none. *)
Stage(o) ==
  /\ pc.at = "act" /\ ops[o].state = "none" /\ \A p \in 1..(o - 1) : ops[p].state # "none"
  /\ IF cache.rev = 0 THEN o = 1 /\ cursor = 0 ELSE ~cache.trashed
  /\ \A p \in Ops : Pending(p) => ops[p].committed
  /\ \E h \in {FALSE, cache.rev # 0} :
       LET r == [NewOp EXCEPT !.state = "pending", !.base = cache.rev, !.text = cache.text \cup {o}, !.history = h]
       IN  ops' = [ops EXCEPT ![o] = r] /\ Flush(o, r)
  /\ cache' = [rev |-> cache.rev + 1, text |-> cache.text \cup {o}, trashed |-> FALSE]
  /\ UNCHANGED <<server, others, late, cursor, known, todo, counts>>

(* mint_notes_recover: a copy that was drafted for an earlier recovery is sent *)
(* again, anything else is drafted anew.                                       *)
Recover(o) ==
  /\ Recovering /\ pc.at = "act" /\ Pending(o)
  /\ LET r == IF ops[o].confirmed /\ ~ops[o].old THEN ops[o]
              ELSE [Drafted(ops[o]) EXCEPT !.confirmed = TRUE, !.old = FALSE]
     IN  ops' = [ops EXCEPT ![o] = r] /\ Flush(o, r)
  /\ UNCHANGED <<server, others, late, cache, cursor, known, todo, counts>>

-----------------------------------------------------------------------------
(* flush, one request after the other.                                         *)
ForceConflict ==
  /\ pc.at = "draft" /\ Goto("copy", Drafted(ops[pc.op]))
  /\ UNCHANGED <<server, others, late>>

PostHistory ==
  LET o == pc.op
      r == ops[o]
      answer == HistoryAnswer(o, 0)
  IN  /\ pc.at = "history" /\ StoreHistory(o, 0)
      /\ CASE answer = "missing" -> Goto("copy", Drafted(r))
           [] answer = "cleared" -> Goto("note", [r EXCEPT !.history = FALSE])
           [] answer = "quota" -> /\ pc' = [pc EXCEPT !.at = "note", !.deferred = TRUE]
                                  /\ UNCHANGED <<stored, todo, counts>>
           [] OTHER -> Goto("note", r)
      /\ UNCHANGED <<others, late>>

(* The note, unless it was accepted before; then the snapshot may be due. *)
PutNote ==
  LET o == pc.op
      r == ops[o]
      object == [rev |-> r.base + 1, text |-> r.text, trashed |-> FALSE]
  IN  /\ pc.at = "note" /\ (known = epoch \/ r.committed)
      /\ IF r.committed THEN UNCHANGED server ELSE WriteObject(o, 0)
      /\ IF ~r.committed /\ ~Accepts(o, 0) THEN Goto("copy", Drafted(r))
         ELSE IF pc.deferred
         THEN /\ ops' = [ops EXCEPT ![o].committed = TRUE] /\ cache' = Put(object)
              /\ pc' = After /\ UNCHANGED <<cursor, known, todo, counts>>
         ELSE Complete(o, "committed", Put(object))
      /\ UNCHANGED <<others, late>>

PutCopy ==
  LET o == pc.op
  IN  /\ pc.at = "copy" /\ known = epoch /\ WriteObject(o, ops[o].draft)
      /\ IF Accepts(o, ops[o].draft) THEN Goto(IF ops[o].history THEN "copyHistory" ELSE "original", ops[o])
         ELSE Failed /\ UNCHANGED losses
      /\ UNCHANGED <<others, late>>

PostCopyHistory ==
  LET o == pc.op
  IN  /\ pc.at = "copyHistory" /\ StoreHistory(o, ops[o].draft)
      /\ IF HistoryAnswer(o, ops[o].draft) = "quota" THEN Failed /\ UNCHANGED losses ELSE Goto("original", ops[o])
      /\ UNCHANGED <<others, late>>

ReadOriginal ==
  /\ pc.at = "original"
  /\ Complete(pc.op, "conflict", IF Present THEN Put(note) ELSE Absent)
  /\ UNCHANGED <<server, others, late>>

(* A server restored since the status refuses writes under the old lease. *)
RefuseLease ==
  /\ known # epoch /\ (pc.at = "copy" \/ (pc.at = "note" /\ ~ops[pc.op].committed))
  /\ Failed /\ UNCHANGED <<server, others, late, losses>>

(* A request fails: it is lost, or its reply is, or it is given up on and      *)
(* arrives later. In prepare's own requests the call fails, in flush's the     *)
(* operation stays pending.                                                    *)
Writes == IF known # epoch THEN {}
          ELSE CASE pc.at = "note" /\ ~ops[pc.op].committed -> {<<pc.op, 0>>}
                 [] pc.at = "copy" -> {<<pc.op, ops[pc.op].draft>>} [] OTHER -> {}
Fail ==
  /\ pc.at \in {"status", "history", "note", "copy", "copyHistory", "original", "pull"}
  /\ losses < MaxLosses /\ losses' = losses + 1
  /\ IF pc.at \in {"status", "pull"} THEN pc' = Idle ELSE pc' = After
  /\ \/ UNCHANGED <<server, late>>
     \/ Writes # {} /\ late' = late \cup Writes /\ UNCHANGED server
     \/ /\ \/ \E k \in Writes : WriteObject(k[1], k[2])
           \/ pc.at = "history" /\ StoreHistory(pc.op, 0)
           \/ pc.at = "copyHistory" /\ StoreHistory(pc.op, ops[pc.op].draft)
        /\ UNCHANGED late
  /\ UNCHANGED <<others, stored, todo, expiries>>

(* The client is closed or dies: what is not in its SQLite is gone. *)
Stop ==
  /\ pc.at # "idle" /\ losses < MaxLosses /\ losses' = losses + 1
  /\ pc' = Idle /\ todo' = <<>>
  /\ UNCHANGED <<server, others, late, stored, expiries>>

Environment == OtherEdit \/ Purge \/ ClearHistory \/ Quota \/ Backup \/ Restore \/ Arrive \/ (\E o \in Ops : Expire(o))
Flushing == ForceConflict \/ PostHistory \/ PutNote \/ PutCopy \/ PostCopyHistory \/ ReadOriginal \/ RefuseLease
Tool == Return \/ \E o \in Ops : Stage(o) \/ Recover(o)
Progress == Status \/ FlushNext \/ Flushing \/ Pull \/ Tool
Next == Environment \/ Call \/ Progress \/ Fail \/ Stop

Spec == Init /\ [][Next]_vars
(* Fairness: an agent goes on calling tools, and a call whose requests are     *)
(* answered goes on. Losses are bounded.                                       *)
FairSpec == Spec /\ WF_vars(Call) /\ WF_vars(Progress)

-----------------------------------------------------------------------------
ClientTypeOK ==
  /\ note.rev \in 0..Purged /\ note.text \cup cache.text \subseteq 1..(MaxOps + MaxEdits)
  /\ \A o \in Ops : ops[o].state \in {"none", "pending", "committed", "conflict"} /\ copies[o] <= ops[o].draft
  /\ pc.at \in {"idle", "status", "next", "draft", "history", "note", "copy", "copyHistory", "original", "pull", "act"}
  /\ pc.op \in Ops \cup {0} /\ todo \in Seq(Ops) /\ known <= epoch
  /\ pc.at \in {"copy", "copyHistory"} => ops[pc.op].draft # 0

(* An operation is applied once: while the note holds it there is no copy of   *)
(* it as well, however often it was sent, unless a recovery was asked for or   *)
(* the server was restored (client.ts, idempotency keys and receipts).         *)
AppliedOnce == (\A o \in Ops : ~ops[o].confirmed) /\ epoch = 0 =>
                 \A o \in Ops : ~(copies[o] # 0 /\ o \in note.text)

(* docs/application-connections.md:140: no operation overwrites what the agent *)
(* has not read. A write keeps every edit the note held, whoever made it.      *)
WritesKeepEdits == [][note'.rev # Purged /\ epoch' = epoch => note.text \subseteq note'.text]_vars

(* What was reported done is done: a committed operation was accepted by the   *)
(* server, a conflict has its copy there, until a restore takes them back.     *)
ReportedIsDone ==
  epoch = 0 => \A o \in Ops : /\ (ops[o].state = "committed" \/ ops[o].committed => <<o, 0>> \in receipts)
                               /\ (ops[o].state = "conflict" => copies[o] # 0)

(* A text that an application replaced stays in the history: when the          *)
(* operation is done, the snapshot it was to send was stored, unless the user  *)
(* cleared the history since it was taken (client.ts, flush).                  *)
EditedTextIsKept ==
  \A o \in Ops : epoch = 0 /\ ops[o].state \in {"committed", "conflict"} /\ ops[o].history =>
     \E d \in 0..ops[o].draft : <<o, d, "history">> \in receipts

(* Outside a call and with nothing pending, the note the agent reads is one    *)
(* the account had: it holds no operation that went into a copy only.          *)
CacheIsHonest ==
  pc.at = "idle" /\ known = epoch /\ (\A o \in Ops : ~Pending(o)) =>
     /\ \A o \in cache.text \cap Ops : <<o, 0>> \in receipts
     /\ (cache.rev = note.rev => cache = note)

(* Once calls get through and the quota leaves room, an operation is committed *)
(* or copied, unless it expired before (flush, prepare).                       *)
PendingResolves == <>[]~full => \A o \in Ops : Pending(o) ~> (~Pending(o) \/ ops[o].old)

(* docs/system-design.md:182: a purged note is purged from the clients too.    *)
(* Once the client has pulled the purge, with nothing pending, it is gone.     *)
PurgedLeavesTheCache ==
  pc.at = "idle" /\ known = epoch /\ (\A o \in Ops : ~Pending(o)) /\ cursor = Purged => cache.rev = 0

(* docs/application-connections.md:112: recovery restores a pending proposal   *)
(* as a separate note; it does not stay pending for good.                      *)
RecoveryResolves == <>[]~full => \A o \in Ops : (Pending(o) /\ ops[o].confirmed) ~> (~Pending(o) \/ ops[o].old)

(* An operation is applied once, is done when it is reported done, and keeps   *)
(* the text it replaced in the history (client.ts).                            *)
ClientSafe == /\ ClientTypeOK /\ AppliedOnce /\ ReportedIsDone /\ EditedTextIsKept
=============================================================================
