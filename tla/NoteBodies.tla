------------------------------ MODULE NoteBodies ------------------------------
(***************************************************************************)
(* The body of a long note, split into sealed blocks that never change:    *)
(* packages/application-client/src/noteBodies.ts encodes a text against    *)
(* the version it replaces and reuses its blocks, src/storage/noteBodies.ts*)
(* keeps them in the browser and moves them, server/sync/noteBodies.ts and *)
(* objectStore.ts store them.  Browsers edit, upload and fetch one note;   *)
(* applications edit it through their own cache and put what conflicts     *)
(* into a draft, a note of its own.  Replies are lost, the note is purged, *)
(* and a backup is restored.                                               *)
(***************************************************************************)
EXTENDS SequencesExt, FiniteSets, Naturals

CONSTANTS Devices,      \* browsers
          Apps,         \* applications
          Pieces,       \* what one block can say
          MaxLength,    \* blocks of a text
          MaxEdits, MaxLost, MaxRestores, MaxPurges,
          None

BodiesAssumption ==
  /\ {MaxLength, MaxEdits, MaxLost, MaxRestores, MaxPurges} \subseteq Nat
  /\ Devices \cap Apps = {} /\ None \notin Pieces

VARIABLES piece,    \* what the block with this number says: blocks never change
          server,   \* [note, drafts, blocks, purged]: what the server stores
          backup,   \* a copy of it
          epoch,    \* of the server; a restore begins a new one
          browser,  \* [Devices -> what a browser stores, and what it fetches]
          app,      \* [Apps -> what an application stores]
          edits, lost, restores, purges

vars == <<piece, server, backup, epoch, browser, app, edits, lost, restores, purges>>

Texts == UNION {[1..n -> Pieces] : n \in 1..MaxLength}
Read(ids) == [k \in DOMAIN ids |-> piece[ids[k]]]

(* Fault: a block is reused where it was, whatever it says. *)
EncodeFault(text, ids) ==
  LET new == SetToSeq({text[k] : k \in {j \in DOMAIN text : j \notin DOMAIN ids}})
      all == piece \o new
  IN [ids   |-> [k \in DOMAIN text |->
                   IF k \in DOMAIN ids THEN ids[k]
                   ELSE CHOOSE i \in DOMAIN all \ DOMAIN piece : all[i] = text[k]],
      piece |-> all]

(* encodeVaultObject: a piece the replaced version has keeps its block, a  *)
(* piece that is new gets one, also when it occurs twice.                  *)
Encode(text, ids) ==
  LET kept == Range(Read(ids))
      all  == piece \o SetToSeq(Range(text) \ kept)
      mine == Range(ids) \cup (DOMAIN all \ DOMAIN piece)
  IN [ids |-> [k \in DOMAIN text |-> CHOOSE i \in mine : all[i] = text[k]], piece |-> all]

(* A stored version: its blocks, what its author wrote, and its revision.  *)
Version(ids, text, rev) == [ids |-> ids, text |-> text, rev |-> rev]
Nothing == Version(<<>>, <<>>, 0)

Init ==
  /\ piece = <<>>
  /\ server = [note |-> Nothing, drafts |-> {}, blocks |-> {}, purged |-> FALSE]
  /\ backup = server
  /\ epoch = 0
  /\ browser = [d \in Devices |-> [row |-> Nothing, pending |-> None, upload |-> None,
                  cached |-> {}, uploaded |-> {}, epoch |-> 0, fetch |-> None, kept |-> {}]]
  /\ app = [a \in Apps |-> [row |-> Nothing, op |-> None, cached |-> {}, uploaded |-> {},
                            epoch |-> 0]]
  /\ edits = 0 /\ lost = 0 /\ restores = 0 /\ purges = 0

(***************************************************************************)
(* The server                                                              *)
(***************************************************************************)
(* POST body-blocks/batch needs a lease of this epoch. *)
Admits(e) == e = epoch /\ ~ server.purged

(* upsertObject: the base is the current revision, and every block that    *)
(* the manifest refers to is stored.                                       *)
Accepts(base, ids) ==
  server.note.rev = base /\ ~ server.purged /\ Range(ids) \subseteq server.blocks

Refuses(base) == server.note.rev # base \/ server.purged

(* The transport may lose a reply. *)
Reply == \/ UNCHANGED lost
         \/ lost < MaxLost /\ lost' = lost + 1

(* Drafts are notes of their own, with blocks of their own. *)
DraftBlocks == UNION {Range(v.ids) : v \in server.drafts
                 \cup {app[a].op.write : a \in {x \in Apps : app[x].op # None /\ app[x].op.draft}}}

(* The note is purged: with it, all its blocks. *)
Purge ==
  /\ purges < MaxPurges /\ server.note.rev > 0
  /\ server' = [server EXCEPT !.note = Nothing, !.purged = TRUE,
                  !.blocks = @ \cap DraftBlocks]
  /\ purges' = purges + 1
  /\ UNCHANGED <<piece, backup, epoch, browser, app, edits, lost, restores>>

BackUp ==
  /\ restores < MaxRestores /\ backup # server
  /\ backup' = server
  /\ UNCHANGED <<piece, server, epoch, browser, app, edits, lost, restores, purges>>

Restore ==
  /\ restores < MaxRestores /\ restores' = restores + 1
  /\ server' = backup
  /\ epoch' = epoch + 1
  /\ UNCHANGED <<piece, backup, browser, app, edits, lost, purges>>

(***************************************************************************)
(* Browsers                                                                *)
(***************************************************************************)
(* A save: blocks, manifest and outbox entry are written in one            *)
(* transaction; what is being uploaded stays what it is.                   *)
Save(d) ==
  /\ edits < MaxEdits /\ edits' = edits + 1
  /\ \E text \in Texts :
       LET b == browser[d]
           code == Encode(text, b.row.ids)
           base == IF b.pending = None THEN b.row.rev ELSE b.pending.rev - 1
           row  == Version(code.ids, text, base + 1)
       IN /\ text # b.row.text
          /\ piece' = code.piece
          /\ browser' = [browser EXCEPT ![d].row = row, ![d].pending = row,
                           ![d].cached = @ \cup Range(code.ids), ![d].fetch = None]
  /\ UNCHANGED <<server, backup, epoch, app, lost, restores, purges>>

(* A push takes the pending version, or goes on with the one it took.      *)
Stage(d) ==
  /\ browser[d].pending # None /\ browser[d].upload = None
  /\ browser[d].epoch = epoch
  /\ browser' = [browser EXCEPT ![d].upload = browser[d].pending]
  /\ UNCHANGED <<piece, server, backup, epoch, app, edits, lost, restores, purges>>

(* uploadBodyBlocks: the blocks not known to be uploaded, before the       *)
(* manifest; a block counts as uploaded when the answer names it.          *)
UploadBlock(d) ==
  /\ browser[d].upload # None /\ Admits(browser[d].epoch)
  /\ \E i \in Range(browser[d].upload.ids) \ browser[d].uploaded :
       /\ Reply
       /\ server' = [server EXCEPT !.blocks = @ \cup {i}]
       /\ browser' = [browser EXCEPT ![d].uploaded = IF lost' = lost THEN @ \cup {i} ELSE @]
  /\ UNCHANGED <<piece, backup, epoch, app, edits, restores, purges>>

(* The browser is told that revision was accepted for what it uploaded: a  *)
(* newer pending version is sealed again on top of it.                     *)
Acknowledged(b, revision) ==
  IF b.pending = b.upload
    THEN [b EXCEPT !.pending = None, !.upload = None]
    ELSE LET row == [b.pending EXCEPT !.rev = revision + 1]
         IN [b EXCEPT !.pending = row, !.row = row, !.upload = None]

(* The manifest, when all of its blocks count as uploaded.                 *)
PutManifest(d) ==
  LET b == browser[d]
  IN /\ b.upload # None /\ b.epoch = epoch
     /\ Range(b.upload.ids) \subseteq b.uploaded \/ server.purged
     /\ \/ /\ Accepts(b.upload.rev - 1, b.upload.ids)
           /\ Reply
           /\ server' = [server EXCEPT !.note = b.upload]
           /\ browser' = IF lost' = lost
                THEN [browser EXCEPT ![d] = Acknowledged(b, b.upload.rev)] ELSE browser
        \/ \* A conflict: the entry is free again, and the pull decides.
           /\ Refuses(b.upload.rev - 1)
           /\ browser' = [browser EXCEPT ![d].upload = None]
           /\ UNCHANGED <<server, lost>>
  /\ UNCHANGED <<piece, backup, epoch, app, edits, restores, purges>>

(* prepareVaultSynchronization sees a new epoch: nothing counts as         *)
(* uploaded.                                                               *)
Forget(d) ==
  /\ browser[d].epoch # epoch /\ browser[d].uploaded # {}
  /\ browser' = [browser EXCEPT ![d].uploaded = {}]
  /\ UNCHANGED <<piece, server, backup, epoch, app, edits, lost, restores, purges>>

(* The note as the server has it is to be fetched: it is newer, or the     *)
(* epoch is new and the browser reads everything again.                    *)
Fetch(d) ==
  LET b == browser[d]
  IN /\ b.fetch = None
     /\ IF b.epoch # epoch THEN b.uploaded = {}
        ELSE server.note.rev > IF b.pending = None THEN b.row.rev ELSE b.pending.rev - 1
     /\ server.note.rev > 0
     /\ browser' = [browser EXCEPT ![d].fetch = [version |-> server.note, epoch |-> epoch, got |-> {}]]
  /\ UNCHANGED <<piece, server, backup, epoch, app, edits, lost, restores, purges>>

(* ensureBodyBlocks: a block that is not cached is asked for.  It may be   *)
(* gone, with the note; the fetch then fails.                              *)
FetchBlock(d) ==
  LET b == browser[d]
  IN /\ b.fetch # None
     /\ \E i \in Range(b.fetch.version.ids) \ (b.cached \cup b.fetch.got) :
          browser' = [browser EXCEPT ![d].fetch =
                        IF i \in server.blocks /\ b.fetch.epoch = epoch
                          THEN [@ EXCEPT !.got = @ \cup {i}] ELSE None]
  /\ UNCHANGED <<piece, server, backup, epoch, app, edits, lost, restores, purges>>

Mine(b) == IF b.pending # None THEN {b.pending.text} ELSE {}
Settled(b, v, e) == [b EXCEPT !.row = v, !.pending = None, !.upload = None, !.fetch = None,
                               !.epoch = e]

(* What was fetched is of another epoch: the synchronization starts again. *)
Outdated(d) ==
  /\ browser[d].fetch # None /\ browser[d].fetch.epoch # epoch
  /\ browser' = [browser EXCEPT ![d].fetch = None]
  /\ UNCHANGED <<piece, server, backup, epoch, app, edits, lost, restores, purges>>

(* The page is committed when every block is there: what is not on the     *)
(* server is kept as a copy, unless the fetched version is its own echo.   *)
Commit(d) ==
  LET b == browser[d]
      v == b.fetch.version
      new == [b EXCEPT !.cached = @ \cup b.fetch.got, !.uploaded = @ \cup b.fetch.got]
  IN /\ b.fetch # None /\ b.fetch.epoch = epoch
     /\ Range(v.ids) \subseteq b.cached \cup b.fetch.got
     /\ browser' = [browser EXCEPT ![d] =
          IF b.upload # None /\ v = b.upload
            THEN [Acknowledged(new, v.rev) EXCEPT !.fetch = None, !.epoch = epoch]
          ELSE IF v = b.pending
            THEN [new EXCEPT !.pending = None, !.upload = None, !.fetch = None, !.epoch = epoch]
          ELSE [Settled(new, v, epoch) EXCEPT
                  !.kept = @ \cup Mine(b)
                    \cup IF b.epoch # epoch /\ b.row # v THEN {b.row.text} \ {<<>>} ELSE {}]]
  /\ UNCHANGED <<piece, server, backup, epoch, app, edits, lost, restores, purges>>

(* The server does not have the note: purged, or restored without it.  The *)
(* row goes, what was pending is kept; a new note of this epoch stays.     *)
Vanish(d) ==
  LET b == browser[d]
  IN /\ server.note.rev = 0 /\ b.fetch = None
     /\ \/ b.epoch = epoch /\ server.purged /\ b.row.rev > 0
        \/ b.epoch # epoch /\ b.uploaded = {}
     /\ browser' = [browser EXCEPT ![d] =
                      [Settled(b, Nothing, epoch) EXCEPT !.kept = @ \cup Mine(b)]]
  /\ UNCHANGED <<piece, server, backup, epoch, app, edits, lost, restores, purges>>

(***************************************************************************)
(* Applications                                                            *)
(***************************************************************************)
(* A call stages an edit of the note as the cache has it. *)
Stages(a) ==
  /\ edits < MaxEdits /\ edits' = edits + 1
  /\ app[a].op = None /\ app[a].epoch = epoch
  /\ \E text \in Texts :
       LET code == Encode(text, app[a].row.ids)
       IN /\ text # app[a].row.text
          /\ piece' = code.piece
          /\ app' = [app EXCEPT ![a].op = [write |-> Version(code.ids, text, app[a].row.rev + 1),
                                           draft |-> FALSE, force |-> FALSE],
                                ![a].cached = @ \cup Range(code.ids)]
  /\ UNCHANGED <<server, backup, epoch, browser, lost, restores, purges>>

(* conflictDraft: a note of its own, with blocks of its own. *)
Draft(a) ==
  /\ app[a].op # None /\ ~ app[a].op.draft /\ app[a].epoch = epoch
  /\ app[a].op.force \/ (Range(app[a].op.write.ids) \subseteq app[a].uploaded
                          /\ Refuses(app[a].op.write.rev - 1)
                          /\ server.note # app[a].op.write) \/ server.purged
  /\ LET code == Encode(app[a].op.write.text, <<>>)
     IN /\ piece' = code.piece
        /\ app' = [app EXCEPT ![a].op = [write |-> Version(code.ids, app[a].op.write.text, 1),
                                         draft |-> TRUE, force |-> FALSE],
                              ![a].cached = @ \cup Range(code.ids)]
  /\ UNCHANGED <<server, backup, epoch, browser, edits, lost, restores, purges>>

(* sendObject: the blocks that do not count as uploaded. *)
SendBlock(a) ==
  /\ app[a].op # None /\ ~ app[a].op.force /\ app[a].epoch = epoch
  /\ app[a].op.draft \/ ~ server.purged
  /\ \E i \in Range(app[a].op.write.ids) \ app[a].uploaded :
       /\ Reply
       /\ server' = [server EXCEPT !.blocks = @ \cup {i}]
       /\ app' = [app EXCEPT ![a].uploaded = IF lost' = lost THEN @ \cup {i} ELSE @]
  /\ UNCHANGED <<piece, backup, epoch, browser, edits, restores, purges>>

(* The note or the draft itself; the server checks its blocks again.       *)
SendNote(a) ==
  LET op == app[a].op
  IN /\ op # None /\ ~ op.force /\ app[a].epoch = epoch
     /\ Range(op.write.ids) \subseteq app[a].uploaded
     /\ IF op.draft THEN Range(op.write.ids) \subseteq server.blocks
                    ELSE Accepts(op.write.rev - 1, op.write.ids)
     /\ Reply
     /\ server' = IF op.draft THEN [server EXCEPT !.drafts = @ \cup {op.write}]
                              ELSE [server EXCEPT !.note = op.write]
     /\ app' = IF lost' # lost THEN app
               ELSE [app EXCEPT ![a].op = None,
                                ![a].row = IF op.draft THEN server.note ELSE op.write,
                                ![a].cached = @ \cup Range(server.note.ids)]
  /\ UNCHANGED <<piece, backup, epoch, browser, edits, restores, purges>>

(* A reply was lost: the same request is answered by its receipt.          *)
Receipt(a) ==
  LET op == app[a].op
  IN /\ op # None /\ ~ op.draft /\ ~ op.force /\ app[a].epoch = epoch
     /\ server.note = op.write
     /\ app' = [app EXCEPT ![a].op = None, ![a].row = op.write]
  /\ UNCHANGED <<piece, server, backup, epoch, browser, edits, lost, restores, purges>>

(* reconcile and pull: the cache becomes what the server has, the blocks   *)
(* that were fetched count as uploaded; after a restore what is pending is *)
(* to become a draft.                                                      *)
Reconcile(a) ==
  /\ app[a].epoch # epoch \/ (app[a].op = None /\ app[a].row # server.note)
  /\ app' = [app EXCEPT ![a].row = server.note, ![a].epoch = epoch,
               ![a].cached = @ \cup Range(server.note.ids),
               ![a].uploaded = @ \cup (Range(server.note.ids) \ app[a].cached),
               ![a].op = IF @ # None /\ app[a].epoch # epoch /\ ~ @.draft
                           THEN [@ EXCEPT !.force = TRUE] ELSE @]
  /\ UNCHANGED <<piece, server, backup, epoch, browser, edits, lost, restores, purges>>

Pull(d) == Forget(d) \/ Fetch(d) \/ FetchBlock(d) \/ Outdated(d) \/ Commit(d) \/ Vanish(d)
Push(d) == Stage(d) \/ UploadBlock(d) \/ PutManifest(d)
Calls(a) == Draft(a) \/ SendBlock(a) \/ SendNote(a) \/ Receipt(a) \/ Reconcile(a)

Next == \/ Purge \/ BackUp \/ Restore
        \/ \E d \in Devices : Save(d) \/ Pull(d) \/ Push(d)
        \/ \E a \in Apps : Stages(a) \/ Calls(a)

Spec == Init /\ [][Next]_vars

(* A synchronization goes on, or the next one does; an application calls   *)
(* again.                                                                  *)
FairSpec == /\ Spec
            /\ \A d \in Devices : WF_vars(Pull(d)) /\ WF_vars(Push(d))
            /\ \A a \in Apps : WF_vars(Calls(a))

(***************************************************************************)
(* Properties                                                              *)
(***************************************************************************)

TypeOK ==
  /\ piece \in Seq(Pieces) /\ server.blocks \subseteq DOMAIN piece
  /\ \A d \in Devices : LET b == browser[d] IN
       /\ b.cached \subseteq DOMAIN piece /\ b.uploaded \subseteq b.cached
       /\ b.pending # None => b.pending = b.row
       /\ b.upload # None => b.pending # None

(* Whatever the server, a browser or an application holds as a version of  *)
(* the note can be read from its own blocks and says what its author wrote *)
(* (docs/system-design.md:160): the server never takes a manifest whose    *)
(* blocks it lacks, a browser never replaces what it can read by what it   *)
(* cannot, and no reuse of a block changes a text.                         *)
Readable ==
  /\ \A v \in {server.note} \cup server.drafts :
       Range(v.ids) \subseteq server.blocks /\ Read(v.ids) = v.text
  /\ \A d \in Devices : \A v \in {browser[d].row, browser[d].pending, browser[d].upload} \ {None} :
       Range(v.ids) \subseteq browser[d].cached /\ Read(v.ids) = v.text
  /\ \A a \in Apps : \A v \in {app[a].row} \cup IF app[a].op = None THEN {} ELSE {app[a].op.write} :
       Range(v.ids) \subseteq app[a].cached /\ Read(v.ids) = v.text

(* What a browser does not send is on the server: a block that counts as   *)
(* uploaded is there, as long as the note is and the server was not        *)
(* restored since (src/storage/noteBodies.ts, syncReconciliation.ts).      *)
NotSentIsThere ==
  \A d \in Devices : (browser[d].epoch = epoch /\ ~ server.purged)
    => (browser[d].uploaded \subseteq server.blocks)

(* An edit reaches the server, or is kept as a copy: it never waits for a  *)
(* block that nobody sends (docs/system-design.md:160).                    *)
PendingSettles == \A d \in Devices : (browser[d].pending # None) ~> (browser[d].pending = None)

(* What an application could not confirm is tried again by the next calls  *)
(* until it is confirmed (docs/application-connections.md:118).            *)
CallsSettle == \A a \in Apps : (app[a].op # None) ~> (app[a].op = None)

(* A client that has learned of a purge has forgotten what belongs to the  *)
(* note (docs/system-design.md:182).                                       *)
PurgedForgotten ==
  \A d \in Devices : (server.purged /\ browser[d].epoch = epoch /\ browser[d].row.rev = 0
                       /\ browser[d].fetch = None)
    => (browser[d].cached = {})

(* Bodies can be read wherever they are held, and what a browser does not send *)
(* is on the server.                                                       *)
BodiesSafe == TypeOK /\ Readable /\ NotSentIsThere
=============================================================================
