----------------------------- MODULE VaultLoading -----------------------------
(* Opening the workspace (useVaultLoad.ts, vaultLoad.ts, workspace.ts): the rows
   of the local database are opened one by one, what cannot be decrypted is set
   aside, and the first pull runs before anything can be edited.  A page may be
   left at any await.  The first pull does not hold the lock that other
   synchronizations of the device hold (useVaultSync.ts:324, 392).

   A version stands for one ciphertext with its nonce.  The outbox keeps a
   ciphertext of its own, which damage to the row does not touch.  Pushing one
   entry is one step and conflict copies are left out: VaultSync has both. *)
EXTENDS Naturals, FiniteSets

CONSTANTS Pages,        \* tabs
          DeviceOf,     \* the browser of each: [Pages -> devices]
          Objects,      \* documents; ids the program may draw included
          Folders,      \* those that can only be folders
          MaxVersions,  \* bound on ciphertexts ever made
          MaxFaults,    \* bound on rows damaged and unreadable uploads
          MaxFailures,  \* bound on pulls that fail and loads interrupted
          Ignores,      \* whether users press "Do not show this version again"
          OldPurges     \* objects for which an earlier release queued a purge

VaultLoadingAssumption ==
  /\ Folders \subseteq Objects /\ OldPurges \subseteq Objects /\ 0 \notin Objects
  /\ {MaxVersions, MaxFaults, MaxFailures} \subseteq Nat /\ Ignores \in BOOLEAN

VARIABLES db,      \* per device: rows, cursor, fingerprints ignored
          page,    \* what each page holds
          server,  \* the server's objects
          head,    \* sequence of the last change
          floor,   \* changes up to here were reclaimed
          bad,     \* versions nobody can decrypt
          welcome, \* welcome notes: object, what the server held for the page's first pull
          pressed, \* fingerprints ever ignored on each device, by the user's choice
          noticed, \* those that a load begun afterwards showed again
          spent

vars == <<db, page, server, head, floor, bad, welcome, pressed, noticed, spent>>

Devices == {DeviceOf[p] : p \in Pages}
NoRow == [rev |-> 0, ver |-> 0, ok |-> TRUE, queued |-> "none", base |-> 0, deleted |-> FALSE]
NoObject == [rev |-> 0, ver |-> 0, seq |-> 0, deleted |-> FALSE]
NoAnswer == [objects |-> {}, store |-> [o \in Objects |-> NoObject], cursor |-> 0]
Closed == [pc |-> "closed", rows |-> [o \in Objects |-> NoRow], docs |-> [o \in Objects |-> NoRow],
           failed |-> {}, ignored |-> {}, visible |-> {}, pressed |-> {}, pull |-> "none",
           reset |-> FALSE, answer |-> NoAnswer]

(* The device of the damaged rows already holds everything; a device that is
   new to the account holds nothing. *)
InitWith(rows, store) ==
  /\ server = [o \in Objects |-> IF o \in store THEN [NoObject EXCEPT !.rev = 1, !.ver = 1, !.seq = 1] ELSE NoObject]
  /\ db = [d \in Devices |->
       [rows |-> [o \in Objects |-> IF o \in store /\ d \in rows
          THEN [NoRow EXCEPT !.rev = 1, !.ver = 1, !.queued = IF o \in OldPurges THEN "purge" ELSE "none"] ELSE NoRow],
        cursor |-> IF d \in rows /\ store # {} THEN 1 ELSE 0, ignored |-> {}]]
  /\ head = (IF store = {} THEN 0 ELSE 1) /\ floor = 0
  /\ page = [p \in Pages |-> Closed]
  /\ bad = {} /\ welcome = {} /\ pressed = [d \in Devices |-> {}] /\ noticed = {}
  /\ spent = [versions |-> 1, faults |-> 0, failures |-> 0]

Init == \E rows \in SUBSET Devices, store \in SUBSET Objects : InitWith(rows, store)

D(p) == DeviceOf[p]
Stored(rows) == {o \in Objects : rows[o] # NoRow}
Fingerprint(o, rows) == <<o, rows[o].rev, rows[o].ver>>
LiveNotes(docs) == {o \in Objects \ Folders : docs[o] # NoRow /\ ~docs[o].deleted}
At(p, pc) == page[p].pc = pc

-----------------------------------------------------------------------------
(* The load. *)

(* Objects, outbox and ignored failures are read by transactions
   made at once; the user is shown a loading screen. *)
Open(p) ==
  /\ At(p, "closed")
  /\ page' = [page EXCEPT ![p] = [Closed EXCEPT !.pc = "opened", !.rows = db[D(p)].rows,
                                  !.ignored = db[D(p)].ignored, !.pressed = pressed[D(p)]]]
  /\ UNCHANGED <<db, server, head, floor, bad, welcome, pressed, noticed, spent>>

(* decryptAvailableLocalObjects: the records that could be decrypted. *)
Openable(p) == {o \in Stored(page[p].rows) : page[p].rows[o].ok}

Repairable(p) == {o \in Stored(page[p].rows) \ Openable(p) : Fingerprint(o, page[p].rows) \notin page[p].ignored}

(* A purge an earlier release queued has been dropped from pendingByKey, not
   from the array pendingContent counts. *)
MustVerify(p) ==
  \/ Repairable(p) # {} /\ \A o \in Repairable(p) : page[p].rows[o].queued # "upsert"
  \/ Stored(page[p].rows) = {}

(* Queued purges are dropped, what could be opened is shown, and the cursor is
   taken back when the server must be read from the start. *)
Show(p) ==
  /\ At(p, "opened")
  /\ LET opened == [o \in Objects |-> IF o \in Openable(p) THEN page[p].rows[o] ELSE NoRow]
     IN  page' = [page EXCEPT ![p].pc = "shown", ![p].docs = opened,
                              ![p].failed = Stored(page[p].rows) \ Openable(p),
                              ![p].reset = MustVerify(p)]
  /\ db' = [db EXCEPT ![D(p)].cursor = IF MustVerify(p) THEN 0 ELSE @,
                      ![D(p)].rows = [o \in Objects |->
                         IF @[o].queued = "purge" THEN [@[o] EXCEPT !.queued = "none"] ELSE @[o]]]
  /\ UNCHANGED <<server, head, floor, bad, welcome, pressed, noticed, spent>>

(* What a pull makes of one object: an entry queued over this revision goes on
   waiting, an identical or newer row stays, anything else is replaced. *)
Waits(row, object) == row.queued = "upsert" /\ row.base >= object.rev

Same(row, object) ==
  /\ row.queued = "none"
  /\ row.rev > object.rev \/ (row.ok /\ row.rev = object.rev /\ row.ver = object.ver)
Incoming(object) == [NoRow EXCEPT !.rev = object.rev, !.ver = object.ver, !.deleted = object.deleted]

(* The answer to a request: the objects changed after the cursor. *)
Answer(objects) == [objects |-> objects, store |-> server, cursor |-> head]
Changed(cursor) == {o \in Objects : server[o].seq > cursor}

(* The commit of an answer; what cannot be decrypted blocks the cursor. *)
Committed(d, answer) ==
  LET new     == {o \in answer.objects : /\ ~Same(db[d].rows[o], answer.store[o])
                                         /\ ~Waits(db[d].rows[o], answer.store[o])}
      blocked == {o \in new : answer.store[o].ver \in bad}
  IN  [complete |-> blocked = {},
       rows     |-> [o \in new \ blocked |-> Incoming(answer.store[o])],
       db       |-> [db EXCEPT ![d].rows = [o \in Objects |-> IF o \in new \ blocked THEN Incoming(answer.store[o]) ELSE @[o]],
                               ![d].cursor = IF blocked = {} THEN answer.cursor ELSE @]]

Published(p, rows) == [o \in Objects |-> IF o \in DOMAIN rows THEN rows[o] ELSE page[p].docs[o]]

(* The first pull's request; a server that reclaimed the changes answers reset,
   which is an error here. *)
Fetch(p) ==
  /\ At(p, "shown") /\ db[D(p)].cursor >= floor
  /\ page' = [page EXCEPT ![p].pc = "pulling", ![p].answer = Answer(Changed(db[D(p)].cursor))]
  /\ UNCHANGED <<db, server, head, floor, bad, welcome, pressed, noticed, spent>>

PullFails(p) ==
  /\ \/ At(p, "shown") /\ db[D(p)].cursor < floor /\ UNCHANGED spent
     \/ /\ page[p].pc \in {"shown", "pulling"} /\ spent.failures < MaxFailures
        /\ spent' = [spent EXCEPT !.failures = @ + 1]
  /\ page' = [page EXCEPT ![p].pc = "pulled", ![p].pull = "failed", ![p].answer = NoAnswer]
  /\ UNCHANGED <<db, server, head, floor, bad, welcome, pressed, noticed>>

Commit(p) ==
  /\ At(p, "pulling")
  /\ LET c == Committed(D(p), page[p].answer)
     IN  /\ db' = c.db
         /\ page' = [page EXCEPT ![p].pc = "pulled", ![p].pull = IF c.complete THEN "ok" ELSE "partial",
                                 ![p].docs = Published(p, c.rows)]
  /\ UNCHANGED <<server, head, floor, bad, welcome, pressed, noticed, spent>>

(* shouldCreateWelcomeNote, and no live note in memory. *)
CreatesWelcome(p) ==
  Stored(page[p].rows) = {} /\ page[p].pull = "ok" /\ LiveNotes(page[p].docs) = {}

Unused(o) == server[o] = NoObject /\ \A d \in Devices : db[d].rows[o] = NoRow

(* What the bounds leave for a new note. *)
Room == {o \in Objects \ Folders : Unused(o) /\ spent.versions < MaxVersions}

Welcome(p) ==
  /\ At(p, "pulled") /\ CreatesWelcome(p)
  /\ \E o \in Room :
       /\ LET row == [NoRow EXCEPT !.rev = 1, !.ver = spent.versions + 1, !.queued = "upsert"]
          IN  /\ db' = [db EXCEPT ![D(p)].rows[o] = row]
              /\ page' = [page EXCEPT ![p].pc = "welcomed", ![p].docs[o] = row]
       /\ welcome' = welcome \cup {[note |-> o, listed |-> IF page[p].pull = "ok" THEN page[p].answer.store ELSE server]}
  /\ spent' = [spent EXCEPT !.versions = @ + 1]
  /\ UNCHANGED <<server, head, floor, bad, pressed, noticed>>

(* Failures that are neither repaired nor ignored: the notice offers to ignore
   them. *)
Visible(p) == {Fingerprint(o, page[p].rows) : o \in {x \in page[p].failed : page[p].docs[x] = NoRow}} \ page[p].ignored

Finish(p) ==
  /\ At(p, "welcomed") \/ (At(p, "pulled") /\ (~CreatesWelcome(p) \/ Room = {}))
  /\ page' = [page EXCEPT ![p].pc = "ready", ![p].visible = Visible(p),
                          ![p].answer = NoAnswer]
  /\ noticed' = noticed \cup (Visible(p) \cap page[p].pressed)
  /\ UNCHANGED <<db, server, head, floor, bad, welcome, pressed, spent>>

-----------------------------------------------------------------------------
(* The workspace afterwards. *)

(* The notice's action writes the fingerprints this page knew, and its own. *)
Ignore(p) ==
  /\ Ignores /\ At(p, "ready") /\ page[p].visible # {}
  /\ db' = [db EXCEPT ![D(p)].ignored = page[p].ignored \cup page[p].visible]
  /\ pressed' = [pressed EXCEPT ![D(p)] = @ \cup page[p].visible]
  /\ page' = [page EXCEPT ![p].visible = {}]
  /\ UNCHANGED <<server, head, floor, bad, welcome, noticed, spent>>

(* A save takes its base from the entry it replaces, or from the row. *)
Edit(p, o) ==
  /\ At(p, "ready") /\ page[p].docs[o] # NoRow /\ spent.versions < MaxVersions
  /\ LET row  == db[D(p)].rows[o]
         base == IF row.queued = "upsert" THEN row.base ELSE row.rev
         next == [row EXCEPT !.rev = base + 1, !.ver = spent.versions + 1, !.ok = TRUE,
                             !.queued = "upsert", !.base = base]
     IN  /\ db' = [db EXCEPT ![D(p)].rows[o] = next]
         /\ page' = [page EXCEPT ![p].docs[o] = next]
  /\ spent' = [spent EXCEPT !.versions = @ + 1]
  /\ UNCHANGED <<server, head, floor, bad, welcome, pressed, noticed>>

(* One entry accepted; its row keeps what it held. *)
Push(p, o) ==
  /\ At(p, "ready")
  /\ LET row == db[D(p)].rows[o]
     IN  /\ row.queued = "upsert" /\ row.base = server[o].rev
         /\ server' = [server EXCEPT ![o] = [rev |-> row.base + 1, ver |-> row.ver, seq |-> head + 1, deleted |-> row.deleted]]
         /\ db' = [db EXCEPT ![D(p)].rows[o] = [row EXCEPT !.queued = "none", !.base = 0]]
  /\ head' = head + 1
  /\ UNCHANGED <<page, floor, bad, welcome, pressed, noticed, spent>>

(* A synchronization under the lock of the device: reconciliation when the
   cursor is behind the floor, or the changes after it. *)
Pull(p) ==
  /\ At(p, "ready")
  /\ LET cursor == IF db[D(p)].cursor < floor THEN 0 ELSE db[D(p)].cursor
         c      == Committed(D(p), Answer(Changed(cursor)))
     IN  /\ c.db # db /\ db' = c.db
         /\ page' = [page EXCEPT ![p].docs = Published(p, c.rows)]
  /\ UNCHANGED <<server, head, floor, bad, welcome, pressed, noticed, spent>>

(* A reload, a lock or a closed tab; during the load, an interrupted load. *)
Leave(p) ==
  /\ ~At(p, "closed")
  /\ IF At(p, "ready") THEN UNCHANGED spent
     ELSE spent.failures < MaxFailures /\ spent' = [spent EXCEPT !.failures = @ + 1]
  /\ page' = [page EXCEPT ![p] = Closed]
  /\ UNCHANGED <<db, server, head, floor, bad, welcome, pressed, noticed>>

-----------------------------------------------------------------------------
(* Surroundings. *)

(* Another device, of any version; unreadable when it is damaged itself. *)
OtherDevice(o, deleted, readable) ==
  /\ spent.versions < MaxVersions /\ (readable \/ spent.faults < MaxFaults)
  /\ \A d \in Devices : db[d].rows[o].queued = "none" \/ db[d].rows[o].base > 0
  /\ server' = [server EXCEPT ![o] = [rev |-> @.rev + 1, ver |-> spent.versions + 1, seq |-> head + 1, deleted |-> deleted]]
  /\ head' = head + 1
  /\ bad' = IF readable THEN bad ELSE bad \cup {spent.versions + 1}
  /\ spent' = [spent EXCEPT !.versions = @ + 1, !.faults = IF readable THEN @ ELSE @ + 1]
  /\ UNCHANGED <<db, page, floor, welcome, pressed, noticed>>

(* A ciphertext of the local database does not decrypt any more. *)
Damage(d, o) ==
  /\ db[d].rows[o] # NoRow /\ db[d].rows[o].ok /\ spent.faults < MaxFaults
  /\ db' = [db EXCEPT ![d].rows[o].ok = FALSE]
  /\ spent' = [spent EXCEPT !.faults = @ + 1]
  /\ UNCHANGED <<page, server, head, floor, bad, welcome, pressed, noticed>>

(* The server reclaims its change feed. *)
Reclaim ==
  /\ floor < head
  /\ floor' = head
  /\ UNCHANGED <<db, page, server, head, bad, welcome, pressed, noticed, spent>>

LoadStep(p) == Open(p) \/ Show(p) \/ Fetch(p) \/ PullFails(p) \/ Commit(p) \/ Welcome(p) \/ Finish(p)

Next ==
  \/ \E p \in Pages : LoadStep(p) \/ Ignore(p) \/ Pull(p) \/ Leave(p)
  \/ \E p \in Pages, o \in Objects : Edit(p, o) \/ Push(p, o)
  \/ \E o \in Objects, deleted, readable \in BOOLEAN : OtherDevice(o, deleted, readable)
  \/ \E d \in Devices, o \in Objects : Damage(d, o)
  \/ Reclaim

(* Promises go on, the network recovers, and the workspace is opened again and
   again, and left open long enough to synchronize. *)
Fairness ==
  \A p \in Pages : /\ WF_vars(LoadStep(p)) /\ WF_vars(At(p, "ready") /\ Leave(p))
                   /\ SF_vars(Pull(p)) /\ \A o \in Objects : SF_vars(Push(p, o))

Spec == Init /\ [][Next]_vars
LiveSpec == Spec /\ Fairness

-----------------------------------------------------------------------------
Rows == [rev : Nat, ver : 0..MaxVersions, ok : BOOLEAN, queued : {"none", "upsert", "purge"}, base : Nat, deleted : BOOLEAN]

(* Types. *)
VaultLoadingTypeOK ==
  /\ \A d \in Devices : db[d].rows \in [Objects -> Rows] /\ db[d].cursor \in 0..head
  /\ \A p \in Pages : /\ page[p].docs \in [Objects -> Rows] /\ page[p].failed \subseteq Objects
                      /\ page[p].pc \in {"closed", "opened", "shown", "pulling", "pulled", "welcomed", "ready"}
  /\ floor \in 0..head /\ \A o \in Objects : server[o].seq \in 0..head

(* "One damaged/stale ciphertext must never make the entire vault look empty"
   (useVaultLoad.ts:107): what could be opened is in the tree however the rest of
   the load goes. *)
ReadableRowsShown ==
  \A p \in Pages : page[p].pc \notin {"closed", "opened"} =>
    \A o \in Stored(page[p].rows) : page[p].rows[o].ok => page[p].docs[o] # NoRow

(* A load that reads the server from the start leaves nothing of what the server
   listed out of the tree: records set aside are fetched again, also when the
   previous load was interrupted after taking the cursor back, when a pull of the
   same device was under way, and when the feed was reclaimed (useVaultLoad.ts:
   mustVerifyServerFromStart). *)
VerifiedLoadComplete ==
  \A p \in Pages : At(p, "pulled") /\ page[p].pull = "ok" /\ page[p].reset =>
    \A o \in Objects : page[p].answer.store[o] # NoObject => page[p].docs[o] # NoRow

(* A welcome note is never put beside notes the account already has: not after a
   first pull that failed or was incomplete, and not while a record of the device
   is queued or set aside. *)
WelcomeNotBesideNotes ==
  \A w \in welcome : \A o \in Objects \ Folders : w.listed[o] = NoObject \/ w.listed[o].deleted

(* "creates a welcome note only after a verified successful empty-server pull"
   (vaultLoad.test.ts:75). *)
WelcomeOnlyAfterEmptyPull == \A w \in welcome : \A o \in Objects : w.listed[o] = NoObject

(* "Do not show this version again" (i18n/index.tsx:760): a version the user once
   ignored on a device is not shown again by a later load. *)
IgnoredStaysIgnored == noticed = {}

(* A damaged row of which the server has a readable version is readable again in
   the end, entries queued by damaged rows, conflicts, interrupted loads and a
   reclaimed feed notwithstanding, if nobody ignores it. *)
DamageRepaired ==
  \A d \in Devices, o \in Objects :
    (~db[d].rows[o].ok /\ server[o] # NoObject) ~> (db[d].rows[o].ok \/ server[o].ver \in bad)

(* A load never hides what it could read, never leaves out what the server listed,
   never adds a welcome note beside notes, and never shows again what was ignored. *)
LoadingSafe == /\ VaultLoadingTypeOK /\ ReadableRowsShown /\ VerifiedLoadComplete
               /\ WelcomeNotBesideNotes /\ IgnoredStaysIgnored
==============================================================================
