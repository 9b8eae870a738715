---------------------------- MODULE MCAttachments -----------------------------
(*****************************************************************************)
(* The attachments of notes: uploading them before their note                *)
(* (AttachmentUploads), reclaiming those nothing refers to                   *)
(* (AttachmentReclaim), showing them in the editor (AttachmentUrls) and      *)
(* reading and copying their sealed chunks (AttachmentSealing). A behaviour  *)
(* is about one of them, its part.                                           *)
(*****************************************************************************)
EXTENDS AttachmentUploads, TLC, FiniteSetTheorems, SequenceTheorems, WellFoundedInduction, TLAPS

CONSTANTS Parts,
          Clients, Collectors, Owned,          \* as in AttachmentReclaim:
          Versions, Grace, Legacy,             \* its Devices, Collectors, Attachments,
          MaxDays, MaxRecorded,                \* MaxClock and MaxChanges
          Images, Shows, MaxShown,             \* as in AttachmentUrls: its Attachments,
                                               \* Refs and MaxChanges
          Data, ChunkSize, Copies, Browser,    \* as in AttachmentSealing
          MaxFaults,
          None

VARIABLES part,
          day, referring, history, held, owned, complete, hv, ov, head, gc,
          change, shot, pass, since,
          state, view, network, mounted, rendered, runs, cache, urls, resolved,
          alive, readable, pins, unread, changes,
          known, rows, remote, online, open, objects, notes, jobs, answer,
          faults

(* One image fills a chunk and a half of another, one is just two chunks. *)
TwoImages == << <<7, 8, 9>>, <<7, 8, 7, 8>> >>
(* One note with two images, and one with one of them. *)
TwoNotes == << {1, 2}, {2} >>

Collector == INSTANCE AttachmentReclaim WITH
    Devices <- Clients, Attachments <- Owned,
    MaxClock <- MaxDays, MaxChanges <- MaxRecorded,
    clock <- day, note <- referring, edit <- change
Editor == INSTANCE AttachmentUrls WITH
    Attachments <- Images, Refs <- Shows, MaxChanges <- MaxShown,
    stored <- readable
Sealing == INSTANCE AttachmentSealing

ASSUME AttachmentConstants ==
    /\ Collector!ReclaimConstants
    /\ Editor!UrlConstants
    /\ Sealing!SealingConstants

reclaimVars == <<day, referring, history, held, owned, complete, hv, ov, head,
                 gc, change, shot, pass, since>>
urlsVars == <<state, view, network, mounted, rendered, runs, cache, urls,
              resolved, alive, readable, pins, unread, changes>>
sealingVars == <<known, rows, remote, online, open, objects, notes, jobs,
                 answer, faults>>
everything == <<part, vars, reclaimVars, urlsVars, sealingVars>>

(* Only component p moves; the others stay where they began.               *)
Only(p) ==
    /\ part = p /\ UNCHANGED part
    /\ IF p \in {"uploads", "prompt"} THEN TRUE ELSE UNCHANGED vars
    /\ IF p = "reclaim" THEN TRUE ELSE UNCHANGED reclaimVars
    /\ IF p = "urls" THEN TRUE ELSE UNCHANGED urlsVars
    /\ IF p = "sealing" THEN TRUE ELSE UNCHANGED sealingVars

RootInit ==
    /\ part \in Parts /\ Init /\ Collector!Init /\ Editor!Init /\ Sealing!Init
    /\ part # "urls" => view = 1

UploadsStep == Only("uploads") /\ Next
PromptStep == Only("prompt") /\ Next /\ (Tick => ~Halfway)
ReclaimStep == Only("reclaim") /\ Collector!Next
UrlsStep == Only("urls") /\ Editor!Next
SealingStep == Only("sealing") /\ Sealing!Next

RootNext == UploadsStep \/ PromptStep \/ ReclaimStep \/ UrlsStep
            \/ SealingStep

RootSpec == RootInit /\ [][RootNext]_everything

(*****************************************************************************)
(* AttachmentUploads, AttachmentReclaim: what the note or its history refers *)
(* to is there. While no upload is held up for a week, every chunk of an     *)
(* attachment the note refers to is on the server or on a device (cache.ts); *)
(* what the collector removes is referred to by nothing                      *)
(* (server/attachments); what is on screen is alive and current              *)
(* (AttachmentUrls, useAttachmentUrls.ts); and a copy is whole or leaves     *)
(* nothing (AttachmentSealing, attachmentClone.ts).                          *)
(*****************************************************************************)
AttachmentsKept ==
  /\ part = "prompt" => BytesKept
  /\ Collector!ReferencesResolve
  /\ Editor!UrlsSafe /\ Sealing!CopiesSafe

(*****************************************************************************)
(* What may go, and when: an attachment goes only after the days of grace in *)
(* which nothing referred to it (AttachmentReclaim), what is on screen stays *)
(* in the cache (AttachmentUrls, cache.ts), and a copy without all its       *)
(* attachments is saved only if it was asked for (AttachmentSealing,         *)
(* attachmentClone.ts).                                                      *)
(*****************************************************************************)
NothingGoesEarly ==
  Collector!GraceKept /\ Editor!ShownStays /\ Sealing!NoneMissingUnasked

(* The devices and the attachments are each interchangeable.                 *)
Alike == Permutations(Devices) \cup Permutations(Attachments)

-----------------------------------------------------------------------------
(* UploadsSafe holds in every reachable state: the inductive invariant is that *)
(* whatever a device holds as uploaded, and whatever its snapshot still        *)
(* carries, has arrived or is about to, unless the note is purged.             *)

(* The functions and records the variables are made of. *)
NoteShaped ==
  /\ DOMAIN note = {"state", "rev", "refs"}
  /\ note.state \in {"live", "purged"} /\ note.refs \subseteq Attachments
ServerShaped ==
  /\ owners \subseteq Attachments
  /\ DOMAIN stored = Attachments /\ \A a \in Attachments : DOMAIN stored[a] \subseteq Chunks
  /\ manifest \in [Attachments -> {"none", "live", "purged"}]
LocalShaped ==
  /\ DOMAIN local = Devices
  /\ \A d \in Devices :
       /\ DOMAIN local[d] = {"refs", "base", "dirty", "cached", "out", "object"}
       /\ local[d].refs \subseteq Attachments
       /\ DOMAIN local[d].cached = Attachments
       /\ local[d].out \in [Attachments -> SUBSET Chunks]
       /\ local[d].object \in [Attachments -> {"none", "pending", "synced"}]
PushShaped ==
  /\ DOMAIN push = Devices
  /\ \A d \in Devices :
       /\ DOMAIN push[d] = {"on", "chunks", "manifests", "note", "refs", "base"}
       /\ push[d].refs \subseteq Attachments

Arrived(a) == manifest[a] = "live" \/ note.state = "purged"

OutIsCached == \A d \in Devices, a \in Attachments : local[d].out[a] \subseteq local[d].cached[a]
ChunksOwned == \A a \in Attachments : DOMAIN stored[a] # {} => a \in owners
SyncedArrived == \A d \in Devices, a \in Attachments : local[d].object[a] = "synced" => Arrived(a)
RefsUploaded == \A d \in Devices : \A a \in local[d].refs : local[d].object[a] = "pending" \/ Arrived(a)
PushCarries == \A d \in Devices : \A a \in push[d].refs : a \in push[d].manifests \/ Arrived(a)

IInv == /\ NoteShaped /\ ServerShaped /\ LocalShaped /\ PushShaped
        /\ OutIsCached /\ ChunksOwned /\ SyncedArrived /\ RefsUploaded /\ PushCarries
        /\ NoteAfterManifests /\ PurgedStaysEmpty

LEMMA InitHolds == Init => IInv
<1> SUFFICES ASSUME Init PROVE IInv
  OBVIOUS
<1>1. NoteShaped /\ ServerShaped
  BY DEF Init, ServerShaped, NoteShaped
<1>2. LocalShaped
  BY DEF Init, LocalShaped, NoLocal
<1>3. PushShaped
  BY DEF Init, PushShaped, NoPush
<1>4. OutIsCached /\ SyncedArrived /\ RefsUploaded
  BY DEF Init, OutIsCached, SyncedArrived, RefsUploaded, NoLocal
<1>5. ChunksOwned
  BY DEF Init, ChunksOwned
<1>6. PushCarries
  BY DEF Init, PushCarries, NoPush
<1>7. NoteAfterManifests /\ PurgedStaysEmpty
  BY DEF Init, NoteAfterManifests, PurgedStaysEmpty
<1> QED
  BY <1>1, <1>2, <1>3, <1>4, <1>5, <1>6, <1>7 DEF IInv

(* Only these steps change the server. *)
LEMMA ServerSteps ==
    ASSUME Next
    PROVE  \/ UNCHANGED <<note, stored, manifest, owners>>
           \/ \E d \in Devices, a \in Attachments : PutManifest(d, a)
           \/ \E d \in Devices, a \in Attachments, i \in Chunks : PutChunk(d, a, i)
           \/ \E d \in Devices : PutNote(d)
           \/ CleanupChunks \/ CleanupOwners \/ Purge
<1>1. ASSUME NEW d \in Devices, NEW a \in Attachments, Create(d, a) \/ Download(d, a) \/ Evict(d, a)
      PROVE  UNCHANGED <<note, stored, manifest, owners>>
  BY <1>1 DEF Create, Download, Evict
<1>2. ASSUME NEW d \in Devices, NEW refs \in SUBSET Attachments, EditNote(d, refs)
      PROVE  UNCHANGED <<note, stored, manifest, owners>>
  BY <1>2 DEF EditNote
<1>3. ASSUME NEW d \in Devices, Snapshot(d) \/ EndPush(d) \/ Stop(d) \/ Pull(d)
      PROVE  UNCHANGED <<note, stored, manifest, owners>>
  BY <1>3 DEF Snapshot, EndPush, Stop, Pull
<1>4. CASE Tick
  BY <1>4 DEF Tick
<1> QED
  BY <1>1, <1>2, <1>3, <1>4 DEF Next, DeviceStep

(* What the server holds keeps its shape. *)
LEMMA ServerStaysShaped == ASSUME IInv, Next PROVE ServerShaped' /\ NoteShaped'
<1> USE DEF IInv, ServerShaped, NoteShaped
<1>1. CASE UNCHANGED <<note, stored, manifest, owners>>
  BY <1>1
<1>2. ASSUME NEW d \in Devices, NEW a \in Attachments, NEW i \in Chunks, PutChunk(d, a, i)
      PROVE  ServerShaped' /\ NoteShaped'
  BY <1>2 DEF PutChunk
<1>3. ASSUME NEW d \in Devices, NEW a \in Attachments, PutManifest(d, a)
      PROVE  ServerShaped' /\ NoteShaped'
  BY <1>3 DEF PutManifest
<1>4. ASSUME NEW d \in Devices, PutNote(d) PROVE ServerShaped' /\ NoteShaped'
  <2>1. push[d].refs \subseteq Attachments
    BY DEF PushShaped
  <2>2. UNCHANGED <<stored, manifest, owners>>
    BY <1>4 DEF PutNote
  <2>3. \/ UNCHANGED note
        \/ note' = [note EXCEPT !.rev = @ + 1, !.refs = push[d].refs]
    BY <1>4 DEF PutNote
  <2> QED
    BY <2>1, <2>2, <2>3
<1>5. CASE CleanupChunks
  BY <1>5 DEF CleanupChunks
<1>6. CASE CleanupOwners
  BY <1>6 DEF CleanupOwners
<1>7. CASE Purge
  <2>1. NoteShaped' /\ owners' \subseteq Attachments
    BY <1>7 DEF Purge
  <2>2. manifest' \in [Attachments -> {"none", "live", "purged"}]
    BY <1>7 DEF Purge
  <2>3. DOMAIN stored' = Attachments
    BY <1>7 DEF Purge
  <2>4. \A a \in Attachments :
          stored'[a] = IF a \in owners THEN [i \in {} |-> 0] ELSE stored[a]
    BY <1>7 DEF Purge
  <2>5. \A a \in Attachments : DOMAIN stored'[a] \subseteq Chunks
    BY <2>4
  <2> QED
    BY <2>1, <2>2, <2>3, <2>5
<1> QED
  BY <1>1, <1>2, <1>3, <1>4, <1>5, <1>6, <1>7, ServerSteps

(* Only these steps change a device, or what it pushes. *)
LEMMA LocalSteps ==
    ASSUME Next
    PROVE  \/ UNCHANGED local
           \/ \E d \in Devices, a \in Attachments :
                Create(d, a) \/ PutManifest(d, a) \/ Download(d, a) \/ Evict(d, a)
           \/ \E d \in Devices, a \in Attachments, i \in Chunks : PutChunk(d, a, i)
           \/ \E d \in Devices, refs \in SUBSET Attachments : EditNote(d, refs)
           \/ \E d \in Devices : PutNote(d) \/ Pull(d)
<1>1. ASSUME NEW d \in Devices, Snapshot(d) \/ EndPush(d) \/ Stop(d) PROVE UNCHANGED local
  BY <1>1 DEF Snapshot, EndPush, Stop
<1>2. CASE CleanupChunks \/ CleanupOwners \/ Purge \/ Tick
  BY <1>2 DEF CleanupChunks, CleanupOwners, Purge, Tick
<1> QED
  BY <1>1, <1>2 DEF Next, DeviceStep

LEMMA PushSteps ==
    ASSUME Next
    PROVE  \/ UNCHANGED push
           \/ \E d \in Devices : Abort(d) \/ Snapshot(d)
           \/ \E d \in Devices, a \in Attachments : PutManifest(d, a)
           \/ \E d \in Devices, a \in Attachments, i \in Chunks : PutChunk(d, a, i)
<1>1. ASSUME NEW d \in Devices, NEW a \in Attachments, Create(d, a) \/ Download(d, a) \/ Evict(d, a)
      PROVE  UNCHANGED push
  BY <1>1 DEF Create, Download, Evict
<1>2. ASSUME NEW d \in Devices, NEW refs \in SUBSET Attachments, EditNote(d, refs)
      PROVE  UNCHANGED push
  BY <1>2 DEF EditNote
<1>3. ASSUME NEW d \in Devices, PutNote(d) \/ EndPush(d) \/ Stop(d) PROVE Abort(d)
  BY <1>3 DEF PutNote, EndPush, Stop, Lose
<1>4. ASSUME NEW d \in Devices, Pull(d) PROVE UNCHANGED push
  BY <1>4 DEF Pull
<1>5. CASE CleanupChunks \/ CleanupOwners \/ Purge \/ Tick
  BY <1>5 DEF CleanupChunks, CleanupOwners, Purge, Tick
<1> QED
  BY <1>1, <1>2, <1>3, <1>4, <1>5 DEF Next, DeviceStep

(* A pull empties the device, or brings what the server has. *)
LEMMA PullEffect ==
    ASSUME IInv, NEW d \in Devices, Pull(d)
    PROVE  /\ DOMAIN local' = Devices
           /\ \A e \in Devices \ {d} : local'[e] = local[e]
           /\ DOMAIN local'[d] = DOMAIN local[d]
           /\ DOMAIN local'[d].cached = Attachments /\ DOMAIN local'[d].out = Attachments
           /\ \A a \in Attachments : \/ local'[d].out[a] = {}
                                     \/ /\ local'[d].out[a] = local[d].out[a]
                                        /\ local'[d].cached[a] = local[d].cached[a]
           /\ local'[d].out \in [Attachments -> SUBSET Chunks]
           /\ local'[d].object \in [Attachments -> {"none", "pending", "synced"}]
           /\ \/ local'[d].refs = {}
              \/ local'[d].refs \in {local[d].refs, note.refs}
           /\ \A a \in Attachments :
                \/ note.state = "purged"
                \/ local'[d].object[a] = local[d].object[a]
                \/ /\ manifest[a] = "live" /\ local'[d].object[a] = "synced"
           /\ note.state = "purged" => local'[d].refs = {}
           /\ UNCHANGED <<note, manifest>>
           /\ note.state # "purged" => local'[d].out = local[d].out
<1> USE DEF IInv, LocalShaped
<1>1. CASE note.state = "purged"
  <2>1. local' = [local EXCEPT ![d] = [NoLocal EXCEPT !.base = note.rev]]
    BY <1>1 DEF Pull
  <2>2. /\ local'[d] = [NoLocal EXCEPT !.base = note.rev]
        /\ DOMAIN local' = Devices /\ \A e \in Devices \ {d} : local'[e] = local[e]
    BY <2>1
  <2>3. /\ DOMAIN local'[d] = DOMAIN local[d] /\ local'[d].refs = {}
        /\ local'[d].cached = [a \in Attachments |-> {}]
        /\ local'[d].out = [a \in Attachments |-> {}]
        /\ local'[d].object = [a \in Attachments |-> "none"]
    BY <2>2 DEF NoLocal
  <2>4. UNCHANGED <<note, manifest>>
    BY DEF Pull
  <2> QED
    BY <1>1, <2>2, <2>3, <2>4
<1>2. CASE note.state # "purged"
  <2>1. PICK o : o = [a \in Attachments |->
          IF manifest[a] = "live" /\ local[d].object[a] = "none" THEN "synced"
          ELSE local[d].object[a]]
    OBVIOUS
  <2>2. PICK r : r = IF local[d].dirty THEN local[d].refs ELSE note.refs
    OBVIOUS
  <2>3. PICK b : b = IF local[d].dirty THEN local[d].base ELSE note.rev
    OBVIOUS
  <2>4. local' = [local EXCEPT ![d].object = o, ![d].refs = r, ![d].base = b]
    BY <1>2, <2>1, <2>2, <2>3 DEF Pull
  <2>5. o \in [Attachments -> {"none", "pending", "synced"}]
    BY <2>1
  <2>6. local'[d] = [local[d] EXCEPT !.object = o, !.refs = r, !.base = b]
    BY <2>4
  <2>7. DOMAIN local' = Devices /\ \A e \in Devices \ {d} : local'[e] = local[e]
    BY <2>4
  <2>8. /\ DOMAIN local'[d] = DOMAIN local[d] /\ local'[d].refs = r /\ local'[d].object = o
        /\ local'[d].cached = local[d].cached /\ local'[d].out = local[d].out
    BY <2>6
  <2>9. r \in {local[d].refs, note.refs}
    BY <2>2
  <2>10. \A a \in Attachments : \/ o[a] = local[d].object[a]
                                \/ manifest[a] = "live" /\ o[a] = "synced"
    BY <2>1
  <2>11. UNCHANGED <<note, manifest>>
    BY DEF Pull
  <2> QED
    BY <1>2, <2>5, <2>7, <2>8, <2>9, <2>10, <2>11
<1> QED
  BY <1>1, <1>2

(* What a device keeps, and what it pushes, keep their shapes. *)
LEMMA LocalStaysShaped == ASSUME IInv, Next PROVE LocalShaped'
<1> USE DEF IInv, LocalShaped
<1>1. CASE UNCHANGED local
  BY <1>1
<1>2. ASSUME NEW d \in Devices, NEW a \in Attachments, Create(d, a) PROVE LocalShaped'
  BY <1>2 DEF Create
<1>3. ASSUME NEW d \in Devices, NEW a \in Attachments,
             PutManifest(d, a) \/ Download(d, a) \/ Evict(d, a)
      PROVE  LocalShaped'
  BY <1>3 DEF PutManifest, Download, Evict
<1>4. ASSUME NEW d \in Devices, NEW a \in Attachments, NEW i \in Chunks, PutChunk(d, a, i)
      PROVE  LocalShaped'
  BY <1>4 DEF PutChunk, Answered
<1>5. ASSUME NEW d \in Devices, NEW refs \in SUBSET Attachments, EditNote(d, refs)
      PROVE  LocalShaped'
  BY <1>5 DEF EditNote
<1>6. ASSUME NEW d \in Devices, PutNote(d) PROVE LocalShaped'
  BY <1>6 DEF PutNote, NoteShaped
<1>7. ASSUME NEW d \in Devices, Pull(d) PROVE LocalShaped'
  BY <1>7, PullEffect DEF NoteShaped
<1> QED
  BY <1>1, <1>2, <1>3, <1>4, <1>5, <1>6, <1>7, LocalSteps

LEMMA PushStaysShaped == ASSUME IInv, Next PROVE PushShaped'
<1> USE DEF IInv, PushShaped
<1>2. CASE UNCHANGED push
  BY <1>2
<1>3. ASSUME NEW d \in Devices, Abort(d) PROVE PushShaped'
  BY <1>3 DEF Abort, NoPush
<1>4. ASSUME NEW d \in Devices, Snapshot(d) PROVE PushShaped'
  BY <1>4 DEF Snapshot, LocalShaped
<1>5. ASSUME NEW d \in Devices, NEW a \in Attachments, NEW i \in Chunks, PutChunk(d, a, i)
      PROVE  PushShaped'
  BY <1>3, <1>5 DEF PutChunk, Answered, Lose
<1>6. ASSUME NEW d \in Devices, NEW a \in Attachments, PutManifest(d, a) PROVE PushShaped'
  BY <1>3, <1>6 DEF PutManifest, Lose
<1> QED
  BY <1>2, <1>3, <1>4, <1>5, <1>6, PushSteps

(* What has arrived stays, or the note is purged. *)
LEMMA ArrivedStays ==
    ASSUME IInv, Next, NEW a \in Attachments, Arrived(a)
    PROVE  Arrived(a)'
<1> USE DEF IInv, ServerShaped, NoteShaped, Arrived
<1>1. CASE UNCHANGED <<note, manifest>>
  BY <1>1
<1>2. ASSUME NEW d \in Devices, NEW b \in Attachments, PutManifest(d, b) PROVE Arrived(a)'
  BY <1>2 DEF PutManifest
<1>3. ASSUME NEW d \in Devices, PutNote(d) PROVE Arrived(a)'
  BY <1>3 DEF PutNote
<1>4. CASE Purge
  BY <1>4 DEF Purge
<1> QED
  BY <1>1, <1>2, <1>3, <1>4, ServerSteps DEF PutChunk, CleanupChunks, CleanupOwners

(* Every chunk the server keeps has an owner, who keeps it until the note goes. *)
LEMMA ChunksStayOwned == ASSUME IInv, Next PROVE ChunksOwned'
<1> USE DEF IInv, ServerShaped, ChunksOwned
<1>1. CASE UNCHANGED <<stored, owners>>
  BY <1>1
<1>2. ASSUME NEW d \in Devices, NEW b \in Attachments, PutManifest(d, b) PROVE ChunksOwned'
  BY <1>2 DEF PutManifest
<1>3. ASSUME NEW d \in Devices, NEW b \in Attachments, NEW i \in Chunks, PutChunk(d, b, i)
      PROVE  ChunksOwned'
  BY <1>3 DEF PutChunk
<1>4. CASE Purge
  <2>1. \A a \in Attachments :
          stored'[a] = IF a \in owners THEN [i \in {} |-> 0] ELSE stored[a]
    BY <1>4 DEF Purge
  <2> QED
    BY <2>1
<1>5. CASE CleanupChunks
  BY <1>5 DEF CleanupChunks
<1>6. CASE CleanupOwners
  BY <1>6 DEF CleanupOwners
<1> QED
  BY <1>1, <1>2, <1>3, <1>4, <1>5, <1>6, ServerSteps DEF PutNote

(* A purged note leaves nothing, and nothing comes back. *)
LEMMA PurgedNotesStayEmpty == ASSUME IInv, Next PROVE PurgedStaysEmpty'
<1> USE DEF IInv, ServerShaped, NoteShaped, PurgedStaysEmpty, ChunksOwned
<1>1. CASE UNCHANGED <<note, stored, manifest, owners>>
  BY <1>1
<1>2. ASSUME NEW d \in Devices, NEW a \in Attachments, PutManifest(d, a) PROVE PurgedStaysEmpty'
  BY <1>2 DEF PutManifest
<1>3. ASSUME NEW d \in Devices, NEW a \in Attachments, NEW i \in Chunks, PutChunk(d, a, i)
      PROVE  PurgedStaysEmpty'
  BY <1>3 DEF PutChunk
<1>4. ASSUME NEW d \in Devices, PutNote(d) PROVE PurgedStaysEmpty'
  BY <1>4 DEF PutNote
<1>5. CASE CleanupChunks
  BY <1>5 DEF CleanupChunks
<1>6. CASE CleanupOwners
  BY <1>6 DEF CleanupOwners
<1>7. CASE Purge
  <2>1. \A a \in Attachments :
          /\ stored'[a] = IF a \in owners THEN [i \in {} |-> 0] ELSE stored[a]
          /\ manifest'[a] # "live" /\ owners' = {}
    BY <1>7 DEF Purge
  <2> QED
    BY <1>7, <2>1 DEF Purge
<1> QED
  BY <1>1, <1>2, <1>3, <1>4, <1>5, <1>6, <1>7, ServerSteps

(* The server's note is what a push carried, whose attachments have arrived. *)
LEMMA NotesStayAfterManifests == ASSUME IInv, Next PROVE NoteAfterManifests'
<1> USE DEF IInv, ServerShaped, NoteShaped, NoteAfterManifests
<1>1. CASE UNCHANGED <<note, manifest>>
  BY <1>1
<1>2. ASSUME NEW d \in Devices, NEW a \in Attachments, PutManifest(d, a) PROVE NoteAfterManifests'
  BY <1>2 DEF PutManifest
<1>3. ASSUME NEW d \in Devices, PutNote(d) PROVE NoteAfterManifests'
  <2>1. CASE UNCHANGED note
    BY <1>3, <2>1 DEF PutNote
  <2>2. CASE note.state = "live" /\ note'.refs = push[d].refs
    BY <1>3, <2>2 DEF PutNote, PushCarries, Arrived, PushShaped
  <2> QED
    BY <1>3, <2>1, <2>2 DEF PutNote
<1>4. CASE Purge
  BY <1>4 DEF Purge
<1> QED
  BY <1>1, <1>2, <1>3, <1>4, ServerSteps DEF PutChunk, CleanupChunks, CleanupOwners

(* What waits for its upload stays in the cache. *)
LEMMA OutStaysCached == ASSUME IInv, Next PROVE OutIsCached'
<1> USE DEF IInv, LocalShaped, OutIsCached
<1>1. CASE UNCHANGED local
  BY <1>1
<1>2. ASSUME NEW d \in Devices, NEW a \in Attachments, Create(d, a) PROVE OutIsCached'
  BY <1>2 DEF Create
<1>3. ASSUME NEW d \in Devices, NEW a \in Attachments, PutManifest(d, a) PROVE OutIsCached'
  BY <1>3 DEF PutManifest
<1>4. ASSUME NEW d \in Devices, NEW a \in Attachments, NEW i \in Chunks, PutChunk(d, a, i)
      PROVE  OutIsCached'
  BY <1>4 DEF PutChunk, Answered
<1>5. ASSUME NEW d \in Devices, NEW refs \in SUBSET Attachments, EditNote(d, refs)
      PROVE  OutIsCached'
  BY <1>5 DEF EditNote
<1>6. ASSUME NEW d \in Devices, PutNote(d) PROVE OutIsCached'
  <2>1. \A e \in Devices : local'[e].out = local[e].out /\ local'[e].cached = local[e].cached
    BY <1>6 DEF PutNote
  <2> QED
    BY <2>1
<1>7. ASSUME NEW d \in Devices, NEW a \in Attachments, Download(d, a) PROVE OutIsCached'
  BY <1>7 DEF Download
<1>8. ASSUME NEW d \in Devices, NEW a \in Attachments, Evict(d, a) PROVE OutIsCached'
  BY <1>8 DEF Evict
<1>9. ASSUME NEW d \in Devices, Pull(d) PROVE OutIsCached'
  BY <1>9, PullEffect
<1> QED
  BY <1>1, <1>2, <1>3, <1>4, <1>5, <1>6, <1>7, <1>8, <1>9, LocalSteps

(* An attachment changes its state on the device when it is created, when its *)
(* manifest has been taken, and with a pull.                                   *)
LEMMA ChunkEffect ==
    ASSUME IInv, NEW d \in Devices, NEW a \in Attachments, NEW i \in Chunks, PutChunk(d, a, i)
    PROVE  \A e \in Devices : local'[e].object = local[e].object /\ local'[e].refs = local[e].refs
<1>1. CASE UNCHANGED local
  BY <1>1
<1>2. CASE local' = [local EXCEPT ![d].out[a] = @ \ {i}]
  BY <1>2 DEF IInv, LocalShaped
<1> QED
  BY <1>1, <1>2 DEF PutChunk, Answered

LEMMA CacheEffect ==
    ASSUME IInv, NEW d \in Devices, NEW a \in Attachments, Download(d, a) \/ Evict(d, a)
    PROVE  \A e \in Devices : local'[e].object = local[e].object /\ local'[e].refs = local[e].refs
<1> USE DEF IInv, LocalShaped
<1>1. CASE Download(d, a)
  BY <1>1 DEF Download
<1>2. CASE Evict(d, a)
  BY <1>2 DEF Evict
<1> QED
  BY <1>1, <1>2

LEMMA ManifestEffect ==
    ASSUME IInv, NEW d \in Devices, NEW a \in Attachments, PutManifest(d, a)
    PROVE  \/ UNCHANGED local
           \/ Arrived(a)' /\ local' = [local EXCEPT ![d].object[a] = "synced"]
BY DEF PutManifest, IInv, ServerShaped, Arrived

LEMMA NoteEffect ==
    ASSUME IInv, NEW d \in Devices, PutNote(d)
    PROVE  \A e \in Devices : /\ local'[e].object = local[e].object
                              /\ local'[e].refs \in {local[e].refs, note.refs}
<1> USE DEF IInv, LocalShaped
<1>1. CASE UNCHANGED local
  BY <1>1
<1>2. CASE local' = [local EXCEPT ![d].base = note.rev + 1, ![d].dirty = local[d].refs # push[d].refs]
  BY <1>2
<1>3. CASE local' = [local EXCEPT ![d].base = note.rev, ![d].refs = note.refs, ![d].dirty = FALSE]
  BY <1>3
<1> QED
  BY <1>1, <1>2, <1>3 DEF PutNote

(* What is synchronized has arrived. *)
LEMMA SyncedStaysArrived == ASSUME IInv, Next PROVE SyncedArrived'
<1> USE DEF SyncedArrived
<1>a. SyncedArrived /\ \A a \in Attachments : Arrived(a) => Arrived(a)'
  BY ArrivedStays DEF IInv
<1>b. LocalShaped
  BY DEF IInv
<1>1. CASE \A d \in Devices : local'[d].object = local[d].object
  BY <1>1, <1>a
<1>2. ASSUME NEW d \in Devices, NEW a \in Attachments, Create(d, a) PROVE SyncedArrived'
  BY <1>2, <1>a, <1>b DEF Create, LocalShaped
<1>3. ASSUME NEW d \in Devices, NEW a \in Attachments, PutManifest(d, a) PROVE SyncedArrived'
  BY <1>3, <1>a, <1>b, ManifestEffect DEF LocalShaped
<1>4. ASSUME NEW d \in Devices, NEW refs \in SUBSET Attachments, EditNote(d, refs)
      PROVE  \A e \in Devices : local'[e].object = local[e].object
  BY <1>4, <1>b DEF EditNote, LocalShaped
<1>5. ASSUME NEW d \in Devices, Pull(d) PROVE SyncedArrived'
  BY <1>5, <1>a, PullEffect DEF Arrived
<1>6. ASSUME NEW d \in Devices, PutNote(d) PROVE SyncedArrived'
  BY <1>1, <1>6, NoteEffect
<1>7. ASSUME NEW d \in Devices, NEW a \in Attachments, Download(d, a) \/ Evict(d, a)
      PROVE  SyncedArrived'
  BY <1>1, <1>7, CacheEffect
<1>8. ASSUME NEW d \in Devices, NEW a \in Attachments, NEW i \in Chunks, PutChunk(d, a, i)
      PROVE  SyncedArrived'
  BY <1>1, <1>8, ChunkEffect
<1> QED
  BY <1>1, <1>2, <1>3, <1>4, <1>5, <1>6, <1>7, <1>8, LocalSteps

(* What the note of a device refers to waits for its upload, or has arrived. *)
LEMMA RefsStayUploaded == ASSUME IInv, Next PROVE RefsUploaded'
<1> USE DEF RefsUploaded
<1>a. RefsUploaded /\ \A a \in Attachments : Arrived(a) => Arrived(a)'
  BY ArrivedStays DEF IInv
<1>b. LocalShaped
  BY DEF IInv
<1>c. \A a \in note.refs : a \in Attachments /\ Arrived(a)
  BY DEF IInv, NoteAfterManifests, Arrived, NoteShaped
<1>1. CASE \A d \in Devices : /\ local'[d].object = local[d].object
                              /\ local'[d].refs \in {local[d].refs, note.refs}
  BY <1>1, <1>a, <1>b, <1>c DEF LocalShaped
<1>2. ASSUME NEW d \in Devices, NEW a \in Attachments, Create(d, a) PROVE RefsUploaded'
  BY <1>2, <1>a, <1>b DEF Create, LocalShaped
<1>3. ASSUME NEW d \in Devices, NEW a \in Attachments, PutManifest(d, a) PROVE RefsUploaded'
  BY <1>3, <1>a, <1>b, ManifestEffect DEF LocalShaped
<1>4. ASSUME NEW d \in Devices, NEW refs \in SUBSET Attachments, EditNote(d, refs)
      PROVE  RefsUploaded'
  <2>1. \A a \in refs : local[d].object[a] = "pending" \/ Arrived(a)
    BY <1>4 DEF EditNote, IInv, SyncedArrived
  <2> QED
    BY <1>4, <1>a, <1>b, <2>1 DEF EditNote, LocalShaped
<1>5. ASSUME NEW d \in Devices, Pull(d) PROVE RefsUploaded'
  BY <1>5, <1>a, <1>b, <1>c, PullEffect DEF Arrived, LocalShaped
<1>6. ASSUME NEW d \in Devices, PutNote(d) PROVE RefsUploaded'
  BY <1>1, <1>6, NoteEffect
<1>7. ASSUME NEW d \in Devices, NEW a \in Attachments, Download(d, a) \/ Evict(d, a)
      PROVE  RefsUploaded'
  BY <1>1, <1>7, CacheEffect
<1>8. ASSUME NEW d \in Devices, NEW a \in Attachments, NEW i \in Chunks, PutChunk(d, a, i)
      PROVE  RefsUploaded'
  BY <1>1, <1>8, ChunkEffect
<1> QED
  BY <1>1, <1>2, <1>3, <1>4, <1>5, <1>6, <1>7, <1>8, LocalSteps

(* What a push carries waits in it for its manifest, or has arrived. *)
LEMMA PushesStayCarried == ASSUME IInv, Next PROVE PushCarries'
<1> USE DEF IInv, PushShaped, PushCarries
<1>a. \A a \in Attachments : Arrived(a) => Arrived(a)'
  BY ArrivedStays
<1>1. CASE UNCHANGED push
  BY <1>1, <1>a
<1>2. ASSUME NEW d \in Devices, Abort(d) PROVE PushCarries'
  BY <1>2, <1>a DEF Abort, NoPush
<1>3. ASSUME NEW d \in Devices, Snapshot(d) PROVE PushCarries'
  BY <1>3, <1>a DEF Snapshot, RefsUploaded, LocalShaped
<1>4. ASSUME NEW d \in Devices, NEW a \in Attachments, NEW i \in Chunks, PutChunk(d, a, i)
      PROVE  PushCarries'
  BY <1>2, <1>4, <1>a DEF PutChunk, Answered, Lose
<1>5. ASSUME NEW d \in Devices, NEW a \in Attachments, PutManifest(d, a) PROVE PushCarries'
  <2>1. CASE Abort(d)
    BY <1>2, <2>1
  <2>2. CASE ~Abort(d)
    <3>1. Arrived(a)'
      BY <1>5, <2>2 DEF PutManifest, Arrived, ServerShaped
    <3>2. push' = [push EXCEPT ![d].manifests = @ \ {a}]
      BY <1>5, <2>2 DEF PutManifest, Lose
    <3> QED
      BY <1>a, <3>1, <3>2
  <2> QED
    BY <2>1, <2>2
<1> QED
  BY <1>1, <1>2, <1>3, <1>4, <1>5, PushSteps

LEMMA StaysInductive == ASSUME IInv, [Next]_vars PROVE IInv'
<1>1. CASE Next
  BY <1>1, ServerStaysShaped, LocalStaysShaped, PushStaysShaped, OutStaysCached,
     ChunksStayOwned, SyncedStaysArrived, RefsStayUploaded, PushesStayCarried,
     NotesStayAfterManifests, PurgedNotesStayEmpty
     DEF IInv
<1>2. CASE UNCHANGED vars
  BY <1>2 DEF vars, IInv, NoteShaped, ServerShaped, LocalShaped, PushShaped, OutIsCached,
     ChunksOwned, SyncedArrived, RefsUploaded, PushCarries, Arrived, NoteAfterManifests,
     PurgedStaysEmpty
<1> QED
  BY <1>1, <1>2

(***************************************************************************)
(* UploadsSafe, for any number of devices, attachments and chunks.         *)
(***************************************************************************)
THEOREM UploadsAreSafe == Spec => []UploadsSafe
<1>1. Init => IInv
  BY InitHolds
<1>2. IInv /\ [Next]_vars => IInv'
  BY StaysInductive
<1>3. IInv => UploadsSafe
  BY DEF IInv, UploadsSafe, UploadTypeOK, NoteShaped, ServerShaped, LocalShaped, OutIsCached
<1> QED
  BY <1>1, <1>2, <1>3, PTL DEF Spec

-----------------------------------------------------------------------------
(* BytesKept, when no upload is held up for a week. While the note lives, what *)
(* is needed of an attachment is still to be sent or has been stored:          *)

(* what has its manifest is whole on the server,                               *)
Whole == note.state = "live" => \A a \in Attachments : manifest[a] = "live" => Chunks \subseteq DOMAIN stored[a]
(* what waits for it has each chunk on the server or in the outbox of its device, *)
PendingHeld ==
  note.state = "live" =>
    \A d \in Devices, a \in Attachments :
      local[d].object[a] = "pending" => Chunks \subseteq local[d].out[a] \cup DOMAIN stored[a]
(* a push that is to send a manifest still has the chunks that are not there,  *)
PushHeld ==
  note.state = "live" =>
    \A d \in Devices, a \in Attachments :
      a \in push[d].manifests =>
        \A i \in Chunks : <<a, i>> \in push[d].chunks \/ i \in DOMAIN stored[a]
(* and the cleanup finds no chunk that is old enough.                          *)
Young ==
  /\ clock \in Nat
  /\ \A a \in Attachments : manifest[a] # "live" => \A i \in DOMAIN stored[a] : stored[a][i] >= clock

BytesInv == Whole /\ PendingHeld /\ PushHeld /\ Young

LEMMA BytesAtFirst == Init => BytesInv
<1> SUFFICES ASSUME Init PROVE BytesInv
  OBVIOUS
<1>1. Whole /\ Young
  BY DEF Init, Whole, Young
<1>2. PendingHeld
  BY DEF Init, PendingHeld, NoLocal
<1>3. PushHeld
  BY DEF Init, PushHeld, NoPush
<1> QED
  BY <1>1, <1>2, <1>3 DEF BytesInv

(* A note that is live was live before, and no chunk of it goes.               *)
LEMMA ChunksStay ==
    ASSUME IInv, Young, Next, note'.state = "live"
    PROVE  /\ note.state = "live"
           /\ \A a \in Attachments : DOMAIN stored[a] \subseteq DOMAIN stored'[a]
<1> USE DEF IInv, ServerShaped, NoteShaped
<1>1. CASE UNCHANGED <<note, stored, manifest, owners>>
  BY <1>1
<1>2. ASSUME NEW d \in Devices, NEW a \in Attachments, PutManifest(d, a)
      PROVE  UNCHANGED <<note, stored>>
  BY <1>2 DEF PutManifest
<1>3. ASSUME NEW d \in Devices, NEW a \in Attachments, NEW i \in Chunks, PutChunk(d, a, i)
      PROVE  /\ UNCHANGED note
             /\ \A b \in Attachments : DOMAIN stored[b] \subseteq DOMAIN stored'[b]
  <2>1. UNCHANGED note
    BY <1>3 DEF PutChunk
  <2>2. CASE UNCHANGED stored
    BY <2>1, <2>2
  <2>3. CASE stored' = [stored EXCEPT ![a] =
               [j \in DOMAIN @ \cup {i} |-> IF j \in DOMAIN @ THEN @[j] ELSE clock]]
    BY <2>1, <2>3
  <2> QED
    BY <1>3, <2>1, <2>2, <2>3 DEF PutChunk
<1>4. ASSUME NEW d \in Devices, PutNote(d)
      PROVE  note.state = "live" /\ UNCHANGED stored
  BY <1>4 DEF PutNote
<1>5. CASE CleanupChunks
  BY <1>5 DEF CleanupChunks, Young
<1>6. CASE CleanupOwners
  BY <1>6 DEF CleanupOwners
<1>7. CASE Purge
  BY <1>7 DEF Purge
<1> QED
  BY <1>1, <1>2, <1>3, <1>4, <1>5, <1>6, <1>7, ServerSteps

(* A manifest is taken when its chunks are there.                              *)
LEMMA StaysWhole == ASSUME IInv, BytesInv, Next PROVE Whole'
<1> SUFFICES ASSUME note'.state = "live", NEW a \in Attachments, manifest'[a] = "live"
             PROVE  Chunks \subseteq DOMAIN stored'[a]
  BY DEF Whole
<1>1. note.state = "live" /\ DOMAIN stored[a] \subseteq DOMAIN stored'[a]
  BY ChunksStay DEF BytesInv
<1>2. CASE manifest[a] = "live"
  BY <1>1, <1>2 DEF BytesInv, Whole
<1>3. CASE manifest[a] # "live"
  <2>1. PICK d \in Devices, b \in Attachments : PutManifest(d, b)
    BY <1>3, ServerSteps DEF PutChunk, PutNote, CleanupChunks, CleanupOwners, Purge,
       IInv, ServerShaped, NoteShaped
  <2>2. b = a
    BY <1>3, <2>1 DEF PutManifest, IInv, ServerShaped
  <2>3. a \in push[d].manifests /\ push[d].chunks = {}
    BY <2>1, <2>2 DEF PutManifest
  <2> QED
    BY <1>1, <2>3 DEF BytesInv, PushHeld
<1> QED
  BY <1>2, <1>3

(* A chunk leaves the outbox when it is stored.                                *)
LEMMA PendingStaysHeld == ASSUME IInv, BytesInv, Next PROVE PendingHeld'
<1> SUFFICES ASSUME note'.state = "live" PROVE PendingHeld'
  BY DEF PendingHeld
<1>a. /\ note.state = "live" /\ LocalShaped /\ ServerShaped
      /\ \A a \in Attachments : DOMAIN stored[a] \subseteq DOMAIN stored'[a]
  BY ChunksStay DEF BytesInv, IInv
<1>b. ASSUME \A d \in Devices, a \in Attachments : local'[d].object[a] = "pending" =>
               local[d].object[a] = "pending" /\ local'[d].out[a] = local[d].out[a]
      PROVE  PendingHeld'
  BY <1>a, <1>b DEF BytesInv, PendingHeld
<1>1. CASE UNCHANGED local
  BY <1>1, <1>b
<1>2. ASSUME NEW d \in Devices, NEW a \in Attachments, Create(d, a) PROVE PendingHeld'
  BY <1>2, <1>a DEF Create, LocalShaped, BytesInv, PendingHeld
<1>3. ASSUME NEW d \in Devices, NEW a \in Attachments, PutManifest(d, a) PROVE PendingHeld'
  <2>1. CASE local' = [local EXCEPT ![d].object[a] = "synced"]
    BY <2>1, <1>a, <1>b DEF LocalShaped
  <2> QED
    BY <1>1, <1>3, <2>1, ManifestEffect
<1>4. ASSUME NEW d \in Devices, NEW a \in Attachments, Download(d, a) \/ Evict(d, a)
      PROVE  PendingHeld'
  <2>1. CASE Download(d, a)
    BY <2>1, <1>a, <1>b DEF Download, LocalShaped
  <2>2. CASE Evict(d, a)
    BY <2>2, <1>a, <1>b DEF Evict, LocalShaped
  <2> QED
    BY <1>4, <2>1, <2>2
<1>5. ASSUME NEW d \in Devices, NEW a \in Attachments, NEW i \in Chunks, PutChunk(d, a, i)
      PROVE  PendingHeld'
  <2>1. CASE local' = [local EXCEPT ![d].out[a] = @ \ {i}] /\ i \in DOMAIN stored'[a]
    BY <2>1, <1>a DEF LocalShaped, BytesInv, PendingHeld
  <2>2. CASE stored' = [stored EXCEPT ![a] =
               [j \in DOMAIN @ \cup {i} |-> IF j \in DOMAIN @ THEN @[j] ELSE clock]]
    <3>1. i \in DOMAIN stored'[a]
      BY <2>2, <1>a DEF ServerShaped
    <3> QED
      BY <1>1, <1>5, <2>1, <3>1 DEF PutChunk, Answered
  <2> QED
    BY <1>1, <1>5, <2>2 DEF PutChunk
<1>6. ASSUME NEW d \in Devices, NEW refs \in SUBSET Attachments, EditNote(d, refs)
      PROVE  PendingHeld'
  BY <1>6, <1>a, <1>b DEF EditNote, LocalShaped
<1>7. ASSUME NEW d \in Devices, PutNote(d) PROVE PendingHeld'
  <2>1. CASE local' = [local EXCEPT ![d].base = note.rev + 1, ![d].dirty = local[d].refs # push[d].refs]
    BY <2>1, <1>a, <1>b DEF LocalShaped
  <2>2. CASE local' = [local EXCEPT ![d].base = note.rev, ![d].refs = note.refs, ![d].dirty = FALSE]
    BY <2>2, <1>a, <1>b DEF LocalShaped
  <2> QED
    BY <1>1, <1>7, <2>1, <2>2 DEF PutNote
<1>8. ASSUME NEW d \in Devices, Pull(d) PROVE PendingHeld'
  <2>1. /\ \A e \in Devices \ {d} : local'[e] = local[e]
        /\ local'[d].out = local[d].out
        /\ \A a \in Attachments : local'[d].object[a] \in {local[d].object[a], "synced"}
    BY <1>8, <1>a, PullEffect
  <2> QED
    BY <1>b, <2>1
<1> QED
  BY <1>1, <1>2, <1>3, <1>4, <1>5, <1>6, <1>7, <1>8, LocalSteps

(* A snapshot takes the chunks that are in the outbox along.                   *)
LEMMA PushStaysHeld == ASSUME IInv, BytesInv, Next PROVE PushHeld'
<1> SUFFICES ASSUME note'.state = "live" PROVE PushHeld'
  BY DEF PushHeld
<1>a. /\ note.state = "live" /\ PushShaped /\ ServerShaped
      /\ \A a \in Attachments : DOMAIN stored[a] \subseteq DOMAIN stored'[a]
  BY ChunksStay DEF BytesInv, IInv
<1>1. CASE UNCHANGED push
  BY <1>1, <1>a DEF BytesInv, PushHeld
<1>2. ASSUME NEW d \in Devices, Abort(d) PROVE PushHeld'
  BY <1>2, <1>a DEF Abort, NoPush, PushShaped, BytesInv, PushHeld
<1>3. ASSUME NEW d \in Devices, Snapshot(d) PROVE PushHeld'
  <2>1. /\ \A e \in Devices \ {d} : push'[e] = push[e]
        /\ push'[d].manifests = {a \in Attachments : local[d].object[a] = "pending"}
        /\ push'[d].chunks = {c \in Attachments \X Chunks : c[2] \in local[d].out[c[1]]}
    BY <1>3, <1>a DEF Snapshot, PushShaped
  <2>2. ASSUME NEW a \in Attachments, a \in push'[d].manifests, NEW i \in Chunks
        PROVE  <<a, i>> \in push'[d].chunks \/ i \in DOMAIN stored'[a]
    <3>1. i \in local[d].out[a] \cup DOMAIN stored[a]
      BY <1>a, <2>1, <2>2 DEF BytesInv, PendingHeld
    <3>2. i \in local[d].out[a] => <<a, i>> \in push'[d].chunks
      BY <2>1
    <3> QED
      BY <1>a, <3>1, <3>2
  <2> QED
    BY <1>a, <2>1, <2>2 DEF BytesInv, PushHeld
<1>4. ASSUME NEW d \in Devices, NEW a \in Attachments, NEW i \in Chunks, PutChunk(d, a, i)
      PROVE  PushHeld'
  <2>1. CASE stored' = [stored EXCEPT ![a] =
               [j \in DOMAIN @ \cup {i} |-> IF j \in DOMAIN @ THEN @[j] ELSE clock]]
             /\ push' = [push EXCEPT ![d].chunks = @ \ {<<a, i>>}]
    <3>1. i \in DOMAIN stored'[a]
      BY <2>1, <1>a DEF ServerShaped
    <3>2. \A e \in Devices : /\ push'[e].manifests = push[e].manifests
                             /\ push[e].chunks \subseteq push'[e].chunks \cup {<<a, i>>}
      BY <2>1, <1>a DEF PushShaped
    <3>3. ASSUME NEW e \in Devices, NEW b \in Attachments, b \in push'[e].manifests, NEW j \in Chunks
          PROVE  <<b, j>> \in push'[e].chunks \/ j \in DOMAIN stored'[b]
      <4>1. <<b, j>> \in push[e].chunks \/ j \in DOMAIN stored[b]
        BY <1>a, <3>2, <3>3 DEF BytesInv, PushHeld
      <4>2. CASE <<b, j>> = <<a, i>>
        BY <3>1, <4>2
      <4> QED
        BY <1>a, <3>2, <4>1, <4>2
    <3> QED
      BY <3>3 DEF PushHeld
  <2> QED
    BY <1>2, <1>4, <2>1 DEF PutChunk, Answered, Lose
<1>5. ASSUME NEW d \in Devices, NEW a \in Attachments, PutManifest(d, a) PROVE PushHeld'
  <2>1. CASE push' = [push EXCEPT ![d].manifests = @ \ {a}]
    <3>1. \A e \in Devices : /\ push'[e].chunks = push[e].chunks
                             /\ push'[e].manifests \subseteq push[e].manifests
      BY <2>1, <1>a DEF PushShaped
    <3> QED
      BY <1>a, <3>1 DEF BytesInv, PushHeld
  <2> QED
    BY <1>2, <1>5, <2>1 DEF PutManifest, Lose
<1> QED
  BY <1>1, <1>2, <1>3, <1>4, <1>5, PushSteps

(* The week passes only when all that is stored has its manifest.              *)
LEMMA StaysYoung == ASSUME IInv, BytesInv, Next, Tick => ~Halfway PROVE Young'
<1> USE DEF IInv, ServerShaped, BytesInv, Young
<1>1. CASE Tick
  BY <1>1 DEF Tick, Halfway
<1>2. ASSUME NEW d \in Devices, NEW a \in Attachments, NEW i \in Chunks, PutChunk(d, a, i)
      PROVE  Young'
  <2>1. CASE UNCHANGED stored
    BY <1>2, <2>1 DEF PutChunk
  <2>2. CASE stored' = [stored EXCEPT ![a] =
               [j \in DOMAIN @ \cup {i} |-> IF j \in DOMAIN @ THEN @[j] ELSE clock]]
    <3>1. UNCHANGED <<clock, manifest>>
      BY <1>2 DEF PutChunk
    <3>2. \A b \in Attachments : \A j \in DOMAIN stored'[b] :
            \/ j \in DOMAIN stored[b] /\ stored'[b][j] = stored[b][j]
            \/ stored'[b][j] = clock
      BY <2>2
    <3> QED
      BY <3>1, <3>2
  <2> QED
    BY <1>2, <2>1, <2>2 DEF PutChunk
<1>3. ASSUME NEW d \in Devices, NEW a \in Attachments, PutManifest(d, a) PROVE Young'
  <2>1. UNCHANGED <<clock, stored>> /\ \A b \in Attachments : manifest'[b] # "live" => manifest[b] # "live"
    BY <1>3 DEF PutManifest
  <2> QED
    BY <2>1
<1>4. CASE CleanupChunks
  <2>1. UNCHANGED <<clock, manifest>> /\ stored' = [a \in Attachments |-> IF manifest[a] = "live" THEN stored[a]
           ELSE [i \in {j \in DOMAIN stored[a] : stored[a][j] >= clock} |-> stored[a][i]]]
    BY <1>4 DEF CleanupChunks
  <2> QED
    BY <2>1
<1>5. CASE Purge
  <2>1. /\ UNCHANGED clock
        /\ \A a \in Attachments : DOMAIN stored'[a] = {}
    BY <1>5, PurgedNotesStayEmpty DEF Purge, PurgedStaysEmpty, NoteShaped
  <2> QED
    BY <2>1
<1>6. CASE UNCHANGED <<clock, stored, manifest>>
  BY <1>6
<1>7. ASSUME NEW d \in Devices, NEW a \in Attachments, Create(d, a) \/ Download(d, a) \/ Evict(d, a)
      PROVE  UNCHANGED <<clock, stored, manifest>>
  BY <1>7 DEF Create, Download, Evict
<1>8. ASSUME NEW d \in Devices, NEW refs \in SUBSET Attachments, EditNote(d, refs)
      PROVE  UNCHANGED <<clock, stored, manifest>>
  BY <1>8 DEF EditNote
<1>9. ASSUME NEW d \in Devices, Snapshot(d) \/ PutNote(d) \/ EndPush(d) \/ Stop(d) \/ Pull(d)
      PROVE  UNCHANGED <<clock, stored, manifest>>
  BY <1>9 DEF Snapshot, PutNote, EndPush, Stop, Pull
<1>10. CASE CleanupOwners
  BY <1>6, <1>10 DEF CleanupOwners
<1> QED
  BY <1>1, <1>2, <1>3, <1>4, <1>5, <1>6, <1>7, <1>8, <1>9, <1>10 DEF Next, DeviceStep

(* Together they stay, when the clock leaves no upload half-way. *)
LEMMA BytesStay ==
    IInv /\ BytesInv /\ [Next]_vars /\ [Tick => ~Halfway]_vars => (IInv /\ BytesInv)'
<1> SUFFICES ASSUME IInv, BytesInv, [Next]_vars, [Tick => ~Halfway]_vars
             PROVE  (IInv /\ BytesInv)'
  OBVIOUS
<1>1. IInv'
  BY StaysInductive
<1>2. CASE UNCHANGED vars
  BY <1>1, <1>2 DEF vars, BytesInv, Whole, PendingHeld, PushHeld, Young
<1>3. CASE Next /\ (Tick => ~Halfway)
  BY <1>1, <1>3, StaysWhole, PendingStaysHeld, PushStaysHeld, StaysYoung DEF BytesInv
<1> QED
  BY <1>1, <1>2, <1>3

LEMMA BytesInvKeeps == IInv /\ BytesInv => BytesKept
  BY DEF IInv, NoteShaped, NoteAfterManifests, PurgedStaysEmpty, BytesInv, Whole, BytesKept

(* Every chunk of an attachment the note refers to is on the server or on a    *)
(* device (pushController.ts, cache.ts), when no upload is held up for the     *)
(* week after which abandoned chunks are cleaned up (attachments/cleanup.ts).  *)
(* Without that condition the bytes can be lost.                               *)
THEOREM BytesAreKept == Spec /\ NothingHeldUp => []BytesKept
<1>1. Init => IInv /\ BytesInv
  BY InitHolds, BytesAtFirst
<1> QED
  BY <1>1, BytesStay, BytesInvKeeps, PTL DEF Spec, NothingHeldUp

-----------------------------------------------------------------------------
(***************************************************************************)
(* What the collectors may remove, for any devices, attachments, versions, *)
(* edits, snapshots and times.  A pass that gets to its proposal without a *)
(* change has seen every reference; a proposal that still stands is about  *)
(* what nothing has referred to since it was made, nor anything that is    *)
(* still to be uploaded and younger than it.                               *)
(***************************************************************************)
VersionRows == [on : BOOLEAN, refs : SUBSET Owned, keep : BOOLEAN]
Proposals == [on : BOOLEAN, rev : Nat, hv : Nat, ov : Nat, at : Nat]
EditRows == [on : BOOLEAN, base : Nat, refs : SUBSET Owned, at : Nat]
ShotRows == [on : BOOLEAN, refs : SUBSET Owned, at : Nat, keep : BOOLEAN]
PassRows ==
    [at : {"off", "ownership", "map", "inventory", "propose"}, rev : Nat, refs : SUBSET Owned,
     atts : SUBSET Owned, head : Nat, hv : Nat, ov : Nat, cursor : Nat]

ReclaimTyped ==
    /\ day \in Nat /\ referring \in [rev : Nat, refs : SUBSET Owned, deleted : BOOLEAN]
    /\ history \in [Versions -> VersionRows]
    /\ held \subseteq Owned /\ hv \in Nat /\ ov \in Nat /\ head \in Nat
    /\ gc \in [Owned -> Proposals] /\ since \in [Owned -> Nat]
    /\ change \in [Clients -> EditRows] /\ shot \in [Clients -> ShotRows]
    /\ pass \in [Clients -> PassRows]

Refers(a) ==
    \/ a \in referring.refs
    \/ \E v \in Versions : history[v].on /\ a \in history[v].refs

(* A pass whose note and history have not changed knows what they refer to, *)
(* of the versions those it has read.                                       *)
PassesKnow ==
    \A d \in Clients :
      /\ pass[d].rev <= referring.rev /\ pass[d].hv <= hv
      /\ pass[d].at # "off" /\ pass[d].rev = referring.rev => referring.refs \subseteq pass[d].refs
      /\ pass[d].at \in {"inventory", "propose"} /\ pass[d].hv = hv =>
           \A v \in Versions :
             history[v].on /\ (pass[d].at = "propose" \/ pass[d].cursor <= v)
               => history[v].refs \subseteq pass[d].refs

(* What is proposed is referred to by nothing, and by no upload that began  *)
(* later than the proposal.                                                 *)
ProposalsStand ==
    \A a \in Owned : gc[a].on =>
      /\ ~Refers(a) /\ since[a] <= gc[a].at /\ gc[a].at <= day
      /\ \A d \in Clients :
           /\ change[d].on /\ a \in change[d].refs => change[d].at <= gc[a].at
           /\ shot[d].on /\ a \in shot[d].refs => shot[d].at <= gc[a].at

(* What waits on a device began in the past, and finds its attachments as    *)
(* long as the server accepts it.                                            *)
UploadsResolve ==
    \A d \in Clients :
      /\ change[d].at <= day /\ shot[d].at <= day
      /\ change[d].on /\ ~Collector!Expired(change[d].at) => change[d].refs \subseteq held
      /\ shot[d].on /\ ~Collector!Expired(shot[d].at) => shot[d].refs \subseteq held

SeenInTime == \A a \in Owned : since[a] <= day
AllHeld == \A a \in Owned : Refers(a) => a \in held

ReclaimInv ==
    ReclaimTyped /\ PassesKnow /\ ProposalsStand /\ UploadsResolve /\ SeenInTime /\ AllHeld

-----------------------------------------------------------------------------
LEMMA ReclaimNumbers ==
    /\ Grace \in Nat \ {0} /\ MaxDays \in Nat /\ MaxRecorded \in Nat
    /\ IsFiniteSet(Owned) /\ IsFiniteSet(Versions)
    /\ Versions \subseteq Nat \ {0} /\ Versions # {}
  BY AttachmentConstants DEF AttachmentConstants, Collector!ReclaimConstants, Collector!IsFiniteSet, IsFiniteSet

LEMMA ReferencedIs ==
    /\ \A a : a \in Collector!Referenced <=> Refers(a)
    /\ \A a : a \in (Collector!Referenced)' <=> Refers(a)'
  BY DEF Collector!Referenced, Collector!On, Refers

(* There is a greatest version: one that the fewest are greater than.       *)
LEMMA LatestExists ==
    ASSUME NEW S, S \subseteq Versions, S # {}
    PROVE  /\ Collector!Max(S) \in S
           /\ \A v \in S : v <= Collector!Max(S)
<1> DEFINE Later(v) == {w \in S : w > v}
           counts == {Cardinality(Later(v)) : v \in S}
<1>1. S \subseteq Nat /\ IsFiniteSet(S)
  BY ReclaimNumbers, FS_Subset
<1>2. \A v \in S : IsFiniteSet(Later(v)) /\ Cardinality(Later(v)) \in Nat
  BY <1>1, FS_Subset, FS_CardinalityType
<1>3. counts \subseteq Nat /\ counts # {}
  BY <1>2
<1> HIDE DEF counts
<1>4. PICK n \in counts : \A m \in counts : ~(<<m, n>> \in OpToRel(<, Nat))
  BY <1>3, WFMin, NatLessThanWellFounded, Zenon
<1>5. PICK x \in S : n = Cardinality(Later(x))
  BY DEF counts
<1>6. ASSUME NEW v \in S, v > x PROVE FALSE
  <2>1. Later(v) \in SUBSET Later(x)
    <3>1. \A w \in S : w > v => w > x
      BY <1>1, <1>6
    <3> QED
      BY <3>1
  <2>2. v \in Later(x) /\ v \notin Later(v)
    BY <1>1, <1>6
  <2>3. Cardinality(Later(v)) <= Cardinality(Later(x)) /\ Cardinality(Later(v)) # Cardinality(Later(x))
    BY <1>2, <2>1, <2>2, FS_Subset
  <2>4. Cardinality(Later(v)) \in counts
    BY DEF counts
  <2> HIDE DEF Later
  <2>5. Cardinality(Later(v)) < n
    BY <1>2, <1>5, <2>3
  <2> QED
    BY <1>3, <1>4, <2>4, <2>5 DEF OpToRel
<1>7. \A v \in S : v <= x
  BY <1>1, <1>6
<1>8. PICK m : m = Collector!Max(S)
  OBVIOUS
<1>9. m \in S /\ \A v \in S : m >= v
  BY <1>1, <1>7, <1>8 DEF Collector!Max
<1> QED
  BY <1>1, <1>8, <1>9

LEMMA LastVersion == Collector!Max(Versions) \in Nat /\ \A v \in Versions : v <= Collector!Max(Versions)
  BY LatestExists, ReclaimNumbers

LEMMA CollectorIdle ==
    /\ Collector!NoEdit \in EditRows /\ ~Collector!NoEdit.on /\ Collector!NoEdit.at = 0
    /\ Collector!NoShot \in ShotRows /\ ~Collector!NoShot.on /\ Collector!NoShot.at = 0
    /\ Collector!NoGc \in Proposals /\ ~Collector!NoGc.on
    /\ Collector!NoVersion \in VersionRows /\ ~Collector!NoVersion.on
    /\ Collector!NoPass \in PassRows /\ Collector!NoPass.at = "off"
    /\ Collector!NoPass.rev = 0 /\ Collector!NoPass.hv = 0
  BY DEF Collector!NoEdit, Collector!NoShot, Collector!NoGc, Collector!NoVersion, Collector!NoPass,
     EditRows, ShotRows, Proposals, VersionRows, PassRows

-----------------------------------------------------------------------------
(* A user edits or captures; an upload follows.                             *)
LEMMA EditKeeps ==
    ASSUME ReclaimInv, NEW d \in Clients, NEW refs \in SUBSET Owned, Collector!Edit(d, refs)
    PROVE  ReclaimInv'
<1> USE DEF ReclaimInv
<1>1. /\ change' = [change EXCEPT ![d] = [on |-> TRUE, base |-> referring.rev, refs |-> refs, at |-> day]]
      /\ \A a \in refs : Refers(a)
      /\ UNCHANGED <<day, referring, history, held, owned, complete, hv, ov, head, gc, shot, pass, since>>
  BY ReferencedIs DEF Collector!Edit, Collector!server
<1>2. \A a : Refers(a)' <=> Refers(a)
  BY <1>1 DEF Refers
<1>3. /\ change'[d].refs = refs /\ change'[d].at = day
      /\ \A e \in Clients \ {d} : change'[e] = change[e]
  BY <1>1 DEF ReclaimTyped
<1>4. ReclaimTyped'
  BY <1>1 DEF ReclaimTyped, EditRows
<1>5. PassesKnow'
  BY <1>1 DEF PassesKnow
<1>6. ProposalsStand'
  BY <1>1, <1>2, <1>3 DEF ProposalsStand
<1>7. UploadsResolve'
  <2>1. refs \subseteq held
    BY <1>1 DEF AllHeld
  <2>2. day <= day
    BY DEF ReclaimTyped
  <2> QED
    BY <1>1, <1>3, <2>1, <2>2 DEF UploadsResolve, Collector!Expired
<1>8. SeenInTime' /\ AllHeld'
  BY <1>1, <1>2 DEF SeenInTime, AllHeld
<1> QED
  BY <1>4, <1>5, <1>6, <1>7, <1>8

LEMMA CaptureKeeps ==
    ASSUME ReclaimInv, NEW d \in Clients, NEW keep \in BOOLEAN, Collector!Capture(d, keep)
    PROVE  ReclaimInv'
<1> USE DEF ReclaimInv
<1> DEFINE refs == referring.refs
<1>1. /\ shot' = [shot EXCEPT ![d] = [on |-> TRUE, refs |-> refs, at |-> day, keep |-> keep]]
      /\ \A a \in refs : Refers(a)
      /\ UNCHANGED <<day, referring, history, held, owned, complete, hv, ov, head, gc, change, pass, since>>
  BY DEF Collector!Capture, Collector!server, Refers
<1>2. \A a : Refers(a)' <=> Refers(a)
  BY <1>1 DEF Refers
<1>3. refs \subseteq Owned
  BY DEF ReclaimTyped
<1> HIDE DEF refs
<1>4. /\ shot'[d].refs = refs /\ shot'[d].at = day
      /\ \A e \in Clients \ {d} : shot'[e] = shot[e]
  BY <1>1 DEF ReclaimTyped
<1>5. ReclaimTyped'
  BY <1>1, <1>3 DEF ReclaimTyped, ShotRows
<1>6. PassesKnow'
  BY <1>1 DEF PassesKnow
<1>7. ProposalsStand'
  BY <1>1, <1>2, <1>4 DEF ProposalsStand
<1>8. UploadsResolve'
  <2>1. refs \subseteq held
    BY <1>1, <1>3 DEF AllHeld
  <2>2. day <= day
    BY DEF ReclaimTyped
  <2> QED
    BY <1>1, <1>4, <2>1, <2>2 DEF UploadsResolve, Collector!Expired
<1>9. SeenInTime' /\ AllHeld'
  BY <1>1, <1>2 DEF SeenInTime, AllHeld
<1> QED
  BY <1>5, <1>6, <1>7, <1>8, <1>9

(* A recorded change drops all proposals, and a pass that began before it    *)
(* knows that it is late.                                                    *)
LEMMA RecordedChange ==
    ASSUME ReclaimInv, ReclaimTyped', Collector!Dropped,
           day' = day, pass' = pass, held \subseteq held',
           \A a \in Owned : since'[a] = day \/ since'[a] = since[a],
           \A a \in Owned : Refers(a)' => a \in held',
           \/ referring'.rev = referring.rev /\ referring'.refs = referring.refs
           \/ referring'.rev = referring.rev + 1,
           (hv' = hv /\ history' = history) \/ hv' = hv + 1,
           \A e \in Clients : change'[e] = change[e] \/ change'[e] = Collector!NoEdit,
           \A e \in Clients : shot'[e] = shot[e] \/ shot'[e] = Collector!NoShot
    PROVE  ReclaimInv'
<1> USE DEF ReclaimInv
<1>1. day \in Nat /\ hv \in Nat /\ referring.rev \in Nat
  BY DEF ReclaimTyped
<1>2. SeenInTime' /\ AllHeld'
  BY <1>1 DEF SeenInTime, AllHeld
<1>3. ProposalsStand'
  <2>1. \A a \in Owned : ~gc'[a].on
    BY CollectorIdle DEF Collector!Dropped
  <2> QED
    BY <2>1 DEF ProposalsStand
<1>4. UploadsResolve'
  <2> SUFFICES ASSUME NEW d \in Clients
               PROVE  /\ change'[d].at <= day' /\ shot'[d].at <= day'
                      /\ change'[d].on /\ ~(change'[d].at + Grace <= day) => change'[d].refs \subseteq held'
                      /\ shot'[d].on /\ ~(shot'[d].at + Grace <= day) => shot'[d].refs \subseteq held'
    BY DEF UploadsResolve, Collector!Expired
  <2>1. 0 <= day
    BY <1>1
  <2>2. \/ change'[d] = change[d]
        \/ change'[d].at = 0 /\ ~change'[d].on
    BY CollectorIdle
  <2>3. \/ shot'[d] = shot[d]
        \/ shot'[d].at = 0 /\ ~shot'[d].on
    BY CollectorIdle
  <2> QED
    BY <2>1, <2>2, <2>3 DEF UploadsResolve, Collector!Expired
<1>5. PassesKnow'
  <2> SUFFICES ASSUME NEW d \in Clients
               PROVE  /\ pass[d].rev <= referring'.rev /\ pass[d].hv <= hv'
                      /\ pass[d].at # "off" /\ pass[d].rev = referring'.rev => referring'.refs \subseteq pass[d].refs
                      /\ pass[d].at \in {"inventory", "propose"} /\ pass[d].hv = hv' =>
                           \A v \in Versions :
                             history'[v].on /\ (pass[d].at = "propose" \/ pass[d].cursor <= v)
                               => history'[v].refs \subseteq pass[d].refs
    BY DEF PassesKnow
  <2>1. pass[d].rev \in Nat /\ pass[d].hv \in Nat
    BY DEF ReclaimTyped, PassRows
  <2>2. pass[d].rev <= referring.rev /\ pass[d].hv <= hv
    BY DEF PassesKnow
  <2>3. /\ pass[d].rev <= referring'.rev
        /\ pass[d].rev = referring'.rev => referring'.rev = referring.rev /\ referring'.refs = referring.refs
    BY <1>1, <2>1, <2>2
  <2>4. /\ pass[d].hv <= hv'
        /\ pass[d].hv = hv' => hv' = hv /\ history' = history
    BY <1>1, <2>1, <2>2
  <2> QED
    BY <2>3, <2>4 DEF PassesKnow
<1> QED
  BY <1>2, <1>3, <1>4, <1>5

LEMMA SeenIs ==
    ASSUME ReclaimInv, NEW more, Collector!Seen(more)
    PROVE  /\ since' \in [Owned -> Nat]
           /\ \A a \in Owned : since'[a] = day \/ since'[a] = since[a]
  BY DEF Collector!Seen, ReclaimInv, ReclaimTyped

LEMMA DroppedIs ==
    ASSUME Collector!Dropped
    PROVE  gc' \in [Owned -> Proposals]
  BY CollectorIdle DEF Collector!Dropped

LEMMA UploadKeeps ==
    ASSUME ReclaimInv, NEW d \in Clients, Collector!Upload(d)
    PROVE  ReclaimInv'
<1> USE DEF ReclaimInv
<1>1. /\ change' = [change EXCEPT ![d] = Collector!NoEdit] /\ change[d].on
      /\ UNCHANGED <<day, history, held, owned, complete, hv, ov, shot, pass>>
  BY DEF Collector!Upload
<1>2. /\ change' \in [Clients -> EditRows]
      /\ \A e \in Clients : change'[e] = change[e] \/ change'[e] = Collector!NoEdit
      /\ change'[d] = Collector!NoEdit /\ \A e \in Clients \ {d} : change'[e] = change[e]
  BY <1>1, CollectorIdle DEF ReclaimTyped
<1>3. CASE UNCHANGED <<referring, head, gc, since>>
  <2>1. \A a : Refers(a)' <=> Refers(a)
    BY <1>1, <1>3 DEF Refers
  <2>2. ReclaimTyped'
    BY <1>1, <1>2, <1>3 DEF ReclaimTyped
  <2>3. PassesKnow' /\ SeenInTime' /\ AllHeld'
    BY <1>1, <1>3, <2>1 DEF PassesKnow, SeenInTime, AllHeld
  <2>4. ProposalsStand'
    BY <1>1, <1>2, <1>3, <2>1, CollectorIdle DEF ProposalsStand
  <2>5. UploadsResolve'
    <3>1. 0 <= day
      BY DEF ReclaimTyped
    <3> QED
      BY <1>1, <1>2, <3>1, CollectorIdle DEF UploadsResolve, Collector!Expired
  <2> QED
    BY <2>2, <2>3, <2>4, <2>5
<1>4. CASE ~UNCHANGED <<referring, head, gc, since>>
  <2>1. /\ ~Collector!Expired(change[d].at) /\ Collector!Changed /\ Collector!Dropped
        /\ referring' = [referring EXCEPT !.rev = @ + 1, !.refs = change[d].refs]
        /\ Collector!Seen(referring'.refs)
    BY <1>4 DEF Collector!Upload
  <2>2. change[d].refs \subseteq held /\ change[d].refs \subseteq Owned
    BY <1>1, <2>1 DEF UploadsResolve, ReclaimTyped, EditRows
  <2>3. referring'.rev = referring.rev + 1 /\ referring'.refs = change[d].refs
    BY <2>1 DEF ReclaimTyped
  <2>4. \A a \in Owned : Refers(a)' => a \in held'
    BY <1>1, <2>2, <2>3 DEF Refers, AllHeld
  <2>5. ReclaimTyped'
    <3>1. referring' \in [rev : Nat, refs : SUBSET Owned, deleted : BOOLEAN]
      <4>1. referring.rev + 1 \in Nat /\ referring.deleted \in BOOLEAN
        BY DEF ReclaimTyped
      <4>2. referring' = [rev |-> referring.rev + 1, refs |-> change[d].refs, deleted |-> referring.deleted]
        BY <2>1 DEF ReclaimTyped
      <4> QED
        BY <2>2, <4>1, <4>2
    <3>2. since' \in [Owned -> Nat] /\ gc' \in [Owned -> Proposals] /\ head' \in Nat
      BY <2>1, SeenIs, DroppedIs DEF ReclaimTyped, Collector!Changed
    <3> QED
      BY <1>1, <1>2, <3>1, <3>2 DEF ReclaimTyped
  <2> QED
    BY <1>1, <1>2, <2>1, <2>3, <2>4, <2>5, SeenIs, RecordedChange
<1> QED
  BY <1>3, <1>4

LEMMA TrashKeeps ==
    ASSUME ReclaimInv, Collector!Trash
    PROVE  ReclaimInv'
<1> USE DEF ReclaimInv
<1>1. /\ referring' = [referring EXCEPT !.rev = @ + 1, !.deleted = ~@]
      /\ Collector!Changed /\ Collector!Dropped
      /\ UNCHANGED <<day, history, held, owned, complete, hv, ov, change, shot, pass, since>>
  BY DEF Collector!Trash
<1>2. referring'.rev = referring.rev + 1 /\ referring'.refs = referring.refs
  BY <1>1 DEF ReclaimTyped
<1>3. \A a \in Owned : Refers(a)' => a \in held'
  BY <1>1, <1>2 DEF Refers, AllHeld
<1>4. ReclaimTyped'
  <2>1. referring' \in [rev : Nat, refs : SUBSET Owned, deleted : BOOLEAN]
    <3>1. referring.rev + 1 \in Nat /\ referring.refs \subseteq Owned /\ (~referring.deleted) \in BOOLEAN
      BY DEF ReclaimTyped
    <3>2. referring' = [rev |-> referring.rev + 1, refs |-> referring.refs, deleted |-> ~referring.deleted]
      BY <1>1 DEF ReclaimTyped
    <3> QED
      BY <3>1, <3>2
  <2>2. gc' \in [Owned -> Proposals] /\ head' \in Nat
    BY <1>1, DroppedIs DEF ReclaimTyped, Collector!Changed
  <2> QED
    BY <1>1, <2>1, <2>2 DEF ReclaimTyped
<1> QED
  BY <1>1, <1>2, <1>3, <1>4, RecordedChange

LEMMA AttachKeeps ==
    ASSUME ReclaimInv, NEW b \in Owned, Collector!Attach(b)
    PROVE  ReclaimInv'
<1> USE DEF ReclaimInv
<1>1. /\ held' = held \cup {b} /\ ov' = ov + 1
      /\ Collector!Changed /\ Collector!Dropped
      /\ UNCHANGED <<day, referring, history, complete, hv, change, shot, pass, since>>
  BY DEF Collector!Attach
<1>2. \A a \in Owned : Refers(a)' => a \in held'
  BY <1>1 DEF Refers, AllHeld
<1>3. ReclaimTyped'
  BY <1>1, DroppedIs DEF ReclaimTyped, Collector!Changed
<1> QED
  BY <1>1, <1>2, <1>3, RecordedChange

LEMMA AddVersionKeeps ==
    ASSUME ReclaimInv, NEW d \in Clients, Collector!AddVersion(d)
    PROVE  ReclaimInv'
<1> USE DEF ReclaimInv
<1>1. /\ shot' = [shot EXCEPT ![d] = Collector!NoShot] /\ shot[d].on
      /\ UNCHANGED <<day, referring, held, owned, complete, ov, change, pass>>
  BY DEF Collector!AddVersion
<1>2. /\ shot' \in [Clients -> ShotRows]
      /\ \A e \in Clients : shot'[e] = shot[e] \/ shot'[e] = Collector!NoShot
      /\ shot'[d] = Collector!NoShot /\ \A e \in Clients \ {d} : shot'[e] = shot[e]
  BY <1>1, CollectorIdle DEF ReclaimTyped
<1>3. CASE UNCHANGED <<history, hv, head, gc, since>>
  <2>1. \A a : Refers(a)' <=> Refers(a)
    BY <1>1, <1>3 DEF Refers
  <2>2. ReclaimTyped'
    BY <1>1, <1>2, <1>3 DEF ReclaimTyped
  <2>3. PassesKnow' /\ SeenInTime' /\ AllHeld'
    BY <1>1, <1>3, <2>1 DEF PassesKnow, SeenInTime, AllHeld
  <2>4. ProposalsStand'
    BY <1>1, <1>2, <1>3, <2>1, CollectorIdle DEF ProposalsStand
  <2>5. UploadsResolve'
    <3>1. 0 <= day
      BY DEF ReclaimTyped
    <3> QED
      BY <1>1, <1>2, <3>1, CollectorIdle DEF UploadsResolve, Collector!Expired
  <2> QED
    BY <2>2, <2>3, <2>4, <2>5
<1>4. CASE ~UNCHANGED <<history, hv, head, gc, since>>
  <2>1. /\ ~Collector!Expired(shot[d].at) /\ Collector!Changed /\ Collector!HistoryChanged
        /\ Collector!Seen(shot[d].refs)
    BY <1>4 DEF Collector!AddVersion
  <2>2. PICK v \in Versions :
          history' = [history EXCEPT ![v] = [on |-> TRUE, refs |-> shot[d].refs, keep |-> shot[d].keep]]
    BY <1>4 DEF Collector!AddVersion, Collector!On
  <2>3. shot[d].refs \subseteq held /\ shot[d].refs \subseteq Owned /\ shot[d].keep \in BOOLEAN
    BY <1>1, <2>1 DEF UploadsResolve, ReclaimTyped, ShotRows
  <2>4. history' \in [Versions -> VersionRows]
    BY <2>2, <2>3 DEF ReclaimTyped, VersionRows
  <2>5. history'[v].refs = shot[d].refs /\ \A w \in Versions \ {v} : history'[w] = history[w]
    BY <2>2 DEF ReclaimTyped
  <2>6. \A a \in Owned : Refers(a)' => a \in held'
    BY <1>1, <2>3, <2>5 DEF Refers, AllHeld
  <2>7. hv' = hv + 1 /\ Collector!Dropped
    BY <2>1 DEF Collector!HistoryChanged
  <2>8. ReclaimTyped'
    BY <1>1, <1>2, <2>1, <2>4, <2>7, SeenIs, DroppedIs DEF ReclaimTyped, Collector!Changed
  <2> QED
    BY <1>1, <1>2, <2>1, <2>6, <2>7, <2>8, SeenIs, RecordedChange
<1> QED
  BY <1>3, <1>4

LEMMA DropVersionKeeps ==
    ASSUME ReclaimInv, NEW v \in Versions, Collector!DropVersion(v)
    PROVE  ReclaimInv'
<1> USE DEF ReclaimInv
<1>1. /\ history' = [history EXCEPT ![v] = Collector!NoVersion]
      /\ Collector!Changed /\ Collector!HistoryChanged /\ Collector!Seen({})
      /\ UNCHANGED <<day, referring, held, owned, complete, ov, change, shot, pass>>
  BY DEF Collector!DropVersion
<1>2. /\ history' \in [Versions -> VersionRows] /\ ~history'[v].on
      /\ \A w \in Versions \ {v} : history'[w] = history[w]
  BY <1>1, CollectorIdle DEF ReclaimTyped
<1>3. \A a \in Owned : Refers(a)' => a \in held'
  BY <1>1, <1>2 DEF Refers, AllHeld
<1>4. hv' = hv + 1 /\ Collector!Dropped
  BY <1>1 DEF Collector!HistoryChanged
<1>5. ReclaimTyped'
  BY <1>1, <1>2, <1>4, SeenIs, DroppedIs DEF ReclaimTyped, Collector!Changed
<1> QED
  BY <1>1, <1>3, <1>4, <1>5, SeenIs, RecordedChange

LEMMA DayKeeps ==
    ASSUME ReclaimInv, Collector!Tick
    PROVE  ReclaimInv'
<1> USE ReclaimNumbers DEF ReclaimInv
<1>1. /\ day' = day + 1
      /\ since' = [a \in Owned |-> IF a \in Collector!Referenced THEN day' ELSE since[a]]
      /\ UNCHANGED <<referring, history, held, owned, complete, hv, ov, head, gc, change, shot, pass>>
  BY DEF Collector!Tick, Collector!server
<1>2. day \in Nat /\ day' \in Nat /\ day <= day'
  BY <1>1 DEF ReclaimTyped
<1>3. \A a : Refers(a)' <=> Refers(a)
  BY <1>1 DEF Refers
<1>4. \A a \in Owned : since'[a] = IF Refers(a) THEN day' ELSE since[a]
  BY <1>1, ReferencedIs
<1>5. ReclaimTyped'
  <2>1. since' \in [Owned -> Nat]
    BY <1>1, <1>2 DEF ReclaimTyped
  <2> QED
    BY <1>1, <1>2, <2>1 DEF ReclaimTyped
<1>6. PassesKnow' /\ AllHeld'
  BY <1>1, <1>3 DEF PassesKnow, AllHeld
<1>7. SeenInTime'
  <2> SUFFICES ASSUME NEW a \in Owned PROVE since'[a] <= day'
    BY DEF SeenInTime
  <2>1. since[a] \in Nat /\ since[a] <= day
    BY DEF SeenInTime, ReclaimTyped
  <2> QED
    BY <1>2, <1>4, <2>1
<1>8. ProposalsStand'
  <2> SUFFICES ASSUME NEW a \in Owned, gc[a].on
               PROVE  /\ ~Refers(a)' /\ since'[a] <= gc[a].at /\ gc[a].at <= day'
                      /\ \A d \in Clients :
                           /\ change[d].on /\ a \in change[d].refs => change[d].at <= gc[a].at
                           /\ shot[d].on /\ a \in shot[d].refs => shot[d].at <= gc[a].at
    BY <1>1 DEF ProposalsStand
  <2>1. gc[a].at \in Nat /\ gc[a].at <= day
    BY DEF ReclaimTyped, Proposals, ProposalsStand
  <2>2. gc[a].at <= day'
    BY <1>2, <2>1
  <2> QED
    BY <1>3, <1>4, <2>2 DEF ProposalsStand
<1>9. UploadsResolve'
  <2> SUFFICES ASSUME NEW d \in Clients
               PROVE  /\ change[d].at <= day' /\ shot[d].at <= day'
                      /\ change[d].on /\ ~(change[d].at + Grace <= day') => change[d].refs \subseteq held
                      /\ shot[d].on /\ ~(shot[d].at + Grace <= day') => shot[d].refs \subseteq held
    BY <1>1 DEF UploadsResolve, Collector!Expired
  <2>1. /\ change[d].at \in Nat /\ shot[d].at \in Nat /\ change[d].at <= day /\ shot[d].at <= day
    BY DEF ReclaimTyped, EditRows, ShotRows, UploadsResolve
  <2>2. /\ change[d].at <= day' /\ shot[d].at <= day'
        /\ change[d].at + Grace <= day => change[d].at + Grace <= day'
        /\ shot[d].at + Grace <= day => shot[d].at + Grace <= day'
    BY <1>2, <2>1
  <2> QED
    BY <2>2 DEF UploadsResolve, Collector!Expired
<1> QED
  BY <1>5, <1>6, <1>7, <1>8, <1>9

-----------------------------------------------------------------------------
(* The steps of a pass.                                                     *)
LEMMA OnlyThePass ==
    ASSUME ReclaimInv, NEW d \in Clients, NEW p \in PassRows, pass' = [pass EXCEPT ![d] = p],
           UNCHANGED <<day, referring, history, held, hv, ov, head, gc, change, shot, since>>,
           p.rev <= referring.rev, p.hv <= hv,
           p.at # "off" /\ p.rev = referring.rev => referring.refs \subseteq p.refs,
           p.at \in {"inventory", "propose"} /\ p.hv = hv =>
             \A v \in Versions :
               history[v].on /\ (p.at = "propose" \/ p.cursor <= v) => history[v].refs \subseteq p.refs
    PROVE  ReclaimInv'
<1> USE DEF ReclaimInv
<1>1. \A a : Refers(a)' <=> Refers(a)
  BY DEF Refers
<1>2. pass' \in [Clients -> PassRows] /\ pass'[d] = p /\ \A e \in Clients \ {d} : pass'[e] = pass[e]
  BY DEF ReclaimTyped
<1>3. ReclaimTyped'
  BY <1>2 DEF ReclaimTyped
<1>4. PassesKnow'
  BY <1>2 DEF PassesKnow
<1>5. ProposalsStand' /\ UploadsResolve' /\ SeenInTime' /\ AllHeld'
  BY <1>1 DEF ProposalsStand, UploadsResolve, SeenInTime, AllHeld, Collector!Expired
<1> QED
  BY <1>3, <1>4, <1>5

LEMMA NoPassIsFine ==
    ASSUME ReclaimInv, NEW d \in Clients, pass' = [pass EXCEPT ![d] = Collector!NoPass],
           UNCHANGED <<day, referring, history, held, hv, ov, head, gc, change, shot, since>>
    PROVE  ReclaimInv'
<1>1. PICK p : p = Collector!NoPass
  OBVIOUS
<1>2. 0 <= referring.rev /\ 0 <= hv
  BY DEF ReclaimInv, ReclaimTyped
<1>3. p \in PassRows /\ p.at = "off" /\ p.rev = 0 /\ p.hv = 0
  BY <1>1, CollectorIdle
<1> QED
  BY <1>1, <1>2, <1>3, OnlyThePass

LEMMA BeginKeeps ==
    ASSUME ReclaimInv, NEW d \in Clients, Collector!Begin(d)
    PROVE  ReclaimInv'
<1> DEFINE p == [Collector!NoPass EXCEPT !.at = "ownership", !.rev = referring.rev, !.refs = referring.refs,
                                         !.atts = held, !.head = head]
<1>1. /\ pass' = [pass EXCEPT ![d] = p]
      /\ UNCHANGED <<day, referring, history, held, hv, ov, head, gc, change, shot, since>>
  BY DEF Collector!Begin, Collector!server
<1>2. /\ p \in PassRows /\ p.rev = referring.rev /\ p.hv = 0 /\ p.at = "ownership"
      /\ p.refs = referring.refs
  BY DEF Collector!NoPass, PassRows, ReclaimInv, ReclaimTyped
<1>3. 0 <= hv /\ referring.rev <= referring.rev
  BY DEF ReclaimInv, ReclaimTyped
<1> HIDE DEF p
<1> QED
  BY <1>1, <1>2, <1>3, OnlyThePass

LEMMA ReadOwnershipKeeps ==
    ASSUME ReclaimInv, NEW d \in Clients, Collector!ReadOwnership(d)
    PROVE  ReclaimInv'
<1> DEFINE p == [pass[d] EXCEPT !.at = IF complete THEN "inventory" ELSE "map", !.ov = ov,
                                !.cursor = 1 + Collector!Max(Versions)]
<1>1. /\ pass[d].at = "ownership" /\ pass[d] \in PassRows
      /\ UNCHANGED <<day, referring, history, held, hv, ov, head, gc, change, shot, since>>
  BY DEF Collector!ReadOwnership, Collector!server, ReclaimInv, ReclaimTyped
<1>2. pass' = [pass EXCEPT ![d] = p]
  BY DEF Collector!ReadOwnership, ReclaimInv, ReclaimTyped, PassRows
<1>3. /\ p.at \in {"inventory", "map"} /\ p.cursor = 1 + Collector!Max(Versions)
      /\ p.rev = pass[d].rev /\ p.hv = pass[d].hv /\ p.refs = pass[d].refs
  BY <1>1 DEF PassRows
<1>4. PICK last \in Nat : last = Collector!Max(Versions) /\ \A v \in Versions : v <= last
  BY LastVersion
<1>5. p \in PassRows
  <2>1. ov \in Nat /\ 1 + last \in Nat
    BY <1>4 DEF ReclaimInv, ReclaimTyped
  <2> QED
    BY <1>1, <1>4, <2>1 DEF PassRows
<1> HIDE DEF p
<1>6. \A v \in Versions : ~(p.cursor <= v)
  <2>1. p.cursor = 1 + last
    BY <1>3, <1>4
  <2> QED
    BY <1>4, <2>1, ReclaimNumbers
<1> QED
  BY <1>1, <1>2, <1>3, <1>5, <1>6, OnlyThePass DEF ReclaimInv, PassesKnow

LEMMA ReadPageKeeps ==
    ASSUME ReclaimInv, NEW d \in Clients, Collector!ReadPage(d)
    PROVE  ReclaimInv'
<1> DEFINE first == pass[d].cursor > Collector!Max(Versions)
           rest == {v \in Collector!On : v < pass[d].cursor}
<1>1. /\ pass[d].at = "inventory" /\ pass[d] \in PassRows
      /\ UNCHANGED <<day, referring, history, held, hv, ov, head, gc, change, shot, since>>
  BY DEF Collector!ReadPage, Collector!server, ReclaimInv, ReclaimTyped
<1>2. /\ pass[d].rev <= referring.rev
      /\ pass[d].rev = referring.rev => referring.refs \subseteq pass[d].refs
      /\ pass[d].hv = hv => \A v \in Versions : history[v].on /\ pass[d].cursor <= v => history[v].refs \subseteq pass[d].refs
  BY <1>1 DEF ReclaimInv, PassesKnow
<1>3. /\ hv \in Nat /\ hv <= hv /\ pass[d].cursor \in Nat /\ Versions \subseteq Nat
      /\ \A v \in Versions : history[v].refs \subseteq Owned
  BY <1>1, ReclaimNumbers DEF ReclaimInv, ReclaimTyped, PassRows, VersionRows
<1>4. CASE ~first /\ pass[d].hv # hv
  BY <1>1, <1>4, NoPassIsFine DEF Collector!ReadPage
<1>5. ASSUME first \/ pass[d].hv = hv
      PROVE  \A v \in Versions : history[v].on /\ pass[d].cursor <= v => history[v].refs \subseteq pass[d].refs
  <2>1. first => \A v \in Versions : ~(pass[d].cursor <= v)
    BY <1>3, LastVersion
  <2> QED
    BY <1>2, <1>5, <2>1
<1>6. CASE (first \/ pass[d].hv = hv) /\ rest = {}
  <2> DEFINE p == [pass[d] EXCEPT !.at = "propose", !.hv = hv]
  <2>1. pass' = [pass EXCEPT ![d] = p]
    <3>1. pass' = [pass EXCEPT ![d].at = "propose", ![d].hv = hv]
      BY <1>6 DEF Collector!ReadPage
    <3> QED
      BY <3>1 DEF ReclaimInv, ReclaimTyped, PassRows
  <2>2. /\ p \in PassRows /\ p.at = "propose" /\ p.hv = hv /\ p.rev = pass[d].rev /\ p.refs = pass[d].refs
    BY <1>1, <1>3 DEF PassRows
  <2>3. \A v \in Versions : history[v].on => pass[d].cursor <= v
    BY <1>3, <1>6 DEF Collector!On
  <2> HIDE DEF p
  <2> QED
    BY <1>1, <1>2, <1>3, <1>5, <1>6, <2>1, <2>2, <2>3, OnlyThePass
<1>7. CASE (first \/ pass[d].hv = hv) /\ rest # {}
  <2>1. PICK v : v = Collector!Max(rest)
    OBVIOUS
  <2>2. v \in rest /\ \A w \in rest : w <= v
    BY <1>7, <2>1, LatestExists DEF Collector!On
  <2>3. v \in Versions /\ history[v].on /\ v < pass[d].cursor
    BY <2>2 DEF Collector!On
  <2> DEFINE p == [pass[d] EXCEPT !.hv = hv, !.cursor = v, !.refs = @ \cup history[v].refs]
  <2>4. pass' = [pass EXCEPT ![d] = p]
    <3>1. pass' = [pass EXCEPT ![d].hv = hv, ![d].cursor = v, ![d].refs = @ \cup history[v].refs]
      BY <1>7, <2>1 DEF Collector!ReadPage
    <3> QED
      BY <3>1 DEF ReclaimInv, ReclaimTyped, PassRows
  <2>5. /\ p \in PassRows /\ p.at = "inventory" /\ p.hv = hv /\ p.rev = pass[d].rev
        /\ p.refs = pass[d].refs \cup history[v].refs /\ p.cursor = v
    BY <1>1, <1>3, <2>3 DEF PassRows
  <2>6. \A w \in Versions : history[w].on /\ v <= w => w = v \/ pass[d].cursor <= w
    <3> TAKE w \in Versions
    <3> HAVE history[w].on /\ v <= w
    <3>1. ~(w < pass[d].cursor) \/ w <= v
      BY <2>2 DEF Collector!On
    <3> QED
      BY <1>3, <2>3, <3>1
  <2> HIDE DEF p
  <2>7. \A w \in Versions : history[w].on /\ (p.at = "propose" \/ p.cursor <= w) => history[w].refs \subseteq p.refs
    BY <1>5, <1>7, <2>5, <2>6
  <2>8. p.rev = referring.rev => referring.refs \subseteq p.refs
    BY <1>2, <2>5
  <2> QED
    BY <1>1, <1>2, <1>3, <2>4, <2>5, <2>7, <2>8, OnlyThePass
<1> QED
  BY <1>4, <1>6, <1>7

LEMMA GiveUpKeeps ==
    ASSUME ReclaimInv, NEW d \in Clients, Collector!GiveUp(d)
    PROVE  ReclaimInv'
  BY NoPassIsFine DEF Collector!GiveUp, Collector!server


(* Owners are recorded, and the proposals are dropped. *)
LEMMA MapKeeps ==
    ASSUME ReclaimInv, NEW d \in Clients, Collector!Map(d)
    PROVE  ReclaimInv'
<1> USE DEF ReclaimInv
<1>1. /\ pass[d].at = "map" /\ pass[d] \in PassRows
      /\ UNCHANGED <<day, referring, history, held, hv, head, change, shot, since>>
  BY DEF Collector!Map, ReclaimTyped
<1>2. CASE UNCHANGED <<ov, gc>> /\ pass' = [pass EXCEPT ![d] = Collector!NoPass]
  BY <1>1, <1>2, NoPassIsFine
<1>3. CASE /\ ov' = ov + Collector!Cardinality(pass[d].atts \ owned) /\ Collector!Dropped
           /\ pass' = [pass EXCEPT ![d].at = "ownership"] \/ pass' = [pass EXCEPT ![d] = Collector!NoPass]
  <2>1. ov' \in Nat
    <3>1. IsFiniteSet(pass[d].atts \ owned)
      BY <1>1, ReclaimNumbers, FS_Subset DEF PassRows
    <3>2. PICK n \in Nat : n = Collector!Cardinality(pass[d].atts \ owned)
      BY <3>1, FS_CardinalityType DEF Collector!Cardinality, Cardinality
    <3> QED
      BY <1>3, <3>2 DEF ReclaimTyped
  <2>2. PICK p \in PassRows : /\ pass' = [pass EXCEPT ![d] = p]
                              /\ \/ p = [pass[d] EXCEPT !.at = "ownership"]
                                 \/ p = Collector!NoPass
    <3>1. CASE pass' = [pass EXCEPT ![d] = Collector!NoPass]
      BY <3>1, CollectorIdle
    <3>2. CASE pass' = [pass EXCEPT ![d].at = "ownership"]
      <4>1. [pass[d] EXCEPT !.at = "ownership"] \in PassRows
        BY <1>1 DEF PassRows
      <4>2. pass' = [pass EXCEPT ![d] = [pass[d] EXCEPT !.at = "ownership"]]
        BY <3>2 DEF ReclaimTyped, PassRows
      <4> QED
        BY <4>1, <4>2
    <3> QED
      BY <1>3, <3>1, <3>2
  <2>3. /\ p.rev <= referring.rev /\ p.hv <= hv /\ p.at \notin {"inventory", "propose"}
        /\ p.at # "off" => p.rev = pass[d].rev /\ p.refs = pass[d].refs
    <3>1. 0 <= hv /\ 0 <= referring.rev
      BY DEF ReclaimTyped
    <3>2. pass[d].rev <= referring.rev /\ pass[d].hv <= hv
      BY DEF PassesKnow
    <3>3. CASE p = Collector!NoPass
      BY <3>1, <3>3, CollectorIdle
    <3>4. CASE p = [pass[d] EXCEPT !.at = "ownership"]
      BY <1>1, <3>2, <3>4 DEF PassRows
    <3> QED
      BY <2>2, <3>3, <3>4
  <2>4. pass[d].at # "off"
    BY <1>1
  <2>5. pass' \in [Clients -> PassRows] /\ pass'[d] = p /\ \A e \in Clients \ {d} : pass'[e] = pass[e]
    BY <2>2 DEF ReclaimTyped
  <2>6. ReclaimTyped'
    BY <1>1, <1>3, <2>1, <2>5, DroppedIs DEF ReclaimTyped
  <2>7. PassesKnow'
    BY <1>1, <2>3, <2>4, <2>5 DEF PassesKnow
  <2>8. \A a \in Owned : ~gc'[a].on
    BY <1>3, CollectorIdle DEF Collector!Dropped
  <2>9. \A a : Refers(a)' <=> Refers(a)
    BY <1>1 DEF Refers
  <2> QED
    BY <1>1, <2>6, <2>7, <2>8, <2>9 DEF ProposalsStand, UploadsResolve, SeenInTime, AllHeld, Collector!Expired
<1> QED
  <2>1. \/ UNCHANGED <<ov, gc>> /\ pass' = [pass EXCEPT ![d] = Collector!NoPass]
        \/ /\ ov' = ov + Collector!Cardinality(pass[d].atts \ owned) /\ Collector!Dropped
           /\ pass' = [pass EXCEPT ![d].at = "ownership"] \/ pass' = [pass EXCEPT ![d] = Collector!NoPass]
    BY DEF Collector!Map
  <2> QED
    BY <1>2, <1>3, <2>1

(* The proposal of a pass: what it removes was proposed before, at least the *)
(* days of grace ago, and nothing has referred to it since.                  *)
Removable(a) ==
    gc[a].on /\ gc[a].at + Grace <= day

LEMMA ReclaimRemoves ==
    ASSUME ReclaimInv, NEW d \in Clients, Collector!Reclaim(d)
    PROVE  /\ pass' = [pass EXCEPT ![d] = Collector!NoPass]
           /\ UNCHANGED <<day, referring, history, hv, ov, head, change, shot, since>>
           /\ held' \subseteq held /\ \A a \in held \ held' : Removable(a)
           /\ gc' \in [Owned -> Proposals]
           /\ \A a \in Owned : gc'[a].on =>
                \/ gc'[a] = gc[a]
                \/ ~Refers(a) /\ gc'[a].at = day
<1> USE DEF ReclaimInv
<1> DEFINE input == pass[d]
           candidates == input.atts \ input.refs
           same(a) == gc[a].on /\ gc[a].rev = input.rev /\ gc[a].hv = input.hv /\ gc[a].ov = input.ov
           due == {a \in candidates : same(a) /\ gc[a].at + Grace <= day}
           new == [on |-> TRUE, rev |-> input.rev, hv |-> input.hv, ov |-> input.ov, at |-> day]
<1>1. /\ pass' = [pass EXCEPT ![d] = Collector!NoPass] /\ input.at = "propose"
      /\ UNCHANGED <<day, referring, history, hv, ov, head, change, shot, since>>
  BY DEF Collector!Reclaim
<1>2. \/ held' = held /\ gc' = gc
      \/ /\ referring.rev = input.rev /\ hv = input.hv
         /\ held' = held \ due
         /\ gc' = [a \in Owned |->
              IF a \in due THEN Collector!NoGc
              ELSE IF a \in candidates /\ ~same(a) THEN new ELSE gc[a]]
  BY DEF Collector!Reclaim
<1>3. input \in PassRows /\ candidates \subseteq Owned /\ day \in Nat
  BY DEF ReclaimTyped, PassRows
<1>4. new \in Proposals /\ new.at = day
  BY <1>3 DEF PassRows, Proposals
<1> HIDE DEF new
<1>5. CASE held' = held /\ gc' = gc
  BY <1>1, <1>5 DEF ReclaimTyped
<1>6. CASE /\ referring.rev = input.rev /\ hv = input.hv
           /\ held' = held \ due
           /\ gc' = [a \in Owned |->
                IF a \in due THEN Collector!NoGc
                ELSE IF a \in candidates /\ ~same(a) THEN new ELSE gc[a]]
  <2>1. \A a : Refers(a) => a \in input.refs
    BY <1>1, <1>6 DEF PassesKnow, Refers
  <2>2. \A a \in held \ held' : Removable(a)
    BY <1>6 DEF Removable
  <2>3. \A a \in Owned : \/ gc'[a] = gc[a] \/ gc'[a] = Collector!NoGc
                         \/ gc'[a] = new /\ a \in candidates
    BY <1>6
  <2>4. gc' \in [Owned -> Proposals]
    <3>1. \A a \in Owned : gc'[a] \in Proposals
      BY <2>3, <1>4, CollectorIdle DEF ReclaimTyped
    <3>2. gc' = [a \in Owned |-> gc'[a]]
      BY <1>6
    <3> QED
      BY <3>1, <3>2
  <2>5. \A a \in candidates : ~Refers(a)
    BY <2>1
  <2> HIDE DEF candidates, due, same, input
  <2>6. held' \subseteq held
    BY <1>6
  <2>7. \A a \in Owned : gc'[a].on => gc'[a] = gc[a] \/ (~Refers(a) /\ gc'[a].at = day)
    BY <2>3, <2>5, <1>4, CollectorIdle
  <2> QED
    BY <1>1, <2>2, <2>4, <2>6, <2>7
<1> QED
  BY <1>2, <1>5, <1>6

LEMMA ReclaimKeeps ==
    ASSUME ReclaimInv, NEW d \in Clients, Collector!Reclaim(d)
    PROVE  ReclaimInv'
<1> USE ReclaimNumbers DEF ReclaimInv
<1>1. /\ pass' = [pass EXCEPT ![d] = Collector!NoPass]
      /\ UNCHANGED <<day, referring, history, hv, ov, head, change, shot, since>>
      /\ held' \subseteq held /\ \A a \in held \ held' : Removable(a)
      /\ gc' \in [Owned -> Proposals]
      /\ \A a \in Owned : gc'[a].on => gc'[a] = gc[a] \/ (~Refers(a) /\ gc'[a].at = day)
  BY ReclaimRemoves
<1>2. /\ pass' \in [Clients -> PassRows] /\ \A e \in Clients \ {d} : pass'[e] = pass[e]
      /\ pass'[d].at = "off" /\ pass'[d].rev = 0 /\ pass'[d].hv = 0
  BY <1>1, CollectorIdle DEF ReclaimTyped
<1>3. \A a : Refers(a)' <=> Refers(a)
  BY <1>1 DEF Refers
<1>4. ReclaimTyped'
  BY <1>1, <1>2 DEF ReclaimTyped
<1>5. PassesKnow'
  <2>1. 0 <= hv /\ 0 <= referring.rev
    BY DEF ReclaimTyped
  <2> QED
    BY <1>1, <1>2, <2>1 DEF PassesKnow
<1>6. day \in Nat /\ day <= day
  BY DEF ReclaimTyped
<1>7. ProposalsStand'
  <2> SUFFICES ASSUME NEW a \in Owned, gc'[a].on
               PROVE  /\ ~Refers(a) /\ since[a] <= gc'[a].at /\ gc'[a].at <= day
                      /\ \A e \in Clients :
                           /\ change[e].on /\ a \in change[e].refs => change[e].at <= gc'[a].at
                           /\ shot[e].on /\ a \in shot[e].refs => shot[e].at <= gc'[a].at
    BY <1>1, <1>3 DEF ProposalsStand
  <2>1. CASE gc'[a] = gc[a]
    BY <2>1 DEF ProposalsStand
  <2>2. CASE ~Refers(a) /\ gc'[a].at = day
    BY <1>6, <2>2 DEF SeenInTime, UploadsResolve
  <2> QED
    BY <1>1, <2>1, <2>2
<1>8. ASSUME NEW a \in Owned, NEW at \in Nat, Removable(a), at <= gc[a].at
      PROVE  at + Grace <= day
  <2>1. gc[a].at \in Nat /\ gc[a].at + Grace <= day
    BY <1>8 DEF ReclaimTyped, Proposals, Removable
  <2> QED
    BY <1>6, <1>8, <2>1
<1>9. UploadsResolve'
  <2> SUFFICES ASSUME NEW e \in Clients
               PROVE  /\ change[e].at <= day /\ shot[e].at <= day
                      /\ change[e].on /\ ~(change[e].at + Grace <= day) => change[e].refs \subseteq held'
                      /\ shot[e].on /\ ~(shot[e].at + Grace <= day) => shot[e].refs \subseteq held'
    BY <1>1 DEF UploadsResolve, Collector!Expired
  <2>1. change[e].at \in Nat /\ shot[e].at \in Nat /\ change[e].refs \subseteq Owned /\ shot[e].refs \subseteq Owned
    BY DEF ReclaimTyped, EditRows, ShotRows
  <2>2. ASSUME change[e].on, ~(change[e].at + Grace <= day), NEW a \in change[e].refs PROVE a \in held'
    <3>1. a \in held /\ a \in Owned
      BY <2>1, <2>2 DEF UploadsResolve, Collector!Expired
    <3>2. ASSUME a \notin held' PROVE FALSE
      <4>1. Removable(a)
        BY <1>1, <3>1, <3>2
      <4>2. change[e].at <= gc[a].at
        BY <2>2, <3>1, <4>1 DEF ProposalsStand, Removable
      <4> QED
        BY <1>8, <2>1, <2>2, <3>1, <4>1, <4>2
    <3> QED
      BY <3>2
  <2>3. ASSUME shot[e].on, ~(shot[e].at + Grace <= day), NEW a \in shot[e].refs PROVE a \in held'
    <3>1. a \in held /\ a \in Owned
      BY <2>1, <2>3 DEF UploadsResolve, Collector!Expired
    <3>2. ASSUME a \notin held' PROVE FALSE
      <4>1. Removable(a)
        BY <1>1, <3>1, <3>2
      <4>2. shot[e].at <= gc[a].at
        BY <2>3, <3>1, <4>1 DEF ProposalsStand, Removable
      <4> QED
        BY <1>8, <2>1, <2>3, <3>1, <4>1, <4>2
    <3> QED
      BY <3>2
  <2> QED
    BY <2>2, <2>3 DEF UploadsResolve
<1>10. SeenInTime' /\ AllHeld'
  <2>1. \A a \in Owned : Refers(a) => ~Removable(a)
    BY DEF ProposalsStand, Removable
  <2> QED
    BY <1>1, <1>3, <2>1 DEF SeenInTime, AllHeld
<1> QED
  BY <1>4, <1>5, <1>7, <1>9, <1>10

LEMMA ReclaimInitHolds == Collector!Init => ReclaimInv
<1> SUFFICES ASSUME Collector!Init PROVE ReclaimInv
  OBVIOUS
<1>1. /\ day = 0 /\ referring = [rev |-> 1, refs |-> Owned, deleted |-> FALSE]
      /\ history = [v \in Versions |-> Collector!NoVersion] /\ held = Owned
      /\ hv = 0 /\ ov = 1 /\ head = 1
      /\ gc = [a \in Owned |-> Collector!NoGc] /\ change = [d \in Clients |-> Collector!NoEdit]
      /\ shot = [d \in Clients |-> Collector!NoShot] /\ pass = [d \in Clients |-> Collector!NoPass]
      /\ since = [a \in Owned |-> 0]
  BY DEF Collector!Init
<1>2. ReclaimTyped
  BY <1>1, CollectorIdle DEF ReclaimTyped
<1>3. PassesKnow
  BY <1>1, CollectorIdle DEF PassesKnow
<1>4. ProposalsStand /\ UploadsResolve
  BY <1>1, CollectorIdle DEF ProposalsStand, UploadsResolve
<1>5. SeenInTime /\ AllHeld
  BY <1>1 DEF SeenInTime, AllHeld
<1> QED
  BY <1>2, <1>3, <1>4, <1>5 DEF ReclaimInv

LEMMA ReclaimNext == ReclaimInv /\ Collector!Next => ReclaimInv'
  BY EditKeeps, CaptureKeeps, UploadKeeps, AddVersionKeeps, BeginKeeps, ReadOwnershipKeeps, MapKeeps,
     ReadPageKeeps, ReclaimKeeps, GiveUpKeeps, TrashKeeps, DayKeeps, AttachKeeps, DropVersionKeeps
  DEF Collector!Next

LEMMA ReclaimRests == ReclaimInv /\ UNCHANGED reclaimVars => ReclaimInv'
  BY DEF reclaimVars, ReclaimInv, ReclaimTyped, PassesKnow, ProposalsStand, UploadsResolve, SeenInTime,
     AllHeld, Refers, Collector!Expired

LEMMA ReclaimInvResolves == ReclaimInv => Collector!ReferencesResolve
<1> SUFFICES ASSUME ReclaimInv, NEW a \in Collector!Referenced PROVE a \in held
  BY DEF Collector!ReferencesResolve
<1>1. Refers(a)
  BY ReferencedIs
<1>2. a \in Owned
  BY <1>1 DEF Refers, ReclaimInv, ReclaimTyped, VersionRows
<1> QED
  BY <1>1, <1>2 DEF ReclaimInv, AllHeld

(* An attachment goes by the proposal of a pass only.                        *)
LEMMA GraceIsKept ==
    ReclaimInv /\ (Collector!Next \/ UNCHANGED reclaimVars)
      => \A a \in held \ held' : since[a] + Grace <= day
<1> SUFFICES ASSUME ReclaimInv, Collector!Next \/ UNCHANGED reclaimVars, NEW a \in held \ held'
             PROVE  since[a] + Grace <= day
  OBVIOUS
<1>1. \A d \in Clients, refs \in SUBSET Owned : ~Collector!Edit(d, refs)
  BY DEF Collector!Edit, Collector!server
<1>2. \A d \in Clients, keep \in BOOLEAN : ~Collector!Capture(d, keep)
  BY DEF Collector!Capture, Collector!server
<1>3. \A d \in Clients : ~Collector!Upload(d) /\ ~Collector!AddVersion(d) /\ ~Collector!Begin(d)
                         /\ ~Collector!ReadOwnership(d)
  BY DEF Collector!Upload, Collector!AddVersion, Collector!Begin, Collector!ReadOwnership, Collector!server
<1>4. \A d \in Clients : ~Collector!Map(d) /\ ~Collector!ReadPage(d) /\ ~Collector!GiveUp(d)
  BY DEF Collector!Map, Collector!ReadPage, Collector!GiveUp, Collector!server
<1>5. ~Collector!Trash /\ ~Collector!Tick /\ ~UNCHANGED reclaimVars
  BY DEF Collector!Trash, Collector!Tick, Collector!server, reclaimVars
<1>6. (\A b \in Owned : ~Collector!Attach(b)) /\ (\A v \in Versions : ~Collector!DropVersion(v))
  BY DEF Collector!Attach, Collector!DropVersion
<1>7. PICK d \in Clients : Collector!Reclaim(d)
  BY <1>1, <1>2, <1>3, <1>4, <1>5, <1>6 DEF Collector!Next
<1>8. Removable(a) /\ a \in Owned
  BY <1>7, ReclaimRemoves DEF ReclaimInv, ReclaimTyped
<1>9. since[a] <= gc[a].at /\ since[a] \in Nat /\ gc[a].at \in Nat /\ day \in Nat /\ Grace \in Nat
  BY <1>8, ReclaimNumbers DEF ReclaimInv, ReclaimTyped, ProposalsStand, Removable, Proposals
<1> QED
  BY <1>8, <1>9 DEF Removable

-----------------------------------------------------------------------------
(***************************************************************************)
(* What the editor shows, for any attachments, notes, changes and order in  *)
(* which the runs of the effect end.  One run at most is not cancelled; it  *)
(* began from what is in the cache, and what it has dealt with is right for *)
(* the key it began with, unless that attachment has changed since: then it *)
(* has a later version for good, so that the key is not the present one.    *)
(* Pins are exact: one for the attachments of the last render, and one for  *)
(* each run that makes room.                                                *)
(***************************************************************************)
Maps == [Images -> Editor!Url \cup {None}]
Signatures == UNION {[shown -> Editor!States] : shown \in SUBSET Images}
Keys == [view : DOMAIN Shows, network : BOOLEAN, signature : Signatures]
RunRows ==
    [id : Nat, key : Keys, cancelled : BOOLEAN, over : BOOLEAN, previous : Maps, next : Maps,
     todo : SUBSET Images, at : Editor!Downloads \cup {None}, created : SUBSET Editor!Url,
     failed : SUBSET Images]

UrlsTyped ==
    /\ view \in DOMAIN Shows /\ network \in BOOLEAN /\ mounted \in BOOLEAN /\ changes \in Nat
    /\ state \in [Images -> Editor!States]
    /\ cache \in Maps /\ urls \in Maps /\ alive \subseteq Editor!Url
    /\ rendered \in Keys \cup {None} /\ resolved \in Keys \cup {None}
    /\ unread \subseteq Images /\ readable \subseteq Images
    /\ runs \subseteq RunRows

(* The runs that are kept have something to wait for, but for the last one.  *)
RunsApart ==
    /\ \A r, s \in runs : r.id = s.id \/ (~r.cancelled /\ ~s.cancelled) => r = s
    /\ \A r \in runs : /\ r.id <= changes /\ (r.id = changes => rendered = Editor!Key)
                       /\ r.over <=> r.at = None
                       /\ r.over => ~r.cancelled

(* No attachment has come back to what it was under key k.                  *)
Past(k) ==
    \A a \in DOMAIN k.signature :
      /\ k.signature[a].version <= state[a].version
      /\ k.signature[a].version = state[a].version => k.signature[a] = state[a]

(* What was found for the attachments of a set is right for key k.           *)
Right(k, map, failed, done) ==
    \A a \in Images :
      IF a \in DOMAIN k.signature
      THEN a \in done /\ state[a] = k.signature[a] =>
             IF state[a].is = "live"
             THEN (map[a] # None /\ map[a].version = state[a].version) \/ a \in failed
             ELSE map[a] = None
      ELSE map[a] = None

Found(r) ==
    /\ r.todo \subseteq DOMAIN r.key.signature /\ \A a \in r.todo : r.next[a] = None
    /\ Editor!ValuesOf(r.next) \subseteq Editor!ValuesOf(cache) \cup r.created
    /\ Past(r.key) /\ Right(r.key, r.next, r.failed, Images \ r.todo)

(* The attachment a run decrypts is of the version it had at the time.       *)
Decrypting(r) ==
    /\ r.at.of \in r.todo
    /\ r.key.signature[r.at.of].version <= r.at.version /\ r.at.version <= state[r.at.of].version
    /\ r.at.version = state[r.at.of].version => state[r.at.of].is = "live"

RunsPromise ==
    \A r \in runs : ~r.cancelled /\ ~r.over =>
      /\ r.previous = cache /\ r.key = rendered /\ r.created \subseteq alive
      /\ Found(r) /\ Decrypting(r)

ShownIsAlive ==
    /\ mounted => urls = cache /\ Editor!ValuesOf(cache) \subseteq alive
    /\ ~mounted => alive = {} /\ \A r \in runs : r.cancelled
    /\ \A url \in alive :
         url \in Editor!ValuesOf(cache) \/ \E r \in runs : ~r.cancelled /\ url \in r.created

ResolvedIsRight == resolved # None => Past(resolved) /\ Right(resolved, urls, unread, Images)

MakingRoom(set, a) == {r.id : r \in {s \in set : s.at # None /\ s.at.step = "room" /\ s.at.of = a}}
PinsExact ==
    /\ pins = [a \in Images |-> pins[a]]
    /\ \A a \in Images :
         pins[a] = (IF mounted /\ a \in Editor!RenderedIds THEN 1 ELSE 0) + Cardinality(MakingRoom(runs, a))

UrlsInv ==
    /\ UrlsTyped /\ RunsApart /\ RunsPromise /\ ShownIsAlive /\ ResolvedIsRight /\ PinsExact

-----------------------------------------------------------------------------
LEMMA UrlAssumptions ==
    /\ Images \subseteq Nat /\ \A n \in DOMAIN Shows : Shows[n] \subseteq Images
    /\ None \notin Editor!Url /\ None \notin Editor!Downloads /\ None \notin Keys
<1>1. /\ Images \subseteq Nat /\ \A n \in DOMAIN Shows : Shows[n] \subseteq Images
      /\ None \notin Editor!Url /\ None \notin Editor!Downloads
      /\ \A shown \in SUBSET Images :
           None \notin [view : DOMAIN Shows, network : BOOLEAN, signature : [shown -> Editor!States]]
  BY AttachmentConstants DEF AttachmentConstants, Editor!UrlConstants
<1>2. None \notin Keys
  <2> SUFFICES ASSUME None \in Keys PROVE FALSE
    OBVIOUS
  <2>1. PICK shown \in SUBSET Images : None.signature \in [shown -> Editor!States]
    BY DEF Keys, Signatures
  <2>2. None \in [view : DOMAIN Shows, network : BOOLEAN, signature : [shown -> Editor!States]]
    BY <2>1 DEF Keys
  <2> QED
    BY <1>1, <2>2
<1> QED
  BY <1>1, <1>2

LEMMA SignatureIs ==
    /\ \A f \in Signatures : DOMAIN f \subseteq Images /\ \A a \in DOMAIN f : f[a] \in Editor!States
    /\ \A shown \in SUBSET Images : \A f \in [shown -> Editor!States] : f \in Signatures
<1>1. ASSUME NEW f \in Signatures
      PROVE  DOMAIN f \subseteq Images /\ \A a \in DOMAIN f : f[a] \in Editor!States
  <2>1. PICK shown \in SUBSET Images : f \in [shown -> Editor!States]
    BY DEF Signatures
  <2> QED
    BY <2>1
<1> QED
  BY <1>1 DEF Signatures

LEMMA KeyIs ==
    ASSUME UrlsTyped
    PROVE  /\ Editor!Key \in Keys /\ DOMAIN Editor!Key.signature = Shows[view] /\ Past(Editor!Key)
           /\ \A a \in Shows[view] : Editor!Key.signature[a] = state[a]
           /\ Shows[view] \subseteq Images /\ Editor!Key # None
<1>1. Shows[view] \subseteq Images
  BY UrlAssumptions DEF UrlsTyped
<1>2. Editor!Signature \in [Shows[view] -> Editor!States]
  BY <1>1 DEF UrlsTyped, Editor!Signature
<1>3. Editor!Signature \in Signatures
  BY <1>1, <1>2, SignatureIs
<1>4. Editor!Key \in Keys
  BY <1>3 DEF UrlsTyped, Keys, Editor!Key
<1>5. DOMAIN Editor!Key.signature = Shows[view] /\ \A a \in Shows[view] : Editor!Key.signature[a] = state[a]
  BY DEF Editor!Key, Editor!Signature
<1>6. \A a \in Images : state[a].version <= state[a].version
  BY DEF UrlsTyped, Editor!States
<1> QED
  BY <1>1, <1>4, <1>5, <1>6, UrlAssumptions DEF Past

LEMMA LeastImage ==
    ASSUME NEW S, S \subseteq Images, S # {}
    PROVE  Editor!Min(S) \in S
<1>1. S \subseteq Nat
  BY UrlAssumptions
<1>2. PICK m \in S : \A t \in S : ~(<<t, m>> \in OpToRel(<, Nat))
  BY <1>1, WFMin, NatLessThanWellFounded, Zenon
<1>3. \A t \in S : m <= t
  <2>1. \A t \in S : ~(t < m)
    BY <1>1, <1>2 DEF OpToRel
  <2> QED
    BY <1>1, <2>1
<1>4. PICK x : x = Editor!Min(S)
  OBVIOUS
<1> QED
  BY <1>3, <1>4 DEF Editor!Min

-----------------------------------------------------------------------------
(* How far a run gets at once.                                              *)
Gone(r, todo, next, g) ==
    /\ g \in RunRows /\ g.id = r.id /\ g.key = r.key /\ g.cancelled = r.cancelled /\ g.over = r.over
    /\ g.previous = r.previous /\ g.created = r.created /\ g.failed = r.failed
    /\ g.todo \subseteq todo
    /\ \A a \in todo \ g.todo : state[a].is = "live" => Editor!Hit(r, a)
    /\ \A a \in Images :
         g.next[a] = IF a \in todo \ g.todo /\ state[a].is = "live" THEN r.previous[a] ELSE next[a]
    /\ g.at = None => g.todo = {}
    /\ g.at # None =>
         /\ g.at.step = "read" /\ g.at.of \in g.todo /\ g.at.version = state[g.at.of].version
         /\ state[g.at.of].is = "live"

LEMMA GoesOn ==
    ASSUME UrlsTyped, NEW r, NEW todo, NEW next, NEW g,
           r \in RunRows, todo \subseteq Images, next \in Maps, g = Editor!Goes(r, todo, next)
    PROVE  Gone(r, todo, next, g)
<1> DEFINE misses == {a \in todo : state[a].is = "live" /\ ~Editor!Hit(r, a)}
           upTo == IF misses = {} THEN todo ELSE {a \in todo : a < Editor!Min(misses)}
           filled == [a \in Images |-> IF a \in upTo /\ state[a].is = "live" THEN r.previous[a] ELSE next[a]]
           place == IF misses = {} THEN None
                    ELSE [of |-> Editor!Min(misses), version |-> state[Editor!Min(misses)].version, step |-> "read"]
<1>1. g = [r EXCEPT !.todo = todo \ upTo, !.next = filled, !.at = place]
  BY DEF Editor!Goes
<1>2. misses \subseteq todo /\ misses \subseteq Images /\ upTo \subseteq todo
  OBVIOUS
<1>3. filled \in Maps
  BY DEF Maps, RunRows
<1>4. misses # {} => Editor!Min(misses) \in misses
  BY <1>2, LeastImage
<1>5. place \in Editor!Downloads \cup {None}
  BY <1>2, <1>4 DEF Editor!Downloads, Editor!States, UrlsTyped
<1>6. /\ g \in RunRows /\ g.id = r.id /\ g.key = r.key /\ g.cancelled = r.cancelled /\ g.over = r.over
      /\ g.previous = r.previous /\ g.created = r.created /\ g.failed = r.failed
      /\ g.todo = todo \ upTo /\ g.next = filled /\ g.at = place
  <2> HIDE DEF filled, place, upTo
  <2> QED
    BY <1>1, <1>2, <1>3, <1>5 DEF RunRows
<1>7. todo \ g.todo = upTo
  BY <1>2, <1>6
<1>8. \A a \in upTo : state[a].is = "live" => Editor!Hit(r, a)
  <2>1. CASE misses = {}
    BY <2>1
  <2>2. CASE misses # {}
    <3> SUFFICES ASSUME NEW a \in misses, a < Editor!Min(misses) PROVE FALSE
      BY <2>2
    <3>1. PICK m : m = Editor!Min(misses)
      OBVIOUS
    <3>2. misses \subseteq Nat
      BY <1>2, UrlAssumptions
    <3>3. \E x \in misses : \A y \in misses : x <= y
      <4>1. PICK x \in misses : \A t \in misses : ~(<<t, x>> \in OpToRel(<, Nat))
        BY <2>2, <3>2, WFMin, NatLessThanWellFounded, Zenon
      <4>2. \A t \in misses : ~(t < x)
        BY <3>2, <4>1 DEF OpToRel
      <4> QED
        BY <3>2, <4>2
    <3>4. m \in misses /\ \A y \in misses : m <= y
      BY <3>1, <3>3 DEF Editor!Min
    <3> QED
      BY <3>1, <3>2, <3>4
  <2> QED
    BY <2>1, <2>2
<1>9. g.at = None => g.todo = {}
  <2>1. misses # {} => place \in Editor!Downloads
    BY <1>2, <1>4 DEF Editor!Downloads, Editor!States, UrlsTyped
  <2> QED
    BY <1>6, <2>1, UrlAssumptions
<1>10. g.at # None =>
         /\ g.at.step = "read" /\ g.at.of \in g.todo /\ g.at.version = state[g.at.of].version
         /\ state[g.at.of].is = "live"
  <2> SUFFICES ASSUME misses # {}
               PROVE  /\ g.at.step = "read" /\ g.at.of \in g.todo /\ g.at.version = state[g.at.of].version
                      /\ state[g.at.of].is = "live"
    BY <1>6
  <2>1. PICK m : m = Editor!Min(misses)
    OBVIOUS
  <2>2. m \in todo /\ state[m].is = "live" /\ m \in Nat
    BY <1>4, <2>1, UrlAssumptions
  <2>3. m \notin upTo
    BY <2>1, <2>2
  <2> QED
    BY <1>6, <2>1, <2>2, <2>3
<1> QED
  BY <1>6, <1>7, <1>8, <1>9, <1>10 DEF Gone

(* What it finds on the way is right.                                       *)
LEMMA GoesFinds ==
    ASSUME UrlsTyped, NEW r, NEW todo, NEW next, NEW g, Gone(r, todo, next, g),
           todo \subseteq Images, r.previous = cache, todo \subseteq DOMAIN r.key.signature, Past(r.key),
           \A a \in todo : next[a] = None,
           Editor!ValuesOf(next) \subseteq Editor!ValuesOf(cache) \cup r.created,
           Right(r.key, next, r.failed, Images \ todo)
    PROVE  Found(g) /\ (g.at # None => Decrypting(g))
<1>1. /\ g \in RunRows /\ g.key = r.key /\ g.created = r.created /\ g.failed = r.failed /\ g.todo \subseteq todo
      /\ \A a \in todo \ g.todo : state[a].is = "live" => Editor!Hit(r, a)
      /\ \A a \in Images :
           g.next[a] = IF a \in todo \ g.todo /\ state[a].is = "live" THEN cache[a] ELSE next[a]
      /\ g.at # None =>
           /\ g.at.of \in g.todo /\ g.at.version = state[g.at.of].version /\ state[g.at.of].is = "live"
  BY DEF Gone
<1>2. g.todo \subseteq DOMAIN g.key.signature /\ \A a \in g.todo : g.next[a] = None
  BY <1>1
<1>3. Editor!ValuesOf(g.next) \subseteq Editor!ValuesOf(cache) \cup g.created
  BY <1>1 DEF Editor!ValuesOf
<1>4. Past(g.key)
  BY <1>1
<1>5. Right(g.key, g.next, g.failed, Images \ g.todo)
  <2> SUFFICES ASSUME NEW a \in Images
               PROVE  IF a \in DOMAIN r.key.signature
                      THEN a \in Images \ g.todo /\ state[a] = r.key.signature[a] =>
                             IF state[a].is = "live"
                             THEN (g.next[a] # None /\ g.next[a].version = state[a].version) \/ a \in r.failed
                             ELSE g.next[a] = None
                      ELSE g.next[a] = None
    BY <1>1 DEF Right
  <2>1. CASE a \in todo \ g.todo /\ state[a].is = "live"
    <3>1. cache[a] # None /\ cache[a].version = state[a].version /\ g.next[a] = cache[a]
      BY <1>1, <2>1 DEF Editor!Hit
    <3> QED
      BY <2>1, <3>1
  <2>2. CASE a \in todo \ g.todo /\ state[a].is # "live"
    BY <1>1, <2>2
  <2>3. CASE a \notin todo
    <3>1. g.next[a] = next[a] /\ a \in Images \ todo
      BY <1>1, <2>3
    <3> QED
      BY <2>3, <3>1 DEF Right
  <2>4. CASE a \in g.todo
    BY <1>1, <2>4
  <2> QED
    BY <2>1, <2>2, <2>3, <2>4
<1>6. g.at # None => Decrypting(g)
  <2> SUFFICES ASSUME g.at # None PROVE Decrypting(g)
    OBVIOUS
  <2>1. PICK b \in Images : b = g.at.of
    BY <1>1
  <2>2. b \in DOMAIN g.key.signature /\ state[b].version \in Nat
    BY <1>1, <2>1 DEF UrlsTyped, Editor!States
  <2>3. g.key.signature[b].version <= state[b].version /\ state[b].version <= state[b].version
    BY <1>4, <2>2 DEF Past
  <2> QED
    BY <1>1, <2>1, <2>3 DEF Decrypting
<1> QED
  BY <1>2, <1>3, <1>4, <1>5, <1>6 DEF Found

-----------------------------------------------------------------------------
(* The run that is not cancelled waits, or takes the place of what was       *)
(* shown; it was not given up, and so nothing it shows was taken back.       *)
Ready(g, others, living) ==
    /\ g \in RunRows /\ ~g.cancelled /\ ~g.over /\ g.previous = cache
    /\ Found(g) /\ (g.at # None => Decrypting(g)) /\ (g.at = None => g.todo = {})
    /\ others \subseteq RunRows
    /\ \A s \in others : s.cancelled /\ ~s.over /\ s.at # None /\ s.id # g.id /\ s.id <= changes
    /\ \A s, t \in others : s.id = t.id => s = t
    /\ g.id <= changes
    /\ living \subseteq Editor!Url /\ Editor!ValuesOf(cache) \subseteq living /\ g.created \subseteq living
    /\ \A url \in living : url \in Editor!ValuesOf(cache) \/ url \in g.created

LEMMA SettlesCurrent ==
    ASSUME UrlsInv, NEW g, NEW others, NEW living, Ready(g, others, living),
           Editor!Settle(g, others, living),
           mounted, mounted' = mounted,
           UNCHANGED <<state, view, network, changes, readable>>,
           rendered' \in Keys, g.key = rendered',
           \A s \in others : s.id = changes => rendered' = Editor!Key,
           g.id = changes => rendered' = Editor!Key
    PROVE  /\ UrlsTyped' /\ RunsApart' /\ RunsPromise' /\ ShownIsAlive' /\ ResolvedIsRight'
           /\ \E h \in RunRows : runs' = others \cup {h} /\ h.id = g.id /\ h.at = g.at
<1> USE DEF UrlsInv, Ready
<1>1. Editor!Key' = Editor!Key
  BY DEF Editor!Key, Editor!Signature
<1>2. g.id \in Nat /\ changes \in Nat
  BY DEF UrlsTyped, RunRows
<1>3. CASE g.at # None
  <2>1. runs' = others \cup {g} /\ alive' = living /\ UNCHANGED <<cache, urls, resolved, unread>>
    BY <1>3 DEF Editor!Settle
  <2>2. UrlsTyped'
    BY <2>1 DEF UrlsTyped
  <2>3. RunsApart'
    BY <1>1, <1>3, <2>1 DEF RunsApart
  <2>4. Found(g)' /\ Decrypting(g)'
    BY <1>3, <2>1 DEF Found, Decrypting, Past, Right, Editor!ValuesOf
  <2>5. RunsPromise'
    BY <2>1, <2>4 DEF RunsPromise
  <2>6. Editor!ValuesOf(cache)' = Editor!ValuesOf(cache)
    BY <2>1 DEF Editor!ValuesOf
  <2>7. ShownIsAlive'
    BY <2>1, <2>6 DEF ShownIsAlive
  <2>8. ResolvedIsRight'
    BY <2>1 DEF ResolvedIsRight, Past, Right
  <2> QED
    BY <2>1, <2>2, <2>3, <2>5, <2>7, <2>8
<1>4. CASE g.at = None
  <2> DEFINE h == [g EXCEPT !.over = TRUE]
  <2>1. /\ runs' = others \cup {h} /\ cache' = g.next /\ urls' = g.next /\ resolved' = g.key /\ unread' = g.failed
        /\ alive' = living \ (Editor!ValuesOf(cache) \ Editor!ValuesOf(g.next))
    BY <1>4 DEF Editor!Settle
  <2>2. /\ h \in RunRows /\ h.over /\ h.id = g.id /\ ~h.cancelled /\ h.at = None /\ h.created = g.created
    BY <1>4 DEF RunRows
  <2> HIDE DEF h
  <2>3. g.next \in Maps /\ g.key \in Keys /\ g.failed \subseteq Images
    BY DEF RunRows
  <2>4. UrlsTyped'
    BY <2>1, <2>2, <2>3 DEF UrlsTyped
  <2>5. RunsApart'
    BY <1>1, <2>1, <2>2 DEF RunsApart
  <2>6. RunsPromise'
    BY <2>1, <2>2 DEF RunsPromise
  <2>7. Editor!ValuesOf(cache)' = Editor!ValuesOf(g.next)
    BY <2>1 DEF Editor!ValuesOf
  <2>8. Editor!ValuesOf(g.next) \subseteq Editor!ValuesOf(cache) \cup g.created
    BY DEF Found
  <2>9. ShownIsAlive'
    <3>1. \A url \in alive' : url \in Editor!ValuesOf(g.next) \/ url \in h.created
      BY <2>1, <2>2, <2>8
    <3>2. Editor!ValuesOf(g.next) \subseteq alive'
      BY <2>1, <2>8
    <3> QED
      BY <2>1, <2>2, <2>7, <3>1, <3>2 DEF ShownIsAlive
  <2>10. ResolvedIsRight'
    <3>1. Past(g.key) /\ Right(g.key, g.next, g.failed, Images)
      BY <1>4 DEF Found
    <3> QED
      BY <2>1, <3>1 DEF ResolvedIsRight, Past, Right
  <2> QED
    BY <1>4, <2>1, <2>2, <2>4, <2>5, <2>6, <2>9, <2>10
<1> QED
  BY <1>3, <1>4

(* A run that was cancelled changes nothing but itself.                     *)
LEMMA CancelledRunsOn ==
    ASSUME UrlsInv, NEW r \in runs, NEW g \in RunRows, r.cancelled,
           Editor!Settle(g, runs \ {r}, alive), g.cancelled, ~g.over, g.id = r.id,
           UNCHANGED <<state, view, network, changes, mounted, rendered, readable>>
    PROVE  /\ UrlsTyped' /\ RunsApart' /\ RunsPromise' /\ ShownIsAlive' /\ ResolvedIsRight'
           /\ runs' = (runs \ {r}) \cup {x \in {g} : x.at # None}
<1> USE DEF UrlsInv
<1>1. /\ runs' = (runs \ {r}) \cup {x \in {g} : x.at # None}
      /\ UNCHANGED <<alive, cache, urls, resolved, unread>>
  BY DEF Editor!Settle
<1>2. Editor!Key' = Editor!Key
  BY DEF Editor!Key, Editor!Signature
<1>3. \A s \in runs' : s \in runs \/ (s = g /\ g.at # None)
  BY <1>1
<1>4. UrlsTyped'
  BY <1>1 DEF UrlsTyped
<1>5. RunsApart'
  BY <1>1, <1>2, <1>3 DEF RunsApart
<1>6. \A s : Found(s) => Found(s)'
  BY <1>1 DEF Found, Past, Right, Editor!ValuesOf
<1>7. \A s : Decrypting(s) => Decrypting(s)'
  BY DEF Decrypting
<1>8. RunsPromise'
  BY <1>1, <1>3, <1>6, <1>7 DEF RunsPromise
<1>9. Editor!ValuesOf(cache)' = Editor!ValuesOf(cache)
  BY <1>1 DEF Editor!ValuesOf
<1>10. ShownIsAlive'
  BY <1>1, <1>3, <1>9 DEF ShownIsAlive
<1>11. ResolvedIsRight'
  BY <1>1 DEF ResolvedIsRight, Past, Right
<1> QED
  BY <1>1, <1>4, <1>5, <1>8, <1>10, <1>11

-----------------------------------------------------------------------------
(* Pins *)
LEMMA RoomsFinite ==
    ASSUME UrlsTyped, RunsApart, NEW a \in Images
    PROVE  IsFiniteSet(MakingRoom(runs, a)) /\ Cardinality(MakingRoom(runs, a)) \in Nat
<1>1. \A r \in runs : r.id \in Nat /\ r.id <= changes
  BY DEF UrlsTyped, RunsApart, RunRows
<1>2. MakingRoom(runs, a) \in SUBSET Nat /\ \A n \in MakingRoom(runs, a) : n <= changes
  BY <1>1 DEF MakingRoom
<1>3. changes \in Nat
  BY DEF UrlsTyped
<1> QED
  BY <1>2, <1>3, FS_BoundedSetOfNaturals, FS_CardinalityType

LEMMA RoomsAlike ==
    ASSUME NEW R, NEW S, NEW a,
           \A r \in R : r.at # None => \E s \in S : s.id = r.id /\ s.at = r.at,
           \A s \in S : s.at # None => \E r \in R : r.id = s.id /\ r.at = s.at
    PROVE  MakingRoom(R, a) = MakingRoom(S, a)
<1>1. \A x : x \in MakingRoom(R, a) <=> \E r \in R : r.at # None /\ r.at.step = "room" /\ r.at.of = a /\ r.id = x
  BY DEF MakingRoom
<1>2. \A x : x \in MakingRoom(S, a) <=> \E r \in S : r.at # None /\ r.at.step = "room" /\ r.at.of = a /\ r.id = x
  BY DEF MakingRoom
<1>3. \A x : x \in MakingRoom(R, a) <=> x \in MakingRoom(S, a)
  BY <1>1, <1>2
<1> QED
  BY <1>3

(* A run that does not make room does not matter.                           *)
LEMMA NoRoomMade ==
    ASSUME NEW R, NEW g, NEW a, g.at # None => g.at.step # "room"
    PROVE  MakingRoom(R \cup {g}, a) = MakingRoom(R, a) /\ MakingRoom(R \ {g}, a) = MakingRoom(R, a)
<1>1. \A S, x : x \in MakingRoom(S, a) <=> \E r \in S : r.at # None /\ r.at.step = "room" /\ r.at.of = a /\ r.id = x
  BY DEF MakingRoom
<1>2. \A x : x \in MakingRoom(R \cup {g}, a) <=> x \in MakingRoom(R, a)
  BY <1>1
<1>3. \A x : x \in MakingRoom(R \ {g}, a) <=> x \in MakingRoom(R, a)
  BY <1>1
<1> QED
  BY <1>2, <1>3

LEMMA PinsRest ==
    ASSUME PinsExact, pins' = pins, mounted' = mounted, rendered' = rendered,
           \A a \in Images : MakingRoom(runs', a) = MakingRoom(runs, a)
    PROVE  PinsExact'
<1>1. (Editor!RenderedIds)' = Editor!RenderedIds
  BY DEF Editor!RenderedIds
<1>2. \A a \in Images : MakingRoom(runs, a)' = MakingRoom(runs, a)
  BY DEF MakingRoom
<1> QED
  BY <1>1, <1>2 DEF PinsExact

-----------------------------------------------------------------------------
(* What the effect's cleanup leaves.                                         *)
LEMMA CancelledIs ==
    ASSUME UrlsInv
    PROVE  /\ Editor!Cancelled \subseteq RunRows
           /\ \A s \in Editor!Cancelled :
                s.cancelled /\ ~s.over /\ s.at # None /\ \E r \in runs : ~r.over /\ r.id = s.id /\ r.at = s.at
           /\ \A s, t \in Editor!Cancelled : s.id = t.id => s = t
           /\ \A a \in Images : MakingRoom(Editor!Cancelled, a) = MakingRoom(runs, a)
<1>0. UrlsTyped /\ RunsApart
  BY DEF UrlsInv
<1> DEFINE off(r) == [r EXCEPT !.cancelled = TRUE, !.next = Editor!Empty, !.created = {}, !.failed = {}]
<1>1. Editor!Cancelled = {off(r) : r \in {x \in runs : ~x.over}}
  BY DEF Editor!Cancelled
<1>2. Editor!Empty \in Maps
  BY DEF Editor!Empty, Maps
<1>3. \A r \in runs : off(r) \in RunRows /\ off(r).cancelled /\ off(r).id = r.id /\ off(r).at = r.at /\ off(r).over = r.over
  <2> TAKE r \in runs
  <2>1. r \in RunRows
    BY <1>0 DEF UrlsTyped
  <2>2. PICK g : g = off(r)
    OBVIOUS
  <2>3. g \in RunRows
    BY <1>2, <2>1, <2>2 DEF RunRows
  <2>4. g.cancelled /\ g.id = r.id /\ g.at = r.at /\ g.over = r.over
    BY <2>1, <2>2 DEF RunRows
  <2> QED
    BY <2>2, <2>3, <2>4
<1>4. \A r \in runs : r.over <=> r.at = None
  BY <1>0 DEF RunsApart
<1>5. \A r, s \in runs : r.id = s.id => r = s
  BY <1>0 DEF RunsApart
<1> HIDE DEF off
<1>6. Editor!Cancelled \subseteq RunRows
  BY <1>1, <1>3
<1>7. \A s \in Editor!Cancelled :
        s.cancelled /\ ~s.over /\ s.at # None /\ \E r \in runs : ~r.over /\ r.id = s.id /\ r.at = s.at
  BY <1>1, <1>3, <1>4
<1>8. \A s, t \in Editor!Cancelled : s.id = t.id => s = t
  BY <1>1, <1>3, <1>5
<1>9. \A r \in runs : r.at # None => \E s \in Editor!Cancelled : s.id = r.id /\ s.at = r.at
  BY <1>1, <1>3, <1>4
<1>10. \A a \in Images : MakingRoom(Editor!Cancelled, a) = MakingRoom(runs, a)
  BY <1>7, <1>9, RoomsAlike
<1> QED
  BY <1>6, <1>7, <1>8, <1>10

(* What is left alive is in the cache.                                       *)
LEMMA GivenUpIs ==
    ASSUME UrlsInv, mounted
    PROVE  /\ Editor!ValuesOf(cache) \subseteq alive \ Editor!GivenUp
           /\ alive \ Editor!GivenUp \subseteq Editor!ValuesOf(cache)
<1>1. \A url \in alive :
        url \in Editor!ValuesOf(cache) \/ \E r \in runs : ~r.cancelled /\ url \in r.created
  BY DEF UrlsInv, ShownIsAlive
<1>2. Editor!ValuesOf(cache) \subseteq alive
  BY DEF UrlsInv, ShownIsAlive
<1>3. \A url : (\E r \in runs : ~r.cancelled /\ url \in r.created) =>
                 url \in Editor!GivenUp \/ url \in Editor!ValuesOf(cache)
  BY DEF Editor!GivenUp
<1>4. Editor!GivenUp \cap Editor!ValuesOf(cache) = {}
  BY DEF Editor!GivenUp
<1> QED
  BY <1>1, <1>2, <1>3, <1>4

-----------------------------------------------------------------------------
LEMMA EditorInitHolds ==
    ASSUME Editor!Init PROVE UrlsInv
<1> USE DEF Editor!Init
<1>1. Editor!Empty \in Maps
  BY DEF Editor!Empty, Maps
<1>2. state \in [Images -> Editor!States]
  BY DEF Editor!States
<1>3. UrlsTyped
  BY <1>1, <1>2 DEF UrlsTyped
<1>4. Editor!ValuesOf(cache) = {}
  BY DEF Editor!ValuesOf, Editor!Empty
<1>5. \A a \in Images : Cardinality(MakingRoom(runs, a)) = 0 /\ a \notin Editor!RenderedIds
  <2>1. \A a \in Images : MakingRoom(runs, a) = {}
    BY DEF MakingRoom
  <2> QED
    BY <2>1, FS_EmptySet DEF Editor!RenderedIds
<1>6. PinsExact
  BY <1>5 DEF PinsExact
<1>7. RunsApart /\ RunsPromise /\ ShownIsAlive /\ ResolvedIsRight
  BY <1>4 DEF RunsApart, RunsPromise, ShownIsAlive, ResolvedIsRight
<1> QED
  BY <1>3, <1>6, <1>7 DEF UrlsInv

-----------------------------------------------------------------------------
(* Attachments only get later versions.                                      *)
Later == \A a \in Images : state'[a] = state[a] \/ state'[a].version > state[a].version

LEMMA ChangeIsLater ==
    ASSUME UrlsTyped, Editor!Change
    PROVE  Later /\ UrlsTyped' /\ changes' = changes + 1
<1>1. changes' = changes + 1 /\ UNCHANGED <<mounted, rendered, runs, cache, urls, resolved, unread, alive, readable, pins>>
  BY DEF Editor!Change, Editor!memory, Editor!chunks
<1>2. view' \in DOMAIN Shows /\ network' \in BOOLEAN
  BY DEF UrlsTyped, Editor!Change
<1>3. state' \in [Images -> Editor!States] /\ Later
  <2>1. CASE state' = state
    BY <2>1 DEF UrlsTyped, Later
  <2>2. ASSUME NEW a \in Images, NEW s \in {"live", "deleted"},
               state' = [state EXCEPT ![a] = [version |-> @.version + 1, is |-> s]]
        PROVE  state' \in [Images -> Editor!States] /\ Later
    <3>1. state[a].version \in Nat
      BY DEF UrlsTyped, Editor!States
    <3>2. [version |-> state[a].version + 1, is |-> s] \in Editor!States
      BY <3>1 DEF Editor!States
    <3>3. state' = [state EXCEPT ![a] = [version |-> state[a].version + 1, is |-> s]]
      BY <2>2
    <3>4. state' \in [Images -> Editor!States]
      BY <3>2, <3>3 DEF UrlsTyped
    <3>5. Later
      BY <3>1, <3>3 DEF UrlsTyped, Later
    <3> QED
      BY <3>4, <3>5
  <2> QED
    BY <2>1, <2>2 DEF Editor!Change
<1> QED
  BY <1>1, <1>2, <1>3 DEF UrlsTyped

LEMMA LaterStays ==
    ASSUME UrlsTyped, UrlsTyped', Later, NEW k \in Keys
    PROVE  /\ Past(k) => Past(k)'
           /\ \A map, failed, done : Past(k) /\ Right(k, map, failed, done) => Right(k, map, failed, done)'
<1>1. \A a \in Images : state[a].version \in Nat /\ state'[a].version \in Nat
  BY DEF UrlsTyped, Editor!States
<1>2. DOMAIN k.signature \subseteq Images /\ \A a \in DOMAIN k.signature : k.signature[a].version \in Nat
  BY SignatureIs DEF Keys, Editor!States
<1>3. ASSUME Past(k), NEW a \in DOMAIN k.signature
      PROVE  /\ k.signature[a].version <= state'[a].version
             /\ k.signature[a].version = state'[a].version => k.signature[a] = state'[a] /\ state'[a] = state[a]
  <2>1. k.signature[a].version <= state[a].version
        /\ (k.signature[a].version = state[a].version => k.signature[a] = state[a])
    BY <1>3 DEF Past
  <2>2. state'[a] = state[a] \/ state'[a].version > state[a].version
    BY <1>2 DEF Later
  <2> QED
    BY <1>1, <1>2, <2>1, <2>2
<1>4. Past(k) => Past(k)'
  BY <1>3 DEF Past
<1>5. ASSUME NEW map, NEW failed, NEW done, Past(k), Right(k, map, failed, done)
      PROVE  Right(k, map, failed, done)'
  <2> SUFFICES ASSUME NEW a \in Images
               PROVE  IF a \in DOMAIN k.signature
                      THEN a \in done /\ state'[a] = k.signature[a] =>
                             IF state'[a].is = "live"
                             THEN (map[a] # None /\ map[a].version = state'[a].version) \/ a \in failed
                             ELSE map[a] = None
                      ELSE map[a] = None
    BY DEF Right
  <2>1. CASE a \in DOMAIN k.signature
    <3> SUFFICES ASSUME a \in done, state'[a] = k.signature[a]
                 PROVE  IF state'[a].is = "live"
                        THEN (map[a] # None /\ map[a].version = state'[a].version) \/ a \in failed
                        ELSE map[a] = None
      BY <2>1
    <3>1. state'[a] = state[a]
      BY <1>3, <1>5, <2>1
    <3> QED
      BY <1>5, <2>1, <3>1 DEF Right
  <2>2. CASE a \notin DOMAIN k.signature
    BY <1>5, <2>2 DEF Right
  <2> QED
    BY <2>1, <2>2
<1> QED
  BY <1>4, <1>5

LEMMA ChangeKeepsUrls ==
    ASSUME UrlsInv, Editor!Change PROVE UrlsInv'
<1> USE DEF UrlsInv
<1>1. Later /\ UrlsTyped' /\ changes' = changes + 1
  BY ChangeIsLater
<1>2. UNCHANGED <<mounted, rendered, runs, cache, urls, resolved, unread, alive, readable, pins>>
  BY DEF Editor!Change, Editor!memory, Editor!chunks
<1>3. RunsApart'
  <2>1. \A r \in runs : r.id \in Nat /\ r.id <= changes
    BY DEF UrlsTyped, RunsApart, RunRows
  <2>2. \A r \in runs : r.id <= changes' /\ r.id # changes'
    BY <1>1, <2>1 DEF UrlsTyped
  <2> QED
    BY <1>2, <2>2 DEF RunsApart
<1>4. RunsPromise'
  <2> SUFFICES ASSUME NEW r \in runs, ~r.cancelled, ~r.over
               PROVE  (/\ r.previous = cache /\ r.key = rendered /\ r.created \subseteq alive
                       /\ Found(r) /\ Decrypting(r))'
    BY <1>2 DEF RunsPromise
  <2>1. r.previous = cache /\ r.key = rendered /\ r.created \subseteq alive /\ Found(r) /\ Decrypting(r)
    BY DEF RunsPromise
  <2>2. r \in RunRows /\ r.key \in Keys /\ r.at # None
    BY DEF UrlsTyped, RunRows, RunsApart
  <2>3. Found(r)'
    BY <1>1, <1>2, <2>1, <2>2, LaterStays DEF Found, Editor!ValuesOf
  <2>4. Decrypting(r)'
    <3>1. r.at \in Editor!Downloads
      BY <2>2 DEF RunRows
    <3>2. PICK b \in Images : b = r.at.of
      BY <3>1 DEF Editor!Downloads
    <3>3. r.at.version \in Nat /\ state[b].version \in Nat /\ state'[b].version \in Nat
      BY <1>1, <3>1 DEF Editor!Downloads, Editor!States, UrlsTyped
    <3>4. state'[b] = state[b] \/ state'[b].version > state[b].version
      BY <1>1 DEF Later
    <3>5. b \in r.todo /\ r.key.signature[b].version <= r.at.version /\ r.at.version <= state[b].version
          /\ (r.at.version = state[b].version => state[b].is = "live")
      BY <2>1, <3>2 DEF Decrypting
    <3>6. r.at.version <= state'[b].version /\ (r.at.version = state'[b].version => state'[b].is = "live")
      BY <3>3, <3>4, <3>5
    <3> QED
      BY <3>2, <3>5, <3>6 DEF Decrypting
  <2> QED
    BY <1>2, <2>1, <2>3, <2>4
<1>5. ShownIsAlive'
  BY <1>2 DEF ShownIsAlive, Editor!ValuesOf
<1>6. ResolvedIsRight'
  <2> SUFFICES ASSUME resolved # None PROVE Past(resolved)' /\ Right(resolved, urls, unread, Images)'
    BY <1>2 DEF ResolvedIsRight
  <2>1. resolved \in Keys /\ Past(resolved) /\ Right(resolved, urls, unread, Images)
    BY DEF ResolvedIsRight, UrlsTyped
  <2>2. PICK k \in Keys : k = resolved
    BY <2>1
  <2>3. Past(k)' /\ Right(k, urls, unread, Images)'
    <3>1. Past(k) /\ Right(k, urls, unread, Images)
      BY <2>1, <2>2
    <3>2. PICK m, f : m = urls /\ f = unread
      OBVIOUS
    <3>3. Past(k)' /\ Right(k, m, f, Images)'
      BY <1>1, <3>1, <3>2, LaterStays
    <3> QED
      BY <1>2, <3>2, <3>3 DEF Right
  <2> QED
    BY <1>2, <2>2, <2>3 DEF Past, Right
<1>7. PinsExact'
  BY <1>2, PinsRest
<1> QED
  BY <1>1, <1>3, <1>4, <1>5, <1>6, <1>7

-----------------------------------------------------------------------------
LEMMA RenderKeepsUrls ==
    ASSUME UrlsInv, Editor!Render PROVE UrlsInv'
<1>0. UrlsTyped /\ RunsApart /\ RunsPromise /\ ShownIsAlive /\ ResolvedIsRight /\ PinsExact
  BY DEF UrlsInv
<1>1. /\ mounted /\ mounted' = mounted /\ rendered # Editor!Key /\ rendered' = Editor!Key
      /\ UNCHANGED <<state, view, network, changes, readable>>
      /\ pins' = Editor!Pinned(Shows[view], Editor!Unpinned(Editor!RenderedIds, pins))
  BY DEF Editor!Render, Editor!world
<1>2. /\ Editor!Key \in Keys /\ DOMAIN Editor!Key.signature = Shows[view] /\ Past(Editor!Key)
      /\ Shows[view] \subseteq Images
  BY <1>0, KeyIs
<1> DEFINE living == alive \ Editor!GivenUp
<1>3. PICK r : r = [id |-> changes, key |-> Editor!Key, cancelled |-> FALSE, over |-> FALSE, previous |-> cache,
                    next |-> Editor!Empty, todo |-> Shows[view], at |-> None, created |-> {}, failed |-> {}]
  OBVIOUS
<1>4. PICK g : g = Editor!Goes(r, r.todo, r.next)
  OBVIOUS
<1>5. Editor!Settle(g, Editor!Cancelled, living)
  BY <1>3, <1>4 DEF Editor!Render
<1>6. Editor!Empty \in Maps /\ Editor!ValuesOf(Editor!Empty) = {} /\ \A a \in Images : Editor!Empty[a] = None
  BY DEF Editor!Empty, Maps, Editor!ValuesOf
<1>7. r \in RunRows
  BY <1>0, <1>2, <1>3, <1>6 DEF RunRows, UrlsTyped
<1>8. Gone(r, r.todo, r.next, g)
  <2>1. r.todo \subseteq Images /\ r.next \in Maps
    BY <1>2, <1>3, <1>6
  <2> QED
    BY <1>0, <1>4, <1>7, <2>1, GoesOn
<1>9. Found(g) /\ (g.at # None => Decrypting(g))
  <2>1. Right(r.key, r.next, r.failed, Images \ r.todo)
    BY <1>2, <1>3, <1>6 DEF Right
  <2>2. /\ r.todo \subseteq Images /\ r.previous = cache /\ r.todo \subseteq DOMAIN r.key.signature /\ Past(r.key)
        /\ \A a \in r.todo : r.next[a] = None
        /\ Editor!ValuesOf(r.next) \subseteq Editor!ValuesOf(cache) \cup r.created
    BY <1>2, <1>3, <1>6
  <2> QED
    BY <1>0, <1>8, <2>1, <2>2, GoesFinds
<1>10. /\ Editor!Cancelled \subseteq RunRows
       /\ \A s \in Editor!Cancelled :
            s.cancelled /\ ~s.over /\ s.at # None /\ \E x \in runs : ~x.over /\ x.id = s.id /\ x.at = s.at
       /\ \A s, t \in Editor!Cancelled : s.id = t.id => s = t
       /\ \A a \in Images : MakingRoom(Editor!Cancelled, a) = MakingRoom(runs, a)
  BY CancelledIs
<1>11. \A x \in runs : x.id <= changes /\ x.id # changes
  BY <1>0, <1>1 DEF RunsApart
<1>12. g \in RunRows /\ g.id = changes /\ g.key = Editor!Key /\ ~g.cancelled /\ ~g.over /\ g.previous = cache
       /\ g.created = {} /\ (g.at = None => g.todo = {}) /\ (g.at # None => g.at.step = "read")
  BY <1>3, <1>8 DEF Gone
<1>13. Ready(g, Editor!Cancelled, living)
  <2>1. /\ living \subseteq Editor!Url /\ Editor!ValuesOf(cache) \subseteq living
        /\ \A url \in living : url \in Editor!ValuesOf(cache)
    BY <1>0, <1>1, GivenUpIs DEF UrlsTyped
  <2>2. \A s \in Editor!Cancelled : s.id # g.id /\ s.id <= changes
    BY <1>10, <1>11, <1>12
  <2>3. g.id <= changes
    BY <1>0, <1>12 DEF UrlsTyped
  <2> QED
    BY <1>9, <1>10, <1>12, <2>1, <2>2, <2>3 DEF Ready
<1>14. /\ UrlsTyped' /\ RunsApart' /\ RunsPromise' /\ ShownIsAlive' /\ ResolvedIsRight'
       /\ \E h \in RunRows : runs' = Editor!Cancelled \cup {h} /\ h.id = g.id /\ h.at = g.at
  <2>1. PICK others, lives : others = Editor!Cancelled /\ lives = living
    OBVIOUS
  <2>2. Ready(g, others, lives) /\ Editor!Settle(g, others, lives)
    BY <1>5, <1>13, <2>1
  <2>3. rendered' \in Keys /\ g.key = rendered' /\ rendered' = Editor!Key
    BY <1>1, <1>2, <1>12
  <2>4. /\ UrlsTyped' /\ RunsApart' /\ RunsPromise' /\ ShownIsAlive' /\ ResolvedIsRight'
        /\ \E h \in RunRows : runs' = others \cup {h} /\ h.id = g.id /\ h.at = g.at
    BY <1>1, <2>2, <2>3, SettlesCurrent
  <2> QED
    BY <2>1, <2>4
<1>15. PinsExact'
  <2>1. PICK h \in RunRows : runs' = Editor!Cancelled \cup {h} /\ h.at = g.at
    BY <1>14
  <2>2. \A a \in Images : MakingRoom(runs', a) = MakingRoom(runs, a)
    <3>1. PICK others : others = Editor!Cancelled
      OBVIOUS
    <3>2. h.at # None => h.at.step # "room"
      BY <1>12, <2>1
    <3>3. \A a \in Images : MakingRoom(others \cup {h}, a) = MakingRoom(others, a)
      BY <3>2, NoRoomMade
    <3>4. \A a \in Images : MakingRoom(others, a) = MakingRoom(runs, a)
      BY <1>10, <3>1
    <3>5. runs' = others \cup {h}
      BY <2>1, <3>1
    <3> QED
      BY <3>3, <3>4, <3>5
  <2>3. \A a \in Images : MakingRoom(runs, a)' = MakingRoom(runs, a)
    BY <2>2 DEF MakingRoom
  <2>4. rendered' # None
    BY <1>1, <1>2, UrlAssumptions
  <2>5. (Editor!RenderedIds)' = Shows[view]
    BY <1>1, <1>2, <2>4 DEF Editor!RenderedIds
  <2>6. \A a \in Images : Cardinality(MakingRoom(runs, a)) \in Nat
    BY <1>0, RoomsFinite
  <2>7. \A a \in Images : pins[a] = (IF a \in Editor!RenderedIds THEN 1 ELSE 0) + Cardinality(MakingRoom(runs, a))
    BY <1>0, <1>1 DEF PinsExact
  <2>8. \A a \in Images : Editor!Unpinned(Editor!RenderedIds, pins)[a] = Cardinality(MakingRoom(runs, a))
    BY <2>6, <2>7 DEF Editor!Unpinned
  <2>9. \A a \in Images : pins'[a] = (IF a \in Shows[view] THEN 1 ELSE 0) + Cardinality(MakingRoom(runs, a))
    BY <1>1, <2>6, <2>8 DEF Editor!Pinned
  <2>10. pins' = [a \in Images |-> pins'[a]]
    BY <1>1 DEF Editor!Pinned
  <2> QED
    BY <1>1, <2>3, <2>5, <2>9, <2>10 DEF PinsExact
<1> QED
  BY <1>14, <1>15 DEF UrlsInv

LEMMA UnmountKeepsUrls ==
    ASSUME UrlsInv, Editor!Unmount PROVE UrlsInv'
<1>0. UrlsTyped /\ RunsApart /\ RunsPromise /\ ShownIsAlive /\ ResolvedIsRight /\ PinsExact
  BY DEF UrlsInv
<1>1. /\ mounted /\ mounted' = FALSE
      /\ UNCHANGED <<state, view, network, changes, rendered, urls, resolved, unread, readable>>
      /\ pins' = Editor!Unpinned(Editor!RenderedIds, pins) /\ runs' = Editor!Cancelled
      /\ alive' = (alive \ Editor!GivenUp) \ Editor!ValuesOf(cache) /\ cache' = Editor!Empty
  BY DEF Editor!Unmount, Editor!world
<1>2. /\ Editor!Cancelled \subseteq RunRows
      /\ \A s \in Editor!Cancelled :
           s.cancelled /\ ~s.over /\ s.at # None /\ \E x \in runs : ~x.over /\ x.id = s.id /\ x.at = s.at
      /\ \A s, t \in Editor!Cancelled : s.id = t.id => s = t
      /\ \A a \in Images : MakingRoom(Editor!Cancelled, a) = MakingRoom(runs, a)
  BY CancelledIs
<1>3. alive' = {}
  BY <1>1, GivenUpIs
<1>4. Editor!Empty \in Maps
  BY DEF Editor!Empty, Maps
<1>5. UrlsTyped'
  BY <1>0, <1>1, <1>2, <1>3, <1>4 DEF UrlsTyped
<1>6. Editor!Key' = Editor!Key
  BY <1>1 DEF Editor!Key, Editor!Signature
<1>7. RunsApart'
  <2>1. \A x \in runs : x.id <= changes /\ (x.id = changes => rendered = Editor!Key)
    BY <1>0 DEF RunsApart
  <2> QED
    BY <1>1, <1>2, <1>6, <2>1 DEF RunsApart
<1>8. RunsPromise' /\ ShownIsAlive'
  BY <1>1, <1>2, <1>3 DEF RunsPromise, ShownIsAlive
<1>9. ResolvedIsRight'
  BY <1>0, <1>1 DEF ResolvedIsRight, Past, Right
<1>10. PinsExact'
  <2>1. \A a \in Images : MakingRoom(runs, a)' = MakingRoom(runs, a)
    BY <1>1, <1>2 DEF MakingRoom
  <2>2. \A a \in Images : Cardinality(MakingRoom(runs, a)) \in Nat
    BY <1>0, RoomsFinite
  <2>3. \A a \in Images : pins[a] = (IF a \in Editor!RenderedIds THEN 1 ELSE 0) + Cardinality(MakingRoom(runs, a))
    BY <1>0, <1>1 DEF PinsExact
  <2>4. \A a \in Images : pins'[a] = Cardinality(MakingRoom(runs, a))
    BY <1>1, <2>2, <2>3 DEF Editor!Unpinned
  <2>5. pins' = [a \in Images |-> pins'[a]]
    BY <1>1 DEF Editor!Unpinned
  <2> QED
    BY <1>1, <2>1, <2>2, <2>4, <2>5 DEF PinsExact
<1> QED
  BY <1>5, <1>7, <1>8, <1>9, <1>10 DEF UrlsInv

-----------------------------------------------------------------------------
(* A run of the effect takes a step of decryptAttachmentBlob.                *)
LEMMA StepsOn ==
    ASSUME UrlsInv, NEW r \in runs, NEW st \in {"read", "room", "open"}, r.at # None, Editor!Step(r, st),
           UNCHANGED <<state, view, network, changes, mounted, rendered, cache, urls, resolved, unread, alive>>,
           readable' \subseteq Images
    PROVE  /\ UrlsTyped' /\ RunsApart' /\ RunsPromise' /\ ShownIsAlive' /\ ResolvedIsRight'
           /\ \E h \in RunRows : /\ runs' = (runs \ {r}) \cup {h} /\ h.id = r.id
                                 /\ h.at # None /\ h.at.step = st /\ h.at.of = r.at.of
<1>0. UrlsTyped /\ RunsApart /\ RunsPromise /\ ShownIsAlive /\ ResolvedIsRight
  BY DEF UrlsInv
<1>1. PICK h : h = [r EXCEPT !.at.step = st]
  OBVIOUS
<1>2. r \in RunRows /\ r.at \in Editor!Downloads
  BY <1>0 DEF UrlsTyped, RunRows
<1>3. PICK d : d = [r.at EXCEPT !.step = st]
  OBVIOUS
<1>4. d \in Editor!Downloads /\ d.step = st /\ d.of = r.at.of /\ d.version = r.at.version /\ d # None
  <2>1. d \in Editor!Downloads /\ d.step = st /\ d.of = r.at.of /\ d.version = r.at.version
    BY <1>2, <1>3 DEF Editor!Downloads
  <2> QED
    BY <2>1, UrlAssumptions
<1>5. h = [r EXCEPT !.at = d]
  BY <1>1, <1>2, <1>3 DEF RunRows
<1>6. /\ h \in RunRows /\ h.id = r.id /\ h.key = r.key /\ h.cancelled = r.cancelled /\ h.over = r.over
      /\ h.previous = r.previous /\ h.next = r.next /\ h.todo = r.todo /\ h.at = d
      /\ h.created = r.created /\ h.failed = r.failed
  BY <1>2, <1>4, <1>5 DEF RunRows
<1>7. runs' = (runs \ {r}) \cup {h}
  BY <1>1 DEF Editor!Step
<1>8. UrlsTyped'
  BY <1>0, <1>6, <1>7 DEF UrlsTyped
<1>9. Editor!Key' = Editor!Key
  BY DEF Editor!Key, Editor!Signature
<1>10. RunsApart'
  BY <1>0, <1>4, <1>6, <1>7, <1>9 DEF RunsApart
<1>11. \A s \in runs : (Found(s) => Found(s)') /\ (Decrypting(s) => Decrypting(s)')
  BY DEF Found, Decrypting, Past, Right, Editor!ValuesOf
<1>12. (Found(r) => Found(h)') /\ (Decrypting(r) => Decrypting(h)')
  BY <1>4, <1>6 DEF Found, Decrypting, Past, Right, Editor!ValuesOf
<1>13. RunsPromise'
  BY <1>0, <1>6, <1>7, <1>11, <1>12 DEF RunsPromise
<1>14. Editor!ValuesOf(cache)' = Editor!ValuesOf(cache)
  BY DEF Editor!ValuesOf
<1>15. ShownIsAlive'
  <2>1. \A url : (\E s \in runs : ~s.cancelled /\ url \in s.created) =>
                   \E s \in runs' : ~s.cancelled /\ url \in s.created
    BY <1>6, <1>7
  <2>2. (\A s \in runs : s.cancelled) => \A s \in runs' : s.cancelled
    BY <1>6, <1>7
  <2> QED
    BY <1>0, <1>14, <2>1, <2>2 DEF ShownIsAlive
<1>16. ResolvedIsRight'
  BY <1>0 DEF ResolvedIsRight, Past, Right
<1> QED
  BY <1>4, <1>6, <1>7, <1>8, <1>10, <1>13, <1>15, <1>16

Moves(R, S, r, h) ==
    /\ r \in R /\ S = (R \ {r}) \cup {h} /\ \A s \in R : s.id = r.id => s = r
    /\ h.id = r.id /\ r.at # None /\ h.at # None /\ h.at.of = r.at.of
RoomsMoved(R, S, r, h) ==
    \A a : MakingRoom(S, a)
            = (IF r.at.of = a /\ r.at.step = "room" THEN MakingRoom(R, a) \ {r.id} ELSE MakingRoom(R, a))
               \cup (IF r.at.of = a /\ h.at.step = "room" THEN {r.id} ELSE {})

LEMMA RoomsAt ==
    ASSUME NEW R, NEW S, NEW r, NEW h, Moves(R, S, r, h) PROVE RoomsMoved(R, S, r, h)
<1> USE DEF Moves
<1> SUFFICES ASSUME NEW a
             PROVE  MakingRoom(S, a)
                    = (IF r.at.of = a /\ r.at.step = "room" THEN MakingRoom(R, a) \ {r.id} ELSE MakingRoom(R, a))
                      \cup (IF r.at.of = a /\ h.at.step = "room" THEN {r.id} ELSE {})
  BY DEF RoomsMoved
<1>1. \A T, x : x \in MakingRoom(T, a) <=> \E s \in T : s.at # None /\ s.at.step = "room" /\ s.at.of = a /\ s.id = x
  BY DEF MakingRoom
<1>2. \A x : x \in MakingRoom(S, a) <=>
          \/ \E s \in R \ {r} : s.at # None /\ s.at.step = "room" /\ s.at.of = a /\ s.id = x
          \/ h.at.step = "room" /\ r.at.of = a /\ r.id = x
  BY <1>1
<1>3. \A x : (\E s \in R \ {r} : s.at # None /\ s.at.step = "room" /\ s.at.of = a /\ s.id = x) <=>
             x \in MakingRoom(R, a) /\ x # r.id
  BY <1>1
<1>4. r.id \in MakingRoom(R, a) <=> r.at.of = a /\ r.at.step = "room"
  BY <1>1
<1> QED
  BY <1>2, <1>3, <1>4

LEMMA ReadingKeepsUrls ==
    ASSUME UrlsInv, NEW r \in runs, Editor!ReadStored(r) \/ Editor!Download(r) \/ Editor!Released(r)
    PROVE  UrlsInv'
<1>0. UrlsTyped /\ RunsApart /\ PinsExact
  BY DEF UrlsInv
<1>1. /\ UNCHANGED <<state, view, network, changes, mounted, rendered, cache, urls, resolved, unread, alive>>
      /\ r.at # None
  BY DEF Editor!ReadStored, Editor!Download, Editor!Released, Editor!At, Editor!world, Editor!memory
<1>2. r \in RunRows /\ r.at.of \in Images /\ r.id \in Nat /\ \A s \in runs : s.id = r.id => s = r
  BY <1>0, <1>1 DEF UrlsTyped, RunRows, RunsApart, Editor!Downloads
<1>3. (Editor!RenderedIds)' = Editor!RenderedIds
  BY <1>1 DEF Editor!RenderedIds
<1>4. PICK b \in Images : b = r.at.of
  BY <1>2
<1>5. \A a \in Images : IsFiniteSet(MakingRoom(runs, a)) /\ Cardinality(MakingRoom(runs, a)) \in Nat
  BY <1>0, RoomsFinite
<1>6. r.id \in MakingRoom(runs, b) <=> r.at.step = "room"
  BY <1>1, <1>2, <1>4 DEF MakingRoom
<1>7. CASE Editor!ReadStored(r)
  <2>1. readable' = readable /\ pins' = pins /\ r.at.step = "read" /\ Editor!Step(r, "open")
    BY <1>7 DEF Editor!ReadStored, Editor!At, Editor!chunks
  <2>2. readable' \subseteq Images
    BY <1>0, <2>1 DEF UrlsTyped
  <2>3. /\ UrlsTyped' /\ RunsApart' /\ RunsPromise' /\ ShownIsAlive' /\ ResolvedIsRight'
        /\ \E h \in RunRows : runs' = (runs \ {r}) \cup {h} /\ h.id = r.id
                              /\ h.at # None /\ h.at.step = "open" /\ h.at.of = r.at.of
    BY <1>1, <2>1, <2>2, StepsOn
  <2>4. \A a \in Images : MakingRoom(runs', a) = MakingRoom(runs, a)
    <3>1. PICK h : runs' = (runs \ {r}) \cup {h} /\ h.id = r.id /\ h.at # None /\ h.at.step = "open" /\ h.at.of = r.at.of
      BY <2>3
    <3>2. Moves(runs, runs', r, h)
      BY <1>1, <1>2, <3>1 DEF Moves
    <3>3. RoomsMoved(runs, runs', r, h)
      BY <3>2, RoomsAt
    <3> QED
      BY <1>4, <2>1, <3>1, <3>3 DEF RoomsMoved
  <2>5. PinsExact'
    BY <1>0, <1>1, <2>1, <2>4, PinsRest
  <2> QED
    BY <2>3, <2>5 DEF UrlsInv
<1>8. CASE Editor!Download(r)
  <2>1. /\ readable' = readable \cup {b} /\ pins' = Editor!Pinned({b}, pins)
        /\ r.at.step = "read" /\ Editor!Step(r, "room")
    BY <1>4, <1>8 DEF Editor!Download, Editor!At
  <2>2. readable' \subseteq Images
    BY <1>0, <2>1 DEF UrlsTyped
  <2>3. /\ UrlsTyped' /\ RunsApart' /\ RunsPromise' /\ ShownIsAlive' /\ ResolvedIsRight'
        /\ \E h \in RunRows : runs' = (runs \ {r}) \cup {h} /\ h.id = r.id
                              /\ h.at # None /\ h.at.step = "room" /\ h.at.of = r.at.of
    BY <1>1, <2>1, <2>2, StepsOn
  <2>4. \A a \in Images : MakingRoom(runs', a) = IF a = b THEN MakingRoom(runs, a) \cup {r.id} ELSE MakingRoom(runs, a)
    <3>1. PICK h : runs' = (runs \ {r}) \cup {h} /\ h.id = r.id /\ h.at # None /\ h.at.step = "room" /\ h.at.of = r.at.of
      BY <2>3
    <3>2. Moves(runs, runs', r, h)
      BY <1>1, <1>2, <3>1 DEF Moves
    <3>3. RoomsMoved(runs, runs', r, h)
      BY <3>2, RoomsAt
    <3> QED
      BY <1>4, <2>1, <3>1, <3>3 DEF RoomsMoved
  <2>5. \A a \in Images : MakingRoom(runs, a)' = IF a = b THEN MakingRoom(runs, a) \cup {r.id} ELSE MakingRoom(runs, a)
    BY <2>4 DEF MakingRoom
  <2>6. Cardinality(MakingRoom(runs, b) \cup {r.id}) = Cardinality(MakingRoom(runs, b)) + 1
    BY <1>5, <1>6, <2>1, FS_AddElement
  <2>7. \A a \in Images : Cardinality(MakingRoom(runs, a)')
          = Cardinality(MakingRoom(runs, a)) + (IF a = b THEN 1 ELSE 0)
    BY <1>5, <2>5, <2>6
  <2>8. \A a \in Images : pins'[a] = pins[a] + (IF a = b THEN 1 ELSE 0)
    BY <1>0, <1>5, <2>1 DEF Editor!Pinned, PinsExact
  <2>9. pins' = [a \in Images |-> pins'[a]]
    BY <2>1 DEF Editor!Pinned
  <2>10. PinsExact'
    BY <1>0, <1>1, <1>3, <1>5, <2>7, <2>8, <2>9 DEF PinsExact
  <2> QED
    BY <2>3, <2>10 DEF UrlsInv
<1>9. CASE Editor!Released(r)
  <2>1. readable' = readable /\ pins' = Editor!Unpinned({b}, pins) /\ r.at.step = "room" /\ Editor!Step(r, "open")
    BY <1>4, <1>9 DEF Editor!Released, Editor!At
  <2>2. readable' \subseteq Images
    BY <1>0, <2>1 DEF UrlsTyped
  <2>3. /\ UrlsTyped' /\ RunsApart' /\ RunsPromise' /\ ShownIsAlive' /\ ResolvedIsRight'
        /\ \E h \in RunRows : runs' = (runs \ {r}) \cup {h} /\ h.id = r.id
                              /\ h.at # None /\ h.at.step = "open" /\ h.at.of = r.at.of
    BY <1>1, <2>1, <2>2, StepsOn
  <2>4. \A a \in Images : MakingRoom(runs', a) = IF a = b THEN MakingRoom(runs, a) \ {r.id} ELSE MakingRoom(runs, a)
    <3>1. PICK h : runs' = (runs \ {r}) \cup {h} /\ h.id = r.id /\ h.at # None /\ h.at.step = "open" /\ h.at.of = r.at.of
      BY <2>3
    <3>2. Moves(runs, runs', r, h)
      BY <1>1, <1>2, <3>1 DEF Moves
    <3>3. RoomsMoved(runs, runs', r, h)
      BY <3>2, RoomsAt
    <3> QED
      BY <1>4, <2>1, <3>1, <3>3 DEF RoomsMoved
  <2>5. \A a \in Images : MakingRoom(runs, a)' = IF a = b THEN MakingRoom(runs, a) \ {r.id} ELSE MakingRoom(runs, a)
    BY <2>4 DEF MakingRoom
  <2>6. Cardinality(MakingRoom(runs, b) \ {r.id}) = Cardinality(MakingRoom(runs, b)) - 1
    BY <1>5, <1>6, <2>1, FS_RemoveElement
  <2>7. \A a \in Images : Cardinality(MakingRoom(runs, a)')
          = Cardinality(MakingRoom(runs, a)) - (IF a = b THEN 1 ELSE 0)
    BY <1>5, <2>5, <2>6
  <2>8. \A a \in Images : pins'[a] = pins[a] - (IF a = b THEN 1 ELSE 0)
    BY <1>0, <1>5, <2>1 DEF Editor!Unpinned, PinsExact
  <2>9. pins' = [a \in Images |-> pins'[a]]
    BY <2>1 DEF Editor!Unpinned
  <2>10. PinsExact'
    BY <1>0, <1>1, <1>3, <1>5, <2>7, <2>8, <2>9 DEF PinsExact
  <2> QED
    BY <2>3, <2>10 DEF UrlsInv
<1> QED
  BY <1>7, <1>8, <1>9

-----------------------------------------------------------------------------
(* The run that is not cancelled, when it is done with one more attachment.  *)
LEMMA OthersWait ==
    ASSUME UrlsTyped, RunsApart, NEW r \in runs, ~r.cancelled
    PROVE  /\ runs \ {r} \subseteq RunRows
           /\ \A s \in runs \ {r} : s.cancelled /\ ~s.over /\ s.at # None /\ s.id # r.id /\ s.id <= changes
                                    /\ (s.id = changes => rendered = Editor!Key)
           /\ \A s, t \in runs \ {r} : s.id = t.id => s = t
  BY DEF UrlsTyped, RunsApart

Dealt(r, q, todo, next, living) ==
    /\ r \in runs /\ r.at # None /\ ~r.cancelled
    /\ q \in RunRows /\ q.id = r.id /\ q.key = r.key /\ ~q.cancelled /\ ~q.over /\ q.previous = r.previous
    /\ todo = r.todo \ {r.at.of} /\ next \in Maps /\ \A a \in todo : next[a] = None
    /\ Editor!ValuesOf(next) \subseteq Editor!ValuesOf(cache) \cup q.created
    /\ Right(r.key, next, q.failed, Images \ todo)
    /\ living \subseteq Editor!Url /\ alive \subseteq living /\ q.created \subseteq living
    /\ \A url \in living : url \in alive \/ url \in q.created
    /\ r.created \subseteq q.created

LEMMA RunGoesOn ==
    ASSUME UrlsInv, NEW r, NEW q, NEW todo, NEW next, NEW living, Dealt(r, q, todo, next, living),
           Editor!Settle(Editor!Goes(q, todo, next), runs \ {r}, living),
           UNCHANGED <<state, view, network, changes, mounted, rendered, readable>>
    PROVE  /\ UrlsTyped' /\ RunsApart' /\ RunsPromise' /\ ShownIsAlive' /\ ResolvedIsRight'
           /\ \E h \in RunRows : runs' = (runs \ {r}) \cup {h} /\ h.id = r.id
                                 /\ (h.at # None => h.at.step = "read")
<1> USE DEF Dealt
<1>0. UrlsTyped /\ RunsApart /\ RunsPromise /\ ShownIsAlive
  BY DEF UrlsInv
<1>1. r \in RunRows /\ ~r.over
  BY <1>0 DEF UrlsTyped, RunsApart
<1>2. mounted /\ Editor!ValuesOf(cache) \subseteq alive
  BY <1>0 DEF ShownIsAlive, UrlsTyped
<1>3. r.previous = cache /\ r.key = rendered /\ Found(r)
  BY <1>0, <1>1 DEF RunsPromise
<1>4. todo \subseteq Images /\ todo \subseteq DOMAIN q.key.signature /\ Past(q.key)
  BY <1>1, <1>3 DEF RunRows, Found
<1>5. PICK g : g = Editor!Goes(q, todo, next)
  OBVIOUS
<1>6. Gone(q, todo, next, g)
  BY <1>0, <1>4, <1>5, GoesOn
<1>7. Found(g) /\ (g.at # None => Decrypting(g))
  BY <1>0, <1>3, <1>4, <1>6, GoesFinds
<1>8. /\ g \in RunRows /\ g.id = r.id /\ g.key = rendered /\ ~g.cancelled /\ ~g.over /\ g.previous = cache
      /\ g.created = q.created /\ (g.at = None => g.todo = {}) /\ (g.at # None => g.at.step = "read")
  BY <1>3, <1>6 DEF Gone
<1>9. PICK others : others = runs \ {r}
  OBVIOUS
<1>10. /\ others \subseteq RunRows
       /\ \A s \in others : s.cancelled /\ ~s.over /\ s.at # None /\ s.id # r.id /\ s.id <= changes
                            /\ (s.id = changes => rendered = Editor!Key)
       /\ \A s, t \in others : s.id = t.id => s = t
  BY <1>0, <1>9, OthersWait
<1>11. r.id <= changes /\ (r.id = changes => rendered = Editor!Key)
  BY <1>0 DEF RunsApart
<1>12. \A url \in living : url \in Editor!ValuesOf(cache) \/ url \in q.created
  <2>1. \A s \in runs : ~s.cancelled => s = r
    BY <1>9, <1>10
  <2>2. \A url \in alive : url \in Editor!ValuesOf(cache) \/ url \in r.created
    BY <1>0, <2>1 DEF ShownIsAlive
  <2> QED
    BY <2>2
<1>13. Ready(g, others, living)
  BY <1>2, <1>7, <1>8, <1>10, <1>11, <1>12 DEF Ready
<1>14. Editor!Settle(g, others, living)
  BY <1>5, <1>9
<1>15. rendered' \in Keys /\ g.key = rendered'
  BY <1>1, <1>3, <1>8 DEF RunRows
<1>16. /\ UrlsTyped' /\ RunsApart' /\ RunsPromise' /\ ShownIsAlive' /\ ResolvedIsRight'
       /\ \E h \in RunRows : runs' = others \cup {h} /\ h.id = g.id /\ h.at = g.at
  BY <1>2, <1>8, <1>10, <1>11, <1>13, <1>14, <1>15, SettlesCurrent
<1> QED
  BY <1>8, <1>9, <1>16

(* Rooms, when a run that made none goes on.                                 *)
LEMMA RoomsWhenOn ==
    ASSUME PinsExact, pins' = pins, mounted' = mounted, rendered' = rendered,
           NEW r \in runs, r.at # None, r.at.step # "room", NEW G, runs' = (runs \ {r}) \cup G,
           \A h \in G : h.at # None => h.at.step # "room"
    PROVE  PinsExact'
<1>1. \A a, T, x : x \in MakingRoom(T, a) <=> \E s \in T : s.at # None /\ s.at.step = "room" /\ s.at.of = a /\ s.id = x
  BY DEF MakingRoom
<1>3. ASSUME NEW a \in Images PROVE MakingRoom(runs', a) = MakingRoom(runs, a)
  <2>1. \A x : x \in MakingRoom(runs', a) <=> x \in MakingRoom(runs, a)
    BY <1>1
  <2> QED
    BY <2>1
<1> QED
  BY <1>3, PinsRest

LEMMA CancelledGoesOn ==
    ASSUME UrlsInv, NEW r \in runs, r.at # None, r.cancelled, NEW q, NEW todo, NEW next,
           q \in RunRows, q.id = r.id, q.cancelled, ~q.over, todo \subseteq Images, next \in Maps,
           Editor!Settle(Editor!Goes(q, todo, next), runs \ {r}, alive),
           UNCHANGED <<state, view, network, changes, mounted, rendered, readable>>
    PROVE  /\ UrlsTyped' /\ RunsApart' /\ RunsPromise' /\ ShownIsAlive' /\ ResolvedIsRight'
           /\ \E G : runs' = (runs \ {r}) \cup G /\ \A h \in G : h.at # None => h.at.step # "room"
<1>1. PICK g : g = Editor!Goes(q, todo, next)
  OBVIOUS
<1>2. UrlsTyped
  BY DEF UrlsInv
<1>3. Gone(q, todo, next, g)
  BY <1>1, <1>2, GoesOn
<1>4. g \in RunRows /\ g.id = r.id /\ g.cancelled /\ ~g.over /\ (g.at # None => g.at.step = "read")
  BY <1>3 DEF Gone
<1>5. Editor!Settle(g, runs \ {r}, alive)
  BY <1>1
<1>6. /\ UrlsTyped' /\ RunsApart' /\ RunsPromise' /\ ShownIsAlive' /\ ResolvedIsRight'
      /\ runs' = (runs \ {r}) \cup {x \in {g} : x.at # None}
  BY <1>4, <1>5, CancelledRunsOn
<1>7. PICK G : G = {x \in {g} : x.at # None}
  OBVIOUS
<1>8. runs' = (runs \ {r}) \cup G /\ \A h \in G : h.at # None => h.at.step # "room"
  BY <1>4, <1>6, <1>7
<1> QED
  BY <1>6, <1>8

(* An attachment is dealt with: it got a URL, or it failed.                  *)
LEMMA OpenedKeepsUrls ==
    ASSUME UrlsInv, NEW r \in runs, Editor!Opened(r) PROVE UrlsInv'
<1>0. UrlsTyped /\ RunsApart /\ RunsPromise /\ ShownIsAlive /\ PinsExact
  BY DEF UrlsInv
<1>1. /\ UNCHANGED <<state, view, network, changes, mounted, rendered, readable, pins>>
      /\ r.at # None /\ r.at.step = "open"
  BY DEF Editor!Opened, Editor!At, Editor!world, Editor!chunks
<1>2. r \in RunRows /\ r.at \in Editor!Downloads /\ ~r.over /\ r.at.step # "room"
  BY <1>0, <1>1 DEF UrlsTyped, RunsApart, RunRows
<1>3. PICK b \in Images : b = r.at.of
  BY <1>2 DEF Editor!Downloads
<1>4. PICK url : url = [of |-> r.at.of, version |-> r.at.version, by |-> r.id]
  OBVIOUS
<1>5. url \in Editor!Url /\ url # None /\ url.version = r.at.version
  <2>1. url \in Editor!Url /\ url.version = r.at.version
    BY <1>2, <1>4 DEF Editor!Url, Editor!Downloads, RunRows
  <2> QED
    BY <2>1, UrlAssumptions
<1>6. PICK rest : rest = r.todo \ {b}
  OBVIOUS
<1>7. rest \subseteq Images /\ r.next \in Maps
  BY <1>2, <1>6 DEF RunRows
<1>8. CASE r.cancelled
  <2>1. Editor!Settle(Editor!Goes(r, rest, r.next), runs \ {r}, alive)
    BY <1>3, <1>6, <1>8 DEF Editor!Opened
  <2>2. PICK next : next = r.next
    OBVIOUS
  <2>3. Editor!Settle(Editor!Goes(r, rest, next), runs \ {r}, alive) /\ next \in Maps
    BY <1>7, <2>1, <2>2
  <2>4. /\ UrlsTyped' /\ RunsApart' /\ RunsPromise' /\ ShownIsAlive' /\ ResolvedIsRight'
        /\ \E G : runs' = (runs \ {r}) \cup G /\ \A h \in G : h.at # None => h.at.step # "room"
    BY <1>1, <1>2, <1>7, <1>8, <2>3, CancelledGoesOn
  <2>5. PinsExact'
    BY <1>0, <1>1, <1>2, <2>4, RoomsWhenOn
  <2> QED
    BY <2>4, <2>5 DEF UrlsInv
<1>9. CASE ~r.cancelled
  <2>1. PICK q : q = [r EXCEPT !.created = @ \cup {url}]
    OBVIOUS
  <2>2. /\ q \in RunRows /\ q.id = r.id /\ q.key = r.key /\ ~q.cancelled /\ ~q.over /\ q.previous = r.previous
        /\ q.failed = r.failed /\ q.created = r.created \cup {url}
    BY <1>2, <1>5, <1>9, <2>1 DEF RunRows
  <2>3. PICK next : next = [r.next EXCEPT ![r.at.of] = url]
    OBVIOUS
  <2>4. next \in Maps /\ \A a \in Images : next[a] = IF a = b THEN url ELSE r.next[a]
    BY <1>3, <1>5, <1>7, <2>3 DEF Maps
  <2>5. PICK living : living = alive \cup {url}
    OBVIOUS
  <2>6. Editor!Settle(Editor!Goes(q, rest, next), runs \ {r}, living)
    BY <1>3, <1>4, <1>6, <1>9, <2>1, <2>3, <2>5 DEF Editor!Opened
  <2>7. r.key = rendered /\ r.created \subseteq alive /\ Found(r) /\ Decrypting(r)
    BY <1>0, <1>2, <1>9 DEF RunsPromise
  <2>8. \A a \in rest : next[a] = None
    BY <1>6, <1>7, <2>4, <2>7 DEF Found
  <2>9. Editor!ValuesOf(next) \subseteq Editor!ValuesOf(cache) \cup q.created
    BY <2>2, <2>4, <2>7 DEF Found, Editor!ValuesOf
  <2>10. Right(r.key, next, q.failed, Images \ rest)
    <3> SUFFICES ASSUME NEW a \in Images
                 PROVE  IF a \in DOMAIN r.key.signature
                        THEN a \in Images \ rest /\ state[a] = r.key.signature[a] =>
                               IF state[a].is = "live"
                               THEN (next[a] # None /\ next[a].version = state[a].version) \/ a \in q.failed
                               ELSE next[a] = None
                        ELSE next[a] = None
      BY DEF Right
    <3>1. CASE a = b
      <4>1. /\ b \in DOMAIN r.key.signature /\ r.key.signature[b].version <= r.at.version
            /\ r.at.version <= state[b].version /\ (r.at.version = state[b].version => state[b].is = "live")
        BY <1>3, <2>7 DEF Found, Decrypting
      <4>2. r.at.version \in Nat /\ state[b].version \in Nat
        BY <1>0, <1>2 DEF Editor!Downloads, UrlsTyped, Editor!States
      <4>3. state[b] = r.key.signature[b] => r.at.version = state[b].version
        BY <4>1, <4>2
      <4> QED
        BY <1>5, <2>4, <3>1, <4>1, <4>3
    <3>2. CASE a # b
      <4>1. a \in Images \ rest <=> a \in Images \ r.todo
        BY <1>6, <3>2
      <4>2. next[a] = r.next[a]
        BY <2>4, <3>2
      <4> QED
        BY <2>2, <2>7, <4>1, <4>2 DEF Found, Right
    <3> QED
      BY <3>1, <3>2
  <2>11. /\ living \subseteq Editor!Url /\ alive \subseteq living /\ q.created \subseteq living
         /\ \A u \in living : u \in alive \/ u \in q.created
         /\ r.created \subseteq q.created
    BY <1>0, <1>5, <2>2, <2>5, <2>7 DEF UrlsTyped
  <2>12. rest = r.todo \ {r.at.of}
    BY <1>3, <1>6
  <2>18. Dealt(r, q, rest, next, living)
    BY <1>1, <1>9, <2>2, <2>4, <2>8, <2>9, <2>10, <2>11, <2>12 DEF Dealt
  <2>13. /\ UrlsTyped' /\ RunsApart' /\ RunsPromise' /\ ShownIsAlive' /\ ResolvedIsRight'
         /\ \E h \in RunRows : runs' = (runs \ {r}) \cup {h} /\ h.id = r.id /\ (h.at # None => h.at.step = "read")
    BY <1>1, <2>6, <2>18, RunGoesOn
  <2>14. PICK h : runs' = (runs \ {r}) \cup {h} /\ (h.at # None => h.at.step = "read")
    BY <2>13
  <2>15. PICK G : G = {h}
    OBVIOUS
  <2>16. runs' = (runs \ {r}) \cup G /\ \A x \in G : x.at # None => x.at.step # "room"
    BY <2>14, <2>15
  <2>17. PinsExact'
    BY <1>0, <1>1, <1>2, <2>16, RoomsWhenOn
  <2> QED
    BY <2>13, <2>17 DEF UrlsInv
<1> QED
  BY <1>8, <1>9

LEMMA FailsKeepsUrls ==
    ASSUME UrlsInv, NEW r \in runs, Editor!Fails(r) PROVE UrlsInv'
<1>0. UrlsTyped /\ RunsApart /\ RunsPromise /\ ShownIsAlive /\ PinsExact
  BY DEF UrlsInv
<1>1. /\ UNCHANGED <<state, view, network, changes, mounted, rendered, readable, pins>>
      /\ r.at # None /\ r.at.step # "room"
  BY DEF Editor!Fails, Editor!At, Editor!world, Editor!chunks
<1>2. r \in RunRows /\ r.at \in Editor!Downloads /\ ~r.over
  BY <1>0, <1>1 DEF UrlsTyped, RunsApart, RunRows
<1>3. PICK b \in Images : b = r.at.of
  BY <1>2 DEF Editor!Downloads
<1>4. PICK q : q = [r EXCEPT !.failed = @ \cup {r.at.of}]
  OBVIOUS
<1>5. /\ q \in RunRows /\ q.id = r.id /\ q.key = r.key /\ q.cancelled = r.cancelled /\ ~q.over
      /\ q.previous = r.previous /\ q.failed = r.failed \cup {b} /\ q.created = r.created
  BY <1>2, <1>3, <1>4 DEF RunRows
<1>6. PICK rest, next : rest = r.todo \ {r.at.of} /\ next = r.next
  OBVIOUS
<1>7. rest \subseteq Images /\ next \in Maps
  BY <1>2, <1>6 DEF RunRows
<1>8. Editor!Settle(Editor!Goes(q, rest, next), runs \ {r}, alive)
  BY <1>4, <1>6 DEF Editor!Fails
<1>9. CASE r.cancelled
  <2>1. /\ UrlsTyped' /\ RunsApart' /\ RunsPromise' /\ ShownIsAlive' /\ ResolvedIsRight'
        /\ \E G : runs' = (runs \ {r}) \cup G /\ \A h \in G : h.at # None => h.at.step # "room"
    BY <1>1, <1>5, <1>7, <1>8, <1>9, CancelledGoesOn
  <2>2. PinsExact'
    BY <1>0, <1>1, <2>1, RoomsWhenOn
  <2> QED
    BY <2>1, <2>2 DEF UrlsInv
<1>10. CASE ~r.cancelled
  <2>1. r.key = rendered /\ r.created \subseteq alive /\ Found(r) /\ Decrypting(r)
    BY <1>0, <1>2, <1>10 DEF RunsPromise
  <2>2. \A a \in rest : next[a] = None
    BY <1>6, <2>1 DEF Found
  <2>3. Editor!ValuesOf(next) \subseteq Editor!ValuesOf(cache) \cup q.created
    BY <1>5, <1>6, <2>1 DEF Found
  <2>4. Right(r.key, next, q.failed, Images \ rest)
    <3> SUFFICES ASSUME NEW a \in Images
                 PROVE  IF a \in DOMAIN r.key.signature
                        THEN a \in Images \ rest /\ state[a] = r.key.signature[a] =>
                               IF state[a].is = "live"
                               THEN (next[a] # None /\ next[a].version = state[a].version) \/ a \in q.failed
                               ELSE next[a] = None
                        ELSE next[a] = None
      BY DEF Right
    <3>1. CASE a = b
      <4>1. b \in r.todo /\ b \in DOMAIN r.key.signature /\ next[b] = None
        BY <1>3, <1>6, <2>1 DEF Found, Decrypting
      <4> QED
        BY <1>5, <3>1, <4>1
    <3>2. CASE a # b
      <4>1. a \in Images \ rest <=> a \in Images \ r.todo
        BY <1>3, <1>6, <3>2
      <4> QED
        BY <1>5, <1>6, <2>1, <4>1 DEF Found, Right
    <3> QED
      BY <3>1, <3>2
  <2>5. PICK living : living = alive
    OBVIOUS
  <2>6. /\ living \subseteq Editor!Url /\ alive \subseteq living /\ q.created \subseteq living
        /\ \A u \in living : u \in alive \/ u \in q.created
        /\ r.created \subseteq q.created
    BY <1>0, <1>5, <2>1, <2>5 DEF UrlsTyped
  <2>7. Editor!Settle(Editor!Goes(q, rest, next), runs \ {r}, living)
    BY <1>8, <2>5
  <2>18. Dealt(r, q, rest, next, living)
    BY <1>1, <1>5, <1>6, <1>7, <1>10, <2>2, <2>3, <2>4, <2>6 DEF Dealt
  <2>8. /\ UrlsTyped' /\ RunsApart' /\ RunsPromise' /\ ShownIsAlive' /\ ResolvedIsRight'
        /\ \E h \in RunRows : runs' = (runs \ {r}) \cup {h} /\ h.id = r.id /\ (h.at # None => h.at.step = "read")
    BY <1>1, <2>7, <2>18, RunGoesOn
  <2>9. PICK h : runs' = (runs \ {r}) \cup {h} /\ (h.at # None => h.at.step = "read")
    BY <2>8
  <2>10. PICK G : G = {h}
    OBVIOUS
  <2>11. runs' = (runs \ {r}) \cup G /\ \A x \in G : x.at # None => x.at.step # "room"
    BY <2>9, <2>10
  <2>12. PinsExact'
    BY <1>0, <1>1, <2>11, RoomsWhenOn
  <2> QED
    BY <2>8, <2>12 DEF UrlsInv
<1> QED
  BY <1>9, <1>10

-----------------------------------------------------------------------------
LEMMA EditorRests ==
    ASSUME UrlsInv, UNCHANGED <<state, view, network, mounted, rendered, runs, cache, urls, resolved, alive, pins,
                                unread, changes>>,
           readable' \subseteq Images
    PROVE  UrlsInv'
<1> USE DEF UrlsInv
<1>1. UrlsTyped'
  BY DEF UrlsTyped
<1>2. RunsApart'
  BY DEF RunsApart, Editor!Key, Editor!Signature
<1>3. RunsPromise'
  BY DEF RunsPromise, Found, Decrypting, Past, Right, Editor!ValuesOf
<1>4. ShownIsAlive'
  BY DEF ShownIsAlive, Editor!ValuesOf
<1>5. ResolvedIsRight'
  BY DEF ResolvedIsRight, Past, Right
<1>6. PinsExact'
  BY PinsRest
<1> QED
  BY <1>1, <1>2, <1>3, <1>4, <1>5, <1>6

LEMMA EditorNext ==
    ASSUME UrlsInv, Editor!Next PROVE UrlsInv'
<1>1. CASE Editor!Change
  BY <1>1, ChangeKeepsUrls
<1>2. CASE Editor!Render
  BY <1>2, RenderKeepsUrls
<1>3. CASE Editor!Unmount
  BY <1>3, UnmountKeepsUrls
<1>4. CASE Editor!Advance
  BY <1>4, ReadingKeepsUrls, OpenedKeepsUrls, FailsKeepsUrls DEF Editor!Advance
<1>5. CASE Editor!Evict
  <2>1. UNCHANGED <<state, view, network, mounted, rendered, runs, cache, urls, resolved, alive, pins, unread,
                    changes>>
    BY <1>5 DEF Editor!Evict, Editor!world, Editor!memory
  <2>2. readable' \subseteq Images
    BY <1>5 DEF Editor!Evict, UrlsInv, UrlsTyped
  <2> QED
    BY <2>1, <2>2, EditorRests
<1> QED
  BY <1>1, <1>2, <1>3, <1>4, <1>5 DEF Editor!Next

LEMMA EditorIsSafe ==
    ASSUME UrlsInv PROVE Editor!UrlsSafe
<1>0. UrlsTyped /\ RunsApart /\ ShownIsAlive /\ ResolvedIsRight /\ PinsExact
  BY DEF UrlsInv
<1>1. Editor!TypeOK
  <2>1. pins \in [Images -> Nat]
    <3>1. \A a \in Images : Cardinality(MakingRoom(runs, a)) \in Nat
      BY <1>0, RoomsFinite
    <3>2. \A a \in Images : pins[a] \in Nat
      BY <1>0, <3>1 DEF PinsExact
    <3> QED
      BY <1>0, <3>2 DEF PinsExact
  <2>2. Editor!Cardinality({r \in runs : ~r.cancelled}) <= 1
    <3>1. PICK S : S = {r \in runs : ~r.cancelled}
      OBVIOUS
    <3>2. \A r, s \in S : r = s
      BY <1>0, <3>1 DEF RunsApart
    <3>3. CASE S = {}
      <4>1. Cardinality(S) = 0
        BY <3>3, FS_EmptySet
      <4>2. Cardinality(S) <= 1
        BY <4>1
      <4> QED
        BY <3>1, <4>2 DEF Editor!Cardinality, Editor!IsFiniteSet, Cardinality, IsFiniteSet
    <3>4. CASE S # {}
      <4>1. PICK x \in S : TRUE
        BY <3>4
      <4>2. S = {x}
        BY <3>2, <4>1
      <4>3. Cardinality(S) = 1
        BY <4>2, FS_Singleton
      <4>4. Cardinality(S) <= 1
        BY <4>3
      <4> QED
        BY <3>1, <4>4 DEF Editor!Cardinality, Editor!IsFiniteSet, Cardinality, IsFiniteSet
    <3> QED
      BY <3>3, <3>4
  <2>3. Editor!ValuesOf(cache) \cup Editor!ValuesOf(urls) \cup alive \subseteq Editor!Url
    BY <1>0 DEF UrlsTyped, Maps, Editor!ValuesOf
  <2> QED
    BY <1>0, <2>1, <2>2, <2>3 DEF Editor!TypeOK, UrlsTyped, RunsApart
<1>2. Editor!ShownAlive /\ Editor!NothingLeaks
  BY <1>0 DEF ShownIsAlive, Editor!ShownAlive, Editor!NothingLeaks
<1>3. Editor!ShownCurrent
  <2> SUFFICES ASSUME rendered = Editor!Key, resolved = rendered, NEW a \in Images
               PROVE  IF a \in Shows[view] /\ state[a].is = "live"
                      THEN (urls[a] # None /\ urls[a].version = state[a].version) \/ a \in unread
                      ELSE urls[a] = None
    BY DEF Editor!ShownCurrent, Editor!Loading
  <2>1. /\ DOMAIN resolved.signature = Shows[view] /\ \A x \in Shows[view] : resolved.signature[x] = state[x]
        /\ resolved # None
    BY <1>0, KeyIs
  <2>2. Right(resolved, urls, unread, Images)
    BY <1>0, <2>1 DEF ResolvedIsRight
  <2> QED
    BY <2>1, <2>2 DEF Right
<1> QED
  BY <1>1, <1>2, <1>3 DEF Editor!UrlsSafe

LEMMA ShownIsKept ==
    ASSUME UrlsInv, Editor!Next \/ UNCHANGED urlsVars, mounted, mounted'
    PROVE  Editor!RenderedIds \cap readable \subseteq readable'
<1>1. CASE Editor!Evict
  <2>1. PICK a \in readable : pins[a] = 0 /\ readable' = readable \ {a}
    BY <1>1 DEF Editor!Evict
  <2>2. a \in Images /\ Cardinality(MakingRoom(runs, a)) \in Nat
    BY <2>1, RoomsFinite DEF UrlsInv, UrlsTyped
  <2>3. a \notin Editor!RenderedIds
    BY <2>1, <2>2 DEF UrlsInv, PinsExact
  <2> QED
    BY <2>1, <2>3
<1>2. CASE ~Editor!Evict
  <2>1. readable \subseteq readable'
    BY <1>2 DEF Editor!Next, Editor!Change, Editor!Render, Editor!Unmount, Editor!Advance, Editor!ReadStored,
                Editor!Download, Editor!Released, Editor!Opened, Editor!Fails, Editor!chunks, urlsVars
  <2> QED
    BY <2>1
<1> QED
  BY <1>1, <1>2

(* f[i] is the first i members of seqs, put together.                        *)
Grows(f, seqs, n) ==
    /\ n \in Nat \ {0} /\ seqs = [i \in 1 .. n |-> seqs[i]]
    /\ f = [i \in 1 .. n |-> IF i = 1 THEN seqs[i] ELSE f[i-1] \o seqs[i]]

LEMMA Flattened ==
    ASSUME NEW seqs, NEW n, NEW f, Grows(f, seqs, n) PROVE Sealing!FlattenSeq(seqs) = f[n]
<1> USE DEF Grows
<1> DEFINE grows(g) == [i \in 1 .. n |-> IF i = 1 THEN seqs[i] ELSE g[i-1] \o seqs[i]]
<1>1. Len(seqs) = n
  OBVIOUS
<1>2. PICK h : h = CHOOSE g : g = grows(g)
  OBVIOUS
<1>3. Sealing!FlattenSeq(seqs) = h[n]
  BY <1>1, <1>2 DEF Sealing!FlattenSeq
<1>4. h = grows(h)
  BY <1>2
<1>5. \A i \in 1 .. n : h[i] = f[i]
  <2> DEFINE bad == {i \in 1 .. n : h[i] # f[i]}
  <2> SUFFICES ASSUME bad # {} PROVE FALSE
    OBVIOUS
  <2>1. bad \subseteq Nat
    OBVIOUS
  <2>2. PICK m \in bad : \A t \in bad : ~(<<t, m>> \in OpToRel(<, Nat))
    BY <2>1, WFMin, NatLessThanWellFounded, Zenon
  <2>3. \A t \in bad : ~(t < m)
    BY <2>1, <2>2 DEF OpToRel
  <2>4. m \in 1 .. n /\ h[m] # f[m]
    OBVIOUS
  <2> HIDE DEF bad
  <2>5. h[m] = (IF m = 1 THEN seqs[m] ELSE h[m-1] \o seqs[m]) /\ f[m] = (IF m = 1 THEN seqs[m] ELSE f[m-1] \o seqs[m])
    BY <1>4, <2>4
  <2>6. m # 1
    BY <2>4, <2>5
  <2>7. m - 1 \in 1 .. n /\ m - 1 < m
    BY <2>4, <2>6
  <2>8. h[m-1] = f[m-1]
    BY <2>3, <2>7 DEF bad
  <2> QED
    BY <2>4, <2>5, <2>6, <2>8
<1>6. n \in 1 .. n
  OBVIOUS
<1> HIDE DEF grows
<1> QED
  BY <1>3, <1>5, <1>6

LEMMA CountIs ==
    ASSUME NEW bytes, NEW n, n = Len(bytes), n \in Nat, ChunkSize \in Nat \ {0}
    PROVE  /\ Sealing!Count(bytes) \in Nat \ {0} /\ n <= Sealing!Count(bytes) * ChunkSize
           /\ Sealing!Count(bytes) = 1 \/ (Sealing!Count(bytes) - 1) * ChunkSize < n
<1>1. PICK c : c = (n + ChunkSize - 1) \div ChunkSize
  OBVIOUS
<1>2. c \in Nat /\ c * ChunkSize <= n + ChunkSize - 1 /\ n <= c * ChunkSize
  BY <1>1, SMT
<1>3. PICK m : m = Sealing!Max({1, c})
  OBVIOUS
<1>4. m \in {1, c} /\ m >= 1 /\ m >= c
  <2>1. \E x \in {1, c} : \A y \in {1, c} : x >= y
    <3>1. CASE c = 0
      BY <3>1
    <3>2. CASE c # 0
      BY <1>2, <3>2
    <3> QED
      BY <3>1, <3>2
  <2>2. m \in {1, c} /\ \A y \in {1, c} : m >= y
    BY <1>3, <2>1 DEF Sealing!Max
  <2> QED
    BY <2>2
<1>5. Sealing!Count(bytes) = m
  BY <1>1, <1>3 DEF Sealing!Count
<1> QED
  BY <1>2, <1>4, <1>5

-----------------------------------------------------------------------------
(***************************************************************************)
(* What is read and copied, for any attachments and copies and whatever     *)
(* happens to the cache and the server. There is one chunk at most for a    *)
(* place, and the server has none of a copy that is being made; so the      *)
(* chunks of a copy are those it was sealed with. What a copy has read,     *)
(* has made and is short of make up the attachments of the note.            *)
(***************************************************************************)
Plains == DOMAIN Data
Ids == (Copies \cup {None}) \X Plains
Pieces == {Sealing!Piece(Data[a], i) : a \in Plains, i \in Nat}
Seals == [key : Ids \cup {None}, place : Ids \X Nat \X Nat, bytes : Pieces]
ChunkRows == [id : Ids, index : Nat, total : Nat, sealed : Seals]
SealedFor(id) == Sealing!SealedChunks(id, id, Data[id[2]])
MadeFor(id) == Sealing!Metadata(id, id, Data[id[2]])

AroundTyped ==
    known \in [Plains -> {"live", "deleted", "unknown"}] /\ online \in BOOLEAN /\ open \in BOOLEAN

(* What may be in the cache, and on the server.                              *)
Keeping(set) ==
    /\ set \subseteq ChunkRows /\ \A r \in set : r.index < r.total
    /\ \A r, s \in set : r.id = s.id /\ r.index = s.index => r = s
    /\ \A r \in set : r.id[1] # None => r \in SealedFor(r.id)
ChunksRight == Keeping(rows) /\ Keeping(remote) /\ \A r \in remote : r.id[1] = None

BooksTyped ==
    /\ jobs \in [Copies -> Sealing!Work \cup {None}]
    /\ \A o \in objects : /\ o.owner \in Copies /\ o.of \in Plains
                          /\ o.meta = MadeFor(Sealing!Id(o.owner, o.of))

OfMade(c) == {o.of : o \in Sealing!Made(c)}

WorkOf(c, work) ==
    /\ \A n \in notes : n.copy # c
    /\ ~work.allow => work.missing = {}
    /\ work.step = "read" =>
         /\ OfMade(c) = {} /\ Plains = work.todo \cup DOMAIN work.plain \cup work.missing
         /\ work.missing \cap (work.todo \cup DOMAIN work.plain) = {} /\ work.todo \cap DOMAIN work.plain = {}
    /\ work.step = "make" =>
         /\ DOMAIN work.plain = Plains \ work.missing /\ work.todo \subseteq DOMAIN work.plain
         /\ OfMade(c) = DOMAIN work.plain \ work.todo
WorkRight == \A c \in Copies : jobs[c] # None => WorkOf(c, jobs[c])

NotesRight ==
    \A n \in notes :
      /\ n.copy \in Copies /\ n.refs = {Sealing!Id(n.copy, a) : a \in Plains \ n.missing}
      /\ OfMade(n.copy) = Plains \ n.missing

SealingInv ==
    /\ AroundTyped /\ ChunksRight /\ BooksTyped /\ WorkRight /\ NotesRight
    /\ Sealing!ReadsAreRight /\ Sealing!NothingLeftOver

-----------------------------------------------------------------------------
LEMMA SealingAssumptions ==
    /\ ChunkSize \in Nat \ {0} /\ Plains \subseteq Nat /\ \A a \in Plains : Data[a] \in Seq(Nat)
    /\ None \notin Copies /\ None \notin Sealing!Work
    /\ Sealing!Plains = Plains
  BY AttachmentConstants DEF AttachmentConstants, Sealing!SealingConstants, Sealing!Plains, Plains

LEMMA LessTimes ==
    ASSUME NEW x \in Nat, NEW y \in Nat, NEW k \in Nat, x <= y PROVE x * k <= y * k
  OBVIOUS

LEMMA SmallerIs ==
    ASSUME NEW x \in Nat, NEW y \in Nat PROVE Sealing!Min({x, y}) = IF x <= y THEN x ELSE y
<1>1. PICK m : m = Sealing!Min({x, y})
  OBVIOUS
<1>2. \E u \in {x, y} : \A v \in {x, y} : u <= v
  <2>1. CASE x <= y
    BY <2>1
  <2>2. CASE ~(x <= y)
    BY <2>2
  <2> QED
    BY <2>1, <2>2
<1>3. m \in {x, y} /\ \A v \in {x, y} : m <= v
  BY <1>1, <1>2 DEF Sealing!Min
<1> QED
  BY <1>1, <1>3

(* The pieces of the bytes, put together, are the bytes (crypto.ts).         *)
LEMMA PiecesRejoin ==
    ASSUME NEW bytes \in Seq(Nat), NEW n, n = Sealing!Count(bytes)
    PROVE  Sealing!FlattenSeq([i \in 1 .. n |-> Sealing!Piece(bytes, i - 1)]) = bytes
<1> DEFINE upTo(i) == IF Len(bytes) <= i * ChunkSize THEN Len(bytes) ELSE i * ChunkSize
           s == [i \in 1 .. n |-> Sealing!Piece(bytes, i - 1)]
           f == [i \in 1 .. n |-> SubSeq(bytes, 1, upTo(i))]
<1>0. Len(bytes) \in Nat /\ ChunkSize \in Nat \ {0}
  BY SealingAssumptions
<1>1. n \in Nat \ {0} /\ Len(bytes) <= n * ChunkSize /\ (n = 1 \/ (n - 1) * ChunkSize < Len(bytes))
  BY <1>0, CountIs
<1>2. \A i \in 1 .. n : (i - 1) * ChunkSize \in Nat /\ i * ChunkSize \in Nat /\ (i - 1) * ChunkSize <= Len(bytes)
                        /\ (i - 1) * ChunkSize <= i * ChunkSize
  <2> TAKE i \in 1 .. n
  <2>1. i \in Nat /\ i - 1 \in Nat /\ n - 1 \in Nat /\ i - 1 <= n - 1
    BY <1>1
  <2>2. (i - 1) * ChunkSize \in Nat /\ i * ChunkSize \in Nat /\ (n - 1) * ChunkSize \in Nat
    BY <1>0, <2>1
  <2>3. (i - 1) * ChunkSize <= (n - 1) * ChunkSize /\ (i - 1) * ChunkSize <= i * ChunkSize
    BY <1>0, <2>1, LessTimes
  <2>4. CASE n = 1
    <3>1. i - 1 = 0
      BY <2>1, <2>4
    <3>2. (i - 1) * ChunkSize = 0
      BY <1>0, <3>1
    <3> QED
      BY <1>0, <2>2, <2>3, <3>2
  <2>5. CASE n # 1
    BY <1>0, <1>1, <2>2, <2>3, <2>5
  <2> QED
    BY <2>4, <2>5
<1>3. \A i \in 1 .. n : upTo(i) \in (i - 1) * ChunkSize .. Len(bytes)
  BY <1>0, <1>2
<1>4. \A i \in 1 .. n : s[i] = SubSeq(bytes, (i - 1) * ChunkSize + 1, upTo(i))
  <2> TAKE i \in 1 .. n
  <2>1. (i - 1) + 1 = i
    OBVIOUS
  <2>2. Sealing!Min({Len(bytes), i * ChunkSize}) = upTo(i)
    BY <1>0, <1>2, SmallerIs
  <2>3. Sealing!Piece(bytes, i - 1) = SubSeq(bytes, (i - 1) * ChunkSize + 1, Sealing!Min({Len(bytes), i * ChunkSize}))
    BY <2>1 DEF Sealing!Piece
  <2> QED
    BY <2>2, <2>3
<1>5. f = [i \in 1 .. n |-> IF i = 1 THEN s[i] ELSE f[i-1] \o s[i]]
  <2> SUFFICES ASSUME NEW i \in 1 .. n PROVE f[i] = IF i = 1 THEN s[i] ELSE f[i-1] \o s[i]
    OBVIOUS
  <2>1. CASE i = 1
    <3>1. (i - 1) * ChunkSize + 1 = 1
      BY <1>0, <2>1
    <3> QED
      BY <1>4, <2>1, <3>1
  <2>2. CASE i # 1
    <3>1. i - 1 \in 1 .. n
      BY <1>1, <2>2
    <3>2. upTo(i - 1) = (i - 1) * ChunkSize
      <4>1. PICK p : p = (i - 1) * ChunkSize /\ p \in Nat /\ p <= Len(bytes)
        BY <1>2
      <4> QED
        BY <1>0, <4>1
    <3>3. f[i-1] = SubSeq(bytes, 1, (i - 1) * ChunkSize)
      BY <3>1, <3>2
    <3>4. PICK k : k = (i - 1) * ChunkSize /\ k \in 0 .. Len(bytes) /\ upTo(i) \in k .. Len(bytes)
      BY <1>2, <1>3
    <3>5. SubSeq(bytes, 1, k) \o SubSeq(bytes, k + 1, upTo(i)) = SubSeq(bytes, 1, upTo(i))
      <4>1. 1 \in 1 .. Len(bytes) + 1 /\ k \in 1 - 1 .. Len(bytes)
        BY <1>0, <3>4
      <4>2. PICK m : m = upTo(i) /\ m \in k .. Len(bytes)
        BY <3>4
      <4>3. SubSeq(bytes, 1, k) \o SubSeq(bytes, k + 1, m) = SubSeq(bytes, 1, m)
        BY <4>1, <4>2, ConcatAdjacentSubSeq
      <4> QED
        BY <4>2, <4>3
    <3> QED
      BY <1>4, <2>2, <3>3, <3>4, <3>5
  <2> QED
    BY <2>1, <2>2
<1>6. Sealing!FlattenSeq(s) = f[n]
  <2>1. PICK t, g : t = s /\ g = f
    OBVIOUS
  <2>2. t = [i \in 1 .. n |-> t[i]]
    BY <2>1
  <2>3. g = [i \in 1 .. n |-> IF i = 1 THEN t[i] ELSE g[i-1] \o t[i]]
    BY <1>5, <2>1
  <2>4. Grows(g, t, n)
    BY <1>1, <2>2, <2>3 DEF Grows
  <2>5. Sealing!FlattenSeq(t) = g[n]
    BY <2>4, Flattened
  <2> QED
    BY <2>1, <2>5
<1>7. f[n] = bytes
  <2>1. n \in 1 .. n /\ upTo(n) = Len(bytes)
    BY <1>0, <1>1
  <2>2. SubSeq(bytes, 1, Len(bytes)) = bytes
    BY SubSeqFull
  <2> QED
    BY <2>1, <2>2
<1> QED
  BY <1>6, <1>7

-----------------------------------------------------------------------------
(* The chunks attachment bytes are sealed in.                                *)
LEMMA IdIs ==
    /\ \A c \in Copies \cup {None}, a \in Plains :
         Sealing!Id(c, a) \in Ids /\ Sealing!Id(c, a)[1] = c /\ Sealing!Id(c, a)[2] = a
    /\ \A id \in Ids : id[1] \in Copies \cup {None} /\ id[2] \in Plains /\ id = Sealing!Id(id[1], id[2])
    /\ \A c, d, a, b : Sealing!Id(c, a) = Sealing!Id(d, b) => c = d /\ a = b
  BY DEF Ids, Sealing!Id

SealedWell(id, n) ==
    /\ n \in Nat \ {0} /\ SealedFor(id) \subseteq ChunkRows
    /\ \A r \in SealedFor(id) :
         /\ r.id = id /\ r.index \in 0 .. n - 1 /\ r.total = n
         /\ r.sealed = [key |-> id, place |-> Sealing!Place(id, r.index, n),
                        bytes |-> Sealing!Piece(Data[id[2]], r.index)]
    /\ \A r, s \in SealedFor(id) : r.index = s.index => r = s
    /\ \A i \in 0 .. n - 1 : \E r \in SealedFor(id) : r.index = i

LEMMA SealedAre ==
    \A id \in Ids : SealedWell(id, Sealing!Count(Data[id[2]]))
<1> SUFFICES ASSUME NEW id \in Ids, NEW n, n = Sealing!Count(Data[id[2]]) PROVE SealedWell(id, n)
  OBVIOUS
<1>1. id[2] \in Plains
  BY IdIs
<1>2. n \in Nat \ {0}
  <2>1. Data[id[2]] \in Seq(Nat) /\ ChunkSize \in Nat \ {0}
    BY <1>1, SealingAssumptions
  <2>2. PICK l : l = Len(Data[id[2]]) /\ l \in Nat
    BY <2>1
  <2> QED
    BY <2>1, <2>2, CountIs
<1> DEFINE chunk(i) == [id |-> id, index |-> i, total |-> n,
                        sealed |-> [key |-> id, place |-> Sealing!Place(id, i, n),
                                    bytes |-> Sealing!Piece(Data[id[2]], i)]]
<1>3. SealedFor(id) = {chunk(i) : i \in 0 .. n - 1}
  BY DEF SealedFor, Sealing!SealedChunks
<1>4. \A i \in 0 .. n - 1 : chunk(i) \in ChunkRows
  <2> TAKE i \in 0 .. n - 1
  <2>1. i \in Nat
    BY <1>2
  <2>2. Sealing!Place(id, i, n) \in Ids \X Nat \X Nat
    BY <1>2, <2>1 DEF Sealing!Place
  <2>3. Sealing!Piece(Data[id[2]], i) \in Pieces
    BY <1>1, <2>1 DEF Pieces
  <2> QED
    BY <1>2, <2>1, <2>2, <2>3 DEF ChunkRows, Seals
<1>5. \A i \in 0 .. n - 1 :
        /\ chunk(i).id = id /\ chunk(i).index = i /\ chunk(i).total = n
        /\ chunk(i).sealed = [key |-> id, place |-> Sealing!Place(id, i, n),
                              bytes |-> Sealing!Piece(Data[id[2]], i)]
  OBVIOUS
<1> HIDE DEF chunk
<1>6. SealedFor(id) \subseteq ChunkRows
  BY <1>3, <1>4
<1>7. \A r \in SealedFor(id) :
        /\ r.id = id /\ r.index \in 0 .. n - 1 /\ r.total = n
        /\ r.sealed = [key |-> id, place |-> Sealing!Place(id, r.index, n),
                       bytes |-> Sealing!Piece(Data[id[2]], r.index)]
  <2> TAKE r \in SealedFor(id)
  <2>1. PICK i \in 0 .. n - 1 : r = chunk(i)
    BY <1>3
  <2>2. r.index = i
    BY <1>5, <2>1
  <2> QED
    BY <1>5, <2>1, <2>2
<1>8. \A r, s \in SealedFor(id) : r.index = s.index => r = s
  <2> TAKE r, s \in SealedFor(id)
  <2>1. PICK i \in 0 .. n - 1, j \in 0 .. n - 1 : r = chunk(i) /\ s = chunk(j)
    BY <1>3
  <2>2. r.index = i /\ s.index = j
    BY <1>5, <2>1
  <2> QED
    BY <2>1, <2>2
<1>9. \A i \in 0 .. n - 1 : \E r \in SealedFor(id) : r.index = i
  BY <1>3, <1>5
<1> QED
  BY <1>2, <1>6, <1>7, <1>8, <1>9 DEF SealedWell

(* What was sealed opens.                                                    *)
LEMMA SealedOpens ==
    ASSUME NEW id \in Ids
    PROVE  Sealing!Opened(MadeFor(id), SealedFor(id)) = Data[id[2]]
<1>0. PICK S, n, bytes : S = SealedFor(id) /\ n = Sealing!Count(Data[id[2]]) /\ bytes = Data[id[2]]
  OBVIOUS
<1>1. /\ n \in Nat \ {0}
      /\ \A r \in S :
           /\ r.id = id /\ r.index \in 0 .. n - 1 /\ r.total = n
           /\ r.sealed = [key |-> id, place |-> Sealing!Place(id, r.index, n),
                          bytes |-> Sealing!Piece(bytes, r.index)]
      /\ \A i \in 0 .. n - 1 : \E r \in S : r.index = i
  BY <1>0, SealedAre DEF SealedWell
<1>2. bytes \in Seq(Nat)
  BY <1>0, IdIs, SealingAssumptions
<1>3. PICK meta : meta = MadeFor(id)
  OBVIOUS
<1>4. meta.id = id /\ meta.key = id /\ meta.count = n /\ meta.digest = bytes
  BY <1>0, <1>3 DEF MadeFor, Sealing!Metadata
<1>5. {r.index : r \in S} = 0 .. meta.count - 1
  BY <1>1, <1>4
<1>6. \A r \in S : /\ r.id = meta.id /\ r.total = meta.count /\ Sealing!Opens(r, meta.key)
                   /\ r.sealed.bytes = Sealing!Piece(bytes, r.index)
  <2> TAKE r \in S
  <2>1. /\ r.id = id /\ r.total = n
        /\ r.sealed = [key |-> id, place |-> Sealing!Place(id, r.index, n), bytes |-> Sealing!Piece(bytes, r.index)]
    BY <1>1
  <2>2. /\ r.sealed.key = id /\ r.sealed.place = Sealing!Place(id, r.index, n)
        /\ r.sealed.bytes = Sealing!Piece(bytes, r.index)
    BY <2>1
  <2> QED
    BY <1>4, <2>1, <2>2 DEF Sealing!Opens
<1>7. \A i \in 1 .. meta.count : (CHOOSE r \in S : r.index = i - 1).sealed.bytes = Sealing!Piece(bytes, i - 1)
  <2> TAKE i \in 1 .. meta.count
  <2>1. PICK r : r = CHOOSE x \in S : x.index = i - 1
    OBVIOUS
  <2>2. r \in S /\ r.index = i - 1
    <3>1. i - 1 \in 0 .. n - 1
      BY <1>1, <1>4
    <3> QED
      BY <1>1, <2>1, <3>1
  <2>3. r.sealed.bytes = Sealing!Piece(bytes, r.index)
    BY <1>6, <2>2
  <2> QED
    BY <2>1, <2>2, <2>3
<1>8. [i \in 1 .. meta.count |-> (CHOOSE r \in S : r.index = i - 1).sealed.bytes]
        = [i \in 1 .. n |-> Sealing!Piece(bytes, i - 1)]
  BY <1>4, <1>7
<1>9. Sealing!FlattenSeq([i \in 1 .. n |-> Sealing!Piece(bytes, i - 1)]) = bytes
  BY <1>0, <1>2, PiecesRejoin
<1>10. Sealing!Opened(meta, S) = bytes
  BY <1>4, <1>5, <1>6, <1>8, <1>9 DEF Sealing!Opened
<1> QED
  BY <1>0, <1>3, <1>10

LEMMA OpenedIs ==
    ASSUME NEW meta, NEW S PROVE Sealing!Opened(meta, S) \in {meta.digest, None}
  BY DEF Sealing!Opened

LEMMA SourceIs ==
    ASSUME NEW a \in Plains
    PROVE  /\ Sealing!Source(a).id = Sealing!Id(None, a) /\ Sealing!Source(a).key = Sealing!Id(None, a)
           /\ Sealing!Source(a).digest = Data[a]
           /\ Sealing!Sealed(a) = SealedFor(Sealing!Id(None, a))
<1>1. Sealing!Id(None, a)[2] = a
  BY IdIs
<1> QED
  BY <1>1 DEF Sealing!Source, Sealing!Metadata, Sealing!Sealed, SealedFor

(* The least attachment that is left to do.                                  *)
LEMMA NextIs ==
    ASSUME NEW S, S \subseteq Plains, S # {} PROVE Sealing!Min(S) \in S
<1>1. S \subseteq Nat
  BY SealingAssumptions
<1>2. PICK m \in S : \A t \in S : ~(<<t, m>> \in OpToRel(<, Nat))
  BY <1>1, WFMin, NatLessThanWellFounded, Zenon
<1>3. \A t \in S : m <= t
  <2>1. \A t \in S : ~(t < m)
    BY <1>1, <1>2 DEF OpToRel
  <2> QED
    BY <1>1, <2>1
<1>4. PICK x : x = Sealing!Min(S)
  OBVIOUS
<1> QED
  BY <1>3, <1>4 DEF Sealing!Min

-----------------------------------------------------------------------------
LEMMA SealingInitHolds ==
    ASSUME Sealing!Init PROVE SealingInv
<1> USE DEF Sealing!Init
<1>0. Sealing!Plains = Plains
  BY SealingAssumptions
<1>1. AroundTyped
  BY <1>0 DEF AroundTyped
<1>2. \A r \in remote : \E a \in Plains : r \in SealedFor(Sealing!Id(None, a))
  <2>1. \A r \in remote : \E a \in Plains : r \in Sealing!Sealed(a)
    BY <1>0
  <2> QED
    BY <2>1, SourceIs
<1>3. \A r \in remote : r \in ChunkRows /\ r.id[1] = None /\ r.index < r.total /\ r \in SealedFor(r.id)
  <2> TAKE r \in remote
  <2>1. PICK a \in Plains : r \in SealedFor(Sealing!Id(None, a))
    BY <1>2
  <2>2. PICK id, n : id = Sealing!Id(None, a) /\ n = Sealing!Count(Data[id[2]])
    OBVIOUS
  <2>3. id \in Ids /\ id[1] = None
    BY <2>2, IdIs
  <2>4. /\ n \in Nat /\ SealedFor(id) \subseteq ChunkRows
        /\ \A x \in SealedFor(id) : x.id = id /\ x.index \in 0 .. n - 1 /\ x.total = n
    BY <2>2, <2>3, SealedAre DEF SealedWell
  <2>5. r \in ChunkRows /\ r.id = id /\ r.index \in 0 .. n - 1 /\ r.total = n
    BY <2>1, <2>2, <2>4
  <2>6. r.index < r.total
    BY <2>4, <2>5
  <2> QED
    BY <2>1, <2>2, <2>3, <2>5, <2>6
<1>4. \A r, s \in remote : r.id = s.id /\ r.index = s.index => r = s
  <2> SUFFICES ASSUME NEW r \in remote, NEW s \in remote, r.id = s.id, r.index = s.index PROVE r = s
    OBVIOUS
  <2>1. PICK id \in Ids : id = r.id
    BY <1>3 DEF ChunkRows
  <2>2. r \in SealedFor(id) /\ s \in SealedFor(id)
    BY <1>3, <2>1
  <2> QED
    BY <2>2, SealedAre DEF SealedWell
<1>5. ChunksRight
  BY <1>3, <1>4 DEF ChunksRight, Keeping
<1>6. \A c \in Copies : jobs[c] = None
  OBVIOUS
<1>7. BooksTyped /\ WorkRight /\ NotesRight /\ Sealing!ReadsAreRight /\ Sealing!NothingLeftOver
  BY <1>6 DEF BooksTyped, WorkRight, NotesRight, Sealing!ReadsAreRight, Sealing!NothingLeftOver
<1> QED
  BY <1>1, <1>5, <1>7 DEF SealingInv

-----------------------------------------------------------------------------
(* What is kept of the chunks. *)
LEMMA KeepingLess ==
    ASSUME NEW S, NEW T, Keeping(S), T \subseteq S PROVE Keeping(T)
  BY DEF Keeping

LEMMA KeepingOther ==
    ASSUME NEW S, Keeping(S), NEW r \in S, r.id[1] = None, NEW h \in ChunkRows,
           h.id = r.id, h.index = r.index, h.total = r.total
    PROVE  Keeping((S \ {r}) \cup {h})
  BY DEF Keeping

LEMMA KeepingMore ==
    ASSUME NEW S, NEW T, Keeping(S), Keeping(T), NEW id, \A r \in T : r.id = id,
           \A r \in T, s \in S : s.id = id => s.index # r.index
    PROVE  Keeping(S \cup T)
  BY DEF Keeping

(* Only what is kept, and what is around it, changes.                        *)
LEMMA ChunksChange ==
    ASSUME SealingInv, UNCHANGED <<objects, notes, jobs>>, AroundTyped', ChunksRight', Sealing!ReadsAreRight'
    PROVE  SealingInv'
<1> USE DEF SealingInv
<1>1. \A c : Sealing!Made(c)' = Sealing!Made(c) /\ OfMade(c)' = OfMade(c)
  BY DEF Sealing!Made, OfMade
<1>2. BooksTyped'
  BY DEF BooksTyped
<1>3. WorkRight' /\ NotesRight'
  BY <1>1 DEF WorkRight, WorkOf, NotesRight
<1>4. Sealing!NothingLeftOver'
  BY DEF Sealing!NothingLeftOver
<1> QED
  BY <1>2, <1>3, <1>4

LEMMA DamagedIs ==
    ASSUME NEW c \in ChunkRows
    PROVE  /\ Sealing!Damaged(c) \in ChunkRows /\ Sealing!Damaged(c).id = c.id
           /\ Sealing!Damaged(c).index = c.index /\ Sealing!Damaged(c).total = c.total
<1>1. PICK s : s = [c.sealed EXCEPT !.key = None]
  OBVIOUS
<1>2. s \in Seals
  BY <1>1 DEF ChunkRows, Seals
<1>3. Sealing!Damaged(c) = [c EXCEPT !.sealed = s]
  BY <1>1 DEF Sealing!Damaged, ChunkRows
<1> QED
  BY <1>2, <1>3 DEF ChunkRows

LEMMA HappensKeepsSealing ==
    ASSUME SealingInv, Sealing!Happens PROVE SealingInv'
<1>0. AroundTyped /\ ChunksRight /\ Sealing!ReadsAreRight
  BY DEF SealingInv
<1>1. UNCHANGED <<objects, notes, jobs, answer>>
  BY DEF Sealing!Happens
<1>2. Sealing!ReadsAreRight'
  BY <1>0, <1>1 DEF Sealing!ReadsAreRight
<1>3. CASE UNCHANGED <<rows, remote>>
  <2>1. AroundTyped'
    BY <1>0, <1>3, SealingAssumptions DEF AroundTyped, Sealing!Happens
  <2>2. ChunksRight'
    BY <1>0, <1>3 DEF ChunksRight, Keeping
  <2> QED
    BY <1>1, <1>2, <2>1, <2>2, ChunksChange
<1>4. ASSUME Keeping(rows'), UNCHANGED <<known, remote, online, open>> PROVE SealingInv'
  <2>1. AroundTyped'
    BY <1>0, <1>4 DEF AroundTyped
  <2>2. ChunksRight'
    BY <1>0, <1>4 DEF ChunksRight, Keeping
  <2> QED
    BY <1>1, <1>2, <2>1, <2>2, ChunksChange
<1>5. ASSUME NEW a, rows' = rows \ Sealing!Cached(Sealing!Id(None, a)), UNCHANGED <<known, remote, online, open>>
      PROVE  SealingInv'
  BY <1>0, <1>4, <1>5, KeepingLess DEF ChunksRight
<1>6. ASSUME NEW c \in rows, c.id[1] = None, rows' = (rows \ {c}) \cup {Sealing!Damaged(c)},
             UNCHANGED <<known, remote, online, open>>
      PROVE  SealingInv'
  <2>1. Keeping(rows) /\ c \in ChunkRows
    BY <1>0 DEF ChunksRight, Keeping
  <2>2. PICK h \in ChunkRows : h = Sealing!Damaged(c) /\ h.id = c.id /\ h.index = c.index /\ h.total = c.total
    BY <2>1, DamagedIs
  <2>3. Keeping(rows')
    BY <1>6, <2>1, <2>2, KeepingOther
  <2> QED
    BY <1>4, <1>6, <2>3
<1>7. ASSUME NEW c \in remote, NEW d \in (remote \ {c}) \cup {Sealing!Damaged(c)},
             remote' = (remote \ {c}) \cup {[c EXCEPT !.sealed = d.sealed]}, UNCHANGED <<known, rows, online, open>>
      PROVE  SealingInv'
  <2>1. Keeping(remote) /\ c \in ChunkRows /\ c.id[1] = None /\ \A r \in remote : r \in ChunkRows /\ r.id[1] = None
    BY <1>0 DEF ChunksRight, Keeping
  <2>2. d.sealed \in Seals
    <3>1. d \in ChunkRows
      BY <2>1, DamagedIs
    <3> QED
      BY <3>1 DEF ChunkRows
  <2>3. PICK h : h = [c EXCEPT !.sealed = d.sealed]
    OBVIOUS
  <2>4. h \in ChunkRows /\ h.id = c.id /\ h.index = c.index /\ h.total = c.total
    BY <2>1, <2>2, <2>3 DEF ChunkRows
  <2>5. Keeping(remote') /\ \A r \in remote' : r.id[1] = None
    BY <1>7, <2>1, <2>3, <2>4, KeepingOther
  <2>6. ChunksRight'
    BY <1>0, <1>7, <2>5 DEF ChunksRight, Keeping
  <2>7. AroundTyped'
    BY <1>0, <1>7 DEF AroundTyped
  <2> QED
    BY <1>1, <1>2, <2>6, <2>7, ChunksChange
<1> QED
  BY <1>3, <1>5, <1>6, <1>7 DEF Sealing!Happens

-----------------------------------------------------------------------------
LEMMA GatheredKeeps ==
    ASSUME ChunksRight, NEW a \in Plains
    PROVE  /\ Keeping(rows \cup Sealing!Gathered(Sealing!Source(a)))
           /\ Keeping((rows \ Sealing!Cached(Sealing!Source(a).id))
                        \cup {c \in remote : c.id = Sealing!Source(a).id})
<1>1. PICK meta, id : meta = Sealing!Source(a) /\ id = meta.id
  OBVIOUS
<1>2. Keeping(rows) /\ Keeping(remote)
  BY DEF ChunksRight
<1>3. PICK T : T = IF online THEN Sealing!Served(meta) ELSE {}
  OBVIOUS
<1>4. rows \cup Sealing!Gathered(meta) = rows \cup T
  BY <1>3 DEF Sealing!Gathered, Sealing!Cached
<1>5. T \subseteq remote /\ \A r \in T : r.id = id /\ \A s \in rows : s.id = id => s.index # r.index
  BY <1>1, <1>3 DEF Sealing!Served, Sealing!Missing, Sealing!Cached
<1>6. Keeping(T)
  BY <1>2, <1>5, KeepingLess
<1>7. Keeping(rows \cup T)
  BY <1>2, <1>5, <1>6, KeepingMore
<1>8. PICK S, again : S = rows \ Sealing!Cached(id) /\ again = {c \in remote : c.id = id}
  OBVIOUS
<1>9. S \subseteq rows /\ again \subseteq remote /\ \A r \in again : r.id = id /\ \A s \in S : s.id # id
  BY <1>8 DEF Sealing!Cached
<1>10. Keeping(S) /\ Keeping(again)
  BY <1>2, <1>9, KeepingLess
<1>11. Keeping(S \cup again)
  BY <1>9, <1>10, KeepingMore
<1> QED
  BY <1>1, <1>4, <1>7, <1>8, <1>11

LEMMA ReadKeepsSealing ==
    ASSUME SealingInv, NEW a \in Plains, Sealing!Read(a) PROVE SealingInv'
<1>0. AroundTyped /\ ChunksRight
  BY DEF SealingInv
<1>1. UNCHANGED <<known, remote, online, open, objects, notes, jobs>>
  BY DEF Sealing!Read, Sealing!environment
<1>2. AroundTyped'
  BY <1>0, <1>1 DEF AroundTyped
<1>3. PICK meta : meta = Sealing!Source(a)
  OBVIOUS
<1>4. Keeping(rows')
  <2>1. \/ rows' = rows \cup Sealing!Gathered(meta)
        \/ rows' = (rows \ Sealing!Cached(meta.id)) \cup {c \in remote : c.id = meta.id}
    BY <1>3 DEF Sealing!Read
  <2> QED
    BY <1>0, <1>3, <2>1, GatheredKeeps
<1>5. ChunksRight'
  BY <1>0, <1>1, <1>4 DEF ChunksRight, Keeping
<1>6. \E S : answer' = [of |-> a, bytes |-> Sealing!Opened(meta, S)]
  BY <1>3 DEF Sealing!Read
<1>7. Sealing!ReadsAreRight'
  <2>1. PICK S : answer' = [of |-> a, bytes |-> Sealing!Opened(meta, S)]
    BY <1>6
  <2>2. Sealing!Opened(meta, S) \in {Data[a], None}
    BY <1>3, OpenedIs, SourceIs
  <2> QED
    BY <2>1, <2>2 DEF Sealing!ReadsAreRight
<1> QED
  BY <1>1, <1>2, <1>5, <1>7, ChunksChange

-----------------------------------------------------------------------------
(* One copy moves on. *)
LEMMA WorkChanges ==
    ASSUME SealingInv, NEW c \in Copies, NEW w \in Sealing!Work \cup {None}, jobs' = [jobs EXCEPT ![c] = w],
           UNCHANGED <<known, remote, online, open, objects, notes, answer>>, Keeping(rows'),
           w # None => WorkOf(c, w), w = None => OfMade(c) = {}
    PROVE  SealingInv'
<1> USE DEF SealingInv
<1>1. \A d : Sealing!Made(d)' = Sealing!Made(d) /\ OfMade(d)' = OfMade(d)
  BY DEF Sealing!Made, OfMade
<1>2. AroundTyped' /\ NotesRight' /\ Sealing!ReadsAreRight'
  BY <1>1 DEF AroundTyped, NotesRight, Sealing!ReadsAreRight
<1>3. ChunksRight'
  BY DEF ChunksRight, Keeping
<1>4. jobs \in [Copies -> Sealing!Work \cup {None}] /\ \A d \in Copies : jobs'[d] = IF d = c THEN w ELSE jobs[d]
  BY DEF BooksTyped
<1>5. BooksTyped'
  BY <1>4 DEF BooksTyped
<1>6. WorkRight'
  BY <1>1, <1>4 DEF WorkRight, WorkOf
<1>7. Sealing!NothingLeftOver'
  <2> SUFFICES ASSUME NEW o \in objects PROVE (\E n \in notes : n.copy = o.owner) \/ jobs'[o.owner] # None
    BY DEF Sealing!NothingLeftOver
  <2>1. o.owner \in Copies
    BY DEF BooksTyped
  <2>2. o.of \in OfMade(o.owner)
    BY DEF OfMade, Sealing!Made
  <2> QED
    BY <1>4, <2>1, <2>2 DEF Sealing!NothingLeftOver
<1> QED
  BY <1>2, <1>3, <1>5, <1>6, <1>7

LEMMA WorkIs ==
    ASSUME SealingInv, NEW c \in Copies, jobs[c] # None
    PROVE  /\ jobs[c] \in Sealing!Work /\ WorkOf(c, jobs[c])
           /\ jobs[c].step \in {"read", "make", "undo"} /\ jobs[c].todo \subseteq Plains /\ jobs[c].allow \in BOOLEAN
           /\ jobs[c].missing \subseteq Plains
           /\ DOMAIN jobs[c].plain \subseteq Plains /\ jobs[c].plain = [a \in DOMAIN jobs[c].plain |-> Data[a]]
           /\ jobs[c] = [step |-> jobs[c].step, todo |-> jobs[c].todo, allow |-> jobs[c].allow,
                         plain |-> jobs[c].plain, missing |-> jobs[c].missing]
<1>1. jobs[c] \in Sealing!Work /\ WorkOf(c, jobs[c])
  BY DEF SealingInv, BooksTyped, WorkRight
<1>2. PICK read \in SUBSET Plains : jobs[c].plain = [a \in read |-> Data[a]]
  BY <1>1, SealingAssumptions DEF Sealing!Work
<1> QED
  BY <1>1, <1>2, SealingAssumptions DEF Sealing!Work

LEMMA WorkMade ==
    ASSUME NEW work \in Sealing!Work, NEW w, NEW st \in {"read", "make", "undo"}, NEW todo, NEW read, NEW missing,
           todo \subseteq Plains, read \subseteq Plains, missing \subseteq Plains,
           w = [step |-> st, todo |-> todo, allow |-> work.allow, plain |-> [a \in read |-> Data[a]],
                missing |-> missing]
    PROVE  w \in Sealing!Work /\ w # None
<1>1. [a \in read |-> Data[a]] \in {[a \in some |-> Data[a]] : some \in SUBSET Sealing!Plains}
  BY SealingAssumptions
<1>2. work.allow \in BOOLEAN
  BY DEF Sealing!Work
<1>3. w \in Sealing!Work
  BY <1>1, <1>2, SealingAssumptions DEF Sealing!Work
<1> QED
  BY <1>3, SealingAssumptions

LEMMA BeginKeepsSealing ==
    ASSUME SealingInv, NEW c \in Copies, Sealing!Begin(c) PROVE SealingInv'
<1>1. /\ jobs[c] = None /\ (\A n \in notes : n.copy # c)
      /\ UNCHANGED <<known, remote, online, open, rows, objects, notes, answer>>
  BY DEF Sealing!Begin, Sealing!environment
<1>2. PICK allow \in BOOLEAN :
        jobs' = [jobs EXCEPT ![c] = [step |-> "read", todo |-> Sealing!Plains, allow |-> allow,
                                      plain |-> [a \in {} |-> <<>>], missing |-> {}]]
  BY DEF Sealing!Begin
<1>3. PICK w : w = [step |-> "read", todo |-> Sealing!Plains, allow |-> allow,
                    plain |-> [a \in {} |-> <<>>], missing |-> {}]
  OBVIOUS
<1>4. w \in Sealing!Work /\ w # None
  <2>1. [a \in {} |-> <<>>] = [a \in {} |-> Data[a]]
    OBVIOUS
  <2>2. [a \in {} |-> <<>>] \in {[a \in read |-> Data[a]] : read \in SUBSET Sealing!Plains}
    BY <2>1
  <2>3. w \in Sealing!Work
    BY <1>3, <2>2 DEF Sealing!Work
  <2> QED
    BY <2>3, SealingAssumptions
<1>5. OfMade(c) = {}
  BY <1>1 DEF OfMade, Sealing!Made, SealingInv, Sealing!NothingLeftOver
<1>6. WorkOf(c, w)
  <2>1. DOMAIN w.plain = {} /\ w.todo = Plains /\ w.missing = {} /\ w.step = "read"
    BY <1>3, SealingAssumptions
  <2> QED
    BY <1>1, <1>5, <2>1 DEF WorkOf
<1>7. Keeping(rows')
  BY <1>1 DEF SealingInv, ChunksRight, Keeping
<1>8. jobs' = [jobs EXCEPT ![c] = w]
  BY <1>2, <1>3
<1> QED
  BY <1>1, <1>4, <1>6, <1>7, <1>8, WorkChanges

LEMMA ReadSourceKeepsSealing ==
    ASSUME SealingInv, NEW c \in Copies, Sealing!ReadSource(c) PROVE SealingInv'
<1>0. AroundTyped /\ ChunksRight /\ jobs \in [Copies -> Sealing!Work \cup {None}]
  BY DEF SealingInv, BooksTyped
<1>1. /\ jobs[c] # None /\ jobs[c].step = "read" /\ jobs[c].todo # {}
      /\ UNCHANGED <<known, remote, online, open, objects, notes, answer>>
  BY DEF Sealing!ReadSource, Sealing!Job, Sealing!environment
<1>2. PICK work : work = jobs[c]
  OBVIOUS
<1>3. /\ work \in Sealing!Work /\ WorkOf(c, work) /\ work.step = "read"
      /\ work.todo \subseteq Plains /\ work.allow \in BOOLEAN /\ work.missing \subseteq Plains
      /\ DOMAIN work.plain \subseteq Plains /\ work.plain = [a \in DOMAIN work.plain |-> Data[a]]
      /\ work = [step |-> "read", todo |-> work.todo, allow |-> work.allow, plain |-> work.plain,
                 missing |-> work.missing]
  BY <1>1, <1>2, WorkIs
<1>4. PICK a : a = Sealing!NextOf(c)
  OBVIOUS
<1>5. a \in work.todo /\ a \in Plains
  BY <1>1, <1>2, <1>3, <1>4, NextIs DEF Sealing!NextOf
<1>6. Keeping(rows)
  BY <1>0 DEF ChunksRight
<1>7. OfMade(c) = {}
  BY <1>3 DEF WorkOf
<1>8. PICK bytes : bytes = Sealing!Opened(Sealing!Source(a), Sealing!Gathered(Sealing!Source(a)))
  OBVIOUS
<1>9. bytes \in {Data[a], None}
  BY <1>5, <1>8, OpenedIs, SourceIs
<1>10. Keeping(rows \cup Sealing!Gathered(Sealing!Source(a)))
  BY <1>0, <1>5, GatheredKeeps
<1>11. ASSUME jobs' = [jobs EXCEPT ![c] = None], Keeping(rows') PROVE SealingInv'
  <2>1. None \in Sealing!Work \cup {None}
    OBVIOUS
  <2>2. PICK w \in Sealing!Work \cup {None} : w = None
    BY <2>1
  <2> QED
    BY <1>1, <1>7, <1>11, <2>2, WorkChanges
<1>12. ASSUME jobs' = [jobs EXCEPT ![c].todo = @ \ {a}, ![c].missing = @ \cup {a}], Keeping(rows'), work.allow
       PROVE  SealingInv'
  <2>1. PICK w : w = [step |-> "read", todo |-> work.todo \ {a}, allow |-> work.allow,
                      plain |-> [x \in DOMAIN work.plain |-> Data[x]], missing |-> work.missing \cup {a}]
    OBVIOUS
  <2>2. w \in Sealing!Work /\ w # None
    BY <1>3, <1>5, <2>1, WorkMade
  <2>3. w = [[work EXCEPT !.todo = @ \ {a}] EXCEPT !.missing = @ \cup {a}]
    <3>1. [x \in DOMAIN work.plain |-> Data[x]] = work.plain
      BY <1>3
    <3>2. PICK t, al, pl, mi : work = [step |-> "read", todo |-> t, allow |-> al, plain |-> pl, missing |-> mi]
      BY <1>3
    <3>3. t = work.todo /\ al = work.allow /\ pl = work.plain /\ mi = work.missing
      BY <3>2
    <3>4. w = [step |-> "read", todo |-> t \ {a}, allow |-> al, plain |-> pl, missing |-> mi \cup {a}]
      BY <2>1, <3>1, <3>3
    <3>5. PICK u : u = [work EXCEPT !.todo = @ \ {a}]
      OBVIOUS
    <3>6. u = [step |-> "read", todo |-> t \ {a}, allow |-> al, plain |-> pl, missing |-> mi]
      BY <3>2, <3>5
    <3>7. w = [u EXCEPT !.missing = @ \cup {a}]
      BY <3>4, <3>6
    <3> QED
      BY <3>5, <3>7
  <2>4. jobs' = [jobs EXCEPT ![c] = w]
    BY <1>0, <1>2, <1>12, <2>3
  <2>5. WorkOf(c, w)
    <3>1. /\ w.step = "read" /\ w.todo = work.todo \ {a} /\ w.allow = work.allow
          /\ DOMAIN w.plain = DOMAIN work.plain /\ w.missing = work.missing \cup {a}
      BY <2>1
    <3> QED
      BY <1>3, <1>5, <1>12, <3>1 DEF WorkOf
  <2> QED
    BY <1>1, <1>12, <2>2, <2>4, <2>5, WorkChanges
<1>13. ASSUME jobs' = [jobs EXCEPT ![c].todo = @ \ {a},
                         ![c].plain = [x \in DOMAIN @ \cup {a} |-> IF x = a THEN bytes ELSE @[x]]],
              bytes # None, Keeping(rows')
       PROVE  SealingInv'
  <2>1. PICK w : w = [step |-> "read", todo |-> work.todo \ {a}, allow |-> work.allow,
                      plain |-> [x \in DOMAIN work.plain \cup {a} |-> Data[x]], missing |-> work.missing]
    OBVIOUS
  <2>2. w \in Sealing!Work /\ w # None
    BY <1>3, <1>5, <2>1, WorkMade
  <2>3. [x \in DOMAIN work.plain \cup {a} |-> IF x = a THEN bytes ELSE work.plain[x]]
          = [x \in DOMAIN work.plain \cup {a} |-> Data[x]]
    BY <1>3, <1>9, <1>13
  <2>4. w = [[work EXCEPT !.todo = @ \ {a}] EXCEPT
               !.plain = [x \in DOMAIN work.plain \cup {a} |-> IF x = a THEN bytes ELSE work.plain[x]]]
    <3>1. PICK more : more = [x \in DOMAIN work.plain \cup {a} |-> Data[x]]
      OBVIOUS
    <3>2. w = [step |-> "read", todo |-> work.todo \ {a}, allow |-> work.allow, plain |-> more,
               missing |-> work.missing]
      BY <2>1, <3>1
    <3>3. PICK t, al, pl, mi : work = [step |-> "read", todo |-> t, allow |-> al, plain |-> pl, missing |-> mi]
      BY <1>3
    <3>4. t = work.todo /\ al = work.allow /\ pl = work.plain /\ mi = work.missing
      BY <3>3
    <3>5. w = [step |-> "read", todo |-> t \ {a}, allow |-> al, plain |-> more, missing |-> mi]
      BY <3>2, <3>4
    <3>6. PICK u : u = [work EXCEPT !.todo = @ \ {a}]
      OBVIOUS
    <3>7. u = [step |-> "read", todo |-> t \ {a}, allow |-> al, plain |-> pl, missing |-> mi]
      BY <3>3, <3>6
    <3>8. w = [u EXCEPT !.plain = more]
      BY <3>5, <3>7
    <3> QED
      BY <2>3, <3>1, <3>6, <3>8
  <2>5. jobs' = [jobs EXCEPT ![c] = w]
    BY <1>0, <1>2, <1>3, <1>13, <2>4 DEF Sealing!Work
  <2>6. WorkOf(c, w)
    BY <1>3, <1>5, <2>1 DEF WorkOf
  <2> QED
    BY <1>1, <1>13, <2>2, <2>5, <2>6, WorkChanges
<1>14. CASE Sealing!Unavailable(c) # {}
  <2>1. jobs' = [jobs EXCEPT ![c] = None] /\ rows' = rows
    BY <1>14 DEF Sealing!ReadSource
  <2> QED
    BY <1>6, <1>11, <2>1
<1>15. CASE Sealing!Unavailable(c) = {}
  <2>1. work.allow \/ known[a] \notin {"deleted", "unknown"}
    BY <1>2, <1>4, <1>15 DEF Sealing!Unavailable
  <2>2. CASE known[a] = "unknown" \/ (known[a] = "deleted" /\ ~jobs[c].allow)
    <3>1. jobs' = [jobs EXCEPT ![c].todo = @ \ {a}, ![c].missing = @ \cup {a}] /\ rows' = rows
      BY <1>4, <1>15, <2>2 DEF Sealing!ReadSource
    <3>2. work.allow
      BY <2>1, <2>2
    <3> QED
      BY <1>6, <1>12, <3>1, <3>2
  <2>3. CASE ~(known[a] = "unknown" \/ (known[a] = "deleted" /\ ~jobs[c].allow))
    <3>1. /\ rows' = rows \cup Sealing!Gathered(Sealing!Source(a))
          /\ jobs' = IF bytes = None \/ ~open THEN [jobs EXCEPT ![c] = None]
                     ELSE [jobs EXCEPT ![c].todo = @ \ {a},
                             ![c].plain = [x \in DOMAIN @ \cup {a} |-> IF x = a THEN bytes ELSE @[x]]]
      BY <1>4, <1>8, <1>15, <2>3 DEF Sealing!ReadSource
    <3>2. CASE bytes = None \/ ~open
      BY <1>10, <1>11, <3>1, <3>2
    <3>3. CASE ~(bytes = None \/ ~open)
      BY <1>10, <1>13, <3>1, <3>3
    <3> QED
      BY <3>2, <3>3
  <2> QED
    BY <2>2, <2>3
<1> QED
  BY <1>14, <1>15

LEMMA AllReadKeepsSealing ==
    ASSUME SealingInv, NEW c \in Copies, Sealing!AllRead(c) PROVE SealingInv'
<1>0. jobs \in [Copies -> Sealing!Work \cup {None}] /\ Keeping(rows)
  BY DEF SealingInv, BooksTyped, ChunksRight
<1>1. /\ jobs[c] # None /\ jobs[c].step = "read" /\ jobs[c].todo = {}
      /\ UNCHANGED <<known, remote, online, open, rows, objects, notes, answer>>
      /\ jobs' = [jobs EXCEPT ![c].step = "make", ![c].todo = DOMAIN jobs[c].plain]
  BY DEF Sealing!AllRead, Sealing!Job, Sealing!environment
<1>2. PICK work : work = jobs[c]
  OBVIOUS
<1>3. /\ work \in Sealing!Work /\ WorkOf(c, work) /\ work.step = "read" /\ work.todo = {}
      /\ work.missing \subseteq Plains
      /\ DOMAIN work.plain \subseteq Plains /\ work.plain = [a \in DOMAIN work.plain |-> Data[a]]
      /\ work = [step |-> "read", todo |-> work.todo, allow |-> work.allow, plain |-> work.plain,
                 missing |-> work.missing]
  BY <1>1, <1>2, WorkIs
<1>4. PICK w : w = [step |-> "make", todo |-> DOMAIN work.plain, allow |-> work.allow,
                    plain |-> [x \in DOMAIN work.plain |-> Data[x]], missing |-> work.missing]
  OBVIOUS
<1>5. w \in Sealing!Work /\ w # None
  BY <1>3, <1>4, WorkMade
<1>6. jobs' = [jobs EXCEPT ![c] = w]
  <2>1. PICK al, pl, mi : work = [step |-> "read", todo |-> {}, allow |-> al, plain |-> pl, missing |-> mi]
    BY <1>3
  <2>2. w = [step |-> "make", todo |-> DOMAIN pl, allow |-> al, plain |-> pl, missing |-> mi]
    BY <1>3, <1>4, <2>1
  <2>3. PICK u : u = [work EXCEPT !.step = "make"]
    OBVIOUS
  <2>4. u = [step |-> "make", todo |-> {}, allow |-> al, plain |-> pl, missing |-> mi]
    BY <2>1, <2>3
  <2>5. w = [u EXCEPT !.todo = DOMAIN work.plain]
    BY <2>1, <2>2, <2>4
  <2> QED
    BY <1>0, <1>1, <1>2, <2>3, <2>5
<1>7. WorkOf(c, w)
  <2>1. /\ w.step = "make" /\ w.todo = DOMAIN work.plain /\ w.allow = work.allow
        /\ DOMAIN w.plain = DOMAIN work.plain /\ w.missing = work.missing
    BY <1>4
  <2> QED
    BY <1>3, <2>1 DEF WorkOf
<1>8. Keeping(rows')
  BY <1>0, <1>1
<1> QED
  BY <1>1, <1>5, <1>6, <1>7, <1>8, WorkChanges

(* A copy that cannot be finished is undone.                                 *)
LEMMA GivesUp ==
    ASSUME SealingInv, NEW c \in Copies, jobs[c] # None,
           UNCHANGED <<known, remote, online, open, rows, objects, notes, answer>>,
           \/ jobs' = [jobs EXCEPT ![c].step = "undo", ![c].todo = {}]
           \/ jobs' = [jobs EXCEPT ![c].step = "undo"] /\ jobs[c].todo = {}
    PROVE  SealingInv'
<1>0. jobs \in [Copies -> Sealing!Work \cup {None}] /\ Keeping(rows)
  BY DEF SealingInv, BooksTyped, ChunksRight
<1>1. PICK work : work = jobs[c]
  OBVIOUS
<1>2. /\ work \in Sealing!Work /\ WorkOf(c, work) /\ work.missing \subseteq Plains
      /\ DOMAIN work.plain \subseteq Plains /\ work.plain = [a \in DOMAIN work.plain |-> Data[a]]
      /\ work = [step |-> work.step, todo |-> work.todo, allow |-> work.allow, plain |-> work.plain,
                 missing |-> work.missing]
  BY <1>1, WorkIs
<1>3. PICK w : w = [step |-> "undo", todo |-> {}, allow |-> work.allow,
                    plain |-> [x \in DOMAIN work.plain |-> Data[x]], missing |-> work.missing]
  OBVIOUS
<1>4. w \in Sealing!Work /\ w # None
  BY <1>2, <1>3, WorkMade
<1>5. jobs' = [jobs EXCEPT ![c] = w]
  <2>1. PICK st, t, al, pl, mi : work = [step |-> st, todo |-> t, allow |-> al, plain |-> pl, missing |-> mi]
    BY <1>2
  <2>2. w = [step |-> "undo", todo |-> {}, allow |-> al, plain |-> pl, missing |-> mi]
    BY <1>2, <1>3, <2>1
  <2>3. PICK u : u = [work EXCEPT !.step = "undo"]
    OBVIOUS
  <2>4. u = [step |-> "undo", todo |-> t, allow |-> al, plain |-> pl, missing |-> mi]
    BY <2>1, <2>3
  <2>5. w = [u EXCEPT !.todo = {}]
    BY <2>2, <2>4
  <2>6. jobs[c].todo = {} => w = u
    BY <1>1, <2>1, <2>2, <2>4
  <2> QED
    BY <1>0, <1>1, <2>3, <2>5, <2>6
<1>6. WorkOf(c, w)
  <2>1. w.step = "undo" /\ w.allow = work.allow /\ w.missing = work.missing
    BY <1>3
  <2> QED
    BY <1>2, <2>1 DEF WorkOf
<1>7. Keeping(rows')
  BY <1>0
<1> QED
  BY <1>4, <1>5, <1>6, <1>7, WorkChanges

-----------------------------------------------------------------------------
LEMMA MakeKeepsSealing ==
    ASSUME SealingInv, NEW c \in Copies, Sealing!Make(c) PROVE SealingInv'
<1>0. AroundTyped /\ ChunksRight /\ BooksTyped /\ WorkRight /\ NotesRight
      /\ Sealing!ReadsAreRight /\ Sealing!NothingLeftOver
  BY DEF SealingInv
<1>1. /\ jobs[c] # None /\ jobs[c].step = "make" /\ jobs[c].todo # {}
      /\ UNCHANGED <<known, remote, online, open, notes, answer>>
  BY DEF Sealing!Make, Sealing!Job, Sealing!environment
<1>2. PICK work : work = jobs[c]
  OBVIOUS
<1>3. /\ work \in Sealing!Work /\ WorkOf(c, work) /\ work.step = "make" /\ work.todo \subseteq Plains
      /\ work.missing \subseteq Plains
      /\ DOMAIN work.plain \subseteq Plains /\ work.plain = [a \in DOMAIN work.plain |-> Data[a]]
      /\ work = [step |-> work.step, todo |-> work.todo, allow |-> work.allow, plain |-> work.plain,
                 missing |-> work.missing]
  BY <1>1, <1>2, WorkIs
<1>4. PICK a : a = Sealing!NextOf(c)
  OBVIOUS
<1>5. a \in work.todo /\ a \in Plains /\ a \in DOMAIN work.plain
  <2>1. a \in work.todo
    BY <1>1, <1>2, <1>3, <1>4, NextIs DEF Sealing!NextOf
  <2> QED
    BY <1>3, <2>1 DEF WorkOf
<1>6. PICK id : id = Sealing!Id(c, a)
  OBVIOUS
<1>7. id \in Ids /\ id[1] = c /\ id[2] = a /\ c # None
  BY <1>5, <1>6, IdIs, SealingAssumptions
<1>8. work.plain[a] = Data[a]
  BY <1>3, <1>5
<1>9. CASE jobs' = [jobs EXCEPT ![c].step = "undo", ![c].todo = {}] /\ UNCHANGED <<rows, objects>>
  BY <1>1, <1>9, GivesUp
<1>10. CASE /\ rows' = rows \cup SealedFor(id)
            /\ objects' = objects \cup {[owner |-> c, of |-> a, meta |-> MadeFor(id)]}
            /\ jobs' = [jobs EXCEPT ![c].todo = @ \ {a}]
  <2>1. PICK o : o = [owner |-> c, of |-> a, meta |-> MadeFor(id)]
    OBVIOUS
  <2>2. o.owner = c /\ o.of = a /\ o.meta = MadeFor(id)
    BY <2>1
  <2>3. \A d : OfMade(d)' = IF d = c THEN OfMade(d) \cup {a} ELSE OfMade(d)
    <3> SUFFICES ASSUME NEW d PROVE OfMade(d)' = IF d = c THEN OfMade(d) \cup {a} ELSE OfMade(d)
      OBVIOUS
    <3>1. Sealing!Made(d)' = IF d = c THEN Sealing!Made(d) \cup {o} ELSE Sealing!Made(d)
      BY <1>10, <2>1, <2>2 DEF Sealing!Made
    <3> QED
      BY <2>2, <3>1 DEF OfMade
  <2>4. PICK w : w = [step |-> "make", todo |-> work.todo \ {a}, allow |-> work.allow,
                      plain |-> [x \in DOMAIN work.plain |-> Data[x]], missing |-> work.missing]
    OBVIOUS
  <2>5. w \in Sealing!Work /\ w # None
    BY <1>3, <2>4, WorkMade
  <2>6. jobs \in [Copies -> Sealing!Work \cup {None}]
    BY <1>0 DEF BooksTyped
  <2>7. \A d \in Copies : jobs'[d] = IF d = c THEN w ELSE jobs[d]
    <3>1. PICK st, t, al, pl, mi : work = [step |-> st, todo |-> t, allow |-> al, plain |-> pl, missing |-> mi]
      BY <1>3
    <3>2. w = [step |-> "make", todo |-> t \ {a}, allow |-> al, plain |-> pl, missing |-> mi] /\ st = "make"
      BY <1>3, <2>4, <3>1
    <3>3. w = [work EXCEPT !.todo = @ \ {a}]
      BY <3>1, <3>2
    <3> QED
      BY <1>2, <1>10, <2>6, <3>3
  <2>8. BooksTyped'
    <3>1. jobs' \in [Copies -> Sealing!Work \cup {None}]
      BY <1>10, <2>5, <2>6, <2>7
    <3>2. \A x \in objects' : x \in objects \/ x = o
      BY <1>10, <2>1
    <3>3. \A x \in objects' : x.owner \in Copies /\ x.of \in Plains /\ x.meta = MadeFor(Sealing!Id(x.owner, x.of))
      BY <1>0, <1>5, <1>6, <2>2, <3>2 DEF BooksTyped
    <3> QED
      BY <3>1, <3>3 DEF BooksTyped
  <2>9. Keeping(rows')
    <3>1. Keeping(rows)
      BY <1>0 DEF ChunksRight
    <3>2. PICK n : SealedWell(id, n)
      BY <1>7, SealedAre
    <3>3. \A r \in SealedFor(id) : r \in ChunkRows /\ r.id = id /\ r.index < r.total
      <4>1. n \in Nat /\ \A r \in SealedFor(id) : r \in ChunkRows /\ r.id = id /\ r.index \in 0 .. n - 1 /\ r.total = n
        BY <3>2 DEF SealedWell
      <4> QED
        BY <4>1
    <3>4. \A r, s \in SealedFor(id) : r.index = s.index => r = s
      BY <3>2 DEF SealedWell
    <3>5. \A r \in rows : r.id = id => r \in SealedFor(id)
      BY <1>7, <3>1 DEF Keeping
    <3> QED
      BY <1>10, <3>1, <3>3, <3>4, <3>5 DEF Keeping
  <2>10. ChunksRight'
    BY <1>0, <1>1, <2>9 DEF ChunksRight, Keeping
  <2>11. WorkRight'
    <3> SUFFICES ASSUME NEW d \in Copies, jobs'[d] # None PROVE WorkOf(d, jobs[d])'
      BY DEF WorkRight
    <3>1. CASE d = c
      <4>1. /\ w.step = "make" /\ w.todo = work.todo \ {a} /\ w.allow = work.allow
            /\ DOMAIN w.plain = DOMAIN work.plain /\ w.missing = work.missing
        BY <2>4
      <4>2. OfMade(c)' = OfMade(c) \cup {a}
        BY <2>3
      <4>3. WorkOf(c, w)'
        BY <1>1, <1>3, <1>5, <4>1, <4>2 DEF WorkOf
      <4>4. jobs'[d] = w
        BY <2>7, <3>1
      <4> QED
        BY <3>1, <4>3, <4>4 DEF WorkOf
    <3>2. CASE d # c
      <4>1. jobs'[d] = jobs[d] /\ OfMade(d)' = OfMade(d)
        BY <2>3, <2>7, <3>2
      <4> QED
        BY <1>0, <1>1, <4>1 DEF WorkRight, WorkOf
    <3> QED
      BY <3>1, <3>2
  <2>12. NotesRight'
    <3>1. \A n \in notes : n.copy # c
      BY <1>3 DEF WorkOf
    <3>2. \A n \in notes : OfMade(n.copy)' = OfMade(n.copy)
      BY <2>3, <3>1
    <3> QED
      BY <1>0, <1>1, <3>2 DEF NotesRight
  <2>13. Sealing!NothingLeftOver'
    <3> SUFFICES ASSUME NEW x \in objects' PROVE (\E n \in notes' : n.copy = x.owner) \/ jobs'[x.owner] # None
      BY DEF Sealing!NothingLeftOver
    <3>1. CASE x.owner = c
      BY <2>5, <2>7, <3>1
    <3>2. CASE x.owner # c
      <4>1. x \in objects /\ x.owner \in Copies
        BY <1>0, <1>10, <2>1, <2>2, <3>2 DEF BooksTyped
      <4> QED
        BY <1>0, <1>1, <2>7, <3>2, <4>1 DEF Sealing!NothingLeftOver
    <3> QED
      BY <3>1, <3>2
  <2>14. AroundTyped' /\ Sealing!ReadsAreRight'
    BY <1>0, <1>1 DEF AroundTyped, Sealing!ReadsAreRight
  <2> QED
    BY <2>8, <2>10, <2>11, <2>12, <2>13, <2>14 DEF SealingInv
<1>11. SealedFor(id) = Sealing!SealedChunks(id, id, Data[a]) /\ MadeFor(id) = Sealing!Metadata(id, id, Data[a])
  BY <1>7 DEF SealedFor, MadeFor
<1> QED
  BY <1>2, <1>4, <1>6, <1>8, <1>9, <1>10, <1>11 DEF Sealing!Make

-----------------------------------------------------------------------------
LEMMA SaveKeepsSealing ==
    ASSUME SealingInv, NEW c \in Copies, Sealing!Save(c) PROVE SealingInv'
<1>0. AroundTyped /\ ChunksRight /\ BooksTyped /\ WorkRight /\ NotesRight
      /\ Sealing!ReadsAreRight /\ Sealing!NothingLeftOver
  BY DEF SealingInv
<1>1. /\ jobs[c] # None /\ jobs[c].step = "make" /\ jobs[c].todo = {}
      /\ UNCHANGED <<known, remote, online, open, rows, objects, answer>>
  BY DEF Sealing!Save, Sealing!Job, Sealing!environment
<1>2. CASE jobs' = [jobs EXCEPT ![c].step = "undo"] /\ UNCHANGED notes
  BY <1>1, <1>2, GivesUp
<1>3. CASE /\ notes' = notes \cup {[copy |-> c, refs |-> {o.meta.id : o \in Sealing!Made(c)},
                                    missing |-> jobs[c].missing]}
           /\ jobs' = [jobs EXCEPT ![c] = None]
  <2>1. PICK n : n = [copy |-> c, refs |-> {o.meta.id : o \in Sealing!Made(c)}, missing |-> jobs[c].missing]
    OBVIOUS
  <2>2. n.copy = c /\ n.refs = {o.meta.id : o \in Sealing!Made(c)} /\ n.missing = jobs[c].missing
    BY <2>1
  <2>3. \A d : OfMade(d)' = OfMade(d)
    BY <1>1 DEF OfMade, Sealing!Made
  <2>4. OfMade(c) = Plains \ n.missing
    <3>1. WorkOf(c, jobs[c])
      BY <1>0, <1>1 DEF WorkRight
    <3> QED
      BY <1>1, <2>2, <3>1 DEF WorkOf
  <2>5. \A o \in Sealing!Made(c) : o.meta.id = Sealing!Id(c, o.of)
    <3>1. \A o \in Sealing!Made(c) : o \in objects /\ o.owner = c
      BY DEF Sealing!Made
    <3>2. \A id : MadeFor(id).id = id
      BY DEF MadeFor, Sealing!Metadata
    <3> QED
      BY <1>0, <3>1, <3>2 DEF BooksTyped
  <2>6. n.refs = {Sealing!Id(c, a) : a \in Plains \ n.missing}
    <3>1. {o.meta.id : o \in Sealing!Made(c)} = {Sealing!Id(c, a) : a \in OfMade(c)}
      BY <2>5 DEF OfMade
    <3> QED
      BY <2>2, <2>4, <3>1
  <2>7. \A x \in notes' : x \in notes \/ x = n
    BY <1>3, <2>1
  <2>8. NotesRight'
    <3> SUFFICES ASSUME NEW x \in notes'
                 PROVE  /\ x.copy \in Copies /\ x.refs = {Sealing!Id(x.copy, a) : a \in Plains \ x.missing}
                        /\ OfMade(x.copy) = Plains \ x.missing
      BY <2>3 DEF NotesRight
    <3>1. CASE x \in notes
      BY <1>0, <3>1 DEF NotesRight
    <3>2. CASE x = n
      BY <2>2, <2>4, <2>6, <3>2
    <3> QED
      BY <2>7, <3>1, <3>2
  <2>9. jobs \in [Copies -> Sealing!Work \cup {None}] /\ \A d \in Copies : jobs'[d] = IF d = c THEN None ELSE jobs[d]
    BY <1>0, <1>3 DEF BooksTyped
  <2>10. BooksTyped'
    BY <1>0, <1>1, <1>3, <2>9 DEF BooksTyped
  <2>11. WorkRight'
    <3> SUFFICES ASSUME NEW d \in Copies, jobs'[d] # None PROVE WorkOf(d, jobs[d])'
      BY DEF WorkRight
    <3>1. d # c /\ jobs'[d] = jobs[d] /\ OfMade(d)' = OfMade(d)
      BY <2>3, <2>9
    <3>2. WorkOf(d, jobs[d])
      BY <1>0, <3>1 DEF WorkRight
    <3>3. \A x \in notes' : x.copy # d
      BY <2>2, <2>7, <3>1, <3>2 DEF WorkOf
    <3> QED
      BY <3>1, <3>2, <3>3 DEF WorkOf
  <2>12. Sealing!NothingLeftOver'
    <3> SUFFICES ASSUME NEW x \in objects PROVE (\E y \in notes' : y.copy = x.owner) \/ jobs'[x.owner] # None
      BY <1>1 DEF Sealing!NothingLeftOver
    <3>1. x.owner \in Copies /\ ((\E y \in notes : y.copy = x.owner) \/ jobs[x.owner] # None)
      BY <1>0 DEF BooksTyped, Sealing!NothingLeftOver
    <3>2. n \in notes' /\ notes \subseteq notes'
      BY <1>3, <2>1
    <3> QED
      BY <2>2, <2>9, <3>1, <3>2
  <2>13. AroundTyped' /\ Sealing!ReadsAreRight'
    BY <1>0, <1>1 DEF AroundTyped, Sealing!ReadsAreRight
  <2>14. ChunksRight'
    BY <1>0, <1>1 DEF ChunksRight, Keeping
  <2> QED
    BY <2>8, <2>10, <2>11, <2>12, <2>13, <2>14 DEF SealingInv
<1> QED
  BY <1>2, <1>3 DEF Sealing!Save

LEMMA UndoKeepsSealing ==
    ASSUME SealingInv, NEW c \in Copies, Sealing!Undo(c) PROVE SealingInv'
<1>0. AroundTyped /\ ChunksRight /\ BooksTyped /\ WorkRight /\ NotesRight
      /\ Sealing!ReadsAreRight /\ Sealing!NothingLeftOver
  BY DEF SealingInv
<1>1. /\ jobs[c] # None /\ UNCHANGED <<known, remote, online, open, notes, answer>>
      /\ rows' = {r \in rows : \A o \in Sealing!Made(c) : r.id # o.meta.id}
      /\ objects' = objects \ Sealing!Made(c) /\ jobs' = [jobs EXCEPT ![c] = None]
  BY DEF Sealing!Undo, Sealing!Job, Sealing!environment
<1>2. ChunksRight'
  <2>1. Keeping(rows) /\ rows' \subseteq rows
    BY <1>0, <1>1 DEF ChunksRight
  <2>2. Keeping(rows')
    BY <2>1, KeepingLess
  <2> QED
    BY <1>0, <1>1, <2>2 DEF ChunksRight, Keeping
<1>3. jobs \in [Copies -> Sealing!Work \cup {None}] /\ \A d \in Copies : jobs'[d] = IF d = c THEN None ELSE jobs[d]
  BY <1>0, <1>1 DEF BooksTyped
<1>4. BooksTyped'
  BY <1>0, <1>1, <1>3 DEF BooksTyped
<1>5. \A d : d # c => OfMade(d)' = OfMade(d)
  <2> SUFFICES ASSUME NEW d, d # c PROVE OfMade(d)' = OfMade(d)
    OBVIOUS
  <2>1. Sealing!Made(d)' = Sealing!Made(d)
    BY <1>1 DEF Sealing!Made
  <2> QED
    BY <2>1 DEF OfMade
<1>6. \A n \in notes : n.copy # c
  BY <1>0, <1>1 DEF WorkRight, WorkOf
<1>7. NotesRight'
  BY <1>0, <1>1, <1>5, <1>6 DEF NotesRight
<1>8. WorkRight'
  <2> SUFFICES ASSUME NEW d \in Copies, jobs'[d] # None PROVE WorkOf(d, jobs[d])'
    BY DEF WorkRight
  <2>1. d # c /\ jobs'[d] = jobs[d] /\ OfMade(d)' = OfMade(d)
    BY <1>3, <1>5
  <2>2. WorkOf(d, jobs[d])
    BY <1>0, <2>1 DEF WorkRight
  <2> QED
    BY <1>1, <2>1, <2>2 DEF WorkOf
<1>9. Sealing!NothingLeftOver'
  <2> SUFFICES ASSUME NEW x \in objects' PROVE (\E y \in notes : y.copy = x.owner) \/ jobs'[x.owner] # None
    BY <1>1 DEF Sealing!NothingLeftOver
  <2>1. x \in objects /\ x.owner # c
    BY <1>1 DEF Sealing!Made
  <2>2. x.owner \in Copies /\ ((\E y \in notes : y.copy = x.owner) \/ jobs[x.owner] # None)
    BY <1>0, <2>1 DEF BooksTyped, Sealing!NothingLeftOver
  <2> QED
    BY <1>3, <2>1, <2>2
<1>10. AroundTyped' /\ Sealing!ReadsAreRight'
  BY <1>0, <1>1 DEF AroundTyped, Sealing!ReadsAreRight
<1> QED
  BY <1>2, <1>4, <1>7, <1>8, <1>9, <1>10 DEF SealingInv

-----------------------------------------------------------------------------
LEMMA SealingRests ==
    ASSUME SealingInv, UNCHANGED sealingVars PROVE SealingInv'
<1> USE DEF sealingVars
<1>1. AroundTyped' /\ ChunksRight' /\ Sealing!ReadsAreRight'
  BY DEF SealingInv, AroundTyped, ChunksRight, Keeping, Sealing!ReadsAreRight
<1> QED
  BY <1>1, ChunksChange

LEMMA SealingNext ==
    ASSUME SealingInv, Sealing!Next PROVE SealingInv'
<1>1. CASE Sealing!Happens
  BY <1>1, HappensKeepsSealing
<1>2. CASE \E a \in Plains : Sealing!Read(a)
  BY <1>2, ReadKeepsSealing
<1>3. ASSUME NEW c \in Copies,
             \/ Sealing!Begin(c) \/ Sealing!ReadSource(c) \/ Sealing!AllRead(c)
             \/ Sealing!Make(c) \/ Sealing!Save(c) \/ Sealing!Undo(c)
      PROVE  SealingInv'
  BY <1>3, BeginKeepsSealing, ReadSourceKeepsSealing, AllReadKeepsSealing, MakeKeepsSealing, SaveKeepsSealing,
     UndoKeepsSealing
<1>4. Sealing!Plains = Plains
  BY SealingAssumptions
<1> QED
  BY <1>1, <1>2, <1>3, <1>4 DEF Sealing!Next

LEMMA CopiesAreSafe ==
    ASSUME SealingInv PROVE Sealing!CopiesSafe
<1>0. AroundTyped /\ ChunksRight /\ BooksTyped /\ NotesRight /\ Sealing!ReadsAreRight /\ Sealing!NothingLeftOver
  BY DEF SealingInv
<1>1. Keeping(rows) /\ Keeping(remote) /\ Sealing!Plains = Plains
  BY <1>0, SealingAssumptions DEF ChunksRight
<1>2. Sealing!TypeOK
  <2>1. \A r \in rows \cup remote : r.total \in Nat /\ r.index \in 0 .. r.total - 1
    <3>1. \A r \in rows \cup remote : r.total \in Nat /\ r.index \in Nat /\ r.index < r.total
      BY <1>1 DEF Keeping, ChunkRows
    <3> QED
      BY <3>1
  <2>2. \A r, s \in rows : (r.id = s.id /\ r.index = s.index) => r = s
    BY <1>1 DEF Keeping
  <2> QED
    BY <1>0, <1>1, <2>1, <2>2 DEF Sealing!TypeOK, AroundTyped, BooksTyped
<1>3. Sealing!CopiesComplete
  <2> SUFFICES ASSUME NEW n \in notes
               PROVE  /\ n.refs = {Sealing!Id(n.copy, a) : a \in Plains \ n.missing}
                      /\ \A a \in Plains \ n.missing :
                           \E o \in Sealing!Made(n.copy) :
                             /\ o.meta.id = Sealing!Id(n.copy, a) /\ o.meta.key # Sealing!Source(a).key
                             /\ Sealing!Opened(o.meta, Sealing!SealedChunks(o.meta.id, o.meta.key, Data[a])) = Data[a]
                             /\ \A r \in Sealing!Cached(o.meta.id) :
                                  r \in Sealing!SealedChunks(o.meta.id, o.meta.key, Data[a])
    BY <1>1 DEF Sealing!CopiesComplete
  <2>1. /\ n.copy \in Copies /\ n.refs = {Sealing!Id(n.copy, a) : a \in Plains \ n.missing}
        /\ OfMade(n.copy) = Plains \ n.missing
    BY <1>0 DEF NotesRight
  <2>2. ASSUME NEW a \in Plains \ n.missing
        PROVE  \E o \in Sealing!Made(n.copy) :
                 /\ o.meta.id = Sealing!Id(n.copy, a) /\ o.meta.key # Sealing!Source(a).key
                 /\ Sealing!Opened(o.meta, Sealing!SealedChunks(o.meta.id, o.meta.key, Data[a])) = Data[a]
                 /\ \A r \in Sealing!Cached(o.meta.id) :
                      r \in Sealing!SealedChunks(o.meta.id, o.meta.key, Data[a])
    <3>1. PICK o \in Sealing!Made(n.copy) : o.of = a
      BY <2>1 DEF OfMade
    <3>2. PICK id : id = Sealing!Id(n.copy, a)
      OBVIOUS
    <3>3. id \in Ids /\ id[1] = n.copy /\ id[2] = a /\ n.copy # None /\ id # Sealing!Id(None, a)
      BY <2>1, <3>2, IdIs, SealingAssumptions
    <3>4. o.meta = MadeFor(id)
      <4>1. o \in objects /\ o.owner = n.copy
        BY DEF Sealing!Made
      <4> QED
        BY <1>0, <3>1, <3>2, <4>1 DEF BooksTyped
    <3>5. o.meta.id = id /\ o.meta.key = id
      BY <3>4 DEF MadeFor, Sealing!Metadata
    <3>6. Sealing!SealedChunks(o.meta.id, o.meta.key, Data[a]) = SealedFor(id)
      BY <3>3, <3>5 DEF SealedFor
    <3>7. Sealing!Opened(o.meta, SealedFor(id)) = Data[a]
      BY <3>3, <3>4, SealedOpens
    <3>8. \A r \in Sealing!Cached(id) : r \in SealedFor(id)
      BY <1>1, <3>3 DEF Keeping, Sealing!Cached
    <3>9. id # Sealing!Source(a).key
      BY <3>3, SourceIs
    <3> QED
      BY <3>2, <3>5, <3>6, <3>7, <3>8, <3>9
  <2> QED
    BY <2>1, <2>2
<1> QED
  BY <1>0, <1>2, <1>3 DEF Sealing!CopiesSafe

(* Only Save makes notes. *)
LEMMA NoneMissingIsKept ==
    ASSUME SealingInv, Sealing!Next \/ UNCHANGED sealingVars, NEW c \in Copies,
           jobs[c] # None, ~jobs[c].allow, NEW n \in notes' \ notes, n.copy = c
    PROVE  n.missing = {}
<1>1. PICK d \in Copies : Sealing!Save(d)
  BY DEF sealingVars, Sealing!Next, Sealing!Happens, Sealing!Read, Sealing!Begin, Sealing!ReadSource,
         Sealing!AllRead, Sealing!Make, Sealing!Undo
<1>2. n = [copy |-> d, refs |-> {o.meta.id : o \in Sealing!Made(d)}, missing |-> jobs[d].missing]
  BY <1>1 DEF Sealing!Save
<1>3. n.copy = d /\ n.missing = jobs[d].missing
  BY <1>2
<1>4. WorkOf(c, jobs[c])
  BY DEF SealingInv, WorkRight
<1> QED
  BY <1>3, <1>4 DEF WorkOf

-----------------------------------------------------------------------------
(***************************************************************************)
(* The parts together: a step moves one of them at most, and with          *)
(* part = "prompt" the clock leaves no upload half-way.                    *)
(***************************************************************************)
KeptInv == /\ IInv /\ (part = "prompt" => BytesInv)
           /\ ReclaimInv /\ UrlsInv /\ SealingInv

LEMMA StepsOfParts ==
    ASSUME [RootNext]_everything
    PROVE  /\ part' = part /\ [Next]_vars
           /\ part = "prompt" => [Tick => ~Halfway]_vars
           /\ Collector!Next \/ UNCHANGED reclaimVars
           /\ Editor!Next \/ UNCHANGED urlsVars
           /\ Sealing!Next \/ UNCHANGED sealingVars
<1>1. CASE UploadsStep
  BY <1>1 DEF UploadsStep, Only
<1>2. CASE PromptStep
  BY <1>2 DEF PromptStep, Only
<1>3. CASE ReclaimStep
  BY <1>3 DEF ReclaimStep, Only
<1>4. CASE UrlsStep
  BY <1>4 DEF UrlsStep, Only
<1>5. CASE SealingStep
  BY <1>5 DEF SealingStep, Only
<1>6. CASE UNCHANGED everything
  BY <1>6 DEF everything
<1> QED
  BY <1>1, <1>2, <1>3, <1>4, <1>5, <1>6 DEF RootNext

LEMMA KeptAtFirst == RootInit => KeptInv
  BY InitHolds, BytesAtFirst, ReclaimInitHolds, EditorInitHolds, SealingInitHolds
     DEF RootInit, KeptInv

LEMMA KeptStays == KeptInv /\ [RootNext]_everything => KeptInv'
<1> SUFFICES ASSUME KeptInv, [RootNext]_everything PROVE KeptInv'
  OBVIOUS
<1>1. IInv'
  BY StepsOfParts, StaysInductive DEF KeptInv
<1>2. part' = "prompt" => BytesInv'
  BY StepsOfParts, BytesStay DEF KeptInv
<1>3. ReclaimInv'
  BY StepsOfParts, ReclaimNext, ReclaimRests DEF KeptInv
<1>4. UrlsInv'
  <2>1. CASE Editor!Next
    BY <2>1, EditorNext DEF KeptInv
  <2>2. CASE UNCHANGED urlsVars
    BY <2>2, EditorRests DEF KeptInv, urlsVars, UrlsInv, UrlsTyped
  <2> QED
    BY <2>1, <2>2, StepsOfParts
<1>5. SealingInv'
  BY StepsOfParts, SealingNext, SealingRests DEF KeptInv
<1> QED
  BY <1>1, <1>2, <1>3, <1>4, <1>5 DEF KeptInv

(* What the note or its history refers to is there, however devices upload, *)
(* evict, collect, show and copy attachments: every chunk the note needs is *)
(* on the server or on a device while no upload is held up for a week       *)
(* (cache.ts); what is referred to is never collected (server/attachments); *)
(* what is on screen is alive and current (useAttachmentUrls.ts); and a     *)
(* copy is whole or leaves nothing (attachmentClone.ts).                    *)
THEOREM AttachmentsAreKept == RootSpec => []AttachmentsKept
<1>1. KeptInv => AttachmentsKept
  BY BytesInvKeeps, ReclaimInvResolves, EditorIsSafe, CopiesAreSafe DEF KeptInv, AttachmentsKept
<1> QED
  BY <1>1, KeptAtFirst, KeptStays, PTL DEF RootSpec

(* An attachment goes only after the days of grace in which nothing         *)
(* referred to it (server/attachments), what is on screen stays in the      *)
(* cache (cache.ts), and a copy that lacks an attachment is saved only if   *)
(* that was allowed (attachmentClone.ts).                                   *)
THEOREM NothingGoesTooEarly == RootSpec => NothingGoesEarly
<1>1. KeptInv /\ [RootNext]_everything
        => [\A a \in held \ held' : since[a] + Grace <= day]_(Collector!vars)
  BY StepsOfParts, GraceIsKept DEF KeptInv
<1>2. KeptInv /\ [RootNext]_everything
        => [(mounted /\ mounted') => (Editor!RenderedIds \cap readable) \subseteq readable']_(Editor!vars)
  BY StepsOfParts, ShownIsKept DEF KeptInv
<1>3. KeptInv /\ [RootNext]_everything
        => [\A c \in Copies : (jobs[c] # None /\ ~jobs[c].allow /\ notes' # notes /\ jobs'[c] = None)
              => \A n \in notes' \ notes : n.copy = c => n.missing = {}]_(Sealing!vars)
  BY StepsOfParts, NoneMissingIsKept DEF KeptInv
<1> QED
  BY <1>1, <1>2, <1>3, KeptAtFirst, KeptStays, PTL
     DEF RootSpec, NothingGoesEarly, Collector!GraceKept, Editor!ShownStays, Sealing!NoneMissingUnasked
===============================================================================
