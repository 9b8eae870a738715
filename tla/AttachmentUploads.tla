--------------------------- MODULE AttachmentUploads ---------------------------
(* The attachments of one note: stored locally (attachments.ts), uploaded      *)
(* chunk by chunk, then manifest, then the note that refers to them            *)
(* (pushController.ts), received by the server (attachments/routes.ts), which  *)
(* clears abandoned chunks (attachments/cleanup.ts), and evicted from the      *)
(* cache of a device (storage/cache.ts). A push may stop anywhere and answers  *)
(* may be lost. A tick of the clock is the seven days abandoned chunks are     *)
(* kept; all stays within the 90 days an operation may be retried.             *)
EXTENDS Naturals, FiniteSets

CONSTANTS Devices, Attachments, Chunks, MaxClock,
          MaxEdits,  \* changes of the note
          MaxStops   \* pushes that stop half-way and answers that are lost

ASSUME UploadConstants == {MaxClock, MaxEdits, MaxStops} \subseteq Nat

VARIABLES clock,
          note,      \* on the server: its state, revision and the attachments it refers to
          stored,    \* per attachment: the chunks on the server and when they came
          manifest,  \* per attachment: on the server, never there, or purged
          owners,    \* attachment_owners
          local,     \* per device: the note and the attachments
          push,      \* per device: the snapshot being pushed
          edits, stops

vars == <<clock, note, stored, manifest, owners, local, push, edits, stops>>

NoPush == [on |-> FALSE, chunks |-> {}, manifests |-> {}, note |-> FALSE, refs |-> {}, base |-> 0]
NoLocal == [refs |-> {}, base |-> 0, dirty |-> FALSE,
            cached |-> [a \in Attachments |-> {}], out |-> [a \in Attachments |-> {}],
            object |-> [a \in Attachments |-> "none"]]

Init == /\ clock = 0 /\ note = [state |-> "live", rev |-> 0, refs |-> {}]
        /\ stored = [a \in Attachments |-> [i \in {} |-> 0]] /\ manifest = [a \in Attachments |-> "none"]
        /\ owners = {} /\ local = [d \in Devices |-> NoLocal] /\ push = [d \in Devices |-> NoPush]
        /\ edits = 0 /\ stops = 0

-----------------------------------------------------------------------------
(* createLocalAttachment: one transaction for chunks, object and outboxes. The *)
(* reference enters the note with a later save.                                *)
Create(d, a) ==
  /\ note.state = "live" /\ edits < MaxEdits /\ edits' = edits + 1
  /\ manifest[a] = "none" /\ \A e \in Devices : local[e].object[a] = "none"
  /\ local' = [local EXCEPT ![d].cached[a] = Chunks, ![d].out[a] = Chunks, ![d].object[a] = "pending"]
  /\ UNCHANGED <<clock, note, stored, manifest, owners, push, stops>>

EditNote(d, refs) ==
  /\ local[d].refs # refs /\ refs \subseteq {a \in Attachments : local[d].object[a] \in {"pending", "synced"}}
  /\ edits < MaxEdits /\ edits' = edits + 1
  /\ local' = [local EXCEPT ![d].refs = refs, ![d].dirty = TRUE]
  /\ UNCHANGED <<clock, note, stored, manifest, owners, push, stops>>

-----------------------------------------------------------------------------
(* pushVaultPending. *)
Snapshot(d) ==
  /\ ~push[d].on
  /\ push' = [push EXCEPT ![d] =
       [on |-> TRUE, chunks |-> {c \in Attachments \X Chunks : c[2] \in local[d].out[c[1]]},
        manifests |-> {a \in Attachments : local[d].object[a] = "pending"},
        note |-> local[d].dirty, refs |-> local[d].refs, base |-> local[d].base]]
  /\ push'[d] # [NoPush EXCEPT !.on = TRUE, !.refs = local[d].refs, !.base = local[d].base]
  /\ UNCHANGED <<clock, note, stored, manifest, owners, local, edits, stops>>

Abort(d) == push' = [push EXCEPT ![d] = NoPush]
Lose(d) == stops < MaxStops /\ stops' = stops + 1 /\ Abort(d)

Answered(d, a, i) == /\ local' = [local EXCEPT ![d].out[a] = @ \ {i}]
                     /\ push' = [push EXCEPT ![d].chunks = @ \ {<<a, i>>}] /\ UNCHANGED stops

(* Fault: a repeated request is not recognized. *)
PutChunkOnce(d, a, i) ==
  /\ push[d].on /\ <<a, i>> \in push[d].chunks
  /\ \/ /\ (note.state = "purged" \/ manifest[a] = "purged" \/ i \in DOMAIN stored[a]) /\ Abort(d)
        /\ UNCHANGED <<stored, owners, local, stops>>
     \/ /\ note.state # "purged" /\ manifest[a] # "purged" /\ i \notin DOMAIN stored[a]
        /\ stored' = [stored EXCEPT ![a] = [j \in DOMAIN @ \cup {i} |-> IF j \in DOMAIN @ THEN @[j] ELSE clock]]
        /\ owners' = owners \cup {a}
        /\ \/ Answered(d, a, i)
           \/ Lose(d) /\ UNCHANGED local
  /\ UNCHANGED <<clock, note, manifest, edits>>

(* PUT .../chunks/:index, the same request again included. *)
PutChunk(d, a, i) ==
  /\ push[d].on /\ <<a, i>> \in push[d].chunks
  /\ \/ /\ (note.state = "purged" \/ manifest[a] = "purged") /\ Abort(d)
        /\ UNCHANGED <<stored, owners, local, stops>>
     \/ /\ note.state # "purged" /\ manifest[a] # "purged"
        /\ stored' = [stored EXCEPT ![a] = [j \in DOMAIN @ \cup {i} |-> IF j \in DOMAIN @ THEN @[j] ELSE clock]]
        /\ owners' = owners \cup {a}
        /\ \/ Answered(d, a, i)
           \/ Lose(d) /\ UNCHANGED local
  /\ UNCHANGED <<clock, note, manifest, edits>>

(* Manifests go out when every chunk of the snapshot has been answered. A      *)
(* manifest that was taken before is answered from its receipt; one of a       *)
(* purged note is a conflict, and no note follows.                             *)
PutManifest(d, a) ==
  /\ push[d].on /\ push[d].chunks = {} /\ a \in push[d].manifests
  /\ \/ /\ (note.state = "purged" \/ manifest[a] = "purged") /\ Abort(d)
        /\ UNCHANGED <<manifest, owners, local, stops>>
     \/ /\ note.state # "purged" /\ manifest[a] # "purged"
        /\ manifest' = [manifest EXCEPT ![a] = "live"] /\ owners' = owners \cup {a}
        /\ \/ /\ local' = [local EXCEPT ![d].object[a] = "synced"]
              /\ push' = [push EXCEPT ![d].manifests = @ \ {a}] /\ UNCHANGED stops
           \/ Lose(d) /\ UNCHANGED local
  /\ UNCHANGED <<clock, note, stored, edits>>

(* Fault: notes go out with the manifests. *)
PutNoteFault(d) ==
  /\ push[d].on /\ push[d].chunks = {} /\ push[d].note
  /\ note.rev = push[d].base /\ note' = [note EXCEPT !.rev = @ + 1, !.refs = push[d].refs]
  /\ local' = [local EXCEPT ![d].base = note.rev + 1, ![d].dirty = local[d].refs # push[d].refs]
  /\ push' = [push EXCEPT ![d].note = FALSE]
  /\ UNCHANGED <<clock, stored, manifest, owners, edits, stops>>

(* The note goes out after the manifests. After a conflict the proposal lives  *)
(* on in a copy, with attachments of its own, and the device takes the         *)
(* server's note.                                                              *)
PutNote(d) ==
  /\ push[d].on /\ push[d].chunks = {} /\ push[d].manifests = {} /\ push[d].note
  /\ \/ /\ note.state = "live" /\ note.rev = push[d].base
        /\ note' = [note EXCEPT !.rev = @ + 1, !.refs = push[d].refs]
        /\ local' = [local EXCEPT ![d].base = note.rev + 1, ![d].dirty = local[d].refs # push[d].refs]
     \/ /\ note.state = "live" /\ note.rev # push[d].base
        /\ local' = [local EXCEPT ![d].base = note.rev, ![d].refs = note.refs, ![d].dirty = FALSE]
        /\ UNCHANGED note
     \/ note.state = "purged" /\ UNCHANGED <<note, local>>
  /\ Abort(d) /\ UNCHANGED <<clock, stored, manifest, owners, edits, stops>>

(* The last chunk or manifest was all there was to push. *)
EndPush(d) ==
  /\ push[d].on /\ push[d].chunks = {} /\ push[d].manifests = {} /\ ~push[d].note /\ Abort(d)
  /\ UNCHANGED <<clock, note, stored, manifest, owners, local, edits, stops>>

(* Locking, a lost connection, or the page is closed. *)
Stop(d) ==
  /\ push[d].on /\ Lose(d)
  /\ UNCHANGED <<clock, note, stored, manifest, owners, local, edits>>

-----------------------------------------------------------------------------
(* A pull brings the note, once there is nothing of it to push, and its        *)
(* manifests; after a purge everything of the note goes, pending uploads       *)
(* having been recovered as a copy.                                            *)
Pull(d) ==
  /\ ~push[d].on
  /\ IF note.state = "purged" THEN local' = [local EXCEPT ![d] = [NoLocal EXCEPT !.base = note.rev]]
     ELSE local' = [local EXCEPT ![d].object = [a \in Attachments |-> IF manifest[a] = "live" /\ @[a] = "none" THEN "synced" ELSE @[a]],
                                 ![d].refs = IF local[d].dirty THEN @ ELSE note.refs,
                                 ![d].base = IF local[d].dirty THEN @ ELSE note.rev]
  /\ local' # local
  /\ UNCHANGED <<clock, note, stored, manifest, owners, push, edits, stops>>

(* ensureAttachmentChunks: what is not cached comes from the server, or the    *)
(* attachment cannot be shown.                                                 *)
Download(d, a) ==
  /\ local[d].object[a] = "synced" /\ local[d].cached[a] # Chunks
  /\ Chunks \subseteq local[d].cached[a] \cup DOMAIN stored[a]
  /\ local' = [local EXCEPT ![d].cached[a] = Chunks]
  /\ UNCHANGED <<clock, note, stored, manifest, owners, push, edits, stops>>

(* evictDownloadableCaches: nothing pending, neither attachment nor note. *)
Evict(d, a) ==
  /\ local[d].cached[a] # {} /\ local[d].object[a] = "synced" /\ local[d].out[a] = {} /\ ~local[d].dirty
  /\ local' = [local EXCEPT ![d].cached[a] = {}]
  /\ UNCHANGED <<clock, note, stored, manifest, owners, push, edits, stops>>

-----------------------------------------------------------------------------
(* The hourly jobs: chunks without a manifest go after seven days, owners      *)
(* without object and chunks at once.                                          *)
CleanupChunks ==
  /\ stored' = [a \in Attachments |-> IF manifest[a] = "live" THEN stored[a]
       ELSE [i \in {j \in DOMAIN stored[a] : stored[a][j] >= clock} |-> stored[a][i]]]
  /\ stored' # stored
  /\ UNCHANGED <<clock, note, manifest, owners, local, push, edits, stops>>

CleanupOwners ==
  /\ owners' = {a \in owners : manifest[a] = "live" \/ DOMAIN stored[a] # {}} /\ owners' # owners
  /\ UNCHANGED <<clock, note, stored, manifest, local, push, edits, stops>>

(* purgeTargets: with the note go its manifests, and the chunks of every       *)
(* attachment it owns, whether there is a manifest yet or not.                 *)
Purge ==
  /\ note.state = "live" /\ note.rev > 0
  /\ note' = [note EXCEPT !.state = "purged", !.refs = {}]
  /\ manifest' = [a \in Attachments |-> IF manifest[a] = "live" THEN "purged" ELSE manifest[a]]
  /\ stored' = [a \in Attachments |-> IF a \in owners THEN [i \in {} |-> 0] ELSE stored[a]] /\ owners' = {}
  /\ UNCHANGED <<clock, local, push, edits, stops>>

Tick == /\ clock < MaxClock /\ clock' = clock + 1
        /\ UNCHANGED <<note, stored, manifest, owners, local, push, edits, stops>>

DeviceStep(d) ==
  \/ \E a \in Attachments : Create(d, a) \/ PutManifest(d, a) \/ Download(d, a) \/ Evict(d, a)
  \/ \E a \in Attachments, i \in Chunks : PutChunk(d, a, i)
  \/ \E refs \in SUBSET Attachments : EditNote(d, refs)
  \/ Snapshot(d) \/ PutNote(d) \/ EndPush(d) \/ Stop(d) \/ Pull(d)

Next == (\E d \in Devices : DeviceStep(d)) \/ CleanupChunks \/ CleanupOwners \/ Purge \/ Tick

Spec == Init /\ [][Next]_vars

(* The synchronization coordinator pushes as long as something is pending, and *)
(* a push that is not stopped goes on.                                         *)
FairSpec == Spec /\ \A d \in Devices :
  /\ WF_vars(Snapshot(d)) /\ WF_vars(EndPush(d)) /\ WF_vars(PutNote(d)) /\ SF_vars(Pull(d))
  /\ WF_vars(\E a \in Attachments, i \in Chunks : PutChunk(d, a, i))
  /\ WF_vars(\E a \in Attachments : PutManifest(d, a))

-----------------------------------------------------------------------------
(* Types; a device's uploads and references are of attachments it has. *)
UploadTypeOK ==
  /\ note.state \in {"live", "purged"} /\ note.refs \subseteq Attachments /\ owners \subseteq Attachments
  /\ \A a \in Attachments : DOMAIN stored[a] \subseteq Chunks /\ manifest[a] \in {"none", "live", "purged"}
  /\ \A d \in Devices : \A a \in Attachments :
       local[d].object[a] \in {"none", "pending", "synced"} /\ local[d].out[a] \subseteq local[d].cached[a]

(* "A note is eligible only after this snapshot's attachment manifests are     *)
(* accepted" (pushController.ts): a note the server holds refers to no         *)
(* attachment whose manifest it does not hold.                                 *)
NoteAfterManifests == \A a \in note.refs : manifest[a] = "live"

(* Once a note is purged, uploads that were under way leave nothing behind.    *)
PurgedStaysEmpty ==
  note.state = "purged" => owners = {} /\ \A a \in Attachments : DOMAIN stored[a] = {} /\ manifest[a] # "live"

(* evictDownloadableCaches: "unique local data and every pending graph are     *)
(* excluded". Every chunk of an attachment the note refers to is on the server *)
(* or on some device.                                                          *)
BytesKept ==
  \A a \in note.refs, i \in Chunks : i \in DOMAIN stored[a] \/ \E d \in Devices : i \in local[d].cached[a]

(* No upload is held up for a week: the clock moves only when what has chunks  *)
(* on the server has its manifest there too.                                   *)
Halfway == \E a \in Attachments : DOMAIN stored[a] # {} /\ manifest[a] # "live"
NothingHeldUp == [][Tick => ~Halfway]_vars

(* What a device has to upload arrives whole, whatever was lost on the way,    *)
(* unless the note is purged.                                                  *)
UploadsArrive ==
  \A d \in Devices, a \in Attachments :
    local[d].object[a] = "pending" ~> (manifest[a] = "live" /\ DOMAIN stored[a] = Chunks) \/ note.state = "purged"

(* A note only ever refers to what was uploaded for it, and nothing of it is   *)
(* left once it is purged, however the uploads of its devices interleave.      *)
UploadsSafe == UploadTypeOK /\ NoteAfterManifests /\ PurgedStaysEmpty
===============================================================================
