--------------------------- MODULE AttachmentSealing ---------------------------
(* Attachments as sealed chunks, and copies of them. crypto.ts cuts the bytes  *)
(* of an attachment into chunks and seals each for its place; the application  *)
(* client (client.ts, attachmentBytes) and the browser (attachments.ts) read   *)
(* them from a cache that may have lost or damaged some, or from the server.   *)
(* A note is copied with its whole graph of attachments (attachmentClone.ts,   *)
(* persistDocumentCopy), each under a key of its own.                          *)
EXTENDS Integers, FiniteSets, FiniteSetsExt, SequencesExt

CONSTANTS Data,       \* the bytes of the attachments of a note, by attachment
          ChunkSize, Copies,
          Browser,    \* copies are made in the browser; else, an application reads
          MaxFaults,  \* changes and losses
          None

Plains == DOMAIN Data

(* What persistDocumentCopy keeps of a copy it is at work on.                  *)
Work == [step : {"read", "make", "undo"}, todo : SUBSET Plains, allow : BOOLEAN,
         plain : {[a \in read |-> Data[a]] : read \in SUBSET Plains}, missing : SUBSET Plains]

SealingConstants ==
  /\ ChunkSize \in Nat \ {0} /\ MaxFaults \in Nat /\ Plains \subseteq Nat
  /\ \A a \in Plains : Data[a] \in Seq(Nat)
  /\ None \notin Copies \cup Work

VARIABLES known,    \* attachmentIndexRef, for the attachments of the note
          rows,     \* attachmentChunks, the cache
          remote,   \* the chunks on the server
          online,
          open,     \* the workspace is not being left
          objects,  \* attachments that were made here: [meta, of]
          notes,    \* copies that were saved: [copy, refs, missing]
          jobs,     \* per copy: persistDocumentCopy
          answer,   \* what a tool of the application client last read
          faults    \* history: number of changes and losses

vars == <<known, rows, remote, online, open, objects, notes, jobs, answer, faults>>
environment == <<known, remote, online, open, faults>>

-----------------------------------------------------------------------------
(* Sealing *)

Count(bytes) == Max({1, (Len(bytes) + ChunkSize - 1) \div ChunkSize})

Piece(bytes, i) == SubSeq(bytes, i * ChunkSize + 1, Min({Len(bytes), (i + 1) * ChunkSize}))

(* Those of the note, and those of a copy of it. *)
Id(copy, a) == <<copy, a>>

(* attachmentChunkAad. *)
Place(id, i, n) == <<id, i, n>>

(* encryptAttachmentBytes: the digest stands for the bytes.                    *)
Metadata(id, key, bytes) ==
  [id |-> id, key |-> key, count |-> Count(bytes), size |-> Len(bytes), digest |-> bytes]
SealedChunks(id, key, bytes) ==
  { [id |-> id, index |-> i, total |-> Count(bytes),
     sealed |-> [key |-> key, place |-> Place(id, i, Count(bytes)), bytes |-> Piece(bytes, i)]] :
      i \in 0 .. Count(bytes) - 1 }

Sealed(a) == SealedChunks(Id(None, a), Id(None, a), Data[a])
Source(a) == Metadata(Id(None, a), Id(None, a), Data[a])

(* openBinary gives the bytes if the key and the place are those they were     *)
(* sealed with, and if nothing was damaged.                                    *)
Opens(chunk, key) == chunk.sealed.key = key /\ chunk.sealed.place = Place(chunk.id, chunk.index, chunk.total)

(* decryptAttachmentBytes, of one chunk per index. *)
Opened(meta, chunks) ==
  IF /\ {c.index : c \in chunks} = 0 .. meta.count - 1
     /\ \A c \in chunks : c.id = meta.id /\ c.total = meta.count /\ Opens(c, meta.key)
    THEN LET bytes == FlattenSeq([i \in 1 .. meta.count |-> (CHOOSE c \in chunks : c.index = i - 1).sealed.bytes])
         IN IF bytes = meta.digest THEN bytes ELSE None
    ELSE None

Cached(id) == {c \in rows : c.id = id}
Missing(meta) == (0 .. meta.count - 1) \ {c.index : c \in Cached(meta.id)}
Served(meta) == {c \in remote : c.id = meta.id /\ c.index \in Missing(meta)}
(* What is put together of the cache and, for the rest, the server.            *)
Gathered(meta) == Cached(meta.id) \cup IF online THEN Served(meta) ELSE {}

-----------------------------------------------------------------------------
Init ==
  /\ known = [a \in Plains |-> "live"]
  /\ remote = UNION {Sealed(a) : a \in Plains} /\ rows = remote
  /\ online \in BOOLEAN /\ open = TRUE
  /\ objects = {} /\ notes = {} /\ answer = None
  /\ jobs = [c \in Copies |-> None] /\ faults = 0

(* The vault, its cache and the connection change.                             *)
Damaged(chunk) == [chunk EXCEPT !.sealed.key = None]
Happens ==
  /\ faults < MaxFaults /\ faults' = faults + 1
  /\ \/ /\ \E a \in Plains, k \in {"live", "deleted", "unknown"} :
             known[a] # k /\ known' = [known EXCEPT ![a] = k]
        /\ UNCHANGED <<rows, remote, online, open>>
     \/ /\ \E a \in Plains : rows' = rows \ Cached(Id(None, a))   \* evicted
        /\ UNCHANGED <<known, remote, online, open>>
     \/ /\ \E c \in rows : c.id[1] = None /\ rows' = (rows \ {c}) \cup {Damaged(c)}
        /\ UNCHANGED <<known, remote, online, open>>
     \/ /\ \E c \in remote : \E d \in (remote \ {c}) \cup {Damaged(c)} :  \* served in its place
              remote' = (remote \ {c}) \cup {[c EXCEPT !.sealed = d.sealed]}
        /\ UNCHANGED <<known, rows, online, open>>
     \/ /\ online' = ~online
        /\ UNCHANGED <<known, rows, remote, open>>
     \/ /\ open /\ open' = FALSE    \* useWorkspaceClose
        /\ UNCHANGED <<known, rows, remote, online>>
  /\ UNCHANGED <<objects, notes, jobs, answer>>

-----------------------------------------------------------------------------
(* attachmentBytes of the application client *)

(* What does not open is thrown away and fetched once again.                   *)
Read(a) ==
  /\ ~Browser /\ known[a] = "live"
  /\ LET meta == Source(a)
         first == Gathered(meta)
         again == {c \in remote : c.id = meta.id}
         retry == online /\ Opened(meta, first) = None /\ {c.index : c \in first} = 0 .. meta.count - 1
     IN /\ rows' = IF retry THEN (rows \ Cached(meta.id)) \cup again ELSE rows \cup first
        /\ answer' = [of |-> a, bytes |-> IF retry THEN Opened(meta, again) ELSE Opened(meta, first)]
  /\ UNCHANGED <<environment, objects, notes, jobs>>

-----------------------------------------------------------------------------
(* Copying a note *)

Made(c) == {o \in objects : o.owner = c}

Begin(c) ==
  /\ Browser /\ open /\ jobs[c] = None /\ ~\E n \in notes : n.copy = c
  /\ \E allow \in BOOLEAN :
       jobs' = [jobs EXCEPT ![c] = [step |-> "read", todo |-> Plains, allow |-> allow,
                                     plain |-> [a \in {} |-> <<>>], missing |-> {}]]
  /\ UNCHANGED <<environment, rows, objects, notes, answer>>

Job(c, step) == jobs[c] # None /\ jobs[c].step = step
NextOf(c) == Min(jobs[c].todo)

(* The copy fails for want of an attachment; one that can be recovered without *)
(* it goes on.                                                                 *)
Unavailable(c) ==
  {a \in {NextOf(c)} : ~jobs[c].allow /\ known[a] \in {"deleted", "unknown"}}

(* clone: all sources are read before anything is made.                        *)
ReadSource(c) ==
  /\ Job(c, "read") /\ jobs[c].todo # {}
  /\ LET a == NextOf(c)
         meta == Source(a)
         bytes == Opened(meta, Gathered(meta))
         gone == known[a] = "unknown" \/ (known[a] = "deleted" /\ ~jobs[c].allow)
     IN IF Unavailable(c) # {}
          THEN /\ jobs' = [jobs EXCEPT ![c] = None] /\ UNCHANGED rows
        ELSE IF gone
          THEN /\ jobs' = [jobs EXCEPT ![c].todo = @ \ {a}, ![c].missing = @ \cup {a}] /\ UNCHANGED rows
        ELSE /\ rows' = rows \cup Gathered(meta)
             /\ jobs' = IF bytes = None \/ ~open THEN [jobs EXCEPT ![c] = None]
                        ELSE [jobs EXCEPT ![c].todo = @ \ {a},
                               ![c].plain = [x \in DOMAIN @ \cup {a} |-> IF x = a THEN bytes ELSE @[x]]]
  /\ UNCHANGED <<environment, objects, notes, answer>>

AllRead(c) ==
  /\ Job(c, "read") /\ jobs[c].todo = {}
  /\ jobs' = [jobs EXCEPT ![c].step = "make", ![c].todo = DOMAIN jobs[c].plain]
  /\ UNCHANGED <<environment, rows, objects, notes, answer>>

(* createLocalAttachment: chunks, object and outbox in one transaction.        *)
Make(c) ==
  /\ Job(c, "make") /\ jobs[c].todo # {}
  /\ LET a == NextOf(c)
         id == Id(c, a)
         bytes == jobs[c].plain[a]
     IN \/ /\ open
           /\ rows' = rows \cup SealedChunks(id, id, bytes)
           /\ objects' = objects \cup {[owner |-> c, of |-> a, meta |-> Metadata(id, id, bytes)]}
           /\ jobs' = [jobs EXCEPT ![c].todo = @ \ {a}]
        \/ /\ jobs' = [jobs EXCEPT ![c].step = "undo", ![c].todo = {}]   \* left, or no room
           /\ UNCHANGED <<rows, objects>>
  /\ UNCHANGED <<environment, notes, answer>>

(* persistDocumentCopy: then the note itself. *)
Save(c) ==
  /\ Job(c, "make") /\ jobs[c].todo = {}
  /\ \/ /\ open
        /\ notes' = notes \cup {[copy |-> c, refs |-> {o.meta.id : o \in Made(c)}, missing |-> jobs[c].missing]}
        /\ jobs' = [jobs EXCEPT ![c] = None]
     \/ /\ jobs' = [jobs EXCEPT ![c].step = "undo"]
        /\ UNCHANGED notes
  /\ UNCHANGED <<environment, rows, objects, answer>>

(* removePurgedLocal of everything that was made, also when it is left.        *)
Undo(c) ==
  /\ Job(c, "undo")
  /\ rows' = {r \in rows : \A o \in Made(c) : r.id # o.meta.id}
  /\ objects' = objects \ Made(c)
  /\ jobs' = [jobs EXCEPT ![c] = None]
  /\ UNCHANGED <<environment, notes, answer>>

Next == \/ Happens
        \/ \E a \in Plains : Read(a)
        \/ \E c \in Copies : Begin(c) \/ ReadSource(c) \/ AllRead(c) \/ Make(c) \/ Save(c) \/ Undo(c)

Spec == Init /\ [][Next]_vars

-----------------------------------------------------------------------------
TypeOK ==
  /\ known \in [Plains -> {"live", "deleted", "unknown"}] /\ {online, open} \subseteq BOOLEAN
  /\ \A r \in rows \cup remote : r.total \in Nat /\ r.index \in 0 .. r.total - 1
  /\ \A r, s \in rows : (r.id = s.id /\ r.index = s.index) => r = s
  /\ \A o \in objects : o.owner \in Copies /\ o.of \in Plains

(* Whatever the cache and the server hand out: what is read is the attachment, *)
(* or nothing (crypto.ts:276, "Attachment integrity check failed").            *)
ReadsAreRight == answer # None => answer.bytes \in {Data[answer.of], None}

(* A damaged cache heals: a read that reaches a server that has the chunks     *)
(* succeeds (client.ts:592).                                                   *)
ReadsHeal ==
  [][ (answer' # answer /\ online /\ Sealed(answer'.of) \subseteq remote)
        => answer'.bytes # None ]_vars

(* A saved copy has an attachment of its own for each it was not said to miss: *)
(* the same bytes, under another identity and key (docs/system-design.md:180). *)
CopiesComplete ==
  \A n \in notes :
    /\ n.refs = {Id(n.copy, a) : a \in Plains \ n.missing}
    /\ \A a \in Plains \ n.missing :
         \E o \in Made(n.copy) :
           /\ o.meta.id = Id(n.copy, a) /\ o.meta.key # Source(a).key
           /\ Opened(o.meta, SealedChunks(o.meta.id, o.meta.key, Data[a])) = Data[a]
           /\ \A r \in Cached(o.meta.id) : r \in SealedChunks(o.meta.id, o.meta.key, Data[a])

(* Nothing is left of a copy that failed (attachmentClone.ts:79).              *)
NothingLeftOver ==
  \A o \in objects : (\E n \in notes : n.copy = o.owner) \/ jobs[o.owner] # None

(* A copy that is short of an attachment is only made on purpose               *)
(* (attachmentClone.ts:32).                                                    *)
NoneMissingUnasked ==
  [][ \A c \in Copies : (jobs[c] # None /\ ~jobs[c].allow /\ notes' # notes /\ jobs'[c] = None)
        => \A n \in notes' \ notes : n.copy = c => n.missing = {} ]_vars

(* A copy is whole or leaves nothing, and what is read is the attachment or    *)
(* nothing (attachmentClone.ts, client.ts).                                    *)
CopiesSafe == TypeOK /\ ReadsAreRight /\ CopiesComplete /\ NothingLeftOver
=============================================================================
