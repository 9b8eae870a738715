---------------------------- MODULE AttachmentUrls ----------------------------
(***************************************************************************)
(* The images of the note on screen: useAttachmentUrls.ts makes an object  *)
(* URL of every attachment the note refers to and takes it back when it is *)
(* no longer shown; decryptAttachmentBlob and ensureAttachmentChunks       *)
(* (attachments.ts) read, download and keep the sealed chunks, which       *)
(* storage/cache.ts drops unless they are pinned. A run of the effect goes *)
(* on after the next one has begun.                                        *)
(***************************************************************************)
EXTENDS FiniteSets, Naturals, FiniteSetsExt

CONSTANTS Attachments,  \* numbers: the order in a note
          Refs,         \* the attachments each note refers to
          MaxChanges,   \* changes of attachments, of the view and of the connection
          None

Url == [of : Attachments, version : Nat, by : Nat]
States == [version : Nat, is : {"live", "deleted"}]
Downloads == [of : Attachments, version : Nat, step : {"read", "room", "open"}]

UrlConstants ==
  /\ Attachments \subseteq Nat /\ MaxChanges \in Nat
  /\ \A note \in DOMAIN Refs : Refs[note] \subseteq Attachments
  /\ None \notin Url \cup Downloads
  /\ \A shown \in SUBSET Attachments :
       None \notin [view : DOMAIN Refs, network : BOOLEAN, signature : [shown -> States]]

VARIABLES state,     \* attachmentsRef: [version, is] per attachment
          view,      \* the note that is shown
          network,   \* serverSessionVerified
          mounted,   \* the workspace is open
          rendered,  \* the key and attachments of the last render
          runs,      \* the runs of the effect that are not over, newest last
          cache,     \* cache.current: [Attachments -> a URL or None]
          urls,      \* what the editor shows
          resolved,  \* resolvedKey
          alive,     \* object URLs that are not revoked
          stored,    \* attachments whose chunks are in the database
          pins,      \* storage/cache.ts: pins per attachment
          unread,    \* history: attachments that what is shown could not read
          changes    \* history: number of changes

memory == <<cache, urls, resolved, unread, alive>>
chunks == <<stored, pins>>
world == <<state, view, network, changes>>
vars == <<world, mounted, rendered, runs, memory, chunks>>

Empty == [a \in Attachments |-> None]
ValuesOf(map) == {map[a] : a \in Attachments} \ {None}
Signature == [a \in Refs[view] |-> state[a]]
(* resolutionKey. *)
Key == [view |-> view, network |-> network, signature |-> Signature]
Loading == resolved # rendered
Pinned(ids, by) == [a \in Attachments |-> IF a \in ids THEN by[a] + 1 ELSE by[a]]
Unpinned(ids, by) == [a \in Attachments |-> IF a \in ids THEN by[a] - 1 ELSE by[a]]

Init ==
  /\ view \in DOMAIN Refs
  /\ state = [a \in Attachments |-> [version |-> 0, is |-> "live"]]
  /\ network = FALSE /\ mounted = TRUE
  /\ rendered = None /\ runs = {}
  /\ cache = Empty /\ urls = Empty /\ resolved = None /\ unread = {} /\ alive = {}
  /\ stored = Attachments /\ pins = [a \in Attachments |-> 0]
  /\ changes = 0

-----------------------------------------------------------------------------
(* The vault changes: synchronization, the user, the connection. *)
Change ==
  /\ mounted /\ changes < MaxChanges /\ changes' = changes + 1
  /\ \/ /\ \E note \in DOMAIN Refs \ {view} : view' = note
        /\ UNCHANGED <<state, network>>
     \/ /\ network' = ~network
        /\ UNCHANGED <<state, view>>
     \/ /\ \E a \in Attachments, s \in {"live", "deleted"} :
             state' = [state EXCEPT ![a] = [version |-> @.version + 1, is |-> s]]
        /\ UNCHANGED <<view, network>>
  /\ UNCHANGED <<mounted, rendered, runs, memory, chunks>>

-----------------------------------------------------------------------------
(* The URL of an attachment that did not change is kept. *)
Hit(r, a) == r.previous[a] # None /\ r.previous[a].version = state[a].version

(* What a run does up to the next attachment it must decrypt, or its end.  *)
Goes(r, todo, next) ==
  LET misses == {a \in todo : state[a].is = "live" /\ ~Hit(r, a)}
      upTo == IF misses = {} THEN todo ELSE {a \in todo : a < Min(misses)}
      filled == [a \in Attachments |-> IF a \in upTo /\ state[a].is = "live" THEN r.previous[a] ELSE next[a]]
  IN [r EXCEPT !.todo = todo \ upTo, !.next = filled,
               !.at = IF misses = {} THEN None ELSE [of |-> Min(misses), version |-> state[Min(misses)].version, step |-> "read"]]

(* A run goes on, or ends and takes the place of what was shown.           *)
Settle(r, others, living) ==
  IF r.at # None \/ r.cancelled
    THEN /\ runs' = others \cup {x \in {r} : r.at # None}
         /\ alive' = living
         /\ UNCHANGED <<cache, urls, resolved, unread>>
    ELSE /\ runs' = others \cup {[r EXCEPT !.over = TRUE]}
         /\ alive' = living \ (ValuesOf(r.previous) \ ValuesOf(r.next))
         /\ cache' = r.next /\ urls' = r.next /\ resolved' = r.key /\ unread' = r.failed

(* The effect's cleanup: its run is cancelled, URLs that are not shown go. *)
GivenUp == (UNION {r.created : r \in {x \in runs : ~x.cancelled}}) \ ValuesOf(cache)
Cancelled == {[r EXCEPT !.cancelled = TRUE, !.next = Empty, !.created = {}, !.failed = {}] : r \in {x \in runs : ~x.over}}

RenderedIds == IF rendered = None THEN {} ELSE DOMAIN rendered.signature

Render ==
  /\ mounted /\ rendered # Key
  /\ rendered' = Key
  /\ pins' = Pinned(Refs[view], Unpinned(RenderedIds, pins))
  /\ LET r == [id |-> changes, key |-> Key, cancelled |-> FALSE, over |-> FALSE, previous |-> cache,
               next |-> Empty, todo |-> Refs[view], at |-> None, created |-> {}, failed |-> {}]
     IN Settle(Goes(r, r.todo, r.next), Cancelled, alive \ GivenUp)
  /\ UNCHANGED <<world, mounted, stored>>

(* The workspace is left. *)
Unmount ==
  /\ mounted /\ mounted' = FALSE
  /\ pins' = Unpinned(RenderedIds, pins)
  /\ runs' = Cancelled
  /\ alive' = (alive \ GivenUp) \ ValuesOf(cache)
  /\ cache' = Empty
  /\ UNCHANGED <<world, rendered, urls, resolved, unread, stored>>

-----------------------------------------------------------------------------
(* decryptAttachmentBlob: the chunks, from the database or the server. *)
At(r, step) == r.at # None /\ r.at.step = step
Step(r, step) == runs' = (runs \ {r}) \cup {[r EXCEPT !.at.step = step]}

ReadStored(r) ==
  /\ At(r, "read") /\ r.at.of \in stored
  /\ Step(r, "open")
  /\ UNCHANGED <<world, mounted, rendered, memory, chunks>>

(* Chunks that were downloaded are pinned while room is made for them.     *)
Download(r) ==
  /\ At(r, "read") /\ r.at.of \notin stored /\ r.key.network
  /\ stored' = stored \cup {r.at.of} /\ pins' = Pinned({r.at.of}, pins)
  /\ Step(r, "room")
  /\ UNCHANGED <<world, mounted, rendered, memory>>

Released(r) ==
  /\ At(r, "room")
  /\ pins' = Unpinned({r.at.of}, pins)
  /\ Step(r, "open")
  /\ UNCHANGED <<world, mounted, rendered, memory, stored>>

Opened(r) ==
  /\ At(r, "open")
  /\ LET url == [of |-> r.at.of, version |-> r.at.version, by |-> r.id]
         rest == r.todo \ {r.at.of}
     IN IF r.cancelled
          THEN Settle(Goes(r, rest, r.next), runs \ {r}, alive)
          ELSE Settle(Goes([r EXCEPT !.created = @ \cup {url}], rest, [r.next EXCEPT ![r.at.of] = url]),
                      runs \ {r}, alive \cup {url})
  /\ UNCHANGED <<world, mounted, rendered, chunks>>

(* Offline without chunks, refused by the server, or damaged.              *)
Fails(r) ==
  /\ At(r, "open") \/ (At(r, "read") /\ r.at.of \notin stored)
  /\ Settle(Goes([r EXCEPT !.failed = @ \cup {r.at.of}], r.todo \ {r.at.of}, r.next), runs \ {r}, alive)
  /\ UNCHANGED <<world, mounted, rendered, chunks>>

(* evictDownloadableCaches. *)
Evict ==
  /\ \E a \in stored : pins[a] = 0 /\ stored' = stored \ {a}
  /\ UNCHANGED <<world, mounted, rendered, runs, memory, pins>>

(* decryptAttachmentBlob. *)
Advance == \E r \in runs : ReadStored(r) \/ Download(r) \/ Released(r) \/ Opened(r) \/ Fails(r)

Next == Change \/ Render \/ Unmount \/ Advance \/ Evict

Spec == Init /\ [][Next]_vars

(* React renders, requests and the worker answer. *)
FairSpec == Spec /\ WF_vars(Render) /\ WF_vars(Advance)

-----------------------------------------------------------------------------
TypeOK ==
  /\ view \in DOMAIN Refs /\ {network, mounted} \subseteq BOOLEAN
  /\ ValuesOf(cache) \cup ValuesOf(urls) \cup alive \subseteq Url
  /\ stored \subseteq Attachments /\ pins \in [Attachments -> Nat]
  /\ \A r \in runs : r.over => ~r.cancelled
  /\ Cardinality({r \in runs : ~r.cancelled}) <= 1

(* What the editor shows can be shown: no URL on screen was revoked        *)
(* (useAttachmentUrls.ts:92, 101).                                         *)
ShownAlive == mounted => ValuesOf(urls) \subseteq alive

(* Every URL that is not on screen, nor made for what comes next, was      *)
(* revoked; none outlives the workspace.                                   *)
NothingLeaks ==
  /\ alive \subseteq ValuesOf(cache) \cup UNION {r.created : r \in {x \in runs : ~x.cancelled}}
  /\ ~mounted => alive = {}

(* When nothing is being loaded, each attachment is shown as it is now,    *)
(* unless it could not be read; others are not shown.                      *)
ShownCurrent ==
  (mounted /\ rendered = Key /\ ~Loading)
    => \A a \in Attachments :
         IF a \in Refs[view] /\ state[a].is = "live"
           THEN (urls[a] # None /\ urls[a].version = state[a].version) \/ a \in unread
           ELSE urls[a] = None

(* The chunks of what is on screen stay, however many downloads end        *)
(* meanwhile (storage/cache.ts:9).                                         *)
ShownStays == [][ (mounted /\ mounted') => (RenderedIds \cap stored) \subseteq stored' ]_vars

(* Loading comes to an end, also when attachments cannot be read. *)
LoadingEnds == []<>(~mounted \/ (rendered = Key /\ ~Loading))

(* What is on screen can be shown and is current, and nothing else is kept     *)
(* alive, whichever run of the effect ends first (useAttachmentUrls.ts).   *)
UrlsSafe == TypeOK /\ ShownAlive /\ NothingLeaks /\ ShownCurrent
=============================================================================
