------------------------------ MODULE SyncFeed -------------------------------
(***************************************************************************)
(* A device that follows the change feed of SyncStore: the status          *)
(* handshake, the snapshot scan with its catch-up and removal of missing   *)
(* objects (syncReconciliation.ts), and the paged pull (pullController.ts) *)
(* against the routes of server/sync/routes.ts.                            *)
(*                                                                         *)
(* The device only reads here (VaultSync adds its edits), so one device    *)
(* stands for all: readers do not influence each other or the server.      *)
(* Each network answer and each local commit is a step of its own, and the *)
(* server moves between any two of them.                                   *)
(***************************************************************************)
EXTENDS SyncStore

CONSTANTS
    RequestOf,      \* the request every operation identifier was made for
    PageSize,       \* the limit of a snapshot or change page
    MaxInterrupts   \* bound on interruptions and blocked rows

(* A client draws the identifier of an operation for one request, and the  *)
(* identifier of an object for one creation.                               *)
ASSUME HonestClients ==
    /\ RequestOf \in [Keys -> Requests]
    /\ \A k, l \in Keys :
         (/\ RequestOf[k].baseRevision = 0
          /\ RequestOf[l].baseRevision = 0
          /\ RequestOf[k].objectId = RequestOf[l].objectId) => k = l
ASSUME PagesAssumption == PageSize \in Nat \ {0} /\ MaxInterrupts \in Nat
ASSUME ClocksAgree == Skew = 0

VARIABLES
    view,           \* IndexedDB table objects: the device's mirror
    cursor,         \* meta cursor
    epochKnown,     \* meta sync-state holds the server's epoch
    leaseIssued,    \* issue time inside the stored lease, or -1
    phase,          \* where the running synchronization stands
    statusHead,     \* head answered by the last status request
    newLease,       \* issue time of the lease it answered
    after,          \* last identifier of the snapshot scanned so far
    position,       \* cursor of the running pull
    seen,           \* identifiers the reconciliation has met
    page,           \* the answer being decrypted, or NoPage
    interrupts      \* number of interruptions so far

reader == <<view, cursor, epochKnown, leaseIssued, phase, statusHead, newLease,
            after, position, seen, page, interrupts>>

Phases == {"idle", "scan", "catchup", "missing", "adopt", "pull"}

(* An answer: the listed identifiers with their rows (NoObject for a       *)
(* purge), where to go on, and whether there is more.                      *)
Page == [answered : BOOLEAN, listed : SUBSET Ids, rows : [Ids -> Object],
         next : Nat, more : BOOLEAN]

NoPage == [answered |-> FALSE, listed |-> {}, rows |-> [id \in Ids |-> NoObject],
           next |-> 0, more |-> FALSE]

Answer(ids, next, more) ==
    [answered |-> TRUE, listed |-> ids,
     rows |-> [id \in Ids |-> IF id \in ids THEN objects[id] ELSE NoObject],
     next |-> next, more |-> more]

FeedInit ==
    /\ Init
    /\ view = [id \in Ids |-> NoObject]
    /\ cursor = 0
    /\ epochKnown = FALSE
    /\ leaseIssued = -1
    /\ phase = "idle"
    /\ statusHead = 0
    /\ newLease = -1
    /\ after = 0
    /\ position = 0
    /\ seen = {}
    /\ page = NoPage
    /\ interrupts = 0

-----------------------------------------------------------------------------
(***************************************************************************)
(* The status handshake.                                                   *)
(***************************************************************************)
LeaseValid == leaseIssued >= 0 /\ leaseIssued > now - Lifetime

NeedsReconcile == ~epochKnown \/ ~LeaseValid \/ cursor < floor \/ cursor > head

Status ==
    /\ phase = "idle"
    /\ statusHead' = head
    /\ newLease' = now
    /\ \/ /\ NeedsReconcile
          /\ phase' = "scan"
          /\ after' = 0
          /\ seen' = {}
          /\ UNCHANGED <<leaseIssued, position>>
       \/ /\ ~NeedsReconcile
          /\ leaseIssued' = now
          /\ phase' = "pull"
          /\ position' = cursor
          /\ UNCHANGED <<after, seen>>
    /\ UNCHANGED <<vars, view, cursor, epochKnown, page, interrupts>>

-----------------------------------------------------------------------------
(***************************************************************************)
(* Answers.  A page holds the first PageSize of what matches the query.    *)
(***************************************************************************)
IsFirstPage(selected, matching, order) ==
    /\ selected \subseteq matching
    /\ Cardinality(selected) <= PageSize
    /\ Cardinality(selected) < PageSize => selected = matching
    /\ \A s \in selected, m \in matching \ selected : order[s] < order[m]

(* Fault: a full page is taken for the last one.                           *)
FetchSnapshotFault ==
    /\ phase = "scan" /\ ~page.answered
    /\ \E ids \in SUBSET Ids :
         /\ IsFirstPage(ids, {id \in Ids : Exists(id) /\ id > after}, [id \in Ids |-> id])
         /\ page' = Answer(ids, after, FALSE)
         /\ seen' = seen \cup ids
    /\ UNCHANGED <<vars, view, cursor, epochKnown, leaseIssued, phase,
                   statusHead, newLease, after, position, interrupts>>

(* GET /sync/snapshot: stored objects in the order of their identifiers.   *)
FetchSnapshot ==
    /\ phase = "scan" /\ ~page.answered
    /\ \E ids \in SUBSET Ids, last \in Ids \cup {after} :
         /\ IsFirstPage(ids, {id \in Ids : Exists(id) /\ id > after}, [id \in Ids |-> id])
         /\ ids = {} => last = after
         /\ ids # {} => last \in ids /\ \A id \in ids : id <= last
         /\ page' = Answer(ids, last, Cardinality(ids) = PageSize)
         /\ seen' = seen \cup ids
    /\ UNCHANGED <<vars, view, cursor, epochKnown, leaseIssued, phase,
                   statusHead, newLease, after, position, interrupts>>

Notices == {n \in Categories \X Ids : changes[n[1]][n[2]].sequence > position}
Number(n) == changes[n[1]][n[2]].sequence

(* Where the pull continues: after the last notice of a full page, else at *)
(* the head of the log.                                                    *)
IsNextCursor(next, notices) ==
    IF Cardinality(notices) = PageSize
      THEN /\ next \in {Number(n) : n \in notices}
           /\ \A n \in notices : Number(n) <= next
      ELSE next = head

(* GET /sync: the notices after the position, with the rows as they stand. *)
(* A position the log no longer covers is answered by a reset.             *)
FetchChanges ==
    /\ phase \in {"catchup", "pull"} /\ ~page.answered
    /\ \/ /\ position < floor \/ position > head
          /\ phase' = "idle"
          /\ UNCHANGED <<page, seen>>
       \/ /\ floor <= position /\ position <= head
          /\ \E notices \in SUBSET Notices, next \in {head} \cup {Number(n) : n \in Notices} :
               LET ids == {n[2] : n \in {m \in notices : m[1] = "object"}} IN
               /\ IsFirstPage(notices, Notices, [n \in Notices |-> Number(n)])
               /\ IsNextCursor(next, notices)
               /\ page' = Answer(ids, next, Cardinality(notices) = PageSize)
               /\ seen' = IF phase = "catchup"
                            THEN seen \cup {id \in ids : Exists(id)} ELSE seen
          /\ phase' = phase
    /\ UNCHANGED <<vars, view, cursor, epochKnown, leaseIssued, statusHead,
                   newLease, after, position, interrupts>>

-----------------------------------------------------------------------------
(***************************************************************************)
(* Local commits.                                                          *)
(***************************************************************************)
(* A note is unreadable while a block it references cannot be fetched: its *)
(* blocks went with the note after the page was read.                      *)
Unreadable == {id \in page.listed : ~(page.rows[id].bodyBlockIds \subseteq bodyBlocks[id])}

(* Fault: the notice of a purge is taken for an old row. *)
MergedFault(id) ==
    IF phase # "scan" /\ view[id].revision > page.rows[id].revision
      THEN view[id] ELSE page.rows[id]

(* A pull leaves a row alone that is ahead of the notice; a scan does not. *)
Merged(id) ==
    IF /\ phase # "scan"
       /\ page.rows[id] # NoObject
       /\ view[id].revision > page.rows[id].revision
      THEN view[id] ELSE page.rows[id]

(* Fault: the cursor moves although a row of the page was left out.        *)
CommittedCursorFault(blocked) == IF phase = "pull" THEN page.next ELSE cursor

(* Only a pull that committed the whole page moves the stored cursor.      *)
CommittedCursor(blocked) ==
    IF phase = "pull" /\ blocked = {} THEN page.next ELSE cursor

PhaseAfterPage(blocked) ==
    IF blocked # {} THEN "idle"
    ELSE IF page.more THEN phase
    ELSE CASE phase = "scan" -> "catchup"
           [] phase = "catchup" -> "missing"
           [] OTHER -> "idle"

(* A row is left out of the commit when it is unreadable (unless its       *)
(* blocks are cached already), and for as long as the object has an unsaved*)
(* edit, a concurrent local write or an envelope that fails to decrypt.    *)
(* The latter pass, so they count as interruptions.                        *)
CommitPage ==
    /\ page.answered
    /\ \E blocked \in SUBSET page.listed :
         /\ IF blocked \subseteq Unreadable THEN interrupts' = interrupts
            ELSE interrupts < MaxInterrupts /\ interrupts' = interrupts + 1
         /\ view' = [id \in Ids |-> IF id \in page.listed \ blocked
                                      THEN Merged(id) ELSE view[id]]
         /\ cursor' = CommittedCursor(blocked)
         /\ phase' = PhaseAfterPage(blocked)
    /\ page' = NoPage
    /\ after' = IF phase = "scan" THEN page.next ELSE after
    /\ position' = IF phase # "scan" THEN page.next
                   ELSE IF page.more THEN position ELSE statusHead
    /\ UNCHANGED <<vars, epochKnown, leaseIssued, statusHead, newLease, seen>>

(* What neither the scan nor the catch-up has met was purged meanwhile.    *)
RemoveMissing ==
    /\ phase = "missing"
    /\ view' = [id \in Ids |-> IF id \in seen THEN view[id] ELSE NoObject]
    /\ phase' = "adopt"
    /\ UNCHANGED <<vars, cursor, epochKnown, leaseIssued, statusHead, newLease,
                   after, position, seen, page, interrupts>>

(* Cursor, epoch and lease become durable together; the pull follows.      *)
AdoptCursor ==
    /\ phase = "adopt"
    /\ cursor' = position
    /\ epochKnown' = TRUE
    /\ leaseIssued' = newLease
    /\ phase' = "pull"
    /\ UNCHANGED <<vars, view, statusHead, newLease, after, position, seen, page,
                   interrupts>>

(* The tab is closed, locked or offline, or a request fails: what was in   *)
(* flight is gone, what was committed stays.                               *)
Interrupt ==
    /\ phase # "idle"
    /\ interrupts < MaxInterrupts
    /\ interrupts' = interrupts + 1
    /\ phase' = "idle"
    /\ page' = NoPage
    /\ UNCHANGED <<vars, view, cursor, epochKnown, leaseIssued, statusHead,
                   newLease, after, position, seen>>

-----------------------------------------------------------------------------
StoreStep ==
    /\ \/ \E key \in Keys : WriteObject(key, RequestOf[key])
       \/ Upkeep
    /\ UNCHANGED reader

ReaderStep ==
    Status \/ FetchSnapshot \/ FetchChanges \/ CommitPage \/ RemoveMissing \/ AdoptCursor

FeedNext == StoreStep \/ ReaderStep \/ Interrupt

allVars == <<vars, reader>>

FeedSpec == FeedInit /\ [][FeedNext]_allVars

(* Notifications, the fallback timer and retries start a synchronization   *)
(* again and again; one that runs gets its answers.                        *)
FairFeedSpec == FeedSpec /\ WF_allVars(ReaderStep)

-----------------------------------------------------------------------------
FeedTypeOK ==
    /\ TypeOK
    /\ view \in [Ids -> Object]
    /\ cursor \in Nat /\ statusHead \in Nat /\ after \in Nat /\ position \in Nat
    /\ interrupts \in Nat
    /\ epochKnown \in BOOLEAN
    /\ leaseIssued \in Int /\ newLease \in Int
    /\ phase \in Phases
    /\ seen \in SUBSET Ids
    /\ page \in Page

(* Whatever the device has stored, its cursor never hides anything from    *)
(* it: an object it shows differently from the server has a notice beyond  *)
(* the cursor, or the cursor is so old that the status handshake rejects   *)
(* it.  It must hold at every moment of a scan, a catch-up or a pull,      *)
(* because any of them can be cut off there (pullController.ts:222,        *)
(* syncReconciliation.ts:50-78).                                           *)
MirrorExact ==
    epochKnown /\ cursor >= floor =>
       \A id \in Ids : view[id] = objects[id] \/ changes["object"][id].sequence > cursor

(* Reconciliation takes absence from its scan as proof of a purge.  It     *)
(* never drops an object the server still stores, whatever is written,     *)
(* purged or collected while the pages are fetched.                        *)
NeverDropsLive ==
    [][\A id \in Ids : view[id] # NoObject /\ view'[id] = NoObject => ~Exists(id)]_allVars

(* Once the store and the network calm down the device shows exactly what  *)
(* the server stores; no combination of an expired lease, a raised floor   *)
(* and resets keeps it reconciling for ever.                               *)
Convergence == <>[](view = objects)
=============================================================================
