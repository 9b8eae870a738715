------------------------------ MODULE MCProgress ------------------------------
(*****************************************************************************)
(* What must happen in the end, each under the fairness of its component:    *)
(* the coordinator serves what it is asked for (SyncCoordinator), a change   *)
(* is announced to every window (SyncEvents), an edit reaches the disk       *)
(* (DocumentSaves), the history queue drains (HistorySync) and uploads       *)
(* arrive (AttachmentUploads). A behaviour is about one of them, its part.   *)
(*****************************************************************************)
EXTENDS SyncCoordinator, TLC, TLAPS

CONSTANTS Parts,
          Windows, MaxChanges, MaxFaults,        \* of SyncEvents
          n1, d1, a1, a2

VARIABLES part,
          subscribers, targets, unread, source, lost, syncing, fallback, pull,
          visible, verified, missing, changes, faults,
          doc, disk, pending, lane, unsaved, todo, phase, active, given, spent,
          local, snapshotOutbox, meta, paused, run, errand, table, receipts,
          barred, admits, labelling, unwanted, labelled, answersLost, alarm,
          clock, note, stored, manifest, owners, device, push, edits, stops

Events == INSTANCE SyncEvents
Saves == INSTANCE DocumentSaves WITH
    Notes <- {n1}, MaxEdits <- 2, MaxStructural <- 1, MaxFailures <- 1,
    failed <- unsaved
Queue == INSTANCE HistorySync WITH
    Snapshots <- {1, 2}, Manual <- {}, Labels <- {"renamed"}, MaxLabels <- 1,
    MaxLost <- 1, Pauses <- FALSE, outbox <- snapshotOutbox,
    wanted <- labelling, lost <- answersLost
Uploads == INSTANCE AttachmentUploads WITH
    Devices <- {d1}, Attachments <- {a1, a2}, Chunks <- {1, 2}, MaxClock <- 0,
    MaxEdits <- 3, MaxStops <- 1, local <- device

ASSUME ProgressAssumption ==
    Events!EventBounds /\ Queue!HistorySyncAssumption

eventsVars == <<subscribers, targets, unread, source, lost, syncing, fallback,
                pull, visible, verified, missing, changes, faults>>
savesVars == <<doc, disk, pending, lane, unsaved, todo, phase, active, given,
               spent>>
queueVars == <<local, snapshotOutbox, meta, paused, run, errand, table,
               receipts, barred, admits, labelling, unwanted, labelled,
               answersLost, alarm>>
uploadsVars == <<clock, note, stored, manifest, owners, device, push, edits,
                 stops>>
everything == <<part, vars, eventsVars, savesVars, queueVars, uploadsVars>>

(* Only component p moves; the others stay where they began.               *)
Only(p) ==
    /\ part = p /\ UNCHANGED part
    /\ IF p = "coordinator" THEN TRUE ELSE UNCHANGED vars
    /\ IF p = "events" THEN TRUE ELSE UNCHANGED eventsVars
    /\ IF p = "saves" THEN TRUE ELSE UNCHANGED savesVars
    /\ IF p = "queue" THEN TRUE ELSE UNCHANGED queueVars
    /\ IF p = "uploads" THEN TRUE ELSE UNCHANGED uploadsVars

RootInit ==
    /\ part \in Parts /\ Init /\ Events!Init /\ Saves!Init /\ Queue!Init
    /\ Uploads!Init

CoordinatorStep == Only("coordinator") /\ Next
EventsStep == Only("events") /\ Events!Next
SavesStep == Only("saves") /\ Saves!Next
QueueStep == Only("queue") /\ Queue!Next
UploadsStep == Only("uploads") /\ Uploads!Next

RootNext == CoordinatorStep \/ EventsStep \/ SavesStep \/ QueueStep
            \/ UploadsStep

RootSpec == RootInit /\ [][RootNext]_everything

FairRootSpec ==
    /\ RootSpec
    /\ WF_vars(part = "coordinator" /\ DeadlineFires)
    /\ WF_vars(part = "coordinator" /\ RetryFires)
    /\ WF_vars(part = "coordinator" /\ Wake)
    /\ WF_vars(part = "coordinator" /\ (Succeed \/ Fail))
    /\ WF_eventsVars(part = "events" /\ Events!Flush)
    /\ \A w \in Windows :
         /\ WF_eventsVars(part = "events" /\ Events!SynchronizeEnds(w))
         /\ WF_eventsVars(part = "events" /\ Events!CursorRead(w))
         /\ WF_eventsVars(part = "events" /\ Events!StreamOpens(w))
         /\ WF_eventsVars(part = "events" /\ Events!StreamDone(w))
         /\ WF_eventsVars(part = "events" /\ Events!FrameRead(w))
         /\ WF_eventsVars(part = "events" /\ Events!SafetyTimer(w))
         /\ WF_eventsVars(part = "events" /\ Events!FallbackTimer(w))
         /\ WF_eventsVars(part = "events" /\ Events!Pull(w))
    /\ WF_savesVars(part = "saves" /\ Saves!TimerFires(n1))
    /\ WF_savesVars(part = "saves" /\ (Saves!WriteSucceeds(n1) \/ Saves!WriteFails(n1)))
    /\ \A r \in Saves!Routines : WF_savesVars(part = "saves" /\ Saves!RoutineStep(r))
    /\ WF_queueVars(part = "queue" /\ Queue!RunSteps)
    /\ WF_queueVars(part = "queue" /\ Queue!ErrandEnds)
    /\ WF_uploadsVars(part = "uploads" /\ Uploads!Snapshot(d1))
    /\ WF_uploadsVars(part = "uploads" /\ Uploads!EndPush(d1))
    /\ WF_uploadsVars(part = "uploads" /\ Uploads!PutNote(d1))
    /\ SF_uploadsVars(part = "uploads" /\ Uploads!Pull(d1))
    /\ WF_uploadsVars(part = "uploads" /\ (\E a \in {a1, a2}, i \in {1, 2} : Uploads!PutChunk(d1, a, i)))
    /\ WF_uploadsVars(part = "uploads" /\ (\E a \in {a1, a2} : Uploads!PutManifest(d1, a)))

(*****************************************************************************)
(* SyncEvents: a change is announced to every window that listens, and no    *)
(* window is left without a stream or a timer. (syncEvents.ts,               *)
(* useSyncConnection.ts)                                                     *)
(*****************************************************************************)
EventsSafe == Events!EventsSafe

(*****************************************************************************)
(* SyncEvents: every window left open pulls each change in the end.          *)
(* (realtime.ts)                                                             *)
(*****************************************************************************)
ChangesArrive == Events!ChangesArrive

(*****************************************************************************)
(* DocumentSaves: what the user typed last reaches the database.             *)
(* (useDocumentSaveQueue.ts)                                                 *)
(*****************************************************************************)
EditsReachDisk == Saves!EditsReachDisk

(* HistorySync: the queue drains. (createHistorySync.ts)                     *)
QueueDrains == Queue!QueueDrains

(*****************************************************************************)
(* AttachmentUploads: what is to be uploaded arrives whole.                  *)
(* (pushController.ts)                                                       *)
(*****************************************************************************)
UploadsArrive == Uploads!UploadsArrive

-----------------------------------------------------------------------------
(***************************************************************************)
(* Proofs, for any number of failures.  The three invariants are inductive *)
(* together with Recorded: what a history variable remembers beyond the    *)
(* current execution is pending, a kind asked for since the execution      *)
(* began is still wanted, so a success loses nothing when it settles the   *)
(* kinds it ran.                                                           *)
(***************************************************************************)
Recorded == ~disposed /\ running => fresh \subseteq wanted

IInv == CoordinatorTypeOK /\ NoStrandedIntent /\ NoLostIntent /\ Recorded

(* The initial state satisfies the invariant. *)
LEMMA Initially == Init => IInv
<1> SUFFICES ASSUME Init PROVE IInv
  OBVIOUS
<1>1. failures \in 0 .. MaxFailures
  BY FailuresAssumption DEF Init
<1> QED
  BY <1>1 DEF Init, IInv, CoordinatorTypeOK, KindsOK, FlagsOK, RunsAlone, RunsSomething,
     NoStrandedIntent, NoLostIntent, Recorded, Kinds

(* A request leaves a timer armed, or finds something that will drain it. *)
LEMMA RequestKeeps ==
    ASSUME IInv, NEW kinds \in SUBSET Kinds, kinds # {}, Request(kinds)
    PROVE  IInv'
<1> USE DEF IInv, CoordinatorTypeOK, KindsOK, FlagsOK, RunsAlone, RunsSomething
<1>1. KindsOK'
  BY DEF Request, Asked, ArmsDeadline, page
<1>2. FlagsOK'
  BY DEF Request, Asked, ArmsDeadline, page
<1>3. RunsAlone'
  BY DEF Request, Asked, ArmsDeadline, page
<1>4. RunsSomething'
  BY DEF Request, Asked, ArmsDeadline, page
<1>5. NoStrandedIntent'
  BY DEF NoStrandedIntent, Request, Asked, ArmsDeadline, page
<1>6. NoLostIntent'
  BY DEF NoLostIntent, Request, Asked, ArmsDeadline, page
<1>7. Recorded'
  BY DEF Recorded, Request, Asked, ArmsDeadline, page
<1> QED
  BY <1>1, <1>2, <1>3, <1>4, <1>5, <1>6, <1>7 DEF IInv, CoordinatorTypeOK

(* runNow starts what is wanted unless it is turned away, and then only    *)
(* because an execution runs or the page cannot run.                       *)
LEMMA RunNowKeeps ==
    ASSUME IInv, NEW kinds \in SUBSET Kinds, RunNow(kinds), disposed' = disposed,
           runnable' = runnable, waking' \in BOOLEAN, failures' = failures
    PROVE  IInv'
<1> USE DEF IInv, CoordinatorTypeOK, KindsOK, FlagsOK, RunsAlone, RunsSomething
<1>1. CASE DrainTurnedAway
  <2>1. KindsOK'
    BY <1>1 DEF RunNow, DrainTurnedAway, CancelTimers
  <2>2. FlagsOK'
    BY <1>1 DEF RunNow, DrainTurnedAway, CancelTimers
  <2>3. RunsAlone'
    BY <1>1 DEF RunNow, DrainTurnedAway, CancelTimers
  <2>4. RunsSomething'
    BY <1>1 DEF RunNow, DrainTurnedAway, CancelTimers
  <2>5. NoStrandedIntent'
    BY <1>1 DEF NoStrandedIntent, RunNow, DrainTurnedAway, CancelTimers
  <2>6. NoLostIntent'
    BY <1>1 DEF NoLostIntent, RunNow, DrainTurnedAway, CancelTimers
  <2>7. Recorded'
    BY <1>1 DEF Recorded, RunNow, DrainTurnedAway, CancelTimers
  <2> QED
    BY <2>1, <2>2, <2>3, <2>4, <2>5, <2>6, <2>7 DEF IInv, CoordinatorTypeOK
<1>2. CASE ~DrainTurnedAway
  <2>1. KindsOK'
    BY <1>2 DEF RunNow, DrainTurnedAway, Starts, CancelForRun, CancelTimers
  <2>2. FlagsOK'
    BY <1>2 DEF RunNow, DrainTurnedAway, Starts, CancelForRun, CancelTimers
  <2>3. RunsAlone'
    BY <1>2 DEF RunNow, DrainTurnedAway, Starts, CancelForRun, CancelTimers
  <2>4. RunsSomething'
    BY <1>2 DEF RunNow, DrainTurnedAway, Starts, CancelForRun, CancelTimers
  <2>5. NoStrandedIntent'
    BY <1>2 DEF NoStrandedIntent, RunNow, DrainTurnedAway, Starts, CancelForRun,
       CancelTimers
  <2>6. NoLostIntent'
    BY <1>2 DEF NoLostIntent, RunNow, DrainTurnedAway, Starts, CancelForRun,
       CancelTimers
  <2>7. Recorded'
    BY <1>2 DEF Recorded, RunNow, DrainTurnedAway, Starts, CancelForRun, CancelTimers
  <2> QED
    BY <2>1, <2>2, <2>3, <2>4, <2>5, <2>6, <2>7 DEF IInv, CoordinatorTypeOK
<1> QED
  BY <1>1, <1>2

(* A timer that fires starts what is wanted, or is turned away by what     *)
(* keeps the pending intent from being stranded.                           *)
LEMMA TimerKeeps ==
    ASSUME IInv, TrailingFires \/ DeadlineFires \/ RetryFires
    PROVE  IInv'
<1> USE DEF IInv, CoordinatorTypeOK, KindsOK, FlagsOK, RunsAlone, RunsSomething
<1> USE DEF TrailingFires, DeadlineFires, RetryFires, Fires, page
<1>1. CASE DrainTurnedAway
  <2>1. KindsOK'
    BY <1>1 DEF DrainTurnedAway
  <2>2. FlagsOK'
    BY <1>1 DEF DrainTurnedAway
  <2>3. RunsAlone'
    BY <1>1 DEF DrainTurnedAway
  <2>4. RunsSomething'
    BY <1>1 DEF DrainTurnedAway
  <2>5. NoStrandedIntent'
    BY <1>1 DEF NoStrandedIntent, DrainTurnedAway
  <2>6. NoLostIntent'
    BY <1>1 DEF NoLostIntent, DrainTurnedAway
  <2>7. Recorded'
    BY <1>1 DEF Recorded, DrainTurnedAway
  <2> QED
    BY <2>1, <2>2, <2>3, <2>4, <2>5, <2>6, <2>7 DEF IInv, CoordinatorTypeOK
<1>2. CASE ~DrainTurnedAway
  <2>1. KindsOK'
    BY <1>2 DEF DrainTurnedAway, Starts, CancelForRun, CancelTimers
  <2>2. FlagsOK'
    BY <1>2 DEF DrainTurnedAway, Starts, CancelForRun, CancelTimers
  <2>3. RunsAlone'
    BY <1>2 DEF DrainTurnedAway, Starts, CancelForRun, CancelTimers
  <2>4. RunsSomething'
    BY <1>2 DEF DrainTurnedAway, Starts, CancelForRun, CancelTimers
  <2>5. NoStrandedIntent'
    BY <1>2 DEF NoStrandedIntent, DrainTurnedAway, Starts, CancelForRun, CancelTimers
  <2>6. NoLostIntent'
    BY <1>2 DEF NoLostIntent, DrainTurnedAway, Starts, CancelForRun, CancelTimers
  <2>7. Recorded'
    BY <1>2 DEF Recorded, DrainTurnedAway, Starts, CancelForRun, CancelTimers
  <2> QED
    BY <2>1, <2>2, <2>3, <2>4, <2>5, <2>6, <2>7 DEF IInv, CoordinatorTypeOK
<1> QED
  BY <1>1, <1>2

(* A success settles what it ran; what was asked meanwhile runs next or is *)
(* kept for the page that cannot run.                                      *)
LEMMA SuccessKeeps == ASSUME IInv, Succeed PROVE IInv'
<1> USE DEF IInv, CoordinatorTypeOK, KindsOK, FlagsOK, RunsAlone, RunsSomething
<1>1. CASE GoesOn
  <2>1. KindsOK'
    BY <1>1 DEF Succeed, GoesOn, page
  <2>2. FlagsOK'
    BY <1>1 DEF Succeed, GoesOn, page
  <2>3. RunsAlone'
    BY <1>1 DEF Succeed, GoesOn, page
  <2>4. RunsSomething'
    BY <1>1 DEF Succeed, GoesOn, page
  <2>5. NoStrandedIntent'
    BY <1>1 DEF NoStrandedIntent, Succeed, GoesOn, page
  <2>6. NoLostIntent'
    BY <1>1 DEF NoLostIntent, Recorded, Succeed, GoesOn, page
  <2>7. Recorded'
    BY <1>1 DEF Recorded, Succeed, GoesOn, page
  <2> QED
    BY <2>1, <2>2, <2>3, <2>4, <2>5, <2>6, <2>7 DEF IInv, CoordinatorTypeOK
<1>2. CASE ~GoesOn
  <2>1. KindsOK'
    BY <1>2 DEF Succeed, GoesOn, page
  <2>2. FlagsOK'
    BY <1>2 DEF Succeed, GoesOn, page
  <2>3. RunsAlone'
    BY <1>2 DEF Succeed, GoesOn, page
  <2>4. RunsSomething'
    BY <1>2 DEF Succeed, GoesOn, page
  <2>5. NoStrandedIntent'
    BY <1>2 DEF NoStrandedIntent, Succeed, GoesOn, page
  <2>6. NoLostIntent'
    BY <1>2 DEF NoLostIntent, Recorded, Succeed, GoesOn, page
  <2>7. Recorded'
    BY <1>2 DEF Recorded, Succeed, GoesOn, page
  <2> QED
    BY <2>1, <2>2, <2>3, <2>4, <2>5, <2>6, <2>7 DEF IInv, CoordinatorTypeOK
<1> QED
  BY <1>1, <1>2

(* A failure gives its intent back and arms the retry. *)
LEMMA FailureKeeps == ASSUME IInv, Fail PROVE IInv'
<1> USE DEF IInv, CoordinatorTypeOK, KindsOK, FlagsOK, RunsAlone, RunsSomething
<1>1. KindsOK'
  BY DEF Fail, GivenBack, page
<1>2. FlagsOK'
  <2>1. failures' \in 0 .. MaxFailures
    BY FailuresAssumption DEF Fail
  <2>2. retry' \in BOOLEAN /\ running' \in BOOLEAN
    BY DEF Fail
  <2> QED
    BY <2>1, <2>2 DEF Fail, page
<1>3. RunsAlone'
  BY DEF Fail, GivenBack, page
<1>4. RunsSomething'
  BY DEF Fail, GivenBack, page
<1>5. NoStrandedIntent'
  BY DEF NoStrandedIntent, Fail, GivenBack, page
<1>6. NoLostIntent'
  BY DEF NoLostIntent, Fail, GivenBack, page
<1>7. Recorded'
  BY DEF Recorded, Fail, GivenBack, page
<1> QED
  BY <1>1, <1>2, <1>3, <1>4, <1>5, <1>6, <1>7 DEF IInv, CoordinatorTypeOK

(* A disposed coordinator drops what was pending and its timers. *)
LEMMA DisposalKeeps == ASSUME IInv, Dispose PROVE IInv'
<1> USE DEF IInv, CoordinatorTypeOK, KindsOK, FlagsOK, RunsAlone, RunsSomething
<1>1. KindsOK'
  BY DEF Dispose, CancelTimers, page
<1>2. FlagsOK'
  BY DEF Dispose, CancelTimers, page
<1>3. RunsAlone'
  BY DEF Dispose, CancelTimers, page
<1>4. RunsSomething'
  BY DEF Dispose, CancelTimers, page
<1>5. NoStrandedIntent'
  BY DEF NoStrandedIntent, Dispose, CancelTimers, page
<1>6. NoLostIntent'
  BY DEF NoLostIntent, Dispose, CancelTimers, page
<1>7. Recorded'
  BY DEF Recorded, Dispose, CancelTimers, page
<1> QED
  BY <1>1, <1>2, <1>3, <1>4, <1>5, <1>6, <1>7 DEF IInv, CoordinatorTypeOK

(* Hiding and showing the page changes no field of the coordinator. *)
LEMMA PageKeeps == ASSUME IInv, Hide \/ Show PROVE IInv'
<1> USE DEF IInv, CoordinatorTypeOK, KindsOK, FlagsOK, RunsAlone, RunsSomething
<1>1. KindsOK'
  BY DEF Hide, Show, coordinator
<1>2. FlagsOK'
  BY DEF Hide, Show, coordinator
<1>3. RunsAlone'
  BY DEF Hide, Show, coordinator
<1>4. RunsSomething'
  BY DEF Hide, Show, coordinator
<1>5. NoStrandedIntent'
  BY DEF NoStrandedIntent, Hide, Show, coordinator
<1>6. NoLostIntent'
  BY DEF NoLostIntent, Hide, Show, coordinator
<1>7. Recorded'
  BY DEF Recorded, Hide, Show, coordinator
<1> QED
  BY <1>1, <1>2, <1>3, <1>4, <1>5, <1>6, <1>7 DEF IInv, CoordinatorTypeOK

(* A step that leaves everything unchanged keeps the invariant. *)
LEMMA StutterKeeps == ASSUME IInv, UNCHANGED vars PROVE IInv'
<1> USE DEF IInv, CoordinatorTypeOK, KindsOK, FlagsOK, RunsAlone, RunsSomething
<1>1. KindsOK'
  BY DEF vars, page
<1>2. FlagsOK'
  BY DEF vars, page
<1>3. RunsAlone'
  BY DEF vars, page
<1>4. RunsSomething'
  BY DEF vars, page
<1>5. NoStrandedIntent'
  BY DEF NoStrandedIntent, vars, page
<1>6. NoLostIntent'
  BY DEF NoLostIntent, vars, page
<1>7. Recorded'
  BY DEF Recorded, vars, page
<1> QED
  BY <1>1, <1>2, <1>3, <1>4, <1>5, <1>6, <1>7 DEF IInv, CoordinatorTypeOK

(* Every step keeps the invariant. *)
LEMMA Inductive == IInv /\ [Next]_vars => IInv'
<1> SUFFICES ASSUME IInv, [Next]_vars PROVE IInv'
  OBVIOUS
<1>1. ASSUME NEW kinds \in SUBSET Kinds, kinds # {}, Request(kinds) PROVE IInv'
  BY <1>1, RequestKeeps
<1>2. ASSUME NEW kinds \in SUBSET Kinds, Synchronize(kinds) PROVE IInv'
  <2>1. RunNow(kinds) /\ disposed' = disposed /\ failures' = failures
    BY <1>2 DEF Synchronize
  <2>2. runnable' = runnable /\ waking' \in BOOLEAN
    BY <1>2 DEF Synchronize, page, IInv, CoordinatorTypeOK, FlagsOK
  <2> QED
    BY <2>1, <2>2, RunNowKeeps
<1>3. CASE Wake
  <2>1. RunNow(Kinds) /\ disposed' = disposed /\ failures' = failures
    BY <1>3 DEF Wake
  <2>2. runnable' = runnable /\ waking' \in BOOLEAN
    BY <1>3 DEF Wake
  <2> QED
    BY <2>1, <2>2, RunNowKeeps
<1>4. ASSUME NEW kinds \in (SUBSET Kinds) \ {{}}, Request(kinds) \/ Synchronize(kinds)
      PROVE  IInv'
  <2>1. kinds \in SUBSET Kinds /\ kinds # {}
    BY <1>4
  <2> QED
    BY <1>1, <1>2, <1>4, <2>1
<1>5. CASE Synchronize({})
  BY <1>2, <1>5
<1>6. CASE TrailingFires \/ DeadlineFires \/ RetryFires
  BY <1>6, TimerKeeps
<1>7. CASE Succeed \/ Fail \/ Dispose
  BY <1>7, SuccessKeeps, FailureKeeps, DisposalKeeps
<1>8. CASE Hide \/ Show
  BY <1>8, PageKeeps
<1>9. CASE UNCHANGED vars
  BY <1>9, StutterKeeps
<1> QED
  BY <1>3, <1>4, <1>5, <1>6, <1>7, <1>8, <1>9 DEF Next

(* While an execution runs no timer is armed, in every reachable state of  *)
(* the coordinator.                                                        *)
THEOREM CoordinatorTypeCorrect == Spec => []CoordinatorTypeOK
<1>1. IInv => CoordinatorTypeOK
  BY DEF IInv
<1> QED
  BY <1>1, Initially, Inductive, PTL DEF Spec

(* A pending request always has a timer, an execution or a page event that *)
(* is bound to drain it (SyncCoordinator.request and drain).               *)
THEOREM IntentsNeverStranded == Spec => []NoStrandedIntent
<1>1. IInv => NoStrandedIntent
  BY DEF IInv
<1> QED
  BY <1>1, Initially, Inductive, PTL DEF Spec

(* What was asked for stays pending or running until a later execution has *)
(* succeeded, through merges, failures and retries.                        *)
THEOREM IntentsNeverLost == Spec => []NoLostIntent
<1>1. IInv => NoLostIntent
  BY DEF IInv
<1> QED
  BY <1>1, Initially, Inductive, PTL DEF Spec

(* The invariant the run checks, from the three theorems above: typed      *)
(* state, no stranded and no lost intent (syncCoordinator.ts).             *)
THEOREM CoordinatorIsSafe == Spec => []CoordinatorSafe
<1>1. CoordinatorTypeOK /\ NoStrandedIntent /\ NoLostIntent => CoordinatorSafe
  BY DEF CoordinatorSafe
<1> QED
  BY <1>1, CoordinatorTypeCorrect, IntentsNeverStranded, IntentsNeverLost, PTL

-----------------------------------------------------------------------------
(***************************************************************************)
(* Proofs about SyncEvents, for any windows and bounds.  EventsSafe is     *)
(* inductive as it stands: the timers of a window that can run are         *)
(* exactly what its stream lacks.                                          *)
(***************************************************************************)
LEMMA EventsInitially == Events!EventBounds /\ Events!Init => Events!EventsSafe
BY DEF Events!EventBounds, Events!Init, Events!EventsSafe, Events!EventsTypeOK,
       Events!ChangesAreAnnounced, Events!NeverLeftAlone

(* The hub writes what is pending, or starts again without its streams. *)
LEMMA HubKeeps ==
    ASSUME Events!EventBounds, Events!EventsSafe, Events!Flush \/ Events!Restart
    PROVE  Events!EventsSafe'
<1> USE DEF Events!EventBounds, Events!EventsSafe, Events!EventsTypeOK, Events!Fails
<1> USE DEF Events!hub, Events!client, Events!page
<1>1. Events!EventsTypeOK'
  BY DEF Events!Flush, Events!Restart
<1>2. Events!ChangesAreAnnounced'
  BY DEF Events!ChangesAreAnnounced, Events!Flush, Events!Restart
<1>3. Events!NeverLeftAlone'
  BY DEF Events!NeverLeftAlone, Events!CanRun, Events!Flush, Events!Restart
<1> QED
  BY <1>1, <1>2, <1>3

(* A change is published, a stream is closed by the server or loses its    *)
(* connection.                                                             *)
LEMMA NetworkKeeps ==
    ASSUME Events!EventBounds, Events!EventsSafe, NEW w \in Windows,
           Events!Publish(w) \/ Events!ServerCloses(w) \/ Events!ConnectionDies(w)
    PROVE  Events!EventsSafe'
<1> USE DEF Events!EventBounds, Events!EventsSafe, Events!EventsTypeOK, Events!Fails
<1> USE DEF Events!hub, Events!client, Events!page
<1>1. Events!EventsTypeOK'
  <2>1. CASE Events!Publish(w)
    BY <2>1 DEF Events!Publish
  <2>2. CASE Events!ServerCloses(w)
    BY <2>2 DEF Events!ServerCloses
  <2>3. CASE Events!ConnectionDies(w)
    BY <2>3 DEF Events!ConnectionDies
  <2> QED
    BY <2>1, <2>2, <2>3
<1>2. Events!ChangesAreAnnounced'
  BY DEF Events!ChangesAreAnnounced, Events!Publish, Events!ServerCloses,
     Events!ConnectionDies
<1>3. Events!NeverLeftAlone'
  BY DEF Events!NeverLeftAlone, Events!CanRun, Events!Publish, Events!ServerCloses,
     Events!ConnectionDies
<1> QED
  BY <1>1, <1>2, <1>3

(* Whatever a window does, it keeps a stream, a synchronization or a timer *)
(* while it can run.                                                       *)
LEMMA WindowKeeps ==
    ASSUME Events!EventBounds, Events!EventsSafe, NEW w \in Windows,
           \/ Events!WindowWorks(w) \/ Events!StreamFails(w) \/ Events!NetworkEvent(w)
           \/ Events!Hide(w) \/ Events!Show(w) \/ Events!Unverify(w) \/ Events!Verify(w)
    PROVE  Events!EventsSafe'
<1> USE DEF Events!EventBounds, Events!EventsSafe, Events!EventsTypeOK, Events!Fails
<1> USE DEF Events!hub, Events!client, Events!page
<1> USE DEF Events!CanRun, Events!ChangesAreAnnounced, Events!NeverLeftAlone
<1>1. CASE Events!SynchronizeEnds(w)
  BY <1>1 DEF Events!SynchronizeEnds, Events!Opens
<1>2. CASE Events!CursorRead(w)
  BY <1>2 DEF Events!CursorRead
<1>3. CASE Events!StreamOpens(w)
  BY <1>3 DEF Events!StreamOpens
<1>4. CASE Events!StreamDone(w) \/ Events!StreamFails(w)
  BY <1>4 DEF Events!StreamDone, Events!StreamFails, Events!StreamEnds,
     Events!Disconnected
<1>5. CASE Events!FrameRead(w) \/ Events!SafetyTimer(w) \/ Events!Pull(w)
  BY <1>5 DEF Events!FrameRead, Events!SafetyTimer, Events!Pull
<1>6. CASE Events!FallbackTimer(w)
  BY <1>6 DEF Events!FallbackTimer, Events!Opens
<1>7. CASE Events!NetworkEvent(w)
  BY <1>7 DEF Events!NetworkEvent, Events!Reconnect
<1>8. CASE Events!Hide(w) \/ Events!Unverify(w)
  BY <1>8 DEF Events!Hide, Events!Unverify, Events!Disconnected
<1>9. CASE Events!Show(w) \/ Events!Verify(w)
  BY <1>9 DEF Events!Show, Events!Verify, Events!Reconnect
<1> QED
  BY <1>1, <1>2, <1>3, <1>4, <1>5, <1>6, <1>7, <1>8, <1>9 DEF Events!WindowWorks

LEMMA EventsIdle ==
    ASSUME Events!EventsSafe, UNCHANGED Events!vars PROVE Events!EventsSafe'
BY DEF Events!vars, Events!hub, Events!client, Events!page, Events!EventsSafe,
   Events!EventsTypeOK, Events!ChangesAreAnnounced, Events!NeverLeftAlone, Events!CanRun

LEMMA EventsInductive ==
    Events!EventBounds /\ Events!EventsSafe /\ [Events!Next]_Events!vars => Events!EventsSafe'
<1> SUFFICES ASSUME Events!EventBounds, Events!EventsSafe, [Events!Next]_Events!vars
             PROVE  Events!EventsSafe'
  OBVIOUS
<1>1. CASE UNCHANGED Events!vars
  BY <1>1, EventsIdle
<1>2. CASE Events!Flush \/ Events!Restart
  BY <1>2, HubKeeps
<1>3. ASSUME NEW w \in Windows,
             \/ Events!Publish(w) \/ Events!ServerCloses(w) \/ Events!ConnectionDies(w)
             \/ Events!StreamFails(w) \/ Events!NetworkEvent(w) \/ Events!WindowWorks(w)
             \/ Events!Hide(w) \/ Events!Show(w) \/ Events!Unverify(w) \/ Events!Verify(w)
      PROVE  Events!EventsSafe'
  BY <1>3, NetworkKeeps, WindowKeeps
<1> QED
  BY <1>1, <1>2, <1>3 DEF Events!Next

(* Of the steps of the parts only those of the events move their state. *)
LEMMA EventsPart == [RootNext]_everything => [Events!Next]_Events!vars
<1> SUFFICES ASSUME [RootNext]_everything PROVE Events!Next \/ UNCHANGED Events!vars
  OBVIOUS
<1>1. CASE EventsStep
  BY <1>1 DEF EventsStep
<1>2. CASE UNCHANGED eventsVars
  BY <1>2 DEF eventsVars, Events!vars, Events!hub, Events!client, Events!page
<1>3. CASE CoordinatorStep \/ SavesStep \/ QueueStep \/ UploadsStep
  BY <1>2, <1>3 DEF CoordinatorStep, SavesStep, QueueStep, UploadsStep, Only
<1> QED
  BY <1>1, <1>2, <1>3 DEF RootNext, everything

(* A change is announced to every window that listens, and a window that   *)
(* can run always has a stream, a synchronization or a timer, whatever     *)
(* fails and whenever it is hidden (syncEvents.ts, useSyncConnection.ts).  *)
THEOREM EventsAreSafe == RootSpec => []EventsSafe
<1>1. RootInit => Events!EventsSafe
  BY ProgressAssumption, EventsInitially DEF RootInit
<1>2. Events!EventsSafe /\ [RootNext]_everything => Events!EventsSafe'
  BY ProgressAssumption, EventsPart, EventsInductive
<1>3. Events!EventsSafe => EventsSafe
  BY DEF EventsSafe
<1> QED
  BY <1>1, <1>2, <1>3, PTL DEF RootSpec
===============================================================================
