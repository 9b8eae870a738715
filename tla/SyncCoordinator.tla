--------------------------- MODULE SyncCoordinator ---------------------------
(***************************************************************************)
(* When a browser window synchronizes: the SyncCoordinator class, which    *)
(* merges requests, delays them, runs one synchronization at a time and    *)
(* retries, and the page events that keep it from running and wake it.     *)
(*                                                                         *)
(* Delays are not modelled, only which timers are armed.  An execution is  *)
(* the promise returned by execute: it starts, and later succeeds or fails.*)
(***************************************************************************)
EXTENDS Integers

CONSTANTS
    MaxFailures     \* bound on failing executions

ASSUME FailuresAssumption == MaxFailures \in Nat

VARIABLES
    wanted,         \* pendingPull and pendingPush: the kinds still to be run
    running,
    current,        \* the intent of the running execution
    trailing,       \* trailingTimer is armed
    deadline,       \* deadlineTimer is armed
    retry,          \* retryTimer is armed
    runnable,       \* canRun(): session verified and page visible
    waking,         \* the page has become runnable and its event is to come
    disposed,
    owed,           \* history: kinds asked for and not served since
    fresh,          \* history: kinds asked for since the execution started
    failures

page == <<runnable, waking>>
vars == <<wanted, running, current, trailing, deadline, retry, page, disposed,
          owed, fresh, failures>>

Kinds == {"pull", "push"}

Init ==
    /\ wanted = {} /\ running = FALSE /\ current = {}
    /\ trailing = FALSE /\ deadline = FALSE /\ retry = FALSE
    /\ runnable = TRUE /\ waking = TRUE /\ disposed = FALSE
    /\ owed = {} /\ fresh = {} /\ failures = 0

-----------------------------------------------------------------------------
Asked(kinds) ==
    /\ owed' = owed \cup kinds
    /\ fresh' = fresh \cup kinds

(* Fault: a request arms no deadline, so that others can postpone it. *)
ArmsDeadlineFault == FALSE

ArmsDeadline == TRUE

(* request(): during an execution and while the page cannot run, only the  *)
(* flags are set.  Each request restarts the trailing timer, none moves    *)
(* the deadline back.                                                      *)
Request(kinds) ==
    LET arms == ~running /\ runnable IN
    /\ ~disposed
    /\ wanted' = wanted \cup kinds
    /\ trailing' = (trailing \/ arms)
    /\ deadline' = (deadline \/ (arms /\ ArmsDeadline))
    /\ Asked(kinds)
    /\ UNCHANGED <<running, current, retry, page, disposed, failures>>

CancelTimers == trailing' = FALSE /\ deadline' = FALSE /\ retry' = FALSE

CancelForRun == CancelTimers

(* drain(): run what is wanted, or nothing.                                *)
Starts(kinds) ==
    /\ running' = (kinds # {})
    /\ current' = kinds
    /\ wanted' = {}
    /\ CancelForRun

DrainTurnedAway == disposed \/ running \/ ~runnable

(* runNow(): by the page events with both kinds, by resume() with none.    *)
RunNow(kinds) ==
    /\ ~disposed
    /\ owed' = owed \cup kinds
    /\ \/ /\ DrainTurnedAway
          /\ wanted' = wanted \cup kinds
          /\ CancelTimers
          /\ fresh' = fresh \cup kinds
          /\ UNCHANGED <<running, current>>
       \/ /\ ~DrainTurnedAway
          /\ Starts(wanted \cup kinds)
          /\ fresh' = {}

Synchronize(kinds) == RunNow(kinds) /\ UNCHANGED <<page, disposed, failures>>

(* A timer fires and drains; the others stay armed when drain is turned    *)
(* away.                                                                   *)
Fires(fired) ==
    \/ /\ DrainTurnedAway
       /\ fired
       /\ UNCHANGED <<wanted, running, current, fresh>>
    \/ /\ ~DrainTurnedAway
       /\ Starts(wanted)
       /\ fresh' = {}

TrailingFires ==
    /\ trailing
    /\ Fires(trailing' = FALSE /\ UNCHANGED <<deadline, retry>>)
    /\ UNCHANGED <<page, disposed, owed, failures>>

DeadlineFires ==
    /\ deadline
    /\ Fires(deadline' = FALSE /\ UNCHANGED <<trailing, retry>>)
    /\ UNCHANGED <<page, disposed, owed, failures>>

RetryFires ==
    /\ retry
    /\ Fires(retry' = FALSE /\ UNCHANGED <<trailing, deadline>>)
    /\ UNCHANGED <<page, disposed, owed, failures>>

GoesOn == ~disposed /\ runnable /\ wanted # {}

(* The execution succeeds; requests that came meanwhile are run next.      *)
Succeed ==
    /\ running
    /\ owed' = (owed \ current) \cup fresh
    /\ \/ /\ GoesOn
          /\ current' = wanted
          /\ wanted' = {}
          /\ fresh' = {}
          /\ UNCHANGED running
       \/ /\ ~GoesOn
          /\ running' = FALSE
          /\ current' = {}
          /\ UNCHANGED <<wanted, fresh>>
    /\ UNCHANGED <<trailing, deadline, retry, page, disposed, failures>>

(* Fault: the failed intent replaces what was requested meanwhile. *)
GivenBackFault == current

GivenBack == wanted \cup current

(* The execution fails; its intent is given back and a retry is armed.     *)
Fail ==
    /\ running
    /\ failures < MaxFailures
    /\ failures' = failures + 1
    /\ running' = FALSE
    /\ current' = {}
    /\ wanted' = IF disposed THEN wanted ELSE GivenBack
    /\ retry' = (retry \/ ~disposed)
    /\ UNCHANGED <<trailing, deadline, page, disposed, owed, fresh>>

Dispose ==
    /\ ~disposed
    /\ disposed' = TRUE
    /\ CancelTimers
    /\ wanted' = {}
    /\ UNCHANGED <<running, current, page, owed, fresh, failures>>

-----------------------------------------------------------------------------
(***************************************************************************)
(* The page.  Becoming visible, or verified, dispatches an event that      *)
(* synchronizes both ways; hiding the page before it arrives voids it.     *)
(***************************************************************************)
coordinator == <<wanted, running, current, trailing, deadline, retry, disposed,
                 owed, fresh, failures>>

Hide ==
    /\ runnable
    /\ runnable' = FALSE
    /\ waking' = FALSE
    /\ UNCHANGED coordinator

Show ==
    /\ ~runnable
    /\ runnable' = TRUE
    /\ waking' = TRUE
    /\ UNCHANGED coordinator

Wake ==
    /\ waking
    /\ waking' = FALSE
    /\ RunNow(Kinds)
    /\ UNCHANGED <<runnable, disposed, failures>>

-----------------------------------------------------------------------------
Next ==
    \/ \E kinds \in (SUBSET Kinds) \ {{}} : Request(kinds) \/ Synchronize(kinds)
    \/ Synchronize({})
    \/ TrailingFires \/ DeadlineFires \/ RetryFires
    \/ Succeed \/ Fail \/ Dispose
    \/ Hide \/ Show \/ Wake

Spec == Init /\ [][Next]_vars

(* Timers that nothing restarts fire, events arrive, promises settle.  The *)
(* trailing timer is restarted by every request, so it promises nothing.   *)
Fairness ==
    /\ WF_vars(DeadlineFires) /\ WF_vars(RetryFires) /\ WF_vars(Wake)
    /\ WF_vars(Succeed \/ Fail)

FairSpec == Spec /\ Fairness

-----------------------------------------------------------------------------
KindsOK ==
    /\ wanted \subseteq Kinds /\ current \subseteq Kinds
    /\ owed \subseteq Kinds /\ fresh \subseteq Kinds

FlagsOK ==
    /\ running \in BOOLEAN /\ disposed \in BOOLEAN
    /\ trailing \in BOOLEAN /\ deadline \in BOOLEAN /\ retry \in BOOLEAN
    /\ runnable \in BOOLEAN /\ waking \in BOOLEAN
    /\ failures \in 0 .. MaxFailures

RunsAlone == running => ~trailing /\ ~deadline /\ ~retry

RunsSomething == running <=> current # {}

(* Every field has its type; while an execution runs no timer is armed,    *)
(* so that no second one waits behind it, and only then is there a current *)
(* intent.                                                                 *)
CoordinatorTypeOK == KindsOK /\ FlagsOK /\ RunsAlone /\ RunsSomething

(* A pending request is never stranded: something that is bound to happen  *)
(* will drain it -- the running execution, a timer, or the page event that *)
(* is on its way or comes when the page can run again (syncCoordinator.ts  *)
(* 40-63 and 95-122, useSyncConnection.ts 104-122).                        *)
NoStrandedIntent ==
    ~disposed /\ wanted # {} =>
        running \/ deadline \/ retry \/ waking \/ ~runnable

(* No kind that was asked for is forgotten: until an execution that began  *)
(* after the request has succeeded, it is pending or running, through      *)
(* merges, failures and retries.                                           *)
NoLostIntent == ~disposed => owed \subseteq wanted \cup current

(* A pending request gets an execution, and gets one again when that one   *)
(* fails, unless the page stops being able to run or the workspace is      *)
(* closed; however often others ask.                                       *)
IntentsServed ==
    \A kind \in Kinds :
        kind \in wanted ~> (kind \in current \/ ~runnable \/ disposed)

(* What the coordinator is asked for is neither stranded without a timer or a  *)
(* run, nor lost by one that fails, is stopped or is joined.                   *)
CoordinatorSafe == CoordinatorTypeOK /\ NoStrandedIntent /\ NoLostIntent
=============================================================================
