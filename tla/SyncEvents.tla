------------------------------ MODULE SyncEvents ------------------------------
(* How a change reaches the other windows of an account: the event hub of the   *)
(* server (syncEvents.ts), its stream (GET sync/events) and the connection a    *)
(* window keeps to it (useSyncConnection.ts), with the polling it falls back to.*)
(* A window stands for its clientId; a closed connection and the next one of    *)
(* the same window are told apart by when they are open. What a pull does is    *)
(* SyncFeed's and VaultSync's subject: here it learns everything published.     *)
EXTENDS Naturals, FiniteSets

CONSTANTS Windows,
          MaxChanges,   \* changes published
          MaxFaults     \* connections lost, requests failed, restarts

EventBounds == MaxChanges \in Nat /\ MaxFaults \in Nat

VARIABLES subscribers,  \* the windows with a stream in the hub
          targets,      \* pending: whom the armed flush timer will write to
          unread,       \* frames written to a stream and not read
          source,       \* the window's stream: "none", "reading", "requested", "open"
          lost,         \* open streams whose connection is gone without a trace
          syncing,      \* windows that reconnect: synchronize() is under way
          fallback,     \* windows with a polling timer armed
          pull,         \* windows whose coordinator was asked to pull
          visible, verified,  \* canRun: page visible, session verified
          missing,      \* windows that have not pulled another one's change
          changes, faults

hub == <<subscribers, targets>>
client == <<source, syncing, fallback, pull>>
page == <<visible, verified>>
vars == <<hub, unread, client, lost, page, missing, changes, faults>>

CanRun(w) == w \in visible /\ w \in verified

Init == /\ subscribers = {} /\ targets = {} /\ unread = {}
        /\ source = [w \in Windows |-> "none"] /\ lost = {}
        /\ syncing = Windows /\ fallback = {} /\ pull = {}
        /\ visible = Windows /\ verified = Windows
        /\ missing = {} /\ changes = 0 /\ faults = 0

Fails == faults < MaxFaults /\ faults' = faults + 1

-----------------------------------------------------------------------------
(* A change by window w is committed and published in one handler: every other *)
(* subscriber is a target of the pending notification, new or already waiting. *)
Publish(w) ==
  /\ changes < MaxChanges
  /\ changes' = changes + 1
  /\ missing' = missing \cup (Windows \ {w})
  /\ targets' = targets \cup (subscribers \ {w})
  /\ UNCHANGED <<subscribers, unread, client, lost, page, faults>>

(* flush, 50 ms after the first of the notifications it carries. *)
Flush == /\ targets # {}
         /\ unread' = unread \cup ((targets \cap subscribers) \ lost)
         /\ targets' = {}
         /\ UNCHANGED <<subscribers, client, lost, page, missing, changes, faults>>

(* The server ends streams: a revoked session or endpoint, an expired session  *)
(* at its heartbeat, the account's credentials replaced.                       *)
ServerCloses(w) == /\ w \in subscribers
                   /\ Fails
                   /\ subscribers' = subscribers \ {w}
                   /\ UNCHANGED <<targets, unread, client, lost, page, missing, changes>>

(* closeAll when the server stops; pending notifications are dropped. *)
Restart == /\ Fails
           /\ subscribers' = {} /\ targets' = {}
           /\ UNCHANGED <<unread, client, lost, page, missing, changes>>

(* The connection breaks and neither side is told. *)
ConnectionDies(w) == /\ source[w] = "open" /\ w \notin lost
                     /\ Fails
                     /\ lost' = lost \cup {w} /\ unread' = unread \ {w}
                     /\ UNCHANGED <<hub, client, page, missing, changes>>

-----------------------------------------------------------------------------
(* The stream of a window is over for both sides. *)
Disconnected(w) == /\ source' = [source EXCEPT ![w] = "none"]
                   /\ subscribers' = subscribers \ {w}
                   /\ unread' = unread \ {w}
                   /\ lost' = lost \ {w}

(* reconnect(): synchronize, and open the stream when that ended. *)
Reconnect(w) == /\ syncing' = syncing \cup {w}
                /\ fallback' = fallback \ {w}

(* openEvents reads the cursor unless a stream exists. *)
Opens(w) == IF CanRun(w) /\ source[w] = "none" THEN [source EXCEPT ![w] = "reading"] ELSE source

SynchronizeEnds(w) ==
  /\ w \in syncing
  /\ syncing' = syncing \ {w}
  /\ \/ missing' = missing \ {w} /\ CanRun(w) /\ UNCHANGED faults
     \/ Fails /\ UNCHANGED missing
     \/ ~CanRun(w) /\ UNCHANGED <<missing, faults>>
  /\ source' = Opens(w)
  /\ UNCHANGED <<hub, unread, lost, fallback, pull, page, changes>>

CursorRead(w) ==
  /\ source[w] = "reading"
  /\ source' = [source EXCEPT ![w] = IF CanRun(w) THEN "requested" ELSE "none"]
  /\ UNCHANGED <<hub, unread, lost, syncing, fallback, pull, page, missing, changes, faults>>

(* The server subscribes the stream and, in the same piece of code, tells it   *)
(* at once when its head is past the cursor the window sent.                   *)
StreamOpens(w) ==
  /\ source[w] = "requested"
  /\ source' = [source EXCEPT ![w] = "open"]
  /\ subscribers' = subscribers \cup {w}
  /\ unread' = IF w \in missing THEN unread \cup {w} ELSE unread
  /\ fallback' = fallback \ {w}
  /\ UNCHANGED <<targets, lost, syncing, pull, page, missing, changes, faults>>

(* Fault: only a stream that was never opened falls back to polling. *)
StreamEndsFault(w) ==
  /\ fallback' = IF CanRun(w) /\ source[w] = "requested" THEN fallback \cup {w} ELSE fallback
  /\ UNCHANGED <<syncing, pull>>

(* The finally block: a stream that could not be opened or ended is followed by*)
(* the polling timer.                                                          *)
StreamEnds(w) == /\ fallback' = IF CanRun(w) THEN fallback \cup {w} ELSE fallback
                 /\ UNCHANGED <<syncing, pull>>

StreamFails(w) == /\ source[w] = "requested" \/ w \in lost
                  /\ Fails
                  /\ StreamEnds(w) /\ Disconnected(w)
                  /\ UNCHANGED <<targets, page, missing, changes>>

StreamDone(w) == /\ source[w] = "open" /\ w \notin subscribers /\ w \notin unread
                 /\ StreamEnds(w) /\ Disconnected(w)
                 /\ UNCHANGED <<targets, page, missing, changes, faults>>

(* A frame is read: the coordinator is asked for a pull. *)
FrameRead(w) ==
  /\ source[w] = "open" /\ w \in unread
  /\ unread' = unread \ {w}
  /\ pull' = pull \cup {w}
  /\ UNCHANGED <<hub, source, lost, syncing, fallback, page, missing, changes, faults>>

(* Fault: an open stream is trusted. *)
SafetyTimerFault(w) == FALSE /\ UNCHANGED vars

(* Every five minutes a window with a stream pulls anyway. *)
SafetyTimer(w) ==
  /\ source[w] # "none" /\ CanRun(w)
  /\ source[w] # "reading" /\ w \notin pull
  /\ pull' = pull \cup {w}
  /\ UNCHANGED <<hub, unread, source, lost, syncing, fallback, page, missing, changes, faults>>

(* The polling timer: pull, and without a stream try to open one and poll on. *)
FallbackTimer(w) ==
  /\ w \in fallback /\ CanRun(w)
  /\ pull' = pull \cup {w}
  /\ source' = Opens(w)
  /\ fallback' = IF source[w] \in {"none", "reading"} THEN fallback ELSE fallback \ {w}
  /\ UNCHANGED <<hub, unread, lost, syncing, page, missing, changes, faults>>

(* The coordinator pulls; it retries what fails (SyncCoordinator). *)
Pull(w) == /\ w \in pull /\ CanRun(w)
           /\ pull' = pull \ {w}
           /\ missing' = missing \ {w}
           /\ UNCHANGED <<hub, unread, source, lost, syncing, fallback, page, changes, faults>>

(* A browser network event prompts a synchronization. *)
NetworkEvent(w) == /\ CanRun(w)
                   /\ Fails
                   /\ Reconnect(w)
                   /\ UNCHANGED <<hub, unread, source, lost, pull, page, missing, changes>>

(* Hidden: the stream is aborted and no timer is left. A cursor being read goes
   unnoticed, and opens a stream if the page is visible again by then. *)
Hide(w) == /\ w \in visible
           /\ visible' = visible \ {w}
           /\ Disconnected(w)
           /\ fallback' = fallback \ {w}
           /\ UNCHANGED <<targets, syncing, pull, verified, missing, changes, faults>>

Show(w) == /\ w \notin visible
           /\ Fails
           /\ visible' = visible \cup {w}
           /\ IF w \in verified THEN Reconnect(w) ELSE UNCHANGED <<syncing, fallback>>
           /\ UNCHANGED <<hub, unread, source, lost, pull, verified, missing, changes>>

(* The session is found invalid, or verified again: the effect stops the       *)
(* connection and starts over.                                                 *)
Unverify(w) == /\ w \in verified
               /\ verified' = verified \ {w}
               /\ Disconnected(w)
               /\ fallback' = fallback \ {w}
               /\ syncing' = syncing \ {w}
               /\ UNCHANGED <<targets, pull, visible, missing, changes, faults>>

Verify(w) == /\ w \notin verified
             /\ Fails
             /\ verified' = verified \cup {w}
             /\ IF w \in visible THEN Reconnect(w) ELSE UNCHANGED <<syncing, fallback>>
             /\ UNCHANGED <<hub, unread, source, lost, pull, visible, missing, changes>>

WindowWorks(w) == \/ SynchronizeEnds(w) \/ CursorRead(w) \/ StreamOpens(w) \/ StreamDone(w)
                  \/ FrameRead(w) \/ SafetyTimer(w) \/ FallbackTimer(w) \/ Pull(w)

Next == \/ Flush \/ Restart
        \/ \E w \in Windows :
             \/ Publish(w) \/ ServerCloses(w) \/ ConnectionDies(w) \/ StreamFails(w)
             \/ NetworkEvent(w) \/ Hide(w) \/ Show(w) \/ Unverify(w) \/ Verify(w)
             \/ WindowWorks(w)

Spec == Init /\ [][Next]_vars

(* Timers fire, and while the network lets it a request is answered. *)
FairSpec == /\ Spec /\ WF_vars(Flush)
            /\ \A w \in Windows : /\ WF_vars(SynchronizeEnds(w)) /\ WF_vars(CursorRead(w))
                                  /\ WF_vars(StreamOpens(w)) /\ WF_vars(StreamDone(w))
                                  /\ WF_vars(FrameRead(w)) /\ WF_vars(SafetyTimer(w))
                                  /\ WF_vars(FallbackTimer(w)) /\ WF_vars(Pull(w))

-----------------------------------------------------------------------------
EventsTypeOK ==
  /\ {subscribers, targets, unread, lost, syncing, fallback, pull, visible, verified, missing}
       \subseteq SUBSET Windows
  /\ source \in [Windows -> {"none", "reading", "requested", "open"}]
  /\ changes \in 0..MaxChanges /\ faults \in 0..MaxFaults
  /\ \A w \in subscribers \cup unread \cup lost : source[w] = "open"

(* No subscribed window can miss a change for good: while its stream works,    *)
(* another window's change it has not pulled is on its way to it, as a pending *)
(* notification, an unread frame or a pull already asked for. Windows that     *)
(* subscribe between a change and its coalesced notification included.         *)
ChangesAreAnnounced ==
  \A w \in subscribers \ lost : w \in missing => w \in targets \cup unread \cup pull

(* A visible, verified window is never left to itself: it has a stream, or a   *)
(* polling timer, or a reconnection under way.                                 *)
NeverLeftAlone ==
  \A w \in Windows : CanRun(w) => source[w] # "none" \/ w \in fallback \cup syncing

(* Every change is pulled by every window that stays visible and signed in,    *)
(* though streams break unnoticed and requests fail.                           *)
ChangesArrive ==
  \A w \in Windows : [](w \in missing => <>(w \notin missing \/ ~CanRun(w)))

(* The invariant that is checked. *)
EventsSafe == EventsTypeOK /\ ChangesAreAnnounced /\ NeverLeftAlone
=============================================================================
