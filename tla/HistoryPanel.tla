----------------------------- MODULE HistoryPanel -----------------------------
(***************************************************************************)
(* The history of the notes as one browser page keeps and shows it:        *)
(* useVaultHistory.ts and useVaultHistoryActions.ts, with the navigation   *)
(* of useVaultTree.ts.  An edit opens a session of its note, with one      *)
(* timer for its end and one for the checkpoints in between; checkpoints,  *)
(* lists and previews are made across awaits, while the user goes on to    *)
(* edit, to another note, or to restore a version.                         *)
(* The upload of the versions is in HistorySync.                           *)
(***************************************************************************)
EXTENDS FiniteSets, Naturals

CONSTANTS Notes,
          MaxEdits,   \* edits
          Slots,      \* checkpoints being made at once
          Timers,     \* timers for the checkpoints in between
          Panel,      \* the history tab is open
          Overlaps,   \* what the user does while something of another note is under
                      \* way: "create", "rename", "show"; and "settings"
          None

PanelAssumption ==
  /\ MaxEdits \in Nat
  /\ Timers \subseteq Nat \ {0}
  /\ Overlaps \subseteq {"create", "rename", "show", "settings"}
  /\ Panel \in BOOLEAN

VARIABLES active,     \* activeDocument
          body,       \* the notes as they are: content and the note it is from
          kept,       \* the versions there are
          signature,  \* historyLastSignature
          paused,     \* historyQuotaPaused
          enabled,    \* historySettings.enabled
          session,    \* the note of historySession, if it is active
          idle,       \* historyIdleTimer runs
          armed,      \* timers that run for checkpoints in between
          periodic,   \* historyPeriodicTimer, or 0
          tasks,      \* [Slots -> the checkpoint that is being made, or None]
          going,      \* selectDocument: where to and how far, or None
          loads,      \* notes whose list is being read
          items,      \* historyItems
          picks,      \* versions that are being opened
          preview,    \* historyPreview
          restore,    \* restoreHistoryAsCurrent, or None
          owed,       \* history: notes edited in a session since their last checkpoint
          edits       \* history: number of edits

timers == <<idle, armed, periodic>>
store == <<kept, signature, paused>>
shown == <<loads, items, picks, preview>>
vars == <<active, body, store, enabled, session, timers, tasks, going, shown, restore, owed, edits>>

Content == [of : Notes, v : 0..MaxEdits]
Version == [note : Notes, content : Content]
Now(n) == [note |-> n, content |-> body[n]]
First(n) == [of |-> n, v |-> 0]
Of(n, versions) == {v \in versions : v.note = n}

Init ==
  /\ active \in Notes
  /\ body = [n \in Notes |-> First(n)]
  /\ kept \in {{}, {[note |-> n, content |-> First(n)] : n \in Notes}}
  /\ signature = [n \in Notes |-> None] /\ paused = FALSE /\ enabled = TRUE
  /\ session = None /\ idle = FALSE /\ armed = {} /\ periodic = 0
  /\ tasks = [s \in Slots |-> None]
  /\ going = None /\ loads = {} /\ items = {} /\ picks = {} /\ preview = None
  /\ restore = None /\ owed = {} /\ edits = 0

(***************************************************************************)
(* Checkpoints: saveHistorySnapshot                                        *)
(***************************************************************************)
Start(note, forced, content, purpose) ==
  \E s \in Slots :
    /\ tasks[s] = None
    /\ tasks' = [tasks EXCEPT ![s] = [note |-> note, forced |-> forced, content |-> content, purpose |-> purpose]]

(* What was last captured, by this page or, when it does not know, before. *)
LastSeen(n) ==
  IF signature[n] # None THEN signature[n]
  ELSE IF Of(n, kept) # {} THEN (CHOOSE v \in Of(n, kept) : TRUE).content ELSE None

(* The timer for the next one. *)
Arm(timer) == armed' = armed \cup {timer} /\ periodic' = timer
Rearm ==
  IF session # None /\ ~ paused' /\ Timers \ armed # {}
    THEN \E timer \in Timers \ armed : Arm(timer)
    ELSE UNCHANGED <<armed, periodic>>

(* A task is over: who waits for it goes on.                               *)
Over(s, saved) ==
  LET purpose == tasks[s].purpose
  IN /\ tasks' = [tasks EXCEPT ![s] = None]
     /\ IF purpose = "interval" THEN Rearm ELSE UNCHANGED <<armed, periodic>>
     /\ going' = IF purpose = "going" THEN [going EXCEPT !.step = "flush"] ELSE going
     /\ restore' = IF purpose # "restore" THEN restore
                   ELSE IF saved THEN [restore EXCEPT !.step = "persist"] ELSE None

(* captureHistoryAfterLocalSave: the note is saved, then read; what did    *)
(* not change is not captured again.                                       *)
Capture(s) ==
  /\ tasks[s] # None /\ tasks[s].content = None
  /\ LET n == tasks[s].note
     IN /\ signature' = [signature EXCEPT ![n] = LastSeen(n)]
        /\ IF LastSeen(n) = body[n] /\ ~ tasks[s].forced
             THEN /\ owed' = owed \ {n}
                  /\ UNCHANGED <<kept, paused>>
                  /\ Over(s, FALSE)
             ELSE /\ tasks' = [tasks EXCEPT ![s].content = body[n]]
                  /\ UNCHANGED <<kept, paused, owed, armed, periodic, going, restore>>
  /\ UNCHANGED <<active, body, enabled, session, idle, shown, edits>>

(* createSnapshot: sealed and put down, if the local queue has room.       *)
Created(s) ==
  LET t == tasks[s]
      version == [note |-> t.note, content |-> t.content]
  IN /\ kept' = kept \cup {version}
     /\ signature' = [signature EXCEPT ![t.note] = t.content]
     /\ items' = IF Panel /\ active = t.note THEN items \cup {version} ELSE items
     /\ owed' = IF body[t.note] = t.content THEN owed \ {t.note} ELSE owed
     /\ UNCHANGED paused

NoRoom(s) ==
  /\ paused' = (paused \/ ~ tasks[s].forced)
  /\ owed' = IF paused' THEN {} ELSE owed
  /\ UNCHANGED <<kept, signature, items>>

Create(s) ==
  /\ tasks[s] # None /\ tasks[s].content # None
  /\ (Created(s) /\ Over(s, TRUE)) \/ (NoRoom(s) /\ Over(s, FALSE))
  /\ UNCHANGED <<active, body, enabled, session, idle, loads, picks, preview, edits>>

(* pushHistoryPending: something of the queue is uploaded, captures go on. *)
Uploaded ==
  /\ paused /\ paused' = FALSE
  /\ UNCHANGED <<active, body, kept, signature, enabled, session, timers, tasks, going, shown, restore, owed, edits>>

(* saveCurrentHistory; nothing else is captured meanwhile, as a bound. *)
SaveNow ==
  /\ preview = None /\ \A s \in Slots : tasks[s] = None
  /\ Start(active, TRUE, None, "none")
  /\ UNCHANGED <<active, body, store, enabled, session, timers, going, shown, restore, owed, edits>>

(***************************************************************************)
(* Sessions                                                                *)
(***************************************************************************)
ClearTimers == idle' = FALSE /\ periodic' = 0 /\ armed' = armed \ {periodic}

(* finishHistorySession. *)
Finish(purpose) ==
  LET captures == session # None /\ enabled /\ ~ paused
  IN /\ ClearTimers
     /\ session' = None
     /\ IF captures THEN Start(session, FALSE, None, purpose) ELSE UNCHANGED tasks

(* scheduleHistoryEdit: the first edit of a session captures what was      *)
(* there, unless that was done within the interval; each edit puts off the *)
(* end of the session.                                                     *)
Schedule(n, before) ==
  IF ~ enabled \/ paused
    THEN /\ owed' = owed \ {n}
         /\ UNCHANGED <<session, timers, tasks>>
    ELSE /\ owed' = owed \cup {n}
         /\ session' = n /\ idle' = TRUE
         /\ LET fresh == session # n
                left == IF fresh THEN armed \ {periodic} ELSE armed
            IN /\ IF fresh \/ periodic = 0
                    THEN \E timer \in Timers \ left : periodic' = timer /\ armed' = left \cup {timer}
                    ELSE UNCHANGED <<armed, periodic>>
               /\ \/ UNCHANGED tasks
                  \/ /\ fresh /\ signature[n] # before
                     /\ Start(n, FALSE, before, "none")

Busy == going # None \/ restore # None

Changes(n) ==
  /\ edits < MaxEdits /\ edits' = edits + 1
  /\ body' = [body EXCEPT ![n] = [of |-> n, v |-> edits']]
  /\ Schedule(n, body[n])

(* patchDocument: the editor is read-only while a version is shown.        *)
Type ==
  /\ preview = None /\ ~ Busy
  /\ Changes(active)
  /\ UNCHANGED <<active, store, enabled, going, shown, restore>>

(* A title changed in the tree, which may be that of another note.         *)
Rename ==
  /\ ~ Busy
  /\ \E n \in Notes : (n = active \/ "rename" \in Overlaps) /\ Changes(n)
  /\ UNCHANGED <<active, store, enabled, going, shown, restore>>

(* Two minutes without an edit, or the page goes to the background.        *)
IdleFires ==
  /\ idle
  /\ Finish("none")
  /\ UNCHANGED <<active, body, store, enabled, going, shown, restore, owed, edits>>

(* The timer forgets the one that is noted, which may be another.          *)
PeriodicFires ==
  /\ \E timer \in armed :
       /\ armed' = armed \ {timer} /\ periodic' = 0
       /\ IF session # None /\ ~ paused
            THEN Start(session, FALSE, None, "interval")
            ELSE UNCHANGED tasks
  /\ UNCHANGED <<active, body, store, enabled, session, idle, going, shown, restore, owed, edits>>

(* The account's setting, read from the server. *)
Enable ==
  /\ "settings" \in Overlaps
  /\ enabled' = ~ enabled
  /\ IF enabled THEN ClearTimers /\ session' = None /\ owed' = {}
     ELSE UNCHANGED <<timers, session, owed>>
  /\ paused' = FALSE
  /\ UNCHANGED <<active, body, kept, signature, tasks, going, shown, restore, edits>>

(***************************************************************************)
(* Going to another note                                                   *)
(***************************************************************************)
Navigate ==
  /\ ~ Busy /\ ((loads \cup picks # {}) => "show" \in Overlaps)
  /\ \E to \in Notes \ {active} :
       /\ Finish("going")
       /\ going' = [to |-> to, step |-> IF tasks' = tasks THEN "flush" ELSE "capture"]
  /\ UNCHANGED <<active, body, store, enabled, shown, restore, owed, edits>>

(* The effect of another active note: nothing of the note before stays.    *)
Activate(to) ==
  /\ active' = to
  /\ preview' = None /\ items' = {} /\ loads' = loads \cup {n \in {to} : Panel}
  /\ session' = None /\ ClearTimers
  /\ UNCHANGED <<body, store, enabled, tasks, picks, restore, owed, edits>>

Arrive ==
  /\ going # None /\ going.step = "flush"
  /\ Activate(going.to) /\ going' = None

(* createDocument makes its note the active one at once; here, one of the  *)
(* others.                                                                 *)
CreateNote ==
  /\ "create" \in Overlaps /\ ~ Busy /\ loads \cup picks = {}
  /\ \E to \in Notes \ {active} : Activate(to)
  /\ UNCHANGED going

(***************************************************************************)
(* Lists, previews and restoring                                           *)
(***************************************************************************)
UnchangedWork == UNCHANGED <<active, store, enabled, session, timers, tasks, going, owed, edits>>

OpenList ==
  /\ Panel /\ active \notin loads /\ items = {}
  /\ loads' = loads \cup {active}
  /\ UNCHANGED <<body, items, picks, preview, restore>> /\ UnchangedWork

(* loadHistory. *)
Loaded ==
  /\ \E n \in loads : loads' = loads \ {n} /\ items' = Of(n, kept)
  /\ UNCHANGED <<body, picks, preview, restore>> /\ UnchangedWork

(* selectHistorySnapshot: the version is fetched and opened, or fails.     *)
Pick ==
  /\ restore = None
  /\ picks = {} /\ \E v \in items : picks' = {v}
  /\ UNCHANGED <<body, loads, items, preview, restore>> /\ UnchangedWork

Picked ==
  /\ \E v \in picks : picks' = picks \ {v} /\ preview' \in {v, preview}
  /\ UNCHANGED <<body, loads, items, restore>> /\ UnchangedWork

ExitPreview ==
  /\ preview # None /\ ~ Busy
  /\ preview' = None
  /\ UNCHANGED <<body, loads, items, picks, restore>> /\ UnchangedWork

(* restoreHistoryAsCurrent: what is there is captured first.               *)
Restore ==
  /\ preview # None /\ ~ Busy
  /\ restore' = [note |-> active, content |-> preview.content, step |-> "checkpoint"]
  /\ Start(active, TRUE, None, "restore")
  /\ UNCHANGED <<active, body, store, enabled, session, timers, going, shown, owed, edits>>

Restored ==
  /\ restore # None /\ restore.step = "persist"
  /\ body' = [body EXCEPT ![restore.note] = restore.content]
  /\ owed' = owed \ {restore.note}
  /\ preview' = None /\ restore' = None
  /\ UNCHANGED <<active, store, enabled, session, timers, tasks, going, loads, items, picks, edits>>

Next == \/ \E s \in Slots : Capture(s) \/ Create(s)
        \/ Uploaded \/ SaveNow \/ Type \/ Rename \/ IdleFires \/ PeriodicFires \/ Enable
        \/ Navigate \/ Arrive \/ CreateNote
        \/ OpenList \/ Loaded \/ Pick \/ Picked \/ ExitPreview \/ Restore \/ Restored

Spec == Init /\ [][Next]_vars

(* The disk and the server answer, timers fire. *)
FairSpec ==
  /\ Spec
  /\ \A s \in Slots : WF_vars(Capture(s)) /\ WF_vars(Create(s))
  /\ WF_vars(IdleFires) /\ WF_vars(Arrive) /\ WF_vars(Restored)

(***************************************************************************)
(* Properties                                                              *)
(***************************************************************************)
TypeOK ==
  /\ active \in Notes /\ body \in [Notes -> Content]
  /\ kept \subseteq Version /\ signature \in [Notes -> Content \cup {None}]
  /\ session \in Notes \cup {None}
  /\ armed \subseteq Timers /\ periodic \in armed \cup {0}
  /\ idle => session # None
  /\ loads \subseteq Notes /\ items \cup picks \subseteq kept /\ preview \in kept \cup {None}
  /\ going # None => (going.step = "capture" <=> \E s \in Slots : tasks[s] # None /\ tasks[s].purpose = "going")
  /\ restore # None => (restore.step = "checkpoint" <=> \E s \in Slots : tasks[s] # None /\ tasks[s].purpose = "restore")

(* When a session is over and its checkpoints are made, the note as it was *)
(* left is among its versions (docs/system-design.md:178: the checkpoints  *)
(* of edit sessions and idle times are kept).                              *)
SessionCovered ==
  (session = None /\ going = None /\ \A s \in Slots : tasks[s] = None)
    => \A n \in owed : Now(n) \in kept

(* A note is overwritten by one of its versions only after what it says    *)
(* has become a version (docs/system-design.md:180).                       *)
CheckpointFirst ==
  [][ \A n \in Notes :
        (restore # None /\ restore.note = n /\ restore' = None /\ body'[n] # body[n]) => Now(n) \in kept ]_vars

(* A note is restored to a version of its own (i18n: "Restore current      *)
(* note", in the list named "Note history").                               *)
OwnVersions == \A n \in Notes : body[n].of = n

(* The checkpoints of a session come at the interval that is set           *)
(* (docs/system-design.md:178): one timer runs at most.                    *)
OneTimer == Cardinality(armed) <= 1

(* Going to another note, and restoring, come to an end. *)
RequestsEnd == (going # None \/ restore # None) ~> (going = None /\ restore = None)
=============================================================================
