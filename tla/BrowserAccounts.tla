---------------------------- MODULE BrowserAccounts ----------------------------
(* The accounts of one browser and its tabs: browserCoordinator.ts keeps which *)
(* account is selected and the generation of that choice, useSessionController *)
(* changes it under one lock of the browser and waits for every tab's          *)
(* workspace to save and close, and each tab leaves a workspace that is no     *)
(* longer the selected one. A tab may disappear at any step of a change; its   *)
(* locks end with it and the selection stays as it was written.                *)
EXTENDS Naturals, FiniteSets

CONSTANTS Users, Tabs,
          MaxGenerations, \* a change begins while two more choices are left
          MaxCrashes,     \* tabs that disappear in the middle of a change
          MaxFailures     \* local saves that fail

NoUser == "nobody"
BrowserBounds ==
  {MaxGenerations, MaxCrashes, MaxFailures} \subseteq Nat /\ NoUser \notin Users

VARIABLES selection,  \* the meta row: user, generation, closing
          generation, \* the last generation given out
          trusted,    \* accounts with a device credential
          stored,     \* <<u, t>>: what tab t wrote for u is in the local database
          forgotten,  \* accounts signed out and not opened since
          tab,        \* tab[t]: its workspace and whether it has unsaved work
          action,     \* the change that holds the browser's lock
          crashes, failures

vars == <<selection, generation, trusted, stored, forgotten, tab, action, crashes, failures>>

Idle == [kind |-> "none"]
Absent == [alive |-> FALSE, user |-> NoUser, generation |-> 0, dirty |-> FALSE, leaving |-> "no"]
Empty == [Absent EXCEPT !.alive = TRUE]

Init == /\ selection = [user |-> NoUser, generation |-> 0, closing |-> FALSE]
        /\ generation = 0
        /\ trusted = {} /\ stored = {} /\ forgotten = {}
        /\ tab = [t \in Tabs |-> Absent]
        /\ action = Idle /\ crashes = 0 /\ failures = 0

Working(t) == tab[t].user # NoUser
Holds(t, step) == action # Idle /\ action.tab = t /\ action.step = step
Changing(t) == Holds(t, "leave") \/ Holds(t, "await")

(* writeSelection of a new generation. *)
Select(u) == /\ generation' = generation + 1
             /\ selection' = [user |-> u, generation |-> generation + 1, closing |-> FALSE]
Keep == UNCHANGED <<selection, generation>>

AfterClose(kind) == CASE kind \in {"login", "choose"} -> "open" [] kind = "logout" -> "forget" [] OTHER -> "end"
Continue(step) == action' = IF step = "end" THEN Idle ELSE [action EXCEPT !.step = step]
Begin(t, kind, u, step) ==
  /\ action = Idle /\ tab[t].alive /\ generation + 2 <= MaxGenerations
  /\ action' = [tab |-> t, kind |-> kind, user |-> u, step |-> step, before |-> selection]

-----------------------------------------------------------------------------
(* A tab starts under the lock: a change that was interrupted is over, and the *)
(* selected account is opened again when this device still trusts it.          *)
Start(t) ==
  /\ ~tab[t].alive /\ action = Idle /\ generation < MaxGenerations
  /\ tab' = [tab EXCEPT ![t] = Empty]
  /\ IF selection.closing THEN Select(selection.user) ELSE Keep
  /\ action' = IF selection.user \in trusted
               THEN [tab |-> t, kind |-> "choose", user |-> selection.user, step |-> "open", before |-> selection']
               ELSE Idle
  /\ UNCHANGED <<trusted, stored, forgotten, crashes, failures>>

(* runAuthentication closes whatever is open. *)
BeginLogin(t, u) == /\ Begin(t, "login", u, "close")
                    /\ UNCHANGED <<selection, generation, trusted, stored, forgotten, tab, crashes, failures>>

(* choose, or unlock with the PIN: the selected account needs no closing. *)
BeginChoose(t, u) ==
  /\ u \in trusted /\ tab[t].user # u
  /\ Begin(t, "choose", u, IF selection.user # u THEN "close" ELSE "open")
  /\ UNCHANGED <<selection, generation, trusted, stored, forgotten, tab, crashes, failures>>

(* close("lock"). *)
BeginLock(t) ==
  /\ Working(t) /\ selection.user = tab[t].user
  /\ Begin(t, "lock", tab[t].user, "close")
  /\ UNCHANGED <<selection, generation, trusted, stored, forgotten, tab, crashes, failures>>

(* close("logout") of the open account, or of the one asking for its PIN. *)
BeginLogout(t, u) ==
  /\ IF Working(t) THEN u = tab[t].user ELSE u \in trusted
  /\ Begin(t, "logout", u, IF selection.user = u THEN "close" ELSE "forget")
  /\ UNCHANGED <<selection, generation, trusted, stored, forgotten, tab, crashes, failures>>

(* reverify learns that the device is no longer trusted: invalidateTrust. *)
BeginDistrust(t) ==
  /\ Working(t) /\ ~selection.closing /\ selection.generation = tab[t].generation
  /\ Begin(t, "distrust", tab[t].user, "close")
  /\ trusted' = trusted \ {tab[t].user}
  /\ UNCHANGED <<selection, generation, stored, forgotten, tab, crashes, failures>>

-----------------------------------------------------------------------------
(* leaveWorkspace(discard): a flight under way is joined as it is. *)
Leave(t, how) == tab' = [tab EXCEPT ![t].leaving = IF @ = "no" THEN how ELSE @]

CloseForChange(t) ==
  /\ Holds(t, "close")
  /\ IF selection.user = NoUser
     THEN Continue(AfterClose(action.kind)) /\ UNCHANGED <<selection, tab>>
     ELSE /\ selection' = [selection EXCEPT !.closing = TRUE]
          /\ action' = [action EXCEPT !.before = selection, !.step = IF Working(t) THEN "leave" ELSE "await"]
          /\ IF Working(t) THEN Leave(t, IF action.kind = "logout" THEN "discard" ELSE "save") ELSE UNCHANGED tab
  /\ UNCHANGED <<generation, trusted, stored, forgotten, crashes, failures>>

(* The closing flag is taken back and the change reported as failed. *)
Abort == /\ selection' = [action.before EXCEPT !.closing = FALSE]
         /\ action' = Idle

(* The close handler flushed the unsaved work, or dropped it, and the          *)
(* workspace released its shared lock.                                         *)
LeaveDone(t) ==
  /\ tab[t].leaving # "no"
  /\ stored' = IF tab[t].dirty /\ tab[t].leaving = "save" THEN stored \cup {<<tab[t].user, t>>} ELSE stored
  /\ tab' = [tab EXCEPT ![t] = Empty]
  /\ IF Holds(t, "leave") THEN Continue("await") ELSE UNCHANGED action
  /\ UNCHANGED <<selection, generation, trusted, forgotten, crashes, failures>>

(* The save failed: the workspace stays open and editable. *)
LeaveFails(t) ==
  /\ tab[t].leaving # "no" /\ failures < MaxFailures
  /\ failures' = failures + 1
  /\ tab' = [tab EXCEPT ![t].leaving = "no"]
  /\ IF Holds(t, "leave") THEN Abort ELSE UNCHANGED <<selection, action>>
  /\ UNCHANGED <<generation, trusted, stored, forgotten, crashes>>

StillOpen(g) == \E t \in Tabs : Working(t) /\ tab[t].generation = g

(* Fault: the other tabs are told and not waited for. *)
ClosedEverywhereFault(t) ==
  /\ Holds(t, "await")
  /\ Continue("rotate")
  /\ UNCHANGED <<selection, generation, trusted, stored, forgotten, tab, crashes, failures>>

(* awaitClosedWorkspaces gets the exclusive lock of the generation... *)
ClosedEverywhere(t) ==
  /\ Holds(t, "await") /\ ~StillOpen(action.before.generation)
  /\ Continue("rotate")
  /\ UNCHANGED <<selection, generation, trusted, stored, forgotten, tab, crashes, failures>>

(* ... or gives up after five seconds. *)
CloseTimesOut(t) ==
  /\ Holds(t, "await") /\ StillOpen(action.before.generation)
  /\ Abort
  /\ UNCHANGED <<generation, trusted, stored, forgotten, tab, crashes, failures>>

Rotate(t) ==
  /\ Holds(t, "rotate")
  /\ Select(action.before.user)
  /\ Continue(AfterClose(action.kind))
  /\ UNCHANGED <<trusted, stored, forgotten, tab, crashes, failures>>

-----------------------------------------------------------------------------
(* mountWorkspace, after openAccount or handleUnlocked. *)
Mount(t) ==
  /\ Holds(t, "open")
  /\ IF selection.user # action.user \/ selection.closing THEN Select(action.user) ELSE Keep
  /\ tab' = [tab EXCEPT ![t] = [Empty EXCEPT !.user = action.user, !.generation = selection'.generation]]
  /\ trusted' = trusted \cup {action.user} /\ forgotten' = forgotten \ {action.user}
  /\ action' = Idle
  /\ UNCHANGED <<stored, crashes, failures>>

(* A PIN is asked for, the password is wrong, the server refuses. *)
OpenFails(t) ==
  /\ Holds(t, "open") /\ action' = Idle
  /\ UNCHANGED <<selection, generation, trusted, stored, forgotten, tab, crashes, failures>>

(* deleteLocalUserData, one transaction. *)
Forget(t) ==
  /\ Holds(t, "forget")
  /\ trusted' = trusted \ {action.user} /\ stored' = stored \ ({action.user} \X Tabs)
  /\ forgotten' = forgotten \cup {action.user}
  /\ Continue(IF action.before.user = action.user THEN "clear" ELSE "end")
  /\ UNCHANGED <<selection, generation, tab, crashes, failures>>

Clear(t) ==
  /\ Holds(t, "clear")
  /\ Select(NoUser) /\ action' = Idle
  /\ UNCHANGED <<trusted, stored, forgotten, tab, crashes, failures>>

-----------------------------------------------------------------------------
(* The selection changed, was broadcast or is looked at every 30 seconds: a    *)
(* tab leaves a workspace that is being closed or is of another generation.    *)
Check(t) ==
  /\ Working(t) /\ ~Changing(t) /\ tab[t].leaving = "no"
  /\ selection.closing \/ selection.generation # tab[t].generation
  /\ Leave(t, "save")
  /\ UNCHANGED <<selection, generation, trusted, stored, forgotten, action, crashes, failures>>

Edit(t) == /\ Working(t) /\ tab[t].leaving = "no" /\ ~tab[t].dirty
           /\ tab' = [tab EXCEPT ![t].dirty = TRUE]
           /\ stored' = stored \ {<<tab[t].user, t>>}
           /\ UNCHANGED <<selection, generation, trusted, forgotten, action, crashes, failures>>

Save(t) == /\ tab[t].dirty /\ tab[t].leaving = "no"
           /\ tab' = [tab EXCEPT ![t].dirty = FALSE]
           /\ stored' = stored \cup {<<tab[t].user, t>>}
           /\ UNCHANGED <<selection, generation, trusted, forgotten, action, crashes, failures>>

(* The tab is closed or dies, with the locks it holds. *)
TabEnds(t) ==
  /\ tab[t].alive
  /\ tab' = [tab EXCEPT ![t] = Absent]
  /\ IF action # Idle /\ action.tab = t
     THEN crashes < MaxCrashes /\ crashes' = crashes + 1 /\ action' = Idle
     ELSE UNCHANGED <<crashes, action>>
  /\ UNCHANGED <<selection, generation, trusted, stored, forgotten, failures>>

-----------------------------------------------------------------------------
ChangeStep(t) == \/ CloseForChange(t) \/ ClosedEverywhere(t) \/ CloseTimesOut(t) \/ Rotate(t)
                 \/ Mount(t) \/ OpenFails(t) \/ Forget(t) \/ Clear(t)

Next == \E t \in Tabs :
          \/ Start(t) \/ BeginLock(t) \/ BeginDistrust(t)
          \/ \E u \in Users : BeginLogin(t, u) \/ BeginChoose(t, u) \/ BeginLogout(t, u)
          \/ ChangeStep(t)
          \/ LeaveDone(t) \/ LeaveFails(t) \/ Check(t) \/ Edit(t) \/ Save(t) \/ TabEnds(t)

Spec == Init /\ [][Next]_vars

(* The five-second limit, the 30-second look at the selection and the close    *)
(* handler, whose failures are finitely many; a user who need not do anything. *)
FairSpec == Spec /\ \A t \in Tabs : /\ WF_vars(ChangeStep(t)) /\ WF_vars(Check(t))
                                    /\ WF_vars(LeaveDone(t))

-----------------------------------------------------------------------------
BrowserTypeOK ==
  /\ selection \in [user : Users \cup {NoUser}, generation : 0..generation, closing : BOOLEAN]
  /\ generation \in 0..MaxGenerations
  /\ {trusted, forgotten} \subseteq SUBSET Users /\ stored \subseteq Users \X Tabs
  /\ tab \in [Tabs -> [alive : BOOLEAN, user : Users \cup {NoUser}, generation : 0..generation,
                       dirty : BOOLEAN, leaving : {"no", "save", "discard"}]]
  /\ \A t \in Tabs : Working(t) => tab[t].alive
  /\ action # Idle => tab[action.tab].alive

(* One account is open at a time in the browser, in all its tabs together      *)
(* (docs/system-design.md:91).                                                 *)
OneAccountOpen == \A t, s \in Tabs : Working(t) /\ Working(s) => tab[t].user = tab[s].user

(* Signing out leaves nothing of the account on the device, whatever its other *)
(* tabs were saving.                                                           *)
SignedOutLeavesNothing == \A u \in forgotten : u \notin trusted /\ {u} \X Tabs \cap stored = {}

(* No change of account drops the unsaved work of a tab: it is saved, or the   *)
(* user asked for it to be discarded, or the tab went away.                    *)
UnsavedWorkIsKept ==
  [][\A t \in Tabs : tab[t].dirty /\ ~tab'[t].dirty =>
        \/ ~tab'[t].alive
        \/ <<tab[t].user, t>> \in stored'
        \/ tab[t].leaving = "discard" /\ action.kind = "logout" /\ action.user = tab[t].user]_vars

(* Every change ends, and hands the lock on. *)
ChangesEnd == \A t \in Tabs : [](action # Idle /\ action.tab = t => <>(action = Idle \/ action.tab # t))

(* No tab keeps a workspace of another choice for good. *)
StaleTabsLeave ==
  \A t \in Tabs : [](Working(t) /\ tab[t].generation # selection.generation =>
                      <>(~Working(t) \/ tab[t].generation = selection.generation))

(* The invariant that is checked. *)
BrowserSafe == BrowserTypeOK /\ OneAccountOpen /\ SignedOutLeavesNothing
=============================================================================
