--------------------------- MODULE AttachmentReclaim ---------------------------
(* Unused attachments of a note are reclaimed by the clients, for only they    *)
(* can read notes and history (vault/storageMaintenance.ts): a client reads    *)
(* the ownership, walks the pages of the history, and names the attachments    *)
(* that nothing refers to; the server (attachments/lifecycle.ts) notes the     *)
(* proposal, and removes an attachment when the same is proposed again after   *)
(* the grace period and nothing has changed. Other devices edit the note, take *)
(* snapshots and upload them much later, within the life of an operation.      *)
EXTENDS Naturals, FiniteSets, FiniteSetsExt

CONSTANTS Devices, Attachments,
          Collectors,  \* the devices that run maintenance within the bound
          Versions,    \* history versions, the later ones greater
          Grace,       \* the 90 days of SYNC_LIFETIME_MS, in ticks
          Legacy,      \* attachments whose owner an earlier release did not record
          MaxClock, MaxChanges

ReclaimConstants ==
  /\ Grace \in Nat \ {0} /\ {MaxClock, MaxChanges} \subseteq Nat /\ IsFiniteSet(Attachments)
  /\ Versions \subseteq Nat \ {0} /\ IsFiniteSet(Versions) /\ Versions # {}

VARIABLES clock,
          note,     \* on the server: revision, references, in the trash
          history,  \* on the server: per version its references and protection
          held,     \* on the server: attachments with a manifest
          owned,    \* of these, those with a known owner
          complete, \* ownership_state
          hv, ov,   \* history_versions and ownership_versions of the note
          head,     \* changes the server has recorded
          gc,       \* attachment_gc
          edit, shot, \* per device: an edit and a snapshot not uploaded yet
          pass,     \* per device: maintainVaultStorage under way
          since     \* per attachment: when the server last held a reference to it

server == <<note, history, held, owned, complete, hv, ov, head, gc>>
vars == <<clock, server, edit, shot, pass, since>>

NoEdit == [on |-> FALSE, base |-> 0, refs |-> {}, at |-> 0]
NoShot == [on |-> FALSE, refs |-> {}, at |-> 0, keep |-> FALSE]
NoGc == [on |-> FALSE, rev |-> 0, hv |-> 0, ov |-> 0, at |-> 0]
NoVersion == [on |-> FALSE, refs |-> {}, keep |-> FALSE]
NoPass == [at |-> "off", rev |-> 0, refs |-> {}, atts |-> {}, head |-> 0, hv |-> 0, ov |-> 0, cursor |-> 0]

Init == /\ clock = 0 /\ note = [rev |-> 1, refs |-> Attachments, deleted |-> FALSE]
        /\ history = [v \in Versions |-> NoVersion] /\ held = Attachments /\ owned = Attachments \ Legacy
        /\ complete = (Legacy = {}) /\ hv = 0 /\ ov = 1 /\ head = 1
        /\ gc = [a \in Attachments |-> NoGc] /\ edit = [d \in Devices |-> NoEdit]
        /\ shot = [d \in Devices |-> NoShot] /\ pass = [d \in Devices |-> NoPass]
        /\ since = [a \in Attachments |-> 0]

On == {v \in Versions : history[v].on}
Referenced == note.refs \cup UNION {history[v].refs : v \in On}
Dropped == gc' = [a \in Attachments |-> NoGc]
Changed == head < MaxChanges /\ head' = head + 1
Expired(at) == at + Grace <= clock
Seen(more) == since' = [a \in Attachments |-> IF a \in Referenced \cup more THEN clock ELSE since[a]]

-----------------------------------------------------------------------------
(* Users edit notes and go back to versions of their history; both are         *)
(* uploaded later, if the note is still at the revision they know and the      *)
(* operation is not too old. Otherwise the proposal becomes another note.      *)
Edit(d, refs) ==
  /\ ~edit[d].on /\ refs \subseteq Referenced /\ refs # note.refs
  /\ edit' = [edit EXCEPT ![d] = [on |-> TRUE, base |-> note.rev, refs |-> refs, at |-> clock]]
  /\ UNCHANGED <<clock, server, shot, pass, since>>

Upload(d) ==
  /\ edit[d].on /\ edit' = [edit EXCEPT ![d] = NoEdit]
  /\ \/ /\ (edit[d].base # note.rev \/ Expired(edit[d].at)) /\ UNCHANGED <<note, head, gc, since>>
     \/ /\ edit[d].base = note.rev /\ ~Expired(edit[d].at) /\ Changed /\ Dropped
        /\ note' = [note EXCEPT !.rev = @ + 1, !.refs = edit[d].refs]
        /\ Seen(note'.refs)
  /\ UNCHANGED <<clock, history, held, owned, complete, hv, ov, shot, pass>>

(* The note goes to the trash or comes back. *)
Trash ==
  /\ Changed /\ Dropped /\ note' = [note EXCEPT !.rev = @ + 1, !.deleted = ~@]
  /\ UNCHANGED <<clock, history, held, owned, complete, hv, ov, edit, shot, pass, since>>

(* An attachment that arrives raises the ownership version of its note. *)
Attach(a) ==
  /\ a \notin held /\ since[a] = 0 /\ Changed /\ Dropped
  /\ held' = held \cup {a} /\ owned' = owned \cup {a} /\ ov' = ov + 1
  /\ UNCHANGED <<clock, note, history, complete, hv, edit, shot, pass, since>>

Capture(d, keep) ==
  /\ ~shot[d].on /\ ~note.deleted
  /\ shot' = [shot EXCEPT ![d] = [on |-> TRUE, refs |-> note.refs, at |-> clock, keep |-> keep]]
  /\ UNCHANGED <<clock, server, edit, pass, since>>

(* Fault: neither the version nor the proposals change with the history. *)
HistoryChangedFault == UNCHANGED <<hv, gc>>

HistoryChanged == hv' = hv + 1 /\ Dropped

AddVersion(d) ==
  /\ shot[d].on /\ shot' = [shot EXCEPT ![d] = NoShot]
  /\ \/ Expired(shot[d].at) /\ UNCHANGED <<history, hv, head, gc, since>>
     \/ /\ ~Expired(shot[d].at) /\ Versions \ On # {} /\ Changed /\ HistoryChanged
        /\ \E v \in Versions \ On :
             history' = [history EXCEPT ![v] = [on |-> TRUE, refs |-> shot[d].refs, keep |-> shot[d].keep]]
        /\ Seen(shot[d].refs)
  /\ UNCHANGED <<clock, note, held, owned, complete, ov, edit, pass>>

DropVersion(v) ==
  /\ v \in On /\ Changed /\ HistoryChanged /\ history' = [history EXCEPT ![v] = NoVersion] /\ Seen({})
  /\ UNCHANGED <<clock, note, held, owned, complete, ov, edit, shot, pass>>

-----------------------------------------------------------------------------
(* maintainVaultStorage after a complete synchronization. *)
Begin(d) ==
  /\ d \in Collectors /\ pass[d].at = "off" /\ ~note.deleted /\ ~edit[d].on /\ ~shot[d].on
  /\ pass' = [pass EXCEPT ![d] = [NoPass EXCEPT !.at = "ownership", !.rev = note.rev, !.refs = note.refs, !.atts = held, !.head = head]]
  /\ UNCHANGED <<clock, server, edit, shot, since>>

ReadOwnership(d) ==
  /\ pass[d].at = "ownership"
  /\ pass' = [pass EXCEPT ![d].at = IF complete THEN "inventory" ELSE "map", ![d].ov = ov,
                          ![d].cursor = 1 + Max(Versions)]
  /\ UNCHANGED <<clock, server, edit, shot, since>>

(* POST .../ownership: owners for what the client knows; complete only if it   *)
(* knows everything. Then the ownership is read again.                         *)
Map(d) ==
  /\ pass[d].at = "map"
  /\ \/ /\ ~(pass[d].atts \subseteq held) /\ pass' = [pass EXCEPT ![d] = NoPass]
        /\ UNCHANGED <<owned, complete, ov, gc>>
     \/ /\ pass[d].atts \subseteq held
        /\ owned' = owned \cup pass[d].atts
        /\ ov' = ov + Cardinality(pass[d].atts \ owned) /\ Dropped
        /\ IF pass[d].head = head /\ held \subseteq owned'
             THEN complete' = TRUE /\ pass' = [pass EXCEPT ![d].at = "ownership"]
             ELSE UNCHANGED complete /\ pass' = [pass EXCEPT ![d] = NoPass]
  /\ UNCHANGED <<clock, note, history, held, hv, head, edit, shot, since>>

(* validatedHistoryInventory: a page holds one version; all must be of the     *)
(* same history version.                                                       *)
ReadPage(d) ==
  /\ pass[d].at = "inventory"
  /\ LET first == pass[d].cursor > Max(Versions)
         rest == {v \in On : v < pass[d].cursor}
     IN  IF ~first /\ pass[d].hv # hv THEN pass' = [pass EXCEPT ![d] = NoPass]
         ELSE IF rest = {} THEN pass' = [pass EXCEPT ![d].at = "propose", ![d].hv = hv]
         ELSE LET v == Max(rest) IN
              pass' = [pass EXCEPT ![d].hv = hv, ![d].cursor = v, ![d].refs = @ \cup history[v].refs]
  /\ UNCHANGED <<clock, server, edit, shot, since>>

(* Fault: no first proposal, no grace. *)
ReclaimFault(d) ==
  /\ pass[d].at = "propose" /\ pass' = [pass EXCEPT ![d] = NoPass]
  /\ ~edit[d].on /\ ~shot[d].on
  /\ note.rev = pass[d].rev /\ ~note.deleted /\ hv = pass[d].hv /\ ov = pass[d].ov /\ complete
  /\ held' = held \ ((pass[d].atts \ pass[d].refs) \cap owned)
  /\ UNCHANGED <<clock, note, history, owned, complete, hv, ov, head, gc, edit, shot, since>>

(* Fault: the proposal of a removed attachment stays. *)
ReclaimKeeps(d) ==
  /\ pass[d].at = "propose" /\ pass' = [pass EXCEPT ![d] = NoPass] /\ ~edit[d].on /\ ~shot[d].on
  /\ complete /\ ov = pass[d].ov /\ ~note.deleted /\ note.rev = pass[d].rev /\ hv = pass[d].hv
  /\ LET candidates == (pass[d].atts \ pass[d].refs) \cap owned
         due == {a \in candidates : gc[a].on /\ Expired(gc[a].at)}
     IN  /\ held' = held \ due /\ owned' = owned \ due
         /\ gc' = [a \in Attachments |-> IF a \in candidates /\ ~gc[a].on
              THEN [on |-> TRUE, rev |-> note.rev, hv |-> hv, ov |-> ov, at |-> clock] ELSE gc[a]]
  /\ UNCHANGED <<clock, note, history, complete, hv, ov, head, edit, shot, since>>

(* POST .../reclaim, unless the device has something to upload meanwhile.      *)
Reclaim(d) ==
  /\ pass[d].at = "propose" /\ pass' = [pass EXCEPT ![d] = NoPass]
  /\ LET input == pass[d]
         candidates == input.atts \ input.refs
         same(a) == gc[a].on /\ gc[a].rev = input.rev /\ gc[a].hv = input.hv /\ gc[a].ov = input.ov
         due == {a \in candidates : same(a) /\ gc[a].at + Grace <= clock}
         kept == UNION {history[v].refs : v \in {w \in On : history[w].keep}}
     IN  IF \/ edit[d].on \/ shot[d].on
            \/ ~complete \/ ov # input.ov \/ note.deleted \/ note.rev # input.rev \/ hv # input.hv
            \/ ~(candidates \subseteq (held \cap owned) \ kept)
         THEN UNCHANGED <<held, owned, gc>>
         ELSE /\ held' = held \ due /\ owned' = owned \ due
              /\ gc' = [a \in Attachments |->
                   IF a \in due THEN NoGc
                   ELSE IF a \in candidates /\ ~same(a)
                     THEN [on |-> TRUE, rev |-> input.rev, hv |-> input.hv, ov |-> input.ov, at |-> clock]
                     ELSE gc[a]]
  /\ UNCHANGED <<clock, note, history, complete, hv, ov, head, edit, shot, since>>

(* Locking, logging out, or a request that fails. *)
GiveUp(d) ==
  /\ pass[d].at # "off" /\ pass' = [pass EXCEPT ![d] = NoPass]
  /\ UNCHANGED <<clock, server, edit, shot, since>>

Tick == /\ clock < MaxClock /\ clock' = clock + 1
        /\ since' = [a \in Attachments |-> IF a \in Referenced THEN clock' ELSE since[a]]
        /\ UNCHANGED <<server, edit, shot, pass>>

Next ==
  \/ \E d \in Devices :
       \/ \E refs \in SUBSET Attachments : Edit(d, refs)
       \/ \E keep \in BOOLEAN : Capture(d, keep)
       \/ Upload(d) \/ AddVersion(d) \/ Begin(d) \/ ReadOwnership(d) \/ Map(d) \/ ReadPage(d) \/ Reclaim(d) \/ GiveUp(d)
  \/ Trash \/ Tick \/ (\E a \in Attachments : Attach(a)) \/ \E v \in Versions : DropVersion(v)

Spec == Init /\ [][Next]_vars

-----------------------------------------------------------------------------
(* Types; proposals are for attachments the server holds. *)
ReclaimTypeOK ==
  /\ note.refs \subseteq Attachments /\ owned \subseteq held /\ held \subseteq Attachments
  /\ \A a \in Attachments : gc[a].on => a \in held /\ gc[a].at <= clock
  /\ \A d \in Devices : pass[d].atts \subseteq Attachments /\ pass[d].cursor \in 0..(1 + Max(Versions))

(* Whatever the other devices did meanwhile, and however late their uploads    *)
(* arrive: what the note or a version of its history on the server refers to   *)
(* is there.                                                                   *)
ReferencesResolve == Referenced \subseteq held

(* docs/system-design.md: an attachment goes only after 90 days in which       *)
(* nothing on the server referred to it.                                       *)
GraceKept == [][\A a \in held \ held' : since[a] + Grace <= clock]_vars
=============================================================================
