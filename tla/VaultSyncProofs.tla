---------------------------- MODULE VaultSyncProofs ----------------------------
(***************************************************************************)
(* Proofs about VaultSync, for any devices, edits, failures and numbers of *)
(* operations.                                                             *)
(***************************************************************************)
EXTENDS VaultSync, TLAPS

-----------------------------------------------------------------------------
(***************************************************************************)
(* Shapes: like the types of VaultSync, without their bounds.              *)
(***************************************************************************)
RowShape == [revision : Nat, content : SUBSET Edits, key : Nat]
AttemptShape == [key : Nat, base : Nat, content : SUBSET Edits]
EntryShape == [key : Nat, base : Nat, content : SUBSET Edits,
               writer : Tabs \cup {NoTab, Closed}, upload : AttemptShape]
SavingShape == [stage : {"none", "waits", "encrypts"}, content : SUBSET Edits,
                base : Nat, upload : AttemptShape, direct : BOOLEAN]
CandidateShape == [entry : EntryShape, row : RowShape]
Steps == {"idle", "push", "sent", "accepted", "conflict", "pull",
          "page", "decided", "locked", "publish"}

ServerShaped == server \in RowShape /\ done \subseteq Nat /\ sent \subseteq AttemptShape /\ lastKey \in Nat

DevicesShaped ==
    /\ row \in [Devices -> RowShape] /\ outbox \in [Devices -> EntryShape]
    /\ recoveries \in [Devices -> SUBSET SUBSET Edits]
    /\ holder \in [Devices -> Tabs \cup {NoTab}] /\ step \in [Devices -> Steps]
    /\ attempt \in [Devices -> AttemptShape] /\ page \in [Devices -> RowShape]
    /\ candidate \in [Devices -> CandidateShape]
    /\ \A d \in Devices : step[d] # "idle" => holder[d] \in Tabs

TabsShaped ==
    /\ memory \in [Tabs -> RowShape]
    /\ active \in [Tabs -> BOOLEAN] /\ queued \in [Tabs -> BOOLEAN]
    /\ saving \in [Tabs -> SavingShape]
    /\ deferred \in [Tabs -> RowShape \cup {NoDeferred}]

Shaped == ServerShaped /\ DevicesShaped /\ TabsShaped

(* What a run knows of its upload and of the answer it was given; an entry *)
(* that waits is the row's, and has an identifier of its own.              *)
CleanInv ==
    /\ server.key \in done \cup {0}
    /\ \A d \in Devices :
         /\ page[d].key \in done \cup {0}
         /\ step[d] = "accepted" => attempt[d].key \in done
         /\ Pending(outbox[d]) => outbox[d].key >= 1 /\ row[d].key = outbox[d].key
    /\ CleanRowsAreServerRows

(* What is uploaded of an entry. *)
Proposal(entry) == [key |-> entry.key, base |-> entry.base, content |-> entry.content]

-----------------------------------------------------------------------------
USE DEF RowShape, AttemptShape, EntryShape, SavingShape, CandidateShape

LEMMA Constants ==
    /\ FirstRow \in RowShape /\ NoRow \in RowShape /\ NoAttempt \in AttemptShape
    /\ NoEntry \in EntryShape /\ NoSaving \in SavingShape /\ NoCandidate \in CandidateShape
    /\ NoTab \notin Tabs /\ Closed \notin Tabs
    /\ \A a \in AttemptShape : RowOf(a) \in RowShape
    /\ \A entry \in EntryShape : RowOf(entry) \in RowShape /\ Proposal(entry) \in AttemptShape
    /\ \A t \in Tabs : DeviceOf[t] \in Devices
  BY TabsAssumption
     DEF FirstRow, NoRow, NoAttempt, NoEntry, NoSaving, NoCandidate, NoTab, RowOf, Proposal,
         TabsAssumption

LEMMA FinishShaped ==
    ASSUME DevicesShaped, NEW d \in Devices, NEW next \in Steps, Finish(d, next),
           step[d] # "idle" \/ next = "idle", row' \in [Devices -> RowShape], outbox' \in [Devices -> EntryShape],
           recoveries' \in [Devices -> SUBSET SUBSET Edits]
    PROVE  DevicesShaped'
<1>1. /\ step' \in [Devices -> Steps] /\ holder' \in [Devices -> Tabs \cup {NoTab}]
      /\ attempt' \in [Devices -> AttemptShape]
  BY Constants DEF DevicesShaped, Finish
<1>2. page' \in [Devices -> RowShape] /\ candidate' \in [Devices -> CandidateShape]
  <2> HIDE DEF RowShape, CandidateShape
  <2> QED
    BY Constants DEF DevicesShaped, Finish
<1>3. \A c \in Devices : step'[c] # "idle" => holder'[c] \in Tabs
  BY DEF DevicesShaped, Finish
<1> QED
  BY <1>1, <1>2, <1>3 DEF DevicesShaped

LEMMA TypeShaped ==
    ASSUME Shaped, NEW t \in Tabs, NEW e \in Edits, Type(t, e)
    PROVE  Shaped'
<1>1. memory \in [Tabs -> RowShape] /\ memory[t] \in RowShape
  BY DEF Shaped, TabsShaped
<1>2. PICK m : m = [memory[t] EXCEPT !.content = @ \cup {e}]
  OBVIOUS
<1>3. m \in RowShape
  BY <1>1, <1>2
<1>4. memory' = [memory EXCEPT ![t] = m]
  BY Zenon, <1>2 DEF Type
<1>5. memory' \in [Tabs -> RowShape]
  <2> HIDE DEF RowShape
  <2> QED
    BY <1>1, <1>3, <1>4
<1>6. queued' \in [Tabs -> BOOLEAN]
  BY DEF Type, Shaped, TabsShaped
<1> QED
  BY <1>5, <1>6 DEF Type, Shaped, ServerShaped, DevicesShaped, TabsShaped, serverVars, deviceVars, syncVars

LEMMA OpenShaped ==
    ASSUME Shaped, NEW t \in Tabs, Open(t)
    PROVE  Shaped'
  BY DEF Open, Shaped, ServerShaped, DevicesShaped, TabsShaped, serverVars, deviceVars, syncVars

LEMMA LeaveShaped ==
    ASSUME Shaped, NEW t \in Tabs, Leave(t)
    PROVE  Shaped'
  BY DEF Leave, Shaped, ServerShaped, DevicesShaped, TabsShaped, serverVars, deviceVars, syncVars

LEMMA RestructureShaped ==
    ASSUME Shaped, NEW t \in Tabs, NEW e \in Edits, Restructure(t, e)
    PROVE  Shaped'
<1>1. memory[t] \in RowShape /\ saving \in [Tabs -> SavingShape]
  BY DEF Shaped, TabsShaped
<1>2. PICK x : x = memory[t].content \cup {e}
  OBVIOUS
<1>3. PICK r : r = memory[t].revision
  OBVIOUS
<1>4. x \subseteq Edits /\ r \in Nat
  BY <1>1, <1>2, <1>3
<1>5. PICK save : save = [NoSaving EXCEPT !.stage = "waits", !.direct = TRUE,
                                          !.content = x, !.base = r]
  OBVIOUS
<1>6. save \in SavingShape
  <2>1. save = [[[[NoSaving EXCEPT !.stage = "waits"] EXCEPT !.direct = TRUE]
                                   EXCEPT !.content = x] EXCEPT !.base = r]
    BY <1>5
  <2>2. NoSaving \in SavingShape
    BY Constants
  <2> QED
    BY <1>4, <2>1, <2>2
<1>7. saving' = [saving EXCEPT ![t] = save]
  BY Zenon, <1>2, <1>3, <1>5 DEF Restructure
<1>8. saving' \in [Tabs -> SavingShape]
  <2> HIDE DEF SavingShape
  <2> QED
    BY <1>1, <1>6, <1>7
<1> QED
  BY <1>8 DEF Restructure, Shaped, ServerShaped, DevicesShaped, TabsShaped, serverVars, deviceVars, syncVars

(* A save has captured the note, and the base it will claim. *)
LEMMA BeginEffect ==
    ASSUME Shaped, NEW t \in Tabs, BeginSave(t)
    PROVE  \E save \in SavingShape :
             /\ saving' = [saving EXCEPT ![t] = save]
             /\ save.stage = "encrypts" /\ save.upload = outbox[DeviceOf[t]].upload
             /\ Pending(outbox[DeviceOf[t]]) => save.base = outbox[DeviceOf[t]].base
             /\ ~Pending(outbox[DeviceOf[t]]) /\ Opened(t) => save.base = memory[t].revision
             /\ \/ /\ saving[t].stage = "waits"
                   /\ save.content = saving[t].content /\ save.direct = saving[t].direct
                \/ /\ saving[t].stage = "none" /\ Opened(t)
                   /\ save.content = memory[t].content /\ save.direct = FALSE
<1>1. /\ saving \in [Tabs -> SavingShape] /\ memory[t] \in RowShape
      /\ DeviceOf[t] \in Devices /\ outbox[DeviceOf[t]] \in EntryShape
  BY Constants DEF Shaped, DevicesShaped, TabsShaped
<1>2. PICK entry \in EntryShape : entry = outbox[DeviceOf[t]]
  BY <1>1
<1>3. ASSUME saving[t].stage = "waits", NEW base \in Nat,
             saving' = [saving EXCEPT ![t] = [saving[t] EXCEPT !.stage = "encrypts",
                                                !.base = base, !.upload = entry.upload]],
             Pending(entry) => base = entry.base,
             ~Pending(entry) /\ Opened(t) => base = memory[t].revision
      PROVE  \E save \in SavingShape :
             /\ saving' = [saving EXCEPT ![t] = save]
             /\ save.stage = "encrypts" /\ save.upload = entry.upload
             /\ Pending(entry) => save.base = entry.base
             /\ ~Pending(entry) /\ Opened(t) => save.base = memory[t].revision
             /\ save.content = saving[t].content /\ save.direct = saving[t].direct
  <2>1. PICK save : save = [saving[t] EXCEPT !.stage = "encrypts", !.base = base, !.upload = entry.upload]
    OBVIOUS
  <2>2. save \in SavingShape /\ saving' = [saving EXCEPT ![t] = save]
    <3>1. saving' = [saving EXCEPT ![t] = save]
      BY <1>3, <2>1
    <3>2. saving[t] \in SavingShape /\ entry.upload \in AttemptShape /\ base \in Nat
      BY <1>1, <1>2, <1>3
    <3>3. save \in SavingShape
      BY <2>1, <3>2
    <3> QED
      BY <3>1, <3>3
  <2>3. /\ save.stage = "encrypts" /\ save.upload = entry.upload /\ save.base = base
        /\ save.content = saving[t].content /\ save.direct = saving[t].direct
    BY <1>1, <1>2, <1>3, <2>1
  <2> QED
    BY <1>3, <2>2, <2>3
<1>4. PICK x : x = memory[t].content
  OBVIOUS
<1>5. CASE saving[t].stage = "waits"
  <2>1. PICK base : base = IF Pending(entry) THEN entry.base
                           ELSE IF Opened(t) THEN memory[t].revision ELSE saving[t].base
    OBVIOUS
  <2>2. base \in Nat /\ saving' = [saving EXCEPT ![t] = [saving[t] EXCEPT !.stage = "encrypts",
                                                 !.base = base, !.upload = entry.upload]]
    BY <1>1, <1>2, <1>5, <2>1 DEF BeginSave
  <2> QED
    BY <1>2, <1>3, <1>5, <2>1, <2>2
<1>6. CASE saving[t].stage # "waits"
  <2>1. PICK base : base = IF Pending(entry) THEN entry.base
                           ELSE IF Opened(t) THEN memory[t].revision ELSE 0
    OBVIOUS
  <2>2. PICK save : save = [stage |-> "encrypts", content |-> memory[t].content,
                            base |-> base, upload |-> entry.upload, direct |-> FALSE]
    OBVIOUS
  <2>3. /\ base \in Nat /\ saving' = [saving EXCEPT ![t] = save]
        /\ saving[t].stage = "none" /\ Opened(t)
    <3>1. saving[t].stage = "none" /\ Opened(t)
      BY <1>6 DEF BeginSave
    <3>2. saving' = [saving EXCEPT ![t] = save]
      BY <1>2, <1>6, <2>1, <2>2 DEF BeginSave
    <3>3. base \in Nat
      BY <1>1, <1>2, <2>1
    <3> QED
      BY <3>1, <3>2, <3>3
  <2> QED
    <3>1. /\ save \in SavingShape
          /\ save.stage = "encrypts" /\ save.upload = entry.upload /\ save.base = base
          /\ save.content = memory[t].content /\ save.direct = FALSE
      <4>1. x \subseteq Edits /\ base \in Nat /\ entry.upload \in AttemptShape
        BY <1>1, <1>4, <2>3
      <4>2. save = [stage |-> "encrypts", content |-> x,
                    base |-> base, upload |-> entry.upload, direct |-> FALSE]
        BY <1>4, <2>2
      <4>3. save \in SavingShape
        <5> HIDE DEF AttemptShape
        <5> QED
          BY <4>1, <4>2
      <4> QED
        BY <1>4, <4>2, <4>3
    <3> HIDE DEF SavingShape
    <3>2. /\ Pending(entry) => base = entry.base
          /\ ~Pending(entry) /\ Opened(t) => base = memory[t].revision
      BY <2>1
    <3> QED
      BY <1>2, <2>3, <3>1, <3>2
<1> QED
  BY <1>5, <1>6

LEMMA BeginShaped ==
    ASSUME Shaped, NEW t \in Tabs, BeginSave(t)
    PROVE  Shaped'
<1>1. saving' \in [Tabs -> SavingShape]
  <2>1. PICK save \in SavingShape : saving' = [saving EXCEPT ![t] = save]
    BY BeginEffect
  <2>2. saving \in [Tabs -> SavingShape]
    BY DEF Shaped, TabsShaped
  <2> HIDE DEF SavingShape
  <2> QED
    BY <2>1, <2>2
<1> QED
  BY <1>1 DEF BeginSave, Shaped, ServerShaped, DevicesShaped, TabsShaped, serverVars, deviceVars, syncVars

HIDE DEF RowShape, AttemptShape, EntryShape, SavingShape, CandidateShape

(* What a save leaves in the database and in memory. *)
Committed(t, d, entry, m) ==
    /\ saving[t].stage = "encrypts"
    /\ entry.key = lastKey + 1 /\ entry.base = saving[t].base
    /\ entry.content = saving[t].content
    /\ entry.upload = IF Staged(outbox[d]) THEN outbox[d].upload ELSE saving[t].upload
    /\ lastKey' = lastKey + 1 /\ saved' = saved \cup saving[t].content
    /\ row' = [row EXCEPT ![d] = RowOf(entry)] /\ outbox' = [outbox EXCEPT ![d] = entry]
    /\ recoveries' \in {recoveries, [recoveries EXCEPT ![d] = @ \cup {outbox[d].content}]}
    /\ Foreign(t, outbox[d])
         => recoveries' = [recoveries EXCEPT ![d] = @ \cup {outbox[d].content}]
    /\ saving' = [saving EXCEPT ![t] = NoSaving] /\ queued' \in [Tabs -> BOOLEAN]
    /\ memory' = [memory EXCEPT ![t] = m]
    /\ \/ m = memory[t] /\ ~saving[t].direct
       \/ m.revision = saving[t].base /\ m.content = saving[t].content
    /\ UNCHANGED <<serverVars, copies, syncVars, active, deferred, made, failures>>

LEMMA CommitEffect ==
    ASSUME Shaped, NEW t \in Tabs, CommitSave(t)
    PROVE  \E entry \in EntryShape, m \in RowShape : Committed(t, DeviceOf[t], entry, m)
<1> PICK d : d = DeviceOf[t]
  OBVIOUS
<1>1. /\ saving \in [Tabs -> SavingShape] /\ memory \in [Tabs -> RowShape] /\ queued \in [Tabs -> BOOLEAN]
      /\ d \in Devices /\ outbox[d] \in EntryShape /\ lastKey \in Nat
  BY Constants DEF Shaped, ServerShaped, DevicesShaped, TabsShaped
<1>2. PICK upload : upload = IF Staged(outbox[d]) THEN outbox[d].upload ELSE saving[t].upload
  OBVIOUS
<1>3. PICK entry : entry = [key |-> lastKey + 1, base |-> saving[t].base, content |-> saving[t].content,
                            writer |-> t, upload |-> upload]
  OBVIOUS
<1>4. /\ entry \in EntryShape /\ entry.key = lastKey + 1 /\ entry.base = saving[t].base
      /\ entry.content = saving[t].content /\ entry.upload = upload
  <2>1. saving[t] \in SavingShape /\ upload \in AttemptShape
    BY <1>1, <1>2 DEF SavingShape, EntryShape
  <2> QED
    BY <1>1, <1>3, <2>1 DEF EntryShape, SavingShape
<1>5. /\ saving[t].stage = "encrypts"
      /\ lastKey' = lastKey + 1 /\ saved' = saved \cup saving[t].content
      /\ row' = [row EXCEPT ![d] = RowOf(entry)] /\ outbox' = [outbox EXCEPT ![d] = entry]
      /\ recoveries' = IF Foreign(t, outbox[d])
                         THEN [recoveries EXCEPT ![d] = @ \cup {outbox[d].content}] ELSE recoveries
      /\ saving' = [saving EXCEPT ![t] = NoSaving]
      /\ UNCHANGED <<serverVars, copies, syncVars, active, deferred, made, failures>>
  BY <1>2, <1>3, <1>4 DEF CommitSave
<1>6. queued' \in [Tabs -> BOOLEAN]
  <2>1. PICK still \in BOOLEAN : queued' = [queued EXCEPT ![t] = @ /\ still]
    BY <1>1 DEF CommitSave
  <2> QED
    BY <1>1, <2>1
<1>7. \E m \in RowShape :
        /\ memory' = [memory EXCEPT ![t] = m]
        /\ \/ m = memory[t] /\ ~saving[t].direct
           \/ m.revision = saving[t].base /\ m.content = saving[t].content
  <2>1. CASE saving[t].direct \/ memory[t].content = saving[t].content
    <3>1. PICK m : m = [memory[t] EXCEPT !.revision = saving[t].base, !.content = saving[t].content]
      OBVIOUS
    <3>2. m \in RowShape /\ m.revision = saving[t].base /\ m.content = saving[t].content
      <4>1. memory[t] \in RowShape /\ saving[t].base \in Nat /\ saving[t].content \in SUBSET Edits
        BY <1>1 DEF SavingShape
      <4> QED
        BY <3>1, <4>1 DEF RowShape
    <3>3. memory' = [memory EXCEPT ![t] = m]
      BY <1>1, <2>1, <3>1 DEF CommitSave
    <3> QED
      BY <3>2, <3>3
  <2>2. CASE ~(saving[t].direct \/ memory[t].content = saving[t].content)
    <3>1. memory' = memory
      BY <2>2 DEF CommitSave
    <3>2. memory' = [memory EXCEPT ![t] = memory[t]]
      BY <1>1, <3>1
    <3> QED
      BY <1>1, <2>2, <3>2
  <2> QED
    BY <2>1, <2>2
<1>8. /\ recoveries' \in {recoveries, [recoveries EXCEPT ![d] = @ \cup {outbox[d].content}]}
      /\ Foreign(t, outbox[d]) => recoveries' = [recoveries EXCEPT ![d] = @ \cup {outbox[d].content}]
  BY <1>5
<1> PICK m \in RowShape :
        /\ memory' = [memory EXCEPT ![t] = m]
        /\ \/ m = memory[t] /\ ~saving[t].direct
           \/ m.revision = saving[t].base /\ m.content = saving[t].content
  BY <1>7
<1>9. Committed(t, d, entry, m)
  BY <1>2, <1>4, <1>5, <1>6, <1>8 DEF Committed
<1> QED
  BY <1>4, <1>9

LEMMA CommitShaped ==
    ASSUME Shaped, NEW t \in Tabs, CommitSave(t)
    PROVE  Shaped'
<1>1. PICK d \in Devices : d = DeviceOf[t]
  BY Constants
<1>2. PICK entry \in EntryShape, m \in RowShape : Committed(t, d, entry, m)
  BY <1>1, CommitEffect
<1> USE DEF Committed
<1>3. RowOf(entry) \in RowShape /\ outbox[d].content \in SUBSET Edits
  <2>1. outbox[d] \in EntryShape
    BY DEF Shaped, DevicesShaped
  <2> QED
    BY <2>1, Constants DEF EntryShape
<1>4. recoveries' \in [Devices -> SUBSET SUBSET Edits]
  <2>1. recoveries \in [Devices -> SUBSET SUBSET Edits]
    BY DEF Shaped, DevicesShaped
  <2> QED
    BY <1>2, <1>3, <2>1
<1>5. DevicesShaped'
  <2> QED
    BY <1>1, <1>2, <1>3, <1>4 DEF Shaped, DevicesShaped, syncVars
<1>6. TabsShaped'
  <2> QED
    BY <1>2, Constants DEF Shaped, TabsShaped
<1> QED
  BY <1>2, <1>5, <1>6 DEF Shaped, ServerShaped, serverVars

(* What a reload finds. *)
Reloaded(t, d, m, entry) ==
    /\ Pending(outbox[d]) => m.revision = outbox[d].base /\ m.content = row[d].content
    /\ ~Pending(outbox[d]) => m = row[d]
    /\ memory' = [memory EXCEPT ![t] = m]
    /\ outbox' = [outbox EXCEPT ![d] = entry]
    /\ \/ entry = outbox[d]
       \/ Pending(outbox[d]) /\ entry = [outbox[d] EXCEPT !.writer = Closed]
    /\ active' = [active EXCEPT ![t] = FALSE] /\ queued' = [queued EXCEPT ![t] = FALSE]
    /\ saving' = [saving EXCEPT ![t] = NoSaving] /\ deferred' = [deferred EXCEPT ![t] = NoDeferred]
    /\ \/ holder[d] = t /\ Finish(d, "idle")
       \/ holder[d] # t /\ UNCHANGED syncVars
    /\ UNCHANGED <<serverVars, row, recoveries, copies, made, saved, lastKey>>

LEMMA ReloadEffect ==
    ASSUME Shaped, NEW t \in Tabs, Reload(t)
    PROVE  \E entry \in EntryShape, m \in RowShape : Reloaded(t, DeviceOf[t], m, entry)
<1> PICK d \in Devices : d = DeviceOf[t]
  BY Constants
<1>1. /\ outbox \in [Devices -> EntryShape] /\ outbox[d] \in EntryShape /\ row[d] \in RowShape
      /\ memory \in [Tabs -> RowShape]
  BY DEF Shaped, DevicesShaped, TabsShaped
<1>2. PICK m : m = IF Pending(outbox[d]) THEN [row[d] EXCEPT !.revision = outbox[d].base] ELSE row[d]
  OBVIOUS
<1>3. m \in RowShape
  <2>1. outbox[d].base \in Nat
    BY <1>1 DEF EntryShape
  <2> QED
    BY <1>1, <1>2, <2>1 DEF RowShape
<1>4. /\ Pending(outbox[d]) => m.revision = outbox[d].base /\ m.content = row[d].content
      /\ ~Pending(outbox[d]) => m = row[d]
  BY <1>1, <1>2 DEF RowShape
<1>5. PICK entry : entry = IF outbox[d].writer = t THEN [outbox[d] EXCEPT !.writer = Closed] ELSE outbox[d]
  OBVIOUS
<1>6. /\ entry \in EntryShape /\ outbox' = [outbox EXCEPT ![d] = entry]
      /\ \/ entry = outbox[d]
         \/ Pending(outbox[d]) /\ entry = [outbox[d] EXCEPT !.writer = Closed]
  <2>1. CASE outbox[d].writer = t
    <3>1. outbox[d] # NoEntry
      BY <2>1, Constants DEF NoEntry
    <3>2. entry \in EntryShape
      BY <1>1, <1>5, <2>1 DEF EntryShape
    <3>3. outbox' = [outbox EXCEPT ![d] = entry]
      BY <1>1, <1>5, <2>1 DEF Reload
    <3> QED
      BY <1>5, <2>1, <3>1, <3>2, <3>3 DEF Pending
  <2>2. CASE outbox[d].writer # t
    <3>1. outbox' = outbox
      BY <2>2 DEF Reload
    <3> QED
      BY <1>1, <1>5, <2>2, <3>1
  <2> QED
    BY <2>1, <2>2
<1>7. memory' = [memory EXCEPT ![t] = m]
  BY <1>2 DEF Reload
<1>8. \/ holder[d] = t /\ Finish(d, "idle")
      \/ holder[d] # t /\ UNCHANGED syncVars
  BY DEF Reload
<1>9. Reloaded(t, d, m, entry)
  BY <1>4, <1>6, <1>7, <1>8 DEF Reload, Reloaded
<1> QED
  BY <1>3, <1>6, <1>9

LEMMA ReloadShaped ==
    ASSUME Shaped, NEW t \in Tabs, Reload(t)
    PROVE  Shaped'
<1>1. PICK d \in Devices : d = DeviceOf[t]
  BY Constants
<1>2. PICK entry \in EntryShape, m \in RowShape : Reloaded(t, d, m, entry)
  BY <1>1, ReloadEffect
<1>3. outbox' \in [Devices -> EntryShape] /\ row' \in [Devices -> RowShape]
      /\ recoveries' \in [Devices -> SUBSET SUBSET Edits]
  BY <1>2 DEF Reloaded, Shaped, DevicesShaped
<1>4. DevicesShaped'
  <2>1. CASE Finish(d, "idle")
    BY <1>3, <2>1, FinishShaped DEF Shaped, Steps
  <2>2. CASE UNCHANGED syncVars
    BY <1>3, <2>2 DEF Shaped, DevicesShaped, syncVars
  <2> QED
    BY <1>2, <2>1, <2>2 DEF Reloaded
<1>5. TabsShaped'
  BY <1>2, Constants DEF Reloaded, Shaped, TabsShaped
<1> QED
  BY <1>2, <1>4, <1>5 DEF Reloaded, Shaped, ServerShaped, serverVars

(* What an acknowledgement of the proposal a makes of the entry, and what   *)
(* the acknowledging tab learns.                                            *)
Acknowledged(d, a, next, after, m) ==
    /\ outbox' = [outbox EXCEPT ![d] = after]
    /\ \/ /\ Covers(a, outbox[d]) /\ after = NoEntry
          /\ row' = row /\ lastKey' = lastKey
       \/ /\ ~Covers(a, outbox[d]) /\ Pending(outbox[d])
          /\ after = [outbox[d] EXCEPT !.key = lastKey + 1, !.base = a.base + 1, !.upload = NoAttempt]
          /\ row' = [row EXCEPT ![d] = RowOf(after)] /\ lastKey' = lastKey + 1
       \/ /\ ~Covers(a, outbox[d])
          /\ Pending(outbox[d]) => outbox[d].base >= a.base + 1
          /\ after \in {outbox[d], [outbox[d] EXCEPT !.upload = NoAttempt]}
          /\ row' = row /\ lastKey' = lastKey
    /\ memory' = [memory EXCEPT ![holder[d]] = m]
    /\ \/ m = memory[holder[d]]
       \/ /\ Pending(outbox[d]) /\ Opened(holder[d]) /\ m.content = memory[holder[d]].content
          /\ m.revision = IF Pending(after) THEN after.base ELSE a.base + 1
    /\ LaneFree(holder[d])
    /\ Finish(d, next)
    /\ UNCHANGED <<serverVars, recoveries, copies, active, queued, saving, deferred,
                   made, saved, failures>>

LEMMA AcknowledgeEffect ==
    ASSUME Shaped, NEW d \in Devices, NEW a \in AttemptShape, NEW next, step[d] # "idle",
           Acknowledge(d, a, next)
    PROVE  \E after \in EntryShape, m \in RowShape : Acknowledged(d, a, next, after, m)
<1> PICK t \in Tabs : t = holder[d]
  BY DEF Shaped, DevicesShaped
<1> PICK entry \in EntryShape : entry = outbox[d]
  BY DEF Shaped, DevicesShaped
<1>1. /\ outbox \in [Devices -> EntryShape] /\ memory \in [Tabs -> RowShape]
      /\ lastKey \in Nat /\ a.base + 1 \in Nat /\ entry.base \in Nat
  BY DEF Shaped, ServerShaped, DevicesShaped, TabsShaped, AttemptShape, EntryShape
<1> DEFINE rebases == Pending(entry) /\ ~Covers(a, entry) /\ entry.base < a.base + 1
<1>2. PICK after :
        after = IF Covers(a, entry) THEN NoEntry
                ELSE IF rebases THEN [entry EXCEPT !.key = lastKey + 1, !.base = a.base + 1,
                                                   !.upload = NoAttempt]
                ELSE IF entry.upload.key = a.key THEN [entry EXCEPT !.upload = NoAttempt]
                ELSE entry
  OBVIOUS
<1>3. /\ outbox' = [outbox EXCEPT ![d] = after]
      /\ row' = IF rebases THEN [row EXCEPT ![d] = RowOf(after)] ELSE row
      /\ lastKey' = IF rebases THEN after.key ELSE lastKey
  BY <1>2 DEF Acknowledge
<1>4. after \in EntryShape
  <2>1. NoEntry \in EntryShape /\ NoAttempt \in AttemptShape /\ lastKey + 1 \in Nat
    BY <1>1, Constants
  <2>2. [entry EXCEPT !.upload = NoAttempt] \in EntryShape
    BY <2>1 DEF EntryShape
  <2>3. [entry EXCEPT !.key = lastKey + 1, !.base = a.base + 1, !.upload = NoAttempt] \in EntryShape
    BY <1>1, <2>1 DEF EntryShape
  <2> QED
    BY <1>2, <2>1, <2>2, <2>3
<1>5. \/ /\ Covers(a, entry) /\ after = NoEntry
         /\ row' = row /\ lastKey' = lastKey
      \/ /\ ~Covers(a, entry) /\ Pending(entry)
         /\ after = [entry EXCEPT !.key = lastKey + 1, !.base = a.base + 1, !.upload = NoAttempt]
         /\ row' = [row EXCEPT ![d] = RowOf(after)] /\ lastKey' = lastKey + 1
      \/ /\ ~Covers(a, entry)
         /\ Pending(entry) => entry.base >= a.base + 1
         /\ after \in {entry, [entry EXCEPT !.upload = NoAttempt]}
         /\ row' = row /\ lastKey' = lastKey
  <2>1. CASE Covers(a, entry)
    BY <1>2, <1>3, <2>1
  <2>2. CASE ~Covers(a, entry) /\ rebases
    <3>1. after = [entry EXCEPT !.key = lastKey + 1, !.base = a.base + 1, !.upload = NoAttempt]
      BY <1>2, <2>2
    <3>2. after.key = lastKey + 1
      BY <3>1 DEF EntryShape
    <3> QED
      BY <1>3, <2>2, <3>1, <3>2
  <2>3. CASE ~Covers(a, entry) /\ ~rebases
    <3>1. Pending(entry) => entry.base >= a.base + 1
      BY <1>1, <2>3
    <3> QED
      BY <1>2, <1>3, <2>3, <3>1
  <2> QED
    BY <2>1, <2>2, <2>3
<1>6. \E m \in RowShape :
        /\ memory' = [memory EXCEPT ![t] = m]
        /\ \/ m = memory[t]
           \/ /\ Pending(entry) /\ Opened(t) /\ m.content = memory[t].content
              /\ m.revision = IF Pending(after) THEN after.base ELSE a.base + 1
  <2>1. PICK noted : noted = IF Pending(after) THEN after.base ELSE a.base + 1
    OBVIOUS
  <2>2. memory' = IF Pending(entry) /\ Opened(t) /\ memory[t].revision < noted
                    THEN [memory EXCEPT ![t].revision = noted] ELSE memory
    BY <1>2, <2>1 DEF Acknowledge
  <2>3. CASE Pending(entry) /\ Opened(t) /\ memory[t].revision < noted
    <3>1. PICK m : m = [memory[t] EXCEPT !.revision = noted]
      OBVIOUS
    <3>2. noted \in Nat /\ memory[t] \in RowShape
      BY <1>1, <1>4, <2>1 DEF EntryShape
    <3>3. m \in RowShape /\ m.content = memory[t].content /\ m.revision = noted
      BY <3>1, <3>2 DEF RowShape
    <3>4. memory' = [memory EXCEPT ![t] = m]
      BY <2>2, <2>3, <3>1
    <3> QED
      BY <2>1, <2>3, <3>3, <3>4
  <2>4. CASE ~(Pending(entry) /\ Opened(t) /\ memory[t].revision < noted)
    <3>1. memory' = [memory EXCEPT ![t] = memory[t]]
      BY <1>1, <2>2, <2>4
    <3> QED
      BY <1>1, <3>1
  <2> QED
    BY <2>3, <2>4
<1> PICK m \in RowShape :
        /\ memory' = [memory EXCEPT ![t] = m]
        /\ \/ m = memory[t]
           \/ /\ Pending(entry) /\ Opened(t) /\ m.content = memory[t].content
              /\ m.revision = IF Pending(after) THEN after.base ELSE a.base + 1
  BY <1>6
<1>7. /\ LaneFree(t) /\ Finish(d, next)
      /\ UNCHANGED <<serverVars, recoveries, copies, active, queued, saving, deferred,
                     made, saved, failures>>
  BY DEF Acknowledge
<1>8. Acknowledged(d, a, next, after, m)
  BY <1>3, <1>5, <1>7 DEF Acknowledged
<1> QED
  BY <1>4, <1>8

LEMMA AcknowledgeShaped ==
    ASSUME Shaped, NEW d \in Devices, NEW a \in AttemptShape, NEW next \in Steps, step[d] # "idle",
           Acknowledge(d, a, next)
    PROVE  Shaped'
<1>1. PICK after \in EntryShape, m \in RowShape : Acknowledged(d, a, next, after, m)
  BY AcknowledgeEffect
<1>2. /\ outbox' \in [Devices -> EntryShape] /\ lastKey' \in Nat
      /\ recoveries' \in [Devices -> SUBSET SUBSET Edits]
  BY <1>1 DEF Acknowledged, Shaped, DevicesShaped, ServerShaped
<1>3. row' \in [Devices -> RowShape]
  BY <1>1, Constants DEF Acknowledged, Shaped, DevicesShaped
<1>4. DevicesShaped'
  BY <1>1, <1>2, <1>3, FinishShaped DEF Acknowledged, Shaped
<1>5. TabsShaped'
  BY <1>1 DEF Acknowledged, Shaped, TabsShaped
<1> QED
  BY <1>1, <1>2, <1>4, <1>5 DEF Acknowledged, Shaped, ServerShaped, serverVars

-----------------------------------------------------------------------------
LEMMA LateShaped ==
    ASSUME Shaped, NEW a \in sent, LateDelivery(a)
    PROVE  Shaped'
<1>1. a \in AttemptShape /\ a.key \in Nat
  BY DEF Shaped, ServerShaped, AttemptShape
<1>2. RowOf(a) \in RowShape
  BY <1>1, Constants
<1> QED
  BY <1>1, <1>2 DEF LateDelivery, Execute, Shaped, ServerShaped, DevicesShaped, TabsShaped,
     deviceVars, syncVars, tabVars

LEMMA PurgeShaped ==
    ASSUME Shaped, Purge
    PROVE  Shaped'
  BY Constants DEF Purge, Shaped, ServerShaped, DevicesShaped, TabsShaped, deviceVars, syncVars, tabVars

LEMMA SyncStartShaped ==
    ASSUME Shaped, NEW t \in Tabs, SyncStart(t)
    PROVE  Shaped'
<1>1. PICK d \in Devices : d = DeviceOf[t]
  BY Constants
<1>2. /\ holder' = [holder EXCEPT ![d] = t]
      /\ step' \in {[step EXCEPT ![d] = "push"], [step EXCEPT ![d] = "pull"]}
  BY <1>1 DEF SyncStart
<1>3. PICK next \in {"push", "pull"} : step' = [step EXCEPT ![d] = next]
  BY <1>2
<1>4. /\ holder \in [Devices -> Tabs \cup {NoTab}] /\ step \in [Devices -> Steps]
      /\ \A c \in Devices : step[c] # "idle" => holder[c] \in Tabs
  BY DEF Shaped, DevicesShaped
<1>5. holder' \in [Devices -> Tabs \cup {NoTab}] /\ step' \in [Devices -> Steps]
  BY <1>2, <1>3, <1>4 DEF Steps
<1>6. \A c \in Devices : step'[c] # "idle" => holder'[c] \in Tabs
  BY <1>2, <1>3, <1>4
<1>7. DevicesShaped'
  BY <1>5, <1>6 DEF SyncStart, Shaped, DevicesShaped, deviceVars
<1> QED
  BY <1>7 DEF SyncStart, Shaped, ServerShaped, TabsShaped, serverVars, tabVars

(* The upload a run puts on the wire is the staged one, or the entry.      *)
Sends(d, a) ==
    /\ a \in AttemptShape /\ a = IF Staged(outbox[d]) THEN outbox[d].upload ELSE Proposal(outbox[d])
    /\ step[d] = "push"
    /\ outbox' = [outbox EXCEPT ![d] = [outbox[d] EXCEPT !.upload = a]]
    /\ [outbox[d] EXCEPT !.upload = a] \in EntryShape
    /\ attempt' = [attempt EXCEPT ![d] = a]
    /\ sent' = sent \cup {a}
    /\ step' = [step EXCEPT ![d] = "sent"]
    /\ UNCHANGED <<server, done, discarded, row, recoveries, copies, holder, page,
                   candidate, tabVars, made, saved, lastKey, failures>>

LEMMA StageEffect ==
    ASSUME Shaped, NEW d \in Devices, Stage(d)
    PROVE  \E a : Sends(d, a)
<1>1. outbox \in [Devices -> EntryShape] /\ outbox[d] \in EntryShape
  BY DEF Shaped, DevicesShaped
<1>2. PICK a : a = IF Staged(outbox[d]) THEN outbox[d].upload ELSE Proposal(outbox[d])
  OBVIOUS
<1>3. a \in AttemptShape
  BY <1>1, <1>2, Constants DEF EntryShape
<1>4. [outbox[d] EXCEPT !.upload = a] \in EntryShape
  BY <1>1, <1>3 DEF EntryShape
<1>5. /\ step[d] = "push"
      /\ outbox' = [outbox EXCEPT ![d].upload = a] /\ attempt' = [attempt EXCEPT ![d] = a]
      /\ sent' = sent \cup {a}
      /\ step' = [step EXCEPT ![d] = "sent"]
  BY <1>2 DEF Stage, Proposal
<1>6. outbox' = [outbox EXCEPT ![d] = [outbox[d] EXCEPT !.upload = a]]
  BY <1>1, <1>5
<1>7. Sends(d, a)
  BY <1>2, <1>3, <1>4, <1>5, <1>6 DEF Stage, Sends
<1> QED
  BY <1>7

LEMMA StageShaped ==
    ASSUME Shaped, NEW d \in Devices, Stage(d)
    PROVE  Shaped'
<1>1. PICK a : Sends(d, a)
  BY StageEffect
<1>2. DevicesShaped'
  BY <1>1 DEF Sends, Shaped, DevicesShaped, Steps
<1> QED
  BY <1>1, <1>2 DEF Sends, Shaped, ServerShaped, TabsShaped, tabVars

LEMMA UploadShaped ==
    ASSUME Shaped, NEW d \in Devices, Upload(d)
    PROVE  Shaped'
<1>1. attempt[d] \in AttemptShape /\ attempt[d].key \in Nat
  BY DEF Shaped, DevicesShaped, AttemptShape
<1>2. RowOf(attempt[d]) \in RowShape
  BY <1>1, Constants
<1>3. step' \in {[step EXCEPT ![d] = "accepted"], [step EXCEPT ![d] = "conflict"]} /\ step[d] = "sent"
  BY DEF Upload
<1>4. ServerShaped'
  BY <1>1, <1>2 DEF Upload, Execute, Shaped, ServerShaped
<1>5. DevicesShaped'
  BY <1>3 DEF Upload, Shaped, DevicesShaped, deviceVars, Steps
<1> QED
  BY <1>4, <1>5 DEF Upload, Shaped, TabsShaped, tabVars

LEMMA FailShaped ==
    ASSUME Shaped, NEW d \in Devices, Fail(d)
    PROVE  Shaped'
<1>1. DevicesShaped'
  BY FinishShaped DEF Fail, Shaped, DevicesShaped, deviceVars, Steps
<1> QED
  BY <1>1 DEF Fail, Shaped, ServerShaped, TabsShaped, tabVars, serverVars

LEMMA ConflictShaped ==
    ASSUME Shaped, NEW d \in Devices, Conflict(d)
    PROVE  Shaped'
<1>1. outbox' \in [Devices -> EntryShape]
  <2>1. outbox \in [Devices -> EntryShape] /\ outbox[d] \in EntryShape
    BY DEF Shaped, DevicesShaped
  <2>2. [outbox[d] EXCEPT !.upload = NoAttempt] \in EntryShape
    BY <2>1, Constants DEF EntryShape
  <2>3. outbox' \in {outbox, [outbox EXCEPT ![d] = [outbox[d] EXCEPT !.upload = NoAttempt]]}
    BY <2>1 DEF Conflict
  <2> QED
    BY <2>1, <2>2, <2>3
<1>2. DevicesShaped'
  BY <1>1, FinishShaped DEF Conflict, Shaped, DevicesShaped, Steps
<1> QED
  BY <1>2 DEF Conflict, Shaped, ServerShaped, TabsShaped, tabVars, serverVars

LEMMA FetchShaped ==
    ASSUME Shaped, NEW d \in Devices, Fetch(d)
    PROVE  Shaped'
  BY DEF Fetch, Shaped, ServerShaped, DevicesShaped, TabsShaped, serverVars, deviceVars, tabVars, Steps

LEMMA PassShaped ==
    ASSUME Shaped, NEW d \in Devices, Pass(d)
    PROVE  Shaped'
<1>1. DevicesShaped'
  BY FinishShaped DEF Pass, Shaped, DevicesShaped, deviceVars, Steps
<1> QED
  BY <1>1 DEF Pass, Shaped, ServerShaped, TabsShaped, tabVars, serverVars

(* An answer that is one of the device's own proposals acknowledges it. *)
LEMMA EchoEffect ==
    ASSUME Shaped, NEW d \in Devices, Echo(d)
    PROVE  \E a \in AttemptShape :
              /\ a \in {outbox[d].upload, Proposal(outbox[d])} /\ a # NoAttempt
              /\ RowOf(a) = page[d] /\ Acknowledge(d, a, "idle")
<1>1. PICK a \in Echoes(d) : Acknowledge(d, a, "idle")
  BY DEF Echo
<1>2. a \in {outbox[d].upload, Proposal(outbox[d])} /\ a # NoAttempt /\ RowOf(a) = page[d]
  BY DEF Echoes, Proposal
<1>3. a \in AttemptShape
  <2>1. outbox[d] \in EntryShape
    BY DEF Shaped, DevicesShaped
  <2> QED
    BY <1>2, <2>1, Constants DEF EntryShape
<1> QED
  BY <1>1, <1>2, <1>3

LEMMA EchoShaped ==
    ASSUME Shaped, NEW d \in Devices, Echo(d)
    PROVE  Shaped'
  BY EchoEffect, AcknowledgeShaped DEF Echo, Steps

LEMMA AcceptedShaped ==
    ASSUME Shaped, NEW d \in Devices, NEW next \in {"pull", "idle"}, Accepted(d, next)
    PROVE  Shaped'
<1>1. attempt[d] \in AttemptShape /\ next \in Steps /\ step[d] # "idle"
  BY DEF Shaped, DevicesShaped, Steps, Accepted
<1> QED
  BY <1>1, AcknowledgeShaped DEF Accepted

LEMMA DecideShaped ==
    ASSUME Shaped, NEW d \in Devices, Decide(d)
    PROVE  Shaped'
<1>1. /\ outbox[d] \in EntryShape /\ row[d] \in RowShape /\ outbox[d].content \in SUBSET Edits
      /\ candidate \in [Devices -> CandidateShape] /\ recoveries \in [Devices -> SUBSET SUBSET Edits]
  BY DEF Shaped, DevicesShaped, EntryShape
<1>2. candidate' \in [Devices -> CandidateShape]
  BY <1>1 DEF Decide, CandidateShape
<1>3. recoveries' \in [Devices -> SUBSET SUBSET Edits]
  BY <1>1 DEF Decide
<1>4. DevicesShaped'
  BY <1>2, <1>3 DEF Decide, Shaped, DevicesShaped, Steps
<1> QED
  BY <1>4 DEF Decide, Shaped, ServerShaped, TabsShaped, tabVars, serverVars

LEMMA LockShaped ==
    ASSUME Shaped, NEW d \in Devices, Lock(d)
    PROVE  Shaped'
  BY DEF Lock, Shaped, ServerShaped, DevicesShaped, TabsShaped, serverVars, deviceVars, tabVars, Steps

LEMMA PullCommitShaped ==
    ASSUME Shaped, NEW d \in Devices, Commit(d)
    PROVE  Shaped'
<1>1. outbox' \in [Devices -> EntryShape] /\ row' \in [Devices -> RowShape]
  BY Constants DEF Commit, Shaped, DevicesShaped
<1>2. DevicesShaped'
  BY <1>1, FinishShaped DEF Commit, Shaped, DevicesShaped, Steps
<1> QED
  BY <1>2 DEF Commit, Shaped, ServerShaped, TabsShaped, tabVars, serverVars

LEMMA PublishShaped ==
    ASSUME Shaped, NEW d \in Devices, Publish(d)
    PROVE  Shaped'
<1>1. DevicesShaped'
  BY FinishShaped DEF Publish, Shaped, DevicesShaped, deviceVars, Steps
<1>2. PICK t \in Tabs : t = holder[d]
  BY DEF Shaped, DevicesShaped, Publish
<1>3. page[d] \in RowShape
  BY DEF Shaped, DevicesShaped
<1>4. memory' \in [Tabs -> RowShape]
  BY <1>2, <1>3 DEF Publish, Shaped, TabsShaped
<1>5. deferred' \in [Tabs -> RowShape \cup {NoDeferred}]
  BY <1>2, <1>3 DEF Publish, Shaped, TabsShaped
<1>6. active' \in [Tabs -> BOOLEAN]
  <2>1. PICK stays \in BOOLEAN : active' = [active EXCEPT ![t] = @ /\ stays]
    BY <1>2 DEF Publish
  <2> QED
    BY <2>1 DEF Shaped, TabsShaped
<1> QED
  BY <1>1, <1>4, <1>5, <1>6 DEF Publish, Shaped, ServerShaped, TabsShaped, serverVars

LEMMA RecoveryShaped ==
    ASSUME Shaped, NEW d \in Devices, NEW content, CompleteRecovery(d, content)
    PROVE  Shaped'
<1>1. recoveries' \in [Devices -> SUBSET SUBSET Edits]
  BY DEF CompleteRecovery, Shaped, DevicesShaped
<1> QED
  BY <1>1 DEF CompleteRecovery, Shaped, ServerShaped, DevicesShaped, TabsShaped, serverVars, syncVars, tabVars

(* One operator per action, for the proofs by cases. *)
LEMMA NextCases ==
    ASSUME Next, NEW G,
           \A t \in Tabs, e \in Edits : Type(t, e) \/ Restructure(t, e) => G,
           \A t \in Tabs : Open(t) \/ Leave(t) \/ Reload(t) \/ BeginSave(t) \/ CommitSave(t) \/ SyncStart(t) => G,
           Purge => G,
           \A a \in sent : LateDelivery(a) => G,
           \A d \in Devices : Stage(d) \/ Upload(d) \/ Conflict(d) \/ Fetch(d) \/ Pass(d) \/ Echo(d) => G,
           \A d \in Devices : Decide(d) \/ Lock(d) \/ Commit(d) \/ Publish(d) \/ Fail(d) => G,
           \A d \in Devices, next \in {"pull", "idle"} : Accepted(d, next) => G,
           \A d \in Devices, content \in SUBSET Edits : CompleteRecovery(d, content) => G,
           Shaped
    PROVE  G
<1>1. \A d \in Devices : recoveries[d] \subseteq SUBSET Edits
  BY DEF Shaped, DevicesShaped
<1>2. CASE Users
  BY <1>2 DEF Users
<1>3. CASE \E t \in Tabs : Saves(t) \/ SyncStart(t)
  BY <1>3 DEF Saves
<1>4. ASSUME NEW d \in Devices, Synchronizes(d) \/ Fail(d) PROVE G
  BY <1>4 DEF Synchronizes
<1>5. ASSUME NEW d \in Devices, Recovers(d) PROVE G
  BY <1>1, <1>5 DEF Recovers
<1> QED
  BY <1>2, <1>3, <1>4, <1>5 DEF Next

LEMMA ShapedStep ==
    ASSUME Shaped, [Next]_vars
    PROVE  Shaped'
<1>1. CASE UNCHANGED vars
  BY <1>1 DEF vars, Shaped, ServerShaped, DevicesShaped, TabsShaped, serverVars, deviceVars, syncVars, tabVars
<1>2. CASE Next
  BY <1>2, NextCases, TypeShaped, RestructureShaped, OpenShaped, LeaveShaped, ReloadShaped, BeginShaped,
     CommitShaped, SyncStartShaped, PurgeShaped, LateShaped, StageShaped, UploadShaped, ConflictShaped,
     FetchShaped, PassShaped, EchoShaped, DecideShaped, LockShaped, PullCommitShaped, PublishShaped,
     FailShaped, AcceptedShaped, RecoveryShaped
<1> QED
  BY <1>1, <1>2

LEMMA ShapedInit ==
    ASSUME Init
    PROVE  Shaped
  BY Constants DEF Init, Shaped, ServerShaped, DevicesShaped, TabsShaped, Steps

-----------------------------------------------------------------------------
(***************************************************************************)
(* A row with nothing to upload is one the server executed.                *)
(***************************************************************************)

(* The part of CleanInv about runs, and that about the database.           *)
CleanRun(d) ==
    /\ page[d].key \in done \cup {0}
    /\ step[d] = "accepted" => attempt[d].key \in done

CleanEntry(d) ==
    /\ Pending(outbox[d]) => outbox[d].key >= 1 /\ row[d].key = outbox[d].key
    /\ ~Pending(outbox[d]) => row[d].key \in done \cup {0}

LEMMA CleanParts ==
    CleanInv <=> /\ server.key \in done \cup {0}
                 /\ \A d \in Devices : CleanRun(d) /\ CleanEntry(d)
  BY DEF CleanInv, CleanRun, CleanEntry, CleanRowsAreServerRows, FirstRow

LEMMA CleanFinish ==
    ASSUME Shaped, NEW d \in Devices, NEW next, next # "accepted", Finish(d, next), done' = done,
           \A c \in Devices : CleanRun(c)
    PROVE  \A c \in Devices : CleanRun(c)'
<1>1. /\ step' = [step EXCEPT ![d] = next] /\ page' \in {page, [page EXCEPT ![d] = NoRow]}
      /\ attempt' = [attempt EXCEPT ![d] = NoAttempt]
      /\ NoRow.key = 0
  <2>1. page \in [Devices -> RowShape]
    BY DEF Shaped, DevicesShaped
  <2> QED
    BY <2>1 DEF Finish, NoRow
<1>2. /\ step \in [Devices -> Steps] /\ page \in [Devices -> RowShape]
      /\ attempt \in [Devices -> AttemptShape]
  BY DEF Shaped, DevicesShaped
<1> SUFFICES ASSUME NEW c \in Devices PROVE CleanRun(c)'
  OBVIOUS
<1>3. CASE c = d
  <2>1. step'[c] # "accepted"
    BY <1>1, <1>2, <1>3
  <2>2. page'[c].key \in done \cup {0}
    BY <1>1, <1>2, <1>3 DEF CleanRun
  <2> QED
    BY <2>1, <2>2 DEF CleanRun
<1>4. CASE c # d
  BY <1>1, <1>2, <1>4 DEF CleanRun
<1> QED
  BY <1>3, <1>4

(* Steps that leave the server and the database alone. *)
LEMMA CleanFrame ==
    ASSUME CleanInv, UNCHANGED <<server, done, outbox, row>>,
           (\A d \in Devices : CleanRun(d))  => \A d \in Devices : CleanRun(d)'
    PROVE  CleanInv'
<1>1. \A d \in Devices : CleanEntry(d)'
  BY CleanParts DEF CleanEntry
<1>2. server'.key \in done' \cup {0}
  BY CleanParts
<1> QED
  BY <1>1, <1>2 DEF CleanInv, CleanRun, CleanEntry, CleanRowsAreServerRows, FirstRow

LEMMA CleanQuiet ==
    ASSUME CleanInv, UNCHANGED <<server, done, outbox, row, page, step, attempt>>
    PROVE  CleanInv'
  BY CleanFrame DEF CleanRun

LEMMA CleanTabs ==
    ASSUME CleanInv, NEW t \in Tabs,
           \/ Open(t) \/ Leave(t) \/ BeginSave(t)
           \/ \E e \in Edits : Type(t, e) \/ Restructure(t, e)
    PROVE  CleanInv'
  BY CleanQuiet DEF Open, Leave, BeginSave, Type, Restructure, serverVars, deviceVars, syncVars

LEMMA CleanSteps ==
    ASSUME Shaped, CleanInv, NEW d \in Devices, NEW next, next # "accepted",
           step' = [step EXCEPT ![d] = next],
           UNCHANGED <<server, done, outbox, row, attempt>>,
           page' \in {page, [page EXCEPT ![d] = server]}
    PROVE  CleanInv'
<1>1. /\ step \in [Devices -> Steps] /\ page \in [Devices -> RowShape]
  BY DEF Shaped, DevicesShaped
<1>2. \A c \in Devices : CleanRun(c)'
  BY <1>1, CleanParts DEF CleanRun
<1> QED
  BY <1>2, CleanFrame

LEMMA CleanRuns ==
    ASSUME Shaped, CleanInv, NEW d \in Devices, Fetch(d) \/ Decide(d) \/ Lock(d) \/ Pass(d) \/ Fail(d) \/ Publish(d)
    PROVE  CleanInv'
<1>1. CASE Fetch(d)
  BY <1>1, CleanSteps DEF Fetch, serverVars, deviceVars
<1>2. CASE Decide(d)
  BY <1>2, CleanSteps DEF Decide, serverVars
<1>3. CASE Lock(d)
  BY <1>3, CleanSteps DEF Lock, serverVars, deviceVars
<1>4. CASE Pass(d) \/ Fail(d) \/ Publish(d)
  <2>1. Finish(d, "idle") /\ UNCHANGED <<serverVars, deviceVars>>
    BY <1>4 DEF Pass, Fail, Publish
  <2>2. (\A c \in Devices : CleanRun(c)) => \A c \in Devices : CleanRun(c)'
    BY <2>1, CleanFinish DEF serverVars
  <2> QED
    BY <2>1, <2>2, CleanFrame DEF serverVars, deviceVars
<1> QED
  BY <1>1, <1>2, <1>3, <1>4

LEMMA CleanSyncStart ==
    ASSUME Shaped, CleanInv, NEW t \in Tabs, SyncStart(t)
    PROVE  CleanInv'
<1>1. PICK d \in Devices : d = DeviceOf[t]
  BY Constants
<1>2. PICK next \in {"push", "pull"} : step' = [step EXCEPT ![d] = next]
  BY <1>1 DEF SyncStart
<1> QED
  BY <1>2, CleanSteps DEF SyncStart, serverVars, deviceVars

LEMMA CleanRecovery ==
    ASSUME CleanInv, NEW d \in Devices, NEW content, CompleteRecovery(d, content)
    PROVE  CleanInv'
  BY CleanQuiet DEF CompleteRecovery, serverVars, syncVars

(* The server executes a proposal or forgets the note. *)
LEMMA CleanServer ==
    ASSUME CleanInv, done \subseteq done', server'.key \in done' \cup {0},
           UNCHANGED <<outbox, row>>,
           \A d \in Devices : CleanRun(d) => CleanRun(d)'
    PROVE  CleanInv'
<1>1. \A d \in Devices : CleanEntry(d)'
  BY CleanParts DEF CleanEntry
<1>2. \A d \in Devices : CleanRun(d)'
  BY CleanParts
<1> QED
  BY <1>1, <1>2 DEF CleanInv, CleanRun, CleanEntry, CleanRowsAreServerRows, FirstRow

LEMMA CleanExecutes ==
    ASSUME Shaped, CleanInv, NEW a \in AttemptShape, Execute(a)
    PROVE  done \subseteq done' /\ server'.key \in done' \cup {0}
  BY CleanParts DEF Execute, RowOf

LEMMA CleanLate ==
    ASSUME Shaped, CleanInv, NEW a \in sent, LateDelivery(a)
    PROVE  CleanInv'
<1>1. a \in AttemptShape
  BY DEF Shaped, ServerShaped
<1>2. done \subseteq done' /\ server'.key \in done' \cup {0}
  BY <1>1, CleanExecutes DEF LateDelivery
<1>3. \A d \in Devices : CleanRun(d) => CleanRun(d)'
  BY <1>2 DEF LateDelivery, CleanRun, syncVars
<1> QED
  BY <1>2, <1>3, CleanServer DEF LateDelivery, deviceVars

LEMMA CleanPurge ==
    ASSUME Shaped, CleanInv, Purge
    PROVE  CleanInv'
<1>1. \A d \in Devices : CleanRun(d) => CleanRun(d)'
  BY DEF Purge, CleanRun, syncVars
<1>2. done \subseteq done' /\ server'.key \in done' \cup {0}
  BY DEF Purge, NoRow
<1> QED
  BY <1>1, <1>2, CleanServer DEF Purge, deviceVars

LEMMA CleanUpload ==
    ASSUME Shaped, CleanInv, NEW d \in Devices, Upload(d)
    PROVE  CleanInv'
<1>1. attempt[d] \in AttemptShape /\ step \in [Devices -> Steps]
  BY DEF Shaped, DevicesShaped
<1>2. done \subseteq done' /\ server'.key \in done' \cup {0}
  BY <1>1, CleanExecutes DEF Upload
<1>3. step'[d] = "accepted" => attempt[d].key \in done'
  BY <1>1 DEF Upload, Execute
<1>4. \A c \in Devices : CleanRun(c) => CleanRun(c)'
  BY <1>1, <1>2, <1>3 DEF Upload, CleanRun
<1> QED
  BY <1>2, <1>4, CleanServer DEF Upload, deviceVars

(* The database of one device changes. *)
LEMMA CleanDatabase ==
    ASSUME Shaped, CleanInv, NEW d \in Devices, UNCHANGED <<server, done>>,
           \A c \in Devices : CleanRun(c)',
           CleanEntry(d)',
           \A c \in Devices \ {d} : outbox'[c] = outbox[c] /\ row'[c] = row[c]
    PROVE  CleanInv'
<1>1. \A c \in Devices : CleanEntry(c)'
  BY CleanParts DEF CleanEntry
<1>2. server'.key \in done' \cup {0}
  BY CleanParts
<1> QED
  BY <1>1, <1>2 DEF CleanInv, CleanRun, CleanEntry, CleanRowsAreServerRows, FirstRow

LEMMA CleanCommitSave ==
    ASSUME Shaped, CleanInv, NEW t \in Tabs, CommitSave(t)
    PROVE  CleanInv'
<1>1. PICK d \in Devices : d = DeviceOf[t]
  BY Constants
<1>2. PICK entry \in EntryShape, m \in RowShape : Committed(t, d, entry, m)
  BY <1>1, CommitEffect
<1>3. /\ row \in [Devices -> RowShape] /\ outbox \in [Devices -> EntryShape] /\ lastKey \in Nat
  BY DEF Shaped, ServerShaped, DevicesShaped
<1>4. /\ row' = [row EXCEPT ![d] = RowOf(entry)] /\ outbox' = [outbox EXCEPT ![d] = entry]
      /\ entry.key >= 1 /\ UNCHANGED <<server, done, page, step, attempt>>
  BY <1>2, <1>3 DEF Committed, serverVars, syncVars
<1>5. CleanEntry(d)'
  <2>1. NoEntry.key = 0
    BY DEF NoEntry
  <2>2. outbox'[d] = entry /\ row'[d].key = entry.key /\ entry # NoEntry
    BY <1>3, <1>4, <2>1 DEF RowOf
  <2> QED
    BY <1>4, <2>2 DEF CleanEntry, Pending
<1>6. \A c \in Devices : CleanRun(c)'
  BY <1>4, CleanParts DEF CleanRun
<1> QED
  BY <1>3, <1>4, <1>5, <1>6, CleanDatabase

LEMMA CleanReload ==
    ASSUME Shaped, CleanInv, NEW t \in Tabs, Reload(t)
    PROVE  CleanInv'
<1>1. PICK d \in Devices : d = DeviceOf[t]
  BY Constants
<1>2. PICK entry \in EntryShape, m \in RowShape : Reloaded(t, d, m, entry)
  BY <1>1, ReloadEffect
<1>3. /\ row \in [Devices -> RowShape] /\ outbox \in [Devices -> EntryShape] /\ outbox[d] \in EntryShape
  BY DEF Shaped, DevicesShaped
<1>4. /\ row' = row /\ outbox' = [outbox EXCEPT ![d] = entry] /\ UNCHANGED <<server, done>>
      /\ \/ entry = outbox[d]
         \/ Pending(outbox[d]) /\ entry = [outbox[d] EXCEPT !.writer = Closed]
  BY <1>2 DEF Reloaded, serverVars
<1>5. CleanEntry(d) /\ \A c \in Devices : CleanRun(c)
  BY CleanParts
<1>6. CleanEntry(d)'
  <2>1. CASE entry = outbox[d]
    BY <1>3, <1>4, <1>5, <2>1 DEF CleanEntry
  <2>2. CASE Pending(outbox[d]) /\ entry = [outbox[d] EXCEPT !.writer = Closed]
    <3>1. entry.key = outbox[d].key
      BY <1>3, <2>2 DEF EntryShape
    <3>2. entry.key >= 1 /\ NoEntry.key = 0
      BY <1>5, <2>2, <3>1 DEF CleanEntry, NoEntry
    <3>3. Pending(entry) /\ outbox'[d] = entry
      BY <1>3, <1>4, <3>2 DEF Pending
    <3> QED
      BY <1>4, <1>5, <2>2, <3>1, <3>2, <3>3 DEF CleanEntry
  <2> QED
    BY <1>4, <2>1, <2>2
<1>7. \A c \in Devices : CleanRun(c)'
  <2>1. CASE holder[d] = t /\ Finish(d, "idle")
    BY <1>4, <1>5, <2>1, CleanFinish
  <2>2. CASE UNCHANGED syncVars
    BY <1>4, <1>5, <2>2 DEF CleanRun, syncVars
  <2> QED
    BY <1>2, <2>1, <2>2 DEF Reloaded
<1> QED
  BY <1>3, <1>4, <1>6, <1>7, CleanDatabase

LEMMA CleanStage ==
    ASSUME Shaped, CleanInv, NEW d \in Devices, Stage(d)
    PROVE  CleanInv'
<1>1. PICK a : Sends(d, a)
  BY StageEffect
<1>2. /\ outbox \in [Devices -> EntryShape] /\ outbox[d] \in EntryShape /\ step \in [Devices -> Steps]
      /\ attempt \in [Devices -> AttemptShape]
  BY DEF Shaped, DevicesShaped
<1>3. /\ outbox' = [outbox EXCEPT ![d] = [outbox[d] EXCEPT !.upload = a]]
      /\ step' = [step EXCEPT ![d] = "sent"] /\ attempt' = [attempt EXCEPT ![d] = a]
      /\ UNCHANGED <<server, done, row, page>> /\ step[d] = "push"
      /\ a = IF Staged(outbox[d]) THEN outbox[d].upload ELSE Proposal(outbox[d])
  BY <1>1 DEF Sends
<1>4. CleanEntry(d) /\ \A c \in Devices : CleanRun(c)
  BY CleanParts
<1>5. CleanEntry(d)'
  <2>1. PICK entry : entry = [outbox[d] EXCEPT !.upload = a]
    OBVIOUS
  <2>2. entry.key = outbox[d].key /\ outbox'[d] = entry
    BY <1>2, <1>3, <2>1 DEF EntryShape
  <2>3. CASE Pending(outbox[d])
    <3>1. Pending(entry)
      BY <1>4, <2>2, <2>3 DEF CleanEntry, NoEntry, Pending
    <3> QED
      BY <1>3, <1>4, <2>2, <2>3, <3>1 DEF CleanEntry
  <2>4. CASE ~Pending(outbox[d])
    <3>1. a = NoAttempt
      <4>1. outbox[d] = NoEntry
        BY <2>4 DEF Pending
      <4>2. NoEntry.upload = NoAttempt /\ Proposal(NoEntry) = NoAttempt
        BY DEF NoEntry, NoAttempt, Proposal
      <4> QED
        BY <1>3, <4>1, <4>2
    <3>2. ~Pending(entry)
      BY <2>1, <2>4, <3>1 DEF Pending, NoEntry
    <3> QED
      BY <1>3, <1>4, <2>2, <2>4, <3>2 DEF CleanEntry
  <2> QED
    BY <2>3, <2>4
<1>6. \A c \in Devices : CleanRun(c)'
  BY <1>2, <1>3, <1>4 DEF CleanRun
<1> QED
  BY <1>2, <1>3, <1>5, <1>6, CleanDatabase

(* Withdrawing the upload of an entry. *)
LEMMA Withdrawn ==
    ASSUME NEW entry \in EntryShape, entry = NoEntry \/ entry.key >= 1,
           NEW after, after \in {entry, [entry EXCEPT !.upload = NoAttempt]}
    PROVE  after.key = entry.key /\ (Pending(after) <=> Pending(entry))
<1>1. after.key = entry.key
  BY DEF EntryShape
<1>2. CASE entry = NoEntry
  BY <1>2 DEF NoEntry, Pending
<1>3. CASE entry # NoEntry
  BY <1>1, <1>3 DEF NoEntry, Pending
<1> QED
  BY <1>1, <1>2, <1>3

LEMMA CleanConflict ==
    ASSUME Shaped, CleanInv, NEW d \in Devices, Conflict(d)
    PROVE  CleanInv'
<1>1. outbox \in [Devices -> EntryShape] /\ outbox[d] \in EntryShape
  BY DEF Shaped, DevicesShaped
<1>2. PICK after : /\ after \in {outbox[d], [outbox[d] EXCEPT !.upload = NoAttempt]}
                   /\ outbox' = [outbox EXCEPT ![d] = after]
  BY <1>1 DEF Conflict
<1>3. CleanEntry(d) /\ \A c \in Devices : CleanRun(c)
  BY CleanParts
<1>4. after.key = outbox[d].key /\ (Pending(after) <=> Pending(outbox[d]))
  BY <1>1, <1>2, <1>3, Withdrawn DEF CleanEntry, Pending
<1>5. CleanEntry(d)'
  BY <1>1, <1>2, <1>3, <1>4 DEF CleanEntry, Conflict, serverVars
<1>6. \A c \in Devices : CleanRun(c)'
  BY <1>3, CleanFinish DEF Conflict, serverVars
<1> QED
  BY <1>1, <1>2, <1>5, <1>6, CleanDatabase DEF Conflict, serverVars

(* An acknowledgement ends the entry only when it carries its identifier.  *)
LEMMA CleanAcknowledge ==
    ASSUME Shaped, CleanInv, NEW d \in Devices, NEW a \in AttemptShape, NEW next, next # "accepted",
           step[d] # "idle", Acknowledge(d, a, next),
           Pending(outbox[d]) /\ Covers(a, outbox[d]) => a.key \in done \cup {0}
    PROVE  CleanInv'
<1>1. PICK after \in EntryShape, m \in RowShape : Acknowledged(d, a, next, after, m)
  BY AcknowledgeEffect
<1>2. /\ outbox \in [Devices -> EntryShape] /\ outbox[d] \in EntryShape /\ row \in [Devices -> RowShape]
      /\ lastKey \in Nat
  BY DEF Shaped, DevicesShaped, ServerShaped
<1>3. CleanEntry(d) /\ \A c \in Devices : CleanRun(c)
  BY CleanParts
<1>4. /\ outbox' = [outbox EXCEPT ![d] = after] /\ Finish(d, next) /\ UNCHANGED <<server, done>>
      /\ row' \in {row, [row EXCEPT ![d] = RowOf(after)]}
  BY <1>1 DEF Acknowledged, serverVars
<1>5. CleanEntry(d)'
  <2>1. CASE Covers(a, outbox[d]) /\ after = NoEntry /\ row' = row
    <3>1. row[d].key \in done \cup {0}
      BY <1>3, <2>1 DEF CleanEntry, Covers
    <3> QED
      BY <1>2, <1>4, <2>1, <3>1 DEF CleanEntry, Pending
  <2>2. CASE /\ Pending(outbox[d])
             /\ after = [outbox[d] EXCEPT !.key = lastKey + 1, !.base = a.base + 1, !.upload = NoAttempt]
             /\ row' = [row EXCEPT ![d] = RowOf(after)]
    <3>1. after.key = lastKey + 1 /\ after.key >= 1
      BY <1>2, <2>2 DEF EntryShape
    <3>2. row'[d].key = after.key /\ outbox'[d] = after
      BY <1>2, <1>4, <2>2 DEF RowOf
    <3>3. Pending(after)
      BY <3>1 DEF Pending, NoEntry
    <3> QED
      BY <3>1, <3>2, <3>3 DEF CleanEntry
  <2>3. CASE after \in {outbox[d], [outbox[d] EXCEPT !.upload = NoAttempt]} /\ row' = row
    <3>1. after.key = outbox[d].key /\ (Pending(after) <=> Pending(outbox[d]))
      BY <1>2, <1>3, <2>3, Withdrawn DEF CleanEntry, Pending
    <3> QED
      BY <1>2, <1>3, <1>4, <2>3, <3>1 DEF CleanEntry
  <2> QED
    BY <1>1, <2>1, <2>2, <2>3 DEF Acknowledged
<1>6. \A c \in Devices : CleanRun(c)'
  BY <1>3, <1>4, CleanFinish
<1> QED
  BY <1>2, <1>4, <1>5, <1>6, CleanDatabase

LEMMA CleanAccepted ==
    ASSUME Shaped, CleanInv, NEW d \in Devices, NEW next \in {"pull", "idle"}, Accepted(d, next)
    PROVE  CleanInv'
<1>1. attempt[d] \in AttemptShape /\ step[d] # "idle" /\ Acknowledge(d, attempt[d], next)
  BY DEF Shaped, DevicesShaped, Accepted
<1>2. attempt[d].key \in done
  BY CleanParts DEF CleanRun, Accepted
<1> QED
  BY <1>1, <1>2, CleanAcknowledge

LEMMA CleanEcho ==
    ASSUME Shaped, CleanInv, NEW d \in Devices, Echo(d)
    PROVE  CleanInv'
<1>1. PICK a \in AttemptShape : RowOf(a) = page[d] /\ Acknowledge(d, a, "idle")
  BY EchoEffect
<1>2. a.key \in done \cup {0} /\ step[d] # "idle"
  <2>1. a.key = page[d].key
    BY <1>1 DEF RowOf
  <2> QED
    BY <2>1, CleanParts DEF CleanRun, Echo
<1> QED
  BY <1>1, <1>2, CleanAcknowledge

(* The pull installs what the server answered. *)
LEMMA CleanCommit ==
    ASSUME Shaped, CleanInv, NEW d \in Devices, Commit(d)
    PROVE  CleanInv'
<1>1. outbox \in [Devices -> EntryShape] /\ row \in [Devices -> RowShape]
  BY DEF Shaped, DevicesShaped
<1>2. CleanEntry(d) /\ \A c \in Devices : CleanRun(c)
  BY CleanParts
<1>3. PICK next \in {"publish", "idle"} : Finish(d, next)
  BY DEF Commit
<1>4. \/ row' = [row EXCEPT ![d] = page[d]] /\ outbox' = [outbox EXCEPT ![d] = NoEntry]
      \/ UNCHANGED <<row, outbox>>
  BY DEF Commit
<1>5. CleanEntry(d)'
  BY <1>1, <1>2, <1>4 DEF CleanEntry, CleanRun, Pending, Commit, serverVars
<1>6. \A c \in Devices : CleanRun(c)'
  BY <1>2, <1>3, CleanFinish DEF Commit, serverVars
<1> QED
  BY <1>1, <1>4, <1>5, <1>6, CleanDatabase DEF Commit, serverVars

LEMMA CleanStep ==
    ASSUME Shaped, CleanInv, [Next]_vars
    PROVE  CleanInv'
<1>1. CASE UNCHANGED vars
  BY <1>1, CleanQuiet DEF vars, serverVars, deviceVars, syncVars
<1>2. CASE Next
  BY <1>2, NextCases, CleanTabs, CleanReload, CleanCommitSave, CleanSyncStart, CleanPurge, CleanLate,
     CleanStage, CleanUpload, CleanConflict, CleanRuns, CleanEcho, CleanCommit, CleanAccepted,
     CleanRecovery
<1> QED
  BY <1>1, <1>2

LEMMA CleanInit ==
    ASSUME Init
    PROVE  CleanInv
<1>1. server.key \in done \cup {0}
  BY DEF Init, FirstRow
<1>2. ASSUME NEW d \in Devices PROVE CleanRun(d) /\ CleanEntry(d)
  BY DEF Init, FirstRow, CleanRun, CleanEntry, Pending, NoRow
<1> QED
  BY <1>1, <1>2, CleanParts

(* A device with nothing left to upload holds a version the server         *)
(* executed: acknowledgeOutboxEntry and the pull transaction never end a   *)
(* proposal the server has not taken, however saves of several tabs, late  *)
(* deliveries, purges, reloads and failed runs interleave.                 *)
THEOREM CleanRowsAreExecuted == Spec => []CleanRowsAreServerRows
<1>1. Init => Shaped /\ CleanInv
  BY ShapedInit, CleanInit
<1>2. (Shaped /\ CleanInv) /\ [Next]_vars => (Shaped /\ CleanInv)'
  BY ShapedStep, CleanStep
<1>3. CleanInv => CleanRowsAreServerRows
  BY DEF CleanInv
<1> QED
  BY <1>1, <1>2, <1>3, PTL DEF Spec

-----------------------------------------------------------------------------
(***************************************************************************)
(* No edit is lost.                                                        *)
(***************************************************************************)

(* Edits that are safe apart from the note, whatever happens to it.        *)
Safe(purged, copied, sources) == purged \cup copied \cup UNION {UNION sources[d] : d \in Devices}
Aside == Safe(discarded, copies, recoveries)

(* Whoever proposes x to take the place of revision r of the note s knew   *)
(* what the note held then, or it is safe.                                 *)
Knows(s, safe, r, x) ==
    /\ r >= 1
    /\ s # NoRow => /\ r <= s.revision
                    /\ r = s.revision => s.content \subseteq x \cup safe

KnownRow(s, safe, r) == r = NoRow \/ Knows(s, safe, r.revision, r.content)

(* What was executed is still there, or was built upon. *)
Executed(s, safe, a) ==
    /\ a.content \subseteq safe \cup s.content
    /\ s # NoRow => /\ a.base + 1 <= s.revision
                    /\ a.base + 1 = s.revision => s.content = a.content

(* Identifiers are used once. *)
ServerInv ==
    /\ server = NoRow \/ server.revision >= 1
    /\ \A a, b \in sent : a.key = b.key => a = b
    /\ \A a \in sent : a.key \in 1..lastKey /\ Knows(server, Aside, a.base, a.content)
    /\ \A k \in done : \E a \in sent : a.key = k
    /\ \A a \in sent : a.key \in done => Executed(server, Aside, a)

(* So are those of entries; what was sent under the identifier of an entry *)
(* is that entry.                                                          *)
KeysInv ==
    /\ \A d \in Devices : Pending(outbox[d]) =>
         /\ outbox[d].key <= lastKey
         /\ \A a \in sent : a.key = outbox[d].key => a = Proposal(outbox[d])
    /\ \A c, d \in Devices : Pending(outbox[c]) /\ Pending(outbox[d]) /\ c # d
         => outbox[c].key # outbox[d].key

EntryInv(d) ==
    /\ Pending(outbox[d]) =>
         /\ Knows(server, Aside, outbox[d].base, outbox[d].content)
         /\ row[d] = RowOf(outbox[d])
         /\ Staged(outbox[d]) => /\ outbox[d].upload \in sent
                                 /\ outbox[d].upload.content \subseteq outbox[d].content \cup Aside
    /\ ~Pending(outbox[d]) => KnownRow(server, Aside, row[d])

RunInv(d) ==
    /\ KnownRow(server, Aside, page[d])
    /\ holder[d] \in Tabs => DeviceOf[holder[d]] = d
    /\ step[d] \in {"push", "sent", "accepted", "conflict"} => Pending(outbox[d])
    /\ step[d] \in {"sent", "accepted", "conflict"}
         => Staged(outbox[d]) /\ attempt[d] = outbox[d].upload
    /\ step[d] \in {"decided", "locked"} /\ Pending(candidate[d].entry)
         => candidate[d].entry.content \subseteq Aside
    /\ step[d] = "publish" => ~Pending(outbox[d])

MemoryInv(t) ==
    /\ KnownRow(server, Aside, memory[t])
    /\ deferred[t] # NoDeferred => KnownRow(server, Aside, deferred[t])
    /\ Pending(outbox[DeviceOf[t]]) /\ Opened(t)
         => outbox[DeviceOf[t]].content \subseteq memory[t].content \cup Aside

SaveInv(t) ==
    /\ saving[t].stage # "none" =>
         /\ ~LaneLocked(t) /\ Opened(t)
         /\ Pending(outbox[DeviceOf[t]])
              => outbox[DeviceOf[t]].content \subseteq saving[t].content \cup Aside
         /\ ~saving[t].direct => saving[t].content \subseteq memory[t].content
    /\ saving[t].stage = "waits" => Knows(server, Aside, memory[t].revision, saving[t].content)
    /\ saving[t].stage = "encrypts" =>
         /\ Knows(server, Aside, saving[t].base, saving[t].content)
         /\ saving[t].upload # NoAttempt =>
              /\ saving[t].upload \in sent
              /\ saving[t].upload.content \subseteq saving[t].content \cup Aside

DevicesInv ==
    /\ \A d \in Devices : EntryInv(d) /\ RunInv(d)
    /\ \A t \in Tabs : MemoryInv(t) /\ SaveInv(t)

EditInv == Shaped /\ CleanInv /\ ServerInv /\ KeysInv /\ DevicesInv /\ NoLostEdit

(* One window per device; and the habits that cost edits do not occur.     *)
OneWindow == \A s, t \in Tabs : DeviceOf[s] = DeviceOf[t] => s = t
Orderly == Habits \cap {"structural", "leave"} = {}

LEMMA SafeFacts ==
    ASSUME NEW purged, NEW copied, NEW sources
    PROVE  /\ purged \subseteq Safe(purged, copied, sources) /\ copied \subseteq Safe(purged, copied, sources)
           /\ \A d \in Devices : \A content \in sources[d] : content \subseteq Safe(purged, copied, sources)
           /\ \A purged2, copied2, sources2 :
                /\ purged \subseteq purged2 /\ copied \subseteq copied2
                /\ \A d \in Devices : sources[d] \subseteq sources2[d]
                => Safe(purged, copied, sources) \subseteq Safe(purged2, copied2, sources2)
  BY DEF Safe

LEMMA AsideGrows ==
    ASSUME discarded \subseteq discarded', copies \subseteq copies',
           \A d \in Devices : recoveries[d] \subseteq recoveries'[d]
    PROVE  Aside \subseteq Aside'
  BY SafeFacts DEF Aside

LEMMA AsideStays ==
    ASSUME UNCHANGED <<discarded, copies, recoveries>>
    PROVE  Aside' = Aside
  BY DEF Aside

LEMMA AsideHolds ==
    ASSUME NEW d \in Devices
    PROVE  /\ \A content \in recoveries[d] : content \subseteq Aside
           /\ \A content \in recoveries'[d] : content \subseteq Aside'
  BY SafeFacts DEF Aside

(* How the server and the safe edits go on. *)
Advances(s, safe, s2, safe2) ==
    /\ safe \subseteq safe2
    /\ \/ s2 = s
       \/ s2 = NoRow
       \/ s # NoRow /\ s.revision < s2.revision

LEMMA KnowsMore ==
    ASSUME NEW s, NEW safe, NEW r, NEW x, NEW y, x \subseteq y \cup safe, Knows(s, safe, r, x)
    PROVE  Knows(s, safe, r, y)
  BY DEF Knows

LEMMA KnowsAdvances ==
    ASSUME NEW s \in RowShape, NEW s2 \in RowShape, NEW safe, NEW safe2, Advances(s, safe, s2, safe2),
           NEW r \in Nat, NEW x, Knows(s, safe, r, x)
    PROVE  Knows(s2, safe2, r, x)
<1>1. s.revision \in Nat /\ s2.revision \in Nat
  BY DEF RowShape
<1> QED
  BY <1>1 DEF Knows, Advances

LEMMA KnownRowAdvances ==
    ASSUME NEW s \in RowShape, NEW s2 \in RowShape, NEW safe, NEW safe2, Advances(s, safe, s2, safe2),
           NEW r \in RowShape, KnownRow(s, safe, r)
    PROVE  KnownRow(s2, safe2, r)
<1>1. r.revision \in Nat
  BY DEF RowShape
<1> QED
  BY <1>1, KnowsAdvances DEF KnownRow

WorldAdvances == Advances(server, Aside, server', Aside') /\ sent \subseteq sent'

SameDevice(d) ==
    /\ outbox'[d] = outbox[d] /\ row'[d] = row[d] /\ page'[d] = page[d] /\ holder'[d] = holder[d]
    /\ step'[d] = step[d] /\ attempt'[d] = attempt[d] /\ candidate'[d] = candidate[d]

SameTab(t) == memory'[t] = memory[t] /\ deferred'[t] = deferred[t] /\ saving'[t] = saving[t]

(* What a step leaves alone stays as it should be. *)
LEMMA EntryFrame ==
    ASSUME Shaped, Shaped', WorldAdvances, NEW d \in Devices, EntryInv(d),
           outbox'[d] = outbox[d], row'[d] = row[d]
    PROVE  EntryInv(d)'
<1>1. PICK entry \in EntryShape : entry = outbox[d]
  BY DEF Shaped, DevicesShaped
<1>2. PICK r \in RowShape : r = row[d]
  BY DEF Shaped, DevicesShaped
<1>3. /\ server \in RowShape /\ server' \in RowShape /\ Advances(server, Aside, server', Aside')
      /\ Aside \subseteq Aside' /\ sent \subseteq sent'
  BY DEF Shaped, ServerShaped, WorldAdvances, Advances
<1>4. CASE Pending(entry)
  <2>1. Knows(server', Aside', entry.base, entry.content)
    <3>1. entry.base \in Nat /\ Knows(server, Aside, entry.base, entry.content)
      BY <1>1, <1>4 DEF EntryInv, EntryShape
    <3> QED
      BY <1>3, <3>1, KnowsAdvances
  <2> QED
    BY <1>1, <1>3, <1>4, <2>1 DEF EntryInv
<1>5. CASE ~Pending(entry)
  <2>1. KnownRow(server', Aside', r)
    BY <1>1, <1>2, <1>3, <1>5, KnownRowAdvances DEF EntryInv
  <2> QED
    BY <1>1, <1>2, <1>5, <2>1 DEF EntryInv
<1> QED
  BY <1>4, <1>5

LEMMA AnswerFrame ==
    ASSUME Shaped, Shaped', WorldAdvances, NEW d \in Devices, RunInv(d), page'[d] \in {page[d], NoRow}
    PROVE  KnownRow(server', Aside', page'[d])
<1>1. PICK r \in RowShape : r = page[d]
  BY DEF Shaped, DevicesShaped
<1>2. KnownRow(server', Aside', r)
  BY <1>1, KnownRowAdvances DEF RunInv, Shaped, ServerShaped, WorldAdvances
<1> QED
  BY <1>1, <1>2 DEF KnownRow

LEMMA RunFrame ==
    ASSUME Shaped, Shaped', WorldAdvances, NEW d \in Devices, RunInv(d), SameDevice(d)
    PROVE  RunInv(d)'
<1>1. KnownRow(server', Aside', page'[d])
  BY AnswerFrame DEF SameDevice
<1>2. Aside \subseteq Aside'
  BY DEF WorldAdvances, Advances
<1> QED
  BY <1>1, <1>2 DEF RunInv, SameDevice

LEMMA MemoryFrame ==
    ASSUME Shaped, Shaped', WorldAdvances, NEW t \in Tabs, MemoryInv(t), memory'[t] = memory[t],
           deferred'[t] \in {deferred[t], NoDeferred}, outbox'[DeviceOf[t]] = outbox[DeviceOf[t]]
    PROVE  MemoryInv(t)'
<1>1. PICK m \in RowShape : m = memory[t]
  BY DEF Shaped, TabsShaped
<1>2. KnownRow(server', Aside', m)
  BY <1>1, KnownRowAdvances DEF MemoryInv, Shaped, ServerShaped, WorldAdvances
<1>3. deferred'[t] # NoDeferred => KnownRow(server', Aside', deferred'[t])
  <2> SUFFICES ASSUME deferred'[t] # NoDeferred PROVE KnownRow(server', Aside', deferred'[t])
    OBVIOUS
  <2>1. PICK r \in RowShape : r = deferred[t] /\ r # NoDeferred
    BY DEF Shaped, TabsShaped
  <2> QED
    BY <2>1, KnownRowAdvances DEF MemoryInv, Shaped, ServerShaped, WorldAdvances
<1>4. Aside \subseteq Aside'
  BY DEF WorldAdvances, Advances
<1> QED
  BY <1>1, <1>2, <1>3, <1>4 DEF MemoryInv, Opened

LEMMA SaveFrame ==
    ASSUME Shaped, Shaped', WorldAdvances, NEW t \in Tabs, SaveInv(t), saving'[t] = saving[t],
           memory'[t].revision = memory[t].revision, memory[t].content \subseteq memory'[t].content,
           Opened(t) => Opened(t)',
           outbox'[DeviceOf[t]].content = outbox[DeviceOf[t]].content,
           Pending(outbox'[DeviceOf[t]]) => Pending(outbox[DeviceOf[t]]),
           LaneLocked(t)' => LaneLocked(t)
    PROVE  SaveInv(t)'
<1>1. PICK save \in SavingShape : save = saving[t]
  BY DEF Shaped, TabsShaped
<1>2. PICK r \in Nat : r = memory[t].revision
  BY DEF Shaped, TabsShaped, RowShape
<1>3. save.base \in Nat /\ server \in RowShape /\ server' \in RowShape
  BY <1>1 DEF SavingShape, Shaped, ServerShaped
<1>4. Aside \subseteq Aside' /\ sent \subseteq sent' /\ Advances(server, Aside, server', Aside')
  BY DEF WorldAdvances, Advances
<1>5. Knows(server, Aside, r, save.content) => Knows(server', Aside', r, save.content)
  BY <1>3, <1>4, KnowsAdvances
<1>6. Knows(server, Aside, save.base, save.content) => Knows(server', Aside', save.base, save.content)
  BY <1>3, <1>4, KnowsAdvances
<1>7. PICK e, e2 : e = outbox[DeviceOf[t]] /\ e2 = outbox'[DeviceOf[t]]
  OBVIOUS
<1>8. (Pending(e2) => Pending(e)) /\ e2.content = e.content
  BY <1>7
<1>9. save.stage # "none" =>
        /\ ~LaneLocked(t)' /\ Opened(t)'
        /\ Pending(e2) => e2.content \subseteq save.content \cup Aside'
        /\ ~save.direct => save.content \subseteq memory'[t].content
  BY <1>1, <1>4, <1>7, <1>8 DEF SaveInv
<1>10. save.stage = "waits" => Knows(server', Aside', r, save.content)
  BY <1>1, <1>2, <1>5 DEF SaveInv
<1>11. save.stage = "encrypts" =>
         /\ Knows(server', Aside', save.base, save.content)
         /\ save.upload # NoAttempt =>
              /\ save.upload \in sent'
              /\ save.upload.content \subseteq save.content \cup Aside'
  BY <1>1, <1>4, <1>6 DEF SaveInv
<1> QED
  BY <1>1, <1>2, <1>7, <1>9, <1>10, <1>11 DEF SaveInv

LEMMA NotSaving ==
    ASSUME NEW t \in Tabs, saving'[t].stage = "none"
    PROVE  SaveInv(t)'
  BY DEF SaveInv

LEMMA Elsewhere ==
    ASSUME EditInv, Shaped', WorldAdvances
    PROVE  /\ \A d \in Devices : SameDevice(d) => EntryInv(d)' /\ RunInv(d)'
           /\ \A t \in Tabs : SameTab(t) /\ SameDevice(DeviceOf[t]) => MemoryInv(t)' /\ SaveInv(t)'
<1>1. ASSUME NEW d \in Devices, SameDevice(d) PROVE EntryInv(d)' /\ RunInv(d)'
  BY <1>1, EntryFrame, RunFrame DEF EditInv, DevicesInv, SameDevice
<1>2. ASSUME NEW t \in Tabs, SameTab(t), SameDevice(DeviceOf[t]) PROVE MemoryInv(t)' /\ SaveInv(t)'
  <2>1. MemoryInv(t)'
    BY <1>2, MemoryFrame DEF EditInv, DevicesInv, SameTab, SameDevice
  <2>2. LaneLocked(t)' => LaneLocked(t)
    BY <1>2 DEF LaneLocked, SameDevice
  <2>3. Opened(t) => Opened(t)'
    BY <1>2 DEF Opened, SameTab
  <2>4. SaveInv(t)'
    BY <1>2, <2>2, <2>3, SaveFrame DEF EditInv, DevicesInv, SameTab, SameDevice
  <2> QED
    BY <2>1, <2>4
<1> QED
  BY <1>1, <1>2

(* A step of one device, of the window that runs on it. *)
LEMMA DeviceStep ==
    ASSUME EditInv, Shaped', WorldAdvances, NEW d \in Devices,
           \A c \in Devices \ {d} : SameDevice(c),
           \A t \in Tabs : DeviceOf[t] # d => SameTab(t),
           EntryInv(d)', RunInv(d)',
           \A t \in Tabs : DeviceOf[t] = d => MemoryInv(t)' /\ SaveInv(t)'
    PROVE  DevicesInv'
<1>1. \A c \in Devices : EntryInv(c)' /\ RunInv(c)'
  BY Elsewhere
<1>2. \A t \in Tabs : MemoryInv(t)' /\ SaveInv(t)'
  BY Elsewhere, Constants
<1> QED
  BY <1>1, <1>2 DEF DevicesInv

LEMMA LostMeaning ==
    /\ NoLostEdit <=> saved \subseteq Aside \cup server.content \cup UNION {outbox[d].content : d \in Devices}
    /\ NoLostEdit' <=> saved' \subseteq Aside' \cup server'.content \cup UNION {outbox'[d].content : d \in Devices}
  BY DEF NoLostEdit, Aside, Safe

LEMMA ServerKept ==
    ASSUME EditInv, UNCHANGED <<server, done, sent>>, Aside \subseteq Aside', lastKey' \in {lastKey, lastKey + 1}
    PROVE  ServerInv' /\ WorldAdvances
<1>1. WorldAdvances
  BY DEF WorldAdvances, Advances
<1>2. \A a \in sent : a.key \in Nat /\ lastKey \in Nat
  BY DEF EditInv, Shaped, ServerShaped, AttemptShape
<1>3. \A a \in sent : a.key \in 1..lastKey'
  BY <1>2 DEF EditInv, ServerInv
<1>4. \A a \in sent : Knows(server, Aside', a.base, a.content)
  BY DEF EditInv, ServerInv, Knows
<1>5. \A a \in sent : a.key \in done => Executed(server, Aside', a)
  BY DEF EditInv, ServerInv, Executed
<1>6. ServerInv'
  BY <1>3, <1>4, <1>5 DEF EditInv, ServerInv
<1> QED
  BY <1>1, <1>6

(* Steps that leave the server and the outboxes alone. *)
LEMMA GlobalQuiet ==
    ASSUME EditInv, UNCHANGED <<server, done, sent, lastKey, outbox, saved>>, Aside \subseteq Aside'
    PROVE  ServerInv' /\ KeysInv' /\ NoLostEdit' /\ WorldAdvances
<1>1. ServerInv' /\ WorldAdvances
  BY ServerKept
<1>2. KeysInv'
  BY DEF EditInv, KeysInv
<1>3. NoLostEdit'
  BY LostMeaning DEF EditInv
<1> QED
  BY <1>1, <1>2, <1>3

(* Steps that replace or end one entry. *)
Replaces(d, after) ==
    /\ outbox' = [outbox EXCEPT ![d] = after]
    /\ UNCHANGED <<server, done, sent>>
    /\ Aside \subseteq Aside'
    /\ \/ /\ Pending(after) => Pending(outbox[d]) /\ Proposal(after) = Proposal(outbox[d])
          /\ lastKey' = lastKey
       \/ after.key = lastKey + 1 /\ lastKey' = lastKey + 1
    /\ outbox[d].content \subseteq after.content \cup Aside' \cup server.content
    /\ saved' \subseteq saved \cup after.content

LEMMA GlobalEntry ==
    ASSUME EditInv, NEW d \in Devices, NEW after, Replaces(d, after)
    PROVE  ServerInv' /\ KeysInv' /\ NoLostEdit' /\ WorldAdvances
<1>1. ServerInv' /\ WorldAdvances
  BY ServerKept DEF Replaces
<1>2. outbox \in [Devices -> EntryShape] /\ lastKey \in Nat
  BY DEF EditInv, Shaped, ServerShaped, DevicesShaped
<1>3. KeysInv'
  <2>1. CASE /\ Pending(after) => Pending(outbox[d]) /\ Proposal(after) = Proposal(outbox[d])
             /\ lastKey' = lastKey
    <3>1. \A c \in Devices : Pending(outbox'[c]) =>
             Pending(outbox[c]) /\ Proposal(outbox'[c]) = Proposal(outbox[c]) /\ outbox'[c].key = outbox[c].key
      <4>1. Proposal(after) = Proposal(outbox[d]) => after.key = outbox[d].key
        BY DEF Proposal
      <4> QED
        BY <1>2, <2>1, <4>1 DEF Replaces
    <3> QED
      BY <2>1, <3>1 DEF EditInv, KeysInv, Replaces
  <2>2. CASE after.key = lastKey + 1 /\ lastKey' = lastKey + 1
    <3>1. \A a \in sent : a.key <= lastKey /\ a.key \in Nat
      BY DEF EditInv, ServerInv, Shaped, ServerShaped, AttemptShape
    <3>2. \A c \in Devices : c # d => outbox'[c] = outbox[c] /\ outbox[c].key \in Nat
      BY <1>2 DEF Replaces, EntryShape
    <3>3. outbox'[d] = after
      BY <1>2 DEF Replaces
    <3>4. \A c \in Devices : c # d /\ Pending(outbox'[c]) =>
             /\ outbox'[c].key <= lastKey
             /\ \A a \in sent : a.key = outbox'[c].key => a = Proposal(outbox'[c])
      BY <3>2 DEF EditInv, KeysInv
    <3>5. \A c \in Devices : Pending(outbox'[c]) =>
             /\ outbox'[c].key <= lastKey'
             /\ \A a \in sent : a.key = outbox'[c].key => a = Proposal(outbox'[c])
      BY <1>2, <2>2, <3>1, <3>2, <3>3, <3>4
    <3>6. \A b, c \in Devices : Pending(outbox'[b]) /\ Pending(outbox'[c]) /\ b # c
             => outbox'[b].key # outbox'[c].key
      <4> SUFFICES ASSUME NEW b \in Devices, NEW c \in Devices, Pending(outbox'[b]), Pending(outbox'[c]), b # c
                   PROVE outbox'[b].key # outbox'[c].key
        OBVIOUS
      <4>1. CASE b = d
        BY <1>2, <2>2, <3>2, <3>3, <3>4, <4>1
      <4>2. CASE c = d
        BY <1>2, <2>2, <3>2, <3>3, <3>4, <4>2
      <4>3. CASE b # d /\ c # d
        BY <3>2, <4>3 DEF EditInv, KeysInv
      <4> QED
        BY <4>1, <4>2, <4>3
    <3> QED
      BY <3>5, <3>6 DEF KeysInv, Replaces
  <2> QED
    BY <2>1, <2>2 DEF Replaces
<1>4. NoLostEdit'
  <2>1. outbox'[d] = after /\ \A c \in Devices : c # d => outbox'[c] = outbox[c]
    BY <1>2 DEF Replaces
  <2> SUFFICES ASSUME NEW e \in saved'
               PROVE  e \in Aside' \/ e \in server'.content \/ \E c \in Devices : e \in outbox'[c].content
    BY LostMeaning
  <2>2. CASE e \in after.content
    BY <2>1, <2>2
  <2>3. CASE e \in saved
    <3>1. e \in Aside \/ e \in server.content \/ \E c \in Devices : e \in outbox[c].content
      BY <2>3, LostMeaning DEF EditInv
    <3> QED
      BY <2>1, <3>1 DEF Replaces
  <2> QED
    BY <2>2, <2>3 DEF Replaces
<1> QED
  BY <1>1, <1>3, <1>4

(* What a step must achieve, given that types and rows are in order. *)
EditNext == ServerInv' /\ KeysInv' /\ NoLostEdit' /\ DevicesInv'

-----------------------------------------------------------------------------
(* Quiet steps of a window or of a run: types, rows, entries and the       *)
(* server are not touched, edits may become safe.                          *)
LEMMA TypeEdits ==
    ASSUME OneWindow, EditInv, Shaped', NEW t \in Tabs, NEW e \in Edits, Type(t, e)
    PROVE  EditNext
<1>1. /\ UNCHANGED <<server, done, sent, lastKey, outbox, saved>> /\ Aside' = Aside
      /\ \A d \in Devices : SameDevice(d)
      /\ saving' = saving /\ deferred' = deferred
  BY AsideStays DEF Type, serverVars, deviceVars, syncVars, SameDevice
<1>2. ServerInv' /\ KeysInv' /\ NoLostEdit' /\ WorldAdvances
  BY <1>1, GlobalQuiet
<1>3. /\ memory \in [Tabs -> RowShape] /\ memory[t] \in RowShape
      /\ memory' = [memory EXCEPT ![t] = [memory[t] EXCEPT !.content = @ \cup {e}]]
      /\ Opened(t)
  BY DEF Type, EditInv, Shaped, TabsShaped
<1>4. PICK m : m = [memory[t] EXCEPT !.content = @ \cup {e}]
  OBVIOUS
<1>5. /\ memory'[t] = m /\ m.revision = memory[t].revision /\ m.content = memory[t].content \cup {e}
      /\ \A s \in Tabs : s # t => memory'[s] = memory[s]
  BY <1>3, <1>4 DEF RowShape
<1>6. MemoryInv(t) /\ SaveInv(t)
  BY DEF EditInv, DevicesInv
<1>7. Knows(server, Aside, m.revision, m.content)
  BY <1>3, <1>5, <1>6, KnowsMore DEF MemoryInv, KnownRow, Opened
<1>8. MemoryInv(t)'
  BY <1>1, <1>3, <1>5, <1>6, <1>7 DEF MemoryInv, KnownRow, Opened
<1>9. SaveInv(t)'
  <2>1. Opened(t)'
    BY <1>5, <1>7 DEF Opened, Knows, NoRow
  <2>2. LaneLocked(t)' => LaneLocked(t)
    BY <1>1, Constants DEF LaneLocked, SameDevice
  <2> QED
    BY <1>1, <1>2, <1>5, <1>6, <2>1, <2>2, SaveFrame DEF EditInv
<1>10. \A s \in Tabs : s # t => SameTab(s)
  BY <1>1, <1>5 DEF SameTab
<1>11. DevicesInv'
  BY <1>1, <1>2, <1>8, <1>9, <1>10, Elsewhere, Constants DEF DevicesInv
<1> QED
  BY <1>2, <1>11 DEF EditNext

LEMMA RestructureEdits ==
    ASSUME OneWindow, Orderly, EditInv, Shaped', NEW t \in Tabs, NEW e \in Edits, Restructure(t, e)
    PROVE  EditNext
<1>1. /\ UNCHANGED <<server, done, sent, lastKey, outbox, saved>> /\ Aside' = Aside
      /\ \A d \in Devices : SameDevice(d)
      /\ memory' = memory /\ deferred' = deferred
  BY AsideStays DEF Restructure, serverVars, deviceVars, syncVars, SameDevice
<1>2. ServerInv' /\ KeysInv' /\ NoLostEdit' /\ WorldAdvances
  BY <1>1, GlobalQuiet
<1>3. Opened(t) /\ ~LaneLocked(t)
  BY DEF Restructure, Orderly
<1>4. PICK save : save = [NoSaving EXCEPT !.stage = "waits", !.direct = TRUE,
                                     !.content = memory[t].content \cup {e},
                                     !.base = memory[t].revision]
  OBVIOUS
<1>5. /\ saving'[t] = save /\ \A s \in Tabs : s # t => saving'[s] = saving[s]
      /\ save.stage = "waits" /\ save.content = memory[t].content \cup {e}
  BY <1>4 DEF Restructure, EditInv, Shaped, TabsShaped, NoSaving
<1>6. save.direct
  BY <1>4 DEF NoSaving
<1>7. MemoryInv(t)
  BY DEF EditInv, DevicesInv
<1>8. Knows(server, Aside, memory[t].revision, save.content)
  BY <1>3, <1>5, <1>7, KnowsMore DEF MemoryInv, KnownRow, Opened
<1>9. Pending(outbox[DeviceOf[t]]) => outbox[DeviceOf[t]].content \subseteq save.content \cup Aside
  BY <1>3, <1>5, <1>7 DEF MemoryInv
<1>10. ~LaneLocked(t)' /\ Opened(t)'
  BY <1>1, <1>3, Constants DEF LaneLocked, SameDevice, Opened
<1>11. SaveInv(t)'
  BY <1>1, <1>5, <1>6, <1>8, <1>9, <1>10 DEF SaveInv
<1>12. MemoryInv(t)'
  BY <1>1, <1>7 DEF MemoryInv, Opened
<1>13. \A s \in Tabs : s # t => SameTab(s)
  BY <1>1, <1>5 DEF SameTab
<1>14. DevicesInv'
  BY <1>1, <1>2, <1>11, <1>12, <1>13, Elsewhere, Constants DEF DevicesInv
<1> QED
  BY <1>2, <1>14 DEF EditNext

(* Steps that touch nothing the invariant is about. *)
LEMMA StillEdits ==
    ASSUME EditInv, Shaped', UNCHANGED <<server, done, sent, lastKey, outbox, saved>>, Aside \subseteq Aside',
           \A d \in Devices : SameDevice(d), \A t \in Tabs : SameTab(t)
    PROVE  EditNext
<1>1. ServerInv' /\ KeysInv' /\ NoLostEdit' /\ WorldAdvances
  BY GlobalQuiet
<1>2. DevicesInv'
  BY <1>1, Elsewhere, Constants DEF DevicesInv
<1> QED
  BY <1>1, <1>2 DEF EditNext

LEMMA OpenEdits ==
    ASSUME EditInv, Shaped', NEW t \in Tabs, Open(t)
    PROVE  EditNext
  BY StillEdits, AsideStays DEF Open, serverVars, deviceVars, syncVars, SameDevice, SameTab

LEMMA RecoveryEdits ==
    ASSUME EditInv, Shaped', NEW d \in Devices, NEW content, CompleteRecovery(d, content)
    PROVE  EditNext
<1>1. /\ UNCHANGED <<server, done, sent, discarded, lastKey, outbox, saved>>
      /\ \A c \in Devices : SameDevice(c)
      /\ \A t \in Tabs : SameTab(t)
  BY DEF CompleteRecovery, serverVars, syncVars, tabVars, SameDevice, SameTab
<1>2. Aside \subseteq Aside'
  <2>1. /\ copies' = copies \cup content /\ content \in recoveries[d]
        /\ recoveries \in [Devices -> SUBSET SUBSET Edits]
        /\ recoveries' = [recoveries EXCEPT ![d] = recoveries[d] \ {content}]
    BY DEF CompleteRecovery, EditInv, Shaped, DevicesShaped
  <2>2. \A c \in Devices : \A x \in recoveries[c] : x \in recoveries'[c] \/ x \subseteq copies'
    BY <2>1
  <2> QED
    BY <1>1, <2>1, <2>2 DEF Aside, Safe
<1> QED
  BY <1>1, <1>2, StillEdits

LEMMA LeaveEdits ==
    ASSUME OneWindow, Orderly, EditInv, Shaped', NEW t \in Tabs, Leave(t)
    PROVE  EditNext
<1>1. /\ UNCHANGED <<server, done, sent, lastKey, outbox, saved>> /\ Aside' = Aside
      /\ \A d \in Devices : SameDevice(d)
      /\ saving' = saving
  BY AsideStays DEF Leave, serverVars, deviceVars, syncVars, SameDevice
<1>2. ServerInv' /\ KeysInv' /\ NoLostEdit' /\ WorldAdvances
  BY <1>1, GlobalQuiet
<1>3. /\ \A s \in Tabs : s # t => SameTab(s)
      /\ deferred'[t] = NoDeferred /\ saving'[t].stage = "none"
      /\ memory'[t] = IF deferred[t] # NoDeferred THEN deferred[t] ELSE memory[t]
      /\ deferred[t] # NoDeferred => ~Pending(outbox[DeviceOf[t]])
  BY DEF Leave, LaneFree, Orderly, EditInv, Shaped, TabsShaped, SameTab
<1>4. MemoryInv(t)
  BY DEF EditInv, DevicesInv
<1>5. MemoryInv(t)'
  BY <1>1, <1>3, <1>4 DEF MemoryInv, Opened
<1>6. DevicesInv'
  BY <1>1, <1>2, <1>3, <1>5, NotSaving, Elsewhere, Constants DEF DevicesInv
<1> QED
  BY <1>2, <1>6 DEF EditNext

LEMMA BeginEdits ==
    ASSUME OneWindow, EditInv, Shaped', NEW t \in Tabs, BeginSave(t)
    PROVE  EditNext
<1>1. /\ UNCHANGED <<server, done, sent, lastKey, outbox, saved>> /\ Aside' = Aside
      /\ \A d \in Devices : SameDevice(d)
      /\ memory' = memory /\ deferred' = deferred /\ ~LaneLocked(t)
  BY AsideStays DEF BeginSave, serverVars, deviceVars, syncVars, SameDevice
<1>2. ServerInv' /\ KeysInv' /\ NoLostEdit' /\ WorldAdvances
  BY <1>1, GlobalQuiet
<1>3. PICK d \in Devices : d = DeviceOf[t]
  BY Constants
<1>4. PICK save \in SavingShape :
             /\ saving' = [saving EXCEPT ![t] = save]
             /\ save.stage = "encrypts" /\ save.upload = outbox[d].upload
             /\ Pending(outbox[d]) => save.base = outbox[d].base
             /\ ~Pending(outbox[d]) /\ Opened(t) => save.base = memory[t].revision
             /\ \/ /\ saving[t].stage = "waits"
                   /\ save.content = saving[t].content /\ save.direct = saving[t].direct
                \/ /\ saving[t].stage = "none" /\ Opened(t)
                   /\ save.content = memory[t].content /\ save.direct = FALSE
  BY <1>3, BeginEffect DEF EditInv
<1>5. saving'[t] = save /\ \A s \in Tabs : s # t => saving'[s] = saving[s]
  BY <1>4 DEF EditInv, Shaped, TabsShaped
<1>6. MemoryInv(t) /\ SaveInv(t) /\ EntryInv(d)
  BY DEF EditInv, DevicesInv
<1>7. Opened(t) /\ memory[t] # NoRow
  BY <1>4, <1>6 DEF SaveInv, Opened
<1>8. Pending(outbox[d]) => outbox[d].content \subseteq save.content \cup Aside
  <2>1. CASE saving[t].stage = "waits" /\ save.content = saving[t].content
    BY <1>3, <1>6, <2>1 DEF SaveInv
  <2>2. CASE save.content = memory[t].content
    BY <1>3, <1>6, <1>7, <2>2 DEF MemoryInv
  <2> QED
    BY <1>4, <2>1, <2>2
<1>9. ~save.direct => save.content \subseteq memory[t].content
  <2>1. CASE saving[t].stage = "waits" /\ save.content = saving[t].content /\ save.direct = saving[t].direct
    BY <1>6, <2>1 DEF SaveInv
  <2> QED
    BY <1>4, <2>1
<1>10. Knows(server, Aside, save.base, save.content)
  <2>1. CASE Pending(outbox[d])
    BY <1>4, <1>6, <1>8, <2>1, KnowsMore DEF EntryInv
  <2>2. CASE ~Pending(outbox[d])
    <3>1. save.base = memory[t].revision
      BY <1>4, <1>7, <2>2
    <3>2. CASE saving[t].stage = "waits" /\ save.content = saving[t].content
      BY <1>6, <3>1, <3>2 DEF SaveInv
    <3>3. CASE save.content = memory[t].content
      BY <1>6, <1>7, <3>1, <3>3 DEF MemoryInv, KnownRow
    <3> QED
      BY <1>4, <3>2, <3>3
  <2> QED
    BY <2>1, <2>2
<1>11. save.upload # NoAttempt =>
          save.upload \in sent /\ save.upload.content \subseteq save.content \cup Aside
  <2> SUFFICES ASSUME save.upload # NoAttempt
               PROVE  save.upload \in sent /\ save.upload.content \subseteq save.content \cup Aside
    OBVIOUS
  <2>1. Staged(outbox[d]) /\ Pending(outbox[d])
    BY <1>4 DEF Staged, Pending, NoEntry
  <2> QED
    BY <1>4, <1>6, <1>8, <2>1 DEF EntryInv
<1>12. SaveInv(t)'
  <2>1. ~LaneLocked(t)' /\ Opened(t)'
    BY <1>1, <1>7, Constants DEF LaneLocked, SameDevice, Opened
  <2> QED
    BY <1>1, <1>3, <1>4, <1>5, <1>8, <1>9, <1>10, <1>11, <2>1 DEF SaveInv
<1>13. MemoryInv(t)'
  BY <1>1, <1>6 DEF MemoryInv, Opened
<1>14. \A s \in Tabs : s # t => SameTab(s)
  BY <1>1, <1>5 DEF SameTab
<1>15. DevicesInv'
  BY <1>1, <1>2, <1>12, <1>13, <1>14, Elsewhere, Constants DEF DevicesInv
<1> QED
  BY <1>2, <1>15 DEF EditNext

-----------------------------------------------------------------------------
(* Steps of a run that decide nothing about the entry.                     *)
LEMMA RunStep ==
    ASSUME EditInv, Shaped', NEW d \in Devices,
           UNCHANGED <<server, done, sent, lastKey, outbox, saved, row, memory, deferred, saving>>,
           Aside \subseteq Aside', \A c \in Devices \ {d} : SameDevice(c), RunInv(d)',
           \A t \in Tabs : DeviceOf[t] = d /\ LaneLocked(t)' => LaneLocked(t) \/ saving[t].stage = "none"
    PROVE  EditNext
<1>1. ServerInv' /\ KeysInv' /\ NoLostEdit' /\ WorldAdvances
  BY GlobalQuiet
<1>2. EntryInv(d)'
  BY <1>1, EntryFrame DEF EditInv, DevicesInv
<1>3. ASSUME NEW t \in Tabs, DeviceOf[t] = d PROVE MemoryInv(t)' /\ SaveInv(t)'
  <2>1. MemoryInv(t)'
    BY <1>1, MemoryFrame DEF EditInv, DevicesInv
  <2>2. SaveInv(t)'
    <3>1. CASE saving[t].stage = "none"
      BY <3>1, NotSaving
    <3>2. CASE saving[t].stage # "none"
      <4>1. LaneLocked(t)' => LaneLocked(t)
        BY <1>3, <3>2
      <4>2. SaveInv(t) /\ (Opened(t) => Opened(t)')
        BY DEF EditInv, DevicesInv, Opened
      <4> QED
        BY <1>1, <4>1, <4>2, SaveFrame DEF EditInv
    <3> QED
      BY <3>1, <3>2
  <2> QED
    BY <2>1, <2>2
<1>4. \A t \in Tabs : SameTab(t)
  BY DEF SameTab
<1>5. DevicesInv'
  BY <1>1, <1>2, <1>3, <1>4, DeviceStep
<1> QED
  BY <1>1, <1>5 DEF EditNext

LEMMA FinishFacts ==
    ASSUME Shaped, NEW d \in Devices, NEW next, Finish(d, next)
    PROVE  /\ step'[d] = next
           /\ holder'[d] = (IF next = "idle" THEN NoTab ELSE holder[d])
           /\ page'[d] = (IF next = "idle" THEN NoRow ELSE page[d])
           /\ \A c \in Devices \ {d} :
                /\ page'[c] = page[c] /\ holder'[c] = holder[c] /\ step'[c] = step[c]
                /\ attempt'[c] = attempt[c] /\ candidate'[c] = candidate[c]
<1>1. /\ holder \in [Devices -> Tabs \cup {NoTab}] /\ step \in [Devices -> Steps]
      /\ attempt \in [Devices -> AttemptShape] /\ page \in [Devices -> RowShape]
      /\ candidate \in [Devices -> CandidateShape]
  BY DEF Shaped, DevicesShaped
<1>2. step'[d] = next /\ \A c \in Devices \ {d} : step'[c] = step[c]
  BY <1>1 DEF Finish
<1>3. /\ holder'[d] = (IF next = "idle" THEN NoTab ELSE holder[d])
      /\ \A c \in Devices \ {d} : holder'[c] = holder[c]
  BY <1>1 DEF Finish
<1>4. /\ page'[d] = (IF next = "idle" THEN NoRow ELSE page[d])
      /\ \A c \in Devices \ {d} : page'[c] = page[c]
  BY <1>1 DEF Finish
<1>5. \A c \in Devices \ {d} : attempt'[c] = attempt[c] /\ candidate'[c] = candidate[c]
  BY <1>1 DEF Finish
<1> QED
  BY <1>2, <1>3, <1>4, <1>5

(* A run that is over, or goes on to pull, claims nothing. *)
LEMMA FinishRun ==
    ASSUME Shaped, Shaped', WorldAdvances, NEW d \in Devices, NEW next \in {"idle", "pull", "publish"}, Finish(d, next),
           RunInv(d), next = "publish" => ~Pending(outbox'[d])
    PROVE  RunInv(d)'
<1>1. /\ step'[d] = next /\ holder'[d] \in {holder[d], NoTab} /\ page'[d] \in {page[d], NoRow}
  BY FinishFacts
<1>2. KnownRow(server', Aside', page'[d])
  BY <1>1, AnswerFrame
<1>3. holder'[d] \in Tabs => DeviceOf[holder'[d]] = d
  BY <1>1, Constants DEF RunInv
<1> QED
  BY <1>1, <1>2, <1>3 DEF RunInv

LEMMA Unlocked ==
    ASSUME Shaped, NEW d \in Devices, NEW next, next \notin {"locked", "publish"},
           step'[d] = next, NEW t \in Tabs, DeviceOf[t] = d
    PROVE  ~LaneLocked(t)'
  BY Constants DEF LaneLocked

LEMMA OverEdits ==
    ASSUME EditInv, Shaped', NEW d \in Devices, Pass(d) \/ Fail(d)
    PROVE  EditNext
<1>1. /\ UNCHANGED <<server, done, sent, lastKey, outbox, saved, row, memory, deferred, saving>>
      /\ Aside' = Aside /\ Finish(d, "idle")
  BY AsideStays DEF Pass, Fail, serverVars, deviceVars, tabVars
<1>2. RunInv(d)'
  BY <1>1, GlobalQuiet, FinishRun DEF EditInv, DevicesInv
<1>3. \A c \in Devices \ {d} : SameDevice(c)
  BY <1>1, FinishFacts DEF SameDevice, EditInv
<1>4. \A t \in Tabs : DeviceOf[t] = d => ~LaneLocked(t)'
  BY <1>1, FinishFacts, Unlocked DEF EditInv
<1> QED
  BY <1>1, <1>2, <1>3, <1>4, RunStep

LEMMA SyncStartEdits ==
    ASSUME EditInv, Shaped', NEW t \in Tabs, SyncStart(t)
    PROVE  EditNext
<1>1. PICK d \in Devices : d = DeviceOf[t]
  BY Constants
<1>2. /\ UNCHANGED <<server, done, sent, lastKey, outbox, saved, row, memory, deferred, saving, page>>
      /\ Aside' = Aside
  BY AsideStays DEF SyncStart, serverVars, deviceVars, tabVars
<1>3. PICK next \in {"push", "pull"} : step' = [step EXCEPT ![d] = next] /\ (next = "push" => Pending(outbox[d]))
  BY <1>1 DEF SyncStart
<1>4. holder' = [holder EXCEPT ![d] = t] /\ UNCHANGED <<attempt, candidate>>
  BY <1>1 DEF SyncStart
<1>5. step \in [Devices -> Steps] /\ holder \in [Devices -> Tabs \cup {NoTab}]
  BY DEF EditInv, Shaped, DevicesShaped
<1>6. step'[d] = next /\ holder'[d] = t
  BY <1>3, <1>4, <1>5
<1>7. \A c \in Devices \ {d} : SameDevice(c)
  BY <1>2, <1>3, <1>4, <1>5 DEF SameDevice
<1>8. RunInv(d)'
  <2>1. KnownRow(server', Aside', page'[d])
    BY <1>2, GlobalQuiet, AnswerFrame DEF EditInv, DevicesInv
  <2> QED
    BY <1>1, <1>2, <1>3, <1>6, <2>1 DEF RunInv
<1>9. \A s \in Tabs : DeviceOf[s] = d => ~LaneLocked(s)'
  BY <1>6, Unlocked DEF EditInv
<1> QED
  BY <1>2, <1>7, <1>8, <1>9, RunStep

LEMMA FetchEdits ==
    ASSUME EditInv, Shaped', NEW d \in Devices, Fetch(d)
    PROVE  EditNext
<1>1. /\ UNCHANGED <<server, done, sent, lastKey, outbox, saved, row, memory, deferred, saving, holder, attempt, candidate>>
      /\ Aside' = Aside
  BY AsideStays DEF Fetch, serverVars, deviceVars, tabVars
<1>2. page' = [page EXCEPT ![d] = server] /\ step' = [step EXCEPT ![d] = "page"]
  BY DEF Fetch
<1>3. step \in [Devices -> Steps] /\ page \in [Devices -> RowShape] /\ server \in RowShape
  BY DEF EditInv, Shaped, ServerShaped, DevicesShaped
<1>4. step'[d] = "page" /\ page'[d] = server
  BY <1>2, <1>3
<1>5. \A c \in Devices \ {d} : SameDevice(c)
  BY <1>1, <1>2, <1>3 DEF SameDevice
<1>6. KnownRow(server, Aside, server)
  BY <1>3 DEF EditInv, ServerInv, KnownRow, Knows, RowShape
<1>7. RunInv(d)'
  BY <1>1, <1>4, <1>6 DEF RunInv, EditInv, DevicesInv
<1>8. \A t \in Tabs : DeviceOf[t] = d => ~LaneLocked(t)'
  BY <1>4, Unlocked DEF EditInv
<1> QED
  BY <1>1, <1>5, <1>7, <1>8, RunStep

(* A proposal that is to be replaced is kept as the source of a copy.      *)
LEMMA DecideEdits ==
    ASSUME EditInv, Shaped', NEW d \in Devices, Decide(d)
    PROVE  EditNext
<1>1. /\ UNCHANGED <<server, done, sent, lastKey, outbox, saved, row, memory, deferred, saving, holder, attempt, page>>
      /\ UNCHANGED <<discarded, copies>>
  BY DEF Decide, serverVars, tabVars
<1>2. PICK c0 : c0 = [entry |-> outbox[d], row |-> row[d]]
  OBVIOUS
<1>3. /\ candidate' = [candidate EXCEPT ![d] = c0] /\ step' = [step EXCEPT ![d] = "decided"]
      /\ recoveries' = IF Pending(outbox[d]) THEN [recoveries EXCEPT ![d] = @ \cup {outbox[d].content}]
                       ELSE recoveries
  BY <1>2 DEF Decide
<1>4. /\ step \in [Devices -> Steps] /\ candidate \in [Devices -> CandidateShape]
      /\ recoveries \in [Devices -> SUBSET SUBSET Edits]
  BY DEF EditInv, Shaped, DevicesShaped
<1>5. Aside \subseteq Aside'
  BY <1>1, <1>3, <1>4, AsideGrows
<1>6. step'[d] = "decided" /\ candidate'[d] = c0 /\ c0.entry = outbox[d]
  BY <1>2, <1>3, <1>4
<1>7. Pending(outbox[d]) => outbox[d].content \subseteq Aside'
  BY <1>3, <1>4, AsideHolds
<1>8. \A c \in Devices \ {d} : SameDevice(c)
  BY <1>1, <1>3, <1>4 DEF SameDevice
<1>9. RunInv(d)'
  <2>1. KnownRow(server', Aside', page'[d])
    BY <1>1, <1>5, GlobalQuiet, AnswerFrame DEF EditInv, DevicesInv
  <2>2. RunInv(d)
    BY DEF EditInv, DevicesInv
  <2> QED
    BY <1>1, <1>6, <1>7, <2>1, <2>2 DEF RunInv
<1>10. \A t \in Tabs : DeviceOf[t] = d => ~LaneLocked(t)'
  BY <1>6, Unlocked DEF EditInv
<1> QED
  BY <1>1, <1>5, <1>8, <1>9, <1>10, RunStep

(* The lane is taken when no save is under way.                            *)
LEMMA LockEdits ==
    ASSUME OneWindow, EditInv, Shaped', NEW d \in Devices, Lock(d)
    PROVE  EditNext
<1>1. /\ UNCHANGED <<server, done, sent, lastKey, outbox, saved, row, memory, deferred, saving, holder, attempt, page, candidate>>
      /\ Aside' = Aside
  BY AsideStays DEF Lock, serverVars, deviceVars, tabVars
<1>2. step' = [step EXCEPT ![d] = "locked"] /\ step[d] = "decided" /\ LaneFree(holder[d])
  BY DEF Lock
<1>3. step \in [Devices -> Steps] /\ holder[d] \in Tabs
  BY <1>2 DEF EditInv, Shaped, DevicesShaped
<1>4. step'[d] = "locked" /\ RunInv(d)
  BY <1>2, <1>3 DEF EditInv, DevicesInv
<1>5. \A c \in Devices \ {d} : SameDevice(c)
  BY <1>1, <1>2, <1>3 DEF SameDevice
<1>6. RunInv(d)'
  BY <1>1, <1>2, <1>4 DEF RunInv
<1>7. \A t \in Tabs : DeviceOf[t] = d => saving[t].stage = "none"
  BY <1>2, <1>3, <1>4 DEF RunInv, OneWindow, LaneFree
<1> QED
  BY <1>1, <1>5, <1>6, <1>7, RunStep

-----------------------------------------------------------------------------
(* The server executes what was sent: whoever sent it knew what it takes   *)
(* the place of.                                                           *)
LEMMA Executes ==
    ASSUME EditInv, Shaped', NEW a \in sent, Execute(a),
           UNCHANGED <<sent, discarded, copies, recoveries, outbox, saved, lastKey>>
    PROVE  ServerInv' /\ KeysInv' /\ NoLostEdit' /\ WorldAdvances
<1>1. Aside' = Aside
  BY AsideStays
<1>2. CASE ~Accepts(a)
  <2>1. UNCHANGED <<server, done>>
    BY <1>2 DEF Execute
  <2> QED
    BY <1>1, <2>1, GlobalQuiet
<1>3. CASE Accepts(a)
  <2>1. /\ a \in AttemptShape /\ a.base \in Nat /\ a.key \in Nat /\ server \in RowShape /\ server.revision \in Nat
        /\ \A b \in sent : b.base \in Nat
    BY DEF EditInv, Shaped, ServerShaped, AttemptShape, RowShape
  <2>2. server' = RowOf(a) /\ done' = done \cup {a.key} /\ server.revision = a.base
    BY <1>3 DEF Execute, Accepts
  <2>3. Knows(server, Aside, a.base, a.content)
    BY DEF EditInv, ServerInv
  <2>4. server # NoRow /\ server.content \subseteq a.content \cup Aside
    BY <2>2, <2>3 DEF Knows, NoRow
  <2>5. server'.revision = server.revision + 1 /\ server'.content = a.content /\ server'.revision = a.base + 1
    BY <2>2 DEF RowOf
  <2>6. Advances(server, Aside, server', Aside')
    BY <1>1, <2>1, <2>4, <2>5 DEF Advances
  <2>7. \A b \in sent : Knows(server', Aside', b.base, b.content)
    BY <2>1, <2>6, KnowsAdvances DEF EditInv, ServerInv, Shaped, ServerShaped
  <2>8. ASSUME NEW b \in sent, b.key \in done' PROVE Executed(server', Aside', b)
    <3>1. CASE b.key = a.key
      <4>1. b = a
        BY <3>1 DEF EditInv, ServerInv
      <4> QED
        BY <2>1, <2>5, <4>1 DEF Executed
    <3>2. CASE b.key \in done
      <4>1. Executed(server, Aside, b)
        BY <3>2 DEF EditInv, ServerInv
      <4> QED
        BY <1>1, <2>1, <2>4, <2>5, <4>1 DEF Executed
    <3> QED
      BY <2>2, <2>8, <3>1, <3>2
  <2>9. ServerInv'
    BY <2>1, <2>2, <2>5, <2>7, <2>8 DEF EditInv, ServerInv
  <2>10. KeysInv'
    BY DEF EditInv, KeysInv
  <2>11. NoLostEdit'
    BY <1>1, <2>4, <2>5, LostMeaning DEF EditInv
  <2> QED
    BY <2>6, <2>9, <2>10, <2>11 DEF WorldAdvances
<1> QED
  BY <1>2, <1>3

LEMMA LateEdits ==
    ASSUME EditInv, Shaped', NEW a \in sent, LateDelivery(a)
    PROVE  EditNext
<1>1. /\ UNCHANGED <<sent, discarded, copies, recoveries, outbox, saved, lastKey>> /\ Execute(a)
      /\ \A d \in Devices : SameDevice(d)
      /\ \A t \in Tabs : SameTab(t)
  BY DEF LateDelivery, deviceVars, syncVars, tabVars, SameDevice, SameTab
<1>2. ServerInv' /\ KeysInv' /\ NoLostEdit' /\ WorldAdvances
  BY <1>1, Executes
<1>3. DevicesInv'
  BY <1>1, <1>2, Elsewhere, Constants DEF DevicesInv
<1> QED
  BY <1>2, <1>3 DEF EditNext

LEMMA UploadEdits ==
    ASSUME EditInv, Shaped', NEW d \in Devices, Upload(d)
    PROVE  EditNext
<1>1. /\ UNCHANGED <<sent, discarded, copies, recoveries, outbox, saved, lastKey>> /\ Execute(attempt[d])
      /\ UNCHANGED <<row, holder, attempt, page, candidate, memory, deferred, saving>>
  BY DEF Upload, deviceVars, tabVars
<1>2. step[d] = "sent" /\ RunInv(d) /\ EntryInv(d)
  BY DEF Upload, EditInv, DevicesInv
<1>3. attempt[d] \in sent
  BY <1>2 DEF RunInv, EntryInv
<1>4. ServerInv' /\ KeysInv' /\ NoLostEdit' /\ WorldAdvances
  BY <1>1, <1>3, Executes
<1>5. PICK next \in {"accepted", "conflict"} : step' = [step EXCEPT ![d] = next]
  BY DEF Upload
<1>6. step \in [Devices -> Steps]
  BY DEF EditInv, Shaped, DevicesShaped
<1>7. step'[d] = next /\ \A c \in Devices \ {d} : SameDevice(c)
  BY <1>1, <1>5, <1>6 DEF SameDevice
<1>8. RunInv(d)'
  <2>1. KnownRow(server', Aside', page'[d])
    BY <1>1, <1>2, <1>4, AnswerFrame DEF EditInv
  <2> QED
    BY <1>1, <1>2, <1>7, <2>1 DEF RunInv
<1>9. EntryInv(d)'
  BY <1>1, <1>2, <1>4, EntryFrame DEF EditInv
<1>10. ASSUME NEW t \in Tabs, DeviceOf[t] = d PROVE MemoryInv(t)' /\ SaveInv(t)'
  <2>1. MemoryInv(t)'
    BY <1>1, <1>4, MemoryFrame DEF EditInv, DevicesInv
  <2>2. ~LaneLocked(t)'
    BY <1>7, <1>10, Unlocked DEF EditInv
  <2>3. SaveInv(t) /\ (Opened(t) => Opened(t)')
    BY <1>1 DEF EditInv, DevicesInv, Opened
  <2>4. SaveInv(t)'
    BY <1>1, <1>4, <2>2, <2>3, SaveFrame DEF EditInv
  <2> QED
    BY <2>1, <2>4
<1>11. \A t \in Tabs : SameTab(t)
  BY <1>1 DEF SameTab
<1>12. DevicesInv'
  BY <1>4, <1>7, <1>8, <1>9, <1>10, <1>11, DeviceStep
<1> QED
  BY <1>4, <1>12 DEF EditNext

(* What a purge removes is given up.                                       *)
LEMMA PurgeEdits ==
    ASSUME EditInv, Shaped', Purge
    PROVE  EditNext
<1>1. /\ UNCHANGED <<done, sent, copies, recoveries, outbox, saved, lastKey>>
      /\ server' = NoRow /\ discarded' = discarded \cup server.content
      /\ \A d \in Devices : SameDevice(d)
      /\ \A t \in Tabs : SameTab(t)
  BY DEF Purge, deviceVars, syncVars, tabVars, SameDevice, SameTab
<1>2. Aside \subseteq Aside' /\ server.content \subseteq Aside'
  BY <1>1, AsideGrows, SafeFacts DEF Aside
<1>3. WorldAdvances
  BY <1>1, <1>2 DEF WorldAdvances, Advances
<1>4. \A a \in sent : Knows(server', Aside', a.base, a.content)
  BY <1>1 DEF EditInv, ServerInv, Knows
<1>5. \A a \in sent : a.key \in done => Executed(server', Aside', a)
  BY <1>1, <1>2 DEF EditInv, ServerInv, Executed
<1>6. ServerInv'
  BY <1>1, <1>4, <1>5 DEF EditInv, ServerInv
<1>7. KeysInv'
  BY <1>1 DEF EditInv, KeysInv
<1>8. NoLostEdit'
  BY <1>1, <1>2, LostMeaning DEF EditInv
<1>9. DevicesInv'
  BY <1>1, <1>3, Elsewhere, Constants DEF DevicesInv
<1> QED
  BY <1>6, <1>7, <1>8, <1>9 DEF EditNext

(* The identifier of an entry goes with what was sent under it.            *)
LEMMA StageEdits ==
    ASSUME EditInv, Shaped', NEW d \in Devices, Stage(d)
    PROVE  EditNext
<1>1. PICK a : Sends(d, a)
  BY StageEffect DEF EditInv
<1>2. PICK after : after = [outbox[d] EXCEPT !.upload = a]
  OBVIOUS
<1>3. /\ outbox' = [outbox EXCEPT ![d] = after] /\ attempt' = [attempt EXCEPT ![d] = a]
      /\ step' = [step EXCEPT ![d] = "sent"] /\ sent' = sent \cup {a} /\ step[d] = "push"
      /\ UNCHANGED <<server, done, row, recoveries, copies, discarded, holder, page, candidate, lastKey, saved>>
      /\ UNCHANGED <<memory, deferred, saving>>
  BY <1>1, <1>2 DEF Sends, tabVars
<1>4. /\ outbox \in [Devices -> EntryShape] /\ outbox[d] \in EntryShape /\ step \in [Devices -> Steps]
      /\ attempt \in [Devices -> AttemptShape] /\ server \in RowShape /\ server' \in RowShape
      /\ a \in AttemptShape /\ lastKey \in Nat
  BY <1>1 DEF Sends, EditInv, Shaped, DevicesShaped, ServerShaped
<1>5. /\ after.key = outbox[d].key /\ after.base = outbox[d].base /\ after.content = outbox[d].content
      /\ after.upload = a /\ RowOf(after) = RowOf(outbox[d]) /\ Proposal(after) = Proposal(outbox[d])
  BY <1>2, <1>4 DEF EntryShape, RowOf, Proposal
<1>6. EntryInv(d) /\ RunInv(d) /\ Pending(outbox[d])
  BY <1>3 DEF EditInv, DevicesInv, RunInv
<1>7. outbox[d].key \in 1..lastKey
  <2>1. outbox[d].key \in Nat /\ outbox[d].key >= 1
    BY <1>4, <1>6 DEF EntryShape, EditInv, CleanInv
  <2> QED
    BY <1>4, <1>6, <2>1 DEF EditInv, KeysInv
<1>8. Pending(after)
  BY <1>5, <1>7 DEF Pending, NoEntry
<1>9. (a = outbox[d].upload /\ Staged(outbox[d])) \/ a = Proposal(outbox[d])
  BY <1>1 DEF Sends
<1>10. Aside' = Aside /\ WorldAdvances
  BY <1>3, AsideStays DEF WorldAdvances, Advances
<1>11. /\ a.key \in 1..lastKey /\ Knows(server, Aside, a.base, a.content)
       /\ a.content \subseteq outbox[d].content \cup Aside
       /\ \A b \in sent : a.key = b.key => a = b
  <2>1. CASE a = outbox[d].upload /\ Staged(outbox[d])
    BY <1>6, <2>1 DEF EntryInv, EditInv, ServerInv
  <2>2. CASE a = Proposal(outbox[d])
    <3>1. a.key = outbox[d].key /\ a.base = outbox[d].base /\ a.content = outbox[d].content
      BY <2>2 DEF Proposal
    <3> QED
      BY <1>6, <1>7, <2>2, <3>1 DEF EntryInv, EditInv, KeysInv
  <2> QED
    BY <1>9, <2>1, <2>2
<1>12. \A b \in sent' : b \in sent \/ b = a
  BY <1>3
<1>13. ServerInv'
  <2>1. \A b, c \in sent' : b.key = c.key => b = c
    BY <1>11, <1>12 DEF EditInv, ServerInv
  <2>2. \A b \in sent' : b.key \in 1..lastKey /\ Knows(server, Aside, b.base, b.content)
    BY <1>11, <1>12 DEF EditInv, ServerInv
  <2>3. ASSUME NEW b \in sent', b.key \in done PROVE Executed(server, Aside, b)
    <3>1. PICK c \in sent : c.key = b.key
      BY <2>3 DEF EditInv, ServerInv
    <3>2. b = c
      BY <1>3, <2>1, <3>1
    <3> QED
      BY <2>3, <3>1, <3>2 DEF EditInv, ServerInv
  <2> QED
    BY <1>3, <1>10, <2>1, <2>2, <2>3 DEF EditInv, ServerInv
<1>14. /\ outbox'[d] = after /\ step'[d] = "sent" /\ attempt'[d] = a
       /\ \A c \in Devices \ {d} : SameDevice(c)
  BY <1>3, <1>4 DEF SameDevice
<1>15. KeysInv'
  <2>1. ASSUME NEW c \in Devices, Pending(outbox'[c])
        PROVE  /\ Pending(outbox[c]) /\ outbox'[c].key = outbox[c].key
               /\ Proposal(outbox'[c]) = Proposal(outbox[c])
    BY <1>5, <1>6, <1>14, <2>1 DEF SameDevice
  <2>2. ASSUME NEW c \in Devices, Pending(outbox'[c]), a.key = outbox[c].key
        PROVE  a = Proposal(outbox[c])
    <3>1. CASE a \in sent
      BY <2>1, <2>2, <3>1 DEF EditInv, KeysInv
    <3>2. CASE a = Proposal(outbox[d])
      <4>1. a.key = outbox[d].key
        BY <3>2 DEF Proposal
      <4>2. c = d
        BY <1>6, <2>1, <2>2, <4>1 DEF EditInv, KeysInv
      <4> QED
        BY <3>2, <4>2
    <3> QED
      BY <1>6, <1>9, <3>1, <3>2 DEF EntryInv
  <2>3. ASSUME NEW c \in Devices, Pending(outbox'[c])
        PROVE  /\ outbox'[c].key <= lastKey
               /\ \A b \in sent' : b.key = outbox'[c].key => b = Proposal(outbox'[c])
    BY <1>12, <2>1, <2>2, <2>3 DEF EditInv, KeysInv
  <2>4. \A b, c \in Devices : Pending(outbox'[b]) /\ Pending(outbox'[c]) /\ b # c
         => outbox'[b].key # outbox'[c].key
    BY <2>1 DEF EditInv, KeysInv
  <2> QED
    BY <1>3, <2>3, <2>4 DEF KeysInv
<1>16. NoLostEdit'
  <2>1. \A c \in Devices : outbox'[c].content = outbox[c].content
    BY <1>5, <1>14 DEF SameDevice
  <2> QED
    BY <1>3, <1>10, <2>1, LostMeaning DEF EditInv
<1>17. EntryInv(d)'
  BY <1>3, <1>5, <1>6, <1>8, <1>10, <1>11, <1>14 DEF EntryInv
<1>18. RunInv(d)'
  <2>1. KnownRow(server', Aside', page'[d]) /\ (holder'[d] \in Tabs => DeviceOf[holder'[d]] = d)
    BY <1>3, <1>6, <1>10 DEF RunInv
  <2>2. a # NoAttempt
    BY <1>11 DEF NoAttempt
  <2> QED
    BY <1>5, <1>8, <1>14, <2>1, <2>2 DEF RunInv, Staged
<1>19. ASSUME NEW t \in Tabs, DeviceOf[t] = d PROVE MemoryInv(t)' /\ SaveInv(t)'
  <2>1. MemoryInv(t) /\ SaveInv(t)
    BY DEF EditInv, DevicesInv
  <2>2. MemoryInv(t)'
    BY <1>3, <1>5, <1>6, <1>10, <1>14, <1>19, <2>1 DEF MemoryInv, Opened
  <2>3. ~LaneLocked(t)'
    BY <1>14, <1>19, Unlocked DEF EditInv
  <2>4. Opened(t) => Opened(t)'
    BY <1>3 DEF Opened
  <2>5. SaveInv(t)'
    BY <1>3, <1>5, <1>6, <1>10, <1>14, <1>19, <2>1, <2>3, <2>4, SaveFrame DEF EditInv
  <2> QED
    BY <2>2, <2>5
<1>20. \A t \in Tabs : SameTab(t)
  BY <1>3 DEF SameTab
<1>21. DevicesInv'
  BY <1>10, <1>14, <1>17, <1>18, <1>19, <1>20, DeviceStep
<1> QED
  BY <1>13, <1>15, <1>16, <1>21 DEF EditNext

-----------------------------------------------------------------------------
(* Steps that replace or end the entry of a device.                        *)
LEMMA EntryStep ==
    ASSUME EditInv, Shaped', NEW d \in Devices, NEW after, Replaces(d, after),
           \A c \in Devices \ {d} : SameDevice(c),
           \A t \in Tabs : DeviceOf[t] # d => SameTab(t),
           WorldAdvances => EntryInv(d)' /\ RunInv(d)',
           WorldAdvances => \A t \in Tabs : DeviceOf[t] = d => MemoryInv(t)' /\ SaveInv(t)'
    PROVE  EditNext
<1>1. ServerInv' /\ KeysInv' /\ NoLostEdit' /\ WorldAdvances
  BY GlobalEntry
<1>2. DevicesInv'
  BY <1>1, DeviceStep
<1> QED
  BY <1>1, <1>2 DEF EditNext

(* The database takes over what the save captured. *)
LEMMA CommitSaveEdits ==
    ASSUME OneWindow, EditInv, Shaped', NEW t \in Tabs, CommitSave(t)
    PROVE  EditNext
<1>1. PICK d \in Devices : d = DeviceOf[t]
  BY Constants
<1>2. PICK entry \in EntryShape, m \in RowShape : Committed(t, d, entry, m)
  BY <1>1, CommitEffect DEF EditInv
<1>3. /\ outbox \in [Devices -> EntryShape] /\ row \in [Devices -> RowShape] /\ lastKey \in Nat
      /\ saving \in [Tabs -> SavingShape] /\ memory \in [Tabs -> RowShape]
      /\ recoveries \in [Devices -> SUBSET SUBSET Edits]
  BY DEF EditInv, Shaped, DevicesShaped, ServerShaped, TabsShaped
<1>4. PICK save : save = saving[t]
  OBVIOUS
<1>5. /\ save.stage = "encrypts" /\ entry.key = lastKey + 1 /\ entry.base = save.base
      /\ entry.content = save.content
      /\ entry.upload = IF Staged(outbox[d]) THEN outbox[d].upload ELSE save.upload
      /\ lastKey' = lastKey + 1 /\ saved' = saved \cup save.content
      /\ row' = [row EXCEPT ![d] = RowOf(entry)] /\ outbox' = [outbox EXCEPT ![d] = entry]
      /\ saving' = [saving EXCEPT ![t] = NoSaving] /\ memory' = [memory EXCEPT ![t] = m]
      /\ \/ m = memory[t] /\ ~save.direct
         \/ m.revision = save.base /\ m.content = save.content
      /\ UNCHANGED <<server, done, sent, discarded, copies, holder, step, attempt, page, candidate, deferred>>
  BY <1>2, <1>4 DEF Committed, serverVars, syncVars
<1>6. Aside \subseteq Aside'
  <2>1. \A c \in Devices : recoveries[c] \subseteq recoveries'[c]
    BY <1>2, <1>3 DEF Committed
  <2> QED
    BY <1>5, <2>1, AsideGrows
<1>7. /\ outbox'[d] = entry /\ row'[d] = RowOf(entry) /\ saving'[t] = NoSaving /\ memory'[t] = m
      /\ \A c \in Devices \ {d} : SameDevice(c)
      /\ \A s \in Tabs : s # t => SameTab(s)
  BY <1>3, <1>5 DEF SameDevice, SameTab
<1>8. EntryInv(d) /\ RunInv(d) /\ MemoryInv(t) /\ SaveInv(t)
  BY DEF EditInv, DevicesInv
<1>9. /\ Knows(server, Aside, save.base, save.content) /\ ~LaneLocked(t) /\ Opened(t)
      /\ Pending(outbox[d]) => outbox[d].content \subseteq save.content \cup Aside
      /\ ~save.direct => save.content \subseteq memory[t].content
      /\ save.upload # NoAttempt => save.upload \in sent /\ save.upload.content \subseteq save.content \cup Aside
  BY <1>1, <1>4, <1>5, <1>8 DEF SaveInv
<1>10. Pending(entry)
  BY <1>3, <1>5 DEF Pending, NoEntry
<1>11. Replaces(d, entry)
  <2>1. outbox[d].content \subseteq save.content \cup Aside
    BY <1>9 DEF Pending, NoEntry
  <2> QED
    BY <1>5, <1>6, <2>1 DEF Replaces
<1>12. Knows(server', Aside', entry.base, entry.content)
  <2>1. Knows(server, Aside, entry.base, entry.content)
    BY <1>5, <1>9
  <2> QED
    BY <1>5, <1>6, <2>1 DEF Knows
<1>13. Staged(entry) => entry.upload \in sent /\ entry.upload.content \subseteq entry.content \cup Aside
  <2>1. CASE Staged(outbox[d])
    <3>1. Pending(outbox[d])
      BY <2>1 DEF Staged, Pending, NoEntry
    <3> QED
      BY <1>5, <1>8, <1>9, <2>1, <3>1 DEF EntryInv
  <2>2. CASE ~Staged(outbox[d])
    BY <1>5, <1>9, <2>2 DEF Staged
  <2> QED
    BY <2>1, <2>2
<1>14. EntryInv(d)'
  BY <1>5, <1>6, <1>7, <1>10, <1>12, <1>13 DEF EntryInv
<1>15. RunInv(d)'
  <2>1. KnownRow(server', Aside', page'[d])
    BY <1>5, <1>6, <1>8 DEF RunInv, KnownRow, Knows
  <2>2. step[d] # "publish"
    <3> SUFFICES ASSUME step[d] = "publish" PROVE FALSE
      OBVIOUS
    <3>1. holder[d] = t
      BY <1>1, <1>8 DEF RunInv, OneWindow, EditInv, Shaped, DevicesShaped
    <3> QED
      BY <1>1, <1>9, <3>1 DEF LaneLocked
  <2>3. Staged(outbox[d]) => Staged(entry) /\ entry.upload = outbox[d].upload
    BY <1>5 DEF Staged
  <2> QED
    BY <1>5, <1>6, <1>7, <1>8, <1>10, <2>1, <2>2, <2>3 DEF RunInv
<1>16. MemoryInv(t)'
  <2>1. KnownRow(server', Aside', m)
    <3>1. KnownRow(server, Aside, m)
      BY <1>5, <1>8, <1>9 DEF MemoryInv, KnownRow
    <3> QED
      BY <1>5, <1>6, <3>1 DEF KnownRow, Knows
  <2>2. deferred'[t] # NoDeferred => KnownRow(server', Aside', deferred'[t])
    BY <1>5, <1>6, <1>8 DEF MemoryInv, KnownRow, Knows
  <2>3. entry.content \subseteq m.content
    BY <1>5, <1>9
  <2> QED
    BY <1>1, <1>7, <2>1, <2>2, <2>3 DEF MemoryInv
<1>17. SaveInv(t)'
  BY <1>7, NotSaving DEF NoSaving
<1>18. \A s \in Tabs : DeviceOf[s] = d => s = t
  BY <1>1 DEF OneWindow
<1> QED
  BY <1>1, <1>7, <1>11, <1>14, <1>15, <1>16, <1>17, <1>18, EntryStep

(* A reload finds in the database what the memory is to contain. *)
LEMMA ReloadEdits ==
    ASSUME OneWindow, EditInv, Shaped', NEW t \in Tabs, Reload(t)
    PROVE  EditNext
<1>1. PICK d \in Devices : d = DeviceOf[t]
  BY Constants
<1>2. PICK entry \in EntryShape, m \in RowShape : Reloaded(t, d, m, entry)
  BY <1>1, ReloadEffect DEF EditInv
<1>3. /\ outbox \in [Devices -> EntryShape] /\ outbox[d] \in EntryShape
      /\ saving \in [Tabs -> SavingShape] /\ memory \in [Tabs -> RowShape]
      /\ deferred \in [Tabs -> RowShape \cup {NoDeferred}]
  BY DEF EditInv, Shaped, DevicesShaped, TabsShaped
<1>4. /\ Pending(outbox[d]) => m.revision = outbox[d].base /\ m.content = row[d].content
      /\ ~Pending(outbox[d]) => m = row[d]
      /\ memory' = [memory EXCEPT ![t] = m] /\ outbox' = [outbox EXCEPT ![d] = entry]
      /\ \/ entry = outbox[d]
         \/ Pending(outbox[d]) /\ entry = [outbox[d] EXCEPT !.writer = Closed]
      /\ saving' = [saving EXCEPT ![t] = NoSaving] /\ deferred' = [deferred EXCEPT ![t] = NoDeferred]
      /\ \/ holder[d] = t /\ Finish(d, "idle")
         \/ holder[d] # t /\ UNCHANGED syncVars
      /\ UNCHANGED <<server, done, sent, discarded, row, recoveries, copies, saved, lastKey>>
  BY <1>2 DEF Reloaded, serverVars
<1>5. Aside' = Aside
  BY <1>4, AsideStays
<1>6. EntryInv(d) /\ RunInv(d)
  BY DEF EditInv, DevicesInv
<1>7. /\ entry.key = outbox[d].key /\ entry.base = outbox[d].base /\ entry.content = outbox[d].content
      /\ entry.upload = outbox[d].upload /\ Proposal(entry) = Proposal(outbox[d])
      /\ RowOf(entry) = RowOf(outbox[d])
  BY <1>3, <1>4 DEF EntryShape, Proposal, RowOf
<1>8. Pending(entry) <=> Pending(outbox[d])
  <2>1. Pending(outbox[d]) => outbox[d].key >= 1
    BY DEF EditInv, CleanInv
  <2> QED
    BY <1>4, <1>7, <2>1 DEF Pending, NoEntry
<1>9. Replaces(d, entry)
  BY <1>4, <1>5, <1>7, <1>8 DEF Replaces
<1>10. /\ outbox'[d] = entry /\ memory'[t] = m /\ saving'[t] = NoSaving /\ deferred'[t] = NoDeferred
       /\ \A s \in Tabs : s # t => SameTab(s)
       /\ \A c \in Devices \ {d} : outbox'[c] = outbox[c]
  BY <1>3, <1>4 DEF SameTab
<1>11. \A c \in Devices \ {d} : SameDevice(c)
  BY <1>4, <1>10, FinishFacts DEF SameDevice, syncVars, EditInv
<1>12. EntryInv(d)'
  BY <1>4, <1>5, <1>6, <1>7, <1>8, <1>10 DEF EntryInv, Staged
<1>13. WorldAdvances => RunInv(d)'
  <2>1. CASE Finish(d, "idle")
    BY <1>6, <2>1, FinishRun DEF EditInv
  <2>2. CASE UNCHANGED syncVars
    BY <1>4, <1>5, <1>6, <1>7, <1>8, <1>10, <2>2 DEF RunInv, syncVars, Staged
  <2> QED
    BY <1>4, <2>1, <2>2
<1>14. MemoryInv(t)'
  <2>1. CASE Pending(outbox[d])
    <3>1. m.revision = outbox[d].base /\ m.content = outbox[d].content
      BY <1>4, <1>6, <2>1 DEF EntryInv, RowOf
    <3> QED
      BY <1>1, <1>4, <1>5, <1>6, <1>7, <1>10, <2>1, <3>1 DEF EntryInv, MemoryInv, KnownRow
  <2>2. CASE ~Pending(outbox[d])
    BY <1>1, <1>4, <1>5, <1>6, <1>8, <1>10, <2>2 DEF EntryInv, MemoryInv
  <2> QED
    BY <2>1, <2>2
<1>15. SaveInv(t)'
  BY <1>10, NotSaving DEF NoSaving
<1>16. \A s \in Tabs : DeviceOf[s] = d => s = t
  BY <1>1 DEF OneWindow
<1> QED
  BY <1>1, <1>9, <1>10, <1>11, <1>12, <1>13, <1>14, <1>15, <1>16, EntryStep

(* Withdrawing an upload leaves the entry to be decided about.             *)
LEMMA ConflictEdits ==
    ASSUME EditInv, Shaped', NEW d \in Devices, Conflict(d)
    PROVE  EditNext
<1>1. /\ outbox \in [Devices -> EntryShape] /\ outbox[d] \in EntryShape
  BY DEF EditInv, Shaped, DevicesShaped
<1>2. PICK after : /\ after \in {outbox[d], [outbox[d] EXCEPT !.upload = NoAttempt]}
                   /\ outbox' = [outbox EXCEPT ![d] = after]
  BY <1>1 DEF Conflict
<1>3. /\ Finish(d, "pull")
      /\ UNCHANGED <<server, done, sent, discarded, row, recoveries, copies, memory, deferred, saving, saved, lastKey>>
  BY DEF Conflict, serverVars, tabVars
<1>4. Aside' = Aside
  BY <1>3, AsideStays
<1>5. EntryInv(d) /\ RunInv(d) /\ (Pending(outbox[d]) => outbox[d].key >= 1)
  BY DEF EditInv, DevicesInv, CleanInv
<1>6. (Pending(after) <=> Pending(outbox[d])) /\ after.key = outbox[d].key
  BY <1>1, <1>2, <1>5, Withdrawn DEF Pending
<1>7. /\ after.base = outbox[d].base /\ after.content = outbox[d].content
      /\ after.upload \in {outbox[d].upload, NoAttempt}
      /\ Proposal(after) = Proposal(outbox[d]) /\ RowOf(after) = RowOf(outbox[d])
  BY <1>1, <1>2 DEF EntryShape, Proposal, RowOf
<1>8. Replaces(d, after)
  BY <1>2, <1>3, <1>4, <1>6, <1>7 DEF Replaces
<1>9. outbox'[d] = after /\ \A c \in Devices \ {d} : outbox'[c] = outbox[c]
  BY <1>1, <1>2
<1>10. /\ \A c \in Devices \ {d} : SameDevice(c)
       /\ \A t \in Tabs : SameTab(t)
  BY <1>3, <1>9, FinishFacts DEF SameDevice, SameTab, EditInv
<1>11. EntryInv(d)'
  BY <1>3, <1>4, <1>5, <1>6, <1>7, <1>9 DEF EntryInv, Staged
<1>12. WorldAdvances => RunInv(d)'
  BY <1>3, <1>5, FinishRun DEF EditInv
<1>13. ASSUME WorldAdvances, NEW t \in Tabs, DeviceOf[t] = d PROVE MemoryInv(t)' /\ SaveInv(t)'
  <2>1. MemoryInv(t) /\ SaveInv(t)
    BY DEF EditInv, DevicesInv
  <2>2. MemoryInv(t)'
    BY <1>3, <1>4, <1>6, <1>7, <1>9, <1>13, <2>1 DEF MemoryInv, Opened
  <2>3. ~LaneLocked(t)'
    BY <1>3, <1>13, FinishFacts, Unlocked DEF EditInv
  <2>4. Opened(t) => Opened(t)'
    BY <1>3 DEF Opened
  <2>5. SaveInv(t)'
    BY <1>3, <1>6, <1>7, <1>9, <1>13, <2>1, <2>3, <2>4, SaveFrame DEF EditInv
  <2> QED
    BY <2>2, <2>5
<1> QED
  BY <1>8, <1>10, <1>11, <1>12, <1>13, EntryStep

(* A window whose save lane is free, on a device whose entry and memory    *)
(* are in order.                                                           *)
LEMMA AcknowledgeEdits ==
    ASSUME OneWindow, EditInv, Shaped', NEW d \in Devices, NEW a, NEW next \in {"pull", "idle"},
           step[d] # "idle", Acknowledge(d, a, next), Pending(outbox[d]),
           a \in sent, a.key \in done, a \in {outbox[d].upload, Proposal(outbox[d])}
    PROVE  EditNext
<1>1. /\ outbox \in [Devices -> EntryShape] /\ outbox[d] \in EntryShape /\ row \in [Devices -> RowShape]
      /\ memory \in [Tabs -> RowShape] /\ lastKey \in Nat /\ a \in AttemptShape
      /\ holder[d] \in Tabs /\ outbox[d].base \in Nat /\ a.base \in Nat
  BY DEF EditInv, Shaped, ServerShaped, DevicesShaped, TabsShaped, EntryShape, AttemptShape
<1>2. PICK t \in Tabs : t = holder[d]
  BY <1>1
<1>3. PICK after \in EntryShape, m \in RowShape : Acknowledged(d, a, next, after, m)
  BY <1>1, AcknowledgeEffect DEF EditInv
<1>4. /\ outbox' = [outbox EXCEPT ![d] = after] /\ memory' = [memory EXCEPT ![t] = m]
      /\ \/ /\ Covers(a, outbox[d]) /\ after = NoEntry
            /\ row' = row /\ lastKey' = lastKey
         \/ /\ after = [outbox[d] EXCEPT !.key = lastKey + 1, !.base = a.base + 1, !.upload = NoAttempt]
            /\ row' = [row EXCEPT ![d] = RowOf(after)] /\ lastKey' = lastKey + 1
         \/ /\ after \in {outbox[d], [outbox[d] EXCEPT !.upload = NoAttempt]}
            /\ row' = row /\ lastKey' = lastKey
      /\ \/ m = memory[t]
         \/ /\ Opened(t) /\ m.content = memory[t].content
            /\ m.revision = IF Pending(after) THEN after.base ELSE a.base + 1
      /\ LaneFree(t) /\ Finish(d, next)
      /\ UNCHANGED <<server, done, sent, discarded, recoveries, copies, saving, deferred, saved>>
  BY <1>2, <1>3 DEF Acknowledged, serverVars
<1>5. Aside' = Aside
  BY <1>4, AsideStays
<1>6. DeviceOf[t] = d /\ \A s \in Tabs : DeviceOf[s] = d => s = t
  BY <1>2 DEF EditInv, DevicesInv, RunInv, OneWindow
<1>7. EntryInv(d) /\ RunInv(d) /\ MemoryInv(t) /\ Executed(server, Aside, a) /\ outbox[d].key >= 1
  BY DEF EditInv, DevicesInv, ServerInv, CleanInv
<1>8. a.content \subseteq outbox[d].content \cup Aside
  BY <1>7 DEF EntryInv, Proposal, Staged, NoAttempt
<1>9. Opened(t) => outbox[d].content \subseteq memory[t].content \cup Aside
  BY <1>6, <1>7 DEF MemoryInv
<1>10. \A x : a.content \subseteq x \cup Aside => Knows(server, Aside, a.base + 1, x)
  BY <1>1, <1>7 DEF Knows, Executed
<1>11. /\ outbox'[d] = after /\ memory'[t] = m
       /\ \A c \in Devices \ {d} : SameDevice(c)
       /\ \A s \in Tabs : DeviceOf[s] # d => SameTab(s)
  <2>1. outbox'[d] = after /\ memory'[t] = m
    BY <1>1, <1>4
  <2>2. \A c \in Devices \ {d} : outbox'[c] = outbox[c] /\ row'[c] = row[c]
    BY <1>1, <1>4
  <2>3. \A c \in Devices \ {d} : SameDevice(c)
    BY <1>4, <2>2, FinishFacts DEF SameDevice, EditInv
  <2>4. \A s \in Tabs : DeviceOf[s] # d => SameTab(s)
    BY <1>1, <1>4, <1>6 DEF SameTab
  <2> QED
    BY <2>1, <2>3, <2>4
(* The three outcomes: what becomes of the entry, *)
<1>12. /\ Replaces(d, after) /\ EntryInv(d)'
       /\ Pending(after) => after.content = outbox[d].content
       /\ Opened(t) /\ Pending(after) => Knows(server, Aside, after.base, memory[t].content)
  <2>1. CASE Covers(a, outbox[d]) /\ after = NoEntry /\ row' = row /\ lastKey' = lastKey
    <3>1. a = Proposal(outbox[d])
      BY <2>1 DEF Covers, EditInv, KeysInv
    <3>2. a.base = outbox[d].base /\ a.content = outbox[d].content /\ a.key = outbox[d].key
      BY <3>1 DEF Proposal
    <3>3. ~Pending(after)
      BY <2>1 DEF Pending
    <3>4. outbox[d].content \subseteq Aside \cup server.content
      BY <1>7, <3>2 DEF Executed
    <3>5. Replaces(d, after)
      BY <1>4, <1>5, <2>1, <3>3, <3>4 DEF Replaces
    <3>6. KnownRow(server, Aside, row[d])
      <4>1. row[d].revision = a.base + 1 /\ row[d].content = a.content
        BY <1>7, <3>2 DEF EntryInv, RowOf
      <4> QED
        BY <1>10, <4>1 DEF KnownRow
    <3>7. EntryInv(d)'
      BY <1>4, <1>5, <1>11, <2>1, <3>3, <3>6 DEF EntryInv
    <3> QED
      BY <3>3, <3>5, <3>7
  <2>2. CASE /\ after = [outbox[d] EXCEPT !.key = lastKey + 1, !.base = a.base + 1, !.upload = NoAttempt]
             /\ row' = [row EXCEPT ![d] = RowOf(after)] /\ lastKey' = lastKey + 1
    <3>1. /\ after.key = lastKey + 1 /\ after.base = a.base + 1 /\ after.content = outbox[d].content
          /\ after.upload = NoAttempt
      BY <1>1, <2>2 DEF EntryShape
    <3>2. Pending(after) /\ ~Staged(after)
      BY <1>1, <3>1 DEF Pending, NoEntry, Staged
    <3>3. Replaces(d, after)
      BY <1>4, <1>5, <2>2, <3>1 DEF Replaces
    <3>4. Knows(server, Aside, after.base, after.content)
      BY <1>8, <1>10, <3>1
    <3>5. EntryInv(d)'
      BY <1>1, <1>4, <1>5, <1>11, <2>2, <3>2, <3>4 DEF EntryInv
    <3>6. Opened(t) => Knows(server, Aside, after.base, memory[t].content)
      BY <1>8, <1>9, <1>10, <3>1
    <3> QED
      BY <3>1, <3>3, <3>5, <3>6
  <2>3. CASE after \in {outbox[d], [outbox[d] EXCEPT !.upload = NoAttempt]} /\ row' = row /\ lastKey' = lastKey
    <3>1. (Pending(after) <=> Pending(outbox[d])) /\ after.key = outbox[d].key
      BY <1>1, <1>7, <2>3, Withdrawn DEF Pending
    <3>2. /\ after.base = outbox[d].base /\ after.content = outbox[d].content
          /\ after.upload \in {outbox[d].upload, NoAttempt}
          /\ Proposal(after) = Proposal(outbox[d]) /\ RowOf(after) = RowOf(outbox[d])
      BY <1>1, <2>3 DEF EntryShape, Proposal, RowOf
    <3>3. Replaces(d, after)
      BY <1>4, <1>5, <2>3, <3>1, <3>2 DEF Replaces
    <3>4. EntryInv(d)'
      BY <1>4, <1>5, <1>7, <1>11, <2>3, <3>1, <3>2 DEF EntryInv, Staged
    <3>5. Opened(t) => Knows(server, Aside, after.base, memory[t].content)
      BY <1>7, <1>9, <3>2, KnowsMore DEF EntryInv
    <3> QED
      BY <3>2, <3>3, <3>4, <3>5
  <2> QED
    BY <1>4, <2>1, <2>2, <2>3
(* and that the memory of the window knows what it is now based on.        *)
<1>13. KnownRow(server, Aside, m)
  <2>1. CASE m = memory[t]
    BY <1>7, <2>1 DEF MemoryInv
  <2>2. CASE /\ Opened(t) /\ m.content = memory[t].content
             /\ m.revision = IF Pending(after) THEN after.base ELSE a.base + 1
    <3>1. Knows(server, Aside, a.base + 1, memory[t].content)
      BY <1>8, <1>9, <1>10, <2>2
    <3> QED
      BY <1>12, <2>2, <3>1 DEF KnownRow
  <2> QED
    BY <1>4, <2>1, <2>2
<1>14. Opened(t)' => Opened(t) /\ m.content = memory[t].content
  <2>1. m = memory[t] \/ (Opened(t) /\ m.content = memory[t].content)
    BY <1>4
  <2> QED
    BY <1>11, <2>1 DEF Opened
<1>15. MemoryInv(t)'
  BY <1>4, <1>5, <1>6, <1>7, <1>9, <1>11, <1>12, <1>13, <1>14 DEF MemoryInv
<1>16. SaveInv(t)'
  BY <1>4, NotSaving DEF LaneFree
<1>17. WorldAdvances => RunInv(d)'
  BY <1>4, <1>7, FinishRun DEF EditInv
<1> QED
  BY <1>6, <1>11, <1>12, <1>15, <1>16, <1>17, EntryStep

LEMMA AcceptedEdits ==
    ASSUME OneWindow, EditInv, Shaped', NEW d \in Devices, NEW next \in {"pull", "idle"}, Accepted(d, next)
    PROVE  EditNext
<1>1. step[d] = "accepted" /\ Acknowledge(d, attempt[d], next)
  BY DEF Accepted
<1>2. EntryInv(d) /\ RunInv(d) /\ attempt[d].key \in done
  BY <1>1 DEF EditInv, DevicesInv, CleanInv
<1>3. Pending(outbox[d]) /\ attempt[d] = outbox[d].upload /\ attempt[d] \in sent
  BY <1>1, <1>2 DEF EntryInv, RunInv
<1> QED
  BY <1>1, <1>2, <1>3, AcknowledgeEdits

(* A proposal the server answered with was sent. *)
LEMMA EchoEdits ==
    ASSUME OneWindow, EditInv, Shaped', NEW d \in Devices, Echo(d)
    PROVE  EditNext
<1>1. PICK a \in AttemptShape :
              /\ a \in {outbox[d].upload, Proposal(outbox[d])} /\ a # NoAttempt
              /\ RowOf(a) = page[d] /\ Acknowledge(d, a, "idle")
  BY EchoEffect DEF EditInv
<1>2. Pending(outbox[d])
  BY <1>1 DEF Pending, NoEntry, NoAttempt, Proposal
<1>3. EntryInv(d) /\ outbox[d].key >= 1 /\ page[d].key \in done \cup {0} /\ outbox[d].key \in Nat
  BY <1>2 DEF EditInv, DevicesInv, CleanInv, Shaped, DevicesShaped, EntryShape
<1>4. a.key \in done \cup {0}
  BY <1>1, <1>3 DEF RowOf
<1>5. a \in sent /\ a.key \in done
  <2>1. CASE a = outbox[d].upload
    <3>1. a \in sent
      BY <1>1, <1>2, <1>3, <2>1 DEF EntryInv, Staged
    <3> QED
      BY <1>4, <3>1 DEF EditInv, ServerInv
  <2>2. CASE a = Proposal(outbox[d])
    <3>1. a.key = outbox[d].key /\ a.key \in done
      BY <1>3, <1>4, <2>2 DEF Proposal
    <3>2. PICK b \in sent : b.key = a.key
      BY <3>1 DEF EditInv, ServerInv
    <3>3. b = a
      BY <1>2, <2>2, <3>1, <3>2 DEF EditInv, KeysInv
    <3> QED
      BY <3>1, <3>2, <3>3
  <2> QED
    BY <1>1, <2>1, <2>2
<1>6. step[d] # "idle"
  BY DEF Echo
<1> QED
  BY <1>1, <1>2, <1>5, <1>6, AcknowledgeEdits

(* The pull replaces what has been kept, or nothing.                       *)
LEMMA PullCommitEdits ==
    ASSUME OneWindow, EditInv, Shaped', NEW d \in Devices, Commit(d)
    PROVE  EditNext
<1>1. /\ outbox \in [Devices -> EntryShape] /\ row \in [Devices -> RowShape] /\ holder[d] \in Tabs
      /\ step[d] = "locked"
  BY DEF Commit, EditInv, Shaped, DevicesShaped
<1>2. UNCHANGED <<server, done, sent, discarded, recoveries, copies, memory, deferred, saving, saved, lastKey>>
  BY DEF Commit, serverVars, tabVars
<1>3. Aside' = Aside
  BY <1>2, AsideStays
<1>4. EntryInv(d) /\ RunInv(d)
  BY DEF EditInv, DevicesInv
<1>5. ASSUME NEW t \in Tabs, DeviceOf[t] = d PROVE saving[t].stage = "none"
  <2>1. t = holder[d]
    BY <1>1, <1>4, <1>5 DEF RunInv, OneWindow
  <2>2. LaneLocked(t)
    BY <1>1, <1>5, <2>1 DEF LaneLocked
  <2> QED
    BY <2>2 DEF EditInv, DevicesInv, SaveInv
<1>6. \A t \in Tabs : DeviceOf[t] = d => SaveInv(t)'
  BY <1>2, <1>5, NotSaving
<1>7. CASE /\ StillDecided(d) /\ Finish(d, "publish")
           /\ row' = [row EXCEPT ![d] = page[d]] /\ outbox' = [outbox EXCEPT ![d] = NoEntry]
  <2>1. candidate[d].entry = outbox[d]
    BY <1>7 DEF StillDecided
  <2>2. outbox[d].content \subseteq Aside
    BY <1>1, <1>4, <2>1 DEF RunInv, Pending, NoEntry
  <2>3. ~Pending(NoEntry)
    BY DEF Pending
  <2>4. Replaces(d, NoEntry)
    BY <1>2, <1>3, <1>7, <2>2, <2>3 DEF Replaces
  <2>5. outbox'[d] = NoEntry /\ row'[d] = page[d]
    BY <1>1, <1>7
  <2>6. \A c \in Devices \ {d} : outbox'[c] = outbox[c] /\ row'[c] = row[c]
    BY <1>1, <1>7
  <2>7. \A c \in Devices \ {d} : SameDevice(c)
    BY <1>7, <2>6, FinishFacts DEF SameDevice, EditInv
  <2>8. EntryInv(d)'
    BY <1>2, <1>3, <1>4, <2>3, <2>5 DEF EntryInv, RunInv
  <2>9. WorldAdvances => RunInv(d)'
    BY <1>4, <1>7, <2>3, <2>5, FinishRun DEF EditInv
  <2>10. ASSUME NEW t \in Tabs, DeviceOf[t] = d PROVE MemoryInv(t)'
    BY <1>2, <1>3, <2>3, <2>5, <2>10 DEF MemoryInv, EditInv, DevicesInv
  <2>11. \A t \in Tabs : SameTab(t)
    BY <1>2 DEF SameTab
  <2> QED
    BY <1>6, <2>4, <2>7, <2>8, <2>9, <2>10, <2>11, EntryStep
<1>8. CASE UNCHANGED <<row, outbox>> /\ Finish(d, "idle")
  <2>1. RunInv(d)'
    BY <1>2, <1>3, <1>4, <1>8, GlobalQuiet, FinishRun DEF EditInv
  <2>2. \A c \in Devices \ {d} : SameDevice(c)
    BY <1>8, FinishFacts DEF SameDevice, EditInv
  <2> QED
    BY <1>2, <1>3, <1>5, <1>8, <2>1, <2>2, RunStep
<1> QED
  BY <1>7, <1>8 DEF Commit

(* The document takes over the answer only when nothing waits.             *)
LEMMA PublishEdits ==
    ASSUME OneWindow, EditInv, Shaped', NEW d \in Devices, Publish(d)
    PROVE  EditNext
<1>1. /\ holder[d] \in Tabs /\ step[d] = "publish" /\ memory \in [Tabs -> RowShape]
      /\ deferred \in [Tabs -> RowShape \cup {NoDeferred}]
  BY DEF Publish, EditInv, Shaped, DevicesShaped, TabsShaped
<1>2. PICK t \in Tabs : t = holder[d]
  BY <1>1
<1>3. /\ UNCHANGED <<server, done, sent, discarded, row, outbox, recoveries, copies, saving, saved, lastKey>>
      /\ memory' \in {memory, [memory EXCEPT ![t] = page[d]]}
      /\ deferred' \in {deferred, [deferred EXCEPT ![t] = NoDeferred], [deferred EXCEPT ![t] = page[d]]}
      /\ Finish(d, "idle")
  <2>1. UNCHANGED <<server, done, sent, discarded, row, outbox, recoveries, copies, saving, saved, lastKey>>
    BY DEF Publish, serverVars, deviceVars
  <2>2. memory' \in {memory, [memory EXCEPT ![t] = page[d]]} /\ Finish(d, "idle")
    BY <1>2 DEF Publish
  <2>3. deferred' \in {deferred, [deferred EXCEPT ![t] = NoDeferred], [deferred EXCEPT ![t] = page[d]]}
    BY <1>1, <1>2 DEF Publish
  <2> QED
    BY <2>1, <2>2, <2>3
<1>4. Aside' = Aside
  BY <1>3, AsideStays
<1>5. RunInv(d) /\ MemoryInv(t) /\ SaveInv(t)
  BY DEF EditInv, DevicesInv
<1>6. DeviceOf[t] = d /\ (\A s \in Tabs : DeviceOf[s] = d => s = t) /\ ~Pending(outbox[d])
  BY <1>1, <1>2, <1>5 DEF RunInv, OneWindow
<1>7. ServerInv' /\ KeysInv' /\ NoLostEdit' /\ WorldAdvances
  BY <1>3, <1>4, GlobalQuiet
<1>8. \A c \in Devices \ {d} : SameDevice(c)
  BY <1>3, FinishFacts DEF SameDevice, EditInv
<1>9. \A s \in Tabs : s # t => SameTab(s)
  BY <1>1, <1>3 DEF SameTab
<1>10. EntryInv(d)'
  BY <1>3, <1>7, EntryFrame DEF EditInv, DevicesInv
<1>11. RunInv(d)'
  BY <1>3, <1>5, <1>7, FinishRun DEF EditInv
<1>12. memory'[t] \in {memory[t], page[d]} /\ deferred'[t] \in {deferred[t], NoDeferred, page[d]}
  BY <1>1, <1>3
<1>13. MemoryInv(t)'
  BY <1>3, <1>4, <1>5, <1>6, <1>12 DEF MemoryInv, RunInv
<1>14. SaveInv(t)'
  <2>1. LaneLocked(t)
    BY <1>1, <1>2, <1>6 DEF LaneLocked
  <2> QED
    BY <1>3, <1>5, <2>1, NotSaving DEF SaveInv
<1>15. DevicesInv'
  BY <1>6, <1>7, <1>8, <1>9, <1>10, <1>11, <1>13, <1>14, DeviceStep
<1> QED
  BY <1>7, <1>15 DEF EditNext

-----------------------------------------------------------------------------
LEMMA EditsStep ==
    ASSUME OneWindow, Orderly, EditInv, [Next]_vars
    PROVE  EditInv'
<1>1. Shaped' /\ CleanInv'
  BY ShapedStep, CleanStep DEF EditInv
<1>2. EditNext
  <2>1. CASE UNCHANGED vars
    <3>1. /\ UNCHANGED <<server, done, sent, lastKey, outbox, saved>> /\ Aside' = Aside
          /\ \A d \in Devices : SameDevice(d)
          /\ \A t \in Tabs : SameTab(t)
      BY <2>1, AsideStays DEF vars, serverVars, deviceVars, syncVars, tabVars, SameDevice, SameTab
    <3> QED
      BY <1>1, <3>1, StillEdits
  <2>2. CASE Next
    <3>1. Shaped
      BY DEF EditInv
    <3> HIDE DEF EditNext
    <3> QED
      BY <1>1, <2>2, <3>1, NextCases, TypeEdits, RestructureEdits, OpenEdits, LeaveEdits, ReloadEdits, BeginEdits,
         CommitSaveEdits, SyncStartEdits, PurgeEdits, LateEdits, StageEdits, UploadEdits,
         ConflictEdits, FetchEdits, OverEdits, EchoEdits, DecideEdits, LockEdits, PullCommitEdits,
         PublishEdits, AcceptedEdits, RecoveryEdits
  <2> QED
    BY <2>1, <2>2
<1> QED
  BY <1>1, <1>2 DEF EditNext, EditInv

LEMMA EditsInit ==
    ASSUME Init
    PROVE  EditInv
<1>1. Shaped /\ CleanInv
  BY ShapedInit, CleanInit
<1>2. /\ server = FirstRow /\ done = {} /\ sent = {} /\ saved = {}
      /\ \A d \in Devices : /\ row[d] = FirstRow /\ outbox[d] = NoEntry /\ holder[d] = NoTab
                            /\ step[d] = "idle" /\ page[d] = NoRow
      /\ \A t \in Tabs : memory[t] = FirstRow /\ saving[t] = NoSaving /\ deferred[t] = NoDeferred
  BY DEF Init
<1>3. KnownRow(server, Aside, FirstRow) /\ KnownRow(server, Aside, NoRow)
  BY <1>2 DEF KnownRow, Knows, FirstRow
<1>4. ServerInv /\ NoLostEdit
  BY <1>2 DEF ServerInv, NoLostEdit, FirstRow
<1>5. ~Pending(NoEntry)
  BY DEF Pending
<1>6. KeysInv
  BY <1>2, <1>5 DEF KeysInv
<1>7. ASSUME NEW d \in Devices PROVE EntryInv(d) /\ RunInv(d)
  <2>1. EntryInv(d)
    BY <1>2, <1>3, <1>5 DEF EntryInv
  <2>2. RunInv(d)
    BY <1>2, <1>3, Constants DEF RunInv
  <2> QED
    BY <2>1, <2>2
<1>8. ASSUME NEW t \in Tabs PROVE MemoryInv(t) /\ SaveInv(t)
  <2>1. DeviceOf[t] \in Devices
    BY Constants
  <2>2. MemoryInv(t)
    BY <1>2, <1>3, <1>5, <2>1 DEF MemoryInv
  <2>3. SaveInv(t)
    BY <1>2 DEF SaveInv, NoSaving
  <2> QED
    BY <2>2, <2>3
<1> QED
  BY <1>1, <1>4, <1>6, <1>7, <1>8 DEF EditInv, DevicesInv

(* An edit that was once saved locally is never lost, for any number of    *)
(* devices with a window each, whatever saves, uploads, late deliveries,   *)
(* pulls, purges, reloads and failures interleave: every proposal knew     *)
(* what it takes the place of, or that is in a copy or a recovery record.  *)
(* Structural saves past a locked lane and leaving a note with a version   *)
(* held back are excluded: with them the property fails.                   *)
THEOREM NoEditIsLost == OneWindow /\ Orderly => (Spec => []NoLostEdit)
<1> SUFFICES ASSUME OneWindow, Orderly
             PROVE  Spec => []NoLostEdit
  OBVIOUS
<1>1. Init => EditInv
  BY EditsInit
<1>2. EditInv /\ [Next]_vars => EditInv'
  BY EditsStep
<1>3. EditInv => NoLostEdit
  BY DEF EditInv
<1> QED
  BY <1>1, <1>2, <1>3, PTL DEF Spec

=============================================================================
