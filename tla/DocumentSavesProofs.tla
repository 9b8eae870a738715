------------------------- MODULE DocumentSavesProofs -------------------------
(* Theorems about DocumentSaves: no edit is stranded between memory, queue, lane *)
(* and database, and a closed workspace has written all it did not report.       *)
EXTENDS DocumentSaves, FiniteSetTheorems, SequenceTheorems, TLAPS

-----------------------------------------------------------------------------
(* Sequences: adding at the end, taking the first away, putting it back.         *)

LEMMA Appended ==
    ASSUME NEW S, NEW s \in Seq(S), NEW x \in S
    PROVE  /\ Append(s, x) \in Seq(S) /\ Append(s, x) # << >>
           /\ Len(s) \in Nat /\ Len(Append(s, x)) = Len(s) + 1
           /\ DOMAIN s = 1..Len(s) /\ DOMAIN Append(s, x) = 1..(Len(s) + 1)
           /\ \A i \in 1..Len(s) : Append(s, x)[i] = s[i]
           /\ Append(s, x)[Len(s) + 1] = x
OBVIOUS

LEMMA Shortened ==
    ASSUME NEW S, NEW s \in Seq(S), s # << >>
    PROVE  /\ Tail(s) \in Seq(S) /\ Head(s) = s[1] /\ Head(s) \in S
           /\ Len(s) \in Nat /\ Len(s) > 0 /\ Len(Tail(s)) = Len(s) - 1
           /\ DOMAIN s = 1..Len(s) /\ DOMAIN Tail(s) = 1..(Len(s) - 1)
           /\ \A i \in 1..(Len(s) - 1) : Tail(s)[i] = s[i + 1]
           /\ Tail(s) = << >> <=> Len(s) = 1
<1>1. /\ Tail(s) \in Seq(S) /\ Head(s) = s[1] /\ Head(s) \in S
      /\ Len(s) \in Nat /\ Len(s) > 0 /\ Len(Tail(s)) = Len(s) - 1
      /\ DOMAIN s = 1..Len(s) /\ DOMAIN Tail(s) = 1..(Len(s) - 1)
      /\ \A i \in 1..(Len(s) - 1) : Tail(s)[i] = s[i + 1]
  OBVIOUS
<1>2. Tail(s) = << >> <=> Len(Tail(s)) = 0
  BY <1>1, EmptySeq
<1> QED
  BY <1>1, <1>2

LEMMA EmptyHasNoIndex == \A i : i \notin 1..Len(<< >>)
<1>1. Len(<< >>) = 0
  OBVIOUS
<1>2. \A i : i \notin 1..0
  OBVIOUS
<1> QED
  BY <1>1, <1>2

LEMMA Prefixed ==
    ASSUME NEW S, NEW p \in Seq(S), NEW s \in Seq(S), s # << >>
    PROVE  /\ p \o Tail(s) \in Seq(S)
           /\ Len(p) \in Nat /\ Len(p \o Tail(s)) = Len(p) + Len(s) - 1
           /\ DOMAIN (p \o Tail(s)) = 1..(Len(p) + Len(s) - 1)
           /\ \A i \in 1..Len(p) : (p \o Tail(s))[i] = p[i]
           /\ \A i \in 2..Len(s) : (p \o Tail(s))[Len(p) + i - 1] = s[i]
<1>1. /\ Tail(s) \in Seq(S) /\ Len(s) \in Nat /\ Len(s) > 0 /\ Len(Tail(s)) = Len(s) - 1
      /\ \A i \in 1..(Len(s) - 1) : Tail(s)[i] = s[i + 1]
  BY Shortened
<1>2. /\ Len(p) \in Nat /\ p \o Tail(s) \in Seq(S)
      /\ Len(p \o Tail(s)) = Len(p) + Len(Tail(s))
  BY <1>1
<1>3. \A i \in 1..Len(p) : (p \o Tail(s))[i] = p[i]
  BY <1>1, <1>2
<1>4. \A i \in 1..(Len(s) - 1) : (p \o Tail(s))[Len(p) + i] = Tail(s)[i]
  BY <1>1, <1>2
<1>5. \A i \in 2..Len(s) : (p \o Tail(s))[Len(p) + i - 1] = s[i]
  <2> SUFFICES ASSUME NEW i \in 2..Len(s) PROVE (p \o Tail(s))[Len(p) + i - 1] = s[i]
    OBVIOUS
  <2>1. i - 1 \in 1..(Len(s) - 1) /\ Len(p) + (i - 1) = Len(p) + i - 1 /\ (i - 1) + 1 = i
    BY <1>1, <1>2
  <2> QED
    BY <1>1, <1>4, <2>1
<1> QED
  BY <1>1, <1>2, <1>3, <1>5

-----------------------------------------------------------------------------
(* The inductive invariant.                                                      *)

Entry == [queued : BOOLEAN, armed : BOOLEAN, running : BOOLEAN]

Values ==
  /\ doc \in [Notes -> Documents] /\ disk \in [Notes -> Documents]
  /\ lane \in [Notes -> Seq(Writes)]
  /\ failed \subseteq Notes /\ given \subseteq Notes /\ active \in Notes
Queue  == pending \in [Notes -> Entry]
Plans  == todo \in [Routines -> Seq(Steps)] /\ phase \in {"open", "closing", "stopped"}
Counts ==
  /\ spent \in [edits : 0..MaxEdits, structural : 0..MaxStructural, failures : Nat]
  /\ \A n \in Notes : doc[n].text <= spent.edits /\ doc[n].place <= spent.structural

Places ==
  \A n \in Notes : \A i \in 1..Len(lane[n]) : lane[n][i].value.place <= spent.structural

(* An entry of the queue has a timer or an attempt; a note without one has none. *)
EntryOK(n) ==
  /\ pending[n].queued => pending[n].armed \/ pending[n].running
  /\ ~pending[n].queued => ~pending[n].armed /\ ~pending[n].running

(* The texts of a lane never go back, and a title is newer than all before it. *)
Ordered(writes, document) ==
  \A i \in 1..Len(writes) :
    /\ writes[i].value.text <= document.text
    /\ \A j \in 1..Len(writes) : i < j =>
         /\ writes[i].value.text <= writes[j].value.text
         /\ writes[j].by = "title" => writes[i].value.text < writes[j].value.text

(* An attempt is running exactly while one save is in the lane. *)
OneSave(writes, running) ==
  /\ running <=> \E i \in 1..Len(writes) : writes[i].by = "save"
  /\ \A i, j \in 1..Len(writes) : writes[i].by = "save" /\ writes[j].by = "save" => i = j

(* Without an entry, the last write of the lane, or else the database, has what  *)
(* is in memory; a structural change brings a place of its own.                  *)
Settled(writes, onDisk, document, reported) ==
  IF writes = << >> THEN onDisk = document \/ reported
  ELSE LET last == writes[Len(writes)]
       IN  /\ last.value.text = document.text
           /\ last.by = "structure" \/ last.value = document
NoteSettled(n) ==
  phase # "stopped" /\ n \notin given /\ ~pending[n].queued =>
    Settled(lane[n], disk[n], doc[n], n \in failed)

NoteInv(n) ==
  /\ EntryOK(n) /\ Ordered(lane[n], doc[n])
  /\ n \notin given => OneSave(lane[n], pending[n].running)
  /\ NoteSettled(n)

(* The steps of a close: flushes, then the lanes, then the stop. *)
Flushes == {"flush", "saved", "flushAll"}
IsPlan(steps) ==
  /\ Len(steps) > 0 /\ steps[Len(steps)].op = "stop"
  /\ Len(steps) > 1 => steps[Len(steps) - 1].op = "drainAll"
  /\ \A i \in 1..Len(steps) : i < Len(steps) - 1 => steps[i].op \in Flushes
ClosePlan ==
  /\ phase = "open" => todo["close"] = << >>
  /\ phase = "closing" => IsPlan(todo["close"])
  /\ phase = "stopped" => \A r \in Routines : todo[r] = << >>
OthersPlain ==
  \A r \in Routines \ {"close"} : \A i \in 1..Len(todo[r]) :
    todo[r][i].op \notin {"stop", "drainAll", "flushAll"}

(* What a discarding close gives up, it does not wait for. *)
GivenUp == given # {} => phase # "open" /\ Len(todo["close"]) <= 2

(* What is queued when the workspace closes is still to be flushed. *)
Planned(steps, n) ==
  \E i \in 1..Len(steps) :
    i < Len(steps) - 1 /\ (steps[i].op = "flushAll" \/ steps[i].note = n)
WorkPlanned ==
  phase = "closing" => \A n \in Notes : pending[n].queued => Planned(todo["close"], n)

(* After the lanes were empty only structural changes can be written. *)
Has(document, value) == value.text = document.text /\ value.place >= document.place
Closed == phase = "stopped" \/ (phase = "closing" /\ Len(todo["close"]) = 1)
ClosedIsWritten ==
  Closed => \A n \in Notes :
    /\ ~pending[n].queued
    /\ \A i \in 1..Len(lane[n]) : lane[n][i].by = "structure"
    /\ n \notin given =>
         /\ n \in failed \/ Has(doc[n], disk[n])
         /\ \A i \in 1..Len(lane[n]) : Has(doc[n], lane[n][i].value)

IInv ==
  /\ Values /\ Queue /\ Plans /\ Counts /\ Places
  /\ \A n \in Notes : NoteInv(n)
  /\ ClosePlan /\ OthersPlain /\ GivenUp /\ WorkPlanned /\ ClosedIsWritten

-----------------------------------------------------------------------------
(* Lanes.                                                                        *)

LEMMA OrderAppended ==
    ASSUME NEW s \in Seq(Writes), NEW w \in Writes, NEW d \in Documents, NEW e \in Documents,
           Ordered(s, d), d.text <= e.text, w.value.text = e.text,
           w.by = "title" => d.text < e.text
    PROVE  Ordered(Append(s, w), e)
<1> DEFINE t == Append(s, w)
<1>1. /\ Len(s) \in Nat /\ Len(t) = Len(s) + 1
      /\ \A i \in 1..Len(s) : t[i] = s[i] /\ s[i] \in Writes
      /\ t[Len(s) + 1] = w
  BY Appended
<1>2. \A v \in Writes : v.value.text \in Nat
  BY DEF Writes, Documents
<1>3. d.text \in Nat /\ e.text \in Nat
  BY DEF Documents
<1> HIDE DEF t
<1>4. \A i \in 1..Len(s) : s[i].value.text <= d.text /\ s[i].value.text \in Nat
  BY <1>1, <1>2 DEF Ordered
<1>5. \A i \in 1..Len(t) : t[i].value.text <= e.text
  <2> SUFFICES ASSUME NEW i \in 1..Len(t) PROVE t[i].value.text <= e.text
    OBVIOUS
  <2>1. CASE i \in 1..Len(s)
    BY <1>1, <1>3, <1>4, <2>1
  <2>2. CASE i = Len(s) + 1
    BY <1>1, <1>3, <2>2
  <2> QED
    BY <1>1, <2>1, <2>2
<1>6. ASSUME NEW i \in 1..Len(t), NEW j \in 1..Len(t), i < j
      PROVE  /\ t[i].value.text <= t[j].value.text
             /\ t[j].by = "title" => t[i].value.text < t[j].value.text
  <2>1. i \in 1..Len(s)
    BY <1>1, <1>6
  <2>2. CASE j \in 1..Len(s)
    <3>1. t[i] = s[i] /\ t[j] = s[j]
      BY <1>1, <2>1, <2>2
    <3> QED
      BY <1>6, <2>1, <2>2, <3>1 DEF Ordered
  <2>3. CASE j = Len(s) + 1
    <3>1. t[i] = s[i] /\ t[j] = w
      BY <1>1, <2>1, <2>3
    <3>2. s[i].value.text <= d.text /\ s[i].value.text \in Nat
      BY <1>4, <2>1
    <3> QED
      BY <1>3, <3>1, <3>2
  <2>4. j \in 1..Len(s) \/ j = Len(s) + 1
    BY <1>1
  <2> QED
    BY <2>2, <2>3, <2>4
<1> QED
  BY <1>5, <1>6 DEF Ordered, t

LEMMA OrderShortened ==
    ASSUME NEW s \in Seq(Writes), s # << >>, NEW d, Ordered(s, d)
    PROVE  Ordered(Tail(s), d)
<1>1. /\ Len(s) \in Nat /\ Len(Tail(s)) = Len(s) - 1
      /\ \A i \in 1..(Len(s) - 1) : Tail(s)[i] = s[i + 1]
  BY Shortened
<1>2. ASSUME NEW i \in 1..Len(Tail(s))
      PROVE  i + 1 \in 1..Len(s) /\ Tail(s)[i] = s[i + 1]
  BY <1>1
<1>3. ASSUME NEW i \in 1..Len(Tail(s)), NEW j \in 1..Len(Tail(s)), i < j
      PROVE  i + 1 < j + 1
  BY <1>1, <1>3
<1> QED
  BY <1>2, <1>3 DEF Ordered

LEMMA OrderGrows ==
    ASSUME NEW s \in Seq(Writes), NEW d \in Documents, NEW e \in Documents,
           Ordered(s, d), d.text <= e.text
    PROVE  Ordered(s, e)
<1>1. d.text \in Nat /\ e.text \in Nat
  BY DEF Documents
<1>a. \A i \in 1..Len(s) : s[i] \in Writes
  OBVIOUS
<1>2. \A i \in 1..Len(s) : s[i].value.text \in Nat
  BY <1>a DEF Writes, Documents
<1>3. \A i \in 1..Len(s) : s[i].value.text <= e.text
  BY <1>1, <1>2 DEF Ordered
<1> QED
  BY <1>3 DEF Ordered

LEMMA SaveAppended ==
    ASSUME NEW s \in Seq(Writes), NEW w \in Writes, OneSave(s, FALSE), w.by = "save"
    PROVE  OneSave(Append(s, w), TRUE)
<1>1. /\ Len(s) \in Nat /\ Len(Append(s, w)) = Len(s) + 1
      /\ \A i \in 1..Len(s) : Append(s, w)[i] = s[i]
      /\ Append(s, w)[Len(s) + 1] = w
  BY Appended
<1>2. \A i \in 1..Len(s) : s[i].by # "save"
  BY DEF OneSave
<1>3. \A i \in 1..Len(Append(s, w)) : Append(s, w)[i].by = "save" <=> i = Len(s) + 1
  <2> SUFFICES ASSUME NEW i \in 1..Len(Append(s, w))
               PROVE  Append(s, w)[i].by = "save" <=> i = Len(s) + 1
    OBVIOUS
  <2>1. i \in 1..Len(s) \/ i = Len(s) + 1
    BY <1>1
  <2> QED
    BY <1>1, <1>2, <2>1
<1>4. Len(s) + 1 \in 1..Len(Append(s, w))
  BY <1>1
<1> QED
  BY <1>3, <1>4 DEF OneSave

LEMMA OtherAppended ==
    ASSUME NEW s \in Seq(Writes), NEW w \in Writes, NEW b \in BOOLEAN, OneSave(s, b), w.by # "save"
    PROVE  OneSave(Append(s, w), b)
<1>1. /\ Len(s) \in Nat /\ Len(Append(s, w)) = Len(s) + 1
      /\ \A i \in 1..Len(s) : Append(s, w)[i] = s[i]
      /\ Append(s, w)[Len(s) + 1] = w
  BY Appended
<1>2. \A i \in 1..Len(Append(s, w)) :
        Append(s, w)[i].by = "save" <=> i \in 1..Len(s) /\ s[i].by = "save"
  <2> SUFFICES ASSUME NEW i \in 1..Len(Append(s, w))
               PROVE  Append(s, w)[i].by = "save" <=> i \in 1..Len(s) /\ s[i].by = "save"
    OBVIOUS
  <2>1. i \in 1..Len(s) \/ (i = Len(s) + 1 /\ i \notin 1..Len(s))
    BY <1>1
  <2> QED
    BY <1>1, <2>1
<1>3. 1..Len(s) \subseteq 1..Len(Append(s, w))
  BY <1>1
<1> QED
  BY <1>2, <1>3 DEF OneSave

LEMMA SaveShortened ==
    ASSUME NEW s \in Seq(Writes), s # << >>, NEW b \in BOOLEAN, OneSave(s, b)
    PROVE  /\ Head(s).by = "save" => b /\ OneSave(Tail(s), FALSE)
           /\ Head(s).by # "save" => OneSave(Tail(s), b)
<1>1. /\ Len(s) \in Nat /\ Len(s) > 0 /\ Len(Tail(s)) = Len(s) - 1 /\ Head(s) = s[1]
      /\ \A i \in 1..(Len(s) - 1) : Tail(s)[i] = s[i + 1]
  BY Shortened
<1>2. ASSUME NEW i \in 1..Len(Tail(s))
      PROVE  i + 1 \in 1..Len(s) /\ Tail(s)[i] = s[i + 1] /\ i + 1 # 1
  BY <1>1
<1>3. ASSUME NEW i \in 1..Len(s), i # 1
      PROVE  i - 1 \in 1..Len(Tail(s)) /\ Tail(s)[i - 1] = s[i]
  BY <1>1, <1>3
<1>4. ASSUME Head(s).by = "save" PROVE b /\ OneSave(Tail(s), FALSE)
  <2>1. 1 \in 1..Len(s) /\ s[1].by = "save"
    BY <1>1, <1>4
  <2>2. b /\ \A i \in 1..Len(s) : s[i].by = "save" => i = 1
    BY <2>1 DEF OneSave
  <2>3. \A i \in 1..Len(Tail(s)) : Tail(s)[i].by # "save"
    BY <1>2, <2>2
  <2> QED
    BY <2>2, <2>3 DEF OneSave
<1>5. ASSUME Head(s).by # "save" PROVE OneSave(Tail(s), b)
  <2>1. b <=> \E i \in 1..Len(Tail(s)) : Tail(s)[i].by = "save"
    <3>1. ASSUME b PROVE \E i \in 1..Len(Tail(s)) : Tail(s)[i].by = "save"
      <4>1. PICK i \in 1..Len(s) : s[i].by = "save"
        BY <3>1 DEF OneSave
      <4>2. i # 1
        BY <1>1, <1>5, <4>1
      <4> QED
        BY <1>3, <4>1, <4>2
    <3>2. ASSUME NEW i \in 1..Len(Tail(s)), Tail(s)[i].by = "save" PROVE b
      BY <1>2, <3>2 DEF OneSave
    <3> QED
      BY <3>1, <3>2
  <2>2. ASSUME NEW i \in 1..Len(Tail(s)), NEW j \in 1..Len(Tail(s)),
               Tail(s)[i].by = "save", Tail(s)[j].by = "save"
        PROVE  i = j
    <3>1. i + 1 = j + 1
      BY <1>2, <2>2 DEF OneSave
    <3> QED
      BY <1>1, <3>1
  <2> QED
    BY <2>1, <2>2 DEF OneSave
<1> QED
  BY <1>4, <1>5

LEMMA SettledAppended ==
    ASSUME NEW s \in Seq(Writes), NEW w \in Writes, NEW x, NEW d, NEW b,
           w.value.text = d.text, w.by = "structure" \/ w.value = d
    PROVE  Settled(Append(s, w), x, d, b)
<1>1. Append(s, w) # << >> /\ Append(s, w)[Len(Append(s, w))] = w
  BY Appended
<1> QED
  BY <1>1 DEF Settled

LEMMA SettledShortened ==
    ASSUME NEW s \in Seq(Writes), s # << >>, Tail(s) # << >>, NEW x, NEW y, NEW d, NEW b, NEW c,
           Settled(s, x, d, b)
    PROVE  Settled(Tail(s), y, d, c)
<1>1. Tail(s)[Len(Tail(s))] = s[Len(s)]
  <2>1. Len(s) \in Nat /\ Len(s) > 0 /\ Len(s) # 1 /\ Len(Tail(s)) = Len(s) - 1
    BY Shortened
  <2>2. Len(s) - 1 \in 1..(Len(s) - 1) /\ (Len(s) - 1) + 1 = Len(s)
    BY <2>1
  <2> QED
    BY <2>1, <2>2, Shortened
<1> QED
  BY <1>1 DEF Settled

-----------------------------------------------------------------------------
(* What each step does to the notes.                                             *)

SameNote(n) ==
  /\ doc'[n] = doc[n] /\ disk'[n] = disk[n] /\ pending'[n] = pending[n] /\ lane'[n] = lane[n]
  /\ n \in failed' <=> n \in failed
  /\ n \in given' <=> n \in given

LEMMA OthersKeep ==
    ASSUME NEW n, NoteInv(n), SameNote(n), phase' # "stopped" => phase # "stopped"
    PROVE  NoteInv(n)'
<1>1. EntryOK(n)'
  BY DEF NoteInv, SameNote, EntryOK
<1>2. Ordered(lane[n], doc[n])'
  BY DEF NoteInv, SameNote
<1>3. (n \notin given => OneSave(lane[n], pending[n].running))'
  BY DEF NoteInv, SameNote
<1>4. NoteSettled(n)'
  <2> SUFFICES ASSUME phase' # "stopped", n \notin given', ~pending'[n].queued
               PROVE  Settled(lane'[n], disk'[n], doc'[n], n \in failed')
    BY DEF NoteSettled
  <2>1. Settled(lane[n], disk[n], doc[n], n \in failed)
    BY DEF NoteInv, SameNote, NoteSettled
  <2>2. lane'[n] = lane[n] /\ disk'[n] = disk[n] /\ doc'[n] = doc[n]
    BY DEF SameNote
  <2>3. n \in failed' <=> n \in failed
    BY DEF SameNote
  <2> QED
    BY <2>1, <2>2, <2>3 DEF Settled
<1> QED
  BY <1>1, <1>2, <1>3, <1>4 DEF NoteInv

DataOK == Values /\ Queue /\ Counts /\ \A n \in Notes : NoteInv(n)

LEMMA DataKept ==
    ASSUME DataOK, UNCHANGED <<doc, disk, pending, lane, failed, given, spent>>, active' \in Notes,
           phase' # "stopped" => phase # "stopped"
    PROVE  DataOK'
<1>1. Values' /\ Queue' /\ Counts'
  BY DEF DataOK, Values, Queue, Counts
<1>2. ASSUME NEW n \in Notes PROVE NoteInv(n)'
  BY OthersKeep DEF DataOK, SameNote
<1> QED
  BY <1>1, <1>2 DEF DataOK

(* An attempt is joined, or starts with the document of this moment. *)
LEMMA RunKeeps ==
    ASSUME DataOK, NEW n \in Notes, pending[n].queued, Run(n), phase' = phase,
           UNCHANGED <<doc, disk, failed, active, given, spent>>
    PROVE  /\ DataOK'
           /\ \A m \in Notes : pending'[m].queued = pending[m].queued
           /\ \A m \in Notes \ {n} : lane'[m] = lane[m]
<1>a. /\ doc[n] \in Documents /\ lane[n] \in Seq(Writes) /\ pending[n] \in Entry
      /\ lane \in [Notes -> Seq(Writes)] /\ pending \in [Notes -> Entry]
  BY DEF DataOK, Values, Queue
<1>b. NoteInv(n)
  BY DEF DataOK
<1> DEFINE w == [value |-> doc[n], by |-> "save"]
<1>c. w \in Writes
  BY <1>a DEF Writes, Writers
<1>1. CASE pending[n].running
  <2>1. UNCHANGED lane /\ pending' = [pending EXCEPT ![n].armed = FALSE]
    BY <1>1 DEF Run
  <2>2. Queue'
    BY <2>1, <1>a DEF Queue, Entry
  <2>3. /\ pending'[n].queued /\ pending'[n].running
        /\ \A m \in Notes : pending'[m].queued = pending[m].queued
        /\ \A m \in Notes \ {n} : pending'[m] = pending[m]
    BY <2>1, <1>a, <1>1 DEF Entry
  <2>4. NoteInv(n)'
    BY <1>b, <1>1, <2>1, <2>3 DEF NoteInv, EntryOK, NoteSettled
  <2>5. ASSUME NEW m \in Notes \ {n} PROVE NoteInv(m)'
    BY <2>1, <2>3, OthersKeep DEF DataOK, SameNote
  <2>6. Values' /\ Counts'
    BY <2>1 DEF DataOK, Values, Counts
  <2> QED
    BY <2>1, <2>2, <2>3, <2>4, <2>5, <2>6 DEF DataOK
<1>2. CASE ~pending[n].running
  <2>1. /\ lane' = [lane EXCEPT ![n] = Append(@, w)]
        /\ pending' = [pending EXCEPT ![n].armed = FALSE, ![n].running = TRUE]
    BY <1>2 DEF Run, Enqueued
  <2>2. Queue'
    BY <2>1, <1>a DEF Queue, Entry
  <2>3. /\ pending'[n].queued /\ pending'[n].running
        /\ \A m \in Notes : pending'[m].queued = pending[m].queued
        /\ \A m \in Notes \ {n} : pending'[m] = pending[m]
    BY <2>1, <1>a DEF Entry
  <2>4. lane'[n] = Append(lane[n], w) /\ \A m \in Notes \ {n} : lane'[m] = lane[m]
    BY <2>1, <1>a
  <2>5. Append(lane[n], w) \in Seq(Writes)
    BY <1>a, <1>c
  <2>6. Values' /\ Counts'
    BY <2>1, <2>5, <1>a DEF DataOK, Values, Counts
  <2>7. NoteInv(n)'
    <3>1. EntryOK(n)'
      BY <2>3 DEF EntryOK
    <3>2. Ordered(Append(lane[n], w), doc[n])
      <4>1. Ordered(lane[n], doc[n]) /\ doc[n].text <= doc[n].text
        BY <1>a, <1>b DEF NoteInv, Documents
      <4> QED
        BY <4>1, <1>a, <1>c, OrderAppended
    <3>3. ASSUME n \notin given' PROVE OneSave(Append(lane[n], w), TRUE)
      <4>1. OneSave(lane[n], FALSE)
        BY <1>b, <1>2, <3>3 DEF NoteInv, OneSave
      <4> QED
        BY <4>1, <1>a, <1>c, SaveAppended
    <3>4. (n \notin given => OneSave(lane[n], pending[n].running))'
      BY <2>3, <2>4, <3>3 DEF OneSave
    <3>5. NoteSettled(n)'
      BY <2>3 DEF NoteSettled
    <3> QED
      BY <2>4, <3>1, <3>2, <3>4, <3>5 DEF NoteInv
  <2>8. ASSUME NEW m \in Notes \ {n} PROVE NoteInv(m)'
    BY <2>3, <2>4, OthersKeep DEF DataOK, SameNote
  <2> QED
    BY <2>2, <2>3, <2>4, <2>6, <2>7, <2>8 DEF DataOK
<1> QED
  BY <1>1, <1>2

(* A new text is newer than every text before. *)
LEMMA TextGrows ==
    ASSUME DataOK, NEW n \in Notes, spent.edits < MaxEdits,
           spent' = [spent EXCEPT !.edits = @ + 1],
           doc' = [doc EXCEPT ![n].text = spent.edits + 1]
    PROVE  /\ doc' \in [Notes -> Documents] /\ doc' = [doc EXCEPT ![n] = doc'[n]]
           /\ doc[n].text < doc'[n].text /\ doc[n].text <= doc'[n].text
           /\ \A m \in Notes \ {n} : doc'[m] = doc[m]
           /\ Counts'
<1>a. /\ doc \in [Notes -> Documents] /\ doc[n] \in Documents
      /\ spent \in [edits : 0..MaxEdits, structural : 0..MaxStructural, failures : Nat]
      /\ \A m \in Notes : doc[m].text <= spent.edits /\ doc[m].place <= spent.structural
  BY DEF DataOK, Values, Counts
<1>b. MaxEdits \in Nat
  BY DocumentSavesAssumption DEF DocumentSavesAssumption
<1>1. spent.edits \in Nat /\ spent.edits + 1 \in 0..MaxEdits
  BY <1>a, <1>b
<1>2. /\ doc'[n] = [doc[n] EXCEPT !.text = spent.edits + 1]
      /\ doc' = [doc EXCEPT ![n] = doc'[n]]
      /\ \A m \in Notes \ {n} : doc'[m] = doc[m]
  BY <1>a
<1>3. doc'[n] \in Documents /\ doc'[n].text = spent.edits + 1 /\ doc'[n].place = doc[n].place
  BY <1>1, <1>2, <1>a DEF Documents
<1>4. doc' \in [Notes -> Documents]
  BY <1>2, <1>3, <1>a
<1>5. spent' \in [edits : 0..MaxEdits, structural : 0..MaxStructural, failures : Nat]
  BY <1>1, <1>a
<1>6. spent'.edits = spent.edits + 1 /\ spent'.structural = spent.structural
  BY <1>a
<1>7. \A m \in Notes : doc[m].text \in Nat
  BY <1>a DEF Documents
<1>8. ASSUME NEW m \in Notes PROVE doc'[m].text <= spent'.edits /\ doc'[m].place <= spent'.structural
  <2>1. CASE m = n
    BY <1>1, <1>3, <1>6, <1>a, <2>1
  <2>2. CASE m # n
    <3>1. doc'[m] = doc[m] /\ doc[m].text \in Nat /\ doc[m].text <= spent.edits
      BY <1>2, <1>7, <1>a, <2>2
    <3>2. doc[m].text <= spent.edits + 1
      BY <1>1, <3>1
    <3> QED
      BY <1>6, <1>a, <3>1, <3>2
  <2> QED
    BY <2>1, <2>2
<1> QED
  BY <1>1, <1>2, <1>3, <1>4, <1>5, <1>7, <1>8, <1>a DEF Counts

(* An edit is queued. *)
LEMMA PatchKeeps ==
    ASSUME DataOK, NEW n \in Notes, Patch(n)
    PROVE  DataOK'
<1>a. /\ doc[n] \in Documents /\ pending \in [Notes -> Entry] /\ pending[n] \in Entry
      /\ lane[n] \in Seq(Writes)
  BY DEF DataOK, Values, Queue
<1>b. NoteInv(n)
  BY DEF DataOK
<1>1. /\ spent.edits < MaxEdits /\ spent' = [spent EXCEPT !.edits = @ + 1]
      /\ doc' = [doc EXCEPT ![n].text = spent.edits + 1]
      /\ pending' = [pending EXCEPT ![n].queued = TRUE, ![n].armed = TRUE]
      /\ UNCHANGED <<disk, lane, failed, todo, phase, active, given>>
  BY DEF Patch
<1>2. /\ doc' \in [Notes -> Documents] /\ doc'[n] \in Documents
      /\ doc[n].text <= doc'[n].text
      /\ \A m \in Notes \ {n} : doc'[m] = doc[m]
      /\ Counts'
  BY <1>1, TextGrows
<1>3. Queue'
  BY <1>1, <1>a DEF Queue, Entry
<1>4. /\ pending'[n].queued /\ pending'[n].armed /\ pending'[n].running = pending[n].running
      /\ \A m \in Notes \ {n} : pending'[m] = pending[m]
  BY <1>1, <1>a DEF Entry
<1>5. Values'
  BY <1>1, <1>2 DEF DataOK, Values
<1>6. NoteInv(n)'
  <2>1. Ordered(lane[n], doc'[n])
    BY <1>a, <1>b, <1>2, OrderGrows DEF NoteInv
  <2> QED
    BY <1>1, <1>4, <1>b, <2>1 DEF NoteInv, EntryOK, NoteSettled
<1>7. ASSUME NEW m \in Notes \ {n} PROVE NoteInv(m)'
  BY <1>1, <1>2, <1>4, OthersKeep DEF DataOK, SameNote
<1> QED
  BY <1>2, <1>3, <1>5, <1>6, <1>7 DEF DataOK

(* A write beside the queue: memory may have a new text, which the write has. *)
LEMMA EnqueueKeeps ==
    ASSUME DataOK, NEW n \in Notes, NEW w \in Writes, w.by # "save",
           w.value.text = doc'[n].text, w.by = "structure" \/ w.value = doc'[n],
           doc'[n] \in Documents, doc[n].text <= doc'[n].text,
           w.by = "title" => doc[n].text < doc'[n].text,
           doc' = [doc EXCEPT ![n] = doc'[n]],
           lane' = [lane EXCEPT ![n] = Append(@, w)],
           UNCHANGED <<disk, pending, failed, active, given>>, phase' = phase,
           Counts'
    PROVE  /\ DataOK'
           /\ lane'[n] = Append(lane[n], w)
           /\ \A m \in Notes \ {n} : lane'[m] = lane[m] /\ doc'[m] = doc[m]
<1>a. /\ doc \in [Notes -> Documents] /\ lane \in [Notes -> Seq(Writes)] /\ lane[n] \in Seq(Writes)
      /\ doc[n] \in Documents /\ pending[n] \in Entry
  BY DEF DataOK, Values, Queue
<1>b. NoteInv(n)
  BY DEF DataOK
<1>1. /\ lane'[n] = Append(lane[n], w) /\ \A m \in Notes \ {n} : lane'[m] = lane[m]
      /\ \A m \in Notes \ {n} : doc'[m] = doc[m]
  BY <1>a
<1>2. Append(lane[n], w) \in Seq(Writes)
  BY <1>a
<1>3. Values'
  <2>1. doc' \in [Notes -> Documents]
    BY <1>a
  <2>2. lane' \in [Notes -> Seq(Writes)]
    BY <1>a, <1>2
  <2> QED
    BY <2>1, <2>2 DEF DataOK, Values
<1>4. Queue'
  BY DEF DataOK, Queue
<1>5. NoteInv(n)'
  <2>1. Ordered(Append(lane[n], w), doc'[n])
    BY <1>a, <1>b, OrderAppended DEF NoteInv
  <2>2. pending[n].running \in BOOLEAN
    BY <1>a DEF Entry
  <2>3. n \notin given => OneSave(Append(lane[n], w), pending[n].running)
    BY <1>a, <1>b, <2>2, OtherAppended DEF NoteInv
  <2>4. Settled(Append(lane[n], w), disk'[n], doc'[n], n \in failed')
    BY <1>a, SettledAppended
  <2> QED
    BY <1>1, <1>b, <2>1, <2>3, <2>4 DEF NoteInv, EntryOK, NoteSettled
<1>6. ASSUME NEW m \in Notes \ {n} PROVE NoteInv(m)'
  BY <1>1, OthersKeep DEF DataOK, SameNote
<1> QED
  BY <1>1, <1>3, <1>4, <1>5, <1>6 DEF DataOK

LEMMA UpdateTitleKeeps ==
    ASSUME DataOK, NEW n \in Notes, UpdateTitle(n)
    PROVE  DataOK'
<1>1. /\ spent.edits < MaxEdits /\ spent' = [spent EXCEPT !.edits = @ + 1]
      /\ doc' = [doc EXCEPT ![n].text = spent.edits + 1]
      /\ lane' = [lane EXCEPT ![n] = Append(@, [value |-> doc'[n], by |-> "title"])]
      /\ UNCHANGED <<disk, pending, failed, todo, phase, active, given>>
  BY DEF UpdateTitle, Enqueued
<1>2. /\ doc'[n] \in Documents /\ doc' = [doc EXCEPT ![n] = doc'[n]]
      /\ doc[n].text < doc'[n].text /\ doc[n].text <= doc'[n].text /\ Counts'
  BY <1>1, TextGrows
<1>3. PICK w : w = [value |-> doc'[n], by |-> "title"]
  OBVIOUS
<1>4. w \in Writes /\ w.by = "title" /\ w.value = doc'[n]
  BY <1>2, <1>3 DEF Writes, Writers
<1> QED
  BY <1>1, <1>2, <1>3, <1>4, EnqueueKeeps

(* A structural change is written with the text of this moment. *)
LEMMA PlaceKeeps ==
    ASSUME DataOK, NEW r \in Routines, NEW n \in Notes, PlaceDocument(r, n)
    PROVE  /\ DataOK'
           /\ \A m \in Notes \ {n} : lane'[m] = lane[m]
           /\ \E w \in Writes : /\ lane'[n] = Append(lane[n], w) /\ w.by = "structure"
                                /\ Has(doc[n], w.value)
<1>a. /\ doc \in [Notes -> Documents] /\ doc[n] \in Documents
      /\ spent \in [edits : 0..MaxEdits, structural : 0..MaxStructural, failures : Nat]
      /\ \A m \in Notes : doc[m].text <= spent.edits /\ doc[m].place <= spent.structural
  BY DEF DataOK, Values, Counts
<1>b. MaxStructural \in Nat
  BY DocumentSavesAssumption DEF DocumentSavesAssumption
<1>1. /\ spent.structural < MaxStructural /\ spent' = [spent EXCEPT !.structural = @ + 1]
      /\ lane' = [lane EXCEPT ![n] =
           Append(@, [value |-> [doc[n] EXCEPT !.place = spent.structural + 1], by |-> "structure"])]
      /\ UNCHANGED <<doc, disk, pending, failed, phase, active, given>>
  BY DEF PlaceDocument, Enqueued
<1>2. spent.structural \in Nat /\ spent.structural + 1 \in 0..MaxStructural
  BY <1>1, <1>a, <1>b
<1>3. PICK v : v = [doc[n] EXCEPT !.place = spent.structural + 1]
  OBVIOUS
<1>4. v \in Documents /\ v.text = doc[n].text /\ v.place = spent.structural + 1
  BY <1>2, <1>3, <1>a DEF Documents
<1>5. PICK w : w = [value |-> v, by |-> "structure"]
  OBVIOUS
<1>6. w \in Writes /\ w.by = "structure" /\ w.value = v
  BY <1>4, <1>5 DEF Writes, Writers
<1>7. \A m \in Notes : doc[m].text \in Nat /\ doc[m].place \in Nat
  BY <1>a DEF Documents
<1>8. Has(doc[n], v)
  BY <1>2, <1>4, <1>7, <1>a DEF Has
<1>9. Counts'
  <2>1. spent' \in [edits : 0..MaxEdits, structural : 0..MaxStructural, failures : Nat]
    BY <1>1, <1>2, <1>a
  <2>2. spent'.edits = spent.edits /\ spent'.structural = spent.structural + 1
    BY <1>1, <1>a
  <2>3. ASSUME NEW m \in Notes PROVE doc[m].text <= spent'.edits /\ doc[m].place <= spent'.structural
    BY <1>2, <1>7, <1>a, <2>2
  <2> QED
    BY <1>1, <2>1, <2>3 DEF Counts
<1>10. doc' = [doc EXCEPT ![n] = doc'[n]] /\ doc'[n] = doc[n] /\ doc[n].text <= doc'[n].text
  BY <1>1, <1>7, <1>a
<1>11. lane' = [lane EXCEPT ![n] = Append(@, w)]
  BY <1>1, <1>3, <1>5
<1>12. /\ DataOK' /\ lane'[n] = Append(lane[n], w)
       /\ \A m \in Notes \ {n} : lane'[m] = lane[m]
  BY <1>1, <1>4, <1>6, <1>9, <1>10, <1>11, <1>a, EnqueueKeeps
<1> QED
  BY <1>6, <1>8, <1>12

(* A write reaches the database, and memory when nothing newer is there. *)
LEMMA WriteSucceedsKeeps ==
    ASSUME DataOK, Places, NEW n \in Notes, WriteSucceeds(n)
    PROVE  DataOK'
<1>a. /\ doc \in [Notes -> Documents] /\ disk \in [Notes -> Documents] /\ doc[n] \in Documents
      /\ pending \in [Notes -> Entry] /\ pending[n] \in Entry
      /\ lane \in [Notes -> Seq(Writes)] /\ lane[n] \in Seq(Writes)
      /\ spent \in [edits : 0..MaxEdits, structural : 0..MaxStructural, failures : Nat]
      /\ \A m \in Notes : doc[m].text <= spent.edits /\ doc[m].place <= spent.structural
  BY DEF DataOK, Values, Queue, Counts
<1>b. EntryOK(n) /\ Ordered(lane[n], doc[n]) /\ NoteSettled(n)
      /\ (n \notin given => OneSave(lane[n], pending[n].running))
  BY DEF DataOK, NoteInv
<1>1. PICK w : w = Head(lane[n])
  OBVIOUS
<1>2. /\ IsActive /\ lane[n] # << >>
      /\ disk' = [disk EXCEPT ![n] = w.value]
      /\ doc' = IF Len(lane[n]) = 1 /\ CommitsState(n, w)
                THEN [doc EXCEPT ![n] = w.value] ELSE doc
      /\ pending' = IF w.by = "save" THEN AttemptSucceeded(n, w.value) ELSE pending
      /\ lane' = [lane EXCEPT ![n] = Tail(@)] /\ failed' = failed \ {n}
      /\ UNCHANGED <<phase, active, given, spent>>
  BY <1>1 DEF WriteSucceeds
<1>3. /\ Tail(lane[n]) \in Seq(Writes) /\ w = lane[n][1] /\ w \in Writes
      /\ Len(lane[n]) \in Nat /\ Len(lane[n]) > 0 /\ 1 \in 1..Len(lane[n])
      /\ Tail(lane[n]) = << >> <=> Len(lane[n]) = 1
  BY <1>a, <1>1, <1>2, Shortened
<1>4. w.value \in Documents
  BY <1>3 DEF Writes
<1>5. w.value.text <= doc[n].text /\ w.value.place <= spent.structural
  BY <1>3, <1>b DEF Ordered, Places
<1>6. /\ doc' \in [Notes -> Documents] /\ disk' \in [Notes -> Documents]
      /\ doc'[n] = IF Len(lane[n]) = 1 /\ CommitsState(n, w) THEN w.value ELSE doc[n]
      /\ disk'[n] = w.value /\ lane'[n] = Tail(lane[n])
      /\ \A m \in Notes \ {n} : doc'[m] = doc[m] /\ disk'[m] = disk[m] /\ lane'[m] = lane[m]
  BY <1>2, <1>4, <1>a
<1>7. lane' \in [Notes -> Seq(Writes)]
  BY <1>2, <1>3, <1>a
<1>8. Values'
  BY <1>2, <1>6, <1>7 DEF DataOK, Values
<1>9. Counts'
  <2>1. w.value.text \in Nat /\ \A m \in Notes : doc[m].text \in Nat
    BY <1>4, <1>a DEF Documents
  <2>2. w.value.text <= spent.edits
    BY <1>5, <2>1, <1>a
  <2>3. \A m \in Notes : doc'[m].text <= spent.edits /\ doc'[m].place <= spent.structural
    BY <1>5, <1>6, <2>2, <1>a
  <2> QED
    BY <1>2, <2>3, <1>a DEF Counts
<1>10. /\ w.by # "save" => pending'[n] = pending[n]
       /\ w.by = "save" =>
            pending'[n] = IF doc'[n] = w.value \/ ~pending[n].queued THEN NoSave
                          ELSE [pending[n] EXCEPT !.running = FALSE, !.armed = TRUE]
       /\ \A m \in Notes \ {n} : pending'[m] = pending[m]
  BY <1>2, <1>a DEF AttemptSucceeded
<1>11. NoSave \in Entry /\ [pending[n] EXCEPT !.running = FALSE, !.armed = TRUE] \in Entry
  BY <1>a DEF NoSave, Entry
<1>12. Queue'
  BY <1>2, <1>11, <1>a DEF Queue, AttemptSucceeded
<1>13. w.by = "save" =>
         /\ ~pending'[n].running
         /\ pending'[n].queued <=> ~(doc'[n] = w.value \/ ~pending[n].queued)
         /\ pending'[n].queued => pending'[n].armed
         /\ ~pending'[n].queued => ~pending'[n].armed
  <2>1. /\ ~NoSave.running /\ ~NoSave.queued /\ ~NoSave.armed
        /\ [pending[n] EXCEPT !.running = FALSE, !.armed = TRUE].queued = pending[n].queued
        /\ [pending[n] EXCEPT !.running = FALSE, !.armed = TRUE].armed
        /\ ~[pending[n] EXCEPT !.running = FALSE, !.armed = TRUE].running
    BY <1>a DEF NoSave, Entry
  <2>2. CASE doc'[n] = w.value \/ ~pending[n].queued
    BY <1>10, <2>1, <2>2
  <2>3. CASE ~(doc'[n] = w.value \/ ~pending[n].queued)
    BY <1>10, <2>1, <2>3
  <2> QED
    BY <2>2, <2>3
<1>14. EntryOK(n)'
  BY <1>b, <1>10, <1>13 DEF EntryOK
<1>15. Ordered(lane'[n], doc'[n])
  <2>1. CASE Len(lane[n]) = 1
    <3>1. Len(lane'[n]) = 0
      BY <1>3, <1>6, <2>1
    <3> QED
      BY <3>1 DEF Ordered
  <2>2. CASE Len(lane[n]) # 1
    BY <2>2, <1>2, <1>6, <1>b, <1>a, OrderShortened
  <2> QED
    BY <2>1, <2>2
<1>16. ASSUME n \notin given PROVE OneSave(lane'[n], pending'[n].running)
  <2>1. /\ w.by = "save" => pending[n].running /\ OneSave(Tail(lane[n]), FALSE)
        /\ w.by # "save" => OneSave(Tail(lane[n]), pending[n].running)
    <3>1. pending[n].running \in BOOLEAN
      BY <1>a DEF Entry
    <3> QED
      BY <3>1, <1>1, <1>2, <1>16, <1>a, <1>b, SaveShortened
  <2>2. CASE w.by = "save"
    BY <1>6, <1>13, <2>1, <2>2 DEF OneSave
  <2>3. CASE w.by # "save"
    BY <1>6, <1>10, <2>1, <2>3
  <2> QED
    BY <2>2, <2>3
<1>17. NoteSettled(n)'
  <2> SUFFICES ASSUME n \notin given, ~pending'[n].queued
               PROVE  Settled(Tail(lane[n]), w.value, doc'[n], n \in failed')
    BY <1>2, <1>6 DEF NoteSettled
  <2>1. OneSave(lane[n], pending[n].running) /\ phase # "stopped"
    BY <1>b, <1>2 DEF IsActive
  <2>2. w.by = "save" => pending[n].queued
    BY <1>3, <1>b, <2>1 DEF OneSave, EntryOK
  <2>3. ~pending[n].queued => Settled(lane[n], disk[n], doc[n], n \in failed)
    BY <1>b, <2>1 DEF NoteSettled
  <2>4. w.by = "save" => doc'[n] = w.value
    BY <1>13, <2>2
  <2>5. CASE Tail(lane[n]) = << >>
    <3>1. doc'[n] = w.value
      <4>1. CASE w.by = "structure"
        BY <1>3, <1>6, <2>5, <4>1 DEF CommitsState
      <4>2. CASE w.by = "title"
        <5>1. ~pending[n].queued
          BY <1>10, <4>2
        <5>2. lane[n][Len(lane[n])] = w
          BY <1>3, <2>5
        <5>3. w.value = doc[n]
          BY <1>2, <2>3, <4>2, <5>1, <5>2 DEF Settled
        <5> QED
          BY <1>6, <5>3
      <4> QED
        BY <1>3, <2>4, <4>1, <4>2 DEF Writes, Writers
    <3> QED
      BY <2>5, <3>1 DEF Settled
  <2>6. CASE Tail(lane[n]) # << >>
    <3>1. doc'[n] = doc[n]
      BY <1>3, <1>6, <2>6
    <3>2. CASE ~pending[n].queued
      BY <1>2, <1>a, <2>3, <2>6, <3>1, <3>2, SettledShortened
    <3>3. CASE pending[n].queued
      <4>1. w.by = "save" /\ w.value = doc[n]
        BY <1>10, <2>4, <3>1, <3>3
      <4>2. Len(lane[n]) \in 1..Len(lane[n]) /\ 1 < Len(lane[n])
        BY <1>3, <2>6
      <4>3. PICK v : v = lane[n][Len(lane[n])]
        OBVIOUS
      <4>4. v \in Writes
        BY <4>2, <4>3, <1>a
      <4>5. /\ v.value.text <= doc[n].text /\ w.value.text <= v.value.text
            /\ v.by = "title" => w.value.text < v.value.text
        BY <1>3, <1>b, <4>2, <4>3 DEF Ordered
      <4>6. v.value.text \in Nat /\ doc[n].text \in Nat
        BY <4>4, <1>a DEF Writes, Documents
      <4>7. v.value.text = doc[n].text /\ v.by # "title"
        BY <4>1, <4>5, <4>6
      <4>8. v.by # "save"
        BY <1>3, <2>1, <4>1, <4>2, <4>3 DEF OneSave
      <4>9. v.by = "structure"
        BY <4>4, <4>7, <4>8 DEF Writes, Writers
      <4>10. Settled(lane[n], disk[n], doc[n], n \in failed)
        BY <1>2, <4>3, <4>7, <4>9 DEF Settled
      <4> QED
        BY <1>2, <1>a, <2>6, <3>1, <4>10, SettledShortened
    <3> QED
      BY <3>2, <3>3
  <2> QED
    BY <2>5, <2>6
<1>18. NoteInv(n)'
  BY <1>2, <1>14, <1>15, <1>16, <1>17 DEF NoteInv
<1>19. ASSUME NEW m \in Notes \ {n} PROVE NoteInv(m)'
  BY <1>2, <1>6, <1>10, OthersKeep DEF DataOK, SameNote
<1> QED
  BY <1>8, <1>9, <1>12, <1>18, <1>19 DEF DataOK

(* A failed write is reported; a failed attempt is armed again. *)
LEMMA WriteFailsKeeps ==
    ASSUME DataOK, NEW n \in Notes, WriteFails(n)
    PROVE  DataOK' /\ \A m \in Notes : pending'[m].queued = pending[m].queued
<1>a. /\ doc \in [Notes -> Documents] /\ disk \in [Notes -> Documents]
      /\ pending \in [Notes -> Entry] /\ pending[n] \in Entry
      /\ lane \in [Notes -> Seq(Writes)] /\ lane[n] \in Seq(Writes)
      /\ spent \in [edits : 0..MaxEdits, structural : 0..MaxStructural, failures : Nat]
      /\ \A m \in Notes : doc[m].text <= spent.edits /\ doc[m].place <= spent.structural
  BY DEF DataOK, Values, Queue, Counts
<1>b. EntryOK(n) /\ Ordered(lane[n], doc[n]) /\ NoteSettled(n)
      /\ (n \notin given => OneSave(lane[n], pending[n].running))
  BY DEF DataOK, NoteInv
<1>1. PICK w : w = Head(lane[n])
  OBVIOUS
<1>2. /\ IsActive /\ lane[n] # << >>
      /\ spent' = [spent EXCEPT !.failures = @ + 1]
      /\ pending' = IF w.by = "save" THEN AttemptFailed(n) ELSE pending
      /\ lane' = [lane EXCEPT ![n] = Tail(@)] /\ failed' = failed \cup {n}
      /\ UNCHANGED <<doc, disk, active, given>>
  BY <1>1 DEF WriteFails
<1>3. /\ Tail(lane[n]) \in Seq(Writes) /\ w = lane[n][1] /\ w \in Writes
      /\ Len(lane[n]) \in Nat /\ Len(lane[n]) > 0 /\ 1 \in 1..Len(lane[n])
  BY <1>a, <1>1, <1>2, Shortened
<1>4. /\ lane'[n] = Tail(lane[n]) /\ \A m \in Notes \ {n} : lane'[m] = lane[m]
      /\ lane' \in [Notes -> Seq(Writes)]
  BY <1>2, <1>3, <1>a
<1>5. Values'
  BY <1>2, <1>4 DEF DataOK, Values
<1>6. Counts'
  <2>1. spent' \in [edits : 0..MaxEdits, structural : 0..MaxStructural, failures : Nat]
    <3>1. spent.failures \in Nat
      BY <1>a
    <3>2. spent.failures + 1 \in Nat
      BY <3>1
    <3> QED
      BY <1>2, <1>a, <3>2
  <2>2. spent'.edits = spent.edits /\ spent'.structural = spent.structural
    BY <1>2, <1>a
  <2> QED
    BY <1>2, <1>a, <2>1, <2>2 DEF Counts
<1>7. /\ w.by # "save" \/ ~pending[n].queued => pending'[n] = pending[n]
      /\ w.by = "save" /\ pending[n].queued =>
           pending'[n] = [pending[n] EXCEPT !.running = FALSE, !.armed = TRUE]
      /\ \A m \in Notes \ {n} : pending'[m] = pending[m]
  BY <1>2, <1>a DEF AttemptFailed
<1>8. [pending[n] EXCEPT !.running = FALSE, !.armed = TRUE] \in Entry
  BY <1>a DEF Entry
<1>9. Queue'
  BY <1>2, <1>8, <1>a DEF Queue, AttemptFailed
<1>10. /\ pending'[n].queued = pending[n].queued
       /\ w.by = "save" /\ pending[n].queued => pending'[n].armed /\ ~pending'[n].running
  BY <1>7, <1>a DEF Entry
<1>11. EntryOK(n)'
  BY <1>b, <1>7, <1>10 DEF EntryOK
<1>12. Ordered(lane'[n], doc'[n])
  BY <1>2, <1>4, <1>b, <1>a, OrderShortened
<1>13. ASSUME n \notin given
       PROVE  (w.by = "save" => pending[n].queued) /\ OneSave(lane'[n], pending'[n].running)
  <2>1. /\ w.by = "save" => pending[n].running /\ OneSave(Tail(lane[n]), FALSE)
        /\ w.by # "save" => OneSave(Tail(lane[n]), pending[n].running)
    <3>1. pending[n].running \in BOOLEAN
      BY <1>a DEF Entry
    <3> QED
      BY <3>1, <1>1, <1>2, <1>13, <1>a, <1>b, SaveShortened
  <2>2. w.by = "save" => pending[n].queued
    BY <1>b, <2>1 DEF EntryOK
  <2>3. CASE w.by = "save"
    BY <1>4, <1>10, <2>1, <2>2, <2>3 DEF OneSave
  <2>4. CASE w.by # "save"
    BY <1>4, <1>7, <2>1, <2>4
  <2> QED
    BY <2>2, <2>3, <2>4
<1>14. NoteSettled(n)'
  <2> SUFFICES ASSUME n \notin given, ~pending[n].queued
               PROVE  Settled(Tail(lane[n]), disk[n], doc[n], n \in failed')
    BY <1>2, <1>4, <1>10 DEF NoteSettled
  <2>1. Settled(lane[n], disk[n], doc[n], n \in failed)
    BY <1>b, <1>2 DEF NoteSettled, IsActive
  <2>2. CASE Tail(lane[n]) = << >>
    BY <1>2, <2>2 DEF Settled
  <2>3. CASE Tail(lane[n]) # << >>
    BY <1>2, <1>a, <2>1, <2>3, SettledShortened
  <2> QED
    BY <2>2, <2>3
<1>15. NoteInv(n)'
  BY <1>2, <1>11, <1>12, <1>13, <1>14 DEF NoteInv
<1>16. ASSUME NEW m \in Notes \ {n} PROVE NoteInv(m)'
  BY <1>2, <1>4, <1>7, OthersKeep DEF DataOK, SameNote, IsActive
<1> QED
  BY <1>5, <1>6, <1>7, <1>9, <1>10, <1>15, <1>16 DEF DataOK

(* A write that ends after the stop no longer has anything to settle. *)
LEMMA WriteAfterStopKeeps ==
    ASSUME DataOK, ClosedIsWritten, NEW n \in Notes, WriteAfterStop(n)
    PROVE  /\ DataOK'
           /\ lane[n] # << >> /\ lane'[n] = Tail(lane[n])
           /\ disk'[n] = Head(lane[n]).value \/ disk'[n] = disk[n]
           /\ \A m \in Notes \ {n} : lane'[m] = lane[m] /\ disk'[m] = disk[m]
<1>a. /\ disk \in [Notes -> Documents] /\ pending[n] \in Entry
      /\ lane \in [Notes -> Seq(Writes)] /\ lane[n] \in Seq(Writes)
  BY DEF DataOK, Values, Queue
<1>b. EntryOK(n) /\ Ordered(lane[n], doc[n])
      /\ (n \notin given => OneSave(lane[n], pending[n].running))
  BY DEF DataOK, NoteInv
<1>1. /\ phase = "stopped" /\ lane[n] # << >>
      /\ disk' = [disk EXCEPT ![n] = Head(lane[n]).value] \/ disk' = disk
      /\ lane' = [lane EXCEPT ![n] = Tail(@)]
      /\ UNCHANGED <<doc, pending, failed, todo, phase, active, given, spent>>
  BY DEF WriteAfterStop, IsActive
<1>2. /\ Tail(lane[n]) \in Seq(Writes) /\ Head(lane[n]) = lane[n][1] /\ Head(lane[n]) \in Writes
      /\ 1 \in 1..Len(lane[n])
  BY <1>a, <1>1, Shortened
<1>3. Head(lane[n]).value \in Documents
  BY <1>2 DEF Writes
<1>4. /\ lane'[n] = Tail(lane[n]) /\ lane' \in [Notes -> Seq(Writes)]
      /\ \A m \in Notes \ {n} : lane'[m] = lane[m]
  BY <1>1, <1>2, <1>a
<1>5. /\ disk' \in [Notes -> Documents]
      /\ disk'[n] = Head(lane[n]).value \/ disk'[n] = disk[n]
      /\ \A m \in Notes \ {n} : disk'[m] = disk[m]
  BY <1>1, <1>3, <1>a
<1>6. Values' /\ Queue' /\ Counts'
  BY <1>1, <1>4, <1>5 DEF DataOK, Values, Queue, Counts
<1>7. Head(lane[n]).by # "save"
  BY <1>1, <1>2 DEF ClosedIsWritten, Closed
<1>8. ASSUME n \notin given PROVE OneSave(lane'[n], pending[n].running)
  <2>1. pending[n].running \in BOOLEAN
    BY <1>a DEF Entry
  <2> QED
    BY <2>1, <1>1, <1>4, <1>7, <1>8, <1>a, <1>b, SaveShortened
<1>9. Ordered(lane'[n], doc[n])
  BY <1>1, <1>4, <1>a, <1>b, OrderShortened
<1>10. NoteInv(n)'
  BY <1>1, <1>8, <1>9, <1>b DEF NoteInv, NoteSettled, EntryOK
<1>11. ASSUME NEW m \in Notes \ {n} PROVE NoteInv(m)'
  BY <1>1, <1>4, <1>5, OthersKeep DEF DataOK, SameNote
<1> QED
  BY <1>1, <1>4, <1>5, <1>6, <1>10, <1>11 DEF DataOK

(* A discarding close empties the queue and gives up what was in it. *)
LEMMA CloseKeeps ==
    ASSUME DataOK, GivenUp, NEW discard \in BOOLEAN, Close(discard)
    PROVE  DataOK'
<1>a. pending \in [Notes -> Entry]
  BY DEF DataOK, Queue
<1>1. /\ phase = "open" /\ phase' = "closing"
      /\ pending' = IF discard THEN [n \in Notes |-> NoSave] ELSE pending
      /\ given' = IF discard THEN {n \in Notes : pending[n].queued} ELSE {}
      /\ UNCHANGED <<doc, disk, lane, failed, active, spent>>
  BY DEF Close
<1>2. given = {}
  BY <1>1 DEF GivenUp
<1>3. CASE discard
  <2>1. \A n \in Notes : pending'[n] = NoSave
    BY <1>1, <1>3
  <2>2. \A n \in Notes : ~pending'[n].queued /\ ~pending'[n].armed /\ ~pending'[n].running
    BY <2>1 DEF NoSave
  <2>3. Queue'
    <3>1. NoSave \in Entry
      BY DEF NoSave, Entry
    <3> QED
      BY <1>1, <1>3, <3>1 DEF Queue
  <2>4. Values' /\ Counts'
    BY <1>1, <1>3 DEF DataOK, Values, Counts
  <2>5. \A n \in Notes : n \notin given' => ~pending[n].queued
    BY <1>1, <1>3
  <2>6. ASSUME NEW n \in Notes PROVE NoteInv(n)'
    <3>1. EntryOK(n) /\ Ordered(lane[n], doc[n]) /\ OneSave(lane[n], pending[n].running)
          /\ NoteSettled(n)
      BY <1>2 DEF DataOK, NoteInv
    <3>2. n \notin given' => OneSave(lane[n], FALSE)
      BY <2>5, <3>1 DEF EntryOK, OneSave
    <3>3. n \notin given' => OneSave(lane'[n], pending'[n].running)
      BY <1>1, <2>2, <3>2 DEF OneSave
    <3>4. n \notin given' => Settled(lane[n], disk[n], doc[n], n \in failed)
      BY <1>1, <1>2, <2>5, <3>1 DEF NoteSettled
    <3>5. NoteSettled(n)'
      BY <1>1, <3>4 DEF NoteSettled
    <3>6. EntryOK(n)'
      BY <2>2 DEF EntryOK
    <3>7. Ordered(lane'[n], doc'[n])
      BY <1>1, <3>1
    <3> QED
      BY <3>3, <3>5, <3>6, <3>7 DEF NoteInv
  <2> QED
    BY <2>3, <2>4, <2>6 DEF DataOK
<1>4. CASE ~discard
  <2>1. UNCHANGED <<doc, disk, pending, lane, failed, given, spent>> /\ active' \in Notes
    BY <1>1, <1>2, <1>4 DEF DataOK, Values
  <2> QED
    BY <1>1, <2>1, DataKept
<1> QED
  BY <1>3, <1>4

-----------------------------------------------------------------------------
(* The places written are among those given out.                                 *)

LEMMA PlacesAppended ==
    ASSUME Values, Places, NEW n \in Notes, NEW w \in Writes,
           lane' = [lane EXCEPT ![n] = Append(@, w)], w.value.place <= spent'.structural,
           spent.structural \in Nat, spent'.structural \in Nat,
           spent.structural <= spent'.structural
    PROVE  Places'
<1> SUFFICES ASSUME NEW m \in Notes, NEW i \in 1..Len(lane'[m])
             PROVE  lane'[m][i].value.place <= spent'.structural
  BY DEF Places
<1>1. lane \in [Notes -> Seq(Writes)] /\ lane[m] \in Seq(Writes)
  BY DEF Values
<1>2. \A j \in 1..Len(lane[m]) : lane[m][j].value.place <= spent'.structural
  <2>1. \A j \in 1..Len(lane[m]) : lane[m][j] \in Writes
    BY <1>1
  <2>2. \A j \in 1..Len(lane[m]) : lane[m][j].value.place \in Nat
    BY <2>1 DEF Writes, Documents
  <2> QED
    BY <2>2 DEF Places
<1>3. CASE m = n
  <2>1. lane'[m] = Append(lane[m], w)
    BY <1>1, <1>3
  <2>2. i \in 1..(Len(lane[m]) + 1) /\ Len(lane[m]) \in Nat
    BY <1>1, <2>1, Appended
  <2>3. i \in 1..Len(lane[m]) \/ i = Len(lane[m]) + 1
    BY <2>2
  <2> QED
    BY <1>1, <1>2, <2>1, <2>3, Appended
<1>4. CASE m # n
  BY <1>1, <1>2, <1>4
<1> QED
  BY <1>3, <1>4

LEMMA PlacesShortened ==
    ASSUME Values, Places, NEW n \in Notes, lane[n] # << >>,
           lane' = [lane EXCEPT ![n] = Tail(@)], spent'.structural = spent.structural
    PROVE  Places'
<1> SUFFICES ASSUME NEW m \in Notes, NEW i \in 1..Len(lane'[m])
             PROVE  lane'[m][i].value.place <= spent.structural
  BY DEF Places
<1>1. lane \in [Notes -> Seq(Writes)] /\ lane[m] \in Seq(Writes)
  BY DEF Values
<1>2. CASE m = n
  <2>1. lane'[m] = Tail(lane[m])
    BY <1>1, <1>2
  <2>2. i \in 1..(Len(lane[m]) - 1) /\ Len(lane[m]) \in Nat
    BY <1>1, <1>2, <2>1, Shortened
  <2>3. i + 1 \in 1..Len(lane[m])
    BY <2>2
  <2>4. lane'[m][i] = lane[m][i + 1]
    BY <1>1, <1>2, <2>1, <2>2, Shortened
  <2> QED
    BY <2>3, <2>4 DEF Places
<1>3. CASE m # n
  BY <1>1, <1>3 DEF Places
<1> QED
  BY <1>2, <1>3

-----------------------------------------------------------------------------
(* What the routines wait for.                                                   *)

(* The waiting part of the invariant. *)
Waiting == Plans /\ ClosePlan /\ OthersPlain /\ GivenUp /\ WorkPlanned

LEMMA PlanAdvances ==
    ASSUME NEW s \in Seq(Steps), IsPlan(s), s[1].op \in Flushes,
           NEW p \in Seq(Steps), \A i \in 1..Len(p) : p[i].op \in Flushes
    PROVE  /\ Len(s) \in Nat /\ Len(s) > 2
           /\ p \o Tail(s) \in Seq(Steps) /\ IsPlan(p \o Tail(s)) /\ Len(p \o Tail(s)) > 1
           /\ \A n \in Notes :
                Planned(s, n) /\ (\/ \E i \in 1..Len(p) : p[i].op = "flushAll" \/ p[i].note = n
                                  \/ s[1].op # "flushAll" /\ s[1].note # n)
                  => Planned(p \o Tail(s), n)
<1>1. Len(s) \in Nat /\ Len(s) > 2 /\ s # << >>
  <2>1. Len(s) \in Nat /\ Len(s) > 0
    BY DEF IsPlan
  <2>2. s[1].op # "stop" /\ s[1].op # "drainAll"
    BY DEF Flushes
  <2>3. Len(s) # 1
    BY <2>2 DEF IsPlan
  <2>4. Len(s) # 2
    <3>1. SUFFICES ASSUME Len(s) = 2 PROVE FALSE
      OBVIOUS
    <3>2. s[Len(s) - 1].op = "drainAll" /\ Len(s) - 1 = 1
      BY <3>1 DEF IsPlan
    <3> QED
      BY <2>2, <3>2
  <2>5. \A k \in Nat : k > 0 /\ k # 1 /\ k # 2 => k > 2
    OBVIOUS
  <2>6. Len(s) > 2
    BY <2>1, <2>3, <2>4, <2>5
  <2>7. s # << >>
    BY <2>1
  <2> QED
    BY <2>1, <2>6, <2>7
<1>2. PICK t : t = p \o Tail(s)
  OBVIOUS
<1>3. /\ t \in Seq(Steps) /\ Len(p) \in Nat /\ Len(t) = Len(p) + Len(s) - 1
      /\ \A i \in 1..Len(p) : t[i] = p[i]
      /\ \A i \in 2..Len(s) : t[Len(p) + i - 1] = s[i]
  BY <1>1, <1>2, Prefixed
<1>4. t[Len(t)].op = "stop"
  <2>1. Len(s) \in 2..Len(s) /\ Len(p) + Len(s) - 1 = Len(t)
    BY <1>1, <1>3
  <2>2. t[Len(t)] = s[Len(s)]
    BY <1>3, <2>1
  <2> QED
    BY <2>2 DEF IsPlan
<1>5. t[Len(t) - 1].op = "drainAll"
  <2>1. Len(s) - 1 \in 2..Len(s) /\ Len(p) + (Len(s) - 1) - 1 = Len(t) - 1
    BY <1>1, <1>3
  <2>2. t[Len(t) - 1] = s[Len(s) - 1]
    BY <1>3, <2>1
  <2> QED
    BY <1>1, <2>2 DEF IsPlan
<1>6. ASSUME NEW i \in 1..Len(t), i < Len(t) - 1 PROVE t[i].op \in Flushes
  <2>1. CASE i \in 1..Len(p)
    BY <1>3, <2>1
  <2>2. CASE i \notin 1..Len(p)
    <3>1. PICK j : j = i - Len(p) + 1
      OBVIOUS
    <3>a. i \in Nat /\ i > Len(p)
      BY <1>3, <1>6, <2>2
    <3>b. i < Len(p) + Len(s) - 2
      BY <1>1, <1>3, <1>6
    <3>2. j \in 2..Len(s) /\ j < Len(s) - 1 /\ Len(p) + j - 1 = i
      BY <1>1, <1>3, <3>1, <3>a, <3>b
    <3>3. j \in 1..Len(s)
      BY <1>1, <3>2
    <3>4. t[i] = s[j]
      BY <1>3, <3>2
    <3> QED
      BY <3>2, <3>3, <3>4 DEF IsPlan
  <2> QED
    BY <2>1, <2>2
<1>7. Len(t) > 1
  BY <1>1, <1>3
<1>8. ASSUME NEW n \in Notes, Planned(s, n),
             \/ \E i \in 1..Len(p) : p[i].op = "flushAll" \/ p[i].note = n
             \/ s[1].op # "flushAll" /\ s[1].note # n
      PROVE  Planned(t, n)
  <2>1. CASE \E i \in 1..Len(p) : p[i].op = "flushAll" \/ p[i].note = n
    <3>1. PICK i \in 1..Len(p) : p[i].op = "flushAll" \/ p[i].note = n
      BY <2>1
    <3>2. i \in 1..Len(t) /\ i < Len(t) - 1 /\ t[i] = p[i]
      BY <1>1, <1>3
    <3> QED
      BY <3>1, <3>2 DEF Planned
  <2>2. CASE s[1].op # "flushAll" /\ s[1].note # n
    <3>1. PICK i \in 1..Len(s) : i < Len(s) - 1 /\ (s[i].op = "flushAll" \/ s[i].note = n)
      BY <1>8 DEF Planned
    <3>2. i # 1
      BY <2>2, <3>1
    <3>3. PICK j : j = Len(p) + i - 1
      OBVIOUS
    <3>4. i \in 2..Len(s) /\ j \in 1..Len(t) /\ j < Len(t) - 1
      BY <1>1, <1>3, <3>1, <3>2, <3>3
    <3>5. t[j] = s[i]
      BY <1>3, <3>3, <3>4
    <3> QED
      BY <3>1, <3>4, <3>5 DEF Planned
  <2> QED
    BY <1>8, <2>1, <2>2
<1>9. IsPlan(t)
  <2>1. Len(t) > 0
    BY <1>1, <1>3
  <2> QED
    BY <1>4, <1>5, <1>6, <2>1 DEF IsPlan
<1> QED
  BY <1>1, <1>2, <1>3, <1>7, <1>8, <1>9

(* A routine beside the close takes its next step. *)
LEMMA OtherAdvances ==
    ASSUME Waiting, NEW r \in Routines, r # "close", todo[r] # << >>, NEW p \in Seq(Steps),
           \A i \in 1..Len(p) : p[i].op \notin {"stop", "drainAll", "flushAll"},
           todo' = [todo EXCEPT ![r] = p \o Tail(@)], phase' = phase, given' = given,
           \A m \in Notes : pending'[m].queued => pending[m].queued
    PROVE  Waiting' /\ todo'["close"] = todo["close"] /\ phase # "stopped"
<1>a. todo \in [Routines -> Seq(Steps)] /\ todo[r] \in Seq(Steps)
  BY DEF Waiting, Plans
<1>1. PICK s : s = todo[r]
  OBVIOUS
<1>2. s \in Seq(Steps) /\ s # << >>
  BY <1>1, <1>a
<1>3. PICK t : t = p \o Tail(s)
  OBVIOUS
<1>4. /\ t \in Seq(Steps) /\ Len(p) \in Nat /\ Len(s) \in Nat /\ Len(t) = Len(p) + Len(s) - 1
      /\ \A i \in 1..Len(p) : t[i] = p[i]
      /\ \A i \in 2..Len(s) : t[Len(p) + i - 1] = s[i]
  BY <1>2, <1>3, Prefixed
<1>5. /\ todo'[r] = t /\ todo' \in [Routines -> Seq(Steps)]
      /\ \A q \in Routines \ {r} : todo'[q] = todo[q]
  BY <1>1, <1>3, <1>4, <1>a
<1>6. "close" \in Routines /\ todo'["close"] = todo["close"]
  BY <1>5 DEF Routines
<1>7. phase # "stopped"
  BY DEF Waiting, ClosePlan
<1>8. Plans'
  BY <1>5 DEF Waiting, Plans
<1>9. ClosePlan'
  BY <1>6, <1>7 DEF Waiting, ClosePlan
<1>10. OthersPlain'
  <2>1. ASSUME NEW i \in 1..Len(t) PROVE t[i].op \notin {"stop", "drainAll", "flushAll"}
    <3>1. CASE i \in 1..Len(p)
      BY <1>4, <3>1
    <3>2. CASE i \notin 1..Len(p)
      <4>1. PICK j : j = i - Len(p) + 1
        OBVIOUS
      <4>2. j \in 2..Len(s) /\ Len(p) + j - 1 = i
        BY <1>4, <3>2, <4>1
      <4>3. j \in 1..Len(s) /\ t[i] = s[j]
        BY <1>4, <4>2
      <4> QED
        BY <1>1, <4>3 DEF Waiting, OthersPlain
    <3> QED
      BY <3>1, <3>2
  <2>2. ASSUME NEW q \in Routines \ {"close"}, NEW i \in 1..Len(todo'[q])
        PROVE  todo'[q][i].op \notin {"stop", "drainAll", "flushAll"}
    <3>1. CASE q = r
      BY <1>5, <2>1, <2>2, <3>1
    <3>2. CASE q # r
      BY <1>5, <2>2, <3>2 DEF Waiting, OthersPlain
    <3> QED
      BY <3>1, <3>2
  <2> QED
    BY <2>2 DEF OthersPlain
<1>11. GivenUp'
  BY <1>6 DEF Waiting, GivenUp
<1>12. WorkPlanned'
  BY <1>6 DEF Waiting, WorkPlanned
<1> QED
  BY <1>6, <1>7, <1>8, <1>9, <1>10, <1>11, <1>12 DEF Waiting

(* The steps of a close that are near its end. *)
LEMMA PlanEnds ==
    ASSUME NEW s \in Seq(Steps), IsPlan(s), s[1].op \notin Flushes
    PROVE  /\ s # << >> /\ Tail(s) \in Seq(Steps) /\ Len(s) \in Nat
           /\ \/ s[1].op = "drainAll" /\ Len(s) = 2 /\ IsPlan(Tail(s)) /\ Len(Tail(s)) = 1
              \/ s[1].op = "stop" /\ Len(s) = 1
<1>1. Len(s) \in Nat /\ Len(s) > 0 /\ s # << >> /\ 1 \in 1..Len(s)
  BY DEF IsPlan
<1>2. Tail(s) \in Seq(Steps) /\ Len(Tail(s)) = Len(s) - 1
      /\ \A i \in 1..(Len(s) - 1) : Tail(s)[i] = s[i + 1]
  BY <1>1, Shortened
<1>3. ~(1 < Len(s) - 1)
  BY <1>1 DEF IsPlan
<1>4. CASE Len(s) = 1
  <2>1. s[1].op = "stop"
    BY <1>4 DEF IsPlan
  <2> QED
    BY <1>1, <1>2, <1>4, <2>1
<1>5. CASE Len(s) = 2
  <2>1. Len(s) - 1 = 1 /\ s[Len(s) - 1].op = "drainAll" /\ s[Len(s)].op = "stop"
    BY <1>5 DEF IsPlan
  <2>2. PICK t : t = Tail(s)
    OBVIOUS
  <2>3. Len(t) = 1 /\ t[1] = s[2]
    <3>1. 1 \in 1..(Len(s) - 1) /\ 1 + 1 = 2
      BY <1>5
    <3> QED
      BY <1>2, <1>5, <2>2, <3>1
  <2>4. t[Len(t)].op = "stop"
    BY <1>5, <2>1, <2>3
  <2>5. IsPlan(t) /\ Len(t) = 1
    BY <2>3, <2>4 DEF IsPlan
  <2> QED
    BY <1>1, <1>2, <1>5, <2>1, <2>2, <2>5
<1>6. Len(s) = 1 \/ Len(s) = 2
  <2>1. \A k \in Nat : k > 0 /\ ~(1 < k - 1) => k = 1 \/ k = 2
    OBVIOUS
  <2> QED
    BY <1>1, <1>3, <2>1
<1> QED
  BY <1>4, <1>5, <1>6

(* The close takes its next step while something is to be flushed. *)
LEMMA CloseAdvances ==
    ASSUME Waiting, todo["close"] # << >>, todo["close"][1].op \in Flushes, NEW p \in Seq(Steps),
           \A i \in 1..Len(p) : p[i].op \in Flushes,
           todo' = [todo EXCEPT !["close"] = p \o Tail(@)], phase' = phase, given' = given,
           \A m \in Notes : pending'[m].queued =>
             /\ pending[m].queued
             /\ \/ \E i \in 1..Len(p) : p[i].op = "flushAll" \/ p[i].note = m
                \/ todo["close"][1].op # "flushAll" /\ todo["close"][1].note # m
    PROVE  Waiting' /\ phase = "closing" /\ Len(todo["close"]) # 1 /\ Len(todo'["close"]) # 1
<1>a. todo \in [Routines -> Seq(Steps)] /\ "close" \in Routines /\ todo["close"] \in Seq(Steps)
  BY DEF Waiting, Plans, Routines
<1>1. phase = "closing"
  BY <1>a DEF Waiting, Plans, ClosePlan
<1>2. PICK s : s = todo["close"]
  OBVIOUS
<1>3. s \in Seq(Steps) /\ IsPlan(s) /\ s[1].op \in Flushes
  BY <1>a, <1>1, <1>2 DEF Waiting, ClosePlan
<1>4. PICK t : t = p \o Tail(s)
  OBVIOUS
<1>5. /\ Len(s) \in Nat /\ Len(s) > 2
      /\ t \in Seq(Steps) /\ IsPlan(t) /\ Len(t) > 1
      /\ \A n \in Notes :
           Planned(s, n) /\ (\/ \E i \in 1..Len(p) : p[i].op = "flushAll" \/ p[i].note = n
                             \/ s[1].op # "flushAll" /\ s[1].note # n)
             => Planned(t, n)
  BY <1>3, <1>4, PlanAdvances
<1>6. /\ todo'["close"] = t /\ todo' \in [Routines -> Seq(Steps)]
      /\ \A q \in Routines \ {"close"} : todo'[q] = todo[q]
  BY <1>2, <1>4, <1>5, <1>a
<1>7. Plans'
  BY <1>6 DEF Waiting, Plans
<1>8. ClosePlan'
  BY <1>1, <1>5, <1>6 DEF ClosePlan
<1>9. OthersPlain'
  BY <1>6 DEF Waiting, OthersPlain
<1>10. GivenUp'
  BY <1>1, <1>2, <1>5 DEF Waiting, GivenUp
<1>11. WorkPlanned'
  BY <1>1, <1>2, <1>5, <1>6 DEF Waiting, WorkPlanned
<1> QED
  BY <1>1, <1>2, <1>5, <1>6, <1>7, <1>8, <1>9, <1>10, <1>11 DEF Waiting

(* The outcome of a write wakes who waits for it. *)
LEMMA WaitersContinue ==
    ASSUME Waiting, phase # "stopped", NEW n \in Notes, NEW ok \in BOOLEAN,
           NEW op \in {"saved", "placed", "titled"}, todo' = Continued(op, n, ok)
    PROVE  /\ todo' \in [Routines -> Seq(Steps)] /\ OthersPlain'
           /\ \/ todo'["close"] = todo["close"]
              \/ /\ todo["close"] # << >> /\ todo["close"][1] = Step("saved", n)
                 /\ todo'["close"] = IF ok THEN <<Step("flush", n)>> \o Tail(todo["close"])
                                           ELSE << >>
<1>a. todo \in [Routines -> Seq(Steps)] /\ "close" \in Routines
  BY DEF Waiting, Plans, Routines
<1>b. Step("flush", n) \in Steps
  BY DEF Step, Steps
<1>1. \A r \in Routines :
        todo'[r] = IF todo[r] = << >> \/ Head(todo[r]) # Step(op, n) THEN todo[r]
                   ELSE IF ~ok THEN << >>
                   ELSE IF op = "saved" THEN <<Step("flush", n)>> \o Tail(todo[r])
                   ELSE Tail(todo[r])
  BY DEF Continued, Idle
<1>2. ASSUME NEW r \in Routines
      PROVE  /\ todo'[r] \in Seq(Steps)
             /\ r # "close" => \A i \in 1..Len(todo'[r]) :
                  todo'[r][i].op \notin {"stop", "drainAll", "flushAll"}
  <2>a. PICK s : s = todo[r]
    OBVIOUS
  <2>b. s \in Seq(Steps)
    BY <2>a, <1>a
  <2>c. r # "close" => \A i \in 1..Len(s) : s[i].op \notin {"stop", "drainAll", "flushAll"}
    BY <2>a DEF Waiting, OthersPlain
  <2>1. CASE todo'[r] = s
    BY <2>1, <2>b, <2>c
  <2>2. CASE todo'[r] = << >>
    BY <2>2
  <2>3. CASE s # << >> /\ todo'[r] = <<Step("flush", n)>> \o Tail(s)
    <3>1. PICK p : p = <<Step("flush", n)>>
      OBVIOUS
    <3>2. p \in Seq(Steps) /\ Len(p) = 1 /\ p[1].op = "flush"
      BY <3>1, <1>b DEF Step
    <3>3. PICK t : t = p \o Tail(s)
      OBVIOUS
    <3>b. p \in Seq(Steps) /\ s # << >>
      BY <3>2, <2>3
    <3>4. /\ t \in Seq(Steps) /\ Len(t) = Len(p) + Len(s) - 1
          /\ \A i \in 1..Len(p) : t[i] = p[i]
          /\ \A i \in 2..Len(s) : t[Len(p) + i - 1] = s[i]
      BY <3>b, <3>3, <2>b, Prefixed
    <3>a. Len(s) \in Nat /\ Len(t) = Len(s) /\ t[1] = p[1]
      BY <3>2, <3>4, <2>b
    <3>5. ASSUME NEW i \in 2..Len(s) PROVE t[i] = s[i]
      <4>1. Len(p) + i - 1 = i
        BY <3>2, <3>a
      <4> QED
        BY <3>4, <4>1
    <3>6. ASSUME r # "close", NEW i \in 1..Len(t)
          PROVE  t[i].op \notin {"stop", "drainAll", "flushAll"}
      <4>1. i = 1 \/ i \in 2..Len(s)
        BY <3>a
      <4>2. CASE i = 1
        BY <3>2, <3>a, <4>2
      <4>3. CASE i \in 2..Len(s)
        BY <2>c, <3>5, <3>6, <4>3
      <4> QED
        BY <4>1, <4>2, <4>3
    <3> QED
      BY <2>3, <3>1, <3>3, <3>4, <3>6
  <2>4. CASE s # << >> /\ todo'[r] = Tail(s)
    <3>1. /\ Tail(s) \in Seq(Steps) /\ Len(s) \in Nat /\ Len(Tail(s)) = Len(s) - 1
          /\ \A i \in 1..(Len(s) - 1) : Tail(s)[i] = s[i + 1]
      BY <2>4, <2>b, Shortened
    <3>2. ASSUME NEW i \in 1..Len(Tail(s)) PROVE i + 1 \in 1..Len(s) /\ Tail(s)[i] = s[i + 1]
      BY <3>1
    <3> QED
      BY <2>4, <2>c, <3>1, <3>2
  <2> QED
    BY <1>1, <2>a, <2>1, <2>2, <2>3, <2>4
<1>3. todo' \in [Routines -> Seq(Steps)]
  <2>1. todo' = [r \in Routines |-> todo'[r]]
    BY DEF Continued
  <2> QED
    BY <1>2, <2>1
<1>4. OthersPlain'
  BY <1>2 DEF OthersPlain
<1>5. ASSUME todo'["close"] # todo["close"]
      PROVE  /\ todo["close"] # << >> /\ todo["close"][1] = Step("saved", n)
             /\ todo'["close"] = IF ok THEN <<Step("flush", n)>> \o Tail(todo["close"]) ELSE << >>
  <2>a. PICK s : s = todo["close"]
    OBVIOUS
  <2>1. s # << >> /\ Head(s) = Step(op, n) /\ s \in Seq(Steps)
    BY <1>1, <1>5, <1>a, <2>a
  <2>2. s[1] = Step(op, n)
    BY <2>1
  <2>3. IsPlan(s)
    BY <1>a, <2>1, <2>a DEF Waiting, Plans, ClosePlan
  <2>4. s[1].op \in Flushes \cup {"drainAll", "stop"}
    BY <2>1, <2>3, PlanEnds
  <2>5. op = "saved"
    BY <2>2, <2>4 DEF Step, Flushes
  <2> QED
    BY <1>1, <1>5, <1>a, <2>1, <2>2, <2>5, <2>a
<1> QED
  BY <1>3, <1>4, <1>5

LEMMA WaitingKept ==
    ASSUME Waiting, UNCHANGED <<todo, phase>>, GivenUp', given' = {} \/ given' = given,
           phase = "open" \/ \A m \in Notes : pending'[m].queued => pending[m].queued
    PROVE  Waiting'
<1>1. Plans' /\ ClosePlan' /\ OthersPlain'
  BY DEF Waiting, Plans, ClosePlan, OthersPlain
<1>2. WorkPlanned'
  BY DEF Waiting, WorkPlanned
<1> QED
  BY <1>1, <1>2 DEF Waiting

(* A workspace that is closed, with its notes as they were. *)
LEMMA ClosedKept ==
    ASSUME ClosedIsWritten, Closed' => Closed, UNCHANGED <<doc, disk, given>>,
           failed \subseteq failed',
           Closed => /\ \A m \in Notes : pending'[m].queued => pending[m].queued
                     /\ UNCHANGED lane
    PROVE  ClosedIsWritten'
<1> SUFFICES ASSUME Closed', NEW m \in Notes
             PROVE  /\ ~pending'[m].queued
                    /\ \A i \in 1..Len(lane'[m]) : lane'[m][i].by = "structure"
                    /\ m \notin given' =>
                         /\ m \in failed' \/ Has(doc'[m], disk'[m])
                         /\ \A i \in 1..Len(lane'[m]) : Has(doc'[m], lane'[m][i].value)
  BY DEF ClosedIsWritten
<1>1. Closed /\ UNCHANGED lane
  OBVIOUS
<1> QED
  BY <1>1 DEF ClosedIsWritten

(* A write of a closed workspace ends. *)
LEMMA ClosedShortened ==
    ASSUME ClosedIsWritten, Values, NEW n \in Notes, Closed' => Closed, given' = given,
           lane[n] # << >>, lane'[n] = Tail(lane[n]),
           \A m \in Notes : pending'[m].queued => pending[m].queued,
           \A m \in Notes \ {n} : /\ lane'[m] = lane[m] /\ doc'[m] = doc[m] /\ disk'[m] = disk[m]
                                  /\ m \in failed => m \in failed',
           doc'[n] = doc[n] \/ Tail(lane[n]) = << >>,
           Closed /\ n \notin given => n \in failed' \/ Has(doc'[n], disk'[n])
    PROVE  ClosedIsWritten'
<1> SUFFICES ASSUME Closed', NEW m \in Notes
             PROVE  /\ ~pending'[m].queued
                    /\ \A i \in 1..Len(lane'[m]) : lane'[m][i].by = "structure"
                    /\ m \notin given =>
                         /\ m \in failed' \/ Has(doc'[m], disk'[m])
                         /\ \A i \in 1..Len(lane'[m]) : Has(doc'[m], lane'[m][i].value)
  BY DEF ClosedIsWritten
<1>1. Closed
  OBVIOUS
<1>2. /\ ~pending[m].queued
      /\ \A i \in 1..Len(lane[m]) : lane[m][i].by = "structure"
      /\ m \notin given =>
           /\ m \in failed \/ Has(doc[m], disk[m])
           /\ \A i \in 1..Len(lane[m]) : Has(doc[m], lane[m][i].value)
  BY <1>1 DEF ClosedIsWritten
<1>3. CASE m = n
  <2>1. \A i \in 1..Len(lane'[n]) : i + 1 \in 1..Len(lane[n]) /\ lane'[n][i] = lane[n][i + 1]
    <3>1. lane[n] \in Seq(Writes)
      BY DEF Values
    <3>2. /\ Len(lane[n]) \in Nat /\ Len(lane'[n]) = Len(lane[n]) - 1
          /\ \A i \in 1..(Len(lane[n]) - 1) : lane'[n][i] = lane[n][i + 1]
      BY <3>1, Shortened
    <3> QED
      BY <3>2
  <2>2. \A i \in 1..Len(lane'[n]) : lane'[n][i].by = "structure"
    BY <1>2, <1>3, <2>1
  <2>3. ASSUME n \notin given, NEW i \in 1..Len(lane'[n]) PROVE Has(doc'[n], lane'[n][i].value)
    <3>1. ASSUME Tail(lane[n]) = << >> PROVE FALSE
      <4>1. i \in 1..Len(<< >>)
        BY <2>3, <3>1
      <4> QED
        BY <4>1, EmptyHasNoIndex
    <3> QED
      BY <1>2, <1>3, <2>1, <2>3, <3>1
  <2> QED
    BY <1>1, <1>2, <1>3, <2>2, <2>3
<1>4. CASE m # n
  <2>1. /\ lane'[m] = lane[m] /\ doc'[m] = doc[m] /\ disk'[m] = disk[m]
        /\ m \in failed => m \in failed'
    BY <1>4
  <2> QED
    BY <1>2, <2>1
<1> QED
  BY <1>3, <1>4

(* A structural change reaches the lane of a closed workspace. *)
LEMMA ClosedAppended ==
    ASSUME ClosedIsWritten, Values, NEW n \in Notes, NEW w \in Writes, Closed' => Closed,
           UNCHANGED <<doc, disk, pending, failed, given>>,
           lane'[n] = Append(lane[n], w), \A m \in Notes \ {n} : lane'[m] = lane[m],
           w.by = "structure", Has(doc[n], w.value)
    PROVE  ClosedIsWritten'
<1> SUFFICES ASSUME Closed', NEW m \in Notes
             PROVE  /\ ~pending[m].queued
                    /\ \A i \in 1..Len(lane'[m]) : lane'[m][i].by = "structure"
                    /\ m \notin given =>
                         /\ m \in failed \/ Has(doc[m], disk[m])
                         /\ \A i \in 1..Len(lane'[m]) : Has(doc[m], lane'[m][i].value)
  BY DEF ClosedIsWritten
<1>1. Closed
  OBVIOUS
<1>2. /\ ~pending[m].queued
      /\ \A i \in 1..Len(lane[m]) : lane[m][i].by = "structure"
      /\ m \notin given =>
           /\ m \in failed \/ Has(doc[m], disk[m])
           /\ \A i \in 1..Len(lane[m]) : Has(doc[m], lane[m][i].value)
  BY <1>1 DEF ClosedIsWritten
<1>3. CASE m = n
  <2>1. lane[n] \in Seq(Writes)
    BY DEF Values
  <2>2. /\ Len(lane[n]) \in Nat /\ Len(lane'[n]) = Len(lane[n]) + 1
        /\ \A i \in 1..Len(lane[n]) : lane'[n][i] = lane[n][i]
        /\ lane'[n][Len(lane[n]) + 1] = w
    BY <2>1, Appended
  <2>3. \A i \in 1..Len(lane'[n]) : i \in 1..Len(lane[n]) \/ i = Len(lane[n]) + 1
    BY <2>2
  <2>4. \A i \in 1..Len(lane'[n]) : lane'[n][i].by = "structure"
    BY <1>2, <1>3, <2>2, <2>3
  <2>5. ASSUME n \notin given, NEW i \in 1..Len(lane'[n]) PROVE Has(doc[n], lane'[n][i].value)
    <3>1. CASE i \in 1..Len(lane[n])
      BY <1>2, <1>3, <2>2, <2>5, <3>1
    <3>2. CASE i = Len(lane[n]) + 1
      BY <2>2, <3>2
    <3> QED
      BY <2>3, <3>1, <3>2
  <2> QED
    BY <1>2, <1>3, <2>4, <2>5
<1>4. CASE m # n
  BY <1>2, <1>4
<1> QED
  BY <1>3, <1>4

-----------------------------------------------------------------------------
(* The invariant is kept by every step.                                          *)

Inductive == DataOK /\ Places /\ Waiting /\ ClosedIsWritten

LEMMA InductiveIs == IInv <=> Inductive
  BY DEF IInv, Inductive, DataOK, Waiting

LEMMA Inertia ==
    ASSUME Inductive, UNCHANGED <<lane, spent>>
    PROVE  Places'
  BY DEF Inductive, Places

LEMMA OpenIsNotClosed ==
    ASSUME phase' = "open" \/ (phase' = "closing" /\ Len(todo'["close"]) # 1)
    PROVE  ClosedIsWritten'
  BY DEF ClosedIsWritten, Closed

LEMMA PatchInv ==
    ASSUME Inductive, NEW n \in Notes, Patch(n)
    PROVE  Inductive'
<1>1. DataOK'
  BY PatchKeeps DEF Inductive
<1>2. /\ phase = "open" /\ phase' = "open" /\ spent' = [spent EXCEPT !.edits = @ + 1]
      /\ UNCHANGED <<lane, todo, phase, given>>
  BY DEF Patch
<1>3. Places'
  <2>1. spent'.structural = spent.structural
    BY <1>2 DEF Inductive, DataOK, Counts
  <2> QED
    BY <1>2, <2>1 DEF Inductive, Places
<1>4. GivenUp'
  BY <1>2 DEF Inductive, Waiting, GivenUp
<1>5. Waiting'
  BY <1>2, <1>4, WaitingKept DEF Inductive
<1> QED
  BY <1>1, <1>2, <1>3, <1>5, OpenIsNotClosed DEF Inductive

LEMMA UpdateTitleInv ==
    ASSUME Inductive, NEW n \in Notes, UpdateTitle(n)
    PROVE  Inductive'
<1>1. DataOK'
  BY UpdateTitleKeeps DEF Inductive
<1>2. /\ phase = "open" /\ phase' = "open" /\ spent' = [spent EXCEPT !.edits = @ + 1]
      /\ lane' = [lane EXCEPT ![n] = Append(@, [value |-> doc'[n], by |-> "title"])]
      /\ UNCHANGED <<pending, todo, phase, given>>
  BY DEF UpdateTitle, Enqueued
<1>3. Places'
  <2>1. spent'.structural = spent.structural /\ spent.structural \in Nat
    <3>1. spent.structural \in 0..MaxStructural
      BY DEF Inductive, DataOK, Counts
    <3> QED
      BY <1>2, <3>1 DEF Inductive, DataOK, Counts
  <2>2. PICK w : w = [value |-> doc'[n], by |-> "title"]
    OBVIOUS
  <2>3. w \in Writes /\ w.value = doc'[n]
    BY <1>1, <2>2 DEF DataOK, Values, Writes, Writers
  <2>4. doc'[n].place <= spent'.structural
    BY <1>1 DEF DataOK, Counts
  <2>5. Values /\ Places /\ spent.structural <= spent'.structural
    BY <2>1 DEF Inductive, DataOK
  <2> QED
    BY <1>2, <2>1, <2>2, <2>3, <2>4, <2>5, PlacesAppended
<1>4. GivenUp'
  BY <1>2 DEF Inductive, Waiting, GivenUp
<1>5. Waiting'
  BY <1>2, <1>4, WaitingKept DEF Inductive
<1> QED
  BY <1>1, <1>2, <1>3, <1>5, OpenIsNotClosed DEF Inductive

(* What Run does to the lane of its note. *)
LEMMA RunPlaces ==
    ASSUME Inductive, NEW n \in Notes, Run(n), UNCHANGED spent
    PROVE  Places'
<1>1. CASE pending[n].running
  BY <1>1, Inertia DEF Run
<1>2. CASE ~pending[n].running
  <2>1. lane' = [lane EXCEPT ![n] = Append(@, [value |-> doc[n], by |-> "save"])]
    BY <1>2 DEF Run, Enqueued
  <2>2. spent.structural \in Nat
    BY DEF Inductive, DataOK, Counts
  <2>3. PICK w : w = [value |-> doc[n], by |-> "save"]
    OBVIOUS
  <2>4. w \in Writes /\ w.value = doc[n]
    BY <2>3 DEF Inductive, DataOK, Values, Writes, Writers
  <2>5. Values /\ Places /\ doc[n].place <= spent.structural /\ spent.structural <= spent'.structural
    BY <2>2 DEF Inductive, DataOK, Counts
  <2> QED
    BY <2>1, <2>2, <2>3, <2>4, <2>5, PlacesAppended
<1> QED
  BY <1>1, <1>2

LEMMA TimerFiresInv ==
    ASSUME Inductive, NEW n \in Notes, TimerFires(n)
    PROVE  Inductive'
<1>1. /\ pending[n].armed /\ Run(n)
      /\ UNCHANGED <<doc, disk, failed, todo, phase, active, given, spent>>
  BY DEF TimerFires
<1>2. pending[n].queued
  BY <1>1 DEF Inductive, DataOK, NoteInv, EntryOK
<1>3. DataOK' /\ \A m \in Notes : pending'[m].queued = pending[m].queued
  BY <1>1, <1>2, RunKeeps DEF Inductive
<1>4. Places'
  BY <1>1, RunPlaces
<1>5. GivenUp'
  BY <1>1 DEF Inductive, Waiting, GivenUp
<1>6. Waiting'
  BY <1>1, <1>3, <1>5, WaitingKept DEF Inductive
<1>7. ~Closed
  BY <1>2 DEF Inductive, ClosedIsWritten
<1>8. ClosedIsWritten'
  BY <1>1, <1>7 DEF ClosedIsWritten, Closed
<1> QED
  BY <1>3, <1>4, <1>6, <1>8 DEF Inductive

LEMMA AwaitedIs ==
    ASSUME NEW w \in Writes
    PROVE  Awaited(w) \in {"saved", "placed", "titled"}
<1>1. w.by \in {"save", "title", "structure"}
  BY DEF Writes, Writers
<1>2. CASE w.by = "save"
  BY <1>2 DEF Awaited
<1>3. CASE w.by = "structure"
  BY <1>3 DEF Awaited
<1>4. CASE w.by = "title"
  BY <1>4 DEF Awaited
<1> QED
  BY <1>1, <1>2, <1>3, <1>4

LEMMA WriteSucceedsInv ==
    ASSUME Inductive, NEW n \in Notes, WriteSucceeds(n)
    PROVE  Inductive'
<1>a. /\ Values /\ pending \in [Notes -> Entry] /\ pending[n] \in Entry
      /\ lane[n] \in Seq(Writes) /\ doc \in [Notes -> Documents] /\ disk \in [Notes -> Documents]
      /\ lane \in [Notes -> Seq(Writes)]
  BY DEF Inductive, DataOK, Values, Queue
<1>1. DataOK'
  BY WriteSucceedsKeeps DEF Inductive
<1>2. PICK w : w = Head(lane[n])
  OBVIOUS
<1>3. /\ phase # "stopped" /\ lane[n] # << >>
      /\ disk' = [disk EXCEPT ![n] = w.value]
      /\ doc' = IF Len(lane[n]) = 1 /\ CommitsState(n, w)
                THEN [doc EXCEPT ![n] = w.value] ELSE doc
      /\ pending' = IF w.by = "save" THEN AttemptSucceeded(n, w.value) ELSE pending
      /\ todo' = Continued(Awaited(w), n, TRUE)
      /\ lane' = [lane EXCEPT ![n] = Tail(@)] /\ failed' = failed \ {n}
      /\ UNCHANGED <<phase, active, given, spent>>
  BY <1>2 DEF WriteSucceeds, IsActive
<1>4. /\ w = lane[n][1] /\ w \in Writes /\ 1 \in 1..Len(lane[n])
      /\ Tail(lane[n]) = << >> <=> Len(lane[n]) = 1
  <2>1. lane[n] \in Seq(Writes) /\ lane[n] # << >>
    BY <1>a, <1>3
  <2>2. /\ Head(lane[n]) = lane[n][1] /\ Head(lane[n]) \in Writes
        /\ Len(lane[n]) \in Nat /\ Len(lane[n]) > 0
        /\ Tail(lane[n]) = << >> <=> Len(lane[n]) = 1
    BY <2>1, Shortened
  <2> QED
    BY <1>2, <2>2
<1>5. Awaited(w) \in {"saved", "placed", "titled"}
  BY <1>4, AwaitedIs
<1>6. \A m \in Notes : pending'[m].queued => pending[m].queued
  <2>1. ~NoSave.queued
    BY DEF NoSave
  <2>2. [pending[n] EXCEPT !.running = FALSE, !.armed = TRUE].queued = pending[n].queued
    BY <1>a DEF Entry
  <2>3. \A m \in Notes \ {n} : pending'[m] = pending[m]
    BY <1>3, <1>a DEF AttemptSucceeded
  <2>4. \/ pending'[n] = NoSave \/ pending'[n] = pending[n]
        \/ pending'[n] = [pending[n] EXCEPT !.running = FALSE, !.armed = TRUE]
    BY <1>3, <1>a DEF AttemptSucceeded
  <2> QED
    BY <2>1, <2>2, <2>3, <2>4
<1>7. Places'
  BY <1>3, <1>a, PlacesShortened DEF Inductive
<1>8. /\ todo' \in [Routines -> Seq(Steps)] /\ OthersPlain'
      /\ \/ todo'["close"] = todo["close"]
         \/ /\ todo["close"] # << >> /\ todo["close"][1] = Step("saved", n)
            /\ todo'["close"] = <<Step("flush", n)>> \o Tail(todo["close"])
  BY <1>3, <1>5, WaitersContinue DEF Inductive
<1>9. Waiting' /\ (phase = "closing" => (Len(todo'["close"]) = 1 <=> Len(todo["close"]) = 1))
  <2>1. CASE todo'["close"] = todo["close"]
    <3>1. Plans' /\ ClosePlan' /\ GivenUp' /\ WorkPlanned'
      BY <1>3, <1>6, <1>8, <2>1
      DEF Inductive, Waiting, Plans, ClosePlan, GivenUp, WorkPlanned
    <3> QED
      BY <1>8, <2>1, <3>1 DEF Waiting
  <2>2. CASE /\ todo["close"] # << >> /\ todo["close"][1] = Step("saved", n)
             /\ todo'["close"] = <<Step("flush", n)>> \o Tail(todo["close"])
    <3>1. PICK s : s = todo["close"]
      OBVIOUS
    <3>2. s \in Seq(Steps) /\ phase = "closing" /\ IsPlan(s)
      BY <1>3, <2>2, <3>1 DEF Inductive, Waiting, Plans, ClosePlan, Routines
    <3>3. PICK p : p = <<Step("flush", n)>>
      OBVIOUS
    <3>4. /\ p \in Seq(Steps) /\ Len(p) = 1 /\ p[1] = Step("flush", n)
          /\ \A i \in 1..Len(p) : p[i].op \in Flushes
      <4>1. Step("flush", n) \in Steps /\ Step("flush", n).op \in Flushes
        BY DEF Step, Steps, Flushes
      <4> QED
        BY <3>3, <4>1
    <3>5. s[1].op = "saved" /\ s[1].note = n /\ s[1].op \in Flushes
      BY <2>2, <3>1 DEF Step, Flushes
    <3>6. /\ Len(s) \in Nat /\ Len(s) > 2
          /\ IsPlan(p \o Tail(s)) /\ Len(p \o Tail(s)) > 1
          /\ \A m \in Notes :
               Planned(s, m) /\ (\/ \E i \in 1..Len(p) : p[i].op = "flushAll" \/ p[i].note = m
                                 \/ s[1].op # "flushAll" /\ s[1].note # m)
                 => Planned(p \o Tail(s), m)
      BY <3>2, <3>4, <3>5, PlanAdvances
    <3>7. p[1].note = n /\ 1 \in 1..Len(p)
      BY <3>4 DEF Step
    <3>8. \A m \in Notes : Planned(s, m) => Planned(p \o Tail(s), m)
      BY <3>5, <3>6, <3>7
    <3>9. todo'["close"] = p \o Tail(s)
      BY <2>2, <3>1, <3>3
    <3>10. Plans' /\ ClosePlan'
      BY <1>3, <1>8, <3>2, <3>6, <3>9 DEF Inductive, Waiting, Plans, ClosePlan
    <3>11. GivenUp'
      BY <1>3, <3>1, <3>6 DEF Inductive, Waiting, GivenUp
    <3>12. WorkPlanned'
      BY <1>3, <1>6, <3>1, <3>8, <3>9 DEF Inductive, Waiting, WorkPlanned
    <3>13. Len(todo'["close"]) # 1 /\ Len(todo["close"]) # 1
      BY <3>1, <3>6, <3>9
    <3> QED
      BY <1>8, <3>10, <3>11, <3>12, <3>13 DEF Waiting
  <2> QED
    BY <1>8, <2>1, <2>2
<1>10. ClosedIsWritten'
  <2>1. Closed' => Closed
    BY <1>3, <1>9 DEF Closed
  <2>2. /\ lane'[n] = Tail(lane[n])
        /\ \A m \in Notes \ {n} : /\ lane'[m] = lane[m] /\ doc'[m] = doc[m] /\ disk'[m] = disk[m]
                                  /\ m \in failed => m \in failed'
    BY <1>3, <1>a
  <2>3. doc'[n] = doc[n] \/ Tail(lane[n]) = << >>
    BY <1>3, <1>4
  <2>4. ASSUME Closed, n \notin given PROVE Has(doc'[n], disk'[n])
    <3>1. Has(doc[n], w.value)
      BY <1>4, <2>4 DEF Inductive, ClosedIsWritten
    <3>2. disk'[n] = w.value /\ (doc'[n] = doc[n] \/ doc'[n] = w.value)
      BY <1>3, <1>a
    <3>3. w.value.place \in Nat
      BY <1>4 DEF Writes, Documents
    <3> QED
      BY <3>1, <3>2, <3>3 DEF Has
  <2>5. ClosedIsWritten
    BY DEF Inductive
  <2> QED
    BY <1>3, <1>6, <1>a, <2>1, <2>2, <2>3, <2>4, <2>5, ClosedShortened
<1> QED
  BY <1>1, <1>7, <1>9, <1>10 DEF Inductive

LEMMA WriteFailsInv ==
    ASSUME Inductive, NEW n \in Notes, WriteFails(n)
    PROVE  Inductive'
<1>a. /\ Values /\ lane[n] \in Seq(Writes) /\ lane \in [Notes -> Seq(Writes)]
      /\ spent \in [edits : 0..MaxEdits, structural : 0..MaxStructural, failures : Nat]
  BY DEF Inductive, DataOK, Values, Counts
<1>1. DataOK' /\ \A m \in Notes : pending'[m].queued = pending[m].queued
  BY WriteFailsKeeps DEF Inductive
<1>2. PICK w : w = Head(lane[n])
  OBVIOUS
<1>3. /\ phase # "stopped" /\ lane[n] # << >>
      /\ spent' = [spent EXCEPT !.failures = @ + 1]
      /\ todo' = Continued(Awaited(w), n, FALSE)
      /\ phase' = IF todo["close"] # << >> /\ todo'["close"] = << >> THEN "open" ELSE phase
      /\ lane' = [lane EXCEPT ![n] = Tail(@)] /\ failed' = failed \cup {n}
      /\ UNCHANGED <<doc, disk, active, given>>
  BY <1>2 DEF WriteFails, IsActive, Idle
<1>4. w \in Writes
  BY <1>a, <1>2, <1>3, Shortened
<1>5. Awaited(w) \in {"saved", "placed", "titled"}
  BY <1>4, AwaitedIs
<1>6. Places'
  <2>1. spent'.structural = spent.structural
    BY <1>3, <1>a
  <2> QED
    BY <1>3, <1>a, <2>1, PlacesShortened DEF Inductive
<1>7. /\ todo' \in [Routines -> Seq(Steps)] /\ OthersPlain'
      /\ \/ todo'["close"] = todo["close"]
         \/ /\ todo["close"] # << >> /\ todo["close"][1] = Step("saved", n)
            /\ todo'["close"] = << >>
  BY <1>3, <1>5, WaitersContinue DEF Inductive
<1>8. CASE todo'["close"] = todo["close"]
  <2>1. phase' = phase
    BY <1>3, <1>8
  <2>2. Plans' /\ ClosePlan' /\ GivenUp' /\ WorkPlanned'
    BY <1>1, <1>3, <1>7, <1>8, <2>1
    DEF Inductive, Waiting, Plans, ClosePlan, GivenUp, WorkPlanned
  <2>3. Closed' => Closed
    BY <1>8, <2>1 DEF Closed
  <2>4. /\ lane'[n] = Tail(lane[n]) /\ n \in failed'
        /\ \A m \in Notes \ {n} : /\ lane'[m] = lane[m] /\ doc'[m] = doc[m] /\ disk'[m] = disk[m]
                                  /\ m \in failed => m \in failed'
    BY <1>3, <1>a
  <2>5. ClosedIsWritten'
    BY <1>1, <1>3, <1>a, <2>3, <2>4, ClosedShortened DEF Inductive
  <2> QED
    BY <1>1, <1>6, <1>7, <2>2, <2>5 DEF Inductive, Waiting
<1>9. CASE /\ todo["close"] # << >> /\ todo["close"][1] = Step("saved", n)
           /\ todo'["close"] = << >>
  <2>1. phase' = "open"
    BY <1>3, <1>9
  <2>2. todo["close"] \in Seq(Steps) /\ IsPlan(todo["close"])
    BY <1>3, <1>9 DEF Inductive, Waiting, Plans, ClosePlan, Routines
  <2>3. todo["close"][1].op \in Flushes
    BY <1>9 DEF Step, Flushes
  <2>4. Len(todo["close"]) \in Nat /\ Len(todo["close"]) > 2
    <3>1. << >> \in Seq(Steps) /\ \A i \in 1..Len(<< >>) : << >>[i].op \in Flushes
      OBVIOUS
    <3> QED
      BY <2>2, <2>3, <3>1, PlanAdvances
  <2>5. given' = {}
    BY <1>3, <2>4 DEF Inductive, Waiting, GivenUp
  <2>6. Plans' /\ ClosePlan' /\ GivenUp' /\ WorkPlanned'
    BY <1>7, <1>9, <2>1, <2>5 DEF Plans, ClosePlan, GivenUp, WorkPlanned
  <2>7. ClosedIsWritten'
    BY <2>1, OpenIsNotClosed
  <2> QED
    BY <1>1, <1>6, <1>7, <2>6, <2>7 DEF Inductive, Waiting
<1> QED
  BY <1>7, <1>8, <1>9

LEMMA WriteAfterStopInv ==
    ASSUME Inductive, NEW n \in Notes, WriteAfterStop(n)
    PROVE  Inductive'
<1>1. /\ DataOK'
      /\ lane[n] # << >> /\ lane'[n] = Tail(lane[n])
      /\ disk'[n] = Head(lane[n]).value \/ disk'[n] = disk[n]
      /\ \A m \in Notes \ {n} : lane'[m] = lane[m] /\ disk'[m] = disk[m]
  BY WriteAfterStopKeeps DEF Inductive
<1>2. /\ phase = "stopped" /\ lane' = [lane EXCEPT ![n] = Tail(@)]
      /\ UNCHANGED <<doc, pending, failed, todo, phase, active, given, spent>>
  BY DEF WriteAfterStop, IsActive
<1>a. Values /\ lane[n] \in Seq(Writes)
  BY DEF Inductive, DataOK, Values
<1>3. Places'
  BY <1>1, <1>2, <1>a, PlacesShortened DEF Inductive
<1>4. GivenUp'
  BY <1>2 DEF Inductive, Waiting, GivenUp
<1>5. Waiting'
  BY <1>2, <1>4, WaitingKept DEF Inductive
<1>6. Closed
  BY <1>2 DEF Closed
<1>7. n \notin given => n \in failed' \/ Has(doc'[n], disk'[n])
  <2>1. Head(lane[n]) = lane[n][1] /\ 1 \in 1..Len(lane[n])
    BY <1>1, <1>a, Shortened
  <2>2. n \notin given => Has(doc[n], Head(lane[n]).value) /\ (n \in failed \/ Has(doc[n], disk[n]))
    BY <1>6, <2>1 DEF Inductive, ClosedIsWritten
  <2> QED
    BY <1>1, <1>2, <2>2
<1>8. ClosedIsWritten'
  BY <1>1, <1>2, <1>6, <1>7, <1>a, ClosedShortened DEF Inductive
<1> QED
  BY <1>1, <1>3, <1>5, <1>8 DEF Inductive

-----------------------------------------------------------------------------
(* The routines start.                                                           *)

LEMMA StartsInv ==
    ASSUME Inductive, phase = "open", NEW r \in Routines \ {"close"},
           NEW p \in Seq(Steps),
           \A i \in 1..Len(p) : p[i].op \notin {"stop", "drainAll", "flushAll"},
           todo' = [todo EXCEPT ![r] = p],
           UNCHANGED <<doc, disk, pending, lane, failed, phase, active, given, spent>>
    PROVE  Inductive'
<1>a. todo \in [Routines -> Seq(Steps)] /\ "close" \in Routines /\ r # "close" /\ active \in Notes
  BY DEF Inductive, Waiting, Plans, Routines, DataOK, Values
<1>1. /\ todo'[r] = p /\ todo' \in [Routines -> Seq(Steps)] /\ todo'["close"] = todo["close"]
      /\ \A q \in Routines \ {r} : todo'[q] = todo[q]
  BY <1>a
<1>2. DataOK'
  BY <1>a, DataKept DEF Inductive
<1>3. Places'
  BY Inertia
<1>4. Plans' /\ ClosePlan'
  BY <1>1 DEF Inductive, Waiting, Plans, ClosePlan
<1>5. OthersPlain'
  <2> SUFFICES ASSUME NEW q \in Routines \ {"close"}, NEW i \in 1..Len(todo'[q])
               PROVE  todo'[q][i].op \notin {"stop", "drainAll", "flushAll"}
    BY DEF OthersPlain
  <2>1. CASE q = r
    BY <1>1, <2>1
  <2>2. CASE q # r
    BY <1>1, <2>2 DEF Inductive, Waiting, OthersPlain
  <2> QED
    BY <2>1, <2>2
<1>6. GivenUp' /\ WorkPlanned'
  BY DEF Inductive, Waiting, GivenUp, WorkPlanned
<1>7. ClosedIsWritten'
  BY OpenIsNotClosed
<1> QED
  BY <1>2, <1>3, <1>4, <1>5, <1>6, <1>7 DEF Inductive, Waiting

LEMMA MoveDocumentsInv ==
    ASSUME Inductive, NEW r \in Structural, NEW batch \in Seq(Notes), MoveDocuments(r, batch)
    PROVE  Inductive'
<1>1. PICK p : p = [i \in DOMAIN batch |-> Step("place", batch[i])]
  OBVIOUS
<1>2. Len(batch) \in Nat /\ DOMAIN batch = 1..Len(batch) /\ \A i \in 1..Len(batch) : batch[i] \in Notes
  OBVIOUS
<1>3. \A i \in 1..Len(batch) : Step("place", batch[i]) \in Steps
  BY <1>2 DEF Step, Steps
<1>4. p \in Seq(Steps) /\ Len(p) = Len(batch)
  <2>1. p \in [1..Len(batch) -> Steps]
    BY <1>1, <1>2, <1>3
  <2> QED
    BY <1>2, <2>1
<1>5. \A i \in 1..Len(p) : p[i].op \notin {"stop", "drainAll", "flushAll"}
  BY <1>1, <1>2, <1>4 DEF Step
<1>6. r \in Routines \ {"close"}
  BY DEF Routines, Structural
<1>7. /\ phase = "open" /\ todo' = [todo EXCEPT ![r] = p]
      /\ UNCHANGED <<doc, disk, pending, lane, failed, phase, active, given, spent>>
  BY <1>1 DEF MoveDocuments
<1> QED
  BY <1>4, <1>5, <1>6, <1>7, StartsInv

LEMMA SelectDocumentInv ==
    ASSUME Inductive, NEW n \in Notes, SelectDocument(n)
    PROVE  Inductive'
<1>1. PICK p : p = <<Step("flush", active), Step("drain", active), Step("activate", n)>>
  OBVIOUS
<1>2. active \in Notes
  BY DEF Inductive, DataOK, Values
<1>3. Step("flush", active) \in Steps /\ Step("drain", active) \in Steps /\ Step("activate", n) \in Steps
  BY <1>2 DEF Step, Steps
<1>4. p \in Seq(Steps) /\ Len(p) = 3
      /\ p[1] = Step("flush", active) /\ p[2] = Step("drain", active) /\ p[3] = Step("activate", n)
  BY <1>1, <1>3
<1>5. \A i \in 1..Len(p) : p[i].op \notin {"stop", "drainAll", "flushAll"}
  <2>1. \A i \in 1..3 : i = 1 \/ i = 2 \/ i = 3
    OBVIOUS
  <2>2. p[1].op = "flush" /\ p[2].op = "drain" /\ p[3].op = "activate"
    BY <1>4 DEF Step
  <2> QED
    BY <1>4, <2>1, <2>2
<1>6. "select" \in Routines \ {"close"}
  BY DEF Routines
<1>7. /\ phase = "open" /\ todo' = [todo EXCEPT !["select"] = p]
      /\ UNCHANGED <<doc, disk, pending, lane, failed, phase, active, given, spent>>
  BY <1>1 DEF SelectDocument
<1> QED
  BY <1>4, <1>5, <1>6, <1>7, StartsInv

LEMMA PageHiddenInv ==
    ASSUME Inductive, PageHidden
    PROVE  Inductive'
<1>1. PICK n \in Notes : todo' = [todo EXCEPT !["hidden"] = <<Step("flush", n), Step("drain", n)>>]
  BY DEF PageHidden
<1>2. PICK p : p = <<Step("flush", n), Step("drain", n)>>
  OBVIOUS
<1>3. Step("flush", n) \in Steps /\ Step("drain", n) \in Steps
  BY DEF Step, Steps
<1>4. p \in Seq(Steps) /\ Len(p) = 2 /\ p[1] = Step("flush", n) /\ p[2] = Step("drain", n)
  BY <1>2, <1>3
<1>5. \A i \in 1..Len(p) : p[i].op \notin {"stop", "drainAll", "flushAll"}
  <2>1. \A i \in 1..2 : i = 1 \/ i = 2
    OBVIOUS
  <2>2. p[1].op = "flush" /\ p[2].op = "drain"
    BY <1>4 DEF Step
  <2> QED
    BY <1>4, <2>1, <2>2
<1>6. "hidden" \in Routines \ {"close"}
  BY DEF Routines
<1>7. /\ phase = "open" /\ todo' = [todo EXCEPT !["hidden"] = p]
      /\ UNCHANGED <<doc, disk, pending, lane, failed, phase, active, given, spent>>
  BY <1>1, <1>2 DEF PageHidden
<1> QED
  BY <1>4, <1>5, <1>6, <1>7, StartsInv

LEMMA CloseInv ==
    ASSUME Inductive, NEW discard \in BOOLEAN, Close(discard)
    PROVE  Inductive'
<1>a. todo \in [Routines -> Seq(Steps)] /\ "close" \in Routines /\ active \in Notes
  BY DEF Inductive, Waiting, Plans, Routines, DataOK, Values
<1>1. DataOK'
  BY CloseKeeps DEF Inductive, Waiting
<1>2. /\ phase = "open" /\ phase' = "closing" /\ UNCHANGED <<lane, spent>>
      /\ pending' = IF discard THEN [n \in Notes |-> NoSave] ELSE pending
      /\ given' = IF discard THEN {n \in Notes : pending[n].queued} ELSE {}
      /\ todo' = [todo EXCEPT !["close"] = IF discard THEN Tail(CloseSteps) ELSE CloseSteps]
  BY DEF Close
<1>3. Places'
  BY <1>2, Inertia
<1>4. PICK all : all = Step("flushAll", active)
  OBVIOUS
<1>5. PICK drain : drain = Step("drainAll", active)
  OBVIOUS
<1>6. PICK stop : stop = Step("stop", active)
  OBVIOUS
<1>7. /\ all \in Steps /\ drain \in Steps /\ stop \in Steps
      /\ all.op = "flushAll" /\ drain.op = "drainAll" /\ stop.op = "stop"
  BY <1>4, <1>5, <1>6, <1>a DEF Step, Steps
<1>8. CloseSteps = <<all, drain, stop>>
  BY <1>4, <1>5, <1>6 DEF CloseSteps
<1>9. Tail(CloseSteps) = <<drain, stop>>
  BY <1>8
<1>10. PICK s : s = todo'["close"]
  OBVIOUS
<1>11. s = IF discard THEN <<drain, stop>> ELSE <<all, drain, stop>>
  BY <1>2, <1>8, <1>9, <1>10, <1>a
<1>12. /\ s \in Seq(Steps) /\ (IF discard THEN Len(s) = 2 ELSE Len(s) = 3)
       /\ IF discard THEN s[1] = drain /\ s[2] = stop
                     ELSE s[1] = all /\ s[2] = drain /\ s[3] = stop
  BY <1>7, <1>11
<1>13. IsPlan(s)
  <2>1. CASE discard
    <3>1. Len(s) = 2 /\ s[1].op = "drainAll" /\ s[2].op = "stop"
      BY <1>7, <1>12, <2>1
    <3>2. \A i \in 1..Len(s) : ~(i < Len(s) - 1)
      BY <3>1
    <3> QED
      BY <3>1, <3>2 DEF IsPlan
  <2>2. CASE ~discard
    <3>1. Len(s) = 3 /\ s[1].op = "flushAll" /\ s[2].op = "drainAll" /\ s[3].op = "stop"
      BY <1>7, <1>12, <2>2
    <3>2. \A i \in 1..Len(s) : i < Len(s) - 1 => i = 1
      BY <3>1
    <3> QED
      BY <3>1, <3>2 DEF IsPlan, Flushes
  <2> QED
    BY <2>1, <2>2
<1>14. Plans' /\ ClosePlan'
  BY <1>2, <1>10, <1>12, <1>13, <1>a DEF Inductive, Waiting, Plans, ClosePlan
<1>15. OthersPlain'
  BY <1>2, <1>a DEF Inductive, Waiting, OthersPlain
<1>16. GivenUp'
  <2>1. CASE discard
    <3>a. Len(s) = 2
      BY <1>12, <2>1
    <3>1. Len(s) <= 2
      BY <3>a
    <3> QED
      BY <1>2, <1>10, <3>1 DEF GivenUp
  <2>2. CASE ~discard
    BY <1>2, <2>2 DEF GivenUp
  <2> QED
    BY <2>1, <2>2
<1>17. WorkPlanned'
  <2>1. CASE discard
    <3>1. \A n \in Notes : ~pending'[n].queued
      BY <1>2, <2>1 DEF NoSave
    <3> QED
      BY <3>1 DEF WorkPlanned
  <2>2. CASE ~discard
    <3>a. Len(s) = 3 /\ s[1].op = "flushAll"
      BY <1>7, <1>12, <2>2
    <3>1. 1 \in 1..Len(s) /\ 1 < Len(s) - 1 /\ s[1].op = "flushAll"
      BY <3>a
    <3> QED
      BY <1>10, <3>1 DEF WorkPlanned, Planned
  <2> QED
    BY <2>1, <2>2
<1>18. ClosedIsWritten'
  <2>1. Len(s) # 1
    BY <1>12
  <2> QED
    BY <1>2, <1>10, <2>1, OpenIsNotClosed
<1> QED
  BY <1>1, <1>3, <1>14, <1>15, <1>16, <1>17, <1>18 DEF Inductive, Waiting

-----------------------------------------------------------------------------
(* The routines go on.                                                           *)

LEMMA NothingFirst ==
    ASSUME NEW s \in Seq(Steps), s # << >>
    PROVE  << >> \in Seq(Steps) /\ << >> \o Tail(s) = Tail(s) /\ Head(s) = s[1] /\ Head(s) \in Steps
<1>1. Tail(s) \in Seq(Steps) /\ Head(s) = s[1] /\ Head(s) \in Steps
  BY Shortened
<1> QED
  BY <1>1

(* The flushes of a note: an attempt is started or joined, or nothing is left. *)
LEMMA FlushInv ==
    ASSUME Inductive, NEW r \in Routines, NEW n \in Notes, todo[r] # << >>,
           Head(todo[r]) = Step("flush", n), Flush(r, n)
    PROVE  Inductive'
<1>a. todo \in [Routines -> Seq(Steps)] /\ todo[r] \in Seq(Steps) /\ active \in Notes
  BY DEF Inductive, Waiting, Plans, DataOK, Values
<1>b. /\ << >> \in Seq(Steps) /\ << >> \o Tail(todo[r]) = Tail(todo[r])
      /\ todo[r][1] = Step("flush", n)
  BY <1>a, NothingFirst
<1>1. PICK p : p = IF pending[n].queued /\ IsActive THEN <<Step("saved", n)>> ELSE << >>
  OBVIOUS
<1>2. /\ p \in Seq(Steps)
      /\ \A i \in 1..Len(p) : p[i] = Step("saved", n)
  <2>1. Step("saved", n) \in Steps
    BY DEF Step, Steps
  <2>2. CASE pending[n].queued /\ IsActive
    <3>1. p = <<Step("saved", n)>>
      BY <1>1, <2>2
    <3> QED
      BY <2>1, <3>1
  <2>3. CASE ~(pending[n].queued /\ IsActive)
    <3>1. p = << >>
      BY <1>1, <2>3
    <3> QED
      BY <3>1
  <2> QED
    BY <2>2, <2>3
<1>3. \A i \in 1..Len(p) :
        p[i].op \in Flushes /\ p[i].op \notin {"stop", "drainAll", "flushAll"} /\ p[i].note = n
  BY <1>2 DEF Step, Flushes
<1>4. /\ todo' = [todo EXCEPT ![r] = p \o Tail(@)]
      /\ UNCHANGED <<doc, disk, failed, phase, active, given, spent>>
  <2>1. CASE pending[n].queued /\ IsActive
    BY <1>1, <2>1 DEF Flush
  <2>2. CASE ~(pending[n].queued /\ IsActive)
    BY <1>1, <1>b, <2>2 DEF Flush
  <2> QED
    BY <2>1, <2>2
<1>5. CASE pending[n].queued /\ IsActive
  <2>1. Run(n)
    BY <1>5 DEF Flush
  <2>2. DataOK' /\ \A m \in Notes : pending'[m].queued = pending[m].queued
    BY <1>4, <1>5, <2>1, RunKeeps DEF Inductive
  <2>3. Places'
    BY <1>4, <2>1, RunPlaces
  <2>4. ~Closed
    BY <1>5 DEF Inductive, ClosedIsWritten
  <2>5. p = <<Step("saved", n)>>
    BY <1>1, <1>5
  <2>6. 1 \in 1..Len(p) /\ p[1].note = n
    BY <2>5 DEF Step
  <2>7. CASE r = "close"
    <3>1. Waiting' /\ phase = "closing" /\ Len(todo'["close"]) # 1
      <4>1. todo["close"][1].op \in Flushes /\ todo["close"][1].op # "flushAll"
            /\ todo["close"][1].note = n
        BY <1>b, <2>7 DEF Step, Flushes
      <4>2. \A m \in Notes : pending'[m].queued =>
             /\ pending[m].queued
             /\ \/ \E i \in 1..Len(p) : p[i].op = "flushAll" \/ p[i].note = m
                \/ todo["close"][1].op # "flushAll" /\ todo["close"][1].note # m
        BY <2>2, <2>6, <4>1
      <4>3. \A i \in 1..Len(p) : p[i].op \in Flushes
        BY <1>3
      <4>4. Waiting /\ todo["close"] # << >> /\ todo' = [todo EXCEPT !["close"] = p \o Tail(@)]
        BY <1>4, <2>7 DEF Inductive
      <4> QED
        BY <1>2, <1>4, <4>1, <4>2, <4>3, <4>4, CloseAdvances
    <3>2. ClosedIsWritten'
      BY <1>4, <3>1, OpenIsNotClosed
    <3> QED
      BY <2>2, <2>3, <3>1, <3>2 DEF Inductive
  <2>8. CASE r # "close"
    <3>1. Waiting' /\ todo'["close"] = todo["close"]
      BY <1>2, <1>3, <1>4, <2>2, <2>8, OtherAdvances DEF Inductive
    <3>2. ClosedIsWritten'
      BY <1>4, <2>4, <3>1 DEF ClosedIsWritten, Closed
    <3> QED
      BY <2>2, <2>3, <3>1, <3>2 DEF Inductive
  <2> QED
    BY <2>7, <2>8
<1>6. CASE ~(pending[n].queued /\ IsActive)
  <2>1. UNCHANGED <<pending, lane>>
    BY <1>6 DEF Flush
  <2>2. DataOK' /\ Places'
    BY <1>4, <1>a, <2>1, DataKept, Inertia DEF Inductive
  <2>3. CASE r = "close"
    <3>1. todo["close"][1].op \in Flushes /\ todo["close"][1].op # "flushAll"
          /\ todo["close"][1].note = n
      BY <1>b, <2>3 DEF Step, Flushes
    <3>2. ~pending[n].queued
      BY <1>6, <2>3 DEF Inductive, Waiting, ClosePlan, IsActive
    <3>3. Waiting' /\ phase = "closing" /\ Len(todo'["close"]) # 1
      BY <1>2, <1>3, <1>4, <2>1, <2>3, <3>1, <3>2, CloseAdvances DEF Inductive
    <3>4. ClosedIsWritten'
      BY <1>4, <3>3, OpenIsNotClosed
    <3> QED
      BY <2>2, <3>3, <3>4 DEF Inductive
  <2>4. CASE r # "close"
    <3>1. Waiting' /\ todo'["close"] = todo["close"]
      BY <1>2, <1>3, <1>4, <2>1, <2>4, OtherAdvances DEF Inductive
    <3>2. Closed' => Closed
      BY <1>4, <3>1 DEF Closed
    <3>3. ClosedIsWritten'
      BY <1>4, <2>1, <3>2, ClosedKept DEF Inductive
    <3> QED
      BY <2>2, <3>1, <3>3 DEF Inductive
  <2> QED
    BY <2>3, <2>4
<1> QED
  BY <1>5, <1>6

(* Every entry of the queue is among the flushes of a flushAll. *)
LEMMA EveryIdTaken ==
    ASSUME NEW S, IsFiniteSet(S), NEW ids \in SetToSeqs(S)
    PROVE  ids \in Seq(S) /\ \A m \in S : \E i \in 1..Len(ids) : ids[i] = m
<1>1. PICK k : k = Cardinality(S)
  OBVIOUS
<1>2. k \in Nat
  BY <1>1, FS_CardinalityType
<1>3. /\ ids \in [1..k -> S]
      /\ \A i, j \in 1..k : i # j => ids[i] # ids[j]
  BY <1>1 DEF SetToSeqs
<1>4. ids \in Seq(S) /\ Len(ids) = k
  BY <1>2, <1>3
<1>5. ids \in Injection(1..k, S)
  <2>1. IsInjective(ids)
    BY <1>3 DEF IsInjective
  <2> QED
    BY <1>3, <2>1 DEF Injection
<1>6. Cardinality(1..k) = k
  BY <1>2, FS_Interval
<1>7. ids \in Surjection(1..k, S)
  BY <1>1, <1>5, <1>6, FS_Injection
<1>8. \A m \in S : \E i \in 1..k : ids[i] = m
  BY <1>7 DEF Surjection
<1> QED
  BY <1>4, <1>8

LEMMA FlushAllInv ==
    ASSUME Inductive, NEW r \in Routines, todo[r] # << >>, Head(todo[r]).op = "flushAll",
           FlushAll(r)
    PROVE  Inductive'
<1>a. todo \in [Routines -> Seq(Steps)] /\ todo[r] \in Seq(Steps) /\ active \in Notes
  BY DEF Inductive, Waiting, Plans, DataOK, Values
<1>b. todo[r][1].op = "flushAll" /\ 1 \in 1..Len(todo[r])
  BY <1>a, Shortened
<1>1. r = "close"
  BY <1>b DEF Inductive, Waiting, OthersPlain
<1>2. PICK Q : Q = {n \in Notes : pending[n].queued}
  OBVIOUS
<1>3. PICK ids \in SetToSeqs(Q) :
        todo' = [todo EXCEPT ![r] = [i \in DOMAIN ids |-> Step("flush", ids[i])] \o Tail(@)]
  BY <1>2 DEF FlushAll
<1>4. IsFiniteSet(Q)
  <2>1. IsFiniteSet(Notes)
    BY DocumentSavesAssumption DEF DocumentSavesAssumption
  <2>2. Q \in SUBSET Notes
    BY <1>2
  <2> QED
    BY <2>1, <2>2, FS_Subset
<1>5. ids \in Seq(Q) /\ \A m \in Q : \E i \in 1..Len(ids) : ids[i] = m
  BY <1>4, EveryIdTaken
<1>6. PICK p : p = [i \in DOMAIN ids |-> Step("flush", ids[i])]
  OBVIOUS
<1>7. Len(ids) \in Nat /\ DOMAIN ids = 1..Len(ids) /\ \A i \in 1..Len(ids) : ids[i] \in Notes
  BY <1>2, <1>5
<1>8. /\ p \in Seq(Steps) /\ Len(p) = Len(ids)
      /\ \A i \in 1..Len(ids) : p[i] = Step("flush", ids[i])
  <2>1. \A i \in 1..Len(ids) : Step("flush", ids[i]) \in Steps
    BY <1>7 DEF Step, Steps
  <2>2. p \in [1..Len(ids) -> Steps] /\ \A i \in 1..Len(ids) : p[i] = Step("flush", ids[i])
    BY <1>6, <1>7, <2>1
  <2> QED
    BY <1>7, <2>2
<1>9. ASSUME NEW i \in 1..Len(p) PROVE p[i].op \in Flushes /\ p[i].note = ids[i]
  <2>1. p[i] = Step("flush", ids[i])
    BY <1>8
  <2> QED
    BY <2>1 DEF Step, Flushes
<1>10. UNCHANGED <<doc, disk, pending, lane, failed, phase, active, given, spent>>
  BY DEF FlushAll
<1>11. \A m \in Notes : pending'[m].queued =>
         /\ pending[m].queued
         /\ \/ \E i \in 1..Len(p) : p[i].op = "flushAll" \/ p[i].note = m
            \/ todo["close"][1].op # "flushAll" /\ todo["close"][1].note # m
  <2> SUFFICES ASSUME NEW m \in Notes, pending[m].queued
               PROVE  \E i \in 1..Len(p) : p[i].note = m
    BY <1>10
  <2>1. PICK i \in 1..Len(ids) : ids[i] = m
    BY <1>2, <1>5
  <2> QED
    BY <1>8, <1>9, <2>1
<1>12. Waiting' /\ phase = "closing" /\ Len(todo'["close"]) # 1
  <2>1. Waiting /\ todo["close"] # << >> /\ todo' = [todo EXCEPT !["close"] = p \o Tail(@)]
    BY <1>1, <1>3, <1>6 DEF Inductive
  <2>2. todo["close"][1].op \in Flushes
    BY <1>1, <1>b DEF Flushes
  <2>3. p \in Seq(Steps) /\ \A i \in 1..Len(p) : p[i].op \in Flushes
    BY <1>8, <1>9
  <2> QED
    BY <1>10, <1>11, <2>1, <2>2, <2>3, CloseAdvances
<1>13. ClosedIsWritten'
  BY <1>10, <1>12, OpenIsNotClosed
<1>14. DataOK' /\ Places'
  BY <1>10, <1>a, DataKept, Inertia DEF Inductive
<1> QED
  BY <1>12, <1>13, <1>14 DEF Inductive

(* A routine that only goes on: its lane is empty, or its document is activated. *)
LEMMA ContinueInv ==
    ASSUME Inductive, NEW r \in Routines, r # "close", todo[r] # << >>,
           todo' = [todo EXCEPT ![r] = Tail(@)], active' \in Notes,
           UNCHANGED <<doc, disk, pending, lane, failed, phase, given, spent>>
    PROVE  Inductive'
<1>a. todo \in [Routines -> Seq(Steps)] /\ todo[r] \in Seq(Steps)
  BY DEF Inductive, Waiting, Plans
<1>1. << >> \in Seq(Steps) /\ << >> \o Tail(todo[r]) = Tail(todo[r])
  BY <1>a, NothingFirst
<1>2. PICK p : p = << >>
  OBVIOUS
<1>3. p \in Seq(Steps) /\ \A i \in 1..Len(p) : p[i].op \notin {"stop", "drainAll", "flushAll"}
  BY <1>1, <1>2
<1>4. todo' = [todo EXCEPT ![r] = p \o Tail(@)]
  BY <1>1, <1>2
<1>5. Waiting' /\ todo'["close"] = todo["close"]
  BY <1>3, <1>4, OtherAdvances DEF Inductive
<1>6. DataOK' /\ Places'
  BY DataKept, Inertia DEF Inductive
<1>7. Closed' => Closed
  BY <1>5 DEF Closed
<1>8. ClosedIsWritten'
  BY <1>7, ClosedKept DEF Inductive
<1> QED
  BY <1>5, <1>6, <1>8 DEF Inductive

LEMMA PlaceDocumentInv ==
    ASSUME Inductive, NEW r \in Routines, NEW n \in Notes, r # "close", todo[r] # << >>,
           PlaceDocument(r, n)
    PROVE  Inductive'
<1>1. /\ DataOK'
      /\ \A m \in Notes \ {n} : lane'[m] = lane[m]
      /\ \E w \in Writes : /\ lane'[n] = Append(lane[n], w) /\ w.by = "structure"
                           /\ Has(doc[n], w.value)
  BY PlaceKeeps DEF Inductive
<1>2. /\ spent.structural < MaxStructural /\ spent' = [spent EXCEPT !.structural = @ + 1]
      /\ lane' = [lane EXCEPT ![n] =
           Append(@, [value |-> [doc[n] EXCEPT !.place = spent.structural + 1], by |-> "structure"])]
      /\ todo' = [todo EXCEPT ![r] = <<Step("placed", n)>> \o Tail(@)]
      /\ UNCHANGED <<doc, disk, pending, failed, phase, active, given>>
  BY DEF PlaceDocument, Enqueued
<1>3. PICK p : p = <<Step("placed", n)>>
  OBVIOUS
<1>4. /\ p \in Seq(Steps)
      /\ \A i \in 1..Len(p) : p[i].op \notin {"stop", "drainAll", "flushAll"}
  <2>1. Step("placed", n) \in Steps /\ Step("placed", n).op = "placed"
    BY DEF Step, Steps
  <2>2. Len(p) = 1 /\ p[1] = Step("placed", n) /\ p \in Seq(Steps)
    BY <1>3, <2>1
  <2>3. \A i \in 1..Len(p) : p[i] = Step("placed", n)
    BY <2>2
  <2> QED
    BY <2>1, <2>2, <2>3
<1>5. Waiting' /\ todo'["close"] = todo["close"]
  <2>1. todo' = [todo EXCEPT ![r] = p \o Tail(@)]
    BY <1>2, <1>3
  <2> QED
    BY <1>2, <1>4, <2>1, OtherAdvances DEF Inductive
<1>6. Closed' => Closed
  BY <1>2, <1>5 DEF Closed
<1>7. ClosedIsWritten'
  <2>1. PICK w \in Writes : /\ lane'[n] = Append(lane[n], w) /\ w.by = "structure"
                            /\ Has(doc[n], w.value)
    BY <1>1
  <2>2. ClosedIsWritten /\ Values
    BY DEF Inductive, DataOK
  <2> QED
    BY <1>1, <1>2, <1>6, <2>1, <2>2, ClosedAppended
<1>8. Places'
  <2>a. /\ doc[n] \in Documents /\ MaxStructural \in Nat
        /\ spent \in [edits : 0..MaxEdits, structural : 0..MaxStructural, failures : Nat]
    BY DocumentSavesAssumption DEF DocumentSavesAssumption, Inductive, DataOK, Values, Counts
  <2>1. spent.structural \in Nat /\ spent.structural + 1 \in 0..MaxStructural
    BY <1>2, <2>a
  <2>2. PICK v : v = [doc[n] EXCEPT !.place = spent.structural + 1]
    OBVIOUS
  <2>3. v \in Documents /\ v.place = spent.structural + 1
    BY <2>1, <2>2, <2>a DEF Documents
  <2>4. PICK w : w = [value |-> v, by |-> "structure"]
    OBVIOUS
  <2>5. w \in Writes /\ w.value = v
    BY <2>3, <2>4 DEF Writes, Writers
  <2>6. spent'.structural = spent.structural + 1
    BY <1>2, <2>a
  <2>7. /\ w.value.place <= spent'.structural /\ spent.structural <= spent'.structural
        /\ spent'.structural \in Nat
    BY <2>1, <2>3, <2>5, <2>6
  <2>8. lane' = [lane EXCEPT ![n] = Append(@, w)] /\ Values /\ Places
    BY <1>2, <2>2, <2>4 DEF Inductive, DataOK
  <2> QED
    BY <2>1, <2>5, <2>7, <2>8, PlacesAppended
<1> QED
  BY <1>1, <1>5, <1>7, <1>8 DEF Inductive

(* The close has waited for every lane: what is in memory is in the database, or *)
(* its failure is reported.                                                      *)
LEMMA DrainAllInv ==
    ASSUME Inductive, NEW r \in Routines, todo[r] # << >>, Head(todo[r]).op = "drainAll",
           Drained(Notes), todo' = [todo EXCEPT ![r] = Tail(@)],
           UNCHANGED <<doc, disk, pending, lane, failed, phase, active, given, spent>>
    PROVE  Inductive'
<1>a. todo \in [Routines -> Seq(Steps)] /\ todo[r] \in Seq(Steps) /\ active \in Notes
  BY DEF Inductive, Waiting, Plans, DataOK, Values
<1>b. todo[r][1].op = "drainAll" /\ 1 \in 1..Len(todo[r])
  BY <1>a, Shortened
<1>1. r = "close"
  BY <1>b DEF Inductive, Waiting, OthersPlain
<1>2. phase = "closing"
  BY <1>1, <1>a DEF Inductive, Waiting, Plans, ClosePlan
<1>3. PICK s : s = todo["close"]
  OBVIOUS
<1>4. s \in Seq(Steps) /\ IsPlan(s) /\ s[1].op = "drainAll"
  BY <1>a, <1>b, <1>1, <1>2, <1>3 DEF Inductive, Waiting, ClosePlan
<1>5. Tail(s) \in Seq(Steps) /\ Len(s) = 2 /\ IsPlan(Tail(s)) /\ Len(Tail(s)) = 1
  <2>1. s[1].op \notin Flushes /\ s[1].op # "stop"
    BY <1>4 DEF Flushes
  <2> QED
    BY <1>4, <2>1, PlanEnds
<1>6. /\ todo'["close"] = Tail(s) /\ todo' \in [Routines -> Seq(Steps)]
      /\ \A q \in Routines \ {"close"} : todo'[q] = todo[q]
  BY <1>1, <1>3, <1>5, <1>a
<1>7. ASSUME NEW m \in Notes PROVE ~pending[m].queued
  <2>1. ~Planned(s, m)
    <3>1. \A i \in 1..Len(s) : ~(i < Len(s) - 1)
      BY <1>5
    <3> QED
      BY <3>1 DEF Planned
  <2> QED
    BY <1>2, <1>3, <2>1 DEF Inductive, Waiting, WorkPlanned
<1>8. Plans' /\ ClosePlan'
  BY <1>2, <1>5, <1>6 DEF Inductive, Waiting, Plans, ClosePlan
<1>9. OthersPlain'
  BY <1>6 DEF Inductive, Waiting, OthersPlain
<1>10. GivenUp'
  <2>a. Len(todo'["close"]) = 1
    BY <1>5, <1>6
  <2>b. \A k : k = 1 => k <= 2
    OBVIOUS
  <2>1. Len(todo'["close"]) <= 2
    BY <2>a, <2>b
  <2> QED
    BY <1>2, <2>1 DEF GivenUp
<1>11. WorkPlanned'
  BY <1>7 DEF WorkPlanned
<1>12. ClosedIsWritten'
  <2>1. ASSUME NEW m \in Notes
        PROVE  /\ ~pending[m].queued
               /\ \A i \in 1..Len(lane[m]) : lane[m][i].by = "structure"
               /\ m \notin given =>
                    /\ m \in failed \/ Has(doc[m], disk[m])
                    /\ \A i \in 1..Len(lane[m]) : Has(doc[m], lane[m][i].value)
    <3>1. lane[m] = << >>
      BY DEF Drained
    <3>2. ASSUME NEW i \in 1..Len(lane[m]) PROVE FALSE
      <4>1. Len(lane[m]) = 0
        BY <3>1
      <4> QED
        BY <3>2, <4>1
    <3>3. m \notin given => disk[m] = doc[m] \/ m \in failed
      BY <1>2, <1>7, <3>1 DEF Inductive, DataOK, NoteInv, NoteSettled, Settled
    <3>4. doc[m].place \in Nat
      BY DEF Inductive, DataOK, Values, Documents
    <3>5. m \notin given => m \in failed \/ Has(doc[m], disk[m])
      BY <3>3, <3>4 DEF Has
    <3> QED
      BY <1>7, <3>2, <3>5
  <2> QED
    BY <2>1 DEF ClosedIsWritten
<1>13. DataOK' /\ Places'
  BY <1>a, DataKept, Inertia DEF Inductive
<1> QED
  BY <1>8, <1>9, <1>10, <1>11, <1>12, <1>13 DEF Inductive, Waiting

LEMMA StopInv ==
    ASSUME Inductive, NEW r \in Routines, todo[r] # << >>, Head(todo[r]).op = "stop",
           phase' = "stopped", todo' = [q \in Routines |-> << >>],
           UNCHANGED <<doc, disk, pending, lane, failed, active, given, spent>>
    PROVE  Inductive'
<1>a. todo \in [Routines -> Seq(Steps)] /\ todo[r] \in Seq(Steps) /\ active \in Notes
  BY DEF Inductive, Waiting, Plans, DataOK, Values
<1>b. todo[r][1].op = "stop" /\ 1 \in 1..Len(todo[r])
  BY <1>a, Shortened
<1>1. r = "close"
  BY <1>b DEF Inductive, Waiting, OthersPlain
<1>2. phase = "closing"
  BY <1>1, <1>a DEF Inductive, Waiting, Plans, ClosePlan
<1>3. Closed
  <2>1. todo["close"] \in Seq(Steps) /\ IsPlan(todo["close"]) /\ todo["close"][1].op = "stop"
    BY <1>a, <1>b, <1>1, <1>2 DEF Inductive, Waiting, ClosePlan
  <2>2. todo["close"][1].op \notin Flushes /\ todo["close"][1].op # "drainAll"
    BY <2>1 DEF Flushes
  <2> QED
    BY <1>2, <2>1, <2>2, PlanEnds DEF Closed
<1>4. \A q \in Routines : todo'[q] = << >>
  OBVIOUS
<1>5. << >> \in Seq(Steps) /\ Len(<< >>) = 0 /\ "close" \in Routines
  BY DEF Routines
<1>6. Plans' /\ ClosePlan'
  BY <1>4, <1>5 DEF Plans, ClosePlan
<1>7. OthersPlain'
  <2> SUFFICES ASSUME NEW q \in Routines \ {"close"}, NEW i \in 1..Len(todo'[q]) PROVE FALSE
    BY DEF OthersPlain
  <2>1. Len(todo'[q]) = 0
    BY <1>4, <1>5
  <2> QED
    BY <2>1
<1>8. GivenUp'
  <2>1. Len(todo'["close"]) = 0
    BY <1>4, <1>5
  <2> QED
    BY <2>1 DEF GivenUp
<1>9. WorkPlanned'
  BY DEF WorkPlanned
<1>10. ClosedIsWritten'
  BY <1>3, ClosedKept DEF Inductive
<1>11. DataOK' /\ Places'
  BY <1>a, <1>2, DataKept, Inertia DEF Inductive
<1> QED
  BY <1>6, <1>7, <1>8, <1>9, <1>10, <1>11 DEF Inductive, Waiting

LEMMA RoutineStepInv ==
    ASSUME Inductive, NEW r \in Routines, RoutineStep(r)
    PROVE  Inductive'
<1>a. /\ todo[r] \in Seq(Steps) /\ active \in Notes /\ todo[r] # << >>
  BY DEF Inductive, Waiting, Plans, DataOK, Values, RoutineStep, Idle
<1>1. PICK step : step = Head(todo[r])
  OBVIOUS
<1>2. step \in Steps /\ step = todo[r][1] /\ 1 \in 1..Len(todo[r])
  BY <1>a, <1>1, Shortened
<1>3. PICK n : n = step.note
  OBVIOUS
<1>4. n \in Notes
  BY <1>2, <1>3 DEF Steps
<1>5. step.op \in {"place", "drain", "activate"} => r # "close"
  <2> SUFFICES ASSUME r = "close", step.op \in {"place", "drain", "activate"} PROVE FALSE
    OBVIOUS
  <2>1. IsPlan(todo["close"]) /\ todo["close"] \in Seq(Steps)
    BY <1>a DEF Inductive, Waiting, Plans, ClosePlan
  <2>2. todo["close"][1].op \notin Flushes \cup {"drainAll", "stop"}
    BY <1>2 DEF Flushes
  <2> QED
    BY <2>1, <2>2, PlanEnds
<1>6. \/ step.op = "flush" /\ Flush(r, n)
      \/ step.op = "flushAll" /\ FlushAll(r)
      \/ step.op = "place" /\ PlaceDocument(r, n)
      \/ /\ step.op = "drain" /\ Continue(r)
         /\ UNCHANGED <<doc, disk, pending, lane, failed, phase, active, given, spent>>
      \/ /\ step.op = "drainAll" /\ Drained(Notes) /\ Continue(r)
         /\ UNCHANGED <<doc, disk, pending, lane, failed, phase, active, given, spent>>
      \/ /\ step.op = "activate" /\ active' = n /\ Continue(r)
         /\ UNCHANGED <<doc, disk, pending, lane, failed, phase, given, spent>>
      \/ /\ step.op = "stop" /\ phase' = "stopped" /\ todo' = [q \in Routines |-> << >>]
         /\ UNCHANGED <<doc, disk, pending, lane, failed, active, given, spent>>
  BY <1>1, <1>3 DEF RoutineStep
<1>7. CASE step.op = "flush" /\ Flush(r, n)
  <2>1. step = Step("flush", n)
    BY <1>2, <1>3, <1>7 DEF Steps, Step
  <2> QED
    BY <1>1, <1>4, <1>7, <1>a, <2>1, FlushInv
<1>8. CASE step.op = "flushAll" /\ FlushAll(r)
  BY <1>1, <1>8, <1>a, FlushAllInv
<1>9. CASE step.op = "place" /\ PlaceDocument(r, n)
  BY <1>4, <1>5, <1>9, <1>a, PlaceDocumentInv
<1>10. CASE /\ step.op = "drain" /\ Continue(r)
            /\ UNCHANGED <<doc, disk, pending, lane, failed, phase, active, given, spent>>
  BY <1>5, <1>10, <1>a, ContinueInv DEF Continue
<1>11. CASE /\ step.op = "drainAll" /\ Drained(Notes) /\ Continue(r)
            /\ UNCHANGED <<doc, disk, pending, lane, failed, phase, active, given, spent>>
  BY <1>1, <1>11, <1>a, DrainAllInv DEF Continue
<1>12. CASE /\ step.op = "activate" /\ active' = n /\ Continue(r)
            /\ UNCHANGED <<doc, disk, pending, lane, failed, phase, given, spent>>
  BY <1>4, <1>5, <1>12, <1>a, ContinueInv DEF Continue
<1>13. CASE /\ step.op = "stop" /\ phase' = "stopped" /\ todo' = [q \in Routines |-> << >>]
            /\ UNCHANGED <<doc, disk, pending, lane, failed, active, given, spent>>
  BY <1>1, <1>13, <1>a, StopInv
<1> QED
  BY <1>6, <1>7, <1>8, <1>9, <1>10, <1>11, <1>12, <1>13

-----------------------------------------------------------------------------
(* The theorem.                                                                  *)

LEMMA InitHolds == Init => Inductive
<1> SUFFICES ASSUME Init PROVE Inductive
  OBVIOUS
<1>1. MaxEdits \in Nat /\ MaxStructural \in Nat
  BY DocumentSavesAssumption DEF DocumentSavesAssumption
<1>2. [text |-> 0, place |-> 0] \in Documents /\ NoSave \in Entry /\ << >> \in Seq(Writes)
      /\ << >> \in Seq(Steps) /\ Len(<< >>) = 0
  BY <1>1 DEF Documents, NoSave, Entry
<1>3. /\ \A n \in Notes : doc[n] = [text |-> 0, place |-> 0] /\ disk[n] = doc[n]
                          /\ pending[n] = NoSave /\ lane[n] = << >>
      /\ doc \in [Notes -> Documents] /\ disk \in [Notes -> Documents]
      /\ lane \in [Notes -> Seq(Writes)] /\ pending \in [Notes -> Entry]
      /\ todo \in [Routines -> Seq(Steps)] /\ \A r \in Routines : todo[r] = << >>
      /\ failed = {} /\ given = {} /\ phase = "open" /\ active \in Notes
      /\ spent = [edits |-> 0, structural |-> 0, failures |-> 0]
  BY <1>2 DEF Init
<1>4. Values /\ Queue /\ Plans
  BY <1>3 DEF Values, Queue, Plans
<1>5. Counts
  BY <1>1, <1>3 DEF Counts
<1>6. \A n \in Notes : Len(lane[n]) = 0 /\ 1..Len(lane[n]) = {}
  BY <1>2, <1>3
<1>7. Places
  BY <1>6 DEF Places
<1>8. ASSUME NEW n \in Notes PROVE NoteInv(n)
  <2>1. pending[n] = NoSave /\ lane[n] = << >> /\ disk[n] = doc[n] /\ 1..Len(lane[n]) = {}
    BY <1>3, <1>6
  <2>2. EntryOK(n)
    BY <2>1 DEF EntryOK, NoSave
  <2>3. Ordered(lane[n], doc[n])
    BY <2>1 DEF Ordered
  <2>4. ~pending[n].running
    BY <2>1 DEF NoSave
  <2>5. OneSave(lane[n], pending[n].running)
    BY <2>1, <2>4 DEF OneSave
  <2>6. NoteSettled(n)
    BY <2>1 DEF NoteSettled, Settled
  <2> QED
    BY <2>2, <2>3, <2>5, <2>6 DEF NoteInv
<1>9. ClosePlan
  BY <1>3 DEF ClosePlan, Routines
<1>10. OthersPlain
  <2>1. \A r \in Routines : 1..Len(todo[r]) = {}
    BY <1>2, <1>3
  <2> QED
    BY <2>1 DEF OthersPlain
<1>11. GivenUp /\ WorkPlanned /\ ClosedIsWritten
  BY <1>3 DEF GivenUp, WorkPlanned, ClosedIsWritten, Closed
<1> QED
  BY <1>4, <1>5, <1>7, <1>8, <1>9, <1>10, <1>11 DEF Inductive, DataOK, Waiting

LEMMA UserStepInv ==
    ASSUME Inductive, UserStep
    PROVE  Inductive'
<1>1. CASE \E n \in Notes : Patch(n) \/ UpdateTitle(n) \/ SelectDocument(n)
  BY <1>1, PatchInv, UpdateTitleInv, SelectDocumentInv
<1>2. CASE \E r \in Structural, b \in SetToSeqs(Notes) \cup {<<n>> : n \in Notes} :
             MoveDocuments(r, b)
  <2>1. PICK r \in Structural, b \in SetToSeqs(Notes) \cup {<<n>> : n \in Notes} :
               MoveDocuments(r, b)
    BY <1>2
  <2>2. IsFiniteSet(Notes)
    BY DocumentSavesAssumption DEF DocumentSavesAssumption
  <2>3. b \in Seq(Notes)
    <3>1. CASE b \in SetToSeqs(Notes)
      BY <2>2, <3>1, EveryIdTaken
    <3>2. CASE b \in {<<n>> : n \in Notes}
      <4>1. PICK m \in Notes : b = <<m>>
        BY <3>2
      <4> QED
        BY <4>1
    <3> QED
      BY <2>1, <3>1, <3>2
  <2> QED
    BY <2>1, <2>3, MoveDocumentsInv
<1>3. CASE PageHidden
  BY <1>3, PageHiddenInv
<1>4. CASE \E discard \in BOOLEAN : Close(discard)
  BY <1>4, CloseInv
<1> QED
  BY <1>1, <1>2, <1>3, <1>4 DEF UserStep

LEMMA StutterInv ==
    ASSUME Inductive, UNCHANGED vars
    PROVE  Inductive'
<1>1. UNCHANGED <<doc, disk, pending, lane, failed, todo, phase, active, given, spent>>
  BY DEF vars
<1>2. DataOK'
  BY <1>1, DataKept DEF Inductive, DataOK, Values
<1>3. Places'
  BY <1>1, Inertia
<1>4. GivenUp'
  BY <1>1 DEF Inductive, Waiting, GivenUp
<1>5. Waiting'
  BY <1>1, <1>4, WaitingKept DEF Inductive
<1>6. Closed' => Closed
  BY <1>1 DEF Closed
<1>7. ClosedIsWritten'
  BY <1>1, <1>6, ClosedKept DEF Inductive
<1> QED
  BY <1>2, <1>3, <1>5, <1>7 DEF Inductive

LEMMA StepKeepsInvariant == Inductive /\ [Next]_vars => Inductive'
<1> SUFFICES ASSUME Inductive, [Next]_vars PROVE Inductive'
  OBVIOUS
<1>1. CASE UserStep
  BY <1>1, UserStepInv
<1>2. CASE \E n \in Notes :
             TimerFires(n) \/ WriteSucceeds(n) \/ WriteFails(n) \/ WriteAfterStop(n)
  BY <1>2, TimerFiresInv, WriteSucceedsInv, WriteFailsInv, WriteAfterStopInv
<1>3. CASE \E r \in Routines : RoutineStep(r)
  BY <1>3, RoutineStepInv
<1>4. CASE UNCHANGED vars
  BY <1>4, StutterInv
<1> QED
  BY <1>1, <1>2, <1>3, <1>4 DEF Next

(* One attempt per entry. *)
LEMMA InductiveTypes ==
    ASSUME Inductive
    PROVE  SavesTypeOK
<1>1. /\ doc \in [Notes -> Documents] /\ disk \in [Notes -> Documents]
      /\ pending \in [Notes -> [queued : BOOLEAN, armed : BOOLEAN, running : BOOLEAN]]
      /\ failed \subseteq Notes /\ active \in Notes /\ phase \in {"open", "closing", "stopped"}
  BY DEF Inductive, DataOK, Values, Queue, Entry, Waiting, Plans
<1>2. /\ \A n \in Notes : lane[n] \in Seq(Writes)
      /\ \A r \in Routines : todo[r] \in Seq(Steps)
  BY DEF Inductive, DataOK, Values, Waiting, Plans
<1>3. /\ \A n \in Notes : \A i \in DOMAIN lane[n] : lane[n][i] \in Writes
      /\ \A r \in Routines : \A i \in DOMAIN todo[r] : todo[r][i] \in Steps
  BY <1>2
<1>4. ASSUME NEW n \in Notes \ given
      PROVE  LET saves == {i \in DOMAIN lane[n] : lane[n][i].by = "save"}
             IN  /\ pending[n].running <=> saves # {}
                 /\ \A i, j \in saves : i = j
  <2>1. OneSave(lane[n], pending[n].running) /\ DOMAIN lane[n] = 1..Len(lane[n])
    BY <1>2 DEF Inductive, DataOK, NoteInv
  <2>2. PICK saves : saves = {i \in DOMAIN lane[n] : lane[n][i].by = "save"}
    OBVIOUS
  <2>3. \A i \in saves : i \in 1..Len(lane[n]) /\ lane[n][i].by = "save"
    BY <2>1, <2>2
  <2>4. \A i, j \in saves : i = j
    BY <2>1, <2>3 DEF OneSave
  <2>5. (\E i \in 1..Len(lane[n]) : lane[n][i].by = "save") <=> saves # {}
    BY <2>1, <2>2
  <2>6. pending[n].running <=> saves # {}
    BY <2>1, <2>5 DEF OneSave
  <2> QED
    BY <2>2, <2>4, <2>6
<1> QED
  BY <1>1, <1>3, <1>4 DEF SavesTypeOK

LEMMA InductiveSafe ==
    ASSUME Inductive
    PROVE  NoStrandedEdit /\ ClosedMeansDurable
<1>1. ClosedMeansDurable
  BY DEF Inductive, ClosedIsWritten, Closed, Has, ClosedMeansDurable
<1>2. ASSUME NEW n \in Notes
      PROVE  \/ Covered(n)
             \/ n \in failed \cup given
             \/ pending[n].queued /\ (pending[n].armed \/ pending[n].running)
  <2>1. CASE pending[n].queued
    BY <2>1 DEF Inductive, DataOK, NoteInv, EntryOK
  <2>2. CASE ~pending[n].queued /\ phase # "stopped" /\ n \notin given
    <3>1. Settled(lane[n], disk[n], doc[n], n \in failed)
      BY <2>2 DEF Inductive, DataOK, NoteInv, NoteSettled
    <3>2. CASE lane[n] = << >>
      BY <3>1, <3>2 DEF Settled, Covered
    <3>3. CASE lane[n] # << >>
      <4>1. lane[n] \in Seq(Writes)
        BY DEF Inductive, DataOK, Values
      <4>2. Len(lane[n]) \in DOMAIN lane[n]
        <5>1. Len(lane[n]) \in Nat /\ Len(lane[n]) > 0 /\ DOMAIN lane[n] = 1..Len(lane[n])
          BY <3>3, <4>1, Shortened
        <5> QED
          BY <5>1
      <4>3. lane[n][Len(lane[n])].value.text = doc[n].text
        BY <3>1, <3>3 DEF Settled
      <4> QED
        BY <4>2, <4>3 DEF Covered
    <3> QED
      BY <3>2, <3>3
  <2>3. CASE phase = "stopped"
    <3>1. n \in given \/ n \in failed \/ Has(doc[n], disk[n])
      BY <2>3 DEF Inductive, ClosedIsWritten, Closed
    <3> QED
      BY <3>1 DEF Has, Covered
  <2> QED
    BY <2>1, <2>2, <2>3
<1> QED
  BY <1>1, <1>2 DEF NoStrandedEdit

(* No edit is stranded between memory, queue, lane and database, and a closed    *)
(* workspace has written all it did not report: for any number of documents,     *)
(* edits, structural changes and failing writes.                                 *)
THEOREM SavesAreSafe == Spec => []SavesSafe
<1>1. Inductive => SavesSafe
  BY InductiveTypes, InductiveSafe DEF SavesSafe
<1> QED
  BY InitHolds, StepKeepsInvariant, <1>1, PTL DEF Spec

-----------------------------------------------------------------------------
(* WaitingEditsKept, as far as it holds.                                         *)

(* Every write but a structural one leaves memory alone when it completes: a save *)
(* and a title publish only what is there already (commitState).                 *)
Undoes(n) == lane[n] # << >> /\ Head(lane[n]).by = "structure"

LEMMA WritesLeaveMemory ==
    ASSUME Inductive, NEW n \in Notes, WriteSucceeds(n)
    PROVE  \A m \in Notes : doc'[m] = doc[m] \/ (m = n /\ Undoes(n))
<1>1. lane[n] # << >> /\ lane[n] \in Seq(Writes) /\ doc \in [Notes -> Documents]
  BY DEF Inductive, DataOK, Values, WriteSucceeds
<1>2. PICK write : write = Head(lane[n])
  OBVIOUS
<1>3. write.by \in {"save", "title", "structure"}
  <2>1. write \in Writes
    BY <1>1, <1>2, Shortened
  <2> QED
    BY <2>1 DEF Writes, Writers
<1>4. \/ doc' = doc
      \/ CommitsState(n, write) /\ doc' = [doc EXCEPT ![n] = write.value]
  BY <1>2 DEF WriteSucceeds
<1> QED
  BY <1>1, <1>2, <1>3, <1>4 DEF CommitsState, Undoes

LEMMA TypingGrows ==
    ASSUME Inductive, NEW n \in Notes, Patch(n) \/ UpdateTitle(n)
    PROVE  \A m \in Notes : doc'[m].text >= doc[m].text
<1>1. /\ doc \in [Notes -> Documents] /\ Counts
  BY DEF Inductive, DataOK, Values
<1>2. doc' = [doc EXCEPT ![n].text = spent.edits + 1]
  BY DEF Patch, UpdateTitle
<1>3. \A m \in Notes : doc[m].text \in Nat /\ doc[m].text <= spent.edits /\ spent.edits \in Nat
  BY <1>1, DocumentSavesAssumption DEF Documents, Counts, DocumentSavesAssumption
<1>4. doc'[n].text = spent.edits + 1 /\ \A m \in Notes \ {n} : doc'[m] = doc[m]
  BY <1>1, <1>2 DEF Documents
<1> QED
  BY <1>3, <1>4

LEMMA TextStays ==
    ASSUME Inductive, [Next]_vars, NEW n \in Notes
    PROVE  doc'[n].text >= doc[n].text \/ (WriteSucceeds(n) /\ Undoes(n))
<1>0. doc[n].text \in Nat
  BY DocumentSavesAssumption
     DEF Inductive, DataOK, Values, Documents, DocumentSavesAssumption
<1>1. CASE doc'[n] = doc[n]
  BY <1>0, <1>1
<1>2. ASSUME NEW m \in Notes, Patch(m) \/ UpdateTitle(m) PROVE doc'[n].text >= doc[n].text
  BY <1>2, TypingGrows
<1>3. ASSUME NEW m \in Notes, SelectDocument(m) PROVE doc' = doc
  BY <1>3 DEF SelectDocument
<1>4. ASSUME NEW r \in Structural, NEW b, MoveDocuments(r, b) PROVE doc' = doc
  BY <1>4 DEF MoveDocuments
<1>5. CASE PageHidden \/ \E discard \in BOOLEAN : Close(discard)
  BY <1>1, <1>5 DEF PageHidden, Close
<1>6. ASSUME NEW m \in Notes, WriteSucceeds(m)
      PROVE  doc'[n] = doc[n] \/ (WriteSucceeds(n) /\ Undoes(n))
  BY <1>6, WritesLeaveMemory
<1>7. ASSUME NEW m \in Notes, TimerFires(m) \/ WriteFails(m) \/ WriteAfterStop(m) PROVE doc' = doc
  BY <1>7 DEF TimerFires, WriteFails, WriteAfterStop
<1>8. ASSUME NEW r \in Routines, RoutineStep(r) PROVE doc' = doc
  BY <1>8 DEF RoutineStep, Flush, FlushAll, PlaceDocument
<1>9. CASE UNCHANGED vars
  BY <1>1, <1>9 DEF vars
<1>10. CASE UserStep
  BY <1>1, <1>2, <1>3, <1>4, <1>5, <1>10 DEF UserStep
<1> QED
  BY <1>1, <1>6, <1>7, <1>8, <1>9, <1>10 DEF Next

(* "does not let an older durable completion replace edits still waiting in      *)
(* memory" (useObjectPersistence.test.tsx): a completion takes a document in     *)
(* memory back to an older text only if it is that of a structural write, one    *)
(* that passes no commitState (pinDocuments, moveDocument, moveDocuments,        *)
(* toggleNoteLock in useVaultDocuments.ts).                                      *)
THEOREM OnlyStructuralWritesUndo ==
    Spec => [][\A n \in Notes : doc'[n].text >= doc[n].text
                                \/ (WriteSucceeds(n) /\ Undoes(n))]_vars
<1>1. Inductive /\ [Next]_vars =>
        [\A n \in Notes : doc'[n].text >= doc[n].text \/ (WriteSucceeds(n) /\ Undoes(n))]_vars
  BY TextStays
<1> QED
  BY InitHolds, StepKeepsInvariant, <1>1, PTL DEF Spec
=============================================================================
