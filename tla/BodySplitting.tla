---------------------------- MODULE BodySplitting ----------------------------
(***************************************************************************)
(* splitNoteBody of packages/application-client/src/noteBodies.ts: a body  *)
(* is cut where a hash of the last bytes has a given remainder, so that    *)
(* after an edit the blocks behind it are found again.  Two bodies that    *)
(* end alike are split side by side: the module reads what is before the   *)
(* common end first, then the common end byte by byte.                     *)
(***************************************************************************)
EXTENDS SequencesExt, Integers

CONSTANTS Bytes, Window, Least, Most, Remainders, Base, Width,
          Heads,      \* what is before the common end: at most this long
          Tails       \* the common end: this long

SplittingAssumption ==
  /\ {Window, Least, Most, Remainders, Base, Width, Heads, Tails} \subseteq Nat \ {0}
  /\ Window <= Least /\ Least <= Most

VARIABLES left, right,  \* [text, start, rolling, cuts]: the two splitters
          tail          \* what both still read

vars == <<left, right, tail>>

Power(n) == FoldLeft(LAMBDA p, i : (p * Base) % Width, 1, [i \in 1..n |-> i])

(* The hash of the last Window bytes: the oldest leaves, the next enters.  *)
Roll(s, byte) ==
  LET n == Len(s.text)
      rest == IF n >= Window THEN s.rolling - s.text[n - Window + 1] * Power(Window - 1)
              ELSE s.rolling
  IN ((rest % Width) * Base + byte) % Width

(* A block ends when it is long, or long enough and the hash says so. *)
Cut(length, rolling) ==
  length >= Most \/ (length >= Least /\ rolling % Remainders = 1)

(* One pass of the loop. *)
Feed(s, byte) ==
  LET rolling == Roll(s, byte)
      pos     == Len(s.text) + 1
      ends    == Cut(pos - s.start, rolling)
  IN [text |-> Append(s.text, byte), rolling |-> rolling,
      start |-> IF ends THEN pos ELSE s.start,
      cuts  |-> IF ends THEN s.cuts \cup {pos} ELSE s.cuts]

Split(text) == FoldLeft(Feed, [text |-> <<>>, start |-> 0, rolling |-> 0, cuts |-> {}], text)

Init ==
  /\ left \in {Split(h) : h \in UNION {[1..n -> Bytes] : n \in 0..Heads}}
  /\ right \in {Split(h) : h \in UNION {[1..n -> Bytes] : n \in 0..Heads}}
  /\ tail = Tails

Next ==
  /\ tail > 0 /\ tail' = tail - 1
  /\ \E byte \in Bytes : left' = Feed(left, byte) /\ right' = Feed(right, byte)

Spec == Init /\ [][Next]_vars

(***************************************************************************)
(* Properties                                                              *)
(***************************************************************************)

(* The hash is that of the last Window bytes alone, whatever came before   *)
(* them and whatever was cut (noteBodies.ts:16): differences overflow and  *)
(* come back.                                                              *)
HashOfWindow ==
  \A s \in {left, right} :
    LET seen == SubSeq(s.text, IF Len(s.text) > Window THEN Len(s.text) - Window + 1 ELSE 1,
                       Len(s.text))
    IN s.rolling = FoldLeft(LAMBDA h, byte : (h * Base + byte) % Width, 0, seen)

(* No block is empty or longer than the server takes, and only the last    *)
(* one is shorter than the least length: the cuts leave out no byte        *)
(* (server/sync/noteBodies.ts limits a block).                             *)
BlockSizes ==
  \A s \in {left, right} :
    LET Ends == s.cuts \cup {0}
    IN /\ s.start = CHOOSE m \in Ends : \A e \in Ends : e <= m
       /\ Len(s.text) - s.start < Most
       /\ \A e \in s.cuts : \E b \in Ends :
            /\ e - b \in Least..Most
            /\ ~ \E c \in s.cuts : b < c /\ c < e

(* Both splitters began their block at the same byte of the common end.    *)
SameBlock ==
  /\ Len(left.text) - left.start = Len(right.text) - right.start
  /\ Len(left.text) - left.start <= Tails - tail

(* Once two bodies that end alike have been cut at the same byte of their  *)
(* common end, they are cut alike from there on: an edit changes the       *)
(* blocks around it, and every later block is found again by its digest.   *)
Rejoin == [][SameBlock => SameBlock']_vars

(* The splitter hashes only its window and cuts no block outside its limits. *)
BlocksSafe == HashOfWindow /\ BlockSizes
=============================================================================
