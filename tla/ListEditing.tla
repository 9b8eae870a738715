------------------------------ MODULE ListEditing ------------------------------
(* Lists and tasks in the editor (typora-web/src/features/list.ts, task.ts,   *)
(* with patches/safe-images): Enter, Tab, Backspace, the rules for "- " and   *)
(* "[ ] ", the checkbox, and what a save makes of a task.                     *)
(*                                                                            *)
(* The document is its lines in order.  A line of level 0 is a paragraph; of  *)
(* level k > 0 it is the first paragraph of a list item k deep (bullet), or   *)
(* a later paragraph of the last such item.  A head is the first item of its  *)
(* list: two lists may be next to each other.  A text is a set of tokens.     *)
(* Lists of one kind; other blocks in items are left out, and so is an editor *)
(* that is read-only, where nothing below can happen.                         *)
EXTENDS Naturals, FiniteSets, FiniteSetsExt, Sequences, SequencesExt

CONSTANTS Tokens,           \* what the user may type
          Open, Done,       \* "[ ] " and "[x] " in Markdown
          MaxLines, MaxLevel

ListAssumption ==
  /\ Tokens \subseteq Nat /\ Open # Done /\ {Open, Done} \cap Tokens = {}
  /\ MaxLines \in Nat \ {0} /\ MaxLevel \in Nat \ {0}

VARIABLES lines, cursor

vars == <<lines, cursor>>

Marks == {"none", "open", "done"}
Line(level, bullet, head, task, text) ==
  [level |-> level, bullet |-> bullet, head |-> head, task |-> task, text |-> text]
Paragraph == Line(0, FALSE, FALSE, "none", {})

Init ==
  /\ lines = <<Paragraph>> /\ cursor = [line |-> 1, at |-> "start"]

(* Where the item of line i ends, and which item holds a line.             *)
End(s, i) ==
  LET after == {j \in (i + 1)..Len(s) :
                  s[j].level < s[i].level \/ (s[j].level = s[i].level /\ s[j].bullet)}
  IN IF after = {} THEN Len(s) ELSE Min(after) - 1
Item(s, i) == Max({j \in 1..i : s[j].bullet /\ s[j].level = s[i].level})
Outer(s, i) == Max({j \in 1..i : s[j].bullet /\ s[j].level = s[i].level - 1})
Previous(s, i) == Max({j \in 1..(i - 1) : s[j].bullet /\ s[j].level = s[i].level})
Sibling(s, i) ==
  End(s, i) < Len(s) /\ s[End(s, i) + 1].level = s[i].level
    /\ s[End(s, i) + 1].bullet /\ ~ s[End(s, i) + 1].head

Empty(line) == line.text = {} /\ line.task = "none"
Sole(s, i) == End(s, i) = i

(* An item that goes, or leaves, makes the next one the first of its list. *)
HeadAfter(s, i) == IF Sibling(s, i) THEN [s EXCEPT ![End(s, i) + 1].head = TRUE] ELSE s
Without(s, i) == RemoveAt(IF s[i].head THEN HeadAfter(s, i) ELSE s, i)

(* propagateMarkerPlugin, until nothing changes: an empty item that follows *)
(* a task becomes one.                                                     *)
Propagated(s) ==
  LET task[i \in DOMAIN s] ==
        \/ s[i].task # "none"
        \/ /\ s[i].bullet /\ ~ s[i].head /\ Sole(s, i) /\ s[i].text = {}
           /\ task[Previous(s, i)]
  IN [i \in DOMAIN s |-> IF s[i].bullet /\ s[i].task = "none" /\ task[i]
                           THEN [s[i] EXCEPT !.task = "open"] ELSE s[i]]

(* In an empty text the cursor is at the start.                            *)
Result(s, i, at) ==
  [lines |-> s, cursor |-> [line |-> i, at |-> IF s[i].text = {} THEN "start" ELSE at]]
Followed(r) == [r EXCEPT !.lines = Propagated(@)]

-----------------------------------------------------------------------------
(* Enter.  splitListItem (a library's), with doSplitPropagate's marker.    *)
Split(s, c, task) ==
  LET moved == IF c.at = "start" THEN s[c.line].text ELSE {}
  IN Result(InsertAt([s EXCEPT ![c.line].text = @ \ moved], c.line + 1,
                     Line(s[c.line].level, TRUE, FALSE, task, moved)),
            c.line + 1, "start")

(* liftNestedEmptyItemToBulletless: the item goes, and the outer one gets a *)
(* paragraph at its end.                                                   *)
LiftToBulletless(s, i) ==
  LET end == End(s, Outer(s, i))
  IN Result(InsertAt(Without(s, i), end, Line(s[i].level - 1, FALSE, FALSE, "none", {})),
            end, "start")

(* liftBulletlessParagraphToListItem: and that becomes the next item.      *)
LiftToItem(s, i) ==
  LET end == End(s, Item(s, i))
  IN Result(InsertAt(RemoveAt(s, i), end, Line(s[i].level, TRUE, FALSE, "none", {})), end, "start")

(* propagateEmptyLoneTopLevelListItem. *)
AddSibling(s, i) ==
  LET end == End(s, i)
  IN Result(InsertAt(s, end + 1, Line(1, TRUE, FALSE, "none", {})), end + 1, "start")

(* liftListItem at the top (a library's): the item leaves, with all in it. *)
LeaveList(s, i) ==
  LET rest == HeadAfter(s, i)
  IN Result([j \in DOMAIN s |->
               IF j = i THEN Paragraph
               ELSE IF j \in i..End(s, i) THEN [rest[j] EXCEPT !.level = @ - 1] ELSE rest[j]],
            i, "start")

(* The chain of list.ts. *)
ListEnter(s, c) ==
  LET i == c.line IN
  CASE Empty(s[i]) /\ s[i].bullet /\ s[i].level > 1 /\ Sole(s, i) -> LiftToBulletless(s, i)
    [] Empty(s[i]) /\ ~ s[i].bullet -> LiftToItem(s, i)
    [] Empty(s[i]) /\ s[i].bullet /\ s[i].level = 1 /\ s[i].head -> AddSibling(s, i)
    [] Empty(s[i]) /\ s[i].bullet /\ s[i].level = 1 /\ ~ s[i].head /\ Sole(s, i) -> LeaveList(s, i)
    [] OTHER -> Split(s, c, "none")

(* taskEnter, first: leaving a task takes its marker, in two transactions  *)
(* after which markers are not propagated.                                 *)
Unmarked(s, i) == [s EXCEPT ![i].task = "none"]

TaskEnter(s, c) ==
  LET i == c.line IN
  CASE s[i].text # {} \/ (s[i].level = 1 /\ s[i].head) -> Followed(Split(s, c, s[i].task))
    [] s[i].text = {} /\ s[i].level = 1 /\ ~ s[i].head -> LeaveList(Unmarked(s, i), i)
    [] s[i].text = {} /\ s[i].level > 1 /\ Sole(s, i) -> LiftToBulletless(Unmarked(s, i), i)
    [] OTHER -> Result(Unmarked(s, i), i, "start")

Entered(s, c) ==
  IF s[c.line].bullet /\ s[c.line].task # "none" THEN TaskEnter(s, c)
  ELSE Followed(ListEnter(s, c))

Becomes(r) == lines' = r.lines /\ cursor' = r.cursor
Current == lines[cursor.line]

Enter ==
  /\ Current.level > 0 /\ Len(lines) < MaxLines
  /\ Becomes(Entered(lines, cursor))

(* Tab: sinkListItem (a library's).  The item joins the list that ends the *)
(* item before it, or begins one.                                          *)
Sunk(s, i) ==
  [j \in DOMAIN s |->
     IF j \notin i..End(s, i) THEN s[j]
     ELSE [s[j] EXCEPT !.level = @ + 1,
                       !.head = IF j = i THEN s[i - 1].level = s[i].level ELSE @]]

Tab ==
  LET i == Item(lines, cursor.line)
  IN /\ Current.level > 0 /\ ~ lines[i].head
     /\ \A j \in i..End(lines, i) : lines[j].level < MaxLevel
     /\ Becomes(Followed([lines |-> Sunk(lines, i), cursor |-> cursor]))

(* Backspace in an empty paragraph after a list: back to the list's end.   *)
Backspace ==
  LET i == cursor.line
  IN /\ Current = Paragraph /\ i > 1 /\ lines[i - 1].level > 0
     /\ Becomes(Followed(Result(RemoveAt(lines, i), i - 1, "end")))

(* Backspace after a marker, by the editor: the marker goes.               *)
Unmark ==
  /\ Current.task # "none" /\ cursor.at = "start"
  /\ Becomes(Followed(Result(Unmarked(lines, cursor.line), cursor.line, "start")))

-----------------------------------------------------------------------------
(* Input.  "- " makes a list of a paragraph, or joins the list before it.  *)
Dash ==
  LET i == cursor.line
      head == i = 1 \/ lines[i - 1].level <= lines[i].level
  IN /\ ~ Current.bullet /\ Current.task = "none" /\ cursor.at = "start"
     /\ Current.level < MaxLevel
     /\ Becomes(Followed(Result(
          [lines EXCEPT ![i].level = @ + 1, ![i].bullet = TRUE, ![i].head = head], i, "start")))

(* taskInputRule: in any paragraph of an item. *)
Bracket(task) ==
  /\ Current.level > 0 /\ Current.task = "none" /\ cursor.at = "start"
  /\ Becomes(Followed(Result([lines EXCEPT ![cursor.line].task = task], cursor.line, "start")))

Type(t) ==
  /\ \A i \in DOMAIN lines : t \notin lines[i].text
  /\ Current.text = {}
  /\ Becomes(Followed(Result([lines EXCEPT ![cursor.line].text = {t}], cursor.line, "end")))

(* Another paragraph at the end, by the editor. *)
Append0 ==
  /\ Len(lines) < MaxLines /\ cursor = [line |-> Len(lines), at |-> "end"]
  /\ Current.level = 0 /\ ~ Empty(Current)
  /\ Becomes(Followed(Result(Append(lines, Paragraph), Len(lines) + 1, "start")))

(* A click, or the arrow keys; before a marker the cursor is moved after it. *)
Move(i, at) ==
  /\ cursor' = Result(lines, i, at).cursor /\ cursor' # cursor
  /\ UNCHANGED lines

(* The checkbox: what it shows now is turned, where it is now.             *)
Toggle(i) ==
  /\ lines[i].task # "none"
  /\ lines' = Propagated([lines EXCEPT ![i].task = IF @ = "open" THEN "done" ELSE "open"])
  /\ UNCHANGED cursor

-----------------------------------------------------------------------------
(* A save writes a marker as a prefix, and escapes such a text; lists next *)
(* to each other become one when it is read.  Empty lines are written by   *)
(* rules left out here.                                                    *)
Written(s) ==
  [i \in DOMAIN s |->
     [level |-> s[i].level, bullet |-> s[i].bullet, text |-> s[i].text,
      prefix |-> CASE s[i].task = "open" -> {Open} [] s[i].task = "done" -> {Done} [] OTHER -> {}]]

First(s, i) ==
  LET before == {j \in 1..(i - 1) : s[j].level <= s[i].level}
  IN s[i].bullet /\ (before = {} \/ s[Max(before)].level < s[i].level)

(* transformListItem: a text at the head of an item, however deep, is its  *)
(* marker; elsewhere it stays text.                                        *)
Folded(line) ==
  CASE line.bullet /\ line.prefix = {Open} -> "open"
    [] line.bullet /\ line.prefix = {Done} -> "done"
    [] OTHER -> "none"

Read(s) ==
  [i \in DOMAIN s |->
     Line(s[i].level, s[i].bullet, First(s, i), Folded(s[i]),
          s[i].text \cup IF s[i].bullet THEN {} ELSE s[i].prefix)]

Savable == \A i \in DOMAIN lines : lines[i].bullet \/ lines[i].text # {}

Reopen ==
  /\ Savable /\ lines' = Read(Written(lines))
  /\ cursor' = [line |-> 1, at |-> "start"]

Next ==
  \/ Enter \/ Tab \/ Backspace \/ Unmark \/ Dash \/ Append0 \/ Reopen
  \/ \E task \in {"open", "done"} : Bracket(task)
  \/ \E t \in Tokens : Type(t)
  \/ \E i \in DOMAIN lines : Toggle(i) \/ \E at \in {"start", "end"} : Move(i, at)

-----------------------------------------------------------------------------
TypeOK ==
  /\ \A i \in DOMAIN lines :
       /\ lines[i].level \in Nat /\ lines[i].task \in Marks
       /\ lines[i].text \subseteq Tokens \cup {Open, Done}
  /\ cursor.line \in DOMAIN lines

(* What the commands build is a document: an item is in a list that is in  *)
(* an item, a paragraph has its item, a list has one first item.           *)
IsDocument(s) ==
  \A i \in DOMAIN s :
    LET before == {j \in 1..(i - 1) : s[j].level <= s[i].level}
        near == IF before = {} THEN 0 ELSE s[Max(before)].level
    IN /\ s[i].level = 0 => ~ s[i].bullet
       /\ s[i].level > 0 /\ i = 1 => s[i].level = 1
       /\ i > 1 => s[i].level <= s[i - 1].level + (IF s[i].bullet THEN 1 ELSE 0)
       /\ ~ s[i].bullet /\ s[i].level > 0 => near = s[i].level
       /\ s[i].bullet /\ near < s[i].level => s[i].head
       /\ s[i].head => s[i].bullet

(* Enter and Tab move no text and lose none, in any place.                 *)
TextsOf(s) == SelectSeq([i \in DOMAIN s |-> s[i].text], LAMBDA text : text # {})

TextsStay ==
  \A i \in DOMAIN lines : \A at \in {"start", "end"} :
    lines[i].level > 0 =>
      LET entered == Entered(lines, [line |-> i, at |-> at]).lines
          item == Item(lines, i)
      IN /\ TextsOf(entered) = TextsOf(lines) /\ IsDocument(entered)
         /\ ~ lines[item].head => IsDocument(Sunk(lines, item))

(* Enter, pressed again and again in an item with nothing in it, leaves the *)
(* list, one level at most every two times.                                *)
EnterLeaves ==
  \A i \in DOMAIN lines :
    lines[i].level > 0 /\ lines[i].text = {} /\ (lines[i].bullet => Sole(lines, i))
      /\ (lines[i].bullet \/ lines[i].task = "none") =>
    LET after[n \in 0..(2 * lines[i].level)] ==
          IF n = 0 THEN Result(lines, i, "start")
          ELSE LET r == after[n - 1]
               IN IF r.lines[r.cursor.line].level = 0 THEN r ELSE Entered(r.lines, r.cursor)
        end == after[2 * lines[i].level]
    IN end.lines[end.cursor.line].level = 0

(* A save keeps the tasks, at every depth.                                 *)
TasksAreKept ==
  (\A i \in DOMAIN lines : lines[i].bullet \/ lines[i].task = "none") =>
    LET saved == Read(Written(lines))
    IN \A i \in DOMAIN lines : [saved[i] EXCEPT !.head = lines[i].head] = lines[i]

ListSafe == TypeOK /\ IsDocument(lines) /\ TextsStay /\ EnterLeaves /\ TasksAreKept
=============================================================================
