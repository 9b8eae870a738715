----------------------------- MODULE TableEditing ------------------------------
(* Tables in the editor (typora-web/src/features/table.ts): the commands of   *)
(* the keyboard and of the floating toolbar, its resize popup, and what a     *)
(* save makes of a table.  The popup keeps the table it was opened for, by    *)
(* position and content; everything else reads the table at the cursor.       *)
(* A text is a set of tokens; a token takes one position, as does a break of  *)
(* a line, which a save leaves out.  Positions are ProseMirror's.             *)
EXTENDS Naturals, FiniteSets, Sequences, SequencesExt

CONSTANTS Lines,    \* lines the user types: [cells |-> texts, bars |-> piped on both sides]
          Foreign,  \* tables that come with the document or are pasted
          Tokens,   \* what is typed into cells
          Breaks,   \* of these, line breaks
          Bar,      \* of these, a "|"
          Escaped,  \* how a save writes that
          Squares,  \* side of the popup's grid of squares
          Limit,    \* largest number its inputs accept
          Numbers,  \* typed there
          Aligned,  \* the buttons of the toolbar used
          MaxTyped, \* bound of the tokens typed
          MaxRows,  \* bound of the rows added
          None

TableAssumption ==
  /\ Breaks \subseteq Tokens /\ Bar \in Tokens \ Breaks /\ Escaped \notin Tokens
  /\ Squares \in Nat \ {0} /\ Limit \in Nat \ {0} /\ Numbers \subseteq Nat
  /\ Aligned \subseteq {"left", "center", "right"} /\ {MaxTyped, MaxRows} \subseteq Nat

VARIABLES doc,      \* blocks: a line or a table
          cursor,   \* [block, row, col]; row 0 in a line
          focused, popup,      \* the popup: closed (None), or the table it was opened for
          typed, removed,      \* history: (table cell) tokens typed, taken out on purpose
          outdated, torn       \* history: the popup replaced something else than it showed

vars == <<doc, cursor, focused, popup, typed, removed, outdated, torn>>

Aligns == {"left", "center", "right", None}
Cell(header, align, text) == [header |-> header, align |-> align, text |-> text]
Line(cells, bars) == [kind |-> "line", cells |-> cells, bars |-> bars, grid |-> <<>>]
Table(grid) == [kind |-> "table", cells |-> <<>>, bars |-> FALSE, grid |-> grid]
Empty == Line(<<>>, FALSE)

Positions(grid) == {p \in (1..Len(grid)) \X (1..6) : p[2] <= Len(grid[p[1]])}
TextOf(grid) == UNION {grid[p[1]][p[2]].text : p \in Positions(grid)}
Texts == UNION {TextOf(doc[b].grid) \cup UNION Range(doc[b].cells) : b \in DOMAIN doc}

(* nodeSize, and where a block starts. *)
Total(numbers) == FoldSeq(+, 0, numbers)
RowSize(row) == 2 + Total([c \in DOMAIN row |-> 2 + Cardinality(row[c].text)])
Size(block) ==
  IF block.kind = "table" THEN 2 + Total([r \in DOMAIN block.grid |-> RowSize(block.grid[r])])
  ELSE 2 + Total([c \in DOMAIN block.cells |-> Cardinality(block.cells[c]) + 1])
Start(b) == Total([i \in 1..(b - 1) |-> Size(doc[i])])

(* findTableAtSelection: the table, row and cell of the cursor.            *)
InTable == cursor.row > 0
Here == doc[cursor.block].grid
At(b, r, c) == [block |-> b, row |-> r, col |-> c]

(* The toolbar is there for a focused editor whose cursor is in a table.   *)
Mounted == focused /\ InTable

Init ==
  /\ doc \in {<<Empty, Empty>>} \cup {<<Table(g), Empty>> : g \in Foreign}
  /\ cursor = At(2, 0, 0) /\ focused = TRUE /\ popup = None
  /\ typed = {} /\ removed = {} /\ outdated = FALSE /\ torn = FALSE

History == <<typed, removed, outdated, torn>>
Puts(grid) == doc' = [doc EXCEPT ![cursor.block] = Table(grid)]

-----------------------------------------------------------------------------
(* Typing and moving, by the editor; a cell takes inline text only.        *)
WriteLine(line) ==
  /\ focused /\ ~ InTable /\ doc[cursor.block] = Empty
  /\ UNION Range(line.cells) \cap typed = {}
  /\ doc' = [doc EXCEPT ![cursor.block] = Line(line.cells, line.bars)]
  /\ typed' = typed \cup UNION Range(line.cells)
  /\ UNCHANGED <<cursor, focused, popup, removed, outdated, torn>>

Type(t) ==
  /\ focused /\ InTable /\ t \notin typed \cup Texts /\ Cardinality(typed) < MaxTyped
  /\ Puts([Here EXCEPT ![cursor.row][cursor.col].text = @ \cup {t}])
  /\ typed' = typed \cup {t}
  /\ UNCHANGED <<cursor, focused, popup, removed, outdated, torn>>

Erase(t) ==
  /\ focused /\ InTable /\ t \in Here[cursor.row][cursor.col].text
  /\ Puts([Here EXCEPT ![cursor.row][cursor.col].text = @ \ {t}])
  /\ removed' = removed \cup {t}
  /\ UNCHANGED <<cursor, focused, popup, typed, outdated, torn>>

Move ==
  /\ \E b \in DOMAIN doc :
       IF doc[b].kind = "line" THEN cursor' = At(b, 0, 0)
       ELSE \E p \in Positions(doc[b].grid) : cursor' = At(b, p[1], p[2])
  /\ focused' = TRUE
  /\ UNCHANGED <<doc, popup, History>>

Blur == focused /\ focused' = FALSE /\ UNCHANGED <<doc, cursor, popup, History>>

(* Enter in a line of two or more cells between bars: their header row, and *)
(* an empty row with the cursor.                                           *)
EnterTable ==
  LET line == doc[cursor.block]
  IN /\ focused /\ line.kind = "line" /\ line.bars /\ Len(line.cells) >= 2
     /\ doc' = [doc EXCEPT ![cursor.block] =
                  Table(<<[c \in DOMAIN line.cells |-> Cell(TRUE, None, line.cells[c])],
                          [c \in DOMAIN line.cells |-> Cell(FALSE, None, {})]>>)]
     /\ cursor' = At(cursor.block, 2, 1)
     /\ UNCHANGED <<focused, popup, History>>

(* Tab and Shift-Tab go row by row and stop at both ends. *)
TabCell ==
  LET row == cursor.row
  IN IF cursor.col < Len(Here[row]) THEN At(cursor.block, row, cursor.col + 1)
     ELSE IF row < Len(Here) THEN At(cursor.block, row + 1, 1) ELSE cursor

ShiftTabCell ==
  LET row == cursor.row
  IN IF cursor.col > 1 THEN At(cursor.block, row, cursor.col - 1)
     ELSE IF row > 1 THEN At(cursor.block, row - 1, Len(Here[row - 1])) ELSE cursor

Navigate ==
  /\ focused /\ InTable /\ cursor' \in {TabCell, ShiftTabCell}
  /\ UNCHANGED <<doc, focused, popup, History>>

(* Mod-Enter: a row below, aligned like the first row; one that is longer  *)
(* than the first makes the command throw.                                 *)
AddRow ==
  LET width == Len(Here[cursor.row])
  IN /\ focused /\ InTable /\ width <= Len(Here[1]) /\ Len(Here) < MaxRows
     /\ Puts(InsertAt(Here, cursor.row + 1,
                      [c \in 1..width |-> Cell(FALSE, Here[1][c].align, {})]))
     /\ cursor' = [cursor EXCEPT !.row = @ + 1]
     /\ UNCHANGED <<focused, popup, History>>

(* Mod-Shift-Backspace: the row goes, but not the last one.                *)
DeleteRow ==
  LET rest == RemoveAt(Here, cursor.row)
      row == IF cursor.row <= Len(rest) THEN cursor.row ELSE Len(rest)
      col == IF cursor.col <= Len(rest[row]) THEN cursor.col ELSE Len(rest[row])
  IN /\ focused /\ InTable /\ Len(Here) > 1
     /\ Puts(rest) /\ cursor' = At(cursor.block, row, col)
     /\ removed' = removed \cup TextOf(<<Here[cursor.row]>>)
     /\ UNCHANGED <<focused, popup, typed, outdated, torn>>

-----------------------------------------------------------------------------
(* The toolbar. *)
AlignColumn(a) ==
  /\ Mounted
  /\ Puts([r \in DOMAIN Here |-> [c \in DOMAIN Here[r] |->
             IF c = cursor.col THEN [Here[r][c] EXCEPT !.align = a] ELSE Here[r][c]]])
  /\ UNCHANGED <<cursor, focused, popup, History>>

DeleteTable ==
  /\ Mounted
  /\ doc' = [doc EXCEPT ![cursor.block] = Empty]
  /\ cursor' = At(cursor.block, 0, 0)
  /\ removed' = removed \cup TextOf(Here)
  /\ UNCHANGED <<focused, popup, typed, outdated, torn>>

(* The trigger: opens the popup for the table of the cursor, or closes it, *)
(* which hiding the toolbar does not.                                      *)
TogglePopup ==
  /\ Mounted
  /\ popup' = IF popup # None THEN None
              ELSE [from |-> Start(cursor.block), to |-> Start(cursor.block) + Size(doc[cursor.block]),
                    grid |-> Here]
  /\ UNCHANGED <<doc, cursor, focused, History>>

(* resizeTable.  Alignment comes from the first row, content from the cell. *)
Resized(grid, rows, cols) ==
  [r \in 1..rows |-> [c \in 1..cols |->
     Cell(r = 1, IF c <= Len(grid[1]) THEN grid[1][c].align ELSE None,
          IF r <= Len(grid) /\ c <= Len(grid[IF r <= Len(grid) THEN r ELSE 1])
            THEN grid[r][c].text ELSE {})]]

(* The range the popup was opened for is replaced, whatever is there now:  *)
(* whole blocks, or parts of them, or more than there is, which throws.    *)
Covered == {b \in DOMAIN doc : Start(b) >= popup.from /\ Start(b) + Size(doc[b]) <= popup.to}
Whole == Total([i \in DOMAIN doc |-> IF i \in Covered THEN Size(doc[i]) ELSE 0]) = popup.to - popup.from

Resize(rows, cols) ==
  LET new == Table(Resized(popup.grid, rows, cols))
      first == CHOOSE b \in Covered : \A o \in Covered : b <= o
      gone == UNION {TextOf(doc[b].grid) : b \in Covered} \ TextOf(new.grid)
  IN /\ Mounted /\ popup # None
     /\ popup.to <= Start(Len(doc) + 1)
     /\ popup' = None
     /\ IF Whole
          THEN /\ doc' = SubSeq(doc, 1, first - 1) \o <<new>>
                           \o SubSeq(doc, first + Cardinality(Covered), Len(doc))
               /\ cursor' = At(first, IF rows > 1 THEN 2 ELSE 1, 1)
               /\ outdated' = (outdated \/ doc[first].grid # popup.grid)
               /\ removed' = removed \cup (gone \cap TextOf(popup.grid))
               /\ UNCHANGED torn
          ELSE torn' = TRUE /\ UNCHANGED <<doc, cursor, outdated, removed>>
     /\ UNCHANGED <<focused, typed>>

Clamp(n) == IF n = 0 THEN 1 ELSE IF n > Limit THEN Limit ELSE n
ClickSquare == \E rows, cols \in 1..Squares : Resize(rows, cols)
CommitInputs == \E rows, cols \in Numbers : Resize(Clamp(rows), Clamp(cols))

-----------------------------------------------------------------------------
(* The serializer: bars in a text are escaped, only text is written, the   *)
(* first row gives the columns and their alignment.  A row is its cells.   *)
RenderCell(cell) == {IF t = Bar THEN Escaped ELSE t : t \in cell.text \ Breaks}

Written(grid) ==
  [aligns |-> [c \in DOMAIN grid[1] |-> grid[1][c].align],
   rows |-> [r \in DOMAIN grid |-> [c \in DOMAIN grid[r] |-> RenderCell(grid[r][c])]]]

(* The parser: a bar that is not escaped separates cells, the divider tells *)
(* how many a row has, and there must be as many in the header.            *)
Pieces(text) == IF Bar \in text THEN <<text \ {Bar}, {}>>
                ELSE <<{IF t = Escaped THEN Bar ELSE t : t \in text}>>

Read(lines) ==
  LET rows == [r \in DOMAIN lines.rows |->
                 FlattenSeq([c \in DOMAIN lines.rows[r] |-> Pieces(lines.rows[r][c])])]
  IN IF Len(rows[1]) # Len(lines.aligns) THEN Empty
     ELSE Table([r \in DOMAIN rows |-> [c \in DOMAIN lines.aligns |->
            Cell(r = 1, lines.aligns[c], IF c <= Len(rows[r]) THEN rows[r][c] ELSE {})]])

(* The note is saved and opened again, in a new editor.                    *)
Reopen ==
  /\ doc' = [b \in DOMAIN doc |->
               IF doc[b].kind = "line" THEN doc[b] ELSE Read(Written(doc[b].grid))]
  /\ cursor' = At(Len(doc), 0, 0) /\ doc[Len(doc)].kind = "line"
  /\ focused' = FALSE /\ popup' = None
  /\ removed' = removed \cup Breaks
  /\ UNCHANGED <<typed, outdated, torn>>

Next ==
  /\ ~ torn
  /\ \/ \E line \in Lines : WriteLine(line)
     \/ \E t \in Tokens : Type(t) \/ Erase(t)
     \/ \E a \in Aligned : AlignColumn(a)
     \/ Move \/ Blur \/ EnterTable \/ Navigate \/ AddRow \/ DeleteRow
     \/ DeleteTable \/ TogglePopup \/ ClickSquare \/ CommitInputs \/ Reopen

-----------------------------------------------------------------------------
TypeOK ==
  /\ \A b \in DOMAIN doc : \A p \in Positions(doc[b].grid) :
       /\ doc[b].grid[p[1]][p[2]].align \in Aligns
       /\ doc[b].grid[p[1]][p[2]].text \subseteq Tokens
  /\ removed \subseteq Tokens /\ focused \in BOOLEAN

(* The cursor is always somewhere.                                         *)
CursorInside ==
  IF InTable THEN <<cursor.row, cursor.col>> \in Positions(Here)
  ELSE doc[cursor.block].kind = "line"

(* Whatever is done to a table that was typed or read, its rows stay of one *)
(* length and its columns of one alignment: the format has no others.      *)
Regular(grid) ==
  /\ grid # <<>> /\ grid[1] # <<>>
  /\ \A row \in Range(grid) :
       /\ DOMAIN row = DOMAIN grid[1]
       /\ \A c \in DOMAIN row : row[c].align = grid[1][c].align

TablesAreRegular ==
  (\A grid \in Foreign : Regular(grid)) =>
    \A b \in DOMAIN doc : doc[b].kind = "table" => Regular(doc[b].grid)

(* A save keeps a regular table: all its texts, in place, but the breaks.  *)
SavesAreFaithful ==
  \A b \in DOMAIN doc : doc[b].kind = "table" /\ Regular(doc[b].grid) =>
    LET grid == doc[b].grid
    IN Read(Written(grid)) =
         Table([r \in DOMAIN grid |-> [c \in DOMAIN grid[r] |->
                  Cell(r = 1, grid[r][c].align, grid[r][c].text \ Breaks)]])

(* What is typed into a table is there until it is erased or its row,      *)
(* column or table is removed, unless the popup replaced a table that had  *)
(* changed under it.                                                       *)
TextsSurvive == outdated \/ typed \subseteq Texts \cup removed

TableSafe ==
  /\ TypeOK /\ CursorInside /\ TablesAreRegular /\ SavesAreFaithful
  /\ (\A grid \in Foreign : Regular(grid)) => TextsSurvive
=============================================================================
