------------------------------ MODULE ResultGrid ------------------------------
(***************************************************************************)
(* The cells of the result table: useTableSelection.ts, useTableKeyboard.ts,   *)
(* TableBody.tsx and CellModal.tsx, over one page of rows at a time.          *)
(*                                                                           *)
(* Three things say where the user is: the outlined cell (selectedCell), the   *)
(* range (selectionStart, selectionEnd) and the cell that has the keyboard.    *)
(* The keyboard follows the outline when the cell is there, some milliseconds  *)
(* later; a key goes to the cell that has it, then to the container of the    *)
(* cells, then to the document.  Between the last two React has rendered, so   *)
(* the handlers of the document see what the cell's has done.                 *)
(*                                                                           *)
(* A cell is <<row, column>>, from 0.                                        *)
(***************************************************************************)
EXTENDS Integers, Sequences, FiniteSetsExt

CONSTANTS
  Pages,         \* the sizes <<rows, columns>> of the pages shown
  PageRows       \* the rows that are visible at a time

VARIABLES
  page,      \* the size of the page shown
  g,         \* the selection: outlined cell, ends of the range, cell viewed in line
  dragging,  \* isSelecting
  modal,     \* the cell in the modal and whether the cursor is in its text
  focus,     \* the cell that has the keyboard, or one of the places below
  turned     \* history: the page has changed under the selection

gridVars == <<page, g, dragging, modal, focus, turned>>

NoCell == <<-9, -9>>
Container == <<-2, -2>>
Body == <<-3, -3>>
Elsewhere == <<-4, -4>>    \* the editor, the modal, ...
Input == <<-5, -5>>        \* the text of the cell viewed in line
NoModal == [cell |-> NoCell, cursor |-> FALSE]

Rows == page[1]
Cols == page[2]
Cells == (0 .. Rows - 1) \X (0 .. Cols - 1)
Last == <<Rows - 1, Cols - 1>>
Some(c) == c # NoCell

GridInit ==
  /\ page \in Pages
  /\ g = [sel |-> NoCell, from |-> NoCell, to |-> NoCell, viewing |-> NoCell]
  /\ dragging = FALSE /\ modal = NoModal /\ focus = Elsewhere /\ turned = FALSE

\* The outline alone, and with the range around a, b.
Outline(s, c) == [s EXCEPT !.sel = c, !.from = NoCell, !.to = NoCell]
Between(s, a, b) == [s EXCEPT !.from = a, !.to = b]
OnlyCell(c) == [sel |-> c, from |-> c, to |-> c, viewing |-> NoCell]

-----------------------------------------------------------------------------
(* The mouse. *)

ClearSelection ==
  /\ g' = Outline(g, NoCell)
  /\ focus' = Elsewhere
  /\ turned' = (turned /\ (Some(g.viewing) \/ Some(modal.cell)))
  /\ UNCHANGED <<page, dragging, modal>>

HandleCellMouseDown(c) ==
  /\ modal = NoModal
  /\ g' = OnlyCell(c)
  /\ dragging' = TRUE /\ focus' = c /\ turned' = FALSE
  /\ UNCHANGED <<page, modal>>

\* With shift; without an outline it is a click.
ExtendByMouse(c) ==
  /\ modal = NoModal /\ Some(g.sel)
  /\ g' = Between([g EXCEPT !.viewing = NoCell], IF Some(g.from) THEN g.from ELSE g.sel, c)
  /\ dragging' = FALSE /\ focus' = c
  /\ UNCHANGED <<page, modal, turned>>

\* The second click on a cell within 300 ms, and the double click.
HandleCellDoubleClick(c) ==
  /\ modal = NoModal
  /\ g' = [OnlyCell(c) EXCEPT !.viewing = c]
  /\ dragging' = FALSE /\ focus' = c /\ turned' = FALSE
  /\ UNCHANGED <<page, modal>>

HandleCellMouseMove(c) ==
  /\ dragging
  /\ g' = [g EXCEPT !.to = c]
  /\ UNCHANGED <<page, dragging, modal, focus, turned>>

HandleMouseUp ==
  /\ dragging /\ dragging' = FALSE
  /\ UNCHANGED <<page, g, modal, focus, turned>>

SelectColumns(s, first, last) == Between(s, <<0, first>>, <<Rows - 1, last>>)

\* A click on a column with ctrl or by its menu, and one with shift.
HandleColumnHeaderClick(col, shift) ==
  /\ modal = NoModal
  /\ IF shift
     THEN /\ Some(g.sel)
          /\ g' = SelectColumns(g, Min({g.sel[2], col}), Max({g.sel[2], col}))
     ELSE g' = SelectColumns([g EXCEPT !.sel = <<0, col>>], col, col)
  /\ focus' \in {focus, Body}
  /\ UNCHANGED <<page, dragging, modal, turned>>

HandleRowNumberClick(row, shift) ==
  /\ modal = NoModal
  /\ LET rows(first, last, s) == Between(s, <<first, 0>>, <<last, Cols - 1>>)
     IN IF shift /\ Some(g.sel)
        THEN g' = rows(Min({g.sel[1], row}), Max({g.sel[1], row}), g)
        ELSE g' = rows(row, row, [g EXCEPT !.sel = <<row, 0>>])
  /\ focus' \in {focus, Body}
  /\ UNCHANGED <<page, dragging, modal, turned>>

\* A click into the text viewed in line, and the loss of the keyboard there.
ClickInput ==
  /\ g.viewing \in Cells /\ focus' = Input
  /\ UNCHANGED <<page, g, dragging, modal, turned>>

-----------------------------------------------------------------------------
(* The keyboard. *)

Steps == [up |-> <<-1, 0>>, down |-> <<1, 0>>, left |-> <<0, -1>>, right |-> <<0, 1>>]
Ways == DOMAIN Steps
Beside(c, way) == <<c[1] + Steps[way][1], c[2] + Steps[way][2]>>
Edge(c, way) ==
  CASE way = "up" -> <<0, c[2]>> [] way = "down" -> <<Rows - 1, c[2]>>
    [] way = "left" -> <<c[1], 0>> [] way = "right" -> <<c[1], Cols - 1>>

\* The cell's handler of an arrow: a move of the outline, with shift of the end
\* of the range as well.
CellArrow(way, ctrl, shift) ==
  LET s == [g EXCEPT !.viewing = NoCell]
      to == IF ctrl THEN Edge(focus, way) ELSE Beside(focus, way)
  IN IF to \notin Cells THEN s
     ELSE IF shift
     THEN Between([s EXCEPT !.sel = to], IF Some(g.from) THEN g.from ELSE focus, to)
     ELSE Outline(s, to)

\* The document's: where all rows of the range are selected, it is columns that
\* the arrow adds or takes away.
DocumentArrow(s, way, shift) ==
  LET rows == {s.from[1], s.to[1]}  cols == {s.from[2], s.to[2]}
      end == s.to[2] + Steps[way][2]
      next == IF way = "right" THEN Min({Max(cols) + 1, Cols - 1}) ELSE Max({Min(cols) - 1, 0})
  IN CASE way \notin {"left", "right"} \/ ~Some(s.from) \/ ~Some(s.to)
            \/ Min(rows) # 0 \/ Max(rows) # Rows - 1 -> s
       [] shift /\ end \notin 0 .. Cols - 1 -> s
       [] shift /\ end \in 0 .. Cols - 1 -> [s EXCEPT !.to = <<Rows - 1, end>>]
       [] OTHER -> Outline(s, <<0, next>>)

Typing(k) ==
  /\ modal = NoModal
  /\ g' = k
  /\ focus' \in {focus} \cup ({g'.sel} \cap Cells)
  /\ UNCHANGED <<page, dragging, modal, turned>>

\* Arrows in the text viewed in line stay there.
PressArrow(way, ctrl, shift) ==
  /\ (focus # Input /\ Some(g.sel)) \/ focus \in Cells
  /\ Typing(DocumentArrow(IF focus \in Cells THEN CellArrow(way, ctrl, shift) ELSE g, way, shift))

\* The next cell in reading order, or the cell itself at the end.
Tabbed(c, back) ==
  CASE back /\ c[2] > 0 -> <<c[1], c[2] - 1>>
    [] back /\ c[2] <= 0 /\ c[1] > 0 -> <<c[1] - 1, Cols - 1>>
    [] ~back /\ c[2] < Cols - 1 -> <<c[1], c[2] + 1>>
    [] ~back /\ c[2] >= Cols - 1 /\ c[1] < Rows - 1 -> <<c[1] + 1, 0>>
    [] OTHER -> c

PressTab(back) ==
  /\ focus \in Cells
  /\ LET s == [g EXCEPT !.viewing = NoCell]  next == Tabbed(focus, back)
     IN Typing(IF next = focus THEN s ELSE Outline(s, next))

TabInInput(back) ==
  /\ focus = Input /\ g.viewing \in Cells
  /\ Typing(OnlyCell(Tabbed(g.viewing, back)))

\* Enter or Escape there, and Escape anywhere.
LeaveInput ==
  /\ Some(g.viewing)
  /\ g' = [g EXCEPT !.viewing = NoCell]
  /\ focus' = IF focus = Input THEN g.viewing ELSE focus
  /\ UNCHANGED <<page, dragging, modal, turned>>

\* Home and End.
PressHome(way) ==
  /\ way \in {"left", "right"}
  /\ focus \in Cells \/ (focus = Input /\ g.viewing \in Cells)
  /\ Typing(Outline(g, Edge(IF focus = Input THEN g.viewing ELSE focus, way)))

\* A bug that must be noticed: the last row is not the limit.
PageFrom_Unbounded(c, down) == <<IF down THEN c[1] + PageRows ELSE Max({0, c[1] - PageRows}), c[2]>>

PageFrom(c, down) ==
  <<IF down THEN Min({Rows - 1, c[1] + PageRows}) ELSE Max({0, c[1] - PageRows}), c[2]>>

\* PageUp and PageDown go on from the outline.  A cell's key is handled by the
\* cell and, if there is an outline, once more by the container; the container
\* and the body alone need one.
PressPage(down) ==
  /\ focus # Elsewhere
  /\ LET at == IF Some(g.sel) THEN g.sel ELSE IF focus = Input THEN g.viewing ELSE focus
         once == PageFrom(at, down)
     IN /\ at \in Cells \/ Some(g.sel)
        /\ focus \in {Container, Body} => Some(g.sel)
        /\ focus = Body => ~Some(g.viewing)
        /\ Typing(Outline(g, IF focus \notin {Container, Body} /\ Some(g.sel)
                             THEN PageFrom(once, down) ELSE once))

SelectAll ==
  /\ Some(g.sel) \/ Some(g.from)
  /\ Typing(Between(IF Some(g.sel) THEN g ELSE [g EXCEPT !.sel = <<0, 0>>], <<0, 0>>, Last))

\* Enter: the modal, with shift the text in line.
PressEnter(shift) ==
  /\ modal = NoModal /\ focus \in Cells /\ g.viewing # focus
  /\ g' = [g EXCEPT !.viewing = IF shift THEN focus ELSE NoCell]
  /\ modal' = IF shift THEN NoModal ELSE [cell |-> focus, cursor |-> FALSE]
  /\ focus' = IF shift THEN focus ELSE Elsewhere
  /\ UNCHANGED <<page, dragging, turned>>

-----------------------------------------------------------------------------
(* The modal. *)

HandleModalCellChange(c) == Outline(g, c)

\* An arrow: to another cell of the page, if there is one.
HandleNavigate(way) ==
  /\ Some(modal.cell) /\ ~modal.cursor
  /\ Beside(modal.cell, way) \in Cells
  /\ modal' = [cell |-> Beside(modal.cell, way), cursor |-> FALSE]
  /\ g' = HandleModalCellChange(Beside(modal.cell, way))
  /\ UNCHANGED <<page, dragging, focus, turned>>

\* Enter puts the cursor into the text, Escape takes it out again, then closes.
EnterCursor ==
  /\ Some(modal.cell) /\ ~modal.cursor
  /\ modal' = [modal EXCEPT !.cursor = TRUE]
  /\ UNCHANGED <<page, g, dragging, focus, turned>>

EscapeModal ==
  /\ Some(modal.cell)
  /\ modal' = IF modal.cursor THEN [modal EXCEPT !.cursor = FALSE] ELSE NoModal
  /\ focus' = IF modal.cursor THEN focus ELSE IF g.sel \in Cells THEN g.sel ELSE Body
  /\ UNCHANGED <<page, g, dragging, turned>>

-----------------------------------------------------------------------------
(* Painting and copying.                                                      *)

IsCellInSelection(c) ==
  /\ Some(g.from) /\ Some(g.to)
  /\ \A i \in 1 .. 2 : /\ Min({g.from[i], g.to[i]}) <= c[i]
                        /\ Max({g.from[i], g.to[i]}) >= c[i]

\* A bug that must be noticed: a range is taken from its first end to its last.
Span_Forward(i) == g.from[i] .. g.to[i]

\* The rows (1) or columns (2) of the range.
Span(i) == Min({g.from[i], g.to[i]}) .. Max({g.from[i], g.to[i]})

\* The lines that ctrl-C puts on the clipboard, each a sequence of cells; the name of
\* a column, which shift adds above, is its cell in row -1.  Text viewed in line goes
\* before the range, the range before the outline.
Copied(shift) ==
  LET columns == Span(2) \cap (0 .. Cols - 1)
      rows == Span(1) \cap (0 .. Rows - 1)
      line(row) == [j \in 1 .. Cardinality(columns) |-> <<row, Min(columns) + j - 1>>]
      lines == [k \in 1 .. Cardinality(rows) |-> line(Min(rows) + k - 1)]
      name(l) == IF shift THEN <<l>> ELSE <<>>
  IN  CASE ~Some(g.sel) /\ ~Some(g.from) -> <<>>
        [] (Some(g.sel) \/ Some(g.from)) /\ g.viewing \in Cells -> <<<<g.viewing>>>>
        [] g.viewing \notin Cells /\ Some(g.from) /\ Some(g.to) -> name(line(-1)) \o lines
        [] OTHER -> IF g.sel \in Cells THEN name(<<<<-1, g.sel[2]>>>>) \o <<<<g.sel>>>> ELSE <<>>

\* The number of cells that the message tells of.
CellCount == Cardinality(Span(1)) * Cardinality(Span(2))

-----------------------------------------------------------------------------
(* What comes by itself. *)

\* The keyboard comes to the outlined cell.
Refocus ==
  /\ g.sel \in Cells /\ ~Some(g.viewing) /\ modal = NoModal
  /\ focus \in Cells \cup {Container, Body} /\ focus # g.sel
  /\ focus' = g.sel
  /\ UNCHANGED <<page, g, dragging, modal, turned>>

\* The cell with the keyboard is scrolled out of sight, or the user clicks into
\* the empty part of the table; a text in line that loses the keyboard closes.
LoseFocus ==
  /\ focus \in Cells \cup {Input}
  /\ focus' \in {Container, Body}
  /\ g' = IF focus = Input THEN [g EXCEPT !.viewing = NoCell] ELSE g
  /\ UNCHANGED <<page, dragging, modal, turned>>

\* Another page, or another result: the selection stays.
NewPage ==
  /\ page' \in Pages \ {page}
  /\ turned' = (turned \/ {g.sel, g.to, g.viewing, modal.cell} # {NoCell})
  /\ focus' = IF focus \in Cells \cup {Input} THEN Body ELSE focus
  /\ g' = IF focus = Input THEN [g EXCEPT !.viewing = NoCell] ELSE g
  /\ UNCHANGED <<dragging, modal>>

-----------------------------------------------------------------------------
GridNext ==
  \/ \E c \in Cells : \/ HandleCellMouseDown(c) \/ ExtendByMouse(c)
                      \/ HandleCellDoubleClick(c) \/ HandleCellMouseMove(c)
  \/ HandleMouseUp \/ ClearSelection \/ ClickInput
  \/ \E col \in 0 .. Cols - 1, shift \in BOOLEAN : HandleColumnHeaderClick(col, shift)
  \/ \E row \in 0 .. Rows - 1, shift \in BOOLEAN : HandleRowNumberClick(row, shift)
  \/ \E way \in Ways, ctrl, shift \in BOOLEAN : PressArrow(way, ctrl, shift)
  \/ \E back \in BOOLEAN : PressTab(back) \/ TabInInput(back) \/ PressPage(back) \/ PressEnter(back)
  \/ LeaveInput \/ SelectAll \/ EnterCursor \/ EscapeModal
  \/ \E way \in Ways : PressHome(way) \/ HandleNavigate(way)
  \/ Refocus \/ LoseFocus \/ NewPage

-----------------------------------------------------------------------------
(* Properties. *)

\* As long as the page stays, no key and no click, wherever the keyboard is and
\* whatever is open, takes the outline, an end of the range, the text in line or
\* the modal off the page: the handlers index the rows with them.
SelectionOnPage ==
  ~turned => {g.sel, g.from, g.to, g.viewing, modal.cell} \subseteq Cells \cup {NoCell}

\* What is copied is what is painted, on whatever page and however the range was drawn:
\* the cells of the range, else the outlined one, row by row, each once and below the
\* name of its column; and as long as the page stays the message counts them.  (When
\* another page has left the range behind, nothing is copied, outline or not.)
CopiedAsPainted ==
  \A shift \in BOOLEAN :
    LET text == Copied(shift)
        body == IF shift THEN SubSeq(text, 2, Len(text)) ELSE text
        painted == {c \in Cells : IsCellInSelection(c)}
        wanted == IF Some(g.from) /\ Some(g.to) THEN painted ELSE {g.sel} \cap Cells
        places == UNION {{k} \X DOMAIN body[k] : k \in DOMAIN body}
    IN  g.viewing \in Cells \/
        /\ {body[p[1]][p[2]] : p \in places} = wanted
        /\ Cardinality(places) = Cardinality(wanted)
        /\ \A p \in places :
             /\ body[p[1]][p[2]][2] = text[1][p[2]][2]
             /\ p[1] > 1 => body[p[1]][p[2]][1] = body[p[1] - 1][p[2]][1] + 1
        /\ ~turned /\ Some(g.from) /\ Some(g.to) => CellCount = Cardinality(painted)
==============================================================================
