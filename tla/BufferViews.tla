----------------------------- MODULE BufferViews -----------------------------
(***************************************************************************)
(* The buffer views of a GUI (src/gui/src/buffer_views.rs): a cursor and a  *)
(* window for each opened buffer, moved and scrolled by RPCs.  A text is    *)
(* the sequence of the lengths of its lines; lines and columns count from 0.*)
(***************************************************************************)
EXTENDS Integers, Sequences

CONSTANTS
    Texts,         \* contents that buffers may have
    Height,        \* rows of a view
    Deltas         \* by how much RPCs move and scroll

ASSUME ViewsAssumption ==
    /\ Texts \subseteq Seq(Nat) \ {<<>>}     \* split("\n") gives one line at least
    /\ Height \in Nat
    /\ Deltas \subseteq Int

VARIABLE buffer_views         \* the views, in the order of their creation

SCROLLOFF == 3

Position == [line_index : Int, column_index : Int]
View == [lines : Texts, top_line_index : Int, wanted_position : Position, position : Position]

max(a, b) == IF a > b THEN a ELSE b
min(a, b) == IF a < b THEN a ELSE b

\* BufferView::new, with Cursor::new.
NewView(text) ==
    LET origin == [line_index |-> 0, column_index |-> 0]
    IN  [lines |-> text, top_line_index |-> 0, wanted_position |-> origin, position |-> origin]

\* BufferView::scroll.
scroll(view, delta) ==
    [view EXCEPT !.top_line_index = max(min(@ + delta, Len(view.lines) - 1), 0)]

\* Mutant: the column is taken over as it is wanted.
clamp_position_AnyColumn(view, wanted) ==
    [line_index |-> max(0, min(Len(view.lines) - 1, wanted.line_index)),
     column_index |-> max(0, wanted.column_index)]

\* The position closest to the wanted one.  The length of a line is in bytes.
clamp_position(view, wanted) ==
    LET line == max(0, min(Len(view.lines) - 1, wanted.line_index))
    IN  [line_index |-> line,
         column_index |-> max(0, min(view.lines[line + 1] - 1, wanted.column_index))]

\* Mutant: only the upper margin is kept.
keep_margin_Top(view, line) ==
    LET top_diff == line - view.top_line_index
    IN  IF top_diff < SCROLLOFF THEN scroll(view, top_diff - SCROLLOFF) ELSE view

\* Scrolls so that SCROLLOFF lines are seen around the cursor: first up, then down.
keep_margin(view, line) ==
    LET top_diff == line - view.top_line_index
        up == IF top_diff < SCROLLOFF THEN scroll(view, top_diff - SCROLLOFF) ELSE view
        bottom_diff == up.top_line_index + Height - line
    IN  IF bottom_diff < SCROLLOFF THEN scroll(up, SCROLLOFF - bottom_diff) ELSE up

\* BufferViews::move_cursor in the view it has found.  What is wanted is not clamped.
moved(view, delta) ==
    LET wanted == [line_index |-> view.wanted_position.line_index + delta.line_index,
                   column_index |-> view.wanted_position.column_index + delta.column_index]
        position == clamp_position(view, wanted)
    IN  keep_margin([view EXCEPT !.wanted_position = wanted, !.position = position],
                    position.line_index)

ViewsInit == buffer_views = <<>>

\* BufferViews::new_view, once it knows the content of the buffer.
new_view(text) == buffer_views' = Append(buffer_views, NewView(text))

\* Every cursor has the same id, so the cursor found first in the HashMap is moved;
\* without a view the cursor is unknown.
move_cursor(delta) ==
    IF buffer_views = <<>> THEN UNCHANGED buffer_views
    ELSE \E i \in DOMAIN buffer_views :
            buffer_views' = [buffer_views EXCEPT ![i] = moved(@, delta)]

\* The RPC gui.buffer_view.scroll.
scroll_view(i, delta) ==
    buffer_views' = [buffer_views EXCEPT ![i] = scroll(@, delta)]

Moves == [line_index : Deltas, column_index : Deltas]

ViewsNext ==
    \/ \E text \in Texts : new_view(text)
    \/ \E delta \in Moves : move_cursor(delta)
    \/ \E i \in DOMAIN buffer_views, delta \in Deltas : scroll_view(i, delta)

ViewsSpec == ViewsInit /\ [][ViewsNext]_buffer_views

-----------------------------------------------------------------------------
(* Properties.                                                               *)

\* Type invariant of the views.
ViewsTypeOK == buffer_views \in Seq(View)

InText(view) ==
    /\ view.top_line_index \in 0 .. Len(view.lines) - 1
    /\ view.position.line_index \in 0 .. Len(view.lines) - 1
    /\ view.position.column_index >= 0
    /\ view.position.column_index < max(1, view.lines[view.position.line_index + 1])

Visible(view) ==
    /\ view.top_line_index <= view.position.line_index
    /\ view.position.line_index < view.top_line_index + Height

\* Whatever is moved and scrolled, and however far the wanted position drifts, the
\* cursor is in the text and the first line that is shown exists: drawing finds both.
CursorInText == \A i \in DOMAIN buffer_views : InText(buffer_views[i])

\* A cursor that was moved is in the window, wherever scrolling had left it: the two
\* margins of keep_margin do not push it out, although a window of fewer than six
\* lines has no room for both.  Needs a window of three lines at least.
MoveShowsCursor ==
    [][\A i \in DOMAIN buffer_views :
          buffer_views'[i].wanted_position # buffer_views[i].wanted_position
             => Visible(buffer_views'[i])]_buffer_views

=============================================================================
