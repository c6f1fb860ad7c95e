--------------------------- MODULE TermGui_proofs ---------------------------
(***************************************************************************)
(* Proofs about the GUI: its buffer views (BufferViews), which a GUI of any  *)
(* height keeps in the text; and the terminal GUI (TermGui), which does with *)
(* the views what BufferViews says, opens the file it shows as selected, and *)
(* lists every file once, for all key maps, files and numbers of keys.       *)
(***************************************************************************)
EXTENDS TermGui, FiniteSetTheorems, TLAPS

-----------------------------------------------------------------------------
(* The views.                                                                 *)

ViewsInv == ViewsTypeOK /\ CursorInText

Good(view) == view \in View /\ InText(view)

\* Scrolling keeps the window in the text and leaves the cursor alone.
LEMMA ScrollKeeps ==
    ASSUME NEW view \in View, NEW delta \in Int
    PROVE  /\ scroll(view, delta) \in View
           /\ scroll(view, delta).top_line_index
                = max(min(view.top_line_index + delta, Len(view.lines) - 1), 0)
           /\ scroll(view, delta).top_line_index \in 0 .. Len(view.lines) - 1
           /\ scroll(view, delta).lines = view.lines
           /\ scroll(view, delta).position = view.position
           /\ scroll(view, delta).wanted_position = view.wanted_position
<1>1. view.lines \in Seq(Nat) /\ Len(view.lines) \in Nat \ {0}
  BY ViewsAssumption DEF View
<1> QED
  BY <1>1 DEF scroll, View, max, min

\* The clamped position is in the text.
LEMMA ClampInText ==
    ASSUME NEW view \in View, NEW wanted \in Position
    PROVE  LET p == clamp_position(view, wanted)
           IN  /\ p \in Position
               /\ p.line_index \in 0 .. Len(view.lines) - 1
               /\ p.column_index >= 0
               /\ p.column_index < max(1, view.lines[p.line_index + 1])
<1>1. view.lines \in Seq(Nat) /\ Len(view.lines) \in Nat \ {0}
  BY ViewsAssumption DEF View
<1> DEFINE line == max(0, min(Len(view.lines) - 1, wanted.line_index))
<1>2. wanted.line_index \in Int /\ wanted.column_index \in Int
  BY DEF Position
<1>3. line \in 0 .. Len(view.lines) - 1
  BY <1>1, <1>2 DEF max, min
<1>4. view.lines[line + 1] \in Nat
  BY <1>1, <1>3
<1> QED
  BY <1>2, <1>3, <1>4 DEF clamp_position, Position, max, min

\* keep_margin changes only the window, keeps it in the text and shows the cursor.
LEMMA MarginShows ==
    ASSUME NEW view \in View, view.position.line_index \in 0 .. Len(view.lines) - 1,
           view.top_line_index \in 0 .. Len(view.lines) - 1
    PROVE  LET v == keep_margin(view, view.position.line_index)
           IN  /\ v \in View
               /\ v.lines = view.lines /\ v.position = view.position
               /\ v.wanted_position = view.wanted_position
               /\ v.top_line_index \in 0 .. Len(view.lines) - 1
               /\ Height >= 3 => Visible(v)
<1> DEFINE line == view.position.line_index
           top_diff == line - view.top_line_index
           up == IF top_diff < SCROLLOFF THEN scroll(view, top_diff - SCROLLOFF) ELSE view
           bottom_diff == up.top_line_index + Height - line
           v == IF bottom_diff < SCROLLOFF THEN scroll(up, SCROLLOFF - bottom_diff) ELSE up
<1>1. v = keep_margin(view, line)
  BY DEF keep_margin
<1>2. Len(view.lines) \in Nat \ {0} /\ line \in Int /\ view.top_line_index \in Int
      /\ Height \in Nat /\ SCROLLOFF = 3
  BY ViewsAssumption DEF View, SCROLLOFF
<1>3. /\ up \in View /\ up.lines = view.lines /\ up.position = view.position
      /\ up.wanted_position = view.wanted_position
      /\ up.top_line_index \in 0 .. Len(view.lines) - 1
      /\ up.top_line_index <= line
  <2>1. CASE top_diff < SCROLLOFF
    <3>1. top_diff - SCROLLOFF \in Int
      BY <1>2
    <3> HIDE DEF top_diff
    <3>2. up = scroll(view, top_diff - SCROLLOFF)
      BY <2>1
    <3> HIDE DEF up
    <3>3. up.top_line_index
             = max(min(view.top_line_index + (top_diff - SCROLLOFF), Len(view.lines) - 1), 0)
      BY <3>1, <3>2, ScrollKeeps
    <3>4. up.top_line_index <= line
      BY <3>3, <1>2 DEF top_diff, max, min
    <3> QED
      BY <3>1, <3>2, <3>4, ScrollKeeps
  <2>2. CASE ~(top_diff < SCROLLOFF)
    BY <2>2, <1>2
  <2> QED
    BY <2>1, <2>2
<1> HIDE DEF up
<1>4. /\ v \in View /\ v.lines = view.lines /\ v.position = view.position
      /\ v.wanted_position = view.wanted_position
      /\ v.top_line_index \in 0 .. Len(view.lines) - 1
      /\ Height >= 3 => v.top_line_index <= line /\ line < v.top_line_index + Height
  <2>1. CASE bottom_diff < SCROLLOFF
    <3>1. SCROLLOFF - bottom_diff \in Int
      BY <1>2, <1>3
    <3>2. v = scroll(up, SCROLLOFF - bottom_diff)
      BY <2>1
    <3> HIDE DEF v, bottom_diff
    <3>3. /\ v.top_line_index
                = max(min(up.top_line_index + (SCROLLOFF - bottom_diff), Len(up.lines) - 1), 0)
          /\ v \in View /\ v.lines = up.lines /\ v.position = up.position
          /\ v.wanted_position = up.wanted_position
          /\ v.top_line_index \in 0 .. Len(up.lines) - 1
      BY <1>3, <3>1, <3>2, ScrollKeeps
    <3>4. bottom_diff = up.top_line_index + Height - line
      BY DEF bottom_diff
    <3> DEFINE length == Len(view.lines)
               top == up.top_line_index
    <3>5. /\ length \in Nat \ {0} /\ top \in Int /\ line \in 0 .. length - 1
          /\ v.top_line_index = max(min(top + (3 - bottom_diff), length - 1), 0)
      BY <1>2, <1>3, <3>3
    <3> HIDE DEF length, top, line
    <3>6. Height >= 3 => v.top_line_index <= line /\ line < v.top_line_index + Height
      BY <2>1, <1>2, <3>4, <3>5 DEF max, min, top
    <3> QED
      BY <1>3, <3>3, <3>6 DEF line
  <2>2. CASE ~(bottom_diff < SCROLLOFF)
    BY <2>2, <1>2, <1>3
  <2> QED
    BY <2>1, <2>2
<1> HIDE DEF v
<1> QED
  BY <1>1, <1>4 DEF Visible

\* A moved cursor is in the text and shown.
LEMMA MovedShows ==
    ASSUME NEW view, Good(view), NEW delta \in Moves
    PROVE  /\ Good(moved(view, delta))
           /\ Height >= 3 => Visible(moved(view, delta))
<1> DEFINE wanted == [line_index |-> view.wanted_position.line_index + delta.line_index,
                      column_index |-> view.wanted_position.column_index + delta.column_index]
           p == clamp_position(view, wanted)
           w == [view EXCEPT !.wanted_position = wanted, !.position = p]
<1>1. view \in View /\ wanted \in Position
  <2>1. view \in View /\ view.wanted_position \in Position
    BY DEF Good, View
  <2>2. delta.line_index \in Int /\ delta.column_index \in Int
    BY ViewsAssumption DEF Moves
  <2>3. view.wanted_position.line_index \in Int /\ view.wanted_position.column_index \in Int
    BY <2>1 DEF Position
  <2> QED
    BY <2>1, <2>2, <2>3 DEF Position
<1>2. /\ p \in Position
      /\ p.line_index \in 0 .. Len(view.lines) - 1
      /\ p.column_index >= 0
      /\ p.column_index < max(1, view.lines[p.line_index + 1])
  BY <1>1, ClampInText
<1>3. moved(view, delta) = keep_margin(w, p.line_index)
  BY DEF moved
<1> HIDE DEF p, wanted
<1>4. /\ w \in View /\ w.position = p /\ w.lines = view.lines
      /\ w.top_line_index = view.top_line_index
  BY <1>1, <1>2 DEF View
<1>5. w.top_line_index \in 0 .. Len(w.lines) - 1
  BY <1>4 DEF Good, InText
<1> HIDE DEF w
<1> DEFINE v == keep_margin(w, w.position.line_index)
<1>6. /\ v \in View
      /\ v.lines = w.lines /\ v.position = w.position
      /\ v.top_line_index \in 0 .. Len(w.lines) - 1
      /\ Height >= 3 => Visible(v)
  BY <1>2, <1>4, <1>5, MarginShows
<1>7. moved(view, delta) = v
  BY <1>3, <1>4
<1> HIDE DEF v
<1> QED
  BY <1>2, <1>4, <1>6, <1>7 DEF Good, InText

\* A new view shows its first line and has its cursor there.
LEMMA NewViewGood ==
    ASSUME NEW text \in Texts
    PROVE  Good(NewView(text))
<1>1. text \in Seq(Nat) /\ Len(text) \in Nat \ {0}
  BY ViewsAssumption
<1>2. text[1] \in Nat
  BY <1>1
<1> QED
  BY <1>1, <1>2 DEF NewView, Good, View, Position, InText, max

\* Without views there is nothing to show.
LEMMA ViewsInitInv == ViewsInit => ViewsInv
BY DEF ViewsInit, ViewsInv, ViewsTypeOK, CursorInText

\* Replacing one view by a good one keeps the invariant.
LEMMA ReplaceKeepsViews ==
    ASSUME ViewsInv, NEW i \in DOMAIN buffer_views, NEW v, Good(v),
           buffer_views' = [buffer_views EXCEPT ![i] = v]
    PROVE  ViewsInv'
BY DEF ViewsInv, ViewsTypeOK, CursorInText, Good

\* Every step keeps the invariant and shows the cursor that it moves.
LEMMA ViewsStep ==
    ASSUME ViewsInv, [ViewsNext]_buffer_views
    PROVE  /\ ViewsInv'
           /\ Height >= 3 =>
                \A i \in DOMAIN buffer_views :
                   buffer_views'[i].wanted_position # buffer_views[i].wanted_position
                      => Visible(buffer_views'[i])
<1>1. \A i \in DOMAIN buffer_views : Good(buffer_views[i])
  BY DEF ViewsInv, ViewsTypeOK, CursorInText, Good
<1>2. ASSUME NEW text \in Texts, new_view(text)
      PROVE  /\ ViewsInv'
             /\ \A i \in DOMAIN buffer_views : buffer_views'[i] = buffer_views[i]
  <2>1. buffer_views \in Seq(View) /\ NewView(text) \in View
    BY NewViewGood DEF ViewsInv, ViewsTypeOK, Good
  <2>2. /\ buffer_views' \in Seq(View)
        /\ Len(buffer_views') = Len(buffer_views) + 1
        /\ \A i \in 1 .. Len(buffer_views) : buffer_views'[i] = buffer_views[i]
        /\ buffer_views'[Len(buffer_views) + 1] = NewView(text)
    BY <1>2, <2>1 DEF new_view
  <2>3. \A i \in DOMAIN buffer_views' : Good(buffer_views'[i])
    BY <1>1, <2>1, <2>2, NewViewGood
  <2> QED
    BY <2>1, <2>2, <2>3 DEF ViewsInv, ViewsTypeOK, CursorInText, Good
<1>3. ASSUME NEW delta \in Moves, NEW i \in DOMAIN buffer_views,
             buffer_views' = [buffer_views EXCEPT ![i] = moved(buffer_views[i], delta)]
      PROVE  /\ ViewsInv'
             /\ Height >= 3 => Visible(buffer_views'[i])
             /\ \A j \in DOMAIN buffer_views \ {i} : buffer_views'[j] = buffer_views[j]
  <2>1. /\ Good(moved(buffer_views[i], delta))
        /\ Height >= 3 => Visible(moved(buffer_views[i], delta))
    BY <1>1, MovedShows
  <2>2. ViewsInv'
    BY <1>3, <2>1, ReplaceKeepsViews
  <2>3. buffer_views'[i] = moved(buffer_views[i], delta)
    BY <1>3 DEF ViewsInv, ViewsTypeOK
  <2> QED
    BY <1>3, <2>1, <2>2, <2>3
<1>4. ASSUME NEW delta \in Deltas, NEW i \in DOMAIN buffer_views, scroll_view(i, delta)
      PROVE  /\ ViewsInv'
             /\ \A j \in DOMAIN buffer_views :
                   buffer_views'[j].wanted_position = buffer_views[j].wanted_position
  <2> DEFINE v == scroll(buffer_views[i], delta)
  <2>1. buffer_views[i] \in View /\ InText(buffer_views[i]) /\ delta \in Int
    BY <1>1, ViewsAssumption DEF Good
  <2>2. Good(v) /\ v.wanted_position = buffer_views[i].wanted_position
    BY <2>1, ScrollKeeps DEF Good, InText
  <2>3. buffer_views' = [buffer_views EXCEPT ![i] = v]
    BY <1>4 DEF scroll_view
  <2> HIDE DEF v
  <2>4. ViewsInv'
    BY <2>2, <2>3, ReplaceKeepsViews
  <2>5. buffer_views'[i] = v
    BY <2>3 DEF ViewsInv, ViewsTypeOK
  <2> QED
    BY <2>2, <2>3, <2>4, <2>5
<1>5. CASE UNCHANGED buffer_views
  BY <1>5 DEF ViewsInv, ViewsTypeOK, CursorInText, InText
<1>6. ASSUME NEW delta \in Moves, move_cursor(delta)
      PROVE  UNCHANGED buffer_views
             \/ \E i \in DOMAIN buffer_views :
                   buffer_views' = [buffer_views EXCEPT ![i] = moved(buffer_views[i], delta)]
  BY <1>6 DEF move_cursor
<1> QED
  BY <1>2, <1>3, <1>4, <1>5, <1>6 DEF ViewsNext

\* However cursors are moved and views scrolled, every cursor and every first line
\* that is shown is in the text of its view.
THEOREM CursorsStayInText == ViewsSpec => []CursorInText
<1>1. ViewsInv /\ [ViewsNext]_buffer_views => ViewsInv'
  BY ViewsStep
<1>2. ViewsInv => CursorInText
  BY DEF ViewsInv
<1> QED
  BY <1>1, <1>2, ViewsInitInv, PTL DEF ViewsSpec

\* In a window of three lines or more a cursor that was moved is seen.
THEOREM MovedCursorsAreShown == Height >= 3 => (ViewsSpec => MoveShowsCursor)
<1>1. ViewsInv /\ [ViewsNext]_buffer_views => ViewsInv'
  BY ViewsStep
<1> SUFFICES ASSUME Height >= 3
             PROVE  ViewsSpec => MoveShowsCursor
  OBVIOUS
<1>2. ViewsInv /\ [ViewsNext]_buffer_views
        => [\A i \in DOMAIN buffer_views :
              buffer_views'[i].wanted_position # buffer_views[i].wanted_position
                 => Visible(buffer_views'[i])]_buffer_views
  BY ViewsStep
<1> QED
  BY <1>1, <1>2, ViewsInitInv, PTL DEF ViewsSpec, MoveShowsCursor

-----------------------------------------------------------------------------
(* What a query finds.                                                        *)

\* The places of the files found are all the numbers up to how many there are: with one
\* missing, two files would have to share a place.
LEMMA Places ==
    ASSUME NEW found, found \subseteq DOMAIN Ranked, NEW n \in 1 .. Cardinality(found)
    PROVE  \E i \in found : Cardinality({j \in found : j <= i}) = n
<1> DEFINE N == Cardinality(found)
           upto(i) == {j \in found : j <= i}
           others == (1 .. N) \ {n}
           f == [i \in found |-> Cardinality(upto(i))]
<1>1. found \subseteq 1 .. Len(Ranked) /\ Len(Ranked) \in Nat
  BY GuiAssumption
<1>2. IsFiniteSet(found) /\ N \in Nat
  <2>1. IsFiniteSet(1 .. Len(Ranked))
    BY <1>1, FS_Interval
  <2>2. found \in SUBSET (1 .. Len(Ranked))
    BY <1>1
  <2>3. IsFiniteSet(found)
    BY <2>1, <2>2, FS_Subset
  <2> QED
    BY <2>3, FS_CardinalityType
<1> SUFFICES ASSUME \A i \in found : Cardinality(upto(i)) # n
             PROVE  FALSE
  OBVIOUS
<1>3. ASSUME NEW i \in found
      PROVE  IsFiniteSet(upto(i)) /\ Cardinality(upto(i)) \in others
  <2>1. upto(i) \in SUBSET found /\ i \in upto(i)
    BY <1>1
  <2>2. IsFiniteSet(upto(i)) /\ Cardinality(upto(i)) <= N
    BY <2>1, <1>2, FS_Subset
  <2>3. Cardinality(upto(i)) \in Nat /\ Cardinality(upto(i)) # 0
    BY <2>1, <2>2, FS_CardinalityType, FS_EmptySet
  <2> QED
    BY <2>2, <2>3, <1>2
<1>4. IsFiniteSet(others) /\ Cardinality(others) < N
  <2>1. IsFiniteSet(1 .. N) /\ Cardinality(1 .. N) = N
    BY <1>2, FS_Interval
  <2> HIDE DEF N
  <2>2. IsFiniteSet(others) /\ Cardinality(others) = N - 1
    BY <2>1, FS_RemoveElement DEF N
  <2> QED
    BY <2>2, <1>2
<1>5. f \in [found -> others]
  BY <1>3
<1> HIDE DEF f, others
<1>6. PICK x, y \in found : x # y /\ f[x] = f[y]
  BY <1>2, <1>4, <1>5, FS_PigeonHole
<1>7. ASSUME NEW a \in found, NEW b \in found, a < b, Cardinality(upto(a)) = Cardinality(upto(b))
      PROVE  FALSE
  <2>1. upto(a) \in SUBSET upto(b) /\ b \in upto(b) /\ b \notin upto(a)
    BY <1>1, <1>7
  <2>2. IsFiniteSet(upto(b))
    BY <1>3
  <2> HIDE DEF upto
  <2>3. upto(b) = upto(a)
    BY <2>1, <2>2, <1>7, FS_Subset
  <2> QED
    BY <2>1, <2>3
<1>8. x < y \/ y < x
  BY <1>1, <1>6
<1>9. Cardinality(upto(x)) = Cardinality(upto(y))
  BY <1>6 DEF f
<1> HIDE DEF upto
<1> QED
  BY <1>6, <1>7, <1>8, <1>9

\* An answer is a sequence of files that were asked about; no files give none.
LEMMA QueryType ==
    ASSUME NEW candidates, NEW query
    PROVE  /\ Query(candidates, query) \in Seq(Files)
           /\ candidates = {} => Query(candidates, query) = <<>>
<1> DEFINE found == {i \in DOMAIN Ranked : /\ Ranked[i] \in candidates
                                          /\ ToSet(query) \ {" "} \subseteq Letters[Ranked[i]]}
           N == Cardinality(found)
           at(n) == CHOOSE i \in found : Cardinality({j \in found : j <= i}) = n
<1>1. Query(candidates, query) = [n \in 1 .. N |-> Ranked[at(n)]]
  BY DEF Query
<1>2. found \subseteq DOMAIN Ranked
  OBVIOUS
<1>3. candidates = {} => found = {}
  OBVIOUS
<1> HIDE DEF found
<1>4. N \in Nat
  <2>1. IsFiniteSet(1 .. Len(Ranked)) /\ DOMAIN Ranked = 1 .. Len(Ranked)
    BY GuiAssumption, FS_Interval
  <2>2. IsFiniteSet(found)
    BY <2>1, <1>2, FS_Subset
  <2> QED
    BY <2>2, FS_CardinalityType
<1>5. candidates = {} => N = 0
  BY <1>3, FS_EmptySet
<1>6. ASSUME NEW n \in 1 .. N
      PROVE  Ranked[at(n)] \in Files
  <2>1. \E i \in found : Cardinality({j \in found : j <= i}) = n
    BY <1>2, Places
  <2>2. at(n) \in found
    BY <2>1
  <2> QED
    BY <2>2, <1>2 DEF Files, ToSet
<1> HIDE DEF N, at
<1> DEFINE r == [n \in 1 .. N |-> Ranked[at(n)]]
<1>7. r \in Seq(Files) /\ Len(r) = N
  BY <1>4, <1>6
<1>8. N = 0 => r = <<>>
  BY <1>4
<1> QED
  BY <1>1, <1>5, <1>7, <1>8
-----------------------------------------------------------------------------
(* The GUI.                                                                   *)

\* What waits for the pool thread.
Rpc == [own : BOOLEAN, kind : {"move", "scroll"}, delta : Moves]

\* The types, by what they are about.
ViewsPart == ViewsTypeOK /\ shown \in 0 .. Len(buffer_views)
CallsPart == /\ pool \in Seq(Rpc)
             /\ gui = "calling" /\ server = "up" => \E i \in DOMAIN pool : pool[i].own
WidgetPart ==
    /\ gui \in {"events", "keys", "calling", "opening", "loading", "draw", "quit", "panicked"}
    /\ completer \in Completer
    /\ highlighted \in Files \cup {NoFile} /\ opening \in Files \cup {NoFile}
    /\ gui \in {"opening", "loading"} => opening # NoFile
ListPart == /\ listing \in [left : SUBSET Files, files : SUBSET Files, walking : BOOLEAN]
            /\ transit \in Seq(Response) /\ values \in Seq(Response)

Typed == ViewsPart /\ CallsPart /\ WidgetPart /\ ListPart

\* The calls that wait for the pool thread are calls, and one of them is awaited.
LEMMA CallsStep ==
    ASSUME CallsPart, Next
    PROVE  CallsPart'
<1>1. ASSUME UNCHANGED <<pool, server>>, UNCHANGED gui \/ gui' # "calling"
      PROVE  CallsPart'
  BY <1>1 DEF CallsPart
<1>2. ASSUME NEW call \in Rpc, pool' = Append(pool, call), call.own \/ UNCHANGED gui,
             UNCHANGED server
      PROVE  CallsPart'
  <2>1. /\ pool' \in Seq(Rpc) /\ Len(pool') = Len(pool) + 1 /\ Len(pool) \in Nat
        /\ pool'[Len(pool) + 1] = call
        /\ \A i \in 1 .. Len(pool) : pool'[i] = pool[i]
    BY <1>2 DEF CallsPart
  <2>2. DOMAIN pool' = 1 .. Len(pool) + 1 /\ DOMAIN pool = 1 .. Len(pool)
    BY <2>1 DEF CallsPart
  <2>3. CASE call.own
    BY <2>1, <2>2, <2>3 DEF CallsPart
  <2>4. CASE UNCHANGED gui
    BY <1>2, <2>1, <2>2, <2>4 DEF CallsPart
  <2> QED
    BY <1>2, <2>3, <2>4
<1>3. ASSUME NEW events, NEW kept, check_if_current_key_match(events, kept), UNCHANGED server
      PROVE  CallsPart'
  <2>1. CASE UNCHANGED <<gui, pool>>
    BY <1>1, <1>3, <2>1
  <2>2. ASSUME NEW k \in Matching(events), lua_call(Keymaps[k])
        PROVE  CallsPart'
    <3> DEFINE call == [own |-> TRUE, kind |-> "move", delta |-> Keymaps[k].delta]
    <3>1. Keymaps[k].delta \in Moves
      BY GuiAssumption DEF Matching
    <3>2. call \in Rpc /\ call.own
      BY <3>1 DEF Rpc
    <3>3. CASE server = "up"
      <4>1. pool' = Append(pool, call)
        BY <2>2, <3>3 DEF lua_call
      <4> HIDE DEF call
      <4> QED
        BY <1>2, <1>3, <3>2, <4>1
    <3>4. CASE server # "up"
      BY <1>3, <2>2, <3>4 DEF lua_call, CallsPart
    <3> QED
      BY <3>3, <3>4
  <2> QED
    BY <1>3, <2>1, <2>2 DEF check_if_current_key_match
<1>4. CASE key_down
  BY <1>3, <1>4 DEF key_down
<1>5. CASE timeout
  BY <1>3, <1>5 DEF timeout
<1>6. CASE handle_events
  <2>1. ASSUME NEW key \in Keys, on_key(key)
        PROVE  UNCHANGED pool /\ gui' # "calling"
    BY <2>1 DEF on_key, Running
  <2>2. ASSUME NEW key \in Keys, handle_key(key)
        PROVE  UNCHANGED pool /\ gui' # "calling"
    BY <2>2 DEF handle_key, open_completer
  <2>3. UNCHANGED <<pool, server>> /\ gui' # "calling"
    BY <1>6, <2>1, <2>2 DEF handle_events
  <2> QED
    BY <1>1, <2>3
<1>7. CASE keys_handled \/ opened \/ loaded \/ draw
  BY <1>1, <1>7 DEF keys_handled, opened, loaded, draw
<1>8. CASE foreign_call
  <2>1. PICK call \in Calls : pool' = Append(pool, call)
    BY <1>8 DEF foreign_call
  <2>2. call \in Rpc
    BY GuiAssumption DEF Rpc
  <2> QED
    BY <1>2, <1>8, <2>1, <2>2 DEF foreign_call, gui_vars
<1>9. CASE run_rpc
  <2>1. /\ pool' \in Seq(Rpc) /\ Len(pool') = Len(pool) - 1
        /\ \A i \in 1 .. Len(pool) - 1 : pool'[i] = pool[i + 1]
        /\ Head(pool) = pool[1] /\ Len(pool) \in Nat \ {0}
        /\ DOMAIN pool' = 1 .. Len(pool) - 1 /\ DOMAIN pool = 1 .. Len(pool)
    BY <1>9 DEF run_rpc, CallsPart
  <2>2. ASSUME gui' = "calling", server' = "up"
        PROVE  \E i \in DOMAIN pool' : pool'[i].own
    <3>1. gui = "calling" /\ server = "up" /\ ~Head(pool).own
      BY <1>9, <2>2 DEF run_rpc
    <3>2. PICK i \in 1 .. Len(pool) : pool[i].own
      BY <2>1, <3>1 DEF CallsPart
    <3>3. i # 1
      BY <2>1, <3>1, <3>2
    <3>4. i - 1 \in 1 .. Len(pool) - 1 /\ (i - 1) + 1 = i
      BY <2>1, <3>3
    <3> QED
      BY <2>1, <3>2, <3>4
  <2> QED
    BY <2>1, <2>2 DEF CallsPart
<1>10. CASE list_file \/ finish_listing \/ deliver
  BY <1>1, <1>10 DEF list_file, finish_listing, deliver, gui_vars
<1>11. CASE visit_dirs_fails
  BY <1>11 DEF visit_dirs_fails, CallsPart, gui_vars
<1> QED
  BY <1>4, <1>5, <1>6, <1>7, <1>8, <1>9, <1>10, <1>11 DEF Next, MainThread, ListThread

\* Only the answer to a buffer.get_content and the RPCs touch the views, as views do.
LEMMA GuiViewsStep ==
    ASSUME Typed, Next
    PROVE  [ViewsNext]_buffer_views
<1>1. CASE UNCHANGED buffer_views
  BY <1>1
<1>2. CASE loaded
  <2>1. gui = "loading" /\ (new_view(Content[opening]) \/ UNCHANGED buffer_views)
    BY <1>2 DEF loaded
  <2>2. opening \in Files
    BY <2>1 DEF Typed, WidgetPart
  <2>3. Content[opening] \in Texts
    BY <2>2, GuiAssumption
  <2> QED
    BY <2>1, <2>3 DEF ViewsNext
<1>3. CASE run_rpc
  <2>1. Head(pool) \in Rpc
    BY <1>3 DEF run_rpc, Typed, CallsPart
  <2>2. Head(pool).delta \in Moves /\ Head(pool).delta.line_index \in Deltas
    BY <2>1 DEF Rpc, Moves
  <2>3. \/ move_cursor(Head(pool).delta)
        \/ \E i \in DOMAIN buffer_views : scroll_view(i, Head(pool).delta.line_index)
        \/ UNCHANGED buffer_views
    BY <1>3 DEF run_rpc
  <2> QED
    BY <2>2, <2>3 DEF ViewsNext
<1>4. ASSUME handle_events
      PROVE  UNCHANGED buffer_views
  BY <1>4 DEF handle_events, on_key, handle_key, open_completer
<1>5. ASSUME key_down \/ timeout \/ keys_handled \/ opened \/ draw
      PROVE  UNCHANGED buffer_views
  BY <1>5 DEF key_down, timeout, keys_handled, opened, draw
<1>6. ASSUME foreign_call \/ list_file \/ finish_listing \/ visit_dirs_fails \/ deliver
      PROVE  UNCHANGED buffer_views
  BY <1>6 DEF foreign_call, list_file, finish_listing, visit_dirs_fails, deliver
<1> QED
  BY <1>1, <1>2, <1>3, <1>4, <1>5, <1>6 DEF Next, MainThread, ListThread

\* The view that is drawn is one of the views.
LEMMA ViewsPartStep ==
    ASSUME Typed, ViewsInv, Next
    PROVE  ViewsPart' /\ ViewsInv'
<1>1. ViewsInv' /\ ViewsTypeOK'
  BY GuiViewsStep, ViewsStep DEF ViewsInv
<1>2. buffer_views \in Seq(View) /\ Len(buffer_views) \in Nat /\ shown \in 0 .. Len(buffer_views)
  BY DEF Typed, ViewsPart, ViewsTypeOK
<1>3. ASSUME UNCHANGED shown, Len(buffer_views') = Len(buffer_views)
      PROVE  shown' \in 0 .. Len(buffer_views')
  BY <1>2, <1>3
<1>4. CASE loaded
  <2>1. CASE shown' = Len(buffer_views) + 1 /\ new_view(Content[opening])
    <3>1. Len(buffer_views') = Len(buffer_views) + 1
      BY <1>2, <2>1 DEF new_view
    <3> QED
      BY <1>1, <1>2, <2>1, <3>1 DEF ViewsPart
  <2> QED
    BY <1>1, <1>3, <1>4, <2>1 DEF loaded, ViewsPart
<1>5. CASE run_rpc
  <2>1. \A i \in DOMAIN buffer_views : \A v : Len([buffer_views EXCEPT ![i] = v]) = Len(buffer_views)
    BY <1>2
  <2>2. Len(buffer_views') = Len(buffer_views)
    <3>1. UNCHANGED buffer_views \/ \E i \in DOMAIN buffer_views : \E v :
                                       buffer_views' = [buffer_views EXCEPT ![i] = v]
      BY <1>5 DEF run_rpc, move_cursor, scroll_view
    <3> QED
      BY <2>1, <3>1
  <2> QED
    BY <1>1, <1>3, <1>5, <2>2 DEF run_rpc, ViewsPart
<1>6. ASSUME handle_events
      PROVE  UNCHANGED <<buffer_views, shown>>
  BY <1>6 DEF handle_events, on_key, handle_key, open_completer
<1>7. ASSUME key_down \/ timeout \/ keys_handled \/ opened \/ draw
      PROVE  UNCHANGED <<buffer_views, shown>>
  BY <1>7 DEF key_down, timeout, keys_handled, opened, draw
<1>8. ASSUME foreign_call \/ list_file \/ finish_listing \/ visit_dirs_fails \/ deliver
      PROVE  UNCHANGED <<buffer_views, shown>>
  BY <1>8 DEF foreign_call, list_file, finish_listing, visit_dirs_fails, deliver, gui_vars
<1> QED
  BY <1>1, <1>3, <1>4, <1>5, <1>6, <1>7, <1>8 DEF Next, MainThread, ListThread, ViewsPart

\* The responses of list_files and the files that it has still to send are files.
LEMMA ListStep ==
    ASSUME ListPart, Next
    PROVE  ListPart'
<1>1. NoListing \in [left : SUBSET Files, files : SUBSET Files, walking : BOOLEAN]
      /\ LastResponse \in Response
  BY DEF NoListing, LastResponse, Response
<1>2. <<>> \in Seq(Response)
  OBVIOUS
<1>3. CASE UNCHANGED list_vars
  BY <1>3 DEF ListPart, list_vars
<1>4. ASSUME close_completer
      PROVE  ListPart'
  BY <1>1, <1>2, <1>4 DEF close_completer, ListPart
<1>5. CASE handle_events
  <2>1. ASSUME NEW key \in Keys, on_key(key)
        PROVE  ListPart'
    BY <1>3, <1>4, <2>1 DEF on_key, Running
  <2>2. ASSUME open_completer
        PROVE  ListPart'
    BY <1>2, <2>2 DEF open_completer, ListPart
  <2>3. ASSUME NEW key \in Keys, handle_key(key)
        PROVE  ListPart'
    BY <1>3, <2>2, <2>3 DEF handle_key
  <2> QED
    BY <1>3, <1>5, <2>1, <2>3 DEF handle_events
<1>6. CASE draw
  BY <1>2, <1>6 DEF draw, ListPart
<1>7. CASE list_file
  <2>1. PICK f \in listing.left :
          \/ /\ listing' = [listing EXCEPT !.left = @ \ {f}, !.files = listing.files \cup {f}]
             /\ UNCHANGED transit
          \/ /\ listing' = [listing EXCEPT !.left = @ \ {f}, !.files = {}]
             /\ transit' = Append(transit, Partial(listing.files \cup {f}))
    BY <1>7 DEF list_file
  <2>2. f \in Files /\ listing.files \subseteq Files /\ listing.left \subseteq Files
    BY <2>1 DEF ListPart
  <2>3. Partial(listing.files \cup {f}) \in Response
    BY <2>2 DEF Partial, Response
  <2>4. listing' \in [left : SUBSET Files, files : SUBSET Files, walking : BOOLEAN]
    <3>1. listing.left \ {f} \in SUBSET Files /\ listing.files \cup {f} \in SUBSET Files
          /\ {} \in SUBSET Files
      BY <2>2
    <3>2. listing \in [left : SUBSET Files, files : SUBSET Files, walking : BOOLEAN]
      BY DEF ListPart
    <3>3. \A l, g \in SUBSET Files :
             [listing EXCEPT !.left = l, !.files = g]
                \in [left : SUBSET Files, files : SUBSET Files, walking : BOOLEAN]
      BY <3>2
    <3>4. CASE listing' = [listing EXCEPT !.left = @ \ {f}, !.files = listing.files \cup {f}]
      <4>1. listing' = [listing EXCEPT !.left = listing.left \ {f},
                                       !.files = listing.files \cup {f}]
        BY <3>4
      <4> QED
        BY <3>1, <3>3, <4>1
    <3>5. CASE listing' = [listing EXCEPT !.left = @ \ {f}, !.files = {}]
      <4>1. listing' = [listing EXCEPT !.left = listing.left \ {f}, !.files = {}]
        BY <3>5
      <4> QED
        BY <3>1, <3>3, <4>1
    <3> QED
      BY <2>1, <3>4, <3>5
  <2>5. transit' \in Seq(Response) /\ UNCHANGED values
    BY <1>7, <2>1, <2>3 DEF ListPart, list_file
  <2> QED
    BY <2>4, <2>5 DEF ListPart
<1>8. CASE finish_listing
  <2>1. Partial(listing.files) \in Response
    BY DEF ListPart, Partial, Response
  <2>2. <<Partial(listing.files), LastResponse>> \in Seq(Response)
    BY <1>1, <2>1
  <2>3. transit' \in Seq(Response) /\ UNCHANGED values /\ listing' = NoListing
    BY <1>8, <2>2 DEF ListPart, finish_listing
  <2> QED
    BY <1>1, <2>3 DEF ListPart
<1>9. CASE visit_dirs_fails
  BY <1>1, <1>9 DEF visit_dirs_fails, ListPart
<1>10. CASE deliver
  BY <1>10 DEF deliver, ListPart
<1>11. CASE key_down \/ timeout \/ keys_handled \/ opened \/ loaded
  BY <1>3, <1>11 DEF key_down, timeout, keys_handled, opened, loaded
<1>12. CASE foreign_call \/ run_rpc
  BY <1>3, <1>12 DEF foreign_call, run_rpc
<1> QED
  BY <1>5, <1>6, <1>7, <1>8, <1>9, <1>10, <1>11, <1>12 DEF Next, MainThread, ListThread

\* A file that a widget selects is one of its results.
LEMMA SelectedType ==
    ASSUME NEW w \in Completer
    PROVE  Selected(w) \in Files \cup {NoFile}
<1>1. w.results \in Seq(Files) /\ w.selection_index \in Int
  BY DEF Completer
<1> QED
  BY <1>1 DEF Selected

\* A draw leaves the query and takes the files of the updates as candidates.
LEMMA DrawnType ==
    ASSUME NEW w \in Completer, ListPart
    PROVE  Drawn(w) \in Completer
<1> DEFINE updates == ToSet(values) \ {LastResponse}
           candidates == w.candidates \cup UNION {u.files : u \in updates}
           kept == IF updates = {} THEN w.results ELSE <<>>
           results == IF kept = <<>> THEN Query(candidates, w.query) ELSE kept
           done == w.done \/ LastResponse \in ToSet(values)
           index == IF results = <<>> THEN w.selection_index
                    ELSE clamp(0, Len(results) - 1, w.selection_index)
<1>1. Drawn(w) = [w EXCEPT !.candidates = candidates, !.results = results, !.done = done,
                           !.selection_index = index]
  BY DEF Drawn
<1>2. \A u \in ToSet(values) : u \in Response
  BY DEF ToSet, ListPart
<1>3. candidates \subseteq Files
  BY <1>2 DEF Completer, Response
<1>4. results \in Seq(Files)
  BY QueryType DEF Completer
<1>5. index \in Int
  <2>1. Len(results) \in Nat /\ w.selection_index \in Int
    BY <1>4 DEF Completer
  <2> HIDE DEF results
  <2> QED
    BY <2>1 DEF clamp, min, max
<1>6. done \in BOOLEAN
  BY DEF Completer
<1> HIDE DEF candidates, results, done, index
<1> QED
  BY <1>1, <1>3, <1>4, <1>5, <1>6 DEF Completer

\* The states of the main thread and of its widget.
LEMMA WidgetStep ==
    ASSUME Typed, Next
    PROVE  WidgetPart'
<1> USE DEF Typed
<1>1. NoCompleter \in Completer /\ [NoCompleter EXCEPT !.open = TRUE] \in Completer
  <2> DEFINE chars == {k[2] : k \in {k \in Keys : k[1] = "Char"}}
  <2>1. \A S : <<>> \in Seq(S)
    OBVIOUS
  <2>2. <<>> \in Seq(chars) /\ <<>> \in Seq(Files)
    BY <2>1
  <2> HIDE DEF chars
  <2>3. Completer = [query : Seq(chars), candidates : SUBSET Files, results : Seq(Files),
                     selection_index : Int, done : BOOLEAN, open : BOOLEAN]
    BY DEF Completer, chars
  <2>4. NoCompleter \in Completer
    BY <2>2, <2>3 DEF NoCompleter
  <2>5. \A w \in Completer : [w EXCEPT !.open = TRUE] \in Completer
    BY <2>3
  <2> QED
    BY <2>4, <2>5
<1>2. ASSUME UNCHANGED <<completer, highlighted, opening>>,
             gui' \in {"events", "keys", "calling", "draw", "quit", "panicked"} \/ UNCHANGED gui
      PROVE  WidgetPart'
  BY <1>2 DEF WidgetPart
<1>3. ASSUME completer' \in Completer, UNCHANGED <<highlighted, opening>>, gui' = "draw"
      PROVE  WidgetPart'
  BY <1>3 DEF WidgetPart
<1>4. ASSUME NEW key \in Keys, on_key(key), UNCHANGED highlighted
      PROVE  WidgetPart'
  <2>1. ASSUME NEW w \in Completer, Running(w)
        PROVE  WidgetPart'
    BY <1>3, <1>4, <2>1 DEF Running
  <2>2. key[1] \in {"Char", "Backspace"} => edit_query(key) \in Completer
    <3> DEFINE chars == {k[2] : k \in {k \in Keys : k[1] = "Char"}}
               q == completer.query
    <3>1. q \in Seq(chars) /\ completer \in Completer
      BY DEF WidgetPart, Completer
    <3>2. key[1] = "Char" => key[2] \in chars
      OBVIOUS
    <3> HIDE DEF chars, q
    <3>3. q # <<>> => Front(q) \in Seq(chars)
      BY <3>1 DEF Front
    <3>4. key[1] = "Char" => Append(q, key[2]) \in Seq(chars)
      BY <3>1, <3>2
    <3> DEFINE query == CASE key[1] = "Char" -> Append(q, key[2])
                          [] OTHER -> IF q = <<>> THEN q ELSE Front(q)
    <3>5. query \in Seq(chars)
      BY <3>1, <3>3, <3>4
    <3>6. edit_query(key) = [completer EXCEPT !.query = query, !.results = <<>>]
      BY DEF edit_query, q
    <3> HIDE DEF query
    <3>7. <<>> \in Seq(Files)
      OBVIOUS
    <3> QED
      BY <3>1, <3>5, <3>6, <3>7 DEF Completer, chars
  <2>3. move_selection(key) \in Completer
    <3> DEFINE index == IF key = <<"Down">> THEN completer.selection_index + 1
                        ELSE completer.selection_index - 1
    <3>1. completer \in Completer /\ index \in Int
      BY DEF WidgetPart, Completer
    <3>2. move_selection(key) = [completer EXCEPT !.selection_index = index]
      BY DEF move_selection
    <3> HIDE DEF index
    <3> QED
      BY <3>1, <3>2 DEF Completer
  <2>4. completer \in Completer
    BY DEF WidgetPart
  <2>5. ASSUME close_completer, gui' = "draw", UNCHANGED opening
        PROVE  WidgetPart'
    BY <1>1, <1>3, <1>4, <2>5 DEF close_completer
  <2>6. ASSUME completer.results # <<>>, close_completer, gui' = "opening",
               opening' = completer.results[
                  clamp(0, Len(completer.results) - 1, completer.selection_index) + 1]
        PROVE  WidgetPart'
    <3> DEFINE r == completer.results
               i == clamp(0, Len(r) - 1, completer.selection_index)
    <3>1. r \in Seq(Files) /\ Len(r) \in Nat \ {0} /\ completer.selection_index \in Int
      BY <2>4, <2>6 DEF Completer
    <3> HIDE DEF r
    <3>2. i + 1 \in 1 .. Len(r)
      BY <3>1 DEF clamp, max, min
    <3>3. opening' = r[i + 1]
      BY <2>6 DEF r
    <3> HIDE DEF i
    <3>4. opening' \in Files /\ opening' # NoFile
      BY <3>1, <3>2, <3>3, GuiAssumption
    <3> QED
      BY <1>1, <1>4, <2>6, <3>4 DEF WidgetPart, close_completer
  <2> QED
    BY <1>4, <2>1, <2>2, <2>3, <2>4, <2>5, <2>6 DEF on_key
<1>5. ASSUME NEW key \in Keys, handle_key(key), UNCHANGED highlighted
      PROVE  WidgetPart'
  BY <1>1, <1>2, <1>3, <1>5 DEF handle_key, open_completer
<1>6. CASE handle_events
  <2>1. UNCHANGED highlighted
    BY <1>6 DEF handle_events
  <2>2. \/ gui' = "draw" /\ UNCHANGED <<completer, opening>>
        \/ \E key \in Keys : on_key(key) \/ handle_key(key)
    BY <1>6 DEF handle_events
  <2> QED
    BY <1>2, <1>4, <1>5, <2>1, <2>2
<1>7. CASE draw
  <2>1. completer' \in Completer
    BY <1>7, DrawnType DEF draw, WidgetPart
  <2>2. highlighted' \in Files \cup {NoFile}
    <3>1. highlighted' = Selected(completer') \/ highlighted' = NoFile
      BY <1>7 DEF draw
    <3>2. ASSUME NEW w, w = completer'
          PROVE  Selected(w) \in Files \cup {NoFile}
      BY <2>1, <3>2, SelectedType
    <3> QED
      BY <3>1, <3>2
  <2> QED
    BY <1>7, <2>1, <2>2 DEF draw, WidgetPart
<1>8. CASE key_down
  BY <1>2, <1>8 DEF key_down, check_if_current_key_match, lua_call
<1>9. CASE timeout
  BY <1>2, <1>9 DEF timeout, check_if_current_key_match, lua_call
<1>10. CASE keys_handled
  BY <1>2, <1>10 DEF keys_handled
<1>11. CASE opened
  BY <1>11 DEF opened, WidgetPart
<1>12. CASE loaded
  BY <1>12 DEF loaded, WidgetPart
<1>13. CASE foreign_call \/ list_file \/ finish_listing \/ visit_dirs_fails \/ deliver
  BY <1>2, <1>13 DEF foreign_call, list_file, finish_listing, visit_dirs_fails, deliver, gui_vars
<1>14. CASE run_rpc
  BY <1>2, <1>14 DEF run_rpc
<1> QED
  BY <1>6, <1>7, <1>8, <1>9, <1>10, <1>11, <1>12, <1>13, <1>14 DEF Next, MainThread, ListThread

-----------------------------------------------------------------------------
(* What the completer shows.                                                  *)

\* The results on the screen: of the query and the candidates as they are, or none
\* at all until the next draw; and the file that Enter would select.
Fresh ==
    /\ ~completer.open => completer = NoCompleter
    /\ completer.results \in {<<>>, Query(completer.candidates, completer.query)}
    /\ gui = "events" => completer.results = Query(completer.candidates, completer.query)
Pointed ==
    /\ gui = "events" /\ completer.open =>
          /\ highlighted = Selected(completer)
          /\ completer.results # <<>> =>
                completer.selection_index \in 0 .. Len(completer.results) - 1
    /\ gui = "opening" => opening = highlighted

\* A draw leaves results that answer the query as it stands, and a selection in them.
LEMMA DrawnFresh ==
    ASSUME NEW w \in Completer, ListPart,
           w.results \in {<<>>, Query(w.candidates, w.query)}
    PROVE  /\ Drawn(w).results = Query(Drawn(w).candidates, Drawn(w).query)
           /\ Drawn(w).results # <<>> =>
                 Drawn(w).selection_index \in 0 .. Len(Drawn(w).results) - 1
           /\ Drawn(w).open = w.open
           /\ Drawn(w).done = (w.done \/ LastResponse \in ToSet(values))
           /\ Drawn(w).candidates
                = w.candidates \cup UNION {u.files : u \in ToSet(values) \ {LastResponse}}
<1> DEFINE updates == ToSet(values) \ {LastResponse}
           candidates == w.candidates \cup UNION {u.files : u \in updates}
           kept == IF updates = {} THEN w.results ELSE <<>>
           results == IF kept = <<>> THEN Query(candidates, w.query) ELSE kept
           done == w.done \/ LastResponse \in ToSet(values)
           index == IF results = <<>> THEN w.selection_index
                    ELSE clamp(0, Len(results) - 1, w.selection_index)
           d == [w EXCEPT !.candidates = candidates, !.results = results, !.done = done,
                          !.selection_index = index]
<1>1. Drawn(w) = d
  BY DEF Drawn
<1>2. results = Query(candidates, w.query)
  <2>1. updates = {} => candidates = w.candidates
    OBVIOUS
  <2> HIDE DEF updates, candidates
  <2> QED
    BY <2>1
<1>3. results # <<>> => index \in 0 .. Len(results) - 1
  <2>1. results \in Seq(Files) /\ w.selection_index \in Int
    BY <1>2, QueryType DEF Completer
  <2> HIDE DEF results
  <2>2. results # <<>> => Len(results) \in Nat \ {0}
    BY <2>1
  <2> QED
    BY <2>1, <2>2 DEF clamp, max, min
<1> HIDE DEF candidates, results, done, index
<1>4. /\ d.candidates = candidates /\ d.results = results /\ d.done = done
      /\ d.selection_index = index /\ d.open = w.open /\ d.query = w.query
  BY DEF Completer
<1> HIDE DEF d
<1>5. Drawn(w).candidates
        = w.candidates \cup UNION {u.files : u \in ToSet(values) \ {LastResponse}}
  BY <1>1, <1>4 DEF candidates
<1>6. Drawn(w).done = (w.done \/ LastResponse \in ToSet(values))
  BY <1>1, <1>4 DEF done
<1> QED
  BY <1>1, <1>2, <1>3, <1>4, <1>5, <1>6

\* A widget without results shows nothing that is old.
LEMMA NoResultsFresh ==
    /\ NoCompleter.results = Query(NoCompleter.candidates, NoCompleter.query)
    /\ NoCompleter.results = <<>> /\ ~NoCompleter.open
    /\ [NoCompleter EXCEPT !.open = TRUE].results = <<>>
    /\ [NoCompleter EXCEPT !.open = TRUE].open
BY QueryType DEF NoCompleter

\* The main thread leaves the state "events" only through draw, and the state
\* "opening" is entered only by Enter.
LEMMA FreshStep ==
    ASSUME Typed, Fresh, Pointed, Next
    PROVE  Fresh' /\ Pointed'
<1> DEFINE Query0 == Query(completer.candidates, completer.query)
<1>0. completer \in Completer
  BY DEF Typed, WidgetPart
<1>1. ASSUME UNCHANGED <<completer, highlighted>>, gui' # "events",
             gui' = "opening" => gui = "opening" /\ UNCHANGED opening
      PROVE  Fresh' /\ Pointed'
  BY <1>1 DEF Fresh, Pointed
<1>2. ASSUME UNCHANGED <<completer, highlighted, opening, gui>>
      PROVE  Fresh' /\ Pointed'
  BY <1>2 DEF Fresh, Pointed, Selected
<1>3. ASSUME NEW w, completer' = w, gui' # "events", gui' # "opening",
             ~w.open => w = NoCompleter, w.results \in {<<>>, Query(w.candidates, w.query)}
      PROVE  Fresh' /\ Pointed'
  BY <1>3 DEF Fresh, Pointed
<1>4. CASE draw
  <2>1. CASE completer.open
    <3> DEFINE w == Drawn(completer)
    <3>1. completer' = w /\ highlighted' = Selected(completer') /\ gui' = "events"
      BY <1>4, <2>1 DEF draw
    <3>2. /\ w.results = Query(w.candidates, w.query)
          /\ w.results # <<>> => w.selection_index \in 0 .. Len(w.results) - 1
          /\ w.open
      BY <1>0, <2>1, DrawnFresh DEF Fresh, Typed
    <3> HIDE DEF w
    <3> QED
      BY <3>1, <3>2 DEF Fresh, Pointed
  <2>2. CASE ~completer.open
    <3>1. completer' = NoCompleter /\ gui' = "events"
      BY <1>4, <2>2 DEF draw, Fresh
    <3> QED
      BY <3>1, NoResultsFresh DEF Fresh, Pointed
  <2> QED
    BY <2>1, <2>2
<1>5. ASSUME NEW key \in Keys, on_key(key), completer.open, gui = "events", UNCHANGED highlighted
      PROVE  Fresh' /\ Pointed'
  <2>1. ASSUME NEW w, Running(w), w.open, w.results \in {<<>>, Query(w.candidates, w.query)}
        PROVE  Fresh' /\ Pointed'
    BY <1>3, <2>1 DEF Running
  <2>2. edit_query(key).open /\ edit_query(key).results = <<>>
    BY <1>0, <1>5 DEF edit_query, Completer
  <2>3. /\ move_selection(key).open
        /\ move_selection(key).results = completer.results
        /\ move_selection(key).candidates = completer.candidates
        /\ move_selection(key).query = completer.query
    BY <1>0, <1>5 DEF move_selection, Completer
  <2>4. completer.results \in {<<>>, Query0}
    BY DEF Fresh
  <2>5. ASSUME close_completer, gui' = "draw"
        PROVE  Fresh' /\ Pointed'
    BY <1>3, <2>5, NoResultsFresh DEF close_completer
  <2>6. ASSUME completer.results # <<>>, close_completer, gui' = "opening",
               opening' = completer.results[
                  clamp(0, Len(completer.results) - 1, completer.selection_index) + 1]
        PROVE  Fresh' /\ Pointed'
    <3> DEFINE r == completer.results
               i == completer.selection_index
    <3>1. r \in Seq(Files) /\ i \in 0 .. Len(r) - 1 /\ highlighted = Selected(completer)
      BY <1>0, <1>5, <2>6 DEF Completer, Pointed
    <3>2. Selected(completer) = IF i \in 0 .. Len(r) - 1 THEN r[i + 1] ELSE NoFile
      BY DEF Selected
    <3>3. opening' = r[clamp(0, Len(r) - 1, i) + 1]
      BY <2>6
    <3> HIDE DEF r, i
    <3>4. clamp(0, Len(r) - 1, i) = i
      BY <3>1 DEF clamp, max, min
    <3>5. opening' = highlighted'
      BY <1>5, <3>1, <3>2, <3>3, <3>4
    <3>6. completer' = NoCompleter
      BY <2>6 DEF close_completer
    <3> QED
      BY <2>6, <3>5, <3>6, NoResultsFresh DEF Fresh, Pointed
  <2> QED
    BY <1>5, <2>1, <2>2, <2>3, <2>4, <2>5, <2>6 DEF on_key
<1>6. ASSUME NEW key \in Keys, handle_key(key), UNCHANGED highlighted
      PROVE  Fresh' /\ Pointed'
  <2>1. CASE open_completer
    BY <1>3, <2>1, NoResultsFresh DEF open_completer
  <2>2. CASE UNCHANGED completer /\ gui' \in {"quit", "keys"}
    BY <1>1, <1>6, <2>2
  <2> QED
    BY <1>6, <2>1, <2>2 DEF handle_key
<1>7. CASE handle_events
  <2>1. UNCHANGED highlighted /\ gui = "events"
    BY <1>7 DEF handle_events
  <2>2. \/ gui' = "draw" /\ UNCHANGED completer
        \/ \E key \in Keys : IF completer.open THEN on_key(key) ELSE handle_key(key)
    BY <1>7 DEF handle_events
  <2> QED
    BY <1>1, <1>5, <1>6, <2>1, <2>2
<1>8. CASE key_down
  BY <1>1, <1>8 DEF key_down, check_if_current_key_match, lua_call
<1>9. CASE timeout
  BY <1>1, <1>9 DEF timeout, check_if_current_key_match, lua_call
<1>10. CASE keys_handled \/ opened \/ loaded
  BY <1>1, <1>10 DEF keys_handled, opened, loaded
<1>11. CASE foreign_call \/ list_file \/ finish_listing \/ visit_dirs_fails \/ deliver
  BY <1>2, <1>11 DEF foreign_call, list_file, finish_listing, visit_dirs_fails, deliver, gui_vars
<1>12. CASE run_rpc
  BY <1>1, <1>2, <1>12 DEF run_rpc
<1> QED
  BY <1>4, <1>7, <1>8, <1>9, <1>10, <1>11, <1>12 DEF Next, MainThread, ListThread

-----------------------------------------------------------------------------
(* What list_files sends.                                                     *)

\* No file is in two places.
Apart ==
    /\ \A i, j \in DOMAIN transit : i # j => transit[i].files \cap transit[j].files = {}
    /\ \A i, j \in DOMAIN values : i # j => values[i].files \cap values[j].files = {}
    /\ \A i \in DOMAIN transit, j \in DOMAIN values : transit[i].files \cap values[j].files = {}
    /\ \A i \in DOMAIN transit :
          transit[i].files \cap (listing.files \cup listing.left \cup completer.candidates) = {}
    /\ \A i \in DOMAIN values :
          values[i].files \cap (listing.files \cup listing.left \cup completer.candidates) = {}
    /\ listing.files \cap (listing.left \cup completer.candidates) = {}
    /\ listing.left \cap completer.candidates = {}

LastSent == \E i \in DOMAIN transit : transit[i] = LastResponse
LastHere == \E i \in DOMAIN values : values[i] = LastResponse
Somewhere(f) ==
    \/ \E i \in DOMAIN transit : f \in transit[i].files
    \/ \E i \in DOMAIN values : f \in values[i].files
    \/ f \in listing.files \cup listing.left \cup completer.candidates

\* The last response is the last one that is sent, and nothing is left to list then.
Ends ==
    /\ listing.walking => ~LastSent /\ ~LastHere /\ ~completer.done
    /\ LastSent \/ LastHere \/ completer.done => listing.left = {} /\ listing.files = {}
    /\ \A i \in DOMAIN transit : transit[i] = LastResponse => i = Len(transit)
    /\ LastHere => transit = <<>>
    /\ completer.done => transit = <<>> /\ values = <<>> /\ completer.candidates = Files

\* Until the listing fails no file gets lost.
Kept ==
    listing.walking \/ LastSent \/ LastHere \/ completer.done => \A f \in Files : Somewhere(f)

\* With no completer nothing is listed.
Closed == ~completer.open => listing = NoListing /\ transit = <<>> /\ values = <<>>

Listed == Apart /\ Ends /\ Kept /\ Closed

\* Where the files are depends on four parts of the state.
LEMMA ListedSame ==
    ASSUME Listed, UNCHANGED list_vars, completer'.candidates = completer.candidates,
           completer'.done = completer.done, completer'.open = completer.open
    PROVE  Listed'
<1>1. UNCHANGED <<listing, transit, values>>
  BY DEF list_vars
<1>2. Apart'
  BY <1>1 DEF Listed, Apart
<1>3. (LastSent' <=> LastSent) /\ (LastHere' <=> LastHere)
  BY <1>1 DEF LastSent, LastHere
<1>4. Ends'
  BY <1>1, <1>3 DEF Listed, Ends
<1>5. ASSUME NEW f, Somewhere(f)
      PROVE  Somewhere(f)'
  BY <1>1, <1>5 DEF Somewhere
<1>6. Kept'
  BY <1>1, <1>3, <1>5 DEF Listed, Kept
<1>7. Closed'
  BY <1>1 DEF Listed, Closed
<1> QED
  BY <1>2, <1>4, <1>6, <1>7 DEF Listed

\* A listing begins with all files still to be visited, or does not begin at all.
LEMMA ListedAnew ==
    ASSUME transit' = <<>>, values' = <<>>, completer'.candidates = {}, ~completer'.done,
           listing'.files = {}, \/ listing' = NoListing
                                \/ listing'.left = Files /\ completer'.open
    PROVE  Listed'
<1>1. DOMAIN transit' = {} /\ DOMAIN values' = {}
  OBVIOUS
<1>2. ~LastSent' /\ ~LastHere'
  BY <1>1 DEF LastSent, LastHere
<1>3. Apart'
  BY <1>1 DEF Apart
<1>4. Ends'
  BY <1>1, <1>2 DEF Ends
<1>5. Kept'
  <2>1. CASE listing' = NoListing
    BY <1>2, <2>1 DEF Kept, NoListing
  <2>2. ASSUME listing'.left = Files, NEW f \in Files
        PROVE  Somewhere(f)'
    BY <2>2 DEF Somewhere
  <2> QED
    BY <2>1, <2>2 DEF Kept
<1>6. Closed'
  BY DEF Closed
<1> QED
  BY <1>3, <1>4, <1>5, <1>6 DEF Listed

\* A draw makes candidates of all files that have come.
LEMMA ListedDraw ==
    ASSUME Typed, Fresh, Listed, draw
    PROVE  Listed'
<1>0. /\ transit \in Seq(Response) /\ values \in Seq(Response) /\ completer \in Completer
      /\ UNCHANGED <<listing, transit>>
  BY DEF draw, Typed, ListPart, WidgetPart
<1>1. CASE ~completer.open
  BY <1>0, <1>1, ListedSame DEF draw, list_vars
<1>2. CASE completer.open
  <2> DEFINE d == Drawn(completer)
  <2>1. completer' = d /\ values' = <<>>
    BY <1>2 DEF draw
  <2>2. /\ d.open /\ d.done = (completer.done \/ LastResponse \in ToSet(values))
        /\ d.candidates
             = completer.candidates \cup UNION {u.files : u \in ToSet(values) \ {LastResponse}}
    BY <1>0, <1>2, DrawnFresh DEF Fresh, Typed
  <2>3. d.done <=> completer.done \/ LastHere
    BY <1>0, <2>2 DEF LastHere, ToSet, Completer
  <2>4. \A f : f \in d.candidates <=> \/ f \in completer.candidates
                                      \/ \E i \in DOMAIN values : f \in values[i].files
    <3>1. LastResponse.files = {}
      BY DEF LastResponse
    <3> QED
      BY <2>2, <3>1 DEF ToSet
  <2> HIDE DEF d
  <2>5. DOMAIN values' = {} /\ ~LastHere'
    BY <2>1 DEF LastHere
  <2>6. LastSent' <=> LastSent
    BY <1>0 DEF LastSent
  <2>7. Apart'
    <3>1. \A i \in DOMAIN transit : transit[i].files \cap d.candidates = {}
      BY <2>4 DEF Listed, Apart
    <3>2. listing.files \cap d.candidates = {} /\ listing.left \cap d.candidates = {}
      BY <2>4 DEF Listed, Apart
    <3> QED
      BY <1>0, <2>1, <2>5, <3>1, <3>2 DEF Listed, Apart
  <2>8. ASSUME NEW f, Somewhere(f)
        PROVE  Somewhere(f)'
    BY <1>0, <2>1, <2>4, <2>8 DEF Somewhere
  <2>9. ASSUME completer.done \/ LastHere
        PROVE  transit = <<>> /\ d.candidates = Files /\ listing.left = {} /\ listing.files = {}
    <3>1. transit = <<>> /\ listing.left = {} /\ listing.files = {}
      BY <2>9 DEF Listed, Ends
    <3>2. \A f \in Files : Somewhere(f)
      BY <2>9 DEF Listed, Kept
    <3>3. Files \subseteq d.candidates
      BY <2>4, <3>1, <3>2 DEF Somewhere
    <3>4. ASSUME NEW i \in DOMAIN values
          PROVE  values[i].files \subseteq Files
      <4>1. values[i] \in Response
        BY <1>0
      <4> QED
        BY <4>1 DEF Response
    <3>5. d.candidates \subseteq Files
      BY <1>0, <2>4, <3>4 DEF Completer
    <3> QED
      BY <3>1, <3>3, <3>5
  <2>10. Ends'
    BY <1>0, <2>1, <2>3, <2>5, <2>6, <2>9 DEF Listed, Ends
  <2>11. Kept'
    BY <1>0, <2>1, <2>3, <2>5, <2>6, <2>8 DEF Listed, Kept
  <2>12. Closed'
    BY <2>1, <2>2 DEF Closed
  <2> QED
    BY <2>7, <2>10, <2>11, <2>12 DEF Listed
<1> QED
  BY <1>1, <1>2

\* A file that is visited waits to be sent, or is sent with those that waited.
LEMMA ListedFile ==
    ASSUME Typed, Listed, list_file
    PROVE  Listed'
<1>1. /\ transit \in Seq(Response) /\ listing.walking /\ UNCHANGED <<values, completer>>
      /\ listing \in [left : SUBSET Files, files : SUBSET Files, walking : BOOLEAN]
  BY DEF list_file, gui_vars, Typed, ListPart
<1>2. PICK f \in listing.left :
          \/ /\ listing' = [listing EXCEPT !.left = @ \ {f}, !.files = listing.files \cup {f}]
             /\ UNCHANGED transit
          \/ /\ listing' = [listing EXCEPT !.left = @ \ {f}, !.files = {}]
             /\ transit' = Append(transit, Partial(listing.files \cup {f}))
  BY DEF list_file
<1>3. ~LastSent /\ ~LastHere /\ ~completer.done
  BY <1>1 DEF Listed, Ends
<1>4. completer.open
  BY <1>1 DEF Listed, Closed, NoListing
<1>5. CASE listing' = [listing EXCEPT !.left = @ \ {f}, !.files = listing.files \cup {f}]
           /\ UNCHANGED transit
  <2>1. /\ listing'.left = listing.left \ {f} /\ listing'.files = listing.files \cup {f}
        /\ listing'.walking
    BY <1>1, <1>5
  <2>2. Apart'
    BY <1>1, <1>2, <1>5, <2>1 DEF Listed, Apart
  <2>3. ~LastSent' /\ ~LastHere'
    BY <1>1, <1>3, <1>5 DEF LastSent, LastHere
  <2>4. Ends'
    BY <1>1, <1>3, <2>3, <1>5 DEF Ends, Listed, LastSent
  <2>5. ASSUME NEW g, Somewhere(g)
        PROVE  Somewhere(g)'
    BY <1>1, <1>5, <2>1, <2>5 DEF Somewhere
  <2>6. Kept' /\ Closed'
    BY <1>1, <1>4, <2>5 DEF Listed, Kept, Closed
  <2> QED
    BY <2>2, <2>4, <2>6 DEF Listed
<1>6. CASE listing' = [listing EXCEPT !.left = @ \ {f}, !.files = {}]
           /\ transit' = Append(transit, Partial(listing.files \cup {f}))
  <2> DEFINE p == Partial(listing.files \cup {f})
             n == Len(transit)
  <2>1. listing'.left = listing.left \ {f} /\ listing'.files = {} /\ listing'.walking
    BY <1>1, <1>6
  <2>2. p.files = listing.files \cup {f} /\ p # LastResponse
    BY DEF Partial, LastResponse
  <2>3. /\ n \in Nat /\ DOMAIN transit = 1 .. n /\ DOMAIN transit' = 1 .. n + 1
        /\ transit'[n + 1] = p /\ \A i \in 1 .. n : transit'[i] = transit[i]
    BY <1>1, <1>6
  <2> HIDE DEF p, n
  <2>4. Apart'
    <3>1. \A i \in 1 .. n : transit[i].files \cap p.files = {}
      BY <1>2, <2>2, <2>3 DEF Listed, Apart
    <3>2. \A i \in DOMAIN values : values[i].files \cap p.files = {}
      BY <1>2, <2>2 DEF Listed, Apart
    <3>3. p.files \cap listing'.left = {} /\ p.files \cap completer.candidates = {}
      BY <1>2, <2>1, <2>2 DEF Listed, Apart
    <3>4. \A i, j \in DOMAIN transit' : i # j => transit'[i].files \cap transit'[j].files = {}
      <4>1. SUFFICES ASSUME NEW i \in 1 .. n + 1, NEW j \in 1 .. n + 1, i # j
                     PROVE  transit'[i].files \cap transit'[j].files = {}
        BY <2>3
      <4>2. CASE i \in 1 .. n /\ j \in 1 .. n
        BY <2>3, <4>1, <4>2 DEF Listed, Apart
      <4>3. CASE i = n + 1
        <5>1. j \in 1 .. n
          BY <2>3, <4>1, <4>3
        <5> QED
          BY <2>3, <3>1, <4>3, <5>1
      <4>4. CASE j = n + 1
        <5>1. i \in 1 .. n
          BY <2>3, <4>1, <4>4
        <5> QED
          BY <2>3, <3>1, <4>4, <5>1
      <4> QED
        BY <2>3, <4>2, <4>3, <4>4
    <3>5. \A i \in DOMAIN transit', j \in DOMAIN values :
             transit'[i].files \cap values[j].files = {}
      <4>1. SUFFICES ASSUME NEW i \in 1 .. n + 1, NEW j \in DOMAIN values
                     PROVE  transit'[i].files \cap values[j].files = {}
        BY <2>3
      <4>2. CASE i \in 1 .. n
        BY <2>3, <4>2 DEF Listed, Apart
      <4>3. CASE i = n + 1
        BY <2>3, <3>2, <4>3
      <4> QED
        BY <2>3, <4>2, <4>3
    <3>6. \A i \in DOMAIN transit' :
             transit'[i].files \cap (listing'.left \cup completer.candidates) = {}
      <4>1. SUFFICES ASSUME NEW i \in 1 .. n + 1
                     PROVE  transit'[i].files \cap (listing'.left \cup completer.candidates) = {}
        BY <2>3
      <4>2. CASE i \in 1 .. n
        BY <2>1, <2>3, <4>2 DEF Listed, Apart
      <4>3. CASE i = n + 1
        BY <2>3, <3>3, <4>3
      <4> QED
        BY <2>3, <4>2, <4>3
    <3>7. \A i \in DOMAIN values :
             values[i].files \cap (listing'.left \cup completer.candidates) = {}
      BY <2>1 DEF Listed, Apart
    <3>8. listing'.left \cap completer.candidates = {}
      BY <2>1 DEF Listed, Apart
    <3>9. \A i, j \in DOMAIN values : i # j => values[i].files \cap values[j].files = {}
      BY DEF Listed, Apart
    <3> QED
      BY <1>1, <2>1, <3>4, <3>5, <3>6, <3>7, <3>8, <3>9 DEF Apart
  <2>5. ~LastSent' /\ ~LastHere'
    <3>1. \A i \in 1 .. n + 1 : i \in 1 .. n \/ i = n + 1
      BY <2>3
    <3> QED
      BY <1>1, <1>3, <2>2, <2>3, <3>1 DEF LastSent, LastHere
  <2>6. Ends'
    BY <1>1, <1>3, <2>5 DEF Ends, LastSent
  <2>7. ASSUME NEW g, Somewhere(g)
        PROVE  Somewhere(g)'
    <3>1. n + 1 \in DOMAIN transit' /\ 1 .. n \subseteq 1 .. n + 1
      BY <2>3
    <3> QED
      BY <1>1, <2>1, <2>2, <2>3, <2>7, <3>1 DEF Somewhere
  <2>8. Kept' /\ Closed'
    BY <1>1, <1>4, <2>7 DEF Listed, Kept, Closed
  <2> QED
    BY <2>4, <2>6, <2>8 DEF Listed
<1> QED
  BY <1>2, <1>5, <1>6

\* The last response follows the files that waited.
LEMMA ListedFinish ==
    ASSUME Typed, Listed, finish_listing
    PROVE  Listed'
<1> DEFINE p == Partial(listing.files)
           n == Len(transit)
<1>1. /\ transit \in Seq(Response) /\ UNCHANGED <<values, completer>>
      /\ listing.walking /\ listing.left = {}
      /\ transit' = transit \o <<p, LastResponse>>
      /\ listing' = NoListing
  BY DEF finish_listing, gui_vars, Typed, ListPart
<1>2. ~LastSent /\ ~LastHere /\ ~completer.done
  BY <1>1 DEF Listed, Ends
<1>3. completer.open
  BY <1>1 DEF Listed, Closed, NoListing
<1>4. listing'.left = {} /\ listing'.files = {} /\ ~listing'.walking
  BY <1>1 DEF NoListing
<1>5. p.files = listing.files /\ p # LastResponse /\ LastResponse.files = {}
  BY DEF Partial, LastResponse
<1> HIDE DEF p
<1>6. /\ n \in Nat /\ DOMAIN transit = 1 .. n /\ DOMAIN transit' = 1 .. n + 2
      /\ Len(transit') = n + 2
      /\ transit'[n + 1] = p /\ transit'[n + 2] = LastResponse
      /\ \A i \in 1 .. n : transit'[i] = transit[i]
      /\ \A i \in 1 .. n + 2 : i \in 1 .. n \/ i = n + 1 \/ i = n + 2
  <2> DEFINE t == transit \o <<p, LastResponse>>
  <2>1. /\ n \in Nat /\ DOMAIN transit = 1 .. n /\ DOMAIN t = 1 .. n + 2 /\ Len(t) = n + 2
        /\ t[n + 1] = p /\ t[n + 2] = LastResponse
        /\ \A i \in 1 .. n : t[i] = transit[i]
    BY <1>1
  <2>2. \A i \in 1 .. n + 2 : i \in 1 .. n \/ i = n + 1 \/ i = n + 2
    BY <2>1
  <2> QED
    BY <1>1, <2>1, <2>2
<1> HIDE DEF n
<1>7. Apart'
  <2>1. \A i \in 1 .. n : transit[i].files \cap p.files = {}
    BY <1>5, <1>6 DEF Listed, Apart
  <2>2. \A i \in DOMAIN values : values[i].files \cap p.files = {}
    BY <1>5 DEF Listed, Apart
  <2>3. \A i, j \in DOMAIN transit' : i # j => transit'[i].files \cap transit'[j].files = {}
    <3>1. SUFFICES ASSUME NEW i \in 1 .. n + 2, NEW j \in 1 .. n + 2, i # j
                   PROVE  transit'[i].files \cap transit'[j].files = {}
      BY <1>6
    <3>2. CASE i \in 1 .. n /\ j \in 1 .. n
      BY <1>6, <3>1, <3>2 DEF Listed, Apart
    <3>3. CASE i = n + 2 \/ j = n + 2
      BY <1>5, <1>6, <3>3
    <3>4. CASE i = n + 1 /\ j \in 1 .. n
      BY <1>6, <2>1, <3>4
    <3>5. CASE j = n + 1 /\ i \in 1 .. n
      BY <1>6, <2>1, <3>5
    <3> QED
      BY <1>6, <3>1, <3>2, <3>3, <3>4, <3>5
  <2>4. \A i \in DOMAIN transit', j \in DOMAIN values :
           transit'[i].files \cap values[j].files = {}
    <3>1. SUFFICES ASSUME NEW i \in 1 .. n + 2, NEW j \in DOMAIN values
                   PROVE  transit'[i].files \cap values[j].files = {}
      BY <1>6
    <3>2. CASE i \in 1 .. n
      BY <1>6, <3>2 DEF Listed, Apart
    <3>3. CASE i = n + 1
      BY <1>6, <2>2, <3>3
    <3>4. CASE i = n + 2
      BY <1>5, <1>6, <3>4
    <3> QED
      BY <1>6, <3>2, <3>3, <3>4
  <2>5. \A i \in DOMAIN transit' : transit'[i].files \cap completer.candidates = {}
    <3>1. SUFFICES ASSUME NEW i \in 1 .. n + 2
                   PROVE  transit'[i].files \cap completer.candidates = {}
      BY <1>6
    <3>2. CASE i \in 1 .. n
      BY <1>6, <3>2 DEF Listed, Apart
    <3>3. CASE i = n + 1
      BY <1>5, <1>6, <3>3 DEF Listed, Apart
    <3>4. CASE i = n + 2
      BY <1>5, <1>6, <3>4
    <3> QED
      BY <1>6, <3>2, <3>3, <3>4
  <2>6. \A i \in DOMAIN values : values[i].files \cap completer.candidates = {}
    BY DEF Listed, Apart
  <2>7. \A i, j \in DOMAIN values : i # j => values[i].files \cap values[j].files = {}
    BY DEF Listed, Apart
  <2> QED
    BY <1>1, <1>4, <2>3, <2>4, <2>5, <2>6, <2>7 DEF Apart
<1>8. ~LastHere'
  BY <1>1, <1>2 DEF LastHere
<1>9. Ends'
  <2>1. \A i \in DOMAIN transit' : transit'[i] = LastResponse => i = Len(transit')
    BY <1>2, <1>5, <1>6 DEF LastSent
  <2> QED
    BY <1>1, <1>2, <1>4, <1>8, <2>1 DEF Ends
<1>10. ASSUME NEW f, Somewhere(f)
       PROVE  Somewhere(f)'
  <2>1. n + 1 \in DOMAIN transit' /\ 1 .. n \subseteq DOMAIN transit'
    BY <1>6
  <2> QED
    BY <1>1, <1>4, <1>5, <1>6, <1>10, <2>1 DEF Somewhere
<1>11. Kept' /\ Closed'
  BY <1>1, <1>3, <1>10 DEF Listed, Kept, Closed
<1> QED
  BY <1>7, <1>9, <1>11 DEF Listed

\* A listing that fails has sent no last response, and now never will.
LEMMA ListedFails ==
    ASSUME Listed, visit_dirs_fails
    PROVE  Listed'
<1>1. listing.walking /\ listing' = NoListing /\ UNCHANGED <<transit, values, completer>>
  BY DEF visit_dirs_fails, gui_vars
<1>2. ~LastSent /\ ~LastHere /\ ~completer.done
  BY <1>1 DEF Listed, Ends
<1>3. completer.open
  BY <1>1 DEF Listed, Closed, NoListing
<1>4. listing'.left = {} /\ listing'.files = {} /\ ~listing'.walking
  BY <1>1 DEF NoListing
<1>5. Apart'
  BY <1>1, <1>4 DEF Listed, Apart
<1>6. ~LastSent' /\ ~LastHere'
  BY <1>1, <1>2 DEF LastSent, LastHere
<1>7. Ends'
  BY <1>1, <1>2, <1>4, <1>6 DEF Ends, LastSent
<1>8. Kept' /\ Closed'
  BY <1>1, <1>2, <1>3, <1>4, <1>6 DEF Kept, Closed
<1> QED
  BY <1>5, <1>7, <1>8 DEF Listed

\* What is delivered is the first response on its way and the last one that came.
LEMMA ListedDeliver ==
    ASSUME Typed, Listed, deliver
    PROVE  Listed'
<1> DEFINE n == Len(transit)
           m == Len(values)
<1>1. /\ transit \in Seq(Response) /\ values \in Seq(Response) /\ transit # <<>>
      /\ UNCHANGED <<listing, completer>>
      /\ values' = Append(values, Head(transit)) /\ transit' = Tail(transit)
  BY DEF deliver, gui_vars, Typed, ListPart
<1>2. /\ n \in Nat \ {0} /\ DOMAIN transit = 1 .. n /\ DOMAIN transit' = 1 .. n - 1
      /\ Len(transit') = n - 1
      /\ \A i \in 1 .. n - 1 : transit'[i] = transit[i + 1] /\ i + 1 \in 1 .. n
  BY <1>1
<1>3. /\ m \in Nat /\ DOMAIN values = 1 .. m /\ DOMAIN values' = 1 .. m + 1
      /\ values'[m + 1] = transit[1] /\ 1 \in 1 .. n
      /\ \A i \in 1 .. m : values'[i] = values[i]
      /\ \A i \in 1 .. m + 1 : i \in 1 .. m \/ i = m + 1
  <2>1. Head(transit) = transit[1]
    BY <1>1
  <2>2. m \in Nat /\ DOMAIN values = 1 .. m /\ \A i \in 1 .. m + 1 : i \in 1 .. m \/ i = m + 1
    BY <1>1
  <2>3. /\ DOMAIN values' = 1 .. m + 1 /\ values'[m + 1] = Head(transit)
        /\ \A i \in 1 .. m : values'[i] = values[i]
    BY <1>1
  <2>4. 1 \in 1 .. n
    BY <1>2
  <2> QED
    BY <2>1, <2>2, <2>3, <2>4
<1> HIDE DEF n, m
<1>4. ~LastHere /\ ~completer.done
  BY <1>1 DEF Listed, Ends
<1>5. Apart'
  <2>1. \A i, j \in DOMAIN transit' : i # j => transit'[i].files \cap transit'[j].files = {}
    <3>1. SUFFICES ASSUME NEW i \in 1 .. n - 1, NEW j \in 1 .. n - 1, i # j
                   PROVE  transit'[i].files \cap transit'[j].files = {}
      BY <1>2
    <3>2. i + 1 \in DOMAIN transit /\ j + 1 \in DOMAIN transit /\ i + 1 # j + 1
      BY <1>2, <3>1
    <3>3. transit[i + 1].files \cap transit[j + 1].files = {}
      BY <3>2 DEF Listed, Apart
    <3> QED
      BY <1>2, <3>3
  <2>2. \A i, j \in DOMAIN values' : i # j => values'[i].files \cap values'[j].files = {}
    <3>1. SUFFICES ASSUME NEW i \in 1 .. m + 1, NEW j \in 1 .. m + 1, i # j
                   PROVE  values'[i].files \cap values'[j].files = {}
      BY <1>3
    <3>2. \A k \in 1 .. m : transit[1].files \cap values[k].files = {}
      BY <1>2, <1>3 DEF Listed, Apart
    <3>3. CASE i \in 1 .. m /\ j \in 1 .. m
      BY <1>3, <3>1, <3>3 DEF Listed, Apart
    <3>4. CASE i = m + 1 /\ j \in 1 .. m
      BY <1>3, <3>2, <3>4
    <3>5. CASE j = m + 1 /\ i \in 1 .. m
      BY <1>3, <3>2, <3>5
    <3> QED
      BY <1>3, <3>1, <3>3, <3>4, <3>5
  <2>3. \A i \in DOMAIN transit', j \in DOMAIN values' :
           transit'[i].files \cap values'[j].files = {}
    <3>1. SUFFICES ASSUME NEW i \in 1 .. n - 1, NEW j \in 1 .. m + 1
                   PROVE  transit'[i].files \cap values'[j].files = {}
      BY <1>2, <1>3
    <3>2. transit'[i] = transit[i + 1] /\ i + 1 \in DOMAIN transit /\ i + 1 # 1
      BY <1>2
    <3>3. CASE j \in 1 .. m
      <4>1. transit[i + 1].files \cap values[j].files = {}
        BY <1>3, <3>2, <3>3 DEF Listed, Apart
      <4> QED
        BY <1>3, <3>2, <3>3, <4>1
    <3>4. CASE j = m + 1
      <4>1. transit[i + 1].files \cap transit[1].files = {}
        BY <1>2, <1>3, <3>2 DEF Listed, Apart
      <4> QED
        BY <1>3, <3>2, <3>4, <4>1
    <3> QED
      BY <1>3, <3>3, <3>4
  <2>4. \A i \in DOMAIN transit' :
           transit'[i].files \cap (listing.files \cup listing.left \cup completer.candidates) = {}
    <3>1. SUFFICES ASSUME NEW i \in 1 .. n - 1
                   PROVE  transit'[i].files
                            \cap (listing.files \cup listing.left \cup completer.candidates) = {}
      BY <1>2
    <3>2. transit'[i] = transit[i + 1] /\ i + 1 \in DOMAIN transit
      BY <1>2
    <3>3. transit[i + 1].files
            \cap (listing.files \cup listing.left \cup completer.candidates) = {}
      BY <3>2 DEF Listed, Apart
    <3> QED
      BY <3>2, <3>3
  <2>5. \A i \in DOMAIN values' :
           values'[i].files \cap (listing.files \cup listing.left \cup completer.candidates) = {}
    <3>1. SUFFICES ASSUME NEW i \in 1 .. m + 1
                   PROVE  values'[i].files
                            \cap (listing.files \cup listing.left \cup completer.candidates) = {}
      BY <1>3
    <3>2. CASE i \in 1 .. m
      BY <1>3, <3>2 DEF Listed, Apart
    <3>3. CASE i = m + 1
      BY <1>2, <1>3, <3>3 DEF Listed, Apart
    <3> QED
      BY <1>3, <3>2, <3>3
  <2> QED
    BY <1>1, <2>1, <2>2, <2>3, <2>4, <2>5 DEF Listed, Apart
<1>6. LastSent' \/ LastHere' => LastSent
  <2>1. ASSUME NEW i \in 1 .. n - 1, transit'[i] = LastResponse
        PROVE  LastSent
    <3>1. i + 1 \in DOMAIN transit /\ transit[i + 1] = LastResponse
      BY <1>2, <2>1
    <3> QED
      BY <3>1 DEF LastSent
  <2>2. ASSUME NEW i \in 1 .. m + 1, values'[i] = LastResponse
        PROVE  LastSent
    <3>1. CASE i \in 1 .. m
      BY <1>3, <1>4, <2>2, <3>1 DEF LastHere
    <3>2. CASE i = m + 1
      BY <1>2, <1>3, <2>2, <3>2 DEF LastSent
    <3> QED
      BY <1>3, <3>1, <3>2
  <2> QED
    BY <1>2, <1>3, <2>1, <2>2 DEF LastSent, LastHere
<1>7. Ends'
  <2>1. ASSUME NEW i \in 1 .. n - 1, transit'[i] = LastResponse
        PROVE  i = n - 1
    <3>1. i + 1 \in DOMAIN transit /\ transit[i + 1] = LastResponse
      BY <1>2, <2>1
    <3>2. i + 1 = n
      BY <3>1 DEF Listed, Ends, n
    <3> QED
      BY <1>2, <3>2
  <2>2. LastHere' => transit' = <<>>
    <3>1. ASSUME NEW i \in 1 .. m + 1, values'[i] = LastResponse
          PROVE  n = 1
      <4>1. i = m + 1
        BY <1>3, <1>4, <3>1 DEF LastHere
      <4>2. 1 \in DOMAIN transit /\ transit[1] = LastResponse
        BY <1>2, <1>3, <3>1, <4>1
      <4> QED
        BY <4>2 DEF Listed, Ends, n
    <3>2. n = 1 => transit' = <<>>
      BY <1>1, <1>2
    <3> QED
      BY <1>3, <3>1, <3>2 DEF LastHere
  <2>3. \A i \in DOMAIN transit' : transit'[i] = LastResponse => i = Len(transit')
    BY <1>2, <2>1
  <2>4. LastSent => ~listing.walking /\ listing.left = {} /\ listing.files = {}
    BY DEF Listed, Ends
  <2> QED
    BY <1>1, <1>4, <1>6, <2>2, <2>3, <2>4 DEF Ends
<1>8. ASSUME NEW f, Somewhere(f)
      PROVE  Somewhere(f)'
  <2>1. ASSUME NEW i \in 1 .. n, f \in transit[i].files
        PROVE  Somewhere(f)'
    <3>1. CASE i = 1
      <4>1. m + 1 \in DOMAIN values' /\ f \in values'[m + 1].files
        BY <1>3, <2>1, <3>1
      <4> QED
        BY <4>1 DEF Somewhere
    <3>2. CASE i # 1
      <4>1. i - 1 \in 1 .. n - 1 /\ (i - 1) + 1 = i
        BY <1>2, <3>2
      <4>2. i - 1 \in DOMAIN transit' /\ f \in transit'[i - 1].files
        BY <1>2, <2>1, <4>1
      <4> QED
        BY <4>2 DEF Somewhere
    <3> QED
      BY <3>1, <3>2
  <2>2. ASSUME NEW i \in 1 .. m, f \in values[i].files
        PROVE  Somewhere(f)'
    <3>1. i \in DOMAIN values' /\ f \in values'[i].files
      BY <1>3, <2>2
    <3> QED
      BY <3>1 DEF Somewhere
  <2>3. ASSUME f \in listing.files \cup listing.left \cup completer.candidates
        PROVE  Somewhere(f)'
    BY <1>1, <2>3 DEF Somewhere
  <2> QED
    BY <1>2, <1>3, <1>8, <2>1, <2>2, <2>3 DEF Somewhere
<1>9. Kept' /\ Closed'
  <2>1. completer.open
    BY <1>1 DEF Listed, Closed
  <2> QED
    BY <1>1, <1>4, <1>6, <1>8, <2>1 DEF Listed, Kept, Closed
<1> QED
  BY <1>5, <1>7, <1>9 DEF Listed

\* Every step keeps the files together.
LEMMA ListedStep ==
    ASSUME Typed, Fresh, Listed, Next
    PROVE  Listed'
<1>0. completer \in Completer
  BY DEF Typed, WidgetPart
<1>1. ASSUME UNCHANGED <<completer, list_vars>>
      PROVE  Listed'
  BY <1>1, ListedSame
<1>2. ASSUME close_completer
      PROVE  Listed'
  BY <1>2, ListedAnew DEF close_completer, NoCompleter, NoListing
<1>3. ASSUME open_completer
      PROVE  Listed'
  <2>1. /\ transit' = <<>> /\ values' = <<>> /\ listing'.files = {} /\ listing'.left = Files
        /\ completer' = [NoCompleter EXCEPT !.open = TRUE]
    BY <1>3 DEF open_completer
  <2>2. completer'.candidates = {} /\ ~completer'.done /\ completer'.open
    BY <2>1 DEF NoCompleter
  <2> QED
    BY <2>1, <2>2, ListedAnew
<1>4. ASSUME NEW key \in Keys, on_key(key)
      PROVE  Listed'
  <2>1. ASSUME NEW w, Running(w), w.candidates = completer.candidates,
               w.done = completer.done, w.open = completer.open
        PROVE  Listed'
    BY <2>1, ListedSame DEF Running
  <2>2. /\ edit_query(key).candidates = completer.candidates
        /\ edit_query(key).done = completer.done
        /\ edit_query(key).open = completer.open
    BY <1>0 DEF edit_query, Completer
  <2>3. /\ move_selection(key).candidates = completer.candidates
        /\ move_selection(key).done = completer.done
        /\ move_selection(key).open = completer.open
    BY <1>0 DEF move_selection, Completer
  <2> QED
    BY <1>2, <1>4, <2>1, <2>2, <2>3 DEF on_key
<1>5. ASSUME NEW key \in Keys, handle_key(key)
      PROVE  Listed'
  BY <1>1, <1>3, <1>5 DEF handle_key
<1>6. CASE handle_events
  <2>1. \/ UNCHANGED <<completer, list_vars>>
        \/ \E key \in Keys : on_key(key) \/ handle_key(key)
    BY <1>6 DEF handle_events
  <2> QED
    BY <1>1, <1>4, <1>5, <2>1
<1>7. CASE key_down \/ timeout \/ keys_handled \/ opened \/ loaded
  BY <1>1, <1>7 DEF key_down, timeout, keys_handled, opened, loaded
<1>8. CASE foreign_call \/ run_rpc
  BY <1>1, <1>8 DEF foreign_call, run_rpc, gui_vars
<1> QED
  BY <1>6, <1>7, <1>8, ListedDraw, ListedFile, ListedFinish, ListedFails, ListedDeliver
  DEF Next, MainThread, ListThread

-----------------------------------------------------------------------------
(* The inductive invariant, and what follows from it.                         *)

IInv == Typed /\ ViewsInv /\ Fresh /\ Pointed /\ Listed

\* The invariant holds at first ...
LEMMA InitIInv == Init => IInv
<1> SUFFICES ASSUME Init
             PROVE  IInv
  OBVIOUS
<1>1. /\ gui = "events" /\ completer = NoCompleter /\ highlighted = NoFile /\ opening = NoFile
      /\ shown = 0 /\ listing = NoListing /\ transit = <<>> /\ values = <<>> /\ pool = <<>>
      /\ ViewsInit
  BY DEF Init
<1>2. ViewsInv /\ ViewsPart
  BY <1>1, ViewsInitInv DEF ViewsInit, ViewsPart, ViewsInv, ViewsTypeOK
<1>3. NoCompleter \in Completer
  <2>1. <<>> \in Seq({k[2] : k \in {k \in Keys : k[1] = "Char"}}) /\ <<>> \in Seq(Files)
    OBVIOUS
  <2> QED
    BY <2>1 DEF NoCompleter, Completer
<1>4. CallsPart /\ WidgetPart /\ ListPart
  <2>1. CallsPart
    <3>1. pool \in Seq(Rpc)
      BY <1>1
    <3> QED
      BY <1>1, <3>1 DEF CallsPart
  <2>2. WidgetPart
    BY <1>1, <1>3 DEF WidgetPart
  <2>3. ListPart
    <3>1. transit \in Seq(Response) /\ values \in Seq(Response)
      BY <1>1
    <3> QED
      BY <1>1, <3>1 DEF ListPart, NoListing
  <2> QED
    BY <2>1, <2>2, <2>3
<1>5. Fresh /\ Pointed
  BY <1>1, NoResultsFresh DEF Fresh, Pointed
<1>6. Listed
  <2>1. /\ DOMAIN transit = {} /\ DOMAIN values = {}
        /\ listing.files = {} /\ listing.left = {} /\ ~listing.walking
        /\ completer.candidates = {} /\ ~completer.done
    BY <1>1 DEF NoListing, NoCompleter
  <2>2. ~LastSent /\ ~LastHere
    BY <2>1 DEF LastSent, LastHere
  <2>3. Apart
    BY <2>1 DEF Apart
  <2>4. Ends /\ Kept /\ Closed
    BY <1>1, <2>1, <2>2 DEF Ends, Kept, Closed
  <2> QED
    BY <2>3, <2>4 DEF Listed
<1> QED
  BY <1>2, <1>4, <1>5, <1>6 DEF IInv, Typed

\* ... when nothing happens ...
LEMMA StutterIInv == IInv /\ UNCHANGED vars => IInv'
<1> SUFFICES ASSUME IInv, UNCHANGED vars
             PROVE  IInv'
  OBVIOUS
<1>1. UNCHANGED <<gui, completer, highlighted, opening, shown, listing, transit, values,
                  buffer_views, pool, server>>
  BY DEF vars, gui_vars, list_vars
<1>2. Typed'
  BY <1>1 DEF IInv, Typed, ViewsPart, ViewsTypeOK, CallsPart, WidgetPart, ListPart
<1>3. ViewsInv'
  BY <1>1, ViewsStep DEF IInv
<1>4. Fresh' /\ Pointed'
  <2>1. Query(completer.candidates, completer.query)' = Query(completer.candidates, completer.query)
        /\ Selected(completer)' = Selected(completer)
    BY <1>1
  <2> QED
    BY <1>1, <2>1 DEF IInv, Fresh, Pointed
<1>5. Listed'
  BY <1>1, ListedSame DEF IInv, list_vars
<1> QED
  BY <1>2, <1>3, <1>4, <1>5 DEF IInv

\* ... and after every step, so always.
LEMMA Invariance == Spec => []IInv
<1>1. IInv /\ [Next]_vars => IInv'
  BY StutterIInv, ViewsPartStep, CallsStep, WidgetStep, ListStep, FreshStep, ListedStep
     DEF IInv, Typed
<1> QED
  BY <1>1, InitIInv, PTL DEF Spec

\* Every variable has its type; a file that is being opened is known, the view that is
\* drawn exists, and a mapping that is awaited is still to be run.
THEOREM TypeCorrectness == Spec => []TypeOK
<1>1. IInv => TypeOK
  BY DEF IInv, Typed, ViewsPart, CallsPart, WidgetPart, ListPart, TypeOK
<1> QED
  BY <1>1, Invariance, PTL

\* The GUI does with its views what BufferViews says, and nothing else: the RPCs that
\* other clients call, the mappings of the key map and the buffers that are opened are
\* steps of ViewsNext, whatever the other threads do meanwhile.
THEOREM ImplementsViews == Spec => ViewsSpec
<1>1. Init => ViewsInit
  BY DEF Init
<1>2. IInv /\ [Next]_vars => [ViewsNext]_buffer_views
  BY GuiViewsStep DEF IInv, vars
<1> QED
  BY <1>1, <1>2, Invariance, PTL DEF Spec, ViewsSpec

\* Drawing finds the cursor and the first line of every view of the GUI.
THEOREM GuiCursorsStayInText == Spec => []CursorInText
BY ImplementsViews, CursorsStayInText, PTL

\* A cursor that a key or an RPC moves is seen, in a window of three lines or more.
THEOREM GuiMovedCursorsAreShown == Height >= 3 => (Spec => MoveShowsCursor)
BY ImplementsViews, MovedCursorsAreShown, PTL

\* Enter opens the file that was shown as selected.
THEOREM OpensWhatIsHighlighted == Spec => []SelectsHighlighted
<1>1. IInv => SelectsHighlighted
  BY DEF IInv, Pointed, SelectsHighlighted
<1> QED
  BY <1>1, Invariance, PTL

\* When the next key is read the results are those of the query and of the files as
\* they are.
THEOREM ResultsAreFresh == Spec => []ResultsFresh
<1>1. IInv => ResultsFresh
  BY DEF IInv, Fresh, ResultsFresh
<1> QED
  BY <1>1, Invariance, PTL

\* What a sequence that is made of two consists of.
LEMMA Joined ==
    ASSUME NEW S, NEW s \in Seq(S), NEW t \in Seq(S)
    PROVE  /\ s \o t \in Seq(S) /\ Len(s \o t) = Len(s) + Len(t)
           /\ DOMAIN (s \o t) = 1 .. Len(s) + Len(t)
           /\ \A i \in 1 .. Len(s) + Len(t) :
                 (s \o t)[i] = IF i <= Len(s) THEN s[i] ELSE t[i - Len(s)]
OBVIOUS

\* The completer gets every file once, and knows when it has them all.
THEOREM ListingIsComplete == Spec => []ListingComplete
<1> DEFINE sent == transit \o values
           n == Len(transit)
           m == Len(values)
           fs == [i \in DOMAIN sent |-> sent[i].files]
           rest == <<listing.files, listing.left, completer.candidates>>
<1>1. ASSUME IInv
      PROVE  ListingComplete
  <2>1. /\ transit \in Seq(Response) /\ values \in Seq(Response)
        /\ n \in Nat /\ m \in Nat
        /\ listing \in [left : SUBSET Files, files : SUBSET Files, walking : BOOLEAN]
        /\ completer \in Completer
    BY <1>1 DEF IInv, Typed, ListPart, WidgetPart
  <2>2. /\ sent \in Seq(Response) /\ Len(sent) = n + m /\ DOMAIN sent = 1 .. n + m
        /\ \A i \in 1 .. n : sent[i] = transit[i]
        /\ \A i \in n + 1 .. n + m : sent[i] = values[i - n]
    BY <2>1
  <2>3. /\ fs \in Seq(SUBSET Files) /\ Len(fs) = n + m
        /\ \A i \in 1 .. n : fs[i] = transit[i].files
        /\ \A i \in n + 1 .. n + m : fs[i] = values[i - n].files
    <3>1. \A i \in 1 .. n + m : sent[i] \in Response
      BY <2>2
    <3>2. \A i \in 1 .. n + m : sent[i].files \in SUBSET Files
      BY <3>1 DEF Response
    <3>3. fs \in [1 .. n + m -> SUBSET Files]
      BY <2>2, <3>2
    <3>4. fs \in Seq(SUBSET Files) /\ Len(fs) = n + m
      BY <2>1, <3>3
    <3> QED
      BY <2>1, <2>2, <3>4
  <2>4. /\ rest \in Seq(SUBSET Files) /\ Len(rest) = 3
        /\ rest[1] = listing.files /\ rest[2] = listing.left /\ rest[3] = completer.candidates
    <3>1. listing.files \in SUBSET Files /\ listing.left \in SUBSET Files
          /\ completer.candidates \in SUBSET Files
      BY <2>1 DEF Completer
    <3> QED
      BY <3>1
  <2>5. Pieces = fs \o rest
    BY DEF Pieces
  <2> HIDE DEF fs, rest
  <2>6. /\ Pieces \in Seq(SUBSET Files) /\ DOMAIN Pieces = 1 .. n + m + 3
        /\ \A i \in 1 .. n : Pieces[i] = transit[i].files
        /\ \A i \in n + 1 .. n + m : Pieces[i] = values[i - n].files
        /\ Pieces[n + m + 1] = listing.files /\ Pieces[n + m + 2] = listing.left
        /\ Pieces[n + m + 3] = completer.candidates
    <3>0. n \in Nat /\ m \in Nat /\ fs \in Seq(SUBSET Files) /\ rest \in Seq(SUBSET Files)
          /\ Len(fs) = n + m /\ Len(rest) = 3
      BY <2>1, <2>3, <2>4
    <3> HIDE DEF n, m
    <3>1. /\ Pieces \in Seq(SUBSET Files) /\ Len(Pieces) = n + m + 3
          /\ DOMAIN Pieces = 1 .. n + m + 3
      <4>1. fs \in Seq(SUBSET Files) /\ rest \in Seq(SUBSET Files)
        BY <3>0
      <4>2. fs \o rest \in Seq(SUBSET Files) /\ Len(fs \o rest) = Len(fs) + Len(rest)
        BY <4>1, Joined
      <4>3. Pieces \in Seq(SUBSET Files)
        BY <4>2, <2>5
      <4>4. Len(Pieces) = n + m + 3
        BY <4>2, <2>5, <3>0
      <4> QED
        BY <4>3, <4>4
    <3>2. \A i \in 1 .. n + m + 3 :
             Pieces[i] = IF i <= Len(fs) THEN fs[i] ELSE rest[i - Len(fs)]
      <4>1. \A i \in 1 .. Len(fs) + Len(rest) :
               (fs \o rest)[i] = IF i <= Len(fs) THEN fs[i] ELSE rest[i - Len(fs)]
        BY <3>0, Joined
      <4>2. Len(fs) + Len(rest) = n + m + 3
        BY <3>0
      <4> QED
        BY <4>1, <4>2, <2>5
    <3>3. \A i \in 1 .. n + m : Pieces[i] = fs[i]
      BY <3>0, <3>2
    <3>4. /\ Pieces[n + m + 1] = rest[1] /\ Pieces[n + m + 2] = rest[2]
          /\ Pieces[n + m + 3] = rest[3]
      <4>1. \A i \in 1 .. 3 : n + m + i \in 1 .. n + m + 3 /\ ~(n + m + i <= n + m)
                               /\ (n + m + i) - (n + m) = i
        BY <3>0
      <4>2. \A i \in 1 .. 3 : Pieces[n + m + i] = rest[i]
        BY <3>0, <3>2, <4>1
      <4> QED
        BY <4>2
    <3>5. (\A i \in 1 .. n : i \in 1 .. n + m) /\ (\A i \in n + 1 .. n + m : i \in 1 .. n + m)
      BY <3>0
    <3> QED
      BY <2>3, <2>4, <3>1, <3>3, <3>4, <3>5 DEF n, m
  <2>7. Apart /\ Ends /\ Kept
    BY <1>1 DEF IInv, Listed
  <2>8. ASSUME NEW i \in DOMAIN Pieces, NEW j \in DOMAIN Pieces, i # j
        PROVE  Pieces[i] \cap Pieces[j] = {}
    <3> DEFINE Where(k) == \/ k \in 1 .. n /\ Pieces[k] = transit[k].files
                           \/ k \in n + 1 .. n + m /\ Pieces[k] = values[k - n].files
                           \/ k = n + m + 1 /\ Pieces[k] = listing.files
                           \/ k = n + m + 2 /\ Pieces[k] = listing.left
                           \/ k = n + m + 3 /\ Pieces[k] = completer.candidates
    <3>1. ASSUME NEW k \in DOMAIN Pieces
          PROVE  Where(k)
      <4>0. n \in Nat /\ m \in Nat /\ k \in 1 .. n + m + 3
        BY <2>1, <2>6
      <4> HIDE DEF n, m
      <4>1. \/ k \in 1 .. n \/ k \in n + 1 .. n + m
            \/ k = n + m + 1 \/ k = n + m + 2 \/ k = n + m + 3
        BY <4>0
      <4> QED
        BY <2>6, <4>1
    <3>2. /\ DOMAIN transit = 1 .. n /\ DOMAIN values = 1 .. m
          /\ \A k \in n + 1 .. n + m : k - n \in 1 .. m
      BY <2>1
    <3>3. \A k \in 1 .. n, l \in 1 .. n : k # l => transit[k].files \cap transit[l].files = {}
      BY <2>7, <3>2 DEF Apart
    <3>4. \A k \in n + 1 .. n + m, l \in n + 1 .. n + m :
             k # l => values[k - n].files \cap values[l - n].files = {}
      <4> SUFFICES ASSUME NEW k \in n + 1 .. n + m, NEW l \in n + 1 .. n + m, k # l
                   PROVE  values[k - n].files \cap values[l - n].files = {}
        OBVIOUS
      <4>1. k - n \in 1 .. m /\ l - n \in 1 .. m /\ k - n # l - n
        BY <2>1, <3>2
      <4> QED
        BY <2>7, <3>2, <4>1 DEF Apart
    <3>5. \A k \in 1 .. n, l \in n + 1 .. n + m : transit[k].files \cap values[l - n].files = {}
      BY <2>7, <3>2 DEF Apart
    <3>6. /\ \A k \in 1 .. n : /\ transit[k].files \cap listing.files = {}
                               /\ transit[k].files \cap listing.left = {}
                               /\ transit[k].files \cap completer.candidates = {}
          /\ \A k \in n + 1 .. n + m : /\ values[k - n].files \cap listing.files = {}
                                       /\ values[k - n].files \cap listing.left = {}
                                       /\ values[k - n].files \cap completer.candidates = {}
          /\ listing.files \cap listing.left = {} /\ listing.files \cap completer.candidates = {}
          /\ listing.left \cap completer.candidates = {}
      BY <2>7, <3>2 DEF Apart
    <3>7. Where(i) /\ Where(j)
      BY <3>1
    <3> QED
      BY <2>8, <3>3, <3>4, <3>5, <3>6, <3>7
  <2>9. ASSUME NEW f \in Files, Somewhere(f)
        PROVE  f \in UNION ToSet(Pieces)
    <3>1. \E k \in 1 .. n + m + 3 : f \in Pieces[k]
      <4>1. CASE \E i \in DOMAIN transit : f \in transit[i].files
        BY <2>1, <2>6, <4>1
      <4>2. CASE \E i \in DOMAIN values : f \in values[i].files
        <5>1. PICK i \in 1 .. m : f \in values[i].files
          BY <2>1, <4>2
        <5>2. n + i \in n + 1 .. n + m /\ (n + i) - n = i /\ n + i \in 1 .. n + m + 3
          BY <2>1
        <5>3. Pieces[n + i] = values[i].files
          BY <2>6, <5>2
        <5> QED
          BY <5>1, <5>2, <5>3
      <4>3. CASE f \in listing.files \cup listing.left \cup completer.candidates
        <5>1. n + m + 1 \in 1 .. n + m + 3 /\ n + m + 2 \in 1 .. n + m + 3
              /\ n + m + 3 \in 1 .. n + m + 3
          BY <2>1
        <5>2. \/ f \in Pieces[n + m + 1] \/ f \in Pieces[n + m + 2] \/ f \in Pieces[n + m + 3]
          BY <2>6, <4>3
        <5> QED
          BY <5>1, <5>2
      <4> QED
        BY <2>9, <4>1, <4>2, <4>3 DEF Somewhere
    <3> QED
      BY <2>6, <3>1 DEF ToSet
  <2>10. LastResponse \in ToSet(sent) => LastSent \/ LastHere
    BY <2>1, <2>2 DEF ToSet, LastSent, LastHere
  <2>11. ASSUME listing.walking \/ LastResponse \in ToSet(sent) \/ completer.done
         PROVE  UNION ToSet(Pieces) = Files
    <3>1. Files \subseteq UNION ToSet(Pieces)
      BY <2>7, <2>9, <2>10, <2>11 DEF Kept
    <3>2. \A k \in DOMAIN Pieces : Pieces[k] \subseteq Files
      BY <2>6
    <3>3. UNION ToSet(Pieces) \subseteq Files
      BY <3>2 DEF ToSet
    <3> QED
      BY <3>1, <3>3
  <2> QED
    BY <2>7, <2>8, <2>11 DEF ListingComplete, Ends
<1> QED
  BY <1>1, Invariance, PTL

=============================================================================
