------------------------------- MODULE TermGui -------------------------------
(***************************************************************************)
(* The terminal GUI (src/term_gui/src/bin/term_gui.rs) with its key map     *)
(* (gui/src/keymap_handler.rs), its views (BufferViews) and the list_files  *)
(* plugin of the server (src/src/plugin/list_files.rs) that feeds its       *)
(* completer.  The main thread alternates handle_events and draw; the RPCs  *)
(* on the views run in the one pool thread of the GUI's client.  How a      *)
(* query matches a file is SubsequenceMatch's subject: here a file is found *)
(* when it has the letters of the query, and files rank as in Ranked.       *)
(***************************************************************************)
EXTENDS BufferViews, FiniteSets, SequencesExt

CONSTANTS
    Keys,          \* what may be pressed: <<"Char", c>>, <<"Ctrl", c>> or <<name>>
    Keymaps,       \* mappings of the configuration: chords, and how far to move the cursor
    Ranked,        \* all files of the directory, the best one first
    Letters,       \* file -> the characters of its name
    Content,       \* file -> its text
    Calls,         \* RPCs on the views that other clients may call
    MaxKeys,       \* bound: keys pressed
    MaxForeign     \* bound: RPCs that other clients call on the views

VARIABLES
    gui,                  \* where the main thread is
    pressed,              \* what handle_key has still to hand to the key map
    current_key_events,   \* KeymapHandler: keys pressed since the last match
    completer,            \* the CompleterWidget, or NoCompleter
    highlighted,          \* the file that the last draw showed as selected, or NoFile
    opening,              \* the file that was selected and is being opened
    shown,                \* index of the view of the BufferViewWidget, 0: none
    listing,              \* the thread of list_files, or NoListing
    transit,              \* responses to list_files on their way
    values,               \* responses to list_files that the GUI's context holds
    pool,                 \* RPCs on the views that wait for the pool thread
    server,               \* "up", or "aborted"
    typed, foreign        \* bounded counters

gui_vars == <<gui, pressed, current_key_events, completer, highlighted, opening, shown>>
list_vars == <<listing, transit, values>>
vars == <<gui_vars, list_vars, buffer_views, pool, server, typed, foreign>>

Files == ToSet(Ranked)
NoFile == "none"
NoCompleter == [query |-> <<>>, candidates |-> {}, results |-> <<>>, selection_index |-> 0,
                done |-> FALSE, open |-> FALSE]
NoListing == [left |-> {}, files |-> {}, walking |-> FALSE]
Partial(files) == [kind |-> "partial", files |-> files]
LastResponse == [kind |-> "last", files |-> {}]

ASSUME GuiAssumption ==
    /\ Ranked \in Seq(Files) /\ NoFile \notin Files
    /\ \A f \in Files : Content[f] \in Texts
    /\ \A k \in DOMAIN Keymaps : Keymaps[k].delta \in Moves
    /\ Calls \subseteq [own : {FALSE}, kind : {"move", "scroll"}, delta : Moves]
    /\ MaxKeys \in Nat /\ MaxForeign \in Nat

-----------------------------------------------------------------------------
(* The key map.  A key event tells whether it came less than 50 ms after the *)
(* one before: then it belongs to the same chord.                            *)

Arpeggio(events) ==
    LET starts == SelectSeq([i \in DOMAIN events |-> i], LAMBDA i : i = 1 \/ ~events[i].fast)
        Chord(n) == {events[i].key : i \in {j \in DOMAIN events :
                        j >= starts[n] /\ (n < Len(starts) => j < starts[n + 1])}}
    IN  [n \in DOMAIN starts |-> Chord(n)]

Matching(events) == {k \in DOMAIN Keymaps : Keymaps[k].mapping = Arpeggio(events)}

\* The Lua function of a mapping calls gui.buffer_view.move_cursor, which comes back to
\* the GUI's client by way of the server, and waits.
lua_call(keymap) ==
    /\ gui' = "calling"
    /\ pool' = IF server = "up"
               THEN Append(pool, [own |-> TRUE, kind |-> "move", delta |-> keymap.delta])
               ELSE pool

\* A mapping runs if it is the only one that was typed.  Otherwise kept is what remains.
check_if_current_key_match(events, kept) ==
    IF Cardinality(Matching(events)) = 1
    THEN /\ current_key_events' = <<>>
         /\ \E k \in Matching(events) : lua_call(Keymaps[k])
    ELSE /\ current_key_events' = kept
         /\ UNCHANGED <<gui, pool>>

\* The next key that handle_key hands on; time passes between any two of them.
key_down ==
    /\ gui = "keys" /\ pressed # <<>> /\ Head(pressed) # "timeout"
    /\ \E fast \in BOOLEAN :
          LET events == Append(current_key_events, [fast |-> fast, key |-> Head(pressed)])
          IN  check_if_current_key_match(events, events)
    /\ pressed' = Tail(pressed)
    /\ UNCHANGED <<completer, highlighted, opening, shown, list_vars, buffer_views, server, typed, foreign>>

timeout ==
    /\ gui = "keys" /\ pressed # <<>> /\ Head(pressed) = "timeout"
    /\ check_if_current_key_match(current_key_events, <<>>)
    /\ pressed' = Tail(pressed)
    /\ UNCHANGED <<completer, highlighted, opening, shown, list_vars, buffer_views, server, typed, foreign>>

keys_handled ==
    /\ gui = "keys" /\ pressed = <<>>
    /\ gui' = "draw"
    /\ UNCHANGED <<pressed, current_key_events, completer, highlighted, opening, shown, list_vars,
                   buffer_views, pool, server, typed, foreign>>

-----------------------------------------------------------------------------
(* Keys without a completer: handle_key.                                     *)

\* The keys of the key map that a pressed key stands for.  Ctrl and a letter are two;
\* that the second one asks to quit is not looked at.
KeymapKeys(key) ==
    CASE key = <<"Esc">> -> <<"timeout">>
      [] key[1] = "Char" -> <<key[2]>>
      [] key[1] = "Ctrl" -> <<"Ctrl">> \o (IF key[2] = "q" THEN <<>> ELSE <<key[2]>>)
      [] key[1] \in {"Up", "Down", "Left", "Right", "Tab"} -> key
      [] OTHER -> <<>>

open_completer ==
    /\ completer' = [NoCompleter EXCEPT !.open = TRUE]
    /\ listing' = [left |-> Files, files |-> {}, walking |-> server = "up"]
    /\ transit' = <<>> /\ values' = <<>>
    /\ gui' = "draw"
    /\ UNCHANGED <<pressed, current_key_events, opening, shown, buffer_views, pool>>

handle_key(key) ==
    \/ /\ key = <<"Char", "q">>
       /\ gui' = "quit"
       /\ UNCHANGED <<pressed, current_key_events, completer, opening, shown, list_vars, buffer_views, pool>>
    \/ key = <<"Ctrl", "t">> /\ open_completer
    \/ /\ key \notin {<<"Char", "q">>, <<"Ctrl", "t">>}
       /\ gui' = "keys" /\ pressed' = KeymapKeys(key)
       /\ UNCHANGED <<current_key_events, completer, opening, shown, list_vars, buffer_views, pool>>

-----------------------------------------------------------------------------
(* Keys with a completer: CompleterWidget::on_key.                           *)

clamp(min_value, max_value, v) == min(max_value, max(min_value, v))

\* Mutant: what is deleted from the query leaves the results as they are.
edit_query_Stale(key) ==
    [completer EXCEPT
        !.query = CASE key[1] = "Char" -> Append(@, key[2])
                    [] OTHER -> IF @ = <<>> THEN @ ELSE Front(@),
        !.results = IF key[1] = "Char" THEN <<>> ELSE @]

\* A letter or Backspace; the results are gone until the next draw.
edit_query(key) ==
    [completer EXCEPT
        !.query = CASE key[1] = "Char" -> Append(@, key[2])
                    [] OTHER -> IF @ = <<>> THEN @ ELSE Front(@),
        !.results = <<>>]

move_selection(key) ==
    [completer EXCEPT !.selection_index = IF key = <<"Down">> THEN @ + 1 ELSE @ - 1]

\* Esc, Enter: list_files is cancelled, and with the context its responses are gone.
close_completer ==
    /\ completer' = NoCompleter /\ listing' = NoListing /\ transit' = <<>> /\ values' = <<>>

Running(widget) ==
    completer' = widget /\ gui' = "draw" /\ UNCHANGED <<opening, list_vars>>

on_key(key) ==
    /\ \/ key[1] \in {"Char", "Backspace"} /\ Running(edit_query(key))
       \/ key \in {<<"Down">>, <<"Up">>} /\ Running(move_selection(key))
       \/ key[1] \notin {"Char", "Backspace", "Down", "Up", "Esc", "Enter"} /\ Running(completer)
       \/ /\ key = <<"Esc">> \/ (key = <<"Enter">> /\ completer.results = <<>>)
          /\ close_completer
          /\ gui' = "draw" /\ UNCHANGED opening
       \/ /\ key = <<"Enter">> /\ completer.results # <<>>
          /\ opening' = completer.results[
                clamp(0, Len(completer.results) - 1, completer.selection_index) + 1]
          /\ close_completer
          /\ gui' = "opening"
    /\ UNCHANGED <<pressed, current_key_events, shown, buffer_views, pool>>

-----------------------------------------------------------------------------
(* The main thread.                                                          *)

handle_events ==
    /\ gui = "events"
    /\ \/ /\ gui' = "draw"       \* no key within 5 ms
          /\ UNCHANGED <<pressed, current_key_events, completer, opening, shown, list_vars,
                         buffer_views, pool, typed>>
       \/ /\ typed < MaxKeys /\ typed' = typed + 1
          /\ \E key \in Keys : IF completer.open THEN on_key(key) ELSE handle_key(key)
    /\ UNCHANGED <<highlighted, server, foreign>>

\* The answer to buffer.open; an error panics (wait_for).
opened ==
    /\ gui = "opening" /\ server = "up"
    /\ gui' \in {"loading", "panicked"}
    /\ UNCHANGED <<pressed, current_key_events, completer, highlighted, opening, shown, list_vars,
                   buffer_views, pool, server, typed, foreign>>

\* The answer to the buffer.get_content of new_view, for which the main thread waits
\* with the views locked; an error panics, the buffer may have been deleted.
loaded ==
    /\ gui = "loading" /\ server = "up"
    /\ \/ /\ new_view(Content[opening])
          /\ shown' = Len(buffer_views) + 1 /\ gui' = "draw"
       \/ gui' = "panicked" /\ UNCHANGED <<buffer_views, shown>>
    /\ opening' = NoFile
    /\ UNCHANGED <<pressed, current_key_events, completer, highlighted, list_vars,
                   pool, server, typed, foreign>>

\* CandidateSet::query for the query without its spaces: of the files found, the best,
\* the second best, and so on.
Query(candidates, query) ==
    LET found == {i \in DOMAIN Ranked : /\ Ranked[i] \in candidates
                                        /\ ToSet(query) \ {" "} \subseteq Letters[Ranked[i]]}
    IN  [n \in 1 .. Cardinality(found) |->
            Ranked[CHOOSE i \in found : Cardinality({j \in found : j <= i}) = n]]

\* Mutant: the selection is not brought back into the results.
Drawn_Unclamped(widget) ==
    LET updates == ToSet(values) \ {LastResponse}
        candidates == widget.candidates \cup UNION {u.files : u \in updates}
        kept == IF updates = {} THEN widget.results ELSE <<>>
    IN  [widget EXCEPT !.candidates = candidates,
                       !.results = IF kept = <<>> THEN Query(candidates, widget.query) ELSE kept,
                       !.done = @ \/ LastResponse \in ToSet(values)]

\* Mutant: the last response counts only when it comes with an update.
Drawn_LastNeedsUpdate(widget) ==
    LET updates == ToSet(values) \ {LastResponse}
        candidates == widget.candidates \cup UNION {u.files : u \in updates}
        results == Query(candidates, widget.query)
    IN  [widget EXCEPT !.candidates = candidates, !.results = results,
                       !.done = @ \/ (LastResponse \in ToSet(values) /\ updates # {}),
                       !.selection_index = IF results = <<>> THEN @
                                           ELSE clamp(0, Len(results) - 1, @)]

\* CompleterWidget::draw takes the updates that have come and asks again when there
\* is one or the results are empty.
Drawn(widget) ==
    LET updates == ToSet(values) \ {LastResponse}
        candidates == widget.candidates \cup UNION {u.files : u \in updates}
        kept == IF updates = {} THEN widget.results ELSE <<>>
        results == IF kept = <<>> THEN Query(candidates, widget.query) ELSE kept
    IN  [widget EXCEPT !.candidates = candidates, !.results = results,
                       !.done = @ \/ LastResponse \in ToSet(values),
                       !.selection_index = IF results = <<>> THEN @
                                           ELSE clamp(0, Len(results) - 1, @)]

Selected(widget) ==
    IF widget.selection_index \in 0 .. Len(widget.results) - 1
    THEN widget.results[widget.selection_index + 1] ELSE NoFile

\* The widgets are drawn; a view is drawn from what it holds now and keeps nothing.
draw ==
    /\ gui = "draw"
    /\ IF completer.open
       THEN completer' = Drawn(completer) /\ highlighted' = Selected(completer') /\ values' = <<>>
       ELSE highlighted' = NoFile /\ UNCHANGED <<completer, values>>
    /\ gui' = "events"
    /\ UNCHANGED <<pressed, current_key_events, opening, shown, listing, transit, buffer_views,
                   pool, server, typed, foreign>>

-----------------------------------------------------------------------------
(* RPCs on the views: MoveCursor::call and Scroll::call.                     *)

\* Mutant: the main thread also holds the views while a mapping runs.
LockFree_NotCalling(state) == state \notin {"loading", "calling"}

\* The main thread write-locks the views from the answer to buffer.open to the new view.
LockFree(state) == state # "loading"

foreign_call ==
    /\ foreign < MaxForeign /\ server = "up"
    /\ buffer_views # <<>> \/ opening # NoFile     \* bound: there is soon a view to call for
    /\ \E call \in Calls : pool' = Append(pool, call)
    /\ foreign' = foreign + 1
    /\ UNCHANGED <<gui_vars, list_vars, buffer_views, server, typed>>

\* The answer to a call of the GUI itself comes back by way of the server.
run_rpc ==
    /\ pool # <<>> /\ LockFree(gui)
    /\ IF Head(pool).kind = "move" THEN move_cursor(Head(pool).delta)
       ELSE \/ \E i \in DOMAIN buffer_views : scroll_view(i, Head(pool).delta.line_index)
            \/ UNCHANGED buffer_views      \* the view is not known
    /\ pool' = Tail(pool)
    /\ gui' = IF Head(pool).own /\ server = "up" THEN "keys" ELSE gui
    /\ UNCHANGED <<pressed, current_key_events, completer, highlighted, opening, shown, list_vars,
                   server, typed, foreign>>

-----------------------------------------------------------------------------
(* The thread of list_files, which visit_dirs calls back with every file.    *)

\* Mutant: the files that were sent are not taken out of the buffer.
list_file_Resent ==
    /\ listing.walking /\ server = "up"
    /\ \E f \in listing.left :
          LET files == listing.files \cup {f}
          IN  \/ /\ listing' = [listing EXCEPT !.left = @ \ {f}, !.files = files]
                 /\ UNCHANGED transit
              \/ /\ listing' = [listing EXCEPT !.left = @ \ {f}, !.files = files]
                 /\ transit' = Append(transit, Partial(files))
    /\ UNCHANGED <<gui_vars, values, buffer_views, pool, server, typed, foreign>>

\* One more file; when 50 ms have passed the files since the last update are sent.
list_file ==
    /\ listing.walking /\ server = "up"
    /\ \E f \in listing.left :
          LET files == listing.files \cup {f}
          IN  \/ /\ listing' = [listing EXCEPT !.left = @ \ {f}, !.files = files]
                 /\ UNCHANGED transit
              \/ /\ listing' = [listing EXCEPT !.left = @ \ {f}, !.files = {}]
                 /\ transit' = Append(transit, Partial(files))
    /\ UNCHANGED <<gui_vars, values, buffer_views, pool, server, typed, foreign>>

\* The rest is sent, then the last response.
finish_listing ==
    /\ listing.walking /\ listing.left = {} /\ server = "up"
    /\ transit' = transit \o <<Partial(listing.files), LastResponse>>
    /\ listing' = NoListing
    /\ UNCHANGED <<gui_vars, values, buffer_views, pool, server, typed, foreign>>

\* A directory that cannot be read: unwrap() panics, the context that is dropped alive
\* panics again, and the process of the server aborts.
visit_dirs_fails ==
    /\ listing.walking /\ server = "up"
    /\ server' = "aborted" /\ listing' = NoListing
    /\ UNCHANGED <<gui_vars, transit, values, buffer_views, pool, typed, foreign>>

\* The server and the GUI's rpc loop hand the responses on in their order.
deliver ==
    /\ transit # <<>>
    /\ values' = Append(values, Head(transit)) /\ transit' = Tail(transit)
    /\ UNCHANGED <<gui_vars, listing, buffer_views, pool, server, typed, foreign>>

-----------------------------------------------------------------------------

Init ==
    /\ ViewsInit
    /\ gui = "events" /\ pressed = <<>> /\ current_key_events = <<>>
    /\ completer = NoCompleter /\ highlighted = NoFile /\ opening = NoFile /\ shown = 0
    /\ listing = NoListing /\ transit = <<>> /\ values = <<>>
    /\ pool = <<>> /\ server = "up" /\ typed = 0 /\ foreign = 0

\* Once the main thread has quit or panicked the process has ended.
Ended == gui \in {"quit", "panicked"}

MainThread == handle_events \/ key_down \/ timeout \/ keys_handled \/ opened \/ loaded \/ draw

ListThread == list_file \/ finish_listing

Next ==
    \/ MainThread
    \/ ~Ended /\ (run_rpc \/ foreign_call \/ ListThread \/ visit_dirs_fails \/ deliver)

Spec == Init /\ [][Next]_vars

\* The threads run; keys need not be pressed, and no RPC need be called.
FairSpec ==
    /\ Spec
    /\ WF_vars(MainThread)
    /\ WF_vars(~Ended /\ run_rpc) /\ WF_vars(~Ended /\ ListThread) /\ WF_vars(~Ended /\ deliver)

-----------------------------------------------------------------------------
(* Properties.                                                               *)

Completer ==
    [query : Seq({k[2] : k \in {k \in Keys : k[1] = "Char"}}), candidates : SUBSET Files,
     results : Seq(Files), selection_index : Int, done : BOOLEAN, open : BOOLEAN]

Response == [kind : {"partial", "last"}, files : SUBSET Files]

\* Type invariant; the view that is drawn exists, and a mapping that is awaited is
\* still to be run.
TypeOK ==
    /\ ViewsTypeOK
    /\ gui \in {"events", "keys", "calling", "opening", "loading", "draw", "quit", "panicked"}
    /\ completer \in Completer
    /\ highlighted \in Files \cup {NoFile} /\ opening \in Files \cup {NoFile}
    /\ gui \in {"opening", "loading"} => opening # NoFile
    /\ shown \in 0 .. Len(buffer_views)
    /\ listing \in [left : SUBSET Files, files : SUBSET Files, walking : BOOLEAN]
    /\ transit \in Seq(Response) /\ values \in Seq(Response)
    /\ gui = "calling" /\ server = "up" => \E i \in DOMAIN pool : pool[i].own

\* Enter opens the file that the last draw showed as selected, although files arrive,
\* the query is edited and the selection is moved past both ends meanwhile.
SelectsHighlighted == gui = "opening" => opening = highlighted

\* What is on the screen when the next key is read are the matches of the query as it
\* stands among the files received: results that are kept are never of an older query
\* or of fewer files.
ResultsFresh ==
    gui = "events" => completer.results = Query(completer.candidates, completer.query)

\* Where a file may be: sent and not yet drawn, buffered, not yet visited, a candidate.
Pieces ==
    [i \in DOMAIN (transit \o values) |-> (transit \o values)[i].files]
       \o <<listing.files, listing.left, completer.candidates>>

\* list_files sends every file once: each is either still to be visited, buffered, on
\* its way or a candidate; "done" is shown only when all of them are candidates.
ListingComplete ==
    completer.open =>
       /\ \A i, j \in DOMAIN Pieces : i # j => Pieces[i] \cap Pieces[j] = {}
       /\ listing.walking \/ LastResponse \in ToSet(transit \o values) \/ completer.done
             => UNION ToSet(Pieces) = Files
       /\ completer.done => completer.candidates = Files

\* The main thread gets back to reading keys: neither a mapping that calls back into
\* the GUI's own client, nor a view that is created with the views locked while other
\* clients' RPCs queue up for them, leaves the threads waiting for each other.
Responsive ==
    gui # "events" ~> (gui = "events" \/ Ended \/ server = "aborted")

\* An open completer gets to know that all files are listed.
ListingShown ==
    completer.open ~> (~completer.open \/ completer.done \/ server = "aborted" \/ Ended)

=============================================================================
