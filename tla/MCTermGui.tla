----------------------------- MODULE MCTermGui -----------------------------
(* Instance of TermGui: two files, and mappings that are a chord, a         *)
(* sequence of two keys, and nothing at all (which Esc runs).               *)
EXTENDS TermGui, TLC

MCDeltas == {-2, 2}
MCTexts == {<<2>>, <<0, 3, 1, 1>>}
MCKeys == {<<"Char", "a">>, <<"Char", "q">>, <<"Char", " ">>, <<"Ctrl", "t">>, <<"Ctrl", "a">>,
           <<"Esc">>, <<"Enter">>, <<"Backspace">>, <<"Down">>, <<"Up">>}
Move(l, c) == [line_index |-> l, column_index |-> c]
MCKeymaps == << [mapping |-> <<{"Ctrl", "a"}>>, delta |-> Move(2, -2)],
                [mapping |-> <<{"Down"}, {"Down"}>>, delta |-> Move(2, 2)],
                [mapping |-> <<>>, delta |-> Move(-2, 2)] >>
MCCalls == {[own |-> FALSE, kind |-> "move", delta |-> Move(-2, 2)],
            [own |-> FALSE, kind |-> "scroll", delta |-> Move(2, 2)]}
MCRanked == <<"ab", "b">>
MCLetters == "ab" :> {"a", "b"} @@ "b" :> {"b"}
MCContent == "ab" :> <<0, 3, 1, 1>> @@ "b" :> <<2>>
============================================================================
