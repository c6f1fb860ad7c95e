------------------------- MODULE MCSubsequenceMatch -------------------------
(***************************************************************************)
(* All queries of up to two characters "a", "A", "b" and one that is not   *)
(* ASCII, asked of sets of two texts of up to two of them, or of three "a" *)
(* and "b".                                                                *)
(***************************************************************************)
EXTENDS SubsequenceMatch

Chars == {97, 65, 98, 233}
Strings(n) == UNION {[1 .. k -> Chars] : k \in 0 .. n}

MCTexts == Strings(2) \cup [1 .. 3 -> {97, 98}]
MCQueries == Strings(2)
=============================================================================
