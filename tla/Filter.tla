------------------------------- MODULE Filter -------------------------------
(***************************************************************************)
(* What a reader of a queue sees who looks only for some of its elements.  *)
(* SelectSeq of Sequences says the same; TLAPS knows nothing of it, whereas *)
(* a recursive function can be reasoned about.                             *)
(***************************************************************************)
EXTENDS Naturals, Sequences

\* The elements of s that are in S, in their order.
Only(s, S) ==
    LET kept[n \in 0 .. Len(s)] == IF n = 0 THEN <<>>
                                   ELSE IF s[n] \in S THEN Append(kept[n - 1], s[n])
                                   ELSE kept[n - 1]
    IN  kept[Len(s)]
=============================================================================
