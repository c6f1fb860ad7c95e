-------------------------- MODULE SubsequenceMatch --------------------------
(***************************************************************************)
(* The fuzzy matcher behind the file completer (subsequence_match): a      *)
(* CandidateSet and the answer to one query at a time.  A character is its *)
(* code point.  The loop over the candidates visits them in any order (a   *)
(* HashSet), the loop over the characters of one is a step per character.  *)
(***************************************************************************)
EXTENDS Integers, Sequences, FiniteSets

CONSTANTS Texts, Queries,    \* sets of strings
          None,
          MaxCandidates      \* bound: candidates in the set

ASSUME TextsAssumption == Texts \subseteq Seq(Nat) /\ None \notin Texts
ASSUME QueriesAssumption == Queries \subseteq Seq(Nat)
ASSUME MaxCandidatesAssumption == MaxCandidates \in Nat

VARIABLES
  candidates,
  query, match_case,   \* the arguments of the query being answered
  todo,                \* candidates the loop has still to visit
  candidate,           \* the candidate is_subsequence works on, or None
  index,               \* characters of it already looked at
  matching_indices,    \* as in the code, the first index is 0
  results,
  state                \* "asked" while query() runs, then "answered"; "idle" when
                       \* candidates have been inserted since

vars == <<candidates, query, match_case, todo, candidate, index,
          matching_indices, results, state>>

-----------------------------------------------------------------------------

is_ascii(c) == c < 128

to_ascii_lowercase(c) == IF c \in 65 .. 90 THEN c + 32 ELSE c

letter_to_index(letter) == letter % 127

(***************************************************************************)
(* Mutant: letters of both cases have bits of their own.                   *)
(***************************************************************************)
make_query_bitset_MatchCase(s) ==
  {letter_to_index(s[i]) : i \in {i \in DOMAIN s : is_ascii(s[i])}}

make_query_bitset(s) ==
  {letter_to_index(to_ascii_lowercase(s[i])) :
      i \in {i \in DOMAIN s : is_ascii(s[i])}}

matches_query_bitset(text, bitset) == bitset \subseteq make_query_bitset(text)

Same(q, c) ==
  IF match_case THEN q = c
  ELSE to_ascii_lowercase(q) = to_ascii_lowercase(c)

(***************************************************************************)
(* The character of the query that is looked for: query_iter.peek().       *)
(***************************************************************************)
Exhausted == Len(matching_indices) = Len(query)
Wanted == query[Len(matching_indices) + 1]

(***************************************************************************)
(* The sum of the indices, matching_indices.iter().sum().                  *)
(***************************************************************************)
Score(indices) ==
  LET sum[n \in 0 .. Len(indices)] == IF n = 0 THEN 0 ELSE sum[n - 1] + indices[n]
  IN  sum[Len(indices)]

(***************************************************************************)
(* Mutant: the highest score comes first.                                  *)
(***************************************************************************)
Before_Worst(a, i, b, j) == a.score > b.score \/ (a.score = b.score /\ i < j)

(***************************************************************************)
(* results.sort(), which keeps the order of equal scores.                  *)
(***************************************************************************)
Before(a, i, b, j) == a.score < b.score \/ (a.score = b.score /\ i < j)

Sorts(s) ==
  {[i \in DOMAIN s |-> s[p[i]]] :
      p \in {p \in [DOMAIN s -> DOMAIN s] :
               /\ \A i \in DOMAIN s : \E j \in DOMAIN s : p[j] = i
               /\ \A i, j \in DOMAIN s :
                     i < j => Before(s[p[i]], p[i], s[p[j]], p[j])}}

-----------------------------------------------------------------------------

Init ==
  /\ candidates = {}
  /\ query = <<>> /\ match_case = FALSE
  /\ todo = {} /\ candidate = None
  /\ index = 0 /\ matching_indices = <<>>
  /\ results = <<>>
  /\ state = "idle"

insert(text) ==
  /\ state # "asked"
  /\ Cardinality(candidates \cup {text}) <= MaxCandidates
  /\ candidates' = candidates \cup {text}
  /\ state' = "idle"
  /\ UNCHANGED <<query, match_case, todo, candidate, index, matching_indices, results>>

(***************************************************************************)
(* query() until its loop.                                                 *)
(***************************************************************************)
Query(q, with_case) ==
  /\ state # "asked"
  /\ state' = "asked"
  /\ query' = q /\ match_case' = with_case
  /\ results' = <<>>
  /\ todo' = candidates
  /\ UNCHANGED <<candidates, candidate, index, matching_indices>>

(***************************************************************************)
(* The next candidate is skipped, or handed to is_subsequence().           *)
(***************************************************************************)
Visit(text) ==
  /\ state = "asked" /\ candidate = None
  /\ text \in todo
  /\ todo' = todo \ {text}
  /\ candidate' = IF matches_query_bitset(text, make_query_bitset(query))
                  THEN text ELSE None
  /\ UNCHANGED <<candidates, query, match_case, index, matching_indices, results, state>>

(***************************************************************************)
(* Mutant: the indices count from 1.                                       *)
(***************************************************************************)
Scan_FromOne ==
  /\ candidate # None
  /\ index < Len(candidate)
  /\ LET c == candidate[index + 1]
     IN  /\ ~ (is_ascii(c) /\ Exhausted)
         /\ matching_indices' = IF is_ascii(c) /\ Same(Wanted, c)
                                THEN Append(matching_indices, index + 1)
                                ELSE matching_indices
  /\ index' = index + 1
  /\ UNCHANGED <<candidates, query, match_case, todo, candidate, results, state>>

(***************************************************************************)
(* One turn of the loop of is_subsequence().                               *)
(***************************************************************************)
Scan ==
  /\ candidate # None
  /\ index < Len(candidate)
  /\ LET c == candidate[index + 1]
     IN  /\ ~ (is_ascii(c) /\ Exhausted)
         /\ matching_indices' = IF is_ascii(c) /\ Same(Wanted, c)
                                THEN Append(matching_indices, index)
                                ELSE matching_indices
  /\ index' = index + 1
  /\ UNCHANGED <<candidates, query, match_case, todo, candidate, results, state>>

(***************************************************************************)
(* is_subsequence() returns, at the end of the text or, with every         *)
(* character of the query found, before it; a match is pushed.             *)
(***************************************************************************)
Found == Exhausted

Return ==
  /\ candidate # None
  /\ index < Len(candidate) => Exhausted /\ is_ascii(candidate[index + 1])
  /\ results' = IF Found
                THEN Append(results, [text |-> candidate,
                                      matching_indices |-> matching_indices,
                                      score |-> Score(matching_indices)])
                ELSE results
  /\ candidate' = None /\ index' = 0 /\ matching_indices' = <<>>
  /\ UNCHANGED <<candidates, query, match_case, todo, state>>

(***************************************************************************)
(* The end of query().                                                     *)
(***************************************************************************)
Sort ==
  /\ state = "asked" /\ candidate = None /\ todo = {}
  /\ results' \in Sorts(results)
  /\ state' = "answered"
  /\ UNCHANGED <<candidates, query, match_case, todo, candidate, index, matching_indices>>

Next ==
  \/ \E text \in Texts : insert(text)
  \/ \E q \in Queries, with_case \in BOOLEAN : Query(q, with_case)
  \/ \E text \in Texts : Visit(text)
  \/ Scan \/ Return \/ Sort

Spec == Init /\ [][Next]_vars

-----------------------------------------------------------------------------

(***************************************************************************)
(* The reference: the ways to find the first n characters of the query in  *)
(* the text, in order, as positions in the text.                           *)
(***************************************************************************)
Embeddings(text, n) ==
  {e \in [1 .. n -> DOMAIN text] :
      /\ \A x, y \in 1 .. n : x < y => e[x] < e[y]
      /\ \A x \in 1 .. n : is_ascii(text[e[x]]) /\ Same(query[x], text[e[x]])}

(***************************************************************************)
(* Nothing that is found later could have been found earlier: position by  *)
(* position the match is the leftmost one, and the next character of the   *)
(* query does not fit in what was looked at.                               *)
(***************************************************************************)
LeftmostMatch ==
  candidate # None =>
     \A n \in 0 .. Len(query) : \A e \in Embeddings(candidate, n) :
        \A x \in 1 .. n :
           /\ x <= Len(matching_indices) => matching_indices[x] < e[x]
           /\ x > Len(matching_indices) => index < e[x]

Answers == {results[i].text : i \in DOMAIN results}

(***************************************************************************)
(* The prefilter loses nothing and the greedy search gives up on nothing:  *)
(* the answer has exactly the candidates that hold the query.              *)
(***************************************************************************)
AnswerComplete ==
  state # "idle" =>
     Answers = {t \in candidates \ (todo \cup {candidate}) : Embeddings(t, Len(query)) # {}}

(***************************************************************************)
(* The answer is a ranking: each candidate is in it once, with the least   *)
(* score a match of it can have, the best one first.                       *)
(***************************************************************************)
Ranked ==
  /\ \A i, j \in DOMAIN results : results[i].text = results[j].text => i = j
  /\ \A i \in DOMAIN results : \A e \in Embeddings(results[i].text, Len(query)) :
        results[i].score <= Score([x \in DOMAIN e |-> e[x] - 1])
  /\ state = "answered" =>
        \A i, j \in DOMAIN results : i < j => results[i].score <= results[j].score

(***************************************************************************)
(* Type invariant: no more characters are matched than the query has, and  *)
(* each candidate is looked at from its first character to its last.       *)
(***************************************************************************)
TypeOK ==
  /\ candidates \subseteq Texts /\ todo \subseteq candidates
  /\ query \in Seq(Nat) /\ match_case \in BOOLEAN
  /\ candidate \in Texts \cup {None}
  /\ index \in Nat
  /\ candidate # None => index <= Len(candidate)
  /\ matching_indices \in Seq(Nat)
  /\ Len(matching_indices) <= Len(query)
  /\ results \in Seq([text : Texts, matching_indices : Seq(Nat), score : Nat])
  /\ state \in {"idle", "asked", "answered"}
=============================================================================
