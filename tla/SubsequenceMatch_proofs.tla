----------------------- MODULE SubsequenceMatch_proofs ----------------------
(***************************************************************************)
(* The greedy search finds the leftmost match of every candidate that has  *)
(* one, and the answer to a query has exactly these, the best one first.   *)
(***************************************************************************)
EXTENDS SubsequenceMatch, WellFoundedInduction, TLAPS

(***************************************************************************)
(* What is needed of the types, and who is being looked at when.           *)
(***************************************************************************)
Answer == [text : Texts, matching_indices : Seq(Nat), score : Nat]

Types ==
  /\ candidates \subseteq Texts /\ todo \subseteq candidates
  /\ query \in Seq(Nat) /\ match_case \in BOOLEAN
  /\ candidate \in Texts \cup {None}
  /\ index \in Nat
  /\ candidate = None => index = 0 /\ matching_indices = <<>>
  /\ candidate # None => /\ index <= Len(candidate)
                         /\ candidate \in candidates \ todo
                         /\ state = "asked"
  /\ matching_indices \in Seq(Nat)
  /\ Len(matching_indices) <= Len(query)
  /\ results \in Seq(Answer)
  /\ state \in {"idle", "asked", "answered"}
  /\ state # "asked" => todo = {} /\ candidate = None

(***************************************************************************)
(* The indices found so far are a match of that part of the query.         *)
(***************************************************************************)
Matched ==
  candidate # None =>
     /\ \A x \in 1 .. Len(matching_indices) :
           /\ matching_indices[x] < index
           /\ is_ascii(candidate[matching_indices[x] + 1])
           /\ Same(query[x], candidate[matching_indices[x] + 1])
     /\ \A x, y \in 1 .. Len(matching_indices) :
           x < y => matching_indices[x] < matching_indices[y]

IInv == Types /\ Matched /\ LeftmostMatch /\ AnswerComplete /\ Ranked

-----------------------------------------------------------------------------
(***************************************************************************)
(* The score: a number, and smaller for smaller indices.  The induction is *)
(* over the set of the lengths for which this holds.                       *)
(***************************************************************************)
LEMMA Least ==
  ASSUME NEW T, T \subseteq Nat, T # {}
  PROVE  \E m \in T : \A k \in T : ~(k < m)
<1> DEFINE R == {ss \in Nat \X Nat : ss[1] < ss[2]}
<1>1. IsWellFoundedOn(R, Nat)
  BY NatLessThanWellFounded DEF OpToRel
<1> HIDE DEF R
<1>2. PICK m \in T : \A k \in T : <<k, m>> \notin R
  BY <1>1, WFMin
<1> QED  BY <1>2 DEF R

LEMMA Induction ==
  ASSUME NEW T, T \subseteq Nat, 0 \in T, \A n \in T : n + 1 \in T
  PROVE  \A n \in Nat : n \in T
<1> SUFFICES ASSUME Nat \ T # {} PROVE FALSE
  OBVIOUS
<1>1. PICK m \in Nat \ T : \A k \in Nat \ T : ~(k < m)
  BY Least
<1>2. m # 0 /\ m - 1 \in Nat /\ m - 1 < m /\ m = (m - 1) + 1
  BY <1>1
<1>3. m - 1 \in T
  BY <1>1, <1>2
<1> QED  BY <1>1, <1>2, <1>3

\* g has the sums of the first elements of s, up to the n-th.
Sums(s, g, n) == g = [i \in 0 .. n |-> IF i = 0 THEN 0 ELSE g[i - 1] + s[i]]

LEMMA SumsExist ==
  ASSUME NEW s, NEW n \in Nat
  PROVE  \E g : Sums(s, g, n)
<1> DEFINE T == {m \in Nat : \E g : Sums(s, g, m)}
<1>1. 0 \in T
  <2>1. Sums(s, [i \in 0 .. 0 |-> 0], 0)
    BY DEF Sums
  <2> QED  BY <2>1
<1>2. ASSUME NEW m \in T
      PROVE  m + 1 \in T
  <2>1. PICK g : Sums(s, g, m)
    OBVIOUS
  <2> DEFINE h == [i \in 0 .. m + 1 |-> IF i = m + 1 THEN g[m] + s[i] ELSE g[i]]
  <2>2. \A i \in 0 .. m : g[i] = IF i = 0 THEN 0 ELSE g[i - 1] + s[i]
    BY <2>1 DEF Sums
  <2>3. \A i \in 0 .. m + 1 : h[i] = IF i = 0 THEN 0 ELSE h[i - 1] + s[i]
    BY <2>2
  <2>4. Sums(s, h, m + 1)
    BY <2>3 DEF Sums
  <2> QED  BY <2>4
<1> HIDE DEF T
<1>3. \A m \in Nat : m \in T
  BY <1>1, <1>2, Induction DEF T
<1> QED  BY <1>3 DEF T

LEMMA ScoreIsSum ==
  ASSUME NEW s, Len(s) \in Nat
  PROVE  \E g : /\ g[0] = 0
                /\ \A n \in 1 .. Len(s) : g[n] = g[n - 1] + s[n]
                /\ Score(s) = g[Len(s)]
<1> DEFINE sum == CHOOSE g : Sums(s, g, Len(s))
<1>1. Score(s) = sum[Len(s)]
  BY DEF Score, Sums
<1>2. Sums(s, sum, Len(s))
  BY SumsExist
<1> HIDE DEF sum
<1>3. \A i \in 0 .. Len(s) : sum[i] = IF i = 0 THEN 0 ELSE sum[i - 1] + s[i]
  BY <1>2 DEF Sums
<1> QED  BY <1>1, <1>3

LEMMA ScoreType ==
  ASSUME NEW s \in Seq(Nat)
  PROVE  Score(s) \in Nat
<1>1. PICK g : /\ g[0] = 0
               /\ \A n \in 1 .. Len(s) : g[n] = g[n - 1] + s[n]
               /\ Score(s) = g[Len(s)]
  BY ScoreIsSum
<1> DEFINE T == {n \in Nat : n <= Len(s) => g[n] \in Nat}
<1>2. \A n \in T : n + 1 \in T
  <2> SUFFICES ASSUME NEW n \in T, n + 1 <= Len(s) PROVE g[n + 1] \in Nat
    OBVIOUS
  <2>1. n + 1 \in 1 .. Len(s) /\ (n + 1) - 1 = n /\ g[n] \in Nat /\ s[n + 1] \in Nat
    OBVIOUS
  <2> QED  BY <1>1, <2>1
<1>3. 0 \in T
  BY <1>1
<1> HIDE DEF T
<1>4. \A n \in Nat : n \in T
  BY <1>2, <1>3, Induction DEF T
<1>5. Len(s) \in Nat
  OBVIOUS
<1> QED  BY <1>1, <1>4, <1>5 DEF T

LEMMA ScoreGrows ==
  ASSUME NEW s \in Seq(Nat), NEW t \in Seq(Nat), Len(s) = Len(t),
         \A x \in 1 .. Len(s) : s[x] <= t[x]
  PROVE  Score(s) <= Score(t)
<1>1. PICK g : /\ g[0] = 0
               /\ \A n \in 1 .. Len(s) : g[n] = g[n - 1] + s[n]
               /\ Score(s) = g[Len(s)]
  BY ScoreIsSum
<1>2. PICK h : /\ h[0] = 0
               /\ \A n \in 1 .. Len(t) : h[n] = h[n - 1] + t[n]
               /\ Score(t) = h[Len(t)]
  BY ScoreIsSum
<1> DEFINE T == {n \in Nat : n <= Len(s) => g[n] \in Nat /\ h[n] \in Nat /\ g[n] <= h[n]}
<1>3. \A n \in T : n + 1 \in T
  <2> SUFFICES ASSUME NEW n \in T, n + 1 <= Len(s)
               PROVE  g[n + 1] \in Nat /\ h[n + 1] \in Nat /\ g[n + 1] <= h[n + 1]
    OBVIOUS
  <2>1. /\ n + 1 \in 1 .. Len(s) /\ (n + 1) - 1 = n
        /\ g[n] \in Nat /\ h[n] \in Nat /\ g[n] <= h[n]
        /\ s[n + 1] \in Nat /\ t[n + 1] \in Nat /\ s[n + 1] <= t[n + 1]
    OBVIOUS
  <2>4. n + 1 \in 1 .. Len(t)
    BY <2>1
  <2>2. g[n + 1] = g[n] + s[n + 1]
    <3>1. g[n + 1] = g[(n + 1) - 1] + s[n + 1]
      BY <1>1, <2>1
    <3> QED  BY <2>1, <3>1
  <2>3. h[n + 1] = h[n] + t[n + 1]
    <3>1. h[n + 1] = h[(n + 1) - 1] + t[n + 1]
      BY <1>2, <2>4
    <3> QED  BY <2>1, <3>1
  <2>5. g[n] + s[n + 1] <= h[n] + t[n + 1]
    <3> DEFINE a == g[n]  b == h[n]  c == s[n + 1]  d == t[n + 1]
    <3>1. a \in Nat /\ b \in Nat /\ c \in Nat /\ d \in Nat /\ a <= b /\ c <= d
      BY <2>1
    <3> HIDE DEF a, b, c, d, T
    <3>2. a + c <= b + d
      BY <3>1
    <3> QED  BY <3>2 DEF a, b, c, d
  <2>6. g[n] + s[n + 1] \in Nat /\ h[n] + t[n + 1] \in Nat
    BY <2>1
  <2> HIDE DEF T
  <2> QED  BY <2>2, <2>3, <2>5, <2>6, Zenon
<1>4. 0 \in T
  BY <1>1, <1>2
<1> HIDE DEF T
<1>5. \A n \in Nat : n \in T
  BY <1>3, <1>4, Induction DEF T
<1>6. Len(s) \in Nat
  OBVIOUS
<1> QED  BY <1>1, <1>2, <1>5, <1>6 DEF T

-----------------------------------------------------------------------------

(***************************************************************************)
(* The prefilter: a text that holds the query has the query's letters.     *)
(***************************************************************************)
LEMMA Prefilter ==
  ASSUME Types, NEW text \in Texts, NEW e \in Embeddings(text, Len(query))
  PROVE  matches_query_bitset(text, make_query_bitset(query))
<1> SUFFICES ASSUME NEW x \in DOMAIN query, is_ascii(query[x])
             PROVE  \E i \in DOMAIN text :
                      /\ is_ascii(text[i])
                      /\ letter_to_index(to_ascii_lowercase(text[i])) =
                            letter_to_index(to_ascii_lowercase(query[x]))
  BY DEF matches_query_bitset, make_query_bitset
<1>1. x \in 1 .. Len(query)
  BY DEF Types
<1>2. e[x] \in DOMAIN text /\ is_ascii(text[e[x]]) /\ Same(query[x], text[e[x]])
  BY <1>1 DEF Embeddings
<1>3. to_ascii_lowercase(text[e[x]]) = to_ascii_lowercase(query[x])
  BY <1>2 DEF Same
<1> QED  BY <1>2, <1>3

(***************************************************************************)
(* At the end of the search: everything found is a match, and without it   *)
(* there is none.                                                          *)
(***************************************************************************)
LEMMA FoundIsMatch ==
  ASSUME IInv, candidate # None, Exhausted
  PROVE  Embeddings(candidate, Len(query)) # {}
<1> DEFINE e == [x \in 1 .. Len(query) |-> matching_indices[x] + 1]
<1>1. /\ Len(matching_indices) = Len(query) /\ index \in Nat
      /\ matching_indices \in Seq(Nat)
      /\ candidate \in Seq(Nat) /\ index <= Len(candidate)
  BY TextsAssumption DEF IInv, Types, Exhausted
<1>2. \A x \in 1 .. Len(query) :
         /\ matching_indices[x] \in Nat /\ matching_indices[x] < index
         /\ is_ascii(candidate[matching_indices[x] + 1])
         /\ Same(query[x], candidate[matching_indices[x] + 1])
  BY <1>1 DEF IInv, Matched
<1>3. \A x, y \in 1 .. Len(query) : x < y => matching_indices[x] < matching_indices[y]
  BY <1>1 DEF IInv, Matched
<1>4. \A x \in 1 .. Len(query) : matching_indices[x] + 1 \in DOMAIN candidate
  BY <1>1, <1>2
<1>5. e \in [1 .. Len(query) -> DOMAIN candidate]
  BY <1>4
<1>6. \A x, y \in 1 .. Len(query) : x < y => e[x] < e[y]
  BY <1>2, <1>3
<1>7. \A x \in 1 .. Len(query) : is_ascii(candidate[e[x]]) /\ Same(query[x], candidate[e[x]])
  BY <1>2
<1> HIDE DEF e
<1>8. e \in Embeddings(candidate, Len(query))
  BY <1>5, <1>6, <1>7 DEF Embeddings
<1> QED  BY <1>8

LEMMA NotFoundIsNone ==
  ASSUME IInv, candidate # None, ~Exhausted, index = Len(candidate)
  PROVE  Embeddings(candidate, Len(query)) = {}
<1> SUFFICES ASSUME NEW e \in Embeddings(candidate, Len(query)) PROVE FALSE
  OBVIOUS
<1> DEFINE k == Len(matching_indices)
<1>1. k \in Nat /\ Len(query) \in Nat /\ k < Len(query) /\ candidate \in Seq(Nat)
  BY TextsAssumption DEF IInv, Types, Exhausted
<1>2. Len(query) \in 0 .. Len(query) /\ k + 1 \in 1 .. Len(query) /\ k + 1 > k
  BY <1>1
<1>3. index < e[k + 1]
  BY <1>2 DEF IInv, LeftmostMatch
<1>4. e[k + 1] \in DOMAIN candidate
  BY <1>2 DEF Embeddings
<1> QED  BY <1>1, <1>3, <1>4

(***************************************************************************)
(* What is found is the best match: the leftmost one has the least sum.    *)
(***************************************************************************)
LEMMA FoundIsBest ==
  ASSUME IInv, candidate # None, Exhausted, NEW e \in Embeddings(candidate, Len(query))
  PROVE  Score(matching_indices) <= Score([x \in DOMAIN e |-> e[x] - 1])
<1> DEFINE n == Len(query)
           t == [x \in 1 .. n |-> e[x] - 1]
<1>1. /\ n \in Nat /\ Len(matching_indices) = n /\ matching_indices \in Seq(Nat)
      /\ candidate \in Seq(Nat)
  BY TextsAssumption DEF IInv, Types, Exhausted
<1>2. e \in [1 .. n -> DOMAIN candidate] /\ DOMAIN e = 1 .. n
  BY DEF Embeddings
<1>3. \A x \in 1 .. n : e[x] \in Nat /\ e[x] > 0
  <2>1. DOMAIN candidate = 1 .. Len(candidate) /\ Len(candidate) \in Nat
    BY <1>1
  <2>2. \A x \in 1 .. n : e[x] \in 1 .. Len(candidate)
    BY <1>2, <2>1
  <2> QED  BY <2>1, <2>2
<1>4. \A x \in 1 .. n : matching_indices[x] < e[x]
  <2>1. n \in 0 .. Len(query)
    BY <1>1
  <2> QED  BY <1>1, <2>1 DEF IInv, LeftmostMatch
<1>5. \A x \in 1 .. n : matching_indices[x] \in Nat
  BY <1>1
<1>6. t \in Seq(Nat) /\ Len(t) = n
  <2>1. \A x \in 1 .. n : e[x] - 1 \in Nat
    BY <1>3
  <2> QED  BY <1>1, <2>1
<1>7. \A x \in 1 .. n : matching_indices[x] <= t[x]
  BY <1>3, <1>4, <1>5
<1>8. [x \in DOMAIN e |-> e[x] - 1] = t
  BY <1>2
<1> HIDE DEF t, n
<1> QED  BY <1>1, <1>6, <1>7, <1>8, ScoreGrows

(***************************************************************************)
(* Steps that leave the results and the query alone.                       *)
(***************************************************************************)
LEMMA RankedStays ==
  ASSUME Ranked, UNCHANGED <<query, match_case, results>>,
         state' = "answered" => state = "answered"
  PROVE  Ranked'
<1>1. \A text, n : Embeddings(text, n)' = Embeddings(text, n)
  BY DEF Same, Embeddings
<1> QED  BY <1>1 DEF Ranked

-----------------------------------------------------------------------------

LEMMA InitIInv == Init => IInv
<1> SUFFICES ASSUME Init PROVE IInv
  OBVIOUS
<1>1. Types
  <2>1. /\ results \in Seq(Answer) /\ matching_indices \in Seq(Nat) /\ query \in Seq(Nat)
        /\ Len(matching_indices) = 0 /\ Len(query) = 0
    BY DEF Init
  <2>2. /\ candidates = {} /\ todo = {} /\ candidate = None /\ index = 0
        /\ state = "idle" /\ matching_indices = <<>>
    BY DEF Init
  <2>3. match_case \in BOOLEAN
    BY DEF Init
  <2>4. candidate \in Texts \cup {None} /\ candidates \subseteq Texts /\ index \in Nat
    BY <2>2
  <2> QED  BY <2>1, <2>2, <2>3, <2>4 DEF Types
<1>2. candidate = None /\ state = "idle"
  BY DEF Init
<1>3. Ranked
  BY DEF Init, Ranked
<1> QED  BY <1>1, <1>2, <1>3 DEF IInv, Matched, LeftmostMatch, AnswerComplete

LEMMA InsertStep ==
  ASSUME IInv, NEW text \in Texts, insert(text)
  PROVE  IInv'
<1>1. Types' /\ candidate' = None /\ state' = "idle"
  BY DEF IInv, Types, insert
<1>2. Ranked'
  BY <1>1, RankedStays DEF IInv, insert
<1> QED  BY <1>1, <1>2 DEF IInv, Matched, LeftmostMatch, AnswerComplete

LEMMA QueryStep ==
  ASSUME IInv, NEW q \in Queries, NEW with_case \in BOOLEAN, Query(q, with_case)
  PROVE  IInv'
<1>1. /\ candidate = None /\ candidate' = None /\ todo' = candidates
      /\ candidates' = candidates /\ results' = <<>>
      /\ matching_indices' = <<>> /\ index' = 0
  BY DEF IInv, Types, Query
<1>2. Types'
  <2>1. query' \in Seq(Nat) /\ match_case' \in BOOLEAN /\ state' = "asked"
    BY QueriesAssumption DEF Query
  <2>2. matching_indices' \in Seq(Nat) /\ Len(matching_indices') <= Len(query')
    BY <1>1, <2>1
  <2>3. results' \in Seq(Answer)
    BY <1>1
  <2> QED  BY <1>1, <2>1, <2>2, <2>3 DEF IInv, Types
<1>3. Answers' = {}
  BY <1>1 DEF Answers
<1>4. AnswerComplete'
  BY <1>1, <1>3 DEF AnswerComplete
<1>5. Ranked'
  <2>1. DOMAIN results' = {}
    BY <1>1
  <2> QED  BY <2>1 DEF Ranked
<1> QED  BY <1>1, <1>2, <1>4, <1>5 DEF IInv, Matched, LeftmostMatch

(***************************************************************************)
(* The definitions that depend on the query only.                          *)
(***************************************************************************)
LEMMA SameQuery ==
  ASSUME query' = query, match_case' = match_case
  PROVE  /\ \A q, c : Same(q, c)' = Same(q, c)
         /\ \A text, n : Embeddings(text, n)' = Embeddings(text, n)
  BY DEF Same, Embeddings

LEMMA VisitStep ==
  ASSUME IInv, NEW text \in Texts, Visit(text)
  PROVE  IInv'
<1>1. /\ state = "asked" /\ candidate = None /\ text \in todo
      /\ todo' = todo \ {text} /\ index = 0 /\ matching_indices = <<>>
      /\ UNCHANGED <<candidates, query, match_case, index, matching_indices, results, state>>
  BY DEF IInv, Types, Visit
<1>2. candidate' \in {text, None}
  BY DEF Visit
<1>3. text # None /\ text \in Seq(Nat) /\ Len(text) \in Nat
  BY TextsAssumption
<1>4. Types'
  BY <1>1, <1>2, <1>3 DEF IInv, Types
<1>5. Matched'
  BY <1>1 DEF Matched
<1>6. LeftmostMatch'
  <2> SUFFICES ASSUME candidate' # None PROVE LeftmostMatch'
    BY DEF LeftmostMatch
  <2>2. candidate' = text
    BY <1>2
  <2>3. \A n : Embeddings(text, n)' = Embeddings(text, n)
    BY <1>1, SameQuery
  <2>4. Len(matching_indices) = 0
    BY <1>1
  <2> SUFFICES \A n \in 0 .. Len(query) : \A e \in Embeddings(text, n) :
                         \A x \in 1 .. n : x > 0 /\ 0 < e[x]
    BY <1>1, <2>2, <2>3, <2>4 DEF LeftmostMatch
  <2> SUFFICES ASSUME NEW n \in 0 .. Len(query), NEW e \in Embeddings(text, n),
                      NEW x \in 1 .. n
               PROVE  x > 0 /\ 0 < e[x]
    OBVIOUS
  <2>1. e[x] \in DOMAIN text
    BY DEF Embeddings
  <2> QED  BY <1>3, <2>1
<1>7. AnswerComplete'
  <2>1. Answers' = Answers
    BY <1>1 DEF Answers
  <2>2. Answers = {t \in candidates \ (todo \cup {None}) : Embeddings(t, Len(query)) # {}}
    BY <1>1 DEF IInv, AnswerComplete
  <2>3. \A t : Embeddings(t, Len(query))' = Embeddings(t, Len(query))
    BY <1>1, SameQuery
  <2>4. CASE candidate' = text
    <3>1. candidates \ (todo' \cup {candidate'}) = candidates \ (todo \cup {None})
      BY <1>1, <1>3, <2>4, TextsAssumption DEF IInv, Types
    <3> QED  BY <1>1, <2>1, <2>2, <2>3, <3>1 DEF AnswerComplete
  <2>5. CASE candidate' = None
    <3>1. Embeddings(text, Len(query)) = {}
      <4>1. ~ matches_query_bitset(text, make_query_bitset(query))
        BY <1>3, <2>5 DEF Visit
      <4>2. Types
        BY DEF IInv
      <4> QED  BY <4>1, <4>2, Prefilter
    <3>2. candidates \ (todo' \cup {candidate'}) =
             (candidates \ (todo \cup {None})) \cup {text}
      BY <1>1, <1>3, <2>5, TextsAssumption DEF IInv, Types
    <3> QED  BY <1>1, <2>1, <2>2, <2>3, <3>1, <3>2 DEF AnswerComplete
  <2> QED  BY <1>2, <2>4, <2>5
<1>8. Ranked'
  BY <1>1, RankedStays DEF IInv
<1> QED  BY <1>4, <1>5, <1>6, <1>7, <1>8 DEF IInv

LEMMA ScanStep ==
  ASSUME IInv, Scan
  PROVE  IInv'
<1> DEFINE c == candidate[index + 1]
           k == Len(matching_indices)
           advance == is_ascii(c) /\ Same(Wanted, c)
<1>1. /\ candidate # None /\ index < Len(candidate) /\ index' = index + 1
      /\ ~ (is_ascii(c) /\ Exhausted)
      /\ matching_indices' = IF advance THEN Append(matching_indices, index) ELSE matching_indices
      /\ UNCHANGED <<candidates, query, match_case, todo, candidate, results, state>>
  BY DEF Scan
<1>2. /\ index \in Nat /\ k \in Nat /\ Len(query) \in Nat /\ k <= Len(query)
      /\ candidate \in Seq(Nat) /\ Len(candidate) \in Nat
      /\ matching_indices \in Seq(Nat) /\ index + 1 \in DOMAIN candidate
  BY <1>1, TextsAssumption DEF IInv, Types
<1>3. advance => k < Len(query)
  BY <1>1, <1>2 DEF Exhausted
<1>4. advance => /\ matching_indices' \in Seq(Nat) /\ Len(matching_indices') = k + 1
                 /\ matching_indices'[k + 1] = index
                 /\ \A x \in 1 .. k : matching_indices'[x] = matching_indices[x]
  BY <1>1, <1>2
<1>5. ~advance => matching_indices' = matching_indices
  BY <1>1
<1>6. \A q, d : Same(q, d)' = Same(q, d)
  BY <1>1, SameQuery
<1>7. \A text, n : Embeddings(text, n)' = Embeddings(text, n)
  BY <1>1, SameQuery
<1>8. Wanted = query[k + 1]
  BY DEF Wanted
<1>9. /\ \A x \in 1 .. k : /\ matching_indices[x] < index /\ matching_indices[x] \in Nat
                           /\ is_ascii(candidate[matching_indices[x] + 1])
                           /\ Same(query[x], candidate[matching_indices[x] + 1])
      /\ \A x, y \in 1 .. k : x < y => matching_indices[x] < matching_indices[y]
  <2>1. \A x \in 1 .. k : matching_indices[x] \in Nat
    BY <1>2
  <2>2. Matched
    BY DEF IInv
  <2> QED  BY <1>1, <2>1, <2>2, Zenon DEF Matched
<1>10. ASSUME NEW n \in 0 .. Len(query), NEW e \in Embeddings(candidate, n), NEW x \in 1 .. n
       PROVE  /\ x <= k => matching_indices[x] < e[x]
              /\ x > k => index < e[x]
  BY <1>1 DEF IInv, LeftmostMatch
<1>11. matching_indices' \in Seq(Nat) /\ Len(matching_indices') \in Nat
       /\ Len(matching_indices') <= Len(query)
  BY <1>2, <1>3, <1>4, <1>5
<1> HIDE DEF advance, k
<1>12. Types'
  BY <1>1, <1>2, <1>11 DEF IInv, Types
<1>13. Matched'
  <2>1. CASE advance
    <3>1. is_ascii(c) /\ Same(query[k + 1], c)
      BY <1>8, <2>1 DEF advance
    <3>2. ASSUME NEW x \in 1 .. k + 1
          PROVE  /\ matching_indices'[x] < index' /\ matching_indices'[x] \in Nat
                 /\ is_ascii(candidate[matching_indices'[x] + 1])
                 /\ Same(query[x], candidate[matching_indices'[x] + 1])
      <4>1. CASE x = k + 1
        BY <1>1, <1>2, <1>4, <2>1, <3>1, <4>1
      <4>2. CASE x # k + 1
        <5>1. x \in 1 .. k
          BY <1>2, <4>2
        <5>2. matching_indices'[x] = matching_indices[x]
          BY <1>4, <2>1, <5>1
        <5>3. /\ matching_indices[x] < index /\ matching_indices[x] \in Nat
              /\ is_ascii(candidate[matching_indices[x] + 1])
              /\ Same(query[x], candidate[matching_indices[x] + 1])
          BY <1>9, <5>1
        <5>4. matching_indices[x] < index'
          BY <1>1, <1>2, <5>3
        <5> QED  BY <5>2, <5>3, <5>4
      <4> QED  BY <4>1, <4>2
    <3>3. ASSUME NEW x \in 1 .. k + 1, NEW y \in 1 .. k + 1, x < y
          PROVE  matching_indices'[x] < matching_indices'[y]
      <4>1. x \in 1 .. k /\ matching_indices'[x] = matching_indices[x]
        BY <1>2, <1>4, <2>1, <3>3
      <4>2. CASE y = k + 1
        BY <1>4, <1>9, <2>1, <4>1, <4>2
      <4>3. CASE y # k + 1
        <5>1. y \in 1 .. k
          BY <1>2, <4>3
        <5> QED  BY <1>4, <1>9, <2>1, <3>3, <4>1, <5>1
      <4> QED  BY <4>2, <4>3
    <3> QED  BY <1>1, <1>4, <1>6, <2>1, <3>2, <3>3 DEF Matched
  <2>2. CASE ~advance
    <3>1. \A x \in 1 .. k : matching_indices[x] < index + 1
      BY <1>2, <1>9
    <3> QED  BY <1>1, <1>5, <1>6, <1>9, <2>2, <3>1 DEF Matched, k
  <2> QED  BY <2>1, <2>2
<1>14. LeftmostMatch'
  <2> SUFFICES ASSUME NEW n \in 0 .. Len(query), NEW e \in Embeddings(candidate, n),
                      NEW x \in 1 .. n
               PROVE  /\ x <= Len(matching_indices') => matching_indices'[x] < e[x]
                      /\ x > Len(matching_indices') => index + 1 < e[x]
    BY <1>1, <1>7 DEF LeftmostMatch
  <2>1. x \in Nat /\ x > 0 /\ x <= n /\ e[x] \in Nat
    BY <1>2 DEF Embeddings
  <2>2. is_ascii(candidate[e[x]]) /\ Same(query[x], candidate[e[x]])
    BY DEF Embeddings
  <2>3. (x <= k => matching_indices[x] < e[x]) /\ (x > k => index < e[x])
    BY <1>10
  <2>4. CASE advance
    <3>1. CASE x <= k
      BY <1>2, <1>4, <2>1, <2>3, <2>4, <3>1
    <3>2. CASE x = k + 1
      BY <1>2, <1>4, <2>1, <2>3, <2>4, <3>2
    <3>3. CASE x > k + 1
      <4>1. k + 1 \in 1 .. n /\ k + 1 > k
        BY <1>2, <2>1, <3>3
      <4>2. index < e[k + 1] /\ e[k + 1] \in Nat
        <5>1. index < e[k + 1]
          BY <1>10, <4>1
        <5>2. e[k + 1] \in DOMAIN candidate
          BY <4>1 DEF Embeddings
        <5> QED  BY <1>2, <5>1, <5>2
      <4>3. e[k + 1] < e[x]
        BY <3>3, <4>1 DEF Embeddings
      <4> QED  BY <1>2, <1>4, <2>1, <2>4, <3>3, <4>2, <4>3
    <3> QED  BY <1>2, <2>1, <3>1, <3>2, <3>3
  <2>5. CASE ~advance
    <3>1. CASE x <= k
      BY <1>5, <2>1, <2>3, <2>5, <3>1 DEF k
    <3>2. CASE x > k
      <4>1. k + 1 \in 1 .. n /\ k + 1 > k
        BY <1>2, <2>1, <3>2
      <4>2. index < e[k + 1] /\ e[k + 1] \in Nat
        <5>1. index < e[k + 1]
          BY <1>10, <4>1
        <5>2. e[k + 1] \in DOMAIN candidate
          BY <4>1 DEF Embeddings
        <5> QED  BY <1>2, <5>1, <5>2
      <4>3. e[k + 1] # index + 1
        <5>1. is_ascii(candidate[e[k + 1]]) /\ Same(query[k + 1], candidate[e[k + 1]])
          BY <4>1 DEF Embeddings
        <5> QED  BY <1>8, <2>5, <5>1 DEF advance
      <4>4. e[k + 1] <= e[x]
        <5>1. CASE x = k + 1
          BY <4>2, <5>1
        <5>2. CASE x # k + 1
          BY <1>2, <2>1, <3>2, <4>1, <4>2, <5>2 DEF Embeddings
        <5> QED  BY <5>1, <5>2
      <4> QED  BY <1>2, <1>5, <2>1, <2>5, <3>2, <4>2, <4>3, <4>4 DEF k
    <3> QED  BY <1>2, <2>1, <3>1, <3>2
  <2> QED  BY <2>4, <2>5
<1>15. AnswerComplete'
  <2>1. Answers' = Answers
    BY <1>1 DEF Answers
  <2> QED  BY <1>1, <1>7, <2>1 DEF IInv, AnswerComplete
<1>16. Ranked'
  BY <1>1, RankedStays DEF IInv
<1> QED  BY <1>12, <1>13, <1>14, <1>15, <1>16 DEF IInv

LEMMA ReturnStep ==
  ASSUME IInv, Return
  PROVE  IInv'
<1>1. /\ candidate # None /\ candidate' = None /\ index' = 0 /\ matching_indices' = <<>>
      /\ UNCHANGED <<candidates, query, match_case, todo, state>>
  BY DEF Return
<1>2. PICK answer \in Answer : /\ answer.text = candidate
                              /\ answer.score = Score(matching_indices)
                              /\ results' = IF Exhausted THEN Append(results, answer) ELSE results
  <2> DEFINE a == [text |-> candidate, matching_indices |-> matching_indices,
                   score |-> Score(matching_indices)]
  <2>1. candidate \in Texts /\ matching_indices \in Seq(Nat)
    BY <1>1 DEF IInv, Types
  <2>2. a \in Answer /\ a.text = candidate /\ a.score = Score(matching_indices)
    BY <2>1, ScoreType DEF Answer
  <2>3. results' = IF Exhausted THEN Append(results, a) ELSE results
    BY DEF Return, Found
  <2> QED  BY <2>2, <2>3
<1>3. /\ state = "asked" /\ candidate \in candidates \ todo /\ candidate \in Texts
      /\ results \in Seq(Answer)
  BY <1>1 DEF IInv, Types
<1>4. /\ results' \in Seq(Answer)
      /\ Answers' = IF Exhausted THEN Answers \cup {candidate} ELSE Answers
  <2>1. CASE Exhausted
    <3>1. /\ results' \in Seq(Answer) /\ Len(results') = Len(results) + 1
          /\ results'[Len(results) + 1] = answer
          /\ \A i \in 1 .. Len(results) : results'[i] = results[i]
      BY <1>2, <1>3, <2>1
    <3>2. DOMAIN results = 1 .. Len(results) /\ DOMAIN results' = 1 .. Len(results) + 1
      BY <1>3, <3>1
    <3>3. Answers' = Answers \cup {candidate}
      <4>1. \A t : t \in Answers' <=> \E i \in 1 .. Len(results) + 1 : t = results'[i].text
        BY <3>2 DEF Answers
      <4>2. \A t : t \in Answers <=> \E i \in 1 .. Len(results) : t = results[i].text
        BY <3>2 DEF Answers
      <4>3. Len(results) \in Nat
        BY <1>3
      <4>4. \A i \in 1 .. Len(results) + 1 : i \in 1 .. Len(results) \/ i = Len(results) + 1
        BY <4>3
      <4>5. \A i \in 1 .. Len(results) : i \in 1 .. Len(results) + 1
        BY <4>3
      <4>6. Len(results) + 1 \in 1 .. Len(results) + 1
        BY <4>3
      <4>a. results'[Len(results) + 1].text = candidate
        BY <1>2, <3>1
      <4>b. \A i \in 1 .. Len(results) : results'[i] = results[i]
        BY <3>1
      <4>7. \A t : t \in Answers' => t \in Answers \/ t = candidate
        <5> SUFFICES ASSUME NEW t, t \in Answers' PROVE t \in Answers \/ t = candidate
          OBVIOUS
        <5>1. PICK i \in 1 .. Len(results) + 1 : t = results'[i].text
          BY <4>1
        <5>2. CASE i = Len(results) + 1
          BY <4>a, <5>1, <5>2
        <5>3. CASE i \in 1 .. Len(results)
          BY <4>b, <4>2, <5>1, <5>3, Zenon
        <5> QED  BY <4>4, <5>2, <5>3
      <4>8. \A t : t \in Answers \/ t = candidate => t \in Answers'
        BY <4>a, <4>b, <4>1, <4>2, <4>5, <4>6, Zenon
      <4> QED  BY <4>7, <4>8
    <3> QED  BY <2>1, <3>1, <3>3
  <2>2. CASE ~Exhausted
    BY <1>2, <1>3, <2>2 DEF Answers
  <2> QED  BY <2>1, <2>2
<1>5. Types'
  <2>1. /\ matching_indices' \in Seq(Nat) /\ Len(matching_indices') = 0
        /\ query \in Seq(Nat) /\ Len(query) \in Nat
    BY <1>1 DEF IInv, Types
  <2> QED  BY <1>1, <1>3, <1>4, <2>1 DEF IInv, Types
<1>6. Exhausted <=> Embeddings(candidate, Len(query)) # {}
  <2>1. CASE Exhausted
    BY <1>1, <2>1, FoundIsMatch
  <2>2. CASE ~Exhausted
    <3>1. index = Len(candidate)
      <4>1. ~(index < Len(candidate))
        BY <2>2 DEF Return
      <4>2. index \in Nat /\ index <= Len(candidate) /\ Len(candidate) \in Nat
        BY <1>1, <1>3, TextsAssumption DEF IInv, Types
      <4> QED  BY <4>1, <4>2
    <3> QED  BY <1>1, <2>2, <3>1, NotFoundIsNone
  <2> QED  BY <2>1, <2>2
<1>7. AnswerComplete'
  <2>1. \A t : Embeddings(t, Len(query))' = Embeddings(t, Len(query))
    BY <1>1, SameQuery
  <2>2. Answers = {t \in candidates \ (todo \cup {candidate}) : Embeddings(t, Len(query)) # {}}
    BY <1>3 DEF IInv, AnswerComplete
  <2>3. candidates \ (todo \cup {None}) = (candidates \ (todo \cup {candidate})) \cup {candidate}
    BY <1>3, TextsAssumption DEF IInv, Types
  <2>4. Answers' = {t \in candidates \ (todo \cup {None}) : Embeddings(t, Len(query)) # {}}
    BY <1>4, <1>6, <2>2, <2>3
  <2> QED  BY <1>1, <2>1, <2>4 DEF AnswerComplete
<1>8. Ranked'
  <2>1. CASE ~Exhausted
    BY <2>1, <1>1, <1>2, RankedStays DEF IInv
  <2>2. CASE Exhausted
    <3> DEFINE n == Len(results)
    <3>1. /\ n \in Nat /\ DOMAIN results = 1 .. n /\ DOMAIN results' = 1 .. n + 1
          /\ results'[n + 1] = answer
          /\ \A i \in 1 .. n : results'[i] = results[i]
      BY <1>2, <1>3, <2>2
    <3>2. \A i \in 1 .. n + 1 : i \in 1 .. n \/ i = n + 1
      BY <3>1
    <3>3. \A i \in 1 .. n : results[i].text # candidate
      <4>1. candidate \notin Answers
        BY <1>3 DEF IInv, AnswerComplete
      <4> QED  BY <3>1, <4>1 DEF Answers
    <3> HIDE DEF n
    <3>4. \A i, j \in DOMAIN results' : results'[i].text = results'[j].text => i = j
      BY <1>2, <3>1, <3>2, <3>3 DEF IInv, Ranked
    <3>5. ASSUME NEW i \in DOMAIN results',
                 NEW e \in Embeddings(results'[i].text, Len(query))
          PROVE  results'[i].score <= Score([x \in DOMAIN e |-> e[x] - 1])
      <4>1. CASE i \in 1 .. n
        BY <3>1, <3>5, <4>1 DEF IInv, Ranked
      <4>2. CASE i = n + 1
        <5>1. results'[i] = answer
          BY <3>1, <4>2
        <5>2. e \in Embeddings(candidate, Len(query))
          BY <1>2, <5>1
        <5>3. Score(matching_indices) <= Score([x \in DOMAIN e |-> e[x] - 1])
          BY <1>1, <2>2, <5>2, FoundIsBest
        <5> QED  BY <1>2, <5>1, <5>3
      <4> QED  BY <3>1, <3>2, <4>1, <4>2
    <3>6. \A text, m : Embeddings(text, m)' = Embeddings(text, m)
      BY <1>1, SameQuery
    <3>7. state' # "answered"
      BY <1>1, <1>3
    <3> QED  BY <1>1, <3>4, <3>5, <3>6, <3>7 DEF Ranked
  <2> QED  BY <2>1, <2>2
<1> QED  BY <1>1, <1>5, <1>7, <1>8 DEF IInv, Matched, LeftmostMatch

(***************************************************************************)
(* Sorting gives the same answers.                                         *)
(***************************************************************************)
LEMMA SortStep ==
  ASSUME IInv, Sort
  PROVE  IInv'
<1>1. /\ state = "asked" /\ state' = "answered" /\ candidate = None /\ todo = {}
      /\ UNCHANGED <<candidates, query, match_case, todo, candidate, index, matching_indices>>
  BY DEF Sort
<1>2. results \in Seq(Answer) /\ DOMAIN results = 1 .. Len(results) /\ Len(results) \in Nat
  BY DEF IInv, Types
<1>3. PICK p \in [DOMAIN results -> DOMAIN results] :
         /\ results' = [i \in DOMAIN results |-> results[p[i]]]
         /\ \A i \in DOMAIN results : \E j \in DOMAIN results : p[j] = i
         /\ \A i, j \in DOMAIN results :
               i < j => Before(results[p[i]], p[i], results[p[j]], p[j])
  BY DEF Sort, Sorts
<1>4. \A i \in DOMAIN results : results[p[i]] \in Answer
  BY <1>2, <1>3
<1>5. results' \in Seq(Answer) /\ DOMAIN results' = DOMAIN results
  BY <1>2, <1>3, <1>4
<1>6. Answers' = Answers
  <2>1. \A t : t \in Answers' <=> \E i \in DOMAIN results : t = results[p[i]].text
    BY <1>3, <1>5 DEF Answers
  <2>2. \A t : t \in Answers <=> \E i \in DOMAIN results : t = results[i].text
    BY DEF Answers
  <2>3. \A t : t \in Answers' => t \in Answers
    BY <1>3, <2>1, <2>2
  <2>4. \A t : t \in Answers => t \in Answers'
    BY <1>3, <2>1, <2>2
  <2> QED  BY <2>3, <2>4
<1>7. Types'
  BY <1>1, <1>5 DEF IInv, Types
<1>8. AnswerComplete'
  <2>1. \A t : Embeddings(t, Len(query))' = Embeddings(t, Len(query))
    BY <1>1, SameQuery
  <2> QED  BY <1>1, <1>6, <2>1 DEF IInv, AnswerComplete
<1>9. Ranked'
  <2>1. \A i \in DOMAIN results : /\ p[i] \in DOMAIN results /\ p[i] \in Nat
                                 /\ results[p[i]].score \in Nat
                                 /\ results'[i] = results[p[i]]
    <3>1. \A i \in DOMAIN results : p[i] \in DOMAIN results /\ results'[i] = results[p[i]]
      BY <1>3
    <3>2. \A i \in DOMAIN results : p[i] \in Nat
      BY <1>2, <3>1
    <3>3. \A i \in DOMAIN results : results[p[i]].score \in Nat
      BY <1>4 DEF Answer
    <3> QED  BY <3>1, <3>2, <3>3
  <2>2. \A i, j \in DOMAIN results : i < j => p[i] # p[j]
    BY <1>3, <2>1 DEF Before
  <2>3. \A i, j \in DOMAIN results : p[i] = p[j] => i = j
    BY <1>2, <2>2
  <2>4. \A i, j \in DOMAIN results' : results'[i].text = results'[j].text => i = j
    BY <1>5, <2>1, <2>3 DEF IInv, Ranked
  <2>5. \A i \in DOMAIN results' : \A e \in Embeddings(results'[i].text, Len(query)) :
           results'[i].score <= Score([x \in DOMAIN e |-> e[x] - 1])
    <3>1. \A i \in DOMAIN results : \A e \in Embeddings(results[i].text, Len(query)) :
             results[i].score <= Score([x \in DOMAIN e |-> e[x] - 1])
      BY DEF IInv, Ranked
    <3> QED  BY <1>5, <2>1, <3>1, Zenon
  <2>6. \A i, j \in DOMAIN results' : i < j => results'[i].score <= results'[j].score
    <3> SUFFICES ASSUME NEW i \in DOMAIN results, NEW j \in DOMAIN results, i < j
                 PROVE  results'[i].score <= results'[j].score
      BY <1>5
    <3>1. Before(results[p[i]], p[i], results[p[j]], p[j])
      BY <1>3
    <3>2. results[p[i]].score <= results[p[j]].score
      BY <2>1, <3>1 DEF Before
    <3> QED  BY <2>1, <3>2
  <2>7. \A text, m : Embeddings(text, m)' = Embeddings(text, m)
    BY <1>1, SameQuery
  <2> QED  BY <1>1, <2>4, <2>5, <2>6, <2>7 DEF Ranked
<1> QED  BY <1>1, <1>7, <1>8, <1>9 DEF IInv, Matched, LeftmostMatch

LEMMA StutterStep ==
  ASSUME IInv, UNCHANGED vars
  PROVE  IInv'
<1>1. \A t, n : Embeddings(t, n)' = Embeddings(t, n)
  BY SameQuery DEF vars
<1>2. \A q, c : Same(q, c)' = Same(q, c)
  BY SameQuery DEF vars
<1>3. Types' /\ Answers' = Answers
  BY DEF vars, IInv, Types, Answers
<1>4. Ranked'
  BY RankedStays DEF vars, IInv
<1> QED  BY <1>1, <1>2, <1>3, <1>4 DEF vars, IInv, Matched, LeftmostMatch, AnswerComplete

LEMMA Invariance == Spec => []IInv
<1>1. Init => IInv
  BY InitIInv
<1>2. IInv /\ [Next]_vars => IInv'
  <2> SUFFICES ASSUME IInv, [Next]_vars PROVE IInv'
    OBVIOUS
  <2> QED  BY InsertStep, QueryStep, VisitStep, ScanStep, ReturnStep, SortStep, StutterStep
              DEF Next
<1> QED  BY <1>1, <1>2, PTL DEF Spec

(***************************************************************************)
(* The fields of the CandidateSet and of the scan keep their types: no     *)
(* more indices than the query has characters, and numbers for scores.     *)
(***************************************************************************)
THEOREM TypeCorrectness == Spec => []TypeOK
<1>1. IInv => TypeOK
  BY DEF IInv, Types, TypeOK, Answer
<1> QED  BY <1>1, Invariance, PTL

(***************************************************************************)
(* is_subsequence() is right to be greedy: the match it builds is, at      *)
(* every position, to the left of every other match, for all texts and     *)
(* queries, with and without case.                                         *)
(***************************************************************************)
THEOREM GreedyIsLeftmost == Spec => []LeftmostMatch
<1>1. IInv => LeftmostMatch
  BY DEF IInv
<1> QED  BY <1>1, Invariance, PTL

(***************************************************************************)
(* The answer to a query has exactly the candidates in which the query can *)
(* be found: the prefilter by letters, the greedy search and the early     *)
(* return lose none, whatever the order in which the HashSet is visited.   *)
(***************************************************************************)
THEOREM AnswersAreComplete == Spec => []AnswerComplete
<1>1. IInv => AnswerComplete
  BY DEF IInv
<1> QED  BY <1>1, Invariance, PTL

(***************************************************************************)
(* The answer is a ranking: after results.sort() no answer is behind a     *)
(* worse one, no candidate is in it twice, and the score of each is the    *)
(* least that any match of it has, since the leftmost match has the least  *)
(* sum of indices.                                                         *)
(***************************************************************************)
THEOREM AnswersAreRanked == Spec => []Ranked
<1>1. IInv => Ranked
  BY DEF IInv
<1> QED  BY <1>1, Invariance, PTL
=============================================================================
