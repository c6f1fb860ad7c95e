---------------------------- MODULE Client_proofs ----------------------------
(*****************************************************************************)
(* Proofs about the clients of swiboe: the client library (RpcClient), whose *)
(* threads lose and reorder nothing and panic only for a reason, and the C   *)
(* client (CClient), which agrees with a C program about who owns what; for  *)
(* any number of calls, programs, partial responses and objects.             *)
(*****************************************************************************)
EXTENDS RpcClient, CClient, FiniteSetTheorems, WellFoundedInduction, TLAPS

-----------------------------------------------------------------------------
(* What Only keeps.                                                           *)

\* Every set of natural numbers has a least element ...
LEMMA Least ==
    ASSUME NEW T, T \subseteq Nat, T # {}
    PROVE  \E m \in T : \A k \in T : ~(k < m)
<1> DEFINE R == {ss \in Nat \X Nat : ss[1] < ss[2]}
<1>1. IsWellFoundedOn(R, Nat)
  BY NatLessThanWellFounded DEF OpToRel
<1> HIDE DEF R
<1>2. PICK m \in T : \A k \in T : <<k, m>> \notin R
  BY <1>1, WFMin
<1> QED
  BY <1>2 DEF R

\* ... so a set that has 0 and with every number the next one has them all.
LEMMA Induction ==
    ASSUME NEW T, T \subseteq Nat, 0 \in T, \A n \in T : n + 1 \in T
    PROVE  \A n \in Nat : n \in T
<1> SUFFICES ASSUME Nat \ T # {} PROVE FALSE
  OBVIOUS
<1>1. PICK m \in Nat \ T : \A k \in Nat \ T : ~(k < m)
  BY Least
<1>2. m # 0 /\ m - 1 \in Nat /\ m - 1 < m /\ m = (m - 1) + 1
  BY <1>1
<1>3. m - 1 \in T
  BY <1>1, <1>2
<1> QED
  BY <1>1, <1>2, <1>3

\* g holds what Only keeps of the first n elements of s, for each n.
Keeps(s, S, g, n) ==
    g = [i \in 0 .. n |-> IF i = 0 THEN <<>>
                          ELSE IF s[i] \in S THEN Append(g[i - 1], s[i])
                          ELSE g[i - 1]]

\* The function that Only is defined by exists.
LEMMA KeepsExists ==
    ASSUME NEW s, NEW S, NEW n \in Nat
    PROVE  \E g : Keeps(s, S, g, n)
<1> DEFINE T == {m \in Nat : \E g : Keeps(s, S, g, m)}
<1>1. 0 \in T
  <2>1. Keeps(s, S, [i \in 0 .. 0 |-> <<>>], 0)
    BY DEF Keeps
  <2> QED
    BY <2>1
<1>2. ASSUME NEW m \in T
      PROVE  m + 1 \in T
  <2>1. PICK g : Keeps(s, S, g, m)
    OBVIOUS
  <2> DEFINE h == [i \in 0 .. m + 1 |-> IF i = m + 1
                      THEN IF s[i] \in S THEN Append(g[m], s[i]) ELSE g[m]
                      ELSE g[i]]
  <2>2. \A i \in 0 .. m : g[i] = IF i = 0 THEN <<>>
                                 ELSE IF s[i] \in S THEN Append(g[i - 1], s[i]) ELSE g[i - 1]
    BY <2>1 DEF Keeps
  <2>3. \A i \in 0 .. m + 1 : h[i] = IF i = 0 THEN <<>>
                                     ELSE IF s[i] \in S THEN Append(h[i - 1], s[i]) ELSE h[i - 1]
    BY <2>2
  <2>4. Keeps(s, S, h, m + 1)
    BY <2>3 DEF Keeps
  <2> QED
    BY <2>4
<1> HIDE DEF T
<1>3. \A m \in Nat : m \in T
  BY <1>1, <1>2, Induction DEF T
<1> QED
  BY <1>3 DEF T

\* What Only keeps of the first n elements of s.
Kept(s, S, n) == (CHOOSE g : Keeps(s, S, g, Len(s)))[n]

\* It is Only, and nothing at first ...
LEMMA KeptEnds ==
    ASSUME NEW s, NEW S, Len(s) \in Nat
    PROVE  Only(s, S) = Kept(s, S, Len(s)) /\ Kept(s, S, 0) = <<>>
<1> DEFINE kept == CHOOSE g : Keeps(s, S, g, Len(s))
<1>1. Only(s, S) = kept[Len(s)]
  BY DEF Only, Keeps
<1>2. Keeps(s, S, kept, Len(s))
  BY KeepsExists
<1>3. Kept(s, S, Len(s)) = kept[Len(s)] /\ Kept(s, S, 0) = kept[0]
  BY DEF Kept
<1> HIDE DEF kept
<1>4. kept[0] = <<>>
  BY <1>2 DEF Keeps
<1> QED
  BY <1>1, <1>3, <1>4

\* ... and then element after element.
LEMMA KeptNext ==
    ASSUME NEW s, NEW S, Len(s) \in Nat, NEW n \in Nat, n + 1 <= Len(s)
    PROVE  Kept(s, S, n + 1) = IF s[n + 1] \in S THEN Append(Kept(s, S, n), s[n + 1])
                               ELSE Kept(s, S, n)
<1> DEFINE kept == CHOOSE g : Keeps(s, S, g, Len(s))
<1>1. Keeps(s, S, kept, Len(s))
  BY KeepsExists
<1>2. Kept(s, S, n + 1) = kept[n + 1] /\ Kept(s, S, n) = kept[n]
  BY DEF Kept
<1> HIDE DEF kept
<1>3. n + 1 \in 0 .. Len(s) /\ n + 1 # 0 /\ (n + 1) - 1 = n
  OBVIOUS
<1>4. kept[n + 1] = IF s[n + 1] \in S THEN Append(kept[n], s[n + 1]) ELSE kept[n]
  BY <1>1, <1>3 DEF Keeps
<1> QED
  BY <1>2, <1>4

\* Only picks elements of s that are in S.
LEMMA OnlyType ==
    ASSUME NEW X, NEW s \in Seq(X), NEW S
    PROVE  Only(s, S) \in Seq(X \cap S)
<1>1. Len(s) \in Nat
  OBVIOUS
<1> DEFINE T == {n \in Nat : n <= Len(s) => Kept(s, S, n) \in Seq(X \cap S)}
<1>2. 0 \in T
  <2>1. Kept(s, S, 0) = <<>>
    BY <1>1, KeptEnds
  <2>2. <<>> \in Seq(X \cap S)
    OBVIOUS
  <2> QED
    BY <2>1, <2>2
<1>3. ASSUME NEW n \in T
      PROVE  n + 1 \in T
  <2>1. SUFFICES ASSUME n + 1 <= Len(s)
                 PROVE  Kept(s, S, n + 1) \in Seq(X \cap S)
    OBVIOUS
  <2>2. n + 1 \in 1 .. Len(s) /\ (n + 1) - 1 = n /\ s[n + 1] \in X
    BY <2>1, <1>1
  <2>3. Kept(s, S, n + 1) = IF s[n + 1] \in S THEN Append(Kept(s, S, n), s[n + 1])
                            ELSE Kept(s, S, n)
    BY <1>1, <2>1, KeptNext
  <2>4. Kept(s, S, n) \in Seq(X \cap S)
    BY <1>1, <2>1
  <2>5. \A Y : \A u \in Seq(Y), y \in Y : Append(u, y) \in Seq(Y)
    OBVIOUS
  <2>6. CASE s[n + 1] \in S
    <3>1. s[n + 1] \in X \cap S
      BY <2>2, <2>6
    <3> QED
      BY <2>3, <2>4, <2>5, <2>6, <3>1
  <2> QED
    BY <2>3, <2>4, <2>6
<1> HIDE DEF T
<1>4. \A n \in Nat : n \in T
  BY <1>2, <1>3, Induction DEF T
<1> QED
  BY <1>1, <1>4, KeptEnds DEF T

\* Only of a concatenation keeps of each part what it keeps of that part alone.
LEMMA OnlyConcat ==
    ASSUME NEW X, NEW s \in Seq(X), NEW t \in Seq(X), NEW S
    PROVE  Only(s \o t, S) = Only(s, S) \o Only(t, S)
<1> DEFINE st == s \o t
           L == Len(s)
           M == Len(t)
<1>1. /\ L \in Nat /\ M \in Nat /\ st \in Seq(X) /\ Len(st) = L + M
      /\ \A i \in 1 .. L : st[i] = s[i]
      /\ \A i \in 1 .. M : st[L + i] = t[i]
  OBVIOUS
<1>2. Only(s, S) \in Seq(X) /\ Only(t, S) \in Seq(X)
  <2>1. \A u : u \in Seq(X \cap S) => u \in Seq(X)
    OBVIOUS
  <2> QED
    BY <2>1, OnlyType
<1> HIDE DEF st, L, M
<1>3. Kept(st, S, L) = Only(s, S)
  <2> DEFINE T == {n \in Nat : n <= L => Kept(st, S, n) = Kept(s, S, n)}
  <2>1. 0 \in T
    BY <1>1, KeptEnds DEF L
  <2>2. ASSUME NEW n \in T
        PROVE  n + 1 \in T
    <3>1. SUFFICES ASSUME n + 1 <= L
                   PROVE  Kept(st, S, n + 1) = Kept(s, S, n + 1)
      OBVIOUS
    <3>2. /\ n + 1 \in 1 .. Len(st) /\ n + 1 \in 1 .. Len(s) /\ (n + 1) - 1 = n
          /\ st[n + 1] = s[n + 1]
      BY <3>1, <1>1 DEF L
    <3>3. Kept(st, S, n + 1) = IF st[n + 1] \in S THEN Append(Kept(st, S, n), st[n + 1])
                               ELSE Kept(st, S, n)
      BY <1>1, <3>1, <3>2, KeptNext
    <3>4. Kept(s, S, n + 1) = IF s[n + 1] \in S THEN Append(Kept(s, S, n), s[n + 1])
                              ELSE Kept(s, S, n)
      BY <1>1, <3>1, <3>2, KeptNext DEF L
    <3>5. Kept(st, S, n) = Kept(s, S, n)
      BY <1>1, <3>1
    <3> QED
      BY <3>2, <3>3, <3>4, <3>5
  <2> HIDE DEF T
  <2>3. \A n \in Nat : n \in T
    BY <2>1, <2>2, Induction DEF T
  <2>4. Kept(st, S, L) = Kept(s, S, L)
    BY <1>1, <2>3 DEF T
  <2> QED
    BY <1>1, <2>4, KeptEnds DEF L
<1>4. \A n \in 0 .. M : Kept(st, S, L + n) = Only(s, S) \o Kept(t, S, n) /\ Kept(t, S, n) \in Seq(X)
  <2> DEFINE T == {n \in Nat : n <= M => /\ Kept(st, S, L + n) = Only(s, S) \o Kept(t, S, n)
                                         /\ Kept(t, S, n) \in Seq(X)}
  <2>1. 0 \in T
    <3>1. Kept(t, S, 0) = <<>>
      BY <1>1, KeptEnds DEF M
    <3>2. L + 0 = L /\ Only(s, S) \o <<>> = Only(s, S) /\ <<>> \in Seq(X)
      BY <1>1, <1>2
    <3>3. Kept(st, S, L + 0) = Only(s, S) \o Kept(t, S, 0) /\ Kept(t, S, 0) \in Seq(X)
      BY <3>1, <3>2, <1>3
    <3> QED
      BY <3>3
  <2>2. ASSUME NEW n \in T
        PROVE  n + 1 \in T
    <3>1. SUFFICES ASSUME n + 1 <= M
                   PROVE  /\ Kept(st, S, L + (n + 1)) = Only(s, S) \o Kept(t, S, n + 1)
                          /\ Kept(t, S, n + 1) \in Seq(X)
      OBVIOUS
    <3>2. /\ L + (n + 1) \in 1 .. Len(st) /\ (L + (n + 1)) - 1 = L + n
          /\ n + 1 \in 1 .. Len(t) /\ (n + 1) - 1 = n
          /\ st[L + (n + 1)] = t[n + 1] /\ t[n + 1] \in X
      BY <3>1, <1>1 DEF M
    <3>10. L + (n + 1) = (L + n) + 1 /\ L + n \in Nat /\ (L + n) + 1 <= Len(st)
      BY <3>1, <1>1
    <3>11. Len(st) \in Nat
      BY <1>1
    <3>12. Kept(st, S, (L + n) + 1)
             = IF st[(L + n) + 1] \in S THEN Append(Kept(st, S, L + n), st[(L + n) + 1])
               ELSE Kept(st, S, L + n)
      BY <3>10, <3>11, KeptNext
    <3>3. Kept(st, S, L + (n + 1))
             = IF st[L + (n + 1)] \in S THEN Append(Kept(st, S, L + n), st[L + (n + 1)])
               ELSE Kept(st, S, L + n)
      BY <3>10, <3>12
    <3>4. Kept(t, S, n + 1) = IF t[n + 1] \in S THEN Append(Kept(t, S, n), t[n + 1])
                              ELSE Kept(t, S, n)
      BY <1>1, <3>1, <3>2, KeptNext DEF M
    <3>5. Kept(st, S, L + n) = Only(s, S) \o Kept(t, S, n) /\ Kept(t, S, n) \in Seq(X)
      BY <1>1, <3>1
    <3>6. \A u, v \in Seq(X), x \in X : u \o Append(v, x) = Append(u \o v, x)
      OBVIOUS
    <3>7. Append(Kept(t, S, n), t[n + 1]) \in Seq(X)
      BY <3>2, <3>5
    <3>8. CASE t[n + 1] \in S
      <4>1. Only(s, S) \o Append(Kept(t, S, n), t[n + 1])
               = Append(Only(s, S) \o Kept(t, S, n), t[n + 1])
        BY <3>2, <3>5, <3>6, <1>2
      <4> QED
        BY <3>2, <3>3, <3>4, <3>5, <3>7, <3>8, <4>1
    <3>9. CASE t[n + 1] \notin S
      BY <3>2, <3>3, <3>4, <3>5, <3>9
    <3> QED
      BY <3>8, <3>9
  <2> HIDE DEF T
  <2>3. \A n \in Nat : n \in T
    BY <2>1, <2>2, Induction DEF T
  <2> QED
    BY <1>1, <2>3 DEF T
<1>5. Only(st, S) = Kept(st, S, L + M) /\ Only(t, S) = Kept(t, S, M)
  <2>1. Len(st) \in Nat /\ Len(t) \in Nat
    BY <1>1 DEF M
  <2> QED
    BY <1>1, <2>1, KeptEnds DEF M
<1>6. Kept(st, S, L + M) = Only(s, S) \o Kept(t, S, M)
  BY <1>1, <1>4
<1> QED
  BY <1>5, <1>6 DEF st

\* Nothing is kept of nothing; of one element, that element or nothing.
LEMMA OnlySingle ==
    ASSUME NEW x, NEW S
    PROVE  /\ Only(<<>>, S) = <<>>
           /\ x \in S => Only(<<x>>, S) = <<x>>
           /\ x \notin S => Only(<<x>>, S) = <<>>
<1>1. Len(<<>>) = 0 /\ Len(<<x>>) = 1 /\ <<x>>[1] = x /\ Append(<<>>, x) = <<x>>
  OBVIOUS
<1>2. Only(<<>>, S) = <<>>
  BY <1>1, KeptEnds
<1>3. Only(<<x>>, S) = Kept(<<x>>, S, 1) /\ Kept(<<x>>, S, 0) = <<>>
  BY <1>1, KeptEnds
<1> DEFINE s == <<x>>
<1>4. Len(s) = 1 /\ s[0 + 1] = x /\ 0 + 1 = 1
  OBVIOUS
<1> HIDE DEF s
<1>5. \A n \in Nat : n = 0 => Kept(s, S, n + 1) = IF s[n + 1] \in S
                                                  THEN Append(Kept(s, S, n), s[n + 1])
                                                  ELSE Kept(s, S, n)
  <2>1. SUFFICES ASSUME NEW n \in Nat, n = 0
                 PROVE  Kept(s, S, n + 1) = IF s[n + 1] \in S
                                            THEN Append(Kept(s, S, n), s[n + 1])
                                            ELSE Kept(s, S, n)
    OBVIOUS
  <2>2. n + 1 <= Len(s) /\ Len(s) \in Nat
    BY <1>4, <2>1
  <2> QED
    BY <2>2, KeptNext
<1>6. Kept(<<x>>, S, 1) = IF x \in S THEN Append(Kept(<<x>>, S, 0), x)
                          ELSE Kept(<<x>>, S, 0)
  BY <1>4, <1>5 DEF s
<1> QED
  BY <1>1, <1>2, <1>3, <1>6

\* A queue grows at its end ...
LEMMA OnlyAppend ==
    ASSUME NEW X, NEW s \in Seq(X), NEW x \in X, NEW S
    PROVE  Only(Append(s, x), S) = IF x \in S THEN Append(Only(s, S), x) ELSE Only(s, S)
<1>1. Append(s, x) = s \o <<x>> /\ <<x>> \in Seq(X)
  OBVIOUS
<1> DEFINE one == <<x>>
<1>5. one \in Seq(X)
  OBVIOUS
<1> HIDE DEF one
<1>6. Only(s \o one, S) = Only(s, S) \o Only(one, S)
  BY <1>5, OnlyConcat
<1>2. Only(s \o <<x>>, S) = Only(s, S) \o Only(<<x>>, S)
  BY <1>6 DEF one
<1>3. Only(s, S) \in Seq(X)
  <2>1. \A u : u \in Seq(X \cap S) => u \in Seq(X)
    OBVIOUS
  <2> QED
    BY <2>1, OnlyType
<1>4. Only(s, S) \o <<x>> = Append(Only(s, S), x) /\ Only(s, S) \o <<>> = Only(s, S)
  BY <1>3
<1> QED
  BY <1>1, <1>2, <1>4, OnlySingle

\* ... and shrinks at its front.
LEMMA OnlyTail ==
    ASSUME NEW X, NEW s \in Seq(X), s # <<>>, NEW S
    PROVE  /\ Head(s) \in S => Only(s, S) = <<Head(s)>> \o Only(Tail(s), S)
           /\ Head(s) \notin S => Only(s, S) = Only(Tail(s), S)
<1>1. s = <<Head(s)>> \o Tail(s) /\ Tail(s) \in Seq(X) /\ <<Head(s)>> \in Seq(X)
  OBVIOUS
<1> DEFINE one == <<Head(s)>>
           rest == Tail(s)
<1>5. one \in Seq(X) /\ rest \in Seq(X)
  BY <1>1
<1> HIDE DEF one, rest
<1>6. Only(one \o rest, S) = Only(one, S) \o Only(rest, S)
  BY <1>5, OnlyConcat
<1>2. Only(s, S) = Only(<<Head(s)>>, S) \o Only(Tail(s), S)
  BY <1>1, <1>6 DEF one, rest
<1>3. Only(Tail(s), S) \in Seq(X)
  <2>1. \A u : u \in Seq(X \cap S) => u \in Seq(X)
    OBVIOUS
  <2> QED
    BY <1>1, <2>1, OnlyType
<1>4. <<>> \o Only(Tail(s), S) = Only(Tail(s), S)
  BY <1>3
<1> QED
  BY <1>2, <1>4, OnlySingle
-----------------------------------------------------------------------------
(* The client library: what its queues hold.                                  *)

\* The messages and commands that are about the calls of M.
MessageOf(M) == {m \in Message : m.context \in M}
CommandOf(M) == {cmd \in Command : cmd.command \in {"Quit", "NewRpc"} \/ cmd.message.context \in M}

Queues == /\ commands \in Seq(CommandOf(made)) /\ handed \in Seq(CommandOf(made))
          /\ send_queue \in Seq(MessageOf(made)) /\ written \in Seq(MessageOf(made))
          /\ from_server \in Seq(MessageOf(made))

ThreadsOK ==
    /\ client \in {"open", "join_loop", "join_write", "join_read", "gone", "panicked"}
    /\ loop \in {"running", "ended"} /\ reader \in {"running", "ended"}
    /\ writer \in {"running", "ended", "panicked"}
    /\ remote_procedures \in BOOLEAN /\ registered \in BOOLEAN /\ lost \in BOOLEAN

\* The calls; of one that was not made nothing is known anywhere.
CallsOK ==
    /\ program \in Programs /\ made \subseteq Contexts /\ open \subseteq made
    /\ running_function_calls \subseteq made /\ running_rpcs \subseteq made
    /\ values \in [Contexts -> Seq(Kinds)] /\ result \in [Contexts -> BOOLEAN]
    /\ answers \in [Contexts -> Seq(Kinds)] /\ received \in [Contexts -> Seq(Kinds)]
    /\ \A c \in Contexts \ made : answers[c] = <<>> /\ received[c] = <<>> /\ values[c] = <<>>

\* What a thread may be doing.
Doing == [op : {"idle", "panicked", "call", "NewRpc"}]
           \cup [op : {"recv", "wait", "new_rpc"}, context : Contexts]

\* The threads that use the contexts, and the thread of the pool, which has none when it
\* has nothing to do.
UsersOK ==
    /\ op \in [Callers -> Doing]
    /\ \A t \in Callers : Blocked(t) => Held(t, op[t].context)
    /\ pool = <<>> => op["pool"] = Idle /\ \A c \in open : ~Held("pool", c)

JobsOK == /\ running_rpc_calls \subseteq made /\ dropped \subseteq made
          /\ pool \in Seq(made)

Typed == Queues /\ ThreadsOK /\ CallsOK /\ UsersOK /\ JobsOK

\* What a message is made of.
LEMMA Messages0 ==
    /\ \A c \in Contexts : /\ RpcCall(c) \in Message /\ RpcCall(c).context = c
                           /\ RpcCall(c).type = "RpcCall"
                           /\ RpcCancel(c) \in Message /\ RpcCancel(c).context = c
                           /\ RpcCancel(c).type = "RpcCancel"
    /\ \A c \in Contexts, k \in Kinds :
          /\ Response(c, k) \in Message /\ Response(c, k).context = c
          /\ Response(c, k).kind = k /\ Response(c, k).type = "RpcResponse"
    /\ \A m \in Message :
          /\ m.context \in Contexts /\ m.type \in {"RpcCall", "RpcCancel", "RpcResponse"}
          /\ m.type = "RpcCall" => m = RpcCall(m.context)
          /\ m.type = "RpcCancel" => m = RpcCancel(m.context)
          /\ m.type = "RpcResponse" => m.kind \in Kinds /\ m = Response(m.context, m.kind)
<1>1. \A c : /\ RpcCall(c).context = c /\ RpcCall(c).type = "RpcCall"
             /\ RpcCancel(c).context = c /\ RpcCancel(c).type = "RpcCancel"
  BY DEF RpcCall, RpcCancel
<1>2. \A c, k : /\ Response(c, k).context = c /\ Response(c, k).kind = k
                /\ Response(c, k).type = "RpcResponse"
  BY DEF Response
<1>3. /\ \A c \in Contexts : RpcCall(c) \in Message /\ RpcCancel(c) \in Message
      /\ \A c \in Contexts, k \in Kinds : Response(c, k) \in Message
  BY DEF Message
<1>4. ASSUME NEW m \in Message
      PROVE  /\ m.context \in Contexts /\ m.type \in {"RpcCall", "RpcCancel", "RpcResponse"}
             /\ m.type = "RpcCall" => m = RpcCall(m.context)
             /\ m.type = "RpcCancel" => m = RpcCancel(m.context)
             /\ m.type = "RpcResponse" => m.kind \in Kinds /\ m = Response(m.context, m.kind)
  <2>1. CASE \E c \in Contexts : m = RpcCall(c)
    BY <1>1, <2>1
  <2>2. CASE \E c \in Contexts : m = RpcCancel(c)
    BY <1>1, <2>2
  <2>3. CASE \E c \in Contexts, k \in Kinds : m = Response(c, k)
    BY <1>2, <2>3
  <2> QED
    BY <2>1, <2>2, <2>3 DEF Message
<1> QED
  BY <1>1, <1>2, <1>3, <1>4

\* What a command is made of.
LEMMA Commands0 ==
    /\ Quit \in Command /\ Quit.command = "Quit" /\ ~Outgoing(Quit)
    /\ NewRpc \in Command /\ NewRpc.command = "NewRpc" /\ ~Outgoing(NewRpc) /\ NewRpc # Quit
    /\ \A m \in Message :
          /\ Received(m) \in Command /\ Received(m).command = "Received"
          /\ Received(m).message = m /\ ~Outgoing(Received(m)) /\ Received(m) # Quit
          /\ Send(m) \in Command /\ Send(m).command = "Send"
          /\ Send(m).message = m /\ Outgoing(Send(m)) /\ Send(m) # Quit
    /\ \A c \in Contexts :
          /\ OutgoingCall(c) \in Command /\ OutgoingCall(c).command = "OutgoingCall"
          /\ OutgoingCall(c).message = RpcCall(c) /\ Outgoing(OutgoingCall(c))
          /\ OutgoingCall(c) # Quit
          /\ CancelOutgoingRpc(c) \in Command
          /\ CancelOutgoingRpc(c).command = "CancelOutgoingRpc"
          /\ CancelOutgoingRpc(c).message = RpcCancel(c) /\ Outgoing(CancelOutgoingRpc(c))
          /\ CancelOutgoingRpc(c) # Quit
<1>1. Quit \in Command /\ Quit.command = "Quit" /\ NewRpc \in Command /\ NewRpc.command = "NewRpc"
  BY DEF Command, Quit, NewRpc
<1>2. \A m \in Message :
         /\ Received(m) \in Command /\ Received(m).command = "Received"
         /\ Received(m).message = m
         /\ Send(m) \in Command /\ Send(m).command = "Send" /\ Send(m).message = m
  BY DEF Command, Received, Send
<1>3. \A c \in Contexts :
         /\ OutgoingCall(c) \in Command /\ OutgoingCall(c).command = "OutgoingCall"
         /\ OutgoingCall(c).message = RpcCall(c)
         /\ CancelOutgoingRpc(c) \in Command
         /\ CancelOutgoingRpc(c).command = "CancelOutgoingRpc"
         /\ CancelOutgoingRpc(c).message = RpcCancel(c)
  BY DEF Command, OutgoingCall, CancelOutgoingRpc
<1> QED
  BY <1>1, <1>2, <1>3 DEF Outgoing

\* What one can be.
LEMMA Commands1 ==
    \A cmd \in Command :
       /\ cmd.command \in {"Quit", "NewRpc", "Received", "Send", "OutgoingCall",
                           "CancelOutgoingRpc"}
       /\ cmd.command = "Quit" => cmd = Quit
       /\ cmd.command = "NewRpc" => cmd = NewRpc
       /\ cmd.command \notin {"Quit", "NewRpc"} => cmd.message \in Message
       /\ cmd.command = "Received" => cmd = Received(cmd.message)
       /\ cmd.command = "OutgoingCall" => cmd.message = RpcCall(cmd.message.context)
       /\ Outgoing(cmd) <=> cmd.command \notin {"Quit", "NewRpc", "Received"}
<1>1. Quit.command = "Quit" /\ NewRpc.command = "NewRpc"
  BY DEF Quit, NewRpc
<1>2. \A m : /\ Received(m).command = "Received" /\ Received(m).message = m
             /\ Send(m).command = "Send" /\ Send(m).message = m
  BY DEF Received, Send
<1>3. \A c : /\ OutgoingCall(c).command = "OutgoingCall" /\ OutgoingCall(c).message = RpcCall(c)
             /\ CancelOutgoingRpc(c).command = "CancelOutgoingRpc"
             /\ CancelOutgoingRpc(c).message = RpcCancel(c)
  BY DEF OutgoingCall, CancelOutgoingRpc
<1> TAKE cmd \in Command
<1>4. CASE cmd \in {Quit, NewRpc}
  BY <1>1, <1>4 DEF Outgoing
<1>5. CASE \E m \in Message : cmd = Received(m) \/ cmd = Send(m)
  BY <1>2, <1>5 DEF Outgoing
<1>6. CASE \E c \in Contexts : cmd = OutgoingCall(c) \/ cmd = CancelOutgoingRpc(c)
  BY <1>3, <1>6, Messages0 DEF Outgoing
<1> QED
  BY <1>4, <1>5, <1>6 DEF Command

\* The more calls are made, the more may be in the queues.
LEMMA Grow ==
    ASSUME NEW M, NEW N, M \subseteq N
    PROVE  /\ \A s \in Seq(MessageOf(M)) : s \in Seq(MessageOf(N))
           /\ \A s \in Seq(CommandOf(M)) : s \in Seq(CommandOf(N))
           /\ \A s \in Seq(M) : s \in Seq(N)
<1>1. MessageOf(M) \subseteq MessageOf(N) /\ CommandOf(M) \subseteq CommandOf(N)
  BY DEF MessageOf, CommandOf
<1>2. \A X, Y : X \subseteq Y => \A s \in Seq(X) : s \in Seq(Y)
  OBVIOUS
<1> QED
  BY <1>1, <1>2

\* A queue that loses its first element, gets one more, or is left with a part.
LEMMA QueueFacts ==
    ASSUME NEW X, NEW s \in Seq(X)
    PROVE  /\ s # <<>> => Head(s) \in X /\ Tail(s) \in Seq(X)
           /\ \A x \in X : Append(s, x) \in Seq(X)
           /\ <<>> \in Seq(X)
           /\ \A n \in 0 .. Len(s) : SubSeq(s, 1, n) \in Seq(X)
OBVIOUS

\* What may be handed to the rpc loop, and what that does.
LEMMA Delivers ==
    ASSUME Queues, made \subseteq made', NEW cmd \in CommandOf(made'), Deliver(cmd)
    PROVE  commands' \in Seq(CommandOf(made')) /\ handed' \in Seq(CommandOf(made'))
<1>1. commands \in Seq(CommandOf(made')) /\ handed \in Seq(CommandOf(made'))
  BY Grow DEF Queues
<1>2. \A s \in Seq(CommandOf(made')) : Append(s, cmd) \in Seq(CommandOf(made'))
  OBVIOUS
<1> QED
  BY <1>1, <1>2 DEF Deliver

\* Messages and commands of calls that were made.
LEMMA Made ==
    ASSUME NEW M, M \subseteq Contexts
    PROVE  /\ Quit \in CommandOf(M) /\ NewRpc \in CommandOf(M)
           /\ \A m \in MessageOf(M) : Received(m) \in CommandOf(M) /\ Send(m) \in CommandOf(M)
           /\ \A c \in M : /\ OutgoingCall(c) \in CommandOf(M)
                           /\ CancelOutgoingRpc(c) \in CommandOf(M)
                           /\ RpcCall(c) \in MessageOf(M) /\ RpcCancel(c) \in MessageOf(M)
                           /\ \A k \in Kinds : Response(c, k) \in MessageOf(M)
           /\ \A m \in MessageOf(M) : m \in Message /\ m.context \in M
           /\ \A cmd \in CommandOf(M) :
                 /\ cmd \in Command
                 /\ cmd.command \notin {"Quit", "NewRpc"} => cmd.message \in MessageOf(M)
<1>1. \A m \in MessageOf(M) : m \in Message /\ m.context \in M
  BY DEF MessageOf
<1>2. \A c \in M : RpcCall(c) \in MessageOf(M) /\ RpcCancel(c) \in MessageOf(M)
                   /\ \A k \in Kinds : Response(c, k) \in MessageOf(M)
  BY Messages0 DEF MessageOf
<1>3. Quit \in CommandOf(M) /\ NewRpc \in CommandOf(M)
  BY Commands0 DEF CommandOf
<1>4. \A m \in MessageOf(M) : Received(m) \in CommandOf(M) /\ Send(m) \in CommandOf(M)
  BY <1>1, Commands0 DEF CommandOf
<1>5. \A c \in M : OutgoingCall(c) \in CommandOf(M) /\ CancelOutgoingRpc(c) \in CommandOf(M)
  <2> TAKE c \in M
  <2>1. OutgoingCall(c) \in Command /\ OutgoingCall(c).message = RpcCall(c)
        /\ CancelOutgoingRpc(c) \in Command /\ CancelOutgoingRpc(c).message = RpcCancel(c)
    BY Commands0
  <2>2. RpcCall(c).context = c /\ RpcCancel(c).context = c
    BY Messages0
  <2> QED
    BY <2>1, <2>2 DEF CommandOf
<1>6. \A cmd \in CommandOf(M) :
         /\ cmd \in Command
         /\ cmd.command \notin {"Quit", "NewRpc"} => cmd.message \in MessageOf(M)
  BY Commands1 DEF CommandOf, MessageOf
<1> QED
  BY <1>1, <1>2, <1>3, <1>4, <1>5, <1>6

\* The next number of a partial response.
LEMMA NextPartial ==
    /\ \A n \in Nat : n < MaxPartial => n + 1 \in Kinds
    /\ Last \in Kinds
    /\ Queues => \A j \in Contexts : Updates(j) \in Nat
<1>1. MaxPartial \in Nat
  BY ClientAssumption
<1>2. ASSUME Queues, NEW j \in Contexts
      PROVE  Updates(j) \in Nat
  <2> DEFINE sent == {i \in DOMAIN handed :
                        handed[i].command = "Send" /\ handed[i].message.context = j}
  <2>1. Len(handed) \in Nat /\ DOMAIN handed = 1 .. Len(handed)
    BY <1>2 DEF Queues
  <2>2. IsFiniteSet(1 .. Len(handed))
    BY <2>1, FS_Interval
  <2>3. sent \subseteq 1 .. Len(handed)
    BY <2>1
  <2>4. IsFiniteSet(sent)
    BY <2>2, <2>3, FS_Subset
  <2> QED
    BY <2>4, FS_CardinalityType DEF Updates
<1> QED
  BY <1>1, <1>2 DEF Kinds, Last

\* Every step but these leaves the calls made as they are.
LEMMA MadeStep ==
    ASSUME CallsOK, Next
    PROVE  made \subseteq made' /\ made' \subseteq Contexts
<1> USE DEF threads, queue, jobs, handler, calls, socket, server, CallsOK
<1>1. ASSUME NEW t \in Callers, NEW c \in Contexts, NEW state, ContextNew(t, c, state)
      PROVE  made \subseteq made' /\ made' \subseteq Contexts
  BY <1>1 DEF ContextNew
<1>2. CASE UserStep
  <2>1. CASE (\E t \in Users, c \in Contexts : Call(t, c)) \/ (\E c \in Contexts : new_rpc(c))
    BY <2>1, <1>1 DEF Call, new_rpc, Callers, Users
  <2>2. CASE \E t \in Callers, c \in Contexts :
                try_recv(t, c) \/ cancel(t, c) \/ DropContext(t, c)
                  \/ \E how \in {"recv", "wait"} : Block(t, c, how)
    BY <2>2 DEF try_recv, cancel, DropContext, Block
  <2>3. CASE Drop
    BY <2>3 DEF Drop
  <2> QED
    BY <1>2, <2>1, <2>2, <2>3 DEF UserStep
<1>3. CASE Waiting \/ new_rpc_ends \/ Join \/ ConnectionLost
  BY <1>3 DEF Waiting, recv, recv_returns, new_rpc_ends, Join, ConnectionLost
<1>4. CASE JobStep
  BY <1>4, <1>1 DEF JobStep, update, check_liveness, finish, NestedCall, Callers
<1>5. CASE LoopStep \/ ReadStep \/ WriteStep
  BY <1>5 DEF LoopStep, ReadStep, WriteStep, HandleQuit, HandleNewRpc, HandleReceived,
    HandleOutgoing, read_message, read_fails, write_message, write_fails, write_thread_ends
<1>6. CASE ServerStep \/ \E c \in Contexts : ForeignCall(c) \/ ForeignCancel(c)
  BY <1>6 DEF ServerStep, ServerAnswers, ForeignCall, ForeignCancel
<1> QED
  BY <1>2, <1>3, <1>4, <1>5, <1>6 DEF Next

\* What the server makes of a message.
LEMMA Routes ==
    ASSUME CallsOK, NEW m \in MessageOf(made), Route(m), UNCHANGED <<made, program>>
    PROVE  \/ UNCHANGED <<from_server, answers>>
           \/ /\ UNCHANGED answers
              /\ \E c \in made : /\ program.calls[c].function = "own"
                                 /\ from_server' \in {Append(from_server, RpcCall(c)),
                                                      Append(from_server, RpcCancel(c))}
           \/ \E k \in Kinds : Answer(m.context, k) /\ \/ m = RpcCall(m.context)
                                                       \/ /\ m.context \in running_rpcs
                                                          /\ Here(m.context)
<1>1. m \in Message /\ m.context \in made /\ made \subseteq Contexts
  BY DEF MessageOf, CallsOK
<1>2. CASE m.type = "RpcCall" /\ RouteCall(m.context)
  <2>1. m = RpcCall(m.context) /\ Last \in Kinds
    BY <1>1, <1>2, Messages0, NextPartial
  <2> QED
    BY <1>1, <1>2, <2>1 DEF RouteCall
<1>3. CASE m.type = "RpcCancel" /\ ~(m.type = "RpcCall" /\ RouteCall(m.context))
           /\ ~(m.type = "RpcResponse")
  BY <1>1, <1>3 DEF Route
<1>4. CASE m.type = "RpcResponse" /\ ~(m.type = "RpcCall" /\ RouteCall(m.context))
           /\ ~(m.type = "RpcCancel")
  <2>1. m.kind \in Kinds
    BY <1>1, <1>4, Messages0
  <2> QED
    BY <1>1, <1>4, <2>1 DEF Route
<1> QED
  BY <1>2, <1>3, <1>4, Messages0, <1>1 DEF Route

\* The queues hold commands and messages about calls that were made.
LEMMA QueuesStep ==
    ASSUME Queues, CallsOK, JobsOK, Next
    PROVE  Queues'
<1> USE DEF threads, queue, jobs, handler, calls, socket, server
<1>1. made \subseteq made' /\ made' \subseteq Contexts /\ made \subseteq Contexts
  BY MadeStep DEF CallsOK
<1>2. /\ commands \in Seq(CommandOf(made')) /\ handed \in Seq(CommandOf(made'))
      /\ send_queue \in Seq(MessageOf(made')) /\ written \in Seq(MessageOf(made'))
      /\ from_server \in Seq(MessageOf(made'))
  BY <1>1, Grow DEF Queues
<1>3. ASSUME UNCHANGED <<commands, handed, send_queue, written, from_server>>
      PROVE  Queues'
  BY <1>2, <1>3 DEF Queues
<1>4. ASSUME NEW cmd \in CommandOf(made'), Deliver(cmd),
             UNCHANGED <<send_queue, written, from_server>>
      PROVE  Queues'
  BY <1>1, <1>2, <1>4, Delivers DEF Queues
<1>5. ASSUME NEW t \in Callers, NEW c \in Contexts, NEW state, ContextNew(t, c, state)
      PROVE  Queues'
  <2>1. CASE Deliver(OutgoingCall(c)) /\ made' = made \cup {c}
             /\ UNCHANGED <<send_queue, written, from_server>>
    <3>1. OutgoingCall(c) \in CommandOf(made')
      BY <1>1, <2>1, Made
    <3> QED
      BY <1>4, <2>1, <3>1
  <2>2. CASE UNCHANGED <<commands, handed, send_queue, written, from_server>>
    BY <1>3, <2>2
  <2> QED
    BY <1>5, <2>1, <2>2 DEF ContextNew
<1>6. CASE UserStep
  <2>1. CASE (\E t \in Users, c \in Contexts : Call(t, c)) \/ (\E c \in Contexts : new_rpc(c))
    BY <2>1, <1>5 DEF Call, new_rpc, Callers, Users
  <2>2. CASE \E t \in Callers, c \in Contexts :
                try_recv(t, c) \/ DropContext(t, c)
                  \/ \E how \in {"recv", "wait"} : Block(t, c, how)
    BY <2>2, <1>3 DEF try_recv, DropContext, Block
  <2>3. ASSUME NEW t \in Callers, NEW c \in Contexts, cancel(t, c)
        PROVE  Queues'
    <3>1. c \in made'
      BY <2>3, <1>1 DEF cancel, Uses, Held, CallsOK
    <3>2. CancelOutgoingRpc(c) \in CommandOf(made')
      BY <1>1, <3>1, Made
    <3> QED
      BY <1>3, <1>4, <2>3, <3>2 DEF cancel
  <2>4. CASE Drop
    <3>1. Quit \in CommandOf(made')
      BY <1>1, Made
    <3> QED
      BY <1>3, <1>4, <2>4, <3>1 DEF Drop
  <2> QED
    BY <1>6, <2>1, <2>2, <2>3, <2>4 DEF UserStep
<1>7. CASE new_rpc_ends
  <2>1. NewRpc \in CommandOf(made')
    BY <1>1, Made
  <2> QED
    BY <1>3, <1>4, <1>7, <2>1 DEF new_rpc_ends
<1>8. CASE Waiting \/ Join
  BY <1>3, <1>8 DEF Waiting, recv, recv_returns, Join
<1>9. CASE JobStep
  <2>1. ASSUME NEW j \in Contexts, update(j)
        PROVE  Queues'
    <3>1. j \in made'
      BY <2>1, <1>1 DEF update, Alive, JobsOK
    <3>2. Updates(j) + 1 \in Kinds
      BY <2>1, NextPartial DEF update
    <3>3. Send(Response(j, Updates(j) + 1)) \in CommandOf(made')
      BY <1>1, <3>1, <3>2, Made
    <3> QED
      BY <1>4, <2>1, <3>3 DEF update
  <2>2. ASSUME NEW j \in Contexts, finish(j)
        PROVE  Queues'
    <3>1. CASE Alive(j)
      <4>1. j \in made'
        BY <3>1, <1>1 DEF Alive, JobsOK
      <4>2. Last \in Kinds
        BY NextPartial
      <4>3. Send(Response(j, Last)) \in CommandOf(made')
        BY <1>1, <4>1, <4>2, Made
      <4> QED
        BY <1>4, <2>2, <3>1, <4>3 DEF finish
    <3>2. CASE ~Alive(j)
      BY <1>3, <2>2, <3>2 DEF finish
    <3> QED
      BY <3>1, <3>2
  <2>3. ASSUME NEW j \in Contexts, check_liveness(j)
        PROVE  Queues'
    BY <2>3, <1>3 DEF check_liveness
  <2>4. ASSUME NEW c \in Contexts, NestedCall(c)
        PROVE  Queues'
    BY <2>4, <1>5 DEF NestedCall, Callers
  <2> QED
    BY <1>9, <2>1, <2>2, <2>3, <2>4 DEF JobStep
<1>10. CASE LoopStep
  <2>1. UNCHANGED <<handed, written, from_server, made>>
    BY <1>10 DEF LoopStep, HandleQuit, HandleNewRpc, HandleReceived, HandleOutgoing
  <2>2. CASE commands' = <<>> /\ UNCHANGED send_queue
    BY <1>2, <2>1, <2>2 DEF Queues
  <2>3. CASE commands # <<>> /\ commands' = Tail(commands) /\ UNCHANGED send_queue
    BY <1>2, <2>1, <2>3 DEF Queues
  <2>4. CASE commands # <<>> /\ Outgoing(Head(commands)) /\ commands' = Tail(commands)
             /\ send_queue' = Append(send_queue, Head(commands).message)
    <3>1. Head(commands) \in CommandOf(made')
      BY <1>2, <2>4
    <3>2. Head(commands).message \in MessageOf(made')
      BY <1>1, <3>1, <2>4, Made, Commands1
    <3>3. send_queue' \in Seq(MessageOf(made')) /\ commands' \in Seq(CommandOf(made'))
      BY <1>2, <2>4, <3>2
    <3> QED
      BY <1>2, <2>1, <3>3 DEF Queues
  <2> QED
    BY <1>10, <2>2, <2>3, <2>4 DEF LoopStep, HandleQuit, HandleNewRpc, HandleReceived,
      HandleOutgoing, Handling, LoopEnds
<1>11. CASE ReadStep
  <2>1. CASE read_message
    <3>1. Head(from_server) \in MessageOf(made')
      BY <1>2, <2>1 DEF read_message
    <3>2. Received(Head(from_server)) \in CommandOf(made')
      BY <1>1, <3>1, Made
    <3>3. from_server' \in Seq(MessageOf(made'))
      BY <1>2, <2>1 DEF read_message
    <3>4. commands' \in Seq(CommandOf(made'))
      BY <1>2, <2>1, <3>2, QueueFacts DEF read_message
    <3> QED
      BY <1>2, <2>1, <3>3, <3>4 DEF read_message, Queues
  <2>2. CASE read_fails
    BY <1>3, <2>2 DEF read_fails
  <2> QED
    BY <1>11, <2>1, <2>2 DEF ReadStep
<1>12. ASSUME NEW m \in MessageOf(made'), from_server' = Append(from_server, m),
              UNCHANGED <<commands, handed, send_queue, written>>
       PROVE  Queues'
  <2>1. from_server' \in Seq(MessageOf(made'))
    BY <1>2, <1>12
  <2> QED
    BY <1>2, <1>12, <2>1 DEF Queues
<1>13. CASE WriteStep
  <2>1. CASE write_message
    <3>1. /\ send_queue # <<>> /\ send_queue' = Tail(send_queue)
          /\ written' = Append(written, Head(send_queue))
          /\ Route(Head(send_queue)) /\ UNCHANGED <<commands, handed, made, program>>
      BY <2>1 DEF write_message
    <3>2. Head(send_queue) \in MessageOf(made)
      BY <3>1 DEF Queues
    <3>3. send_queue' \in Seq(MessageOf(made')) /\ written' \in Seq(MessageOf(made'))
      BY <1>2, <3>1, <3>2
    <3>4. ASSUME NEW m \in MessageOf(made'), from_server' = Append(from_server, m)
          PROVE  from_server' \in Seq(MessageOf(made'))
      BY <1>2, <3>4
    <3>5. from_server' \in Seq(MessageOf(made'))
      <4> DEFINE m == Head(send_queue)
      <4>1. m \in MessageOf(made)
        BY <3>2
      <4>2. m.context \in made /\ made' = made
        BY <1>1, <3>1, <4>1, Made
      <4>3. /\ \A c \in made : RpcCall(c) \in MessageOf(made') /\ RpcCancel(c) \in MessageOf(made')
            /\ \A k \in Kinds : Response(m.context, k) \in MessageOf(made')
        BY <1>1, <4>2, Made
      <4>4. Route(m)
        BY <3>1
      <4> HIDE DEF m
      <4>5. CASE UNCHANGED from_server
        BY <1>2, <4>5
      <4>6. CASE \E c \in made : from_server' \in {Append(from_server, RpcCall(c)),
                                                   Append(from_server, RpcCancel(c))}
        BY <3>4, <4>3, <4>6
      <4>7. CASE \E k \in Kinds : Answer(m.context, k)
        BY <3>4, <4>3, <4>7 DEF Answer
      <4> QED
        BY <3>1, <4>1, <4>4, <4>5, <4>6, <4>7, Routes
    <3> QED
      BY <1>2, <3>1, <3>3, <3>5 DEF Queues
  <2>2. CASE write_fails
    BY <1>2, <2>2 DEF write_fails, Queues
  <2>3. CASE write_thread_ends
    BY <1>3, <2>3 DEF write_thread_ends
  <2> QED
    BY <1>13, <2>1, <2>2, <2>3 DEF WriteStep
<1>14. ASSUME NEW c \in Contexts, ServerAnswers(c)
       PROVE  Queues'
  <2>1. c \in made' /\ Len(answers[c]) \in Nat
    BY <1>1, <1>14 DEF ServerAnswers, CallsOK
  <2>2. PICK k \in Kinds : Answer(c, k)
    BY <1>14, <2>1, NextPartial DEF ServerAnswers
  <2>3. Response(c, k) \in MessageOf(made')
    BY <1>1, <2>1, Made
  <2> QED
    BY <1>12, <1>14, <2>2, <2>3 DEF ServerAnswers, Answer
<1>15. ASSUME NEW c \in Contexts, ForeignCall(c) \/ ForeignCancel(c)
       PROVE  Queues'
  <2>1. c \in made'
    BY <1>1, <1>15 DEF ForeignCall, ForeignCancel, CallsOK
  <2>2. RpcCall(c) \in MessageOf(made') /\ RpcCancel(c) \in MessageOf(made')
    BY <1>1, <2>1, Made
  <2> QED
    BY <1>12, <1>15, <2>2 DEF ForeignCall, ForeignCancel
<1>16. CASE ConnectionLost
  <2>1. from_server' \in Seq(MessageOf(made'))
    BY <1>2, <1>16, QueueFacts DEF ConnectionLost
  <2> QED
    BY <1>2, <1>16, <2>1 DEF ConnectionLost, Queues
<1> QED
  BY <1>6, <1>7, <1>8, <1>9, <1>10, <1>11, <1>13, <1>14, <1>15, <1>16 DEF Next, ServerStep

\* The threads are in one of their states.
LEMMA ThreadsStep ==
    ASSUME Queues, ThreadsOK, CallsOK, Next
    PROVE  ThreadsOK'
<1> USE DEF threads, queue, jobs, handler, calls, socket, server, ThreadsOK
<1>1. ASSUME NEW t \in Callers, NEW c \in Contexts, NEW state, ContextNew(t, c, state)
      PROVE  ThreadsOK'
  BY <1>1 DEF ContextNew, Deliver
<1>2. CASE UserStep
  <2>1. CASE (\E t \in Users, c \in Contexts : Call(t, c)) \/ (\E c \in Contexts : new_rpc(c))
    BY <2>1, <1>1 DEF Call, new_rpc, Callers, Users
  <2>2. CASE \E t \in Callers, c \in Contexts :
                try_recv(t, c) \/ cancel(t, c) \/ DropContext(t, c)
                  \/ \E how \in {"recv", "wait"} : Block(t, c, how)
    BY <2>2 DEF try_recv, cancel, DropContext, Block
  <2>3. CASE Drop
    BY <2>3 DEF Drop
  <2> QED
    BY <1>2, <2>1, <2>2, <2>3 DEF UserStep
<1>3. CASE Waiting \/ new_rpc_ends \/ Join \/ ConnectionLost
  <2>1. CASE Waiting \/ new_rpc_ends
    BY <2>1 DEF Waiting, recv, recv_returns, new_rpc_ends
  <2>2. CASE Join
    BY <2>2 DEF Join
  <2>3. CASE ConnectionLost
    BY <2>3 DEF ConnectionLost
  <2> QED
    BY <1>3, <2>1, <2>2, <2>3
<1>4. CASE JobStep
  <2>1. CASE \E j \in Contexts : update(j) \/ check_liveness(j)
    BY <2>1 DEF update, check_liveness
  <2>2. CASE \E j \in Contexts : finish(j)
    BY <2>2 DEF finish
  <2>3. CASE \E c \in Contexts : NestedCall(c)
    BY <1>1, <2>3 DEF NestedCall, Callers
  <2> QED
    BY <1>4, <2>1, <2>2, <2>3 DEF JobStep
<1>5. CASE LoopStep
  BY <1>5 DEF LoopStep, HandleQuit, HandleNewRpc, HandleReceived, HandleOutgoing, LoopEnds
<1>6. CASE ReadStep
  BY <1>6 DEF ReadStep, read_message, read_fails
<1>7. CASE WriteStep
  <2>1. CASE write_message
    <3>1. registered' \in BOOLEAN
      <4>1. Route(Head(send_queue)) => registered' \in {registered, TRUE}
        BY DEF Route, RouteCall, Answer
      <4> QED
        BY <2>1, <4>1 DEF write_message
    <3> QED
      BY <2>1, <3>1 DEF write_message
  <2> QED
    BY <1>7, <2>1 DEF WriteStep, write_fails, write_thread_ends
<1>8. CASE ServerStep \/ \E c \in Contexts : ForeignCall(c) \/ ForeignCancel(c)
  BY <1>8 DEF ServerStep, ServerAnswers, ForeignCall, ForeignCancel
<1> QED
  BY <1>2, <1>3, <1>4, <1>5, <1>6, <1>7, <1>8 DEF Next

\* A thread reads the next response to c.
LEMMA Takes ==
    ASSUME CallsOK, NEW c \in made, TakeValue(c)
    PROVE  /\ values' \in [Contexts -> Seq(Kinds)] /\ received' \in [Contexts -> Seq(Kinds)]
           /\ values[c] # <<>> /\ Head(values[c]) \in Kinds /\ values'[c] = Tail(values[c])
           /\ received'[c] = Append(received[c], Head(values[c]))
           /\ \A d \in Contexts \ {c} : values'[d] = values[d] /\ received'[d] = received[d]
<1>1. c \in Contexts /\ values[c] \in Seq(Kinds) /\ received[c] \in Seq(Kinds) /\ values[c] # <<>>
  BY DEF CallsOK, TakeValue
<1>2. Head(values[c]) \in Kinds /\ Tail(values[c]) \in Seq(Kinds)
      /\ Append(received[c], Head(values[c])) \in Seq(Kinds)
  BY <1>1
<1> QED
  BY <1>1, <1>2 DEF CallsOK, TakeValue

\* Contexts that are consumed.
LEMMA Consumes ==
    ASSUME CallsOK, NEW cs, Consume(cs)
    PROVE  /\ open' \subseteq open /\ open' = open \ cs
           /\ values' \in [Contexts -> Seq(Kinds)]
           /\ \A d \in Contexts : values'[d] \in {values[d], <<>>}
           /\ \A d \in Contexts \ cs : values'[d] = values[d]
<1>1. values' = [c \in Contexts |-> IF c \in cs THEN <<>> ELSE values[c]]
  BY DEF Consume
<1>2. \A d \in Contexts : values[d] \in Seq(Kinds) /\ <<>> \in Seq(Kinds)
  BY DEF CallsOK
<1> QED
  BY <1>1, <1>2 DEF Consume

\* An answer.
LEMMA AnswerOK ==
    ASSUME CallsOK, NEW c \in made, NEW k \in Kinds, Answer(c, k)
    PROVE  /\ answers' \in [Contexts -> Seq(Kinds)]
           /\ answers'[c] = Append(answers[c], k)
           /\ \A d \in Contexts \ {c} : answers'[d] = answers[d]
<1>1. c \in Contexts /\ answers[c] \in Seq(Kinds)
  BY DEF CallsOK
<1>2. Append(answers[c], k) \in Seq(Kinds)
  BY <1>1
<1> QED
  BY <1>1, <1>2 DEF CallsOK, Answer

\* The calls are known as what they are.
LEMMA CallsStep ==
    ASSUME Queues, CallsOK, UsersOK, JobsOK, Next
    PROVE  CallsOK'
<1> USE DEF threads, queue, jobs, handler, calls, socket, server
<1>1. made \subseteq made' /\ made' \subseteq Contexts /\ made \subseteq Contexts
  BY MadeStep DEF CallsOK
<1>2. ASSUME UNCHANGED <<program, made, running_function_calls, running_rpcs, answers>>,
             open' \subseteq open,
             values' \in [Contexts -> Seq(Kinds)], result' \in [Contexts -> BOOLEAN],
             received' \in [Contexts -> Seq(Kinds)],
             \A c \in Contexts \ made : values'[c] \in {values[c], <<>>} /\ received'[c] = received[c]
      PROVE  CallsOK'
  BY <1>2 DEF CallsOK
<1>3. ASSUME UNCHANGED calls, running_function_calls' \subseteq made', running_rpcs' \subseteq made',
             UNCHANGED answers
      PROVE  CallsOK'
  BY <1>3 DEF CallsOK
<1>4. ASSUME NEW t \in Callers, NEW c \in Contexts, NEW state, ContextNew(t, c, state)
      PROVE  CallsOK'
  BY <1>4 DEF CallsOK, ContextNew
<1>5. ASSUME NEW c \in made, TakeValue(c), UNCHANGED <<program, made, open, answers>>,
             UNCHANGED <<running_function_calls, running_rpcs>>,
             result' \in [Contexts -> BOOLEAN]
      PROVE  CallsOK'
  BY <1>5, <1>2, <1>1, Takes
<1>6. ASSUME NEW cs, Consume(cs), UNCHANGED <<program, made, answers, received, result>>,
             UNCHANGED <<running_function_calls, running_rpcs>>
      PROVE  CallsOK'
  <2>1. received \in [Contexts -> Seq(Kinds)] /\ result \in [Contexts -> BOOLEAN]
    BY DEF CallsOK
  <2> QED
    BY <1>6, <1>2, <2>1, Consumes
<1>7. CASE UserStep
  <2>1. CASE (\E t \in Users, c \in Contexts : Call(t, c)) \/ (\E c \in Contexts : new_rpc(c))
    BY <2>1, <1>4 DEF Call, new_rpc, Callers, Users
  <2>2. ASSUME NEW t \in Callers, NEW c \in Contexts, try_recv(t, c)
        PROVE  CallsOK'
    <3>1. c \in made
      BY <2>2 DEF try_recv, Uses, Held, CallsOK
    <3>2. result' \in [Contexts -> BOOLEAN]
      BY <2>2 DEF try_recv, CallsOK
    <3> QED
      BY <1>5, <2>2, <3>1, <3>2 DEF try_recv
  <2>3. ASSUME NEW t \in Callers, NEW c \in Contexts, cancel(t, c) \/ DropContext(t, c)
        PROVE  CallsOK'
    BY <2>3, <1>6 DEF cancel, DropContext
  <2>4. ASSUME NEW t \in Callers, NEW c \in Contexts, NEW how, Block(t, c, how)
        PROVE  CallsOK'
    BY <2>4 DEF Block, CallsOK
  <2>5. CASE Drop
    BY <2>5 DEF Drop, CallsOK
  <2> QED
    BY <1>7, <2>1, <2>2, <2>3, <2>4, <2>5 DEF UserStep
<1>8. CASE Waiting
  <2>1. PICK t \in Callers : recv(t) \/ recv_returns(t)
    BY <1>8 DEF Waiting
  <2>2. op[t].context \in made
    BY <2>1 DEF UsersOK, Blocked, Held, CallsOK, recv, recv_returns
  <2>3. op[t].context \in Contexts
    BY <2>2, <1>1
  <2>4. CASE recv(t)
    <3>1. result' \in [Contexts -> BOOLEAN]
      BY <2>4 DEF recv, CallsOK
    <3> QED
      BY <1>5, <2>2, <2>4, <3>1 DEF recv
  <2>5. CASE recv_returns(t)
    BY <2>3, <2>5 DEF recv_returns, CallsOK
  <2> QED
    BY <2>1, <2>4, <2>5
<1>9. CASE new_rpc_ends \/ Join \/ ConnectionLost
  BY <1>9 DEF new_rpc_ends, Join, ConnectionLost, CallsOK
<1>10. CASE JobStep
  <2>1. ASSUME NEW j \in Contexts, update(j) \/ check_liveness(j)
        PROVE  CallsOK'
    BY <2>1 DEF update, check_liveness, CallsOK
  <2>2. ASSUME NEW j \in Contexts, finish(j)
        PROVE  CallsOK'
    BY <2>2, <1>6 DEF finish
  <2>3. ASSUME NEW c \in Contexts, NestedCall(c)
        PROVE  CallsOK'
    BY <2>3, <1>4 DEF NestedCall, Callers
  <2> QED
    BY <1>10, <2>1, <2>2, <2>3 DEF JobStep
<1>11. CASE HandleQuit \/ HandleNewRpc
  BY <1>11 DEF HandleQuit, HandleNewRpc, LoopEnds, CallsOK
<1>12. CASE HandleReceived
  <2>1. commands # <<>> /\ Head(commands).command = "Received"
    BY <1>12 DEF HandleReceived, Handling
  <2>2. Head(commands) \in CommandOf(made)
    BY <2>1 DEF Queues
  <2>3. Head(commands).message \in MessageOf(made)
    BY <1>1, <2>1, <2>2, Made
  <2> DEFINE m == Head(commands).message
  <2>4. m \in Message /\ m.context \in made
    BY <1>1, <2>3, Made
  <2>5. \/ UNCHANGED values
        \/ m.type = "RpcResponse" /\ values' = [values EXCEPT ![m.context] = Append(@, m.kind)]
    BY <1>12 DEF HandleReceived, ReceivedCall, ReceivedCancel, ReceivedResponse
  <2>6. UNCHANGED <<handler, program, made, open, result, received, socket, server>>
    BY <1>12 DEF HandleReceived
  <2>7. m.type = "RpcResponse" => m.kind \in Kinds
    BY <2>4, Messages0
  <2> HIDE DEF m
  <2>8. /\ values' \in [Contexts -> Seq(Kinds)]
        /\ \A c \in Contexts \ made : values'[c] = values[c]
    <3>1. CASE UNCHANGED values
      BY <3>1 DEF CallsOK
    <3>2. CASE m.type = "RpcResponse" /\ values' = [values EXCEPT ![m.context] = Append(@, m.kind)]
      <4>1. m.context \in Contexts /\ values[m.context] \in Seq(Kinds)
        BY <1>1, <2>4 DEF CallsOK
      <4>2. Append(values[m.context], m.kind) \in Seq(Kinds)
        BY <3>2, <4>1, <2>7
      <4> QED
        BY <3>2, <4>1, <4>2, <2>4 DEF CallsOK
    <3> QED
      BY <2>5, <3>1, <3>2
  <2> QED
    BY <2>6, <2>8 DEF CallsOK
<1>13. CASE HandleOutgoing
  <2>1. commands # <<>> /\ Outgoing(Head(commands))
    BY <1>13 DEF HandleOutgoing
  <2>2. Head(commands) \in CommandOf(made)
    BY <2>1 DEF Queues
  <2>3. Head(commands).message \in MessageOf(made)
    BY <1>1, <2>1, <2>2, Made, Commands1
  <2>4. Head(commands).message.context \in made
    BY <1>1, <2>3, Made
  <2> QED
    BY <1>13, <2>4 DEF HandleOutgoing, LoopEnds, CallsOK
<1>14. CASE ReadStep
  BY <1>14 DEF ReadStep, read_message, read_fails, CallsOK
<1>15. CASE write_message
  <2>1. send_queue # <<>> /\ Route(Head(send_queue))
        /\ UNCHANGED <<running_function_calls, calls>>
    BY <1>15 DEF write_message
  <2>2. Head(send_queue) \in MessageOf(made)
    BY <2>1 DEF Queues
  <2> DEFINE m == Head(send_queue)
  <2>3. m.context \in made /\ m \in MessageOf(made) /\ Route(m)
    BY <1>1, <2>1, <2>2, Made
  <2> HIDE DEF m
  <2>4. running_rpcs' \subseteq made
    BY <2>3 DEF Route, RouteCall, Answer, CallsOK
  <2>5. CASE UNCHANGED answers
    BY <1>3, <2>1, <2>4, <2>5 DEF CallsOK
  <2>6. CASE \E k \in Kinds : Answer(m.context, k)
    BY <1>1, <2>1, <2>3, <2>4, <2>6, AnswerOK DEF CallsOK
  <2> QED
    BY <2>1, <2>3, <2>5, <2>6, Routes
<1>16. CASE write_fails \/ write_thread_ends
  BY <1>16 DEF write_fails, write_thread_ends, CallsOK
<1>17. ASSUME NEW c \in Contexts, ServerAnswers(c)
       PROVE  CallsOK'
  <2>1. c \in made /\ Len(answers[c]) \in Nat
    BY <1>17 DEF ServerAnswers, CallsOK
  <2>2. PICK k \in Kinds : Answer(c, k)
    BY <1>17, <2>1, NextPartial DEF ServerAnswers
  <2>3. running_rpcs' \subseteq running_rpcs /\ UNCHANGED <<running_function_calls, calls>>
    BY <1>17 DEF ServerAnswers
  <2> QED
    BY <1>1, <2>1, <2>2, <2>3, AnswerOK DEF CallsOK
<1>18. ASSUME NEW c \in Contexts, ForeignCall(c) \/ ForeignCancel(c)
       PROVE  CallsOK'
  BY <1>18 DEF ForeignCall, ForeignCancel, CallsOK
<1> QED
  BY <1>7, <1>8, <1>9, <1>10, <1>11, <1>12, <1>13, <1>14, <1>15, <1>16, <1>17, <1>18
  DEF Next, LoopStep, WriteStep, ServerStep

\* What a thread may do next.
LEMMA DoingOK ==
    /\ Idle \in Doing /\ Panicked \in Doing /\ [op |-> "NewRpc"] \in Doing
    /\ [op |-> "call"] \in Doing
    /\ \A how \in {"recv", "wait", "new_rpc"}, c \in Contexts :
          /\ [op |-> how, context |-> c] \in Doing
          /\ [op |-> how, context |-> c].op = how /\ [op |-> how, context |-> c].context = c
    /\ Idle.op = "idle" /\ Panicked.op = "panicked"
    /\ [op |-> "NewRpc"].op = "NewRpc" /\ [op |-> "call"].op = "call"
BY DEF Doing, Idle, Panicked

\* A thread that starts to do something waits only for a context that it holds.
LEMMA BecomesOK ==
    ASSUME UsersOK, NEW t \in Callers, NEW state \in Doing, Becomes(t, state),
           state.op \in {"recv", "wait", "new_rpc"} => Held(t, state.context)',
           UNCHANGED <<pool, program>>, \A c \in open : c \in open' \/ ~Held(t, c),
           open \subseteq open', \A c \in open' \ open : Held(t, c)',
           t = "pool" => pool # <<>>
    PROVE  UsersOK'
<1>1. /\ op' \in [Callers -> Doing] /\ op'[t] = state
      /\ \A u \in Callers \ {t} : op'[u] = op[u]
  BY DEF UsersOK, Becomes
<1>2. \A u \in Callers : Blocked(u)' => Held(u, op[u].context)'
  <2> TAKE u \in Callers
  <2>1. CASE u = t
    BY <1>1, <2>1 DEF Blocked, Held
  <2>2. CASE u # t
    BY <1>1, <2>2 DEF UsersOK, Blocked, Held
  <2> QED
    BY <2>1, <2>2
<1>3. pool' = <<>> => op'["pool"] = Idle /\ \A c \in open' : ~Held("pool", c)'
  BY <1>1 DEF UsersOK, Held, Callers
<1> QED
  BY <1>1, <1>2, <1>3 DEF UsersOK

\* Contexts are consumed by a thread that waits for none.
LEMMA ConsumeUsers ==
    ASSUME UsersOK, CallsOK, NEW t \in Callers, op[t] = Idle, NEW cs, Consume(cs),
           \A c \in cs : Held(t, c), UNCHANGED <<op, program>>,
           pool' = <<>> => pool = <<>> \/ (t = "pool" /\ \A c \in open : Held("pool", c) => c \in cs)
    PROVE  UsersOK'
<1>1. open' = open \ cs
  BY DEF Consume
<1>2. \A u \in Callers : Blocked(u)' => Held(u, op[u].context)'
  <2> TAKE u \in Callers
  <2>1. CASE u = t
    BY <2>1 DEF Blocked, Idle
  <2>2. CASE u # t
    BY <1>1, <2>2 DEF UsersOK, Blocked, Held
  <2> QED
    BY <2>1, <2>2
<1>3. pool' = <<>> => op'["pool"] = Idle /\ \A c \in open' : ~Held("pool", c)'
  BY <1>1 DEF UsersOK, Held
<1> QED
  BY <1>2, <1>3 DEF UsersOK

\* What the threads wait for.
LEMMA UsersStep ==
    ASSUME CallsOK, UsersOK, JobsOK, Next
    PROVE  UsersOK'
<1> USE DEF threads, queue, jobs, handler, calls, socket, server
<1>0. made \subseteq Contexts /\ open \subseteq made /\ "pool" \in Callers
  BY DEF CallsOK, Callers
<1>1. ASSUME UNCHANGED <<op, open, program, pool>>
      PROVE  UsersOK'
  BY <1>1 DEF UsersOK, Blocked, Held
<1>2. ASSUME NEW t \in Callers, NEW c \in Contexts, NEW state \in Doing, ContextNew(t, c, state),
             state.op \in {"recv", "wait", "new_rpc"} => state.context = c,
             t = "pool" => pool # <<>>
      PROVE  UsersOK'
  <2>1. UNCHANGED <<pool, program>> /\ program.calls[c].caller = t
    BY <1>2 DEF ContextNew
  <2>2. CASE open' = open \cup {c} /\ Becomes(t, state)
    <3>1. \A d \in open' \ open : Held(t, d)'
      BY <2>1, <2>2 DEF Held
    <3>2. state.op \in {"recv", "wait", "new_rpc"} => Held(t, state.context)'
      BY <1>2, <2>1, <2>2 DEF Held
    <3> QED
      BY <1>2, <2>1, <2>2, <3>1, <3>2, BecomesOK
  <2>3. CASE UNCHANGED open /\ Becomes(t, Panicked)
    BY <1>2, <2>1, <2>3, BecomesOK, DoingOK
  <2> QED
    BY <1>2, <2>2, <2>3 DEF ContextNew
<1>3. CASE UserStep
  <2>1. ASSUME NEW t \in Users, NEW c \in Contexts, Call(t, c)
        PROVE  UsersOK'
    BY <2>1, <1>2, DoingOK DEF Call, Callers, Users
  <2>2. ASSUME NEW c \in Contexts, new_rpc(c)
        PROVE  UsersOK'
    BY <2>2, <1>2, DoingOK DEF new_rpc, Callers, Users
  <2>3. ASSUME NEW t \in Callers, NEW c \in Contexts, try_recv(t, c)
        PROVE  UsersOK'
    BY <2>3, <1>1 DEF try_recv
  <2>4. ASSUME NEW t \in Callers, NEW c \in Contexts, cancel(t, c) \/ DropContext(t, c)
        PROVE  UsersOK'
    <3>1. op[t] = Idle /\ Held(t, c) /\ Consume({c}) /\ UNCHANGED <<op, program, pool>>
      BY <2>4 DEF cancel, DropContext, Uses
    <3> QED
      BY <3>1, ConsumeUsers
  <2>5. ASSUME NEW t \in Callers, NEW c \in Contexts, NEW how \in {"recv", "wait"},
               Block(t, c, how)
        PROVE  UsersOK'
    <3>1. /\ op[t] = Idle /\ Held(t, c) /\ Becomes(t, [op |-> how, context |-> c])
          /\ UNCHANGED <<program, pool, open>>
      BY <2>5 DEF Block, Uses
    <3>2. t = "pool" => pool # <<>>
      BY <3>1 DEF UsersOK, Held
    <3>3. Held(t, c)'
      BY <3>1 DEF Held
    <3> DEFINE state == [op |-> how, context |-> c]
    <3>4. state \in Doing /\ state.context = c
      BY DoingOK
    <3>5. Becomes(t, state)
      BY <3>1
    <3> HIDE DEF state
    <3> QED
      BY <3>1, <3>2, <3>3, <3>4, <3>5, BecomesOK
  <2>6. CASE Drop
    BY <2>6, <1>1 DEF Drop
  <2> QED
    BY <1>3, <2>1, <2>2, <2>3, <2>4, <2>5, <2>6 DEF UserStep
<1>4. ASSUME NEW t \in Callers, Blocked(t), NEW state \in Doing, Becomes(t, state),
             state = op[t] \/ state.op \notin {"recv", "wait", "new_rpc"},
             UNCHANGED <<open, program, pool>>
      PROVE  UsersOK'
  <2>1. t = "pool" => pool # <<>>
    BY <1>4 DEF UsersOK, Blocked, Idle
  <2>2. state.op \in {"recv", "wait", "new_rpc"} => Held(t, state.context)'
    BY <1>4 DEF UsersOK, Held
  <2> QED
    BY <1>4, <2>1, <2>2, BecomesOK
<1>5. CASE Waiting
  <2>1. PICK t \in Callers : recv(t) \/ recv_returns(t)
    BY <1>5 DEF Waiting
  <2>2. Blocked(t) /\ op[t] \in Doing /\ UNCHANGED <<open, program, pool>>
    BY <2>1 DEF recv, recv_returns, Blocked, UsersOK
  <2>3. \/ Becomes(t, Idle) \/ Becomes(t, [op |-> "NewRpc"]) \/ Becomes(t, op[t])
    BY <2>1 DEF recv, recv_returns
  <2> QED
    BY <1>4, <2>2, <2>3, DoingOK
<1>6. CASE new_rpc_ends
  BY <1>6, BecomesOK, DoingOK DEF new_rpc_ends, Callers, Users
<1>7. CASE JobStep
  <2>1. ASSUME NEW j \in Contexts, update(j)
        PROVE  UsersOK'
    BY <2>1, <1>1 DEF update
  <2>2. ASSUME NEW j \in Contexts, check_liveness(j)
        PROVE  UsersOK'
    BY <2>2, <1>0, BecomesOK, DoingOK DEF check_liveness, Running
  <2>3. ASSUME NEW j \in Contexts, finish(j)
        PROVE  UsersOK'
    <3>1. /\ op["pool"] = Idle /\ Consume({c \in open : Held("pool", c)})
          /\ UNCHANGED <<op, program>>
      BY <2>3 DEF finish
    <3> DEFINE cs == {c \in open : Held("pool", c)}
    <3>2. /\ Consume(cs) /\ \A c \in cs : Held("pool", c)
          /\ \A c \in open : Held("pool", c) => c \in cs
      BY <3>1
    <3> HIDE DEF cs
    <3> QED
      BY <1>0, <3>1, <3>2, ConsumeUsers
  <2>4. ASSUME NEW c \in Contexts, NestedCall(c)
        PROVE  UsersOK'
    <3>1. pool # <<>>
      BY <2>4 DEF NestedCall, UsersOK, Idle
    <3> QED
      BY <2>4, <1>0, <1>2, <3>1, DoingOK DEF NestedCall
  <2> QED
    BY <1>7, <2>1, <2>2, <2>3, <2>4 DEF JobStep
<1>8. CASE HandleReceived
  <2>1. pool' = pool \/ pool' # <<>>
    <3>1. ASSUME NEW x
          PROVE  Append(pool, x) # <<>>
      <4>1. pool \in Seq(made \cup {x}) /\ x \in made \cup {x}
        BY Grow DEF JobsOK
      <4>2. Len(Append(pool, x)) = Len(pool) + 1 /\ Len(pool) \in Nat /\ Len(<<>>) = 0
        BY <4>1
      <4>3. Len(Append(pool, x)) # Len(<<>>)
        BY <4>2
      <4> QED
        BY <4>3
    <3> QED
      BY <1>8, <3>1 DEF HandleReceived, ReceivedCall, ReceivedCancel, ReceivedResponse
  <2>2. UNCHANGED <<op, open, program>>
    BY <1>8 DEF HandleReceived
  <2> QED
    BY <2>1, <2>2 DEF UsersOK, Blocked, Held
<1>9. CASE HandleQuit \/ HandleNewRpc \/ HandleOutgoing
  BY <1>1, <1>9 DEF HandleQuit, HandleNewRpc, HandleOutgoing, LoopEnds
<1>10. CASE ReadStep \/ WriteStep
  BY <1>1, <1>10 DEF ReadStep, WriteStep, read_message, read_fails, write_message, write_fails,
    write_thread_ends
<1>11. CASE Join \/ ConnectionLost \/ ServerStep
  BY <1>1, <1>11 DEF Join, ConnectionLost, ServerStep, ServerAnswers
<1>12. ASSUME NEW c \in Contexts, ForeignCall(c) \/ ForeignCancel(c)
       PROVE  UsersOK'
  BY <1>1, <1>12 DEF ForeignCall, ForeignCancel
<1> QED
  BY <1>3, <1>5, <1>6, <1>7, <1>8, <1>9, <1>10, <1>11, <1>12 DEF Next, LoopStep

\* What is served was called.
LEMMA JobsStep ==
    ASSUME Queues, CallsOK, JobsOK, Next
    PROVE  JobsOK'
<1> USE DEF threads, queue, jobs, handler, calls, socket, server
<1>1. made \subseteq made' /\ made' \subseteq Contexts /\ made \subseteq Contexts
  BY MadeStep DEF CallsOK
<1>2. pool \in Seq(made') /\ running_rpc_calls \subseteq made' /\ dropped \subseteq made'
  BY <1>1, Grow DEF JobsOK
<1>3. ASSUME UNCHANGED jobs
      PROVE  JobsOK'
  BY <1>2, <1>3 DEF JobsOK
<1>4. CASE UserStep
  <2>1. CASE (\E t \in Users, c \in Contexts : Call(t, c)) \/ (\E c \in Contexts : new_rpc(c))
    BY <2>1, <1>3 DEF Call, new_rpc, ContextNew
  <2>2. CASE \E t \in Callers, c \in Contexts :
                try_recv(t, c) \/ cancel(t, c) \/ DropContext(t, c)
                  \/ \E how \in {"recv", "wait"} : Block(t, c, how)
    BY <2>2, <1>3 DEF try_recv, cancel, DropContext, Block
  <2>3. CASE Drop
    BY <2>3, <1>3 DEF Drop
  <2> QED
    BY <1>4, <2>1, <2>2, <2>3 DEF UserStep
<1>5. CASE Waiting \/ new_rpc_ends \/ Join \/ ConnectionLost
  BY <1>5, <1>3 DEF Waiting, recv, recv_returns, new_rpc_ends, Join, ConnectionLost
<1>6. CASE JobStep
  <2>1. ASSUME NEW j \in Contexts, finish(j)
        PROVE  JobsOK'
    <3>1. pool # <<>> /\ pool' = Tail(pool) /\ UNCHANGED <<running_rpc_calls, dropped>>
      BY <2>1 DEF finish, Running
    <3>2. pool' \in Seq(made')
      BY <1>2, <3>1
    <3> QED
      BY <1>2, <3>1, <3>2 DEF JobsOK
  <2>2. ASSUME NEW j \in Contexts, update(j) \/ check_liveness(j) \/ NestedCall(j)
        PROVE  JobsOK'
    BY <2>2, <1>3 DEF update, check_liveness, NestedCall, ContextNew
  <2> QED
    BY <1>6, <2>1, <2>2 DEF JobStep
<1>7. CASE HandleReceived
  <2>1. commands # <<>> /\ Head(commands).command = "Received"
    BY <1>7 DEF HandleReceived, Handling
  <2>2. Head(commands) \in CommandOf(made)
    BY <2>1 DEF Queues
  <2>3. Head(commands).message \in MessageOf(made)
    BY <1>1, <2>1, <2>2, Made
  <2>4. Head(commands).message.context \in made'
    BY <1>1, <2>3, Made
  <2> DEFINE c == Head(commands).message.context
  <2>5. /\ pool' \in {pool, Append(pool, c)}
        /\ running_rpc_calls' \in {running_rpc_calls, running_rpc_calls \cup {c},
                                   running_rpc_calls \ {c}}
        /\ dropped' \in {dropped, dropped \cup {c}}
    BY <1>7 DEF HandleReceived, ReceivedCall, ReceivedCancel, ReceivedResponse
  <2>6. c \in made'
    BY <2>4
  <2> HIDE DEF c
  <2>7. Append(pool, c) \in Seq(made')
    BY <1>2, <2>6
  <2> QED
    BY <1>2, <2>5, <2>6, <2>7 DEF JobsOK
<1>8. CASE HandleQuit \/ HandleOutgoing
  BY <1>2, <1>8 DEF HandleQuit, HandleOutgoing, LoopEnds, JobsOK
<1>9. CASE HandleNewRpc \/ ReadStep \/ WriteStep
  BY <1>3, <1>9 DEF HandleNewRpc, ReadStep, WriteStep, read_message, read_fails, write_message,
    write_fails, write_thread_ends
<1>10. CASE ServerStep \/ \E c \in Contexts : ForeignCall(c) \/ ForeignCancel(c)
  BY <1>3, <1>10 DEF ServerStep, ServerAnswers, ForeignCall, ForeignCancel
<1> QED
  BY <1>4, <1>5, <1>6, <1>7, <1>8, <1>9, <1>10 DEF Next, LoopStep

\* At first the queues are empty and nothing is known.
LEMMA InitTyped == Init => Typed
<1> SUFFICES ASSUME Init
             PROVE  Typed
  OBVIOUS
<1>1. Queues
  <2>1. \A S : <<>> \in Seq(S)
    OBVIOUS
  <2> QED
    BY <2>1 DEF Init, Queues
<1>2. ThreadsOK
  BY DEF Init, ThreadsOK
<1>3. CallsOK
  <2>1. <<>> \in Seq(Kinds)
    OBVIOUS
  <2> QED
    BY <2>1 DEF Init, CallsOK
<1>4. UsersOK
  BY DoingOK DEF Init, UsersOK, Blocked, Idle, Callers
<1>5. JobsOK
  <2>1. <<>> \in Seq(made)
    OBVIOUS
  <2> QED
    BY <2>1 DEF Init, JobsOK
<1> QED
  BY <1>1, <1>2, <1>3, <1>4, <1>5 DEF Typed

\* Nothing changes when nothing happens.
LEMMA StutterTyped ==
    ASSUME Typed, UNCHANGED vars
    PROVE  Typed'
<1> USE DEF vars, threads, queue, jobs, handler, calls, socket, server, Typed
<1>1. Queues'
  BY DEF Queues
<1>2. ThreadsOK' /\ JobsOK'
  BY DEF ThreadsOK, JobsOK
<1>3. CallsOK'
  BY DEF CallsOK
<1>4. UsersOK'
  BY DEF UsersOK, Blocked, Held
<1> QED
  BY <1>1, <1>2, <1>3, <1>4

\* Every step keeps the types.
LEMMA TypedStep ==
    ASSUME Typed, [Next]_vars
    PROVE  Typed'
BY StutterTyped, QueuesStep, ThreadsStep, CallsStep, UsersStep, JobsStep DEF Typed

\* Every queue, variable and thread of the client library is in a state it may be in; a
\* thread waits only for a context that it holds, and what is queued, served or running
\* was called.
THEOREM ClientTypes == Spec => []TypeOK
<1>1. Typed => TypeOK
  <2> SUFFICES ASSUME Typed
               PROVE  TypeOK
    OBVIOUS
  <2>1. made \subseteq Contexts
    BY DEF Typed, CallsOK
  <2>2. MessageOf(made) \subseteq Message /\ CommandOf(made) \subseteq Command
    BY DEF MessageOf, CommandOf
  <2>3. \A X, Y : X \subseteq Y => \A s \in Seq(X) : s \in Seq(Y)
    OBVIOUS
  <2>4. /\ commands \in Seq(Command) /\ handed \in Seq(Command)
        /\ send_queue \in Seq(Message) /\ written \in Seq(Message)
        /\ from_server \in Seq(Message)
    BY <2>2, <2>3 DEF Typed, Queues
  <2>5. \A t \in Callers : \/ op[t].op \in {"idle", "panicked", "call", "NewRpc"}
                           \/ Blocked(t) /\ Held(t, op[t].context)
    <3> TAKE t \in Callers
    <3>1. op[t] \in Doing
      BY DEF Typed, UsersOK
    <3>2. \/ op[t].op \in {"idle", "panicked", "call", "NewRpc"}
          \/ op[t].op \in {"recv", "wait", "new_rpc"}
      BY <3>1 DEF Doing
    <3> QED
      BY <3>2 DEF Typed, UsersOK, Blocked
  <2> QED
    BY <2>4, <2>5 DEF Typed, ThreadsOK, CallsOK, UsersOK, JobsOK, TypeOK
<1> QED
  BY <1>1, InitTyped, TypedStep, PTL DEF Spec

-----------------------------------------------------------------------------
(* The panics.                                                                *)

\* Why the threads end: the rpc loop because it was told to quit or cannot write, the
\* write thread because it cannot write or after the rpc loop.  Who holds the Client
\* does not drop it while it makes a call.

\* The reasons in parts: of the threads, and of those who use the client.
ThreadReasons ==
    /\ writer = "panicked" \/ client = "panicked" => lost
    /\ writer = "ended" => loop = "ended"
    /\ loop = "ended" => lost \/ client # "open"
    /\ \A i \in DOMAIN commands : commands[i] = Quit => client # "open"
UserReasons ==
    /\ op["owner"].op \in {"new_rpc", "NewRpc"} => client = "open"
    /\ op["owner"] = Panicked => lost
    /\ \A t \in Callers : op[t] = Panicked => lost \/ client # "open"

\* One more command that is not Quit.
LEMMA NoNewQuit ==
    ASSUME Queues, CallsOK, ThreadReasons, UNCHANGED client,
           NEW cmd \in Command, cmd # Quit, commands' = Append(commands, cmd)
    PROVE  \A i \in DOMAIN commands' : commands'[i] = Quit => client' # "open"
<1>1. commands \in Seq(Command)
  <2>1. CommandOf(made) \subseteq Command
    BY DEF CommandOf
  <2>2. \A X, Y : X \subseteq Y => \A s \in Seq(X) : s \in Seq(Y)
    OBVIOUS
  <2> QED
    BY <2>1, <2>2 DEF Queues
<1>2. \A i \in DOMAIN commands' : \/ i \in DOMAIN commands /\ commands'[i] = commands[i]
                                  \/ commands'[i] = cmd
  BY <1>1
<1> QED
  BY <1>2 DEF ThreadReasons

\* Threads end, and panic, only for their reasons.
LEMMA ThreadReasonsStep ==
    ASSUME Typed, ThreadReasons, Next
    PROVE  ThreadReasons'
<1> USE DEF threads, queue, jobs, handler, calls, socket, server
<1>0. /\ Queues /\ CallsOK /\ ThreadsOK /\ made \subseteq Contexts
      /\ commands \in Seq(CommandOf(made))
  BY DEF Typed, CallsOK, Queues
<1>1. ASSUME UNCHANGED <<threads, lost>>,
             \/ UNCHANGED commands
             \/ \E cmd \in Command \ {Quit} : commands' = Append(commands, cmd)
      PROVE  ThreadReasons'
  <2>1. \A i \in DOMAIN commands' : commands'[i] = Quit => client' # "open"
    BY <1>0, <1>1, NoNewQuit DEF ThreadReasons
  <2> QED
    BY <1>1, <2>1 DEF ThreadReasons
<1>2. ASSUME NEW t \in Callers, NEW c \in Contexts, NEW state, ContextNew(t, c, state)
      PROVE  ThreadReasons'
  <2>1. OutgoingCall(c) \in Command \ {Quit}
    BY Commands0
  <2> QED
    BY <1>1, <1>2, <2>1 DEF ContextNew, Deliver
<1>3. CASE UserStep
  <2>1. CASE (\E t \in Users, c \in Contexts : Call(t, c)) \/ (\E c \in Contexts : new_rpc(c))
    BY <2>1, <1>2 DEF Call, new_rpc, Callers, Users
  <2>2. CASE \E t \in Callers, c \in Contexts :
                try_recv(t, c) \/ DropContext(t, c)
                  \/ \E how \in {"recv", "wait"} : Block(t, c, how)
    BY <2>2, <1>1 DEF try_recv, DropContext, Block
  <2>3. ASSUME NEW t \in Callers, NEW c \in Contexts, cancel(t, c)
        PROVE  ThreadReasons'
    <3>1. CancelOutgoingRpc(c) \in Command \ {Quit}
      BY Commands0
    <3> QED
      BY <1>1, <2>3, <3>1 DEF cancel, Deliver
  <2>4. CASE Drop
    BY <2>4 DEF Drop, ThreadReasons, Deliver
  <2> QED
    BY <1>3, <2>1, <2>2, <2>3, <2>4 DEF UserStep
<1>4. CASE Waiting
  BY <1>1, <1>4 DEF Waiting, recv, recv_returns
<1>5. CASE new_rpc_ends
  <2>1. NewRpc \in Command \ {Quit}
    BY Commands0
  <2> QED
    BY <1>1, <1>5, <2>1 DEF new_rpc_ends, Deliver
<1>6. CASE JobStep
  <2>1. ASSUME NEW j \in Contexts, update(j) \/ finish(j)
        PROVE  ThreadReasons'
    <3>1. Updates(j) + 1 \in Kinds \/ finish(j)
      BY <1>0, <2>1, NextPartial DEF update
    <3>2. \A k \in Kinds : Send(Response(j, k)) \in Command \ {Quit}
      BY Messages0, Commands0
    <3>3. Last \in Kinds
      BY NextPartial
    <3> QED
      BY <1>1, <2>1, <3>1, <3>2, <3>3 DEF update, finish, Deliver
  <2>2. ASSUME NEW j \in Contexts, check_liveness(j)
        PROVE  ThreadReasons'
    BY <1>1, <2>2 DEF check_liveness
  <2>3. ASSUME NEW c \in Contexts, NestedCall(c)
        PROVE  ThreadReasons'
    BY <1>2, <2>3 DEF NestedCall, Callers
  <2> QED
    BY <1>6, <2>1, <2>2, <2>3 DEF JobStep
<1>7. ASSUME commands # <<>>, commands' = Tail(commands), UNCHANGED <<threads, lost>>
      PROVE  ThreadReasons'
  <2>1. \A i \in DOMAIN commands' : i + 1 \in DOMAIN commands /\ commands'[i] = commands[i + 1]
    BY <1>0, <1>7
  <2> QED
    BY <1>7, <2>1 DEF ThreadReasons
<1>8. ASSUME LoopEnds, UNCHANGED <<client, writer, lost>>, lost \/ client # "open"
      PROVE  ThreadReasons'
  <2>1. DOMAIN commands' = {}
    BY <1>8 DEF LoopEnds
  <2> QED
    BY <1>8, <2>1 DEF ThreadReasons, LoopEnds
<1>9. CASE LoopStep
  <2>1. CASE HandleQuit
    <3>1. commands # <<>> /\ Head(commands).command = "Quit"
      BY <2>1 DEF HandleQuit, Handling
    <3>2. Head(commands) \in Command /\ 1 \in DOMAIN commands /\ Head(commands) = commands[1]
      BY <1>0, <3>1, Made
    <3>3. commands[1] = Quit
      BY <3>1, <3>2, Commands1
    <3>4. client # "open"
      BY <3>2, <3>3 DEF ThreadReasons
    <3> QED
      BY <1>8, <2>1, <3>4 DEF HandleQuit
  <2>2. CASE HandleNewRpc
    BY <1>7, <2>2 DEF HandleNewRpc, Handling
  <2>3. CASE HandleReceived
    BY <1>7, <2>3 DEF HandleReceived, Handling
  <2>4. CASE HandleOutgoing
    <3>1. CASE writer = "running"
      BY <1>7, <2>4, <3>1 DEF HandleOutgoing
    <3>2. CASE writer # "running"
      <4>1. writer = "panicked"
        BY <1>0, <2>4, <3>2 DEF HandleOutgoing, ThreadsOK, ThreadReasons
      <4> QED
        BY <1>8, <2>4, <3>2, <4>1 DEF HandleOutgoing, ThreadReasons
    <3> QED
      BY <3>1, <3>2
  <2> QED
    BY <1>9, <2>1, <2>2, <2>3, <2>4 DEF LoopStep
<1>10. CASE ReadStep
  <2>1. CASE read_message
    <3>1. Head(from_server) \in MessageOf(made)
      BY <1>0, <2>1 DEF read_message, Queues
    <3>2. Head(from_server) \in Message
      BY <1>0, <3>1, Made
    <3>3. Received(Head(from_server)) \in Command \ {Quit}
      BY <3>2, Commands0
    <3>4. /\ UNCHANGED <<client, loop, writer, lost>>
          /\ UNCHANGED commands \/ commands' = Append(commands, Received(Head(from_server)))
      BY <2>1 DEF read_message
    <3>5. \A i \in DOMAIN commands' : commands'[i] = Quit => client' # "open"
      BY <1>0, <3>3, <3>4, NoNewQuit DEF ThreadReasons
    <3> QED
      BY <3>4, <3>5 DEF ThreadReasons
  <2>2. CASE read_fails
    BY <2>2 DEF read_fails, ThreadReasons
  <2> QED
    BY <1>10, <2>1, <2>2 DEF ReadStep
<1>11. CASE WriteStep
  <2>1. CASE write_message
    BY <1>1, <2>1 DEF write_message
  <2>2. CASE write_fails \/ write_thread_ends
    BY <2>2 DEF write_fails, write_thread_ends, ThreadReasons
  <2> QED
    BY <1>11, <2>1, <2>2 DEF WriteStep
<1>12. CASE Join
  BY <1>12 DEF Join, ThreadReasons
<1>13. CASE ServerStep \/ \E c \in Contexts : ForeignCall(c) \/ ForeignCancel(c)
  BY <1>1, <1>13 DEF ServerStep, ServerAnswers, ForeignCall, ForeignCancel
<1>14. CASE ConnectionLost
  BY <1>14 DEF ConnectionLost, ThreadReasons
<1> QED
  BY <1>3, <1>4, <1>5, <1>6, <1>9, <1>10, <1>11, <1>12, <1>13, <1>14 DEF Next

\* Once the connection is lost or the client is dropped, that stays so.
LEMMA ReasonsStay ==
    ASSUME Next, Typed
    PROVE  (lost => lost') /\ (client # "open" => client' # "open")
<1> USE DEF threads, queue, jobs, handler, calls, socket, server
<1>0. \A t, c, state : ContextNew(t, c, state) => UNCHANGED <<client, lost>>
  BY DEF ContextNew
<1>1. CASE UserStep
  <2>1. CASE (\E t \in Users, c \in Contexts : Call(t, c)) \/ \E c \in Contexts : new_rpc(c)
    BY <1>0, <2>1 DEF Call, new_rpc
  <2>2. CASE \E t \in Callers, c \in Contexts :
                try_recv(t, c) \/ cancel(t, c) \/ DropContext(t, c)
                  \/ \E how \in {"recv", "wait"} : Block(t, c, how)
    BY <2>2 DEF try_recv, cancel, DropContext, Block
  <2>3. CASE Drop
    BY <2>3 DEF Drop
  <2> QED
    BY <1>1, <2>1, <2>2, <2>3 DEF UserStep
<1>2. CASE Waiting \/ new_rpc_ends
  BY <1>2 DEF Waiting, recv, recv_returns, new_rpc_ends
<1>3. CASE JobStep
  <2>1. CASE \E j \in Contexts : update(j) \/ check_liveness(j)
    BY <2>1 DEF update, check_liveness
  <2>2. CASE \E j \in Contexts : finish(j)
    BY <2>2 DEF finish
  <2>3. CASE \E c \in Contexts : NestedCall(c)
    BY <1>0, <2>3 DEF NestedCall
  <2> QED
    BY <1>3, <2>1, <2>2, <2>3 DEF JobStep
<1>4. CASE LoopStep
  <2>1. CASE HandleQuit \/ HandleNewRpc
    BY <2>1 DEF HandleQuit, HandleNewRpc
  <2>2. CASE HandleReceived
    BY <2>2 DEF HandleReceived
  <2>3. CASE HandleOutgoing
    BY <2>3 DEF HandleOutgoing
  <2> QED
    BY <1>4, <2>1, <2>2, <2>3 DEF LoopStep
<1>7. CASE ReadStep \/ WriteStep
  <2>1. CASE read_message \/ read_fails
    BY <2>1 DEF read_message, read_fails
  <2>2. CASE write_message
    BY <2>2 DEF write_message
  <2>3. CASE write_fails \/ write_thread_ends
    BY <2>3 DEF write_fails, write_thread_ends
  <2> QED
    BY <1>7, <2>1, <2>2, <2>3 DEF ReadStep, WriteStep
<1>5. CASE Join
  BY <1>5 DEF Join
<1>6. CASE ServerStep \/ ConnectionLost \/ \E c \in Contexts : ForeignCall(c) \/ ForeignCancel(c)
  BY <1>6 DEF ServerStep, ServerAnswers, ConnectionLost, ForeignCall, ForeignCancel
<1> QED
  BY <1>1, <1>2, <1>3, <1>4, <1>5, <1>6, <1>7 DEF Next

\* Those who use the client panic only for a reason.
LEMMA UserReasonsStep ==
    ASSUME Typed, ThreadReasons, UserReasons, Next
    PROVE  UserReasons'
<1> USE DEF threads, queue, jobs, handler, calls, socket, server
<1>0. (lost => lost') /\ (client # "open" => client' # "open")
      /\ op \in [Callers -> Doing] /\ "owner" \in Callers
  BY ReasonsStay DEF Typed, UsersOK, Callers, Users
<1>1. ASSUME UNCHANGED op, UNCHANGED client \/ op["owner"] = Idle
      PROVE  UserReasons'
  BY <1>0, <1>1 DEF UserReasons, Idle
<1>2. ASSUME NEW t \in Callers, NEW state, Becomes(t, state), UNCHANGED client,
             state.op \in {"new_rpc", "NewRpc"} /\ t = "owner" => client = "open",
             state = Panicked => (lost \/ client # "open") /\ (t = "owner" => lost)
      PROVE  UserReasons'
  <2>1. op'[t] = state /\ \A u \in Callers \ {t} : op'[u] = op[u]
    BY <1>0, <1>2 DEF Becomes
  <2>2. op'["owner"].op \in {"new_rpc", "NewRpc"} => client' = "open"
    BY <1>0, <1>2, <2>1 DEF UserReasons
  <2>3. op'["owner"] = Panicked => lost'
    BY <1>0, <1>2, <2>1 DEF UserReasons
  <2>4. \A u \in Callers : op'[u] = Panicked => lost' \/ client' # "open"
    BY <1>0, <1>2, <2>1 DEF UserReasons
  <2> QED
    BY <2>2, <2>3, <2>4 DEF UserReasons
<1>3. ASSUME NEW t \in Callers, NEW c \in Contexts, NEW state, ContextNew(t, c, state),
             state # Panicked, t = "owner" => client = "open",
             state.op \in {"new_rpc", "NewRpc"} => t = "owner"
      PROVE  UserReasons'
  <2>1. CASE Becomes(t, state)
    BY <1>2, <1>3, <2>1 DEF ContextNew
  <2>2. CASE loop = "ended" /\ Becomes(t, Panicked)
    <3>1. lost \/ client # "open"
      BY <2>2 DEF ThreadReasons
    <3> QED
      BY <1>2, <1>3, <2>2, <3>1, DoingOK DEF ContextNew
  <2> QED
    BY <1>3, <2>1, <2>2 DEF ContextNew
<1>4. Idle # Panicked
  BY DoingOK
<1>5. CASE UserStep
  <2>1. ASSUME NEW t \in Users, NEW c \in Contexts, Call(t, c)
        PROVE  UserReasons'
    BY <2>1, <1>3, <1>4, DoingOK DEF Call, Callers, Users
  <2>2. ASSUME NEW c \in Contexts, new_rpc(c)
        PROVE  UserReasons'
    <3>1. [op |-> "new_rpc", context |-> c] # Panicked
      BY DoingOK
    <3> QED
      BY <2>2, <1>0, <1>3, <3>1, DoingOK DEF new_rpc
  <2>3. CASE \E t \in Callers, c \in Contexts : try_recv(t, c) \/ cancel(t, c) \/ DropContext(t, c)
    BY <2>3, <1>1 DEF try_recv, cancel, DropContext
  <2>4. ASSUME NEW t \in Callers, NEW c \in Contexts, NEW how \in {"recv", "wait"},
               Block(t, c, how)
        PROVE  UserReasons'
    <3>1. [op |-> how, context |-> c].op = how /\ [op |-> how, context |-> c] # Panicked
      BY DoingOK
    <3> QED
      BY <2>4, <1>2, <3>1 DEF Block
  <2>5. CASE Drop
    BY <2>5, <1>1 DEF Drop
  <2> QED
    BY <1>5, <2>1, <2>2, <2>3, <2>4, <2>5 DEF UserStep
<1>6. CASE Waiting
  <2>1. PICK t \in Callers : recv(t) \/ recv_returns(t)
    BY <1>6 DEF Waiting
  <2>2. UNCHANGED client /\ op[t].op \in {"recv", "wait", "new_rpc"}
    BY <2>1 DEF recv, recv_returns
  <2>3. \/ Becomes(t, Idle) \/ Becomes(t, op[t])
        \/ op[t].op = "new_rpc" /\ Becomes(t, [op |-> "NewRpc"])
    BY <2>1 DEF recv, recv_returns
  <2>4. op[t] # Panicked /\ [op |-> "NewRpc"] # Panicked
    BY <2>2, DoingOK
  <2> QED
    BY <1>2, <1>4, <2>2, <2>3, <2>4, DoingOK DEF UserReasons
<1>7. CASE new_rpc_ends
  <2>1. client = "open" /\ UNCHANGED client
    BY <1>7 DEF new_rpc_ends, UserReasons
  <2>2. loop = "ended" => lost
    BY <2>1 DEF ThreadReasons
  <2> QED
    BY <1>0, <1>2, <1>4, <1>7, <2>1, <2>2, DoingOK DEF new_rpc_ends
<1>8. CASE JobStep
  <2>1. ASSUME NEW j \in Contexts, update(j) \/ finish(j)
        PROVE  UserReasons'
    BY <1>1, <2>1 DEF update, finish
  <2>2. ASSUME NEW j \in Contexts, check_liveness(j)
        PROVE  UserReasons'
    <3>1. [op |-> "call"] # Panicked
      BY DoingOK
    <3> QED
      BY <1>2, <2>2, <3>1, DoingOK DEF check_liveness, Callers
  <2>3. ASSUME NEW c \in Contexts, NestedCall(c)
        PROVE  UserReasons'
    BY <1>3, <1>4, <2>3, DoingOK DEF NestedCall, Callers
  <2> QED
    BY <1>8, <2>1, <2>2, <2>3 DEF JobStep
<1>9. CASE LoopStep
  BY <1>1, <1>9 DEF LoopStep, HandleQuit, HandleNewRpc, HandleReceived, HandleOutgoing
<1>10. CASE ReadStep \/ WriteStep
  BY <1>1, <1>10 DEF ReadStep, WriteStep, read_message, read_fails, write_message, write_fails,
    write_thread_ends
<1>11. CASE Join
  <2>1. UNCHANGED op /\ client # "open"
    BY <1>11 DEF Join
  <2> QED
    BY <1>0, <2>1 DEF UserReasons
<1>12. CASE ServerStep \/ ConnectionLost \/ \E c \in Contexts : ForeignCall(c) \/ ForeignCancel(c)
  BY <1>1, <1>12 DEF ServerStep, ServerAnswers, ConnectionLost, ForeignCall, ForeignCancel
<1> QED
  BY <1>5, <1>6, <1>7, <1>8, <1>9, <1>10, <1>11, <1>12 DEF Next

\* At first nobody has panicked, and the reasons stay when nothing happens.
LEMMA ReasonsBase ==
    /\ Init => ThreadReasons /\ UserReasons
    /\ ThreadReasons /\ UserReasons /\ UNCHANGED vars => ThreadReasons' /\ UserReasons'
<1> USE DEF vars, threads, queue, jobs, handler, calls, socket, server
<1>1. Init => ThreadReasons
  BY DEF Init, ThreadReasons
<1>2. Init => UserReasons
  <2>1. "owner" \in Callers
    BY DEF Callers, Users
  <2> QED
    BY <2>1, DoingOK DEF Init, UserReasons
<1>3. ThreadReasons /\ UserReasons /\ UNCHANGED vars => ThreadReasons' /\ UserReasons'
  BY DEF ThreadReasons, UserReasons
<1> QED
  BY <1>1, <1>2, <1>3

\* The library panics only for a reason: the thread that owns the Client and the write
\* thread after the connection was lost, other threads then or once Drop has begun.
THEOREM LibraryPanicsForAReason == Spec => []PanicsForAReason
<1>1. (Typed /\ ThreadReasons /\ UserReasons) /\ [Next]_vars
        => (Typed /\ ThreadReasons /\ UserReasons)'
  BY TypedStep, ThreadReasonsStep, UserReasonsStep, ReasonsBase
<1>2. Typed /\ ThreadReasons /\ UserReasons => PanicsForAReason
  BY DEF ThreadReasons, UserReasons, PanicsForAReason
<1> QED
  BY <1>1, <1>2, InitTyped, ReasonsBase, PTL DEF Spec
-----------------------------------------------------------------------------
(* What Drop flushes.                                                         *)

Before == Command \ {Quit}

\* s has no Quit, or one after a.
QuitsAfter(s, a) == s = a \/ \E b \in Seq(Before) : s = a \o <<Quit>> \o b

\* Of what was handed to the rpc loop, the part h before Quit is in the socket, in the
\* queue of the write thread, or in the part a of the commands before Quit.
Passed(a, h) ==
    /\ a \in Seq(Before) /\ h \in Seq(OutgoingCommand)
    /\ QuitsAfter(commands, a) /\ QuitsAfter(handed, h)
    /\ loop = "running" => (commands = a <=> handed = h)
    /\ client = "open" /\ loop = "running" => commands = a
    /\ loop = "ended" => a = <<>>
    /\ writer # "panicked" => Messages(h) = written \o send_queue \o Messages(Only(a, OutgoingCommand))

Flushes == \E a \in Seq(Before), h \in Seq(OutgoingCommand) : Passed(a, h)

\* Sequences: how they are put together and taken apart.
LEMMA Joins ==
    ASSUME NEW X, NEW s \in Seq(X), NEW t \in Seq(X), NEW q \in X
    PROVE  /\ s \o t \in Seq(X) /\ Append(s, q) = s \o <<q>>
           /\ s \o <<>> = s /\ <<>> \o s = s
           /\ Len(s \o t) = Len(s) + Len(t)
           /\ s # <<>> => /\ Head(s) \in X /\ Tail(s) \in Seq(X) /\ s = <<Head(s)>> \o Tail(s)
                          /\ Head(s \o t) = Head(s) /\ Tail(s \o t) = Tail(s) \o t
                          /\ Tail(s) \o t # s \o t /\ s \o t # <<>>
           /\ \A x \in X : Append(s \o t, x) = s \o Append(t, x)
           /\ s \o <<q>> \in Seq(X) /\ s \o <<q>> # s /\ <<q>> # <<>>
           /\ Head(<<q>> \o t) = q /\ Tail(<<q>> \o t) = t
<1>1. s \o t \in Seq(X) /\ Append(s, q) = s \o <<q>> /\ Len(s \o t) = Len(s) + Len(t)
  OBVIOUS
<1>2. s \o <<>> = s /\ <<>> \o s = s
  OBVIOUS
<1>3. s # <<>> => /\ Head(s) \in X /\ Tail(s) \in Seq(X) /\ s = <<Head(s)>> \o Tail(s)
                  /\ Head(s \o t) = Head(s)
  OBVIOUS
<1>4. ASSUME s # <<>>
      PROVE  Tail(s \o t) = Tail(s) \o t /\ Tail(s) \o t # s \o t /\ s \o t # <<>>
  <2>1. Tail(s) \in Seq(X) /\ Len(Tail(s)) = Len(s) - 1 /\ Len(s) > 0
    BY <1>4
  <2>2. /\ Tail(s \o t) \in Seq(X) /\ Tail(s) \o t \in Seq(X)
        /\ Len(Tail(s \o t)) = Len(s) + Len(t) - 1 /\ Len(Tail(s) \o t) = Len(s) + Len(t) - 1
    BY <1>1, <2>1
  <2>3. \A i \in 1 .. Len(s) + Len(t) - 1 : Tail(s \o t)[i] = (Tail(s) \o t)[i]
    BY <1>1, <2>1
  <2>4. Tail(s \o t) = Tail(s) \o t
    BY <2>2, <2>3
  <2> QED
    BY <1>1, <2>1, <2>2, <2>4
<1>5. \A x \in X : Append(s \o t, x) = s \o Append(t, x)
  OBVIOUS
<1>6. s \o <<q>> \in Seq(X) /\ Len(s \o <<q>>) = Len(s) + 1 /\ <<q>> # <<>>
  OBVIOUS
<1>7. s \o <<q>> # s
  BY <1>6
<1>8. Head(<<q>> \o t) = q /\ Tail(<<q>> \o t) = t
  OBVIOUS
<1> QED
  BY <1>1, <1>2, <1>3, <1>4, <1>5, <1>6, <1>7, <1>8

\* How long they are, and where they grow.
LEMMA Lengths ==
    ASSUME NEW X, NEW s \in Seq(X), NEW t \in Seq(X)
    PROVE  /\ s \o t \in Seq(X) /\ Len(s \o t) = Len(s) + Len(t)
           /\ Len(s) \in Nat /\ Len(t) \in Nat
OBVIOUS

\* A part before Quit: what it is when the sequence grows ...
LEMMA QuitsAfterGrows ==
    ASSUME NEW a \in Seq(Before), NEW s, QuitsAfter(s, a)
    PROVE  /\ s \in Seq(Command)
           /\ \A x \in Before : s # a => QuitsAfter(Append(s, x), a) /\ Append(s, x) # a
           /\ s = a => QuitsAfter(Append(s, Quit), a) /\ Append(s, Quit) # a
<1>1. Before \subseteq Command /\ Quit \in Command
  BY Commands0 DEF Before
<1>2. \A u : u \in Seq(Before) => u \in Seq(Command)
  <2>1. \A X, Y : X \subseteq Y => \A u \in Seq(X) : u \in Seq(Y)
    OBVIOUS
  <2> QED
    BY <1>1, <2>1
<1> DEFINE q == <<Quit>>
<1>3. q \in Seq(Command)
  BY <1>1
<1>4. Append(a, Quit) = a \o q /\ a \o q # a /\ a \o q \in Seq(Command) /\ a \in Seq(Command)
      /\ <<>> \in Seq(Before) /\ (a \o q) \o <<>> = a \o q /\ Len(a \o q) = Len(a) + 1
  <2>1. a \in Seq(Command)
    BY <1>2
  <2> QED
    BY <2>1, <1>1
<1>5. CASE s = a
  <2>1. QuitsAfter(a \o q, a)
    BY <1>4 DEF QuitsAfter
  <2> QED
    BY <1>4, <1>5, <2>1
<1>6. CASE s # a
  <2>1. PICK b \in Seq(Before) : s = a \o <<Quit>> \o b
    BY <1>6 DEF QuitsAfter
  <2> DEFINE aq == a \o q
  <2>5. aq \in Seq(Command) /\ b \in Seq(Command) /\ s = aq \o b
    BY <1>2, <1>4, <2>1
  <2>6. Len(aq) = Len(a) + 1 /\ Len(a) \in Nat /\ Len(b) \in Nat
    BY <1>4
  <2> HIDE DEF q, aq
  <2>7. s \in Seq(Command) /\ Len(s) = Len(aq) + Len(b)
    BY <2>5, Lengths
  <2>3. s \in Seq(Command) /\ Len(s) = Len(a) + 1 + Len(b)
    BY <2>6, <2>7
  <2>4. ASSUME NEW x \in Before
        PROVE  QuitsAfter(Append(s, x), a) /\ Append(s, x) # a
    <3>1. x \in Command
      BY <1>1
    <3>2. Append(s, x) = aq \o Append(b, x)
      <4>1. aq \in Seq(Command) /\ b \in Seq(Command)
        BY <2>5
      <4>2. Append(aq \o b, x) = aq \o Append(b, x)
        BY <3>1, <4>1
      <4> QED
        BY <2>5, <4>2
    <3>6. Append(b, x) \in Seq(Before)
      OBVIOUS
    <3>3. Append(s, x) = a \o <<Quit>> \o Append(b, x)
      BY <3>2 DEF q, aq
    <3>4. QuitsAfter(Append(s, x), a)
      BY <3>3, <3>6 DEF QuitsAfter
    <3>5. Len(Append(s, x)) = Len(a) + 2 + Len(b)
      <4>1. Len(Append(s, x)) = Len(s) + 1
        BY <2>3, <3>1
      <4> QED
        BY <2>3, <2>6, <4>1
    <3> QED
      BY <2>6, <3>4, <3>5
  <2> QED
    BY <1>6, <2>3, <2>4
<1> QED
  BY <1>5, <1>6

\* ... and when its first element is taken.
LEMMA QuitsAfterShrinks ==
    ASSUME NEW a \in Seq(Before), NEW s, QuitsAfter(s, a), s # <<>>
    PROVE  /\ Head(s) = Quit => a = <<>> /\ s # a
           /\ Head(s) # Quit => /\ a # <<>> /\ Head(a) = Head(s)
                                /\ QuitsAfter(Tail(s), Tail(a))
                                /\ Tail(s) = Tail(a) <=> s = a
<1>1. Before \subseteq Command /\ Quit \in Command /\ Quit \notin Before
  BY Commands0 DEF Before
<1>2. \A u : u \in Seq(Before) => u \in Seq(Command)
  <2>1. \A X, Y : X \subseteq Y => \A u \in Seq(X) : u \in Seq(Y)
    OBVIOUS
  <2> QED
    BY <1>1, <2>1
<1>3. CASE s = a
  <2>1. Head(s) \in Before
    BY <1>3
  <2>2. QuitsAfter(Tail(s), Tail(a))
    BY <1>3 DEF QuitsAfter
  <2> QED
    BY <1>1, <1>3, <2>1, <2>2
<1>4. CASE s # a
  <2>1. PICK b \in Seq(Before) : s = a \o <<Quit>> \o b
    BY <1>4 DEF QuitsAfter
  <2> DEFINE q == <<Quit>>
             t == q \o b
  <2>2. q \in Seq(Command) /\ b \in Seq(Command) /\ t \in Seq(Command) /\ a \in Seq(Command)
        /\ Len(t) = Len(b) + 1 /\ Head(t) = Quit
    BY <1>1, <1>2
  <2>3. s = a \o t
    BY <2>1, <2>2
  <2>4. Quit \in Command
    BY <1>1
  <2> HIDE DEF t
  <2>5. CASE a = <<>>
    BY <1>4, <2>2, <2>3, <2>5
  <2>6. CASE a # <<>>
    <3>1. Head(s) = Head(a) /\ Tail(s) = Tail(a) \o t /\ Head(a) \in Before
          /\ Tail(a) \in Seq(Before) /\ Tail(a) \in Seq(Command)
      BY <2>2, <2>3, <2>6, <2>4, Joins
    <3> DEFINE r == Tail(a)
    <3>5. r \in Seq(Command)
      BY <3>1
    <3> HIDE DEF r
    <3>6. r \o t = r \o q \o b /\ Len(r \o t) = Len(r) + Len(t) /\ Len(r) \in Nat
          /\ Len(b) \in Nat
      <4> HIDE DEF q
      <4>3. r \in Seq(Command) /\ q \in Seq(Command) /\ b \in Seq(Command)
        BY <3>5, <2>2
      <4>1. r \o (q \o b) = (r \o q) \o b
        BY <4>3
      <4>2. Len(r \o t) = Len(r) + Len(t) /\ Len(r) \in Nat /\ Len(b) \in Nat
        BY <3>5, <2>2, Lengths
      <4> QED
        BY <4>1, <4>2 DEF t
    <3>2. Tail(s) = Tail(a) \o <<Quit>> \o b
      BY <3>1, <3>6 DEF r
    <3>3. QuitsAfter(Tail(s), Tail(a))
      BY <3>2 DEF QuitsAfter
    <3>4. Tail(s) # Tail(a)
      <4>1. r \o t # r
        BY <2>2, <3>6
      <4> QED
        BY <3>1, <4>1 DEF r
    <3> QED
      BY <1>1, <1>4, <2>6, <3>1, <3>3, <3>4
  <2> QED
    BY <2>5, <2>6
<1> QED
  BY <1>3, <1>4

\* It is what BeforeQuit finds.
LEMMA BeforeQuitIs ==
    ASSUME NEW a \in Seq(Before), NEW s, QuitsAfter(s, a)
    PROVE  BeforeQuit(s) = a
<1>1. \A i \in DOMAIN a : a[i] # Quit
  BY DEF Before
<1>2. CASE s = a
  <2>1. Quit \notin Range(s)
    BY <1>1, <1>2 DEF Range
  <2> QED
    BY <1>2, <2>1 DEF BeforeQuit
<1>3. CASE s # a
  <2>1. PICK b \in Seq(Before) : s = a \o <<Quit>> \o b
    BY <1>3 DEF QuitsAfter
  <2>2. \A i \in DOMAIN b : b[i] # Quit
    BY DEF Before
  <2> DEFINE n == Len(a)
             m == Len(b)
  <2>3. /\ n \in Nat /\ m \in Nat /\ DOMAIN s = 1 .. n + 1 + m /\ s[n + 1] = Quit
        /\ DOMAIN a = 1 .. n /\ DOMAIN b = 1 .. m
        /\ \A i \in 1 .. n : s[i] = a[i]
        /\ \A i \in 1 .. m : s[n + 1 + i] = b[i]
    BY <2>1
  <2> HIDE DEF n, m
  <2>4. \A i \in DOMAIN s : s[i] = Quit <=> i = n + 1
    <3> SUFFICES ASSUME NEW i \in DOMAIN s, i # n + 1
                 PROVE  s[i] # Quit
      BY <2>3
    <3>1. CASE i <= n
      BY <1>1, <2>3, <3>1
    <3>3. i \in Nat /\ i <= n + 1 + m
      BY <2>3
    <3>2. CASE i > n + 1
      <4> DEFINE j == i - (n + 1)
      <4>1. j \in 1 .. m /\ n + 1 + j = i
        BY <2>3, <3>2, <3>3
      <4> HIDE DEF j
      <4> QED
        BY <2>2, <2>3, <4>1
    <3> QED
      BY <2>3, <3>1, <3>2, <3>3
  <2>5. (CHOOSE i \in DOMAIN s : s[i] = Quit) = n + 1
    BY <2>3, <2>4
  <2>6. Quit \in Range(s)
    <3>1. n + 1 \in DOMAIN s
      BY <2>3
    <3> QED
      BY <2>3, <3>1 DEF Range
  <2>7. BeforeQuit(s) = SubSeq(s, 1, n)
    <3>1. (n + 1) - 1 = n
      BY <2>3
    <3> QED
      BY <2>5, <2>6, <3>1 DEF BeforeQuit
  <2>8. s \in Seq(Command) /\ Len(s) = n + 1 + m
    <3>1. s \in Seq(Command)
      BY QuitsAfterGrows
    <3> QED
      BY <3>1, <2>3
  <2>9. SubSeq(s, 1, n) = a
    <3>1. SubSeq(s, 1, n) \in Seq(Command) /\ Len(SubSeq(s, 1, n)) = n
          /\ \A i \in 1 .. n : SubSeq(s, 1, n)[i] = s[i]
      BY <2>3, <2>8
    <3>2. a \in Seq(Before) /\ Len(a) = n
      BY DEF n
    <3> QED
      BY <2>3, <3>1, <3>2
  <2> QED
    BY <2>7, <2>9
<1> QED
  BY <1>2, <1>3

\* A sequence mapped by a function, element by element.
Mapped(s, f) == [i \in DOMAIN s |-> f[s[i]]]

\* Mapped goes through a sequence element by element.
Elementwise(X, Y, f) ==
    /\ Mapped(<<>>, f) = <<>>
    /\ \A s \in Seq(X) : Mapped(s, f) \in Seq(Y)
    /\ \A s, t \in Seq(X) : Mapped(s \o t, f) = Mapped(s, f) \o Mapped(t, f)
    /\ \A x \in X : Mapped(<<x>>, f) = <<f[x]>>

\* It does with every function.
LEMMA MappedJoin ==
    ASSUME NEW X, NEW Y, NEW f \in [X -> Y]
    PROVE  Elementwise(X, Y, f)
<1>1. \A x \in X : f[x] \in Y
  OBVIOUS
<1>2. \A u \in Seq(X) :
         /\ Mapped(u, f) \in Seq(Y) /\ Len(Mapped(u, f)) = Len(u) /\ Len(u) \in Nat
         /\ \A i \in 1 .. Len(u) : Mapped(u, f)[i] = f[u[i]]
  <2> TAKE u \in Seq(X)
  <2> DEFINE n == Len(u)
             v == [i \in 1 .. n |-> f[u[i]]]
  <2>1. n \in Nat /\ DOMAIN u = 1 .. n /\ \A i \in 1 .. n : u[i] \in X
    OBVIOUS
  <2>2. Mapped(u, f) = v
    BY <2>1 DEF Mapped
  <2>3. \A i \in 1 .. n : f[u[i]] \in Y
    BY <1>1, <2>1
  <2> HIDE DEF n
  <2>4. v \in Seq(Y) /\ Len(v) = n
    BY <2>1, <2>3
  <2> QED
    BY <2>1, <2>2, <2>4 DEF n
<1>3. Mapped(<<>>, f) = <<>>
  BY DEF Mapped
<1>4. \A x \in X : Mapped(<<x>>, f) = <<f[x]>>
  <2> TAKE x \in X
  <2>1. <<x>> \in Seq(X) /\ Len(<<x>>) = 1 /\ <<x>>[1] = x
    OBVIOUS
  <2> DEFINE one == <<x>>
             y == Mapped(one, f)
             z == f[x]
  <2>3. one \in Seq(X) /\ Len(one) = 1 /\ one[1] = x /\ 1 \in 1 .. 1
    BY <2>1
  <2> HIDE DEF one
  <2>2. y \in Seq(Y) /\ Len(y) = 1 /\ y[1] = z
    BY <1>2, <2>3
  <2> HIDE DEF y, z
  <2>4. y = <<z>>
    BY <2>2
  <2> QED
    BY <2>4 DEF y, z, one
<1>5. \A s, t \in Seq(X) : Mapped(s \o t, f) = Mapped(s, f) \o Mapped(t, f)
  <2> TAKE s, t \in Seq(X)
  <2> DEFINE st == s \o t
             u == Mapped(s, f)
             v == Mapped(t, f)
             w == Mapped(st, f)
  <2>1. st \in Seq(X) /\ Len(st) = Len(s) + Len(t)
        /\ (\A i \in 1 .. Len(s) : st[i] = s[i])
        /\ (\A i \in 1 .. Len(t) : st[Len(s) + i] = t[i])
    OBVIOUS
  <2> HIDE DEF st
  <2>2. /\ u \in Seq(Y) /\ v \in Seq(Y) /\ w \in Seq(Y)
        /\ Len(u) = Len(s) /\ Len(v) = Len(t) /\ Len(w) = Len(st)
        /\ \A i \in 1 .. Len(s) : u[i] = f[s[i]]
        /\ \A i \in 1 .. Len(t) : v[i] = f[t[i]]
        /\ \A i \in 1 .. Len(st) : w[i] = f[st[i]]
    BY <1>2, <2>1
  <2>3. Len(s) \in Nat /\ Len(t) \in Nat
    OBVIOUS
  <2> HIDE DEF u, v, w
  <2>4. \A i \in 1 .. Len(s) + Len(t) : w[i] = (u \o v)[i]
    <3> TAKE i \in 1 .. Len(s) + Len(t)
    <3>3. i \in Nat /\ 1 <= i /\ i <= Len(s) + Len(t)
      BY <2>3
    <3>1. CASE i <= Len(s)
      <4>1. (u \o v)[i] = u[i]
        BY <2>2, <2>3, <3>1, <3>3
      <4>2. i \in 1 .. Len(s) /\ i \in 1 .. Len(st)
        BY <2>1, <2>3, <3>1, <3>3
      <4> QED
        BY <2>1, <2>2, <4>1, <4>2
    <3>2. CASE i > Len(s)
      <4>1. PICK j \in 1 .. Len(t) : i = Len(s) + j
        <5>1. i - Len(s) \in 1 .. Len(t) /\ i = Len(s) + (i - Len(s))
          BY <2>3, <3>2, <3>3
        <5> QED
          BY <5>1
      <4>2. (u \o v)[i] = v[j]
        BY <2>2, <2>3, <4>1
      <4> QED
        <5>1. i \in 1 .. Len(st)
          BY <2>1
        <5>2. w[i] = f[st[i]]
          BY <2>2, <5>1
        <5>3. st[i] = t[j]
          BY <2>1, <4>1
        <5>4. v[j] = f[t[j]]
          BY <2>2
        <5> QED
          BY <4>2, <5>2, <5>3, <5>4
    <3>4. i <= Len(s) \/ i > Len(s)
      BY <2>3, <3>3
    <3> QED
      BY <3>1, <3>2, <3>4, Zenon
  <2>5. u \o v \in Seq(Y) /\ Len(u \o v) = Len(s) + Len(t)
    <3>1. u \in Seq(Y) /\ v \in Seq(Y)
      BY <2>2
    <3>2. u \o v \in Seq(Y) /\ Len(u \o v) = Len(u) + Len(v)
      BY <3>1, Lengths
    <3> QED
      BY <2>2, <3>2
  <2>6. w = u \o v
    BY <2>1, <2>2, <2>4, <2>5
  <2> QED
    BY <2>6 DEF st, u, v, w
<1> QED
  BY <1>2, <1>3, <1>4, <1>5 DEF Elementwise

\* The messages of commands to send.
LEMMA MessagesJoin ==
    ASSUME NEW s \in Seq(OutgoingCommand), NEW t \in Seq(OutgoingCommand)
    PROVE  /\ Messages(s) \in Seq(Message)
           /\ Messages(<<>>) = <<>>
           /\ Messages(s \o t) = Messages(s) \o Messages(t)
           /\ \A x \in OutgoingCommand : Messages(<<x>>) = <<x.message>>
<1> DEFINE X == OutgoingCommand
           f == [x \in X |-> x.message]
<1>1. f \in [X -> Message] /\ \A x \in X : f[x] = x.message
  BY Commands1 DEF OutgoingCommand
<1>2. \A u \in Seq(X) : Messages(u) = Mapped(u, f)
  <2> TAKE u \in Seq(X)
  <2>1. \A i \in DOMAIN u : u[i] \in X
    OBVIOUS
  <2> QED
    BY <1>1, <2>1 DEF Messages, Mapped
<1>3. s \o t \in Seq(X) /\ <<>> \in Seq(X) /\ \A x \in X : <<x>> \in Seq(X)
  OBVIOUS
<1> HIDE DEF X, f
<1>4. s \in Seq(X) /\ t \in Seq(X) /\ f \in [X -> Message]
  BY <1>1 DEF X
<1>9. Elementwise(X, Message, f)
  BY <1>4, MappedJoin
<1>5. Mapped(s, f) \in Seq(Message)
  BY <1>4, <1>9 DEF Elementwise
<1>6. Mapped(<<>>, f) = <<>>
  BY <1>9 DEF Elementwise
<1>7. \A u, v \in Seq(X) : Mapped(u \o v, f) = Mapped(u, f) \o Mapped(v, f)
  BY <1>9 DEF Elementwise
<1>8. \A x \in X : Mapped(<<x>>, f) = <<f[x]>>
  BY <1>9 DEF Elementwise
<1> QED
  BY <1>1, <1>2, <1>3, <1>4, <1>5, <1>6, <1>7, <1>8 DEF X

\* What is to be sent of commands, when they get more and less.
ToSend(a) == Messages(Only(a, OutgoingCommand))

\* What is to be sent of commands that are put together.
LEMMA ToSendStep ==
    ASSUME NEW a \in Seq(Before)
    PROVE  /\ ToSend(a) \in Seq(Message) /\ ToSend(<<>>) = <<>>
           /\ \A x \in Before :
                 /\ Outgoing(x) => /\ x \in OutgoingCommand /\ x.message \in Message
                                   /\ ToSend(Append(a, x)) = ToSend(a) \o <<x.message>>
                 /\ ~Outgoing(x) => ToSend(Append(a, x)) = ToSend(a)
           /\ a # <<>> =>
                 /\ Outgoing(Head(a)) =>
                       /\ Head(a).message \in Message
                       /\ ToSend(a) = <<Head(a).message>> \o ToSend(Tail(a))
                 /\ ~Outgoing(Head(a)) => ToSend(a) = ToSend(Tail(a))
<1>1. \A u \in Seq(Before) : Only(u, OutgoingCommand) \in Seq(OutgoingCommand)
  <2>1. Before \cap OutgoingCommand \subseteq OutgoingCommand
    OBVIOUS
  <2>2. \A X, Y : X \subseteq Y => \A u \in Seq(X) : u \in Seq(Y)
    OBVIOUS
  <2>3. \A u \in Seq(Before) : Only(u, OutgoingCommand) \in Seq(Before \cap OutgoingCommand)
    BY OnlyType
  <2> QED
    BY <2>1, <2>2, <2>3
<1>2. \A x \in Before : /\ Outgoing(x) <=> x \in OutgoingCommand
                        /\ Outgoing(x) => x.message \in Message
  BY Commands1 DEF Before, OutgoingCommand
<1>3. ToSend(a) \in Seq(Message)
  BY <1>1, MessagesJoin DEF ToSend
<1>4. ToSend(<<>>) = <<>>
  <2>1. Messages(<<>>) = <<>>
    BY <1>1, MessagesJoin
  <2> QED
    BY <2>1, OnlySingle DEF ToSend
<1>5. ASSUME NEW x \in Before
      PROVE  /\ Outgoing(x) => ToSend(Append(a, x)) = ToSend(a) \o <<x.message>>
             /\ ~Outgoing(x) => ToSend(Append(a, x)) = ToSend(a)
  <2> DEFINE o == Only(a, OutgoingCommand)
             one == <<x>>
  <2>1. Only(Append(a, x), OutgoingCommand)
          = IF x \in OutgoingCommand THEN Append(o, x) ELSE o
    BY OnlyAppend
  <2>2. o \in Seq(OutgoingCommand)
    BY <1>1
  <2> HIDE DEF o
  <2>3. CASE Outgoing(x)
    <3>1. x \in OutgoingCommand /\ x.message \in Message
      BY <1>2, <2>3
    <3>2. one \in Seq(OutgoingCommand) /\ Append(o, x) = o \o one
      BY <2>2, <3>1
    <3>3. Messages(one) = <<x.message>>
      BY <3>1, <2>2, MessagesJoin
    <3> HIDE DEF one
    <3>4. Messages(o \o one) = Messages(o) \o Messages(one)
      BY <2>2, <3>2, MessagesJoin
    <3> QED
      BY <2>1, <2>3, <3>1, <3>2, <3>3, <3>4 DEF ToSend, o
  <2>4. CASE ~Outgoing(x)
    BY <1>2, <2>1, <2>4 DEF ToSend, o
  <2> QED
    BY <2>3, <2>4
<1>6. ASSUME a # <<>>
      PROVE  /\ Outgoing(Head(a)) => /\ Head(a).message \in Message
                                     /\ ToSend(a) = <<Head(a).message>> \o ToSend(Tail(a))
             /\ ~Outgoing(Head(a)) => ToSend(a) = ToSend(Tail(a))
  <2> DEFINE x == Head(a)
             r == Only(Tail(a), OutgoingCommand)
             one == <<x>>
  <2>1. x \in Before /\ Tail(a) \in Seq(Before)
    BY <1>6
  <2>2. /\ x \in OutgoingCommand => Only(a, OutgoingCommand) = one \o r
        /\ x \notin OutgoingCommand => Only(a, OutgoingCommand) = r
    BY <1>6, OnlyTail
  <2>3. r \in Seq(OutgoingCommand)
    BY <1>1, <2>1
  <2> HIDE DEF r, x
  <2>4. CASE Outgoing(x)
    <3>1. x \in OutgoingCommand /\ x.message \in Message
      BY <1>2, <2>1, <2>4
    <3>2. one \in Seq(OutgoingCommand)
      BY <3>1
    <3>3. Messages(one) = <<x.message>>
      BY <3>1, <2>3, MessagesJoin
    <3> HIDE DEF one
    <3>4. Messages(one \o r) = Messages(one) \o Messages(r)
      BY <2>3, <3>2, MessagesJoin
    <3> QED
      BY <2>2, <2>4, <3>1, <3>3, <3>4 DEF ToSend, r, x
  <2>5. CASE ~Outgoing(x)
    BY <1>2, <2>1, <2>2, <2>5 DEF ToSend, r, x
  <2> QED
    BY <2>4, <2>5 DEF x
<1> QED
  BY <1>2, <1>3, <1>4, <1>5, <1>6

\* Three sequences put together, and what moves from one to the next.
InLine(w, q, t, m) ==
    /\ (w \o q \o t) \o <<m>> = w \o q \o (t \o <<m>>)
    /\ w \o q \o (<<m>> \o t) = w \o (q \o <<m>>) \o t
    /\ q # <<>> => w \o q \o t = Append(w, Head(q)) \o Tail(q) \o t
    /\ w \o q \o <<>> = w \o q

\* They are, whichever they are.
LEMMA InOneLine ==
    ASSUME NEW X, NEW w \in Seq(X), NEW q \in Seq(X), NEW t \in Seq(X),
           NEW m \in X
    PROVE  InLine(w, q, t, m)
<1>1. w \o q \in Seq(X) /\ <<m>> \in Seq(X)
  OBVIOUS
<1> DEFINE one == <<m>>
           wq == w \o q
<1>6. wq \in Seq(X) /\ one \in Seq(X)
  BY <1>1
<1>2. (w \o q \o t) \o <<m>> = w \o q \o (t \o <<m>>)
  <2> HIDE DEF one, wq
  <2>1. wq \o (t \o one) = (wq \o t) \o one
    BY <1>6
  <2> QED
    BY <2>1 DEF wq, one
<1>3. w \o q \o (<<m>> \o t) = w \o (q \o <<m>>) \o t
  <2> HIDE DEF one
  <2>1. wq \o one = w \o (q \o one)
    BY <1>6
  <2> HIDE DEF wq
  <2>2. wq \o (one \o t) = (wq \o one) \o t
    BY <1>6
  <2> QED
    BY <2>1, <2>2 DEF one, wq
<1>4. ASSUME q # <<>>
      PROVE  w \o q \o t = Append(w, Head(q)) \o Tail(q) \o t
  <2> DEFINE first == <<Head(q)>>
             r == Tail(q)
  <2>1. first \in Seq(X) /\ r \in Seq(X) /\ q = first \o r
        /\ Append(w, Head(q)) = w \o first
    BY <1>4
  <2> HIDE DEF first, r
  <2>2. w \o (first \o r) = (w \o first) \o r
    BY <2>1
  <2> QED
    BY <2>1, <2>2 DEF r
<1>5. w \o q \o <<>> = w \o q
  BY <1>1
<1> QED
  BY <1>2, <1>3, <1>4, <1>5 DEF InLine

\* The queues hold messages and commands.
LEMMA QueueTypes ==
    ASSUME Queues
    PROVE  /\ commands \in Seq(Command) /\ handed \in Seq(Command)
           /\ send_queue \in Seq(Message) /\ written \in Seq(Message)
           /\ from_server \in Seq(Message)
<1>1. CommandOf(made) \subseteq Command /\ MessageOf(made) \subseteq Message
  BY DEF CommandOf, MessageOf
<1>2. \A X, Y : X \subseteq Y => \A s \in Seq(X) : s \in Seq(Y)
  OBVIOUS
<1> QED
  BY <1>1, <1>2 DEF Queues

\* Nothing that counts happens.
LEMMA FlushesStay ==
    ASSUME Flushes, UNCHANGED <<loop, commands, handed, written, send_queue>>,
           client' = "open" => client = "open", writer' # "panicked" => writer # "panicked"
    PROVE  Flushes'
<1>1. PICK a \in Seq(Before), h \in Seq(OutgoingCommand) : Passed(a, h)
  BY DEF Flushes
<1>2. Passed(a, h)'
  BY <1>1 DEF Passed
<1> QED
  BY <1>2 DEF Flushes

\* One more command, but for Quit.
LEMMA FlushesOneMore ==
    ASSUME Queues, Flushes, NEW x \in Before, loop = "running",
           UNCHANGED <<client, loop, writer, written, send_queue>>,
           commands' = Append(commands, x),
           handed' = IF Outgoing(x) THEN Append(handed, x) ELSE handed
    PROVE  Flushes'
<1>1. PICK a \in Seq(Before), h \in Seq(OutgoingCommand) : Passed(a, h)
  BY DEF Flushes
<1>2. h \in Seq(Before)
  <2>1. OutgoingCommand \subseteq Before
    BY Commands0 DEF Before, OutgoingCommand
  <2>2. \A X, Y : X \subseteq Y => \A s \in Seq(X) : s \in Seq(Y)
    OBVIOUS
  <2> QED
    BY <2>1, <2>2
<1>3. CASE commands = a
  <2> DEFINE a1 == Append(a, x)
             h1 == IF Outgoing(x) THEN Append(h, x) ELSE h
  <2>1. handed = h /\ commands' = a1 /\ handed' = h1
    BY <1>1, <1>3 DEF Passed
  <2>2. Outgoing(x) => x \in OutgoingCommand /\ x.message \in Message
    BY ToSendStep
  <2>3. a1 \in Seq(Before)
    OBVIOUS
  <2>4. h1 \in Seq(OutgoingCommand)
    BY <2>2
  <2>5. ASSUME writer' # "panicked"
        PROVE  Messages(h1) = written' \o send_queue' \o ToSend(a1)
    <3>1. Messages(h) = written \o send_queue \o ToSend(a)
      BY <1>1, <2>5 DEF Passed, ToSend
    <3>2. CASE Outgoing(x)
      <4> DEFINE one == <<x>>
                 m == x.message
      <4>1. h1 = h \o one /\ one \in Seq(OutgoingCommand)
        BY <2>2, <3>2
      <4>3. Messages(one) = <<m>>
        BY <2>2, <3>2, MessagesJoin
      <4>2. m \in Message /\ ToSend(a) \in Seq(Message) /\ ToSend(a1) = ToSend(a) \o <<m>>
        BY <2>2, <3>2, ToSendStep
      <4> HIDE DEF one, h1, m, a1
      <4>4. Messages(h \o one) = Messages(h) \o Messages(one)
        BY <4>1, MessagesJoin
      <4>6. written \in Seq(Message) /\ send_queue \in Seq(Message)
        BY QueueTypes
      <4>7. (written \o send_queue \o ToSend(a)) \o <<m>>
              = written \o send_queue \o (ToSend(a) \o <<m>>)
        <5> DEFINE t == ToSend(a)
        <5>1. t \in Seq(Message) /\ m \in Message
          BY <4>2
        <5> HIDE DEF t
        <5>2. InLine(written, send_queue, t, m)
          BY <4>6, <5>1, InOneLine
        <5> QED
          BY <5>2 DEF InLine, t
      <4> QED
        BY <3>1, <4>1, <4>2, <4>3, <4>4, <4>7
    <3>3. CASE ~Outgoing(x)
      <4>1. ToSend(a1) = ToSend(a)
        BY <3>3, ToSendStep
      <4> HIDE DEF a1
      <4> QED
        BY <3>1, <3>3, <4>1
    <3> QED
      BY <3>2, <3>3
  <2> HIDE DEF a1, h1
  <2>6. Passed(a1, h1)'
    BY <1>1, <2>1, <2>3, <2>4, <2>5 DEF Passed, QuitsAfter, ToSend
  <2> QED
    BY <2>3, <2>4, <2>6 DEF Flushes
<1>4. CASE commands # a
  <2>1. handed # h /\ QuitsAfter(commands, a) /\ QuitsAfter(handed, h) /\ client # "open"
    BY <1>1, <1>4 DEF Passed
  <2>2. QuitsAfter(commands', a) /\ commands' # a
    BY <1>4, <2>1, QuitsAfterGrows
  <2>3. QuitsAfter(handed', h) /\ handed' # h
    BY <1>2, <2>1, QuitsAfterGrows
  <2>4. QuitsAfter(commands, a)' /\ QuitsAfter(handed, h)'
    BY <2>2, <2>3 DEF QuitsAfter
  <2>5. Passed(a, h)'
    BY <1>1, <2>1, <2>2, <2>3, <2>4 DEF Passed
  <2> QED
    BY <2>5 DEF Flushes
<1> QED
  BY <1>3, <1>4

\* A command is handled, which may be one to send.
LEMMA FlushesOneLess ==
    ASSUME Queues, Flushes, loop = "running", commands # <<>>, Head(commands) # Quit,
           UNCHANGED <<client, loop, writer, written, handed>>, commands' = Tail(commands),
           send_queue' = IF Outgoing(Head(commands))
                         THEN Append(send_queue, Head(commands).message) ELSE send_queue
    PROVE  Flushes'
<1>1. PICK a \in Seq(Before), h \in Seq(OutgoingCommand) : Passed(a, h)
  BY DEF Flushes
<1>2. /\ a # <<>> /\ Head(a) = Head(commands) /\ QuitsAfter(commands', Tail(a))
      /\ commands' = Tail(a) <=> commands = a
  BY <1>1, QuitsAfterShrinks DEF Passed
<1> DEFINE r == Tail(a)
           x == Head(a)
<1>3. r \in Seq(Before) /\ x \in Before
  BY <1>2
<1>4. QuitsAfter(commands, r)' /\ QuitsAfter(handed, h)'
  BY <1>1, <1>2 DEF QuitsAfter, Passed
<1>5. ASSUME writer' # "panicked"
      PROVE  Messages(h) = written' \o send_queue' \o ToSend(r)
  <2>1. Messages(h) = written \o send_queue \o ToSend(a)
    BY <1>1, <1>5 DEF Passed, ToSend
  <2>2. CASE Outgoing(x)
    <3> DEFINE m == x.message
    <3>1. m \in Message /\ ToSend(a) = <<m>> \o ToSend(r)
      BY <1>2, <2>2, ToSendStep
    <3>2. ToSend(r) \in Seq(Message)
      BY <1>3, ToSendStep
    <3>3. written \in Seq(Message) /\ send_queue \in Seq(Message)
      BY QueueTypes
    <3>6. send_queue' = Append(send_queue, m) /\ written' = written
      BY <1>2, <2>2
    <3> DEFINE t == ToSend(r)
    <3> HIDE DEF r, m, x, t
    <3>7. t \in Seq(Message) /\ m \in Message
      BY <3>1, <3>2 DEF t
    <3>4. send_queue' = send_queue \o <<m>>
      BY <3>3, <3>6, <3>7
    <3>5. written \o send_queue \o (<<m>> \o t) = written \o (send_queue \o <<m>>) \o t
      <4>1. InLine(written, send_queue, t, m)
        BY <3>3, <3>7, InOneLine
      <4> QED
        BY <4>1 DEF InLine
    <3> QED
      BY <2>1, <3>1, <3>4, <3>5, <3>6 DEF t
  <2>3. CASE ~Outgoing(x)
    <3>1. ToSend(a) = ToSend(r)
      BY <1>2, <2>3, ToSendStep
    <3> HIDE DEF r
    <3> QED
      BY <1>2, <2>1, <2>3, <3>1
  <2> QED
    BY <2>2, <2>3
<1> HIDE DEF r
<1>6. Passed(r, h)'
  BY <1>1, <1>2, <1>3, <1>4, <1>5 DEF Passed, ToSend, r
<1> QED
  BY <1>3, <1>6 DEF Flushes

\* The loop ends when there is nothing before Quit, or no write thread.
LEMMA FlushesEnd ==
    ASSUME Queues, Flushes, loop = "running", commands # <<>>,
           Head(commands) = Quit \/ writer = "panicked",
           UNCHANGED <<client, writer, written, send_queue, handed>>,
           commands' = <<>>, loop' = "ended"
    PROVE  Flushes'
<1>1. PICK a \in Seq(Before), h \in Seq(OutgoingCommand) : Passed(a, h)
  BY DEF Flushes
<1>2. writer # "panicked" => a = <<>>
  BY <1>1, QuitsAfterShrinks DEF Passed
<1> DEFINE none == <<>>
<1>3. none \in Seq(Before)
  OBVIOUS
<1>4. QuitsAfter(commands, none)' /\ QuitsAfter(handed, h)'
  BY <1>1 DEF QuitsAfter, Passed
<1>5. Passed(none, h)'
  BY <1>1, <1>2, <1>3, <1>4 DEF Passed
<1> QED
  BY <1>3, <1>5 DEF Flushes

\* A message is written.
LEMMA FlushesWrite ==
    ASSUME Queues, Flushes, send_queue # <<>>,
           UNCHANGED <<client, loop, writer, commands, handed>>,
           send_queue' = Tail(send_queue), written' = Append(written, Head(send_queue))
    PROVE  Flushes'
<1>1. PICK a \in Seq(Before), h \in Seq(OutgoingCommand) : Passed(a, h)
  BY DEF Flushes
<1>2. written \o send_queue \o ToSend(a) = written' \o send_queue' \o ToSend(a)
  <2>1. written \in Seq(Message) /\ send_queue \in Seq(Message) /\ ToSend(a) \in Seq(Message)
    BY QueueTypes, ToSendStep
  <2>2. Head(send_queue) \in Message
    BY <2>1
  <2>3. written \o send_queue \o ToSend(a)
          = Append(written, Head(send_queue)) \o Tail(send_queue) \o ToSend(a)
    <3> DEFINE t == ToSend(a)
               m == Head(send_queue)
    <3>1. t \in Seq(Message) /\ m \in Message
      BY <2>1, <2>2
    <3> HIDE DEF t, m
    <3>2. InLine(written, send_queue, t, m)
      BY <2>1, <3>1, InOneLine
    <3> QED
      BY <3>2 DEF InLine, t
  <2> QED
    BY <2>3
<1>3. QuitsAfter(commands, a)' /\ QuitsAfter(handed, h)'
  BY <1>1 DEF QuitsAfter, Passed
<1>4. Passed(a, h)'
  BY <1>1, <1>2, <1>3 DEF Passed, ToSend
<1> QED
  BY <1>4 DEF Flushes

\* Drop sends Quit.
LEMMA FlushesQuit ==
    ASSUME Queues, Flushes, client = "open", client' # "open", loop = "running",
           UNCHANGED <<loop, writer, written, send_queue>>,
           commands' = Append(commands, Quit), handed' = Append(handed, Quit)
    PROVE  Flushes'
<1>1. PICK a \in Seq(Before), h \in Seq(OutgoingCommand) : Passed(a, h)
  BY DEF Flushes
<1>2. h \in Seq(Before)
  <2>1. OutgoingCommand \subseteq Before
    BY Commands0 DEF Before, OutgoingCommand
  <2>2. \A X, Y : X \subseteq Y => \A s \in Seq(X) : s \in Seq(Y)
    OBVIOUS
  <2> QED
    BY <2>1, <2>2
<1>3. commands = a /\ handed = h
  BY <1>1 DEF Passed
<1>4. QuitsAfter(a, a) /\ QuitsAfter(h, h)
  BY DEF QuitsAfter
<1>5. QuitsAfter(Append(a, Quit), a) /\ Append(a, Quit) # a
  BY <1>4, QuitsAfterGrows
<1>6. QuitsAfter(Append(h, Quit), h) /\ Append(h, Quit) # h
  BY <1>2, <1>4, QuitsAfterGrows
<1>7. QuitsAfter(commands, a)' /\ QuitsAfter(handed, h)'
  BY <1>3, <1>5, <1>6 DEF QuitsAfter
<1>8. Passed(a, h)'
  BY <1>1, <1>3, <1>5, <1>6, <1>7 DEF Passed
<1> QED
  BY <1>8 DEF Flushes

\* What is to be flushed is kept by every step.
LEMMA FlushesStep ==
    ASSUME Typed, ThreadReasons, Flushes, Next
    PROVE  Flushes'
<1> USE DEF threads, queue, jobs, handler, calls, socket, server
<1>0. Queues
  BY DEF Typed
<1>1. ASSUME UNCHANGED <<client, loop, writer, queue, written, send_queue>>
      PROVE  Flushes'
  BY <1>1, FlushesStay
<1>2. ASSUME NEW x \in Command, x # Quit, x.command # "Received", Outgoing(x) \/ x = NewRpc,
             Deliver(x), UNCHANGED <<client, loop, writer, written, send_queue>>
      PROVE  Flushes'
  <2>1. x \in Before
    BY <1>2 DEF Before
  <2>2. handed' = IF Outgoing(x) THEN Append(handed, x) ELSE handed
    BY <1>2 DEF Deliver
  <2> QED
    BY <1>0, <1>2, <2>1, <2>2, FlushesOneMore DEF Deliver
<1>3. ASSUME NEW t, NEW c \in Contexts, NEW state, ContextNew(t, c, state)
      PROVE  Flushes'
  <2>1. /\ OutgoingCall(c) \in Command /\ OutgoingCall(c) # Quit /\ Outgoing(OutgoingCall(c))
        /\ OutgoingCall(c).command # "Received"
    BY Commands0
  <2>2. UNCHANGED <<client, loop, writer, written, send_queue>>
    BY <1>3 DEF ContextNew
  <2>3. Deliver(OutgoingCall(c)) \/ UNCHANGED queue
    BY <1>3 DEF ContextNew
  <2> QED
    BY <1>1, <1>2, <2>1, <2>2, <2>3
<1>4. CASE UserStep
  <2>1. CASE (\E t \in Users, c \in Contexts : Call(t, c)) \/ (\E c \in Contexts : new_rpc(c))
    BY <2>1, <1>3 DEF Call, new_rpc
  <2>2. CASE \E t \in Callers, c \in Contexts :
                try_recv(t, c) \/ DropContext(t, c)
                  \/ \E how \in {"recv", "wait"} : Block(t, c, how)
    BY <2>2, <1>1 DEF try_recv, DropContext, Block
  <2>3. ASSUME NEW t \in Callers, NEW c \in Contexts, cancel(t, c)
        PROVE  Flushes'
    <3>1. /\ CancelOutgoingRpc(c) \in Command /\ CancelOutgoingRpc(c) # Quit
          /\ Outgoing(CancelOutgoingRpc(c)) /\ CancelOutgoingRpc(c).command # "Received"
      BY Commands0
    <3>2. UNCHANGED <<client, loop, writer, written, send_queue>>
      BY <2>3 DEF cancel
    <3>3. Deliver(CancelOutgoingRpc(c)) \/ UNCHANGED queue
      BY <2>3 DEF cancel
    <3> QED
      BY <1>1, <1>2, <3>1, <3>2, <3>3
  <2>4. CASE Drop
    <3>1. client = "open" /\ client' # "open" /\ UNCHANGED <<loop, writer, written, send_queue>>
      BY <2>4 DEF Drop
    <3>2. CASE Deliver(Quit)
      BY <1>0, <3>1, <3>2, FlushesQuit DEF Deliver
    <3>3. CASE UNCHANGED <<commands, handed>>
      BY <3>1, <3>3, FlushesStay
    <3> QED
      BY <2>4, <3>2, <3>3 DEF Drop
  <2> QED
    BY <1>4, <2>1, <2>2, <2>3, <2>4 DEF UserStep
<1>5. CASE Waiting
  BY <1>1, <1>5 DEF Waiting, recv, recv_returns
<1>6. CASE new_rpc_ends
  <2>1. NewRpc \in Command /\ NewRpc # Quit /\ NewRpc.command # "Received"
    BY Commands0
  <2>2. UNCHANGED <<client, loop, writer, written, send_queue>>
    BY <1>6 DEF new_rpc_ends
  <2>3. Deliver(NewRpc) \/ UNCHANGED queue
    BY <1>6 DEF new_rpc_ends
  <2> QED
    BY <1>1, <1>2, <2>1, <2>2, <2>3
<1>7. CASE JobStep
  <2>1. ASSUME NEW j \in Contexts, update(j) \/ finish(j)
        PROVE  Flushes'
    <3>1. \A k \in Kinds : /\ Send(Response(j, k)) \in Command /\ Send(Response(j, k)) # Quit
                           /\ Outgoing(Send(Response(j, k)))
                           /\ Send(Response(j, k)).command # "Received"
      BY Messages0, Commands0
    <3>2. UNCHANGED <<client, loop, writer, written, send_queue>>
      BY <2>1 DEF update, finish
    <3>3. \/ \E k \in Kinds : Deliver(Send(Response(j, k)))
          \/ UNCHANGED queue
      <4>1. CASE update(j)
        <5>1. Updates(j) \in Nat /\ Updates(j) < MaxPartial
          BY <1>0, <4>1, NextPartial DEF update
        <5>2. Updates(j) + 1 \in Kinds
          BY <5>1, NextPartial
        <5> QED
          BY <4>1, <5>2 DEF update
      <4>2. CASE finish(j)
        <5>1. Last \in Kinds
          BY NextPartial
        <5> QED
          BY <4>2, <5>1 DEF finish
      <4> QED
        BY <2>1, <4>1, <4>2
    <3> QED
      BY <1>1, <1>2, <3>1, <3>2, <3>3
  <2>2. ASSUME NEW j \in Contexts, check_liveness(j)
        PROVE  Flushes'
    BY <1>1, <2>2 DEF check_liveness
  <2>3. ASSUME NEW c \in Contexts, NestedCall(c)
        PROVE  Flushes'
    BY <1>3, <2>3 DEF NestedCall
  <2> QED
    BY <1>7, <2>1, <2>2, <2>3 DEF JobStep
<1>8. CASE LoopStep
  <2>0. /\ loop = "running" /\ commands # <<>>
        /\ Head(commands) \in Command
    <3>1. loop = "running" /\ commands # <<>>
      BY <1>8 DEF LoopStep, HandleQuit, HandleNewRpc, HandleReceived, HandleOutgoing, Handling
    <3>2. commands \in Seq(Command)
      BY <1>0, QueueTypes
    <3> QED
      BY <3>1, <3>2
  <2>1. CASE HandleQuit
    <3>1. Head(commands) = Quit
      BY <2>0, <2>1, Commands1 DEF HandleQuit, Handling
    <3> QED
      BY <1>0, <2>0, <2>1, <3>1, FlushesEnd DEF HandleQuit, LoopEnds
  <2>2. ASSUME Head(commands).command \in {"NewRpc", "Received"}, commands' = Tail(commands),
               UNCHANGED <<client, loop, writer, written, handed, send_queue>>
        PROVE  Flushes'
    <3>1. Head(commands) # Quit /\ ~Outgoing(Head(commands))
      BY <2>2, <2>0, Commands0, Commands1
    <3> QED
      BY <1>0, <2>0, <2>2, <3>1, FlushesOneLess
  <2>3. CASE HandleNewRpc
    BY <2>2, <2>3 DEF HandleNewRpc, Handling
  <2>4. CASE HandleReceived
    BY <2>2, <2>4 DEF HandleReceived, Handling
  <2>5. CASE HandleOutgoing
    <3>1. Outgoing(Head(commands)) /\ Head(commands) # Quit
      BY <2>5, Commands0 DEF HandleOutgoing
    <3>2. CASE writer = "running"
      BY <1>0, <2>0, <2>5, <3>1, <3>2, FlushesOneLess DEF HandleOutgoing
    <3>3. CASE writer # "running"
      <4>1. writer = "panicked"
        BY <2>0, <3>3 DEF Typed, ThreadsOK, ThreadReasons
      <4> QED
        BY <1>0, <2>0, <2>5, <3>3, <4>1, FlushesEnd DEF HandleOutgoing, LoopEnds
    <3> QED
      BY <3>2, <3>3
  <2> QED
    BY <1>8, <2>1, <2>3, <2>4, <2>5 DEF LoopStep
<1>9. CASE ReadStep
  <2>1. CASE read_message
    <3> DEFINE x == Received(Head(from_server))
    <3>1. Head(from_server) \in Message
      <4>1. from_server \in Seq(Message)
        BY <1>0, QueueTypes
      <4> QED
        BY <2>1, <4>1 DEF read_message
    <3>2. x \in Before /\ ~Outgoing(x)
      BY <3>1, Commands0 DEF Before
    <3>3. UNCHANGED <<client, loop, writer, written, send_queue, handed>>
      BY <2>1 DEF read_message
    <3>4. (loop = "running" /\ commands' = Append(commands, x)) \/ UNCHANGED commands
      BY <2>1 DEF read_message
    <3> HIDE DEF x
    <3> QED
      BY <1>0, <1>1, <3>2, <3>3, <3>4, FlushesOneMore
  <2>2. CASE read_fails
    BY <1>1, <2>2 DEF read_fails
  <2> QED
    BY <1>9, <2>1, <2>2 DEF ReadStep
<1>10. CASE WriteStep
  <2>1. CASE write_message
    BY <1>0, <2>1, FlushesWrite DEF write_message
  <2>2. CASE write_fails
    <3>1. PICK a \in Seq(Before), h \in Seq(OutgoingCommand) : Passed(a, h)
      BY DEF Flushes
    <3>2. UNCHANGED <<client, loop, commands, handed>> /\ writer' = "panicked"
      BY <2>2 DEF write_fails
    <3>3. Passed(a, h)'
      BY <3>1, <3>2 DEF Passed
    <3> QED
      BY <3>3 DEF Flushes
  <2>3. CASE write_thread_ends
    BY <2>3, FlushesStay DEF write_thread_ends
  <2> QED
    BY <1>10, <2>1, <2>2, <2>3 DEF WriteStep
<1>11. CASE Join
  BY <1>11, FlushesStay DEF Join
<1>12. CASE ServerStep \/ ConnectionLost \/ \E c \in Contexts : ForeignCall(c) \/ ForeignCancel(c)
  BY <1>1, <1>12 DEF ServerStep, ServerAnswers, ConnectionLost, ForeignCall, ForeignCancel
<1> QED
  BY <1>4, <1>5, <1>6, <1>7, <1>8, <1>9, <1>10, <1>11, <1>12 DEF Next

\* At first nothing was handed over, and nothing changes when nothing happens.
LEMMA FlushesBase ==
    /\ Init => Flushes
    /\ Flushes /\ UNCHANGED vars => Flushes'
<1>1. ASSUME Init
      PROVE  Flushes
  <2> DEFINE none == <<>>
  <2>1. none \in Seq(Before) /\ none \in Seq(OutgoingCommand)
    OBVIOUS
  <2>2. Messages(none) = none /\ ToSend(none) = none
    <3>1. none \in Seq(OutgoingCommand)
      OBVIOUS
    <3> QED
      BY <2>1, <3>1, MessagesJoin, ToSendStep
  <2>3. commands = none /\ handed = none /\ written = none /\ send_queue = none /\ loop = "running"
    BY <1>1 DEF Init
  <2>4. none \o none \o none = none
    OBVIOUS
  <2> HIDE DEF none
  <2>5. Passed(none, none)
    BY <2>1, <2>2, <2>3, <2>4 DEF Passed, QuitsAfter, ToSend
  <2> QED
    BY <2>1, <2>5 DEF Flushes
<1>2. ASSUME Flushes, UNCHANGED vars
      PROVE  Flushes'
  BY <1>2, FlushesStay DEF vars, threads, queue, socket
<1> QED
  BY <1>1, <1>2

\* Whatever was handed to the rpc loop before Quit is in the socket or on the way there,
\* once and in order: unless writing fails, Drop loses no response and no cancel.
THEOREM DropLosesNothing == Spec => []DropFlushes
<1>1. (Typed /\ ThreadReasons /\ UserReasons /\ Flushes) /\ [Next]_vars
        => (Typed /\ ThreadReasons /\ UserReasons /\ Flushes)'
  BY TypedStep, ThreadReasonsStep, UserReasonsStep, ReasonsBase, FlushesStep, FlushesBase
<1>2. ASSUME Flushes
      PROVE  DropFlushes
  <2>1. PICK a \in Seq(Before), h \in Seq(OutgoingCommand) : Passed(a, h)
    BY <1>2 DEF Flushes
  <2>2. h \in Seq(Before)
    <3>1. OutgoingCommand \subseteq Before
      BY Commands0 DEF Before, OutgoingCommand
    <3>2. \A X, Y : X \subseteq Y => \A s \in Seq(X) : s \in Seq(Y)
      OBVIOUS
    <3> QED
      BY <3>1, <3>2
  <2>3. BeforeQuit(commands) = a /\ BeforeQuit(handed) = h
    BY <2>1, <2>2, BeforeQuitIs DEF Passed
  <2> QED
    BY <2>1, <2>3 DEF Passed, DropFlushes
<1> QED
  BY <1>1, <1>2, InitTyped, ReasonsBase, FlushesBase, PTL DEF Spec
-----------------------------------------------------------------------------
(* The responses to a call.                                                   *)

\* The contexts of this client are of its calls, and an RPC sends responses only.
KnownHere == \A c \in open : Here(c)
Calling(cmd) ==
    Outgoing(cmd) => (cmd.message.type = "RpcCall" <=> cmd.command = "OutgoingCall")
KnownCommands == \A i \in DOMAIN commands : Calling(commands[i])

\* While the rpc loop runs, it knows every call of this client that was sent.
Asked(c) == \/ c \in running_rpcs \/ answers[c] # <<>>
            \/ \E i \in DOMAIN send_queue : send_queue[i] = RpcCall(c)
KnownCalls == loop = "running" =>
                 \A c \in made : Here(c) /\ Asked(c) => c \in running_function_calls

Known == KnownHere /\ KnownCommands /\ KnownCalls

\* What a context has got and is to get is what was sent to it, but for a rest that is lost.
Got(c) == received[c] \o values[c] \o InFlight(c)
OrderedAt(c) ==
    \E rest \in Seq(Kinds) : /\ answers[c] = Got(c) \o rest
                             /\ rest = <<>> \/ lost \/ loop = "ended"
Ordered == \A c \in open : OrderedAt(c)

\* The responses to a call among messages, and among commands.
Responses(c) == {Response(c, k) : k \in Kinds}
ToReceive(c) == {Received(m) : m \in Responses(c)}

Content == [cmd \in {x \in Command : x.command = "Received"} |-> cmd.message]
Kind == [m \in {x \in Message : x.type = "RpcResponse"} |-> m.kind]
AtSocket(ms, c) == Mapped(Only(ms, Responses(c)), Kind)
AtLoop(cs, c) == Mapped(Mapped(Only(cs, ToReceive(c)), Content), Kind)

\* What is among the responses to a call, and what is not.
LEMMA ResponseFacts ==
    /\ Content \in [{x \in Command : x.command = "Received"} -> Message]
    /\ Kind \in [{x \in Message : x.type = "RpcResponse"} -> Kinds]
    /\ \A c \in Contexts :
          /\ Responses(c) \subseteq {x \in Message : x.type = "RpcResponse"}
          /\ ToReceive(c) \subseteq {x \in Command : x.command = "Received"}
          /\ \A x \in ToReceive(c) : x.message \in Responses(c)
          /\ \A m : m \in Responses(c) =>
                       /\ m \in Message /\ m.type = "RpcResponse" /\ m.context = c
                       /\ m.kind \in Kinds /\ m = Response(c, m.kind)
          /\ \A m \in Message : m.type = "RpcResponse" /\ m.context = c => m \in Responses(c)
          /\ \A m \in Message : Received(m) \in ToReceive(c) <=> m \in Responses(c)
          /\ \A x \in ToReceive(c) : x.command = "Received"
<1>1. /\ Content \in [{x \in Command : x.command = "Received"} -> Message]
      /\ Kind \in [{x \in Message : x.type = "RpcResponse"} -> Kinds]
  BY Messages0, Commands1 DEF Content, Kind
<1>2. ASSUME NEW c \in Contexts
      PROVE  /\ Responses(c) \subseteq {x \in Message : x.type = "RpcResponse"}
             /\ \A m : m \in Responses(c) =>
                       /\ m \in Message /\ m.type = "RpcResponse" /\ m.context = c
                       /\ m.kind \in Kinds /\ m = Response(c, m.kind)
             /\ \A m \in Message : m.type = "RpcResponse" /\ m.context = c => m \in Responses(c)
  BY Messages0 DEF Responses
<1>3. ASSUME NEW c \in Contexts
      PROVE  /\ ToReceive(c) \subseteq {x \in Command : x.command = "Received"}
             /\ \A x \in ToReceive(c) : x.message \in Responses(c)
             /\ \A m \in Message : Received(m) \in ToReceive(c) <=> m \in Responses(c)
             /\ \A x \in ToReceive(c) : x.command = "Received"
  <2>1. \A m \in Responses(c) : /\ Received(m) \in Command /\ Received(m).command = "Received"
                                /\ Received(m).message = m
    BY <1>2, Commands0
  <2>2. \A m \in Message : Received(m).message = m
    BY Commands0
  <2> QED
    BY <2>1, <2>2 DEF ToReceive
<1> QED
  BY <1>1, <1>2, <1>3

\* The responses to c among messages, put together.
LEMMA AtSocketStep ==
    ASSUME NEW c \in Contexts
    PROVE  /\ AtSocket(<<>>, c) = <<>>
           /\ \A s \in Seq(Message) : /\ Only(s, Responses(c)) \in Seq(Responses(c))
                                      /\ AtSocket(s, c) \in Seq(Kinds)
           /\ \A s, t \in Seq(Message) : AtSocket(s \o t, c) = AtSocket(s, c) \o AtSocket(t, c)
           /\ \A k \in Kinds : AtSocket(<<Response(c, k)>>, c) = <<k>>
           /\ \A m \in Message : m \notin Responses(c) => AtSocket(<<m>>, c) = <<>>
<1> DEFINE X == {x \in Message : x.type = "RpcResponse"}
           R == Responses(c)
<1>1. R \subseteq X /\ X \subseteq Message
  BY ResponseFacts
<1>2. \A s \in Seq(Message) : Only(s, R) \in Seq(R) /\ Only(s, R) \in Seq(X)
  <2>1. Message \cap R \subseteq R /\ R \subseteq X
    BY <1>1
  <2>2. \A Y, Z : Y \subseteq Z => \A u \in Seq(Y) : u \in Seq(Z)
    OBVIOUS
  <2>3. \A s \in Seq(Message) : Only(s, R) \in Seq(Message \cap R)
    BY OnlyType
  <2> HIDE DEF X, R
  <2>4. \A s \in Seq(Message) : Only(s, R) \in Seq(R)
    BY <2>1, <2>2, <2>3
  <2> QED
    BY <2>1, <2>2, <2>4
<1>3. Kind \in [X -> Kinds]
  BY ResponseFacts
<1> HIDE DEF X
<1>4. /\ Mapped(<<>>, Kind) = <<>>
      /\ \A s \in Seq(X) : Mapped(s, Kind) \in Seq(Kinds)
      /\ \A s, t \in Seq(X) : Mapped(s \o t, Kind) = Mapped(s, Kind) \o Mapped(t, Kind)
      /\ \A x \in X : Mapped(<<x>>, Kind) = <<Kind[x]>>
  <2>1. Elementwise(X, Kinds, Kind)
    BY <1>3, MappedJoin
  <2> QED
    BY <2>1 DEF Elementwise
<1> HIDE DEF R
<1>5. AtSocket(<<>>, c) = <<>>
  BY <1>4, OnlySingle DEF AtSocket
<1>6. \A s \in Seq(Message) : AtSocket(s, c) \in Seq(Kinds)
  BY <1>2, <1>4 DEF AtSocket, R
<1>7. \A s, t \in Seq(Message) : AtSocket(s \o t, c) = AtSocket(s, c) \o AtSocket(t, c)
  <2> TAKE s, t \in Seq(Message)
  <2>1. Only(s \o t, R) = Only(s, R) \o Only(t, R)
    BY OnlyConcat
  <2>2. Only(s, R) \in Seq(X) /\ Only(t, R) \in Seq(X)
    BY <1>2
  <2>3. Mapped(Only(s, R) \o Only(t, R), Kind) = Mapped(Only(s, R), Kind) \o Mapped(Only(t, R), Kind)
    BY <1>4, <2>2
  <2> QED
    BY <2>1, <2>3 DEF AtSocket, R
<1>8. ASSUME NEW k \in Kinds
      PROVE  AtSocket(<<Response(c, k)>>, c) = <<k>>
  <2> DEFINE m == Response(c, k)
  <2>1. m \in R /\ m.kind = k
    BY Messages0 DEF R, Responses
  <2>2. m \in X /\ Kind[m] = k
    BY <1>1, <2>1 DEF X, Kind
  <2> HIDE DEF m
  <2>3. Only(<<m>>, R) = <<m>>
    BY <2>1, OnlySingle
  <2> QED
    BY <1>4, <2>2, <2>3 DEF AtSocket, R, m
<1>9. ASSUME NEW m \in Message, m \notin R
      PROVE  AtSocket(<<m>>, c) = <<>>
  <2>1. Only(<<m>>, R) = <<>>
    BY <1>9, OnlySingle
  <2> QED
    BY <1>4, <2>1 DEF AtSocket, R
<1> QED
  BY <1>2, <1>5, <1>6, <1>7, <1>8, <1>9 DEF R

\* The responses to c among commands, put together.
LEMMA AtLoopStep ==
    ASSUME NEW c \in Contexts
    PROVE  /\ AtLoop(<<>>, c) = <<>>
           /\ \A s \in Seq(Command) : /\ Only(s, ToReceive(c)) \in Seq(ToReceive(c))
                                      /\ AtLoop(s, c) \in Seq(Kinds)
           /\ \A s, t \in Seq(Command) : AtLoop(s \o t, c) = AtLoop(s, c) \o AtLoop(t, c)
           /\ \A k \in Kinds : AtLoop(<<Received(Response(c, k))>>, c) = <<k>>
           /\ \A x \in Command : x \notin ToReceive(c) => AtLoop(<<x>>, c) = <<>>
<1> DEFINE T == ToReceive(c)
           R == Responses(c)
           X == {x \in Message : x.type = "RpcResponse"}
           f == [x \in T |-> x.message]
<1>1. /\ T \subseteq {x \in Command : x.command = "Received"} /\ R \subseteq X
      /\ \A x \in T : x.message \in R
  BY ResponseFacts
<1>2. \A s \in Seq(Command) : Only(s, T) \in Seq(T)
  <2>1. Command \cap T \subseteq T
    BY <1>1
  <2>2. \A Y, Z : Y \subseteq Z => \A u \in Seq(Y) : u \in Seq(Z)
    OBVIOUS
  <2>3. \A s \in Seq(Command) : Only(s, T) \in Seq(Command \cap T)
    BY OnlyType
  <2> HIDE DEF T
  <2> QED
    BY <2>1, <2>2, <2>3
<1>3. Kind \in [X -> Kinds]
  BY ResponseFacts
<1>4. f \in [T -> X] /\ \A x \in T : f[x] = x.message
  BY <1>1
<1>5. \A s \in Seq(T) : Mapped(s, Content) = Mapped(s, f)
  <2> TAKE s \in Seq(T)
  <2>1. \A i \in DOMAIN s : s[i] \in T
    OBVIOUS
  <2>2. \A x \in T : Content[x] = x.message
    BY <1>1 DEF Content
  <2> QED
    BY <1>4, <2>1, <2>2 DEF Mapped
<1> HIDE DEF X, T, f
<1>6. /\ Mapped(<<>>, Kind) = <<>>
      /\ \A s \in Seq(X) : Mapped(s, Kind) \in Seq(Kinds)
      /\ \A s, t \in Seq(X) : Mapped(s \o t, Kind) = Mapped(s, Kind) \o Mapped(t, Kind)
      /\ \A x \in X : Mapped(<<x>>, Kind) = <<Kind[x]>>
  <2>1. Elementwise(X, Kinds, Kind)
    BY <1>3, MappedJoin
  <2> QED
    BY <2>1 DEF Elementwise
<1>7. f \in [T -> X]
  BY <1>4
<1>8. /\ Mapped(<<>>, f) = <<>>
      /\ \A s \in Seq(T) : Mapped(s, f) \in Seq(X)
      /\ \A s, t \in Seq(T) : Mapped(s \o t, f) = Mapped(s, f) \o Mapped(t, f)
      /\ \A x \in T : Mapped(<<x>>, f) = <<f[x]>>
  <2>1. Elementwise(T, X, f)
    BY <1>7, MappedJoin
  <2> QED
    BY <2>1 DEF Elementwise
<1>9. \A s \in Seq(Command) : AtLoop(s, c) = Mapped(Mapped(Only(s, T), f), Kind)
  BY <1>2, <1>5 DEF AtLoop, T
<1>14. <<>> \in Seq(Command) /\ \A x \in Command : <<x>> \in Seq(Command)
  OBVIOUS
<1>10. AtLoop(<<>>, c) = <<>>
  BY <1>6, <1>8, <1>9, <1>14, OnlySingle
<1>11. \A s \in Seq(Command) : AtLoop(s, c) \in Seq(Kinds)
  BY <1>2, <1>6, <1>8, <1>9
<1>12. \A s, t \in Seq(Command) : AtLoop(s \o t, c) = AtLoop(s, c) \o AtLoop(t, c)
  <2> TAKE s, t \in Seq(Command)
  <2> DEFINE u == Only(s, T)
             v == Only(t, T)
  <2>1. Only(s \o t, T) = u \o v
    BY OnlyConcat
  <2>2. u \in Seq(T) /\ v \in Seq(T)
    BY <1>2
  <2>3. s \o t \in Seq(Command)
    OBVIOUS
  <2> HIDE DEF u, v
  <2>4. Mapped(u \o v, f) = Mapped(u, f) \o Mapped(v, f)
    BY <1>8, <2>2
  <2>5. Mapped(u, f) \in Seq(X) /\ Mapped(v, f) \in Seq(X)
    BY <1>8, <2>2
  <2> DEFINE mu == Mapped(u, f)
             mv == Mapped(v, f)
  <2> HIDE DEF mu, mv
  <2>6. Mapped(mu \o mv, Kind) = Mapped(mu, Kind) \o Mapped(mv, Kind)
    BY <1>6, <2>5 DEF mu, mv
  <2>7. AtLoop(s \o t, c) = Mapped(Mapped(u \o v, f), Kind)
    BY <1>9, <2>1, <2>3
  <2>8. AtLoop(s, c) = Mapped(mu, Kind) /\ AtLoop(t, c) = Mapped(mv, Kind)
    BY <1>9 DEF mu, mv, u, v
  <2> QED
    BY <2>4, <2>6, <2>7, <2>8 DEF mu, mv
<1>13. ASSUME NEW k \in Kinds
       PROVE  AtLoop(<<Received(Response(c, k))>>, c) = <<k>>
  <2> DEFINE m == Response(c, k)
             x == Received(m)
  <2>1. m \in R /\ m.kind = k /\ m \in Message
    BY Messages0 DEF R, Responses
  <2>2. x \in T /\ x \in Command /\ x.message = m
    BY <2>1, Commands0 DEF T, ToReceive
  <2>3. m \in X /\ Kind[m] = k
    BY <1>1, <2>1 DEF X, Kind
  <2> HIDE DEF m, x
  <2>4. Only(<<x>>, T) = <<x>>
    BY <2>2, OnlySingle
  <2>5. Mapped(<<x>>, f) = <<m>>
    BY <1>4, <1>8, <2>2
  <2>6. AtLoop(<<x>>, c) = Mapped(Mapped(Only(<<x>>, T), f), Kind)
    BY <1>9, <1>14, <2>2
  <2> QED
    BY <1>6, <2>3, <2>4, <2>5, <2>6 DEF x, m
<1>15. ASSUME NEW x \in Command, x \notin T
       PROVE  AtLoop(<<x>>, c) = <<>>
  <2>1. Only(<<x>>, T) = <<>>
    BY <1>15, OnlySingle
  <2> QED
    BY <1>6, <1>8, <1>9, <1>14, <2>1
<1> QED
  BY <1>2, <1>10, <1>11, <1>12, <1>13, <1>15 DEF T

\* What is in flight: first at the rpc loop, then in the socket.
LEMMA FlightIs ==
    ASSUME NEW cs \in Seq(Command), NEW ms \in Seq(Message), NEW c \in Contexts
    PROVE  LET responses == {Response(c, k) : k \in Kinds}
               here == Messages(Only(cs, {Received(m) : m \in responses}))
               mine == here \o Only(ms, responses)
           IN  [i \in DOMAIN mine |-> mine[i].kind] = AtLoop(cs, c) \o AtSocket(ms, c)
<1> DEFINE X == {x \in Message : x.type = "RpcResponse"}
           u == Only(cs, ToReceive(c))
           v == Only(ms, Responses(c))
           w == Mapped(u, Content)
           mine == w \o v
<1>1. u \in Seq(ToReceive(c)) /\ v \in Seq(Responses(c))
  BY AtSocketStep, AtLoopStep
<1>2. /\ ToReceive(c) \subseteq {x \in Command : x.command = "Received"}
      /\ Responses(c) \subseteq X /\ \A x \in ToReceive(c) : x.message \in X
  BY ResponseFacts
<1>3. Messages(u) = w
  <2> HIDE DEF u
  <2>1. \A i \in DOMAIN u : u[i] \in ToReceive(c)
    BY <1>1
  <2>2. \A i \in DOMAIN u : u[i].message = Content[u[i]]
    BY <1>2, <2>1 DEF Content
  <2> QED
    BY <2>2 DEF Messages, Mapped
<1>4. w \in Seq(X)
  <2> DEFINE T == ToReceive(c)
             f == [x \in T |-> x.message]
  <2>1. f \in [T -> X]
    BY <1>2
  <2>2. w = Mapped(u, f)
    <3> HIDE DEF u
    <3>1. \A i \in DOMAIN u : u[i] \in ToReceive(c)
      BY <1>1
    <3>2. \A i \in DOMAIN u : f[u[i]] = Content[u[i]]
      BY <1>2, <3>1 DEF Content
    <3> QED
      BY <3>2 DEF Mapped
  <2>3. u \in Seq(T)
    BY <1>1
  <2> HIDE DEF f, T, X, u, w
  <2>5. Elementwise(T, X, f)
    BY <2>1, MappedJoin
  <2>4. \A s \in Seq(T) : Mapped(s, f) \in Seq(X)
    BY <2>5 DEF Elementwise
  <2> QED
    BY <2>2, <2>3, <2>4
<1>5. v \in Seq(X)
  <2>1. \A Y, Z : Y \subseteq Z => \A s \in Seq(Y) : s \in Seq(Z)
    OBVIOUS
  <2> HIDE DEF X, v
  <2> QED
    BY <1>1, <1>2, <2>1
<1>6. Kind \in [X -> Kinds]
  BY ResponseFacts
<1>7. mine \in Seq(X)
  <2> HIDE DEF w, v, X
  <2> QED
    BY <1>4, <1>5
<1>8. [i \in DOMAIN mine |-> mine[i].kind] = Mapped(mine, Kind)
  <2> HIDE DEF mine
  <2>1. \A i \in DOMAIN mine : mine[i] \in X
    BY <1>7
  <2>2. \A i \in DOMAIN mine : mine[i].kind = Kind[mine[i]]
    BY <2>1 DEF Kind
  <2> QED
    BY <2>2 DEF Mapped
<1>9. Mapped(mine, Kind) = Mapped(w, Kind) \o Mapped(v, Kind)
  <2> HIDE DEF X, w, v
  <2>2. Elementwise(X, Kinds, Kind)
    BY <1>6, MappedJoin
  <2>1. \A s, t \in Seq(X) : Mapped(s \o t, Kind) = Mapped(s, Kind) \o Mapped(t, Kind)
    BY <2>2 DEF Elementwise
  <2> QED
    BY <1>4, <1>5, <2>1
<1>10. Mapped(w, Kind) = AtLoop(cs, c) /\ Mapped(v, Kind) = AtSocket(ms, c)
  BY DEF AtLoop, AtSocket
<1> DEFINE responses == {Response(c, k) : k \in Kinds}
           here == Messages(Only(cs, {Received(m) : m \in responses}))
<1>11. here \o Only(ms, responses) = mine
  BY <1>3 DEF Responses, ToReceive
<1> HIDE DEF mine, w, v
<1> QED
  BY <1>8, <1>9, <1>10, <1>11

\* A behaviour follows one program.
LEMMA ProgramStays ==
    ASSUME Next
    PROVE  UNCHANGED program
<1> USE DEF threads, queue, jobs, handler, calls, socket, server
<1>0. \A t, c, state : ContextNew(t, c, state) => UNCHANGED program
  BY DEF ContextNew
<1>1. CASE UserStep
  <2>1. CASE (\E t \in Users, c \in Contexts : Call(t, c)) \/ \E c \in Contexts : new_rpc(c)
    BY <1>0, <2>1 DEF Call, new_rpc
  <2>2. CASE \E t \in Callers, c \in Contexts :
                try_recv(t, c) \/ cancel(t, c) \/ DropContext(t, c)
                  \/ \E how \in {"recv", "wait"} : Block(t, c, how)
    BY <2>2 DEF try_recv, cancel, DropContext, Block
  <2>3. CASE Drop
    BY <2>3 DEF Drop
  <2> QED
    BY <1>1, <2>1, <2>2, <2>3 DEF UserStep
<1>2. CASE Waiting \/ new_rpc_ends
  BY <1>2 DEF Waiting, recv, recv_returns, new_rpc_ends
<1>3. CASE JobStep
  <2>1. CASE \E j \in Contexts : update(j) \/ check_liveness(j)
    BY <2>1 DEF update, check_liveness
  <2>2. CASE \E j \in Contexts : finish(j)
    BY <2>2 DEF finish
  <2>3. CASE \E c \in Contexts : NestedCall(c)
    BY <1>0, <2>3 DEF NestedCall
  <2> QED
    BY <1>3, <2>1, <2>2, <2>3 DEF JobStep
<1>4. CASE LoopStep
  <2>1. CASE HandleQuit \/ HandleNewRpc
    BY <2>1 DEF HandleQuit, HandleNewRpc
  <2>2. CASE HandleReceived
    BY <2>2 DEF HandleReceived
  <2>3. CASE HandleOutgoing
    BY <2>3 DEF HandleOutgoing
  <2> QED
    BY <1>4, <2>1, <2>2, <2>3 DEF LoopStep
<1>5. CASE ReadStep \/ WriteStep
  <2>1. CASE read_message \/ read_fails
    BY <2>1 DEF read_message, read_fails
  <2>2. CASE write_message
    BY <2>2 DEF write_message
  <2>3. CASE write_fails \/ write_thread_ends
    BY <2>3 DEF write_fails, write_thread_ends
  <2> QED
    BY <1>5, <2>1, <2>2, <2>3 DEF ReadStep, WriteStep
<1>6. CASE Join
  BY <1>6 DEF Join
<1>7. CASE ServerStep \/ ConnectionLost \/ \E c \in Contexts : ForeignCall(c) \/ ForeignCancel(c)
  BY <1>7 DEF ServerStep, ServerAnswers, ConnectionLost, ForeignCall, ForeignCancel
<1> QED
  BY <1>1, <1>2, <1>3, <1>4, <1>5, <1>6, <1>7 DEF Next

\* The contexts of this client stay those of its calls.
LEMMA KnownHereStep ==
    ASSUME Typed, Next, KnownHere
    PROVE  KnownHere'
<1> USE DEF threads, queue, jobs, handler, calls, socket, server
<1>0. UNCHANGED program
  BY ProgramStays
<1>1. ASSUME open' \subseteq open
      PROVE  KnownHere'
  BY <1>0, <1>1 DEF KnownHere, Here
<1>2. ASSUME NEW t \in Callers, NEW c \in Contexts, NEW state, ContextNew(t, c, state)
      PROVE  KnownHere'
  <2>1. open' \subseteq open \cup {c} /\ Here(c)
    BY <1>2 DEF ContextNew, Here
  <2> QED
    BY <1>0, <2>1 DEF KnownHere, Here
<1>9. \A cs : Consume(cs) => open' \subseteq open
  BY DEF Consume
<1>3. CASE UserStep
  <2>1. CASE (\E t \in Users, c \in Contexts : Call(t, c)) \/ \E c \in Contexts : new_rpc(c)
    BY <1>2, <2>1 DEF Call, new_rpc, Callers, Users
  <2>2. CASE \E t \in Callers, c \in Contexts :
                try_recv(t, c) \/ \E how \in {"recv", "wait"} : Block(t, c, how)
    BY <1>1, <2>2 DEF try_recv, Block
  <2>3. CASE \E t \in Callers, c \in Contexts : cancel(t, c) \/ DropContext(t, c)
    BY <1>1, <1>9, <2>3 DEF cancel, DropContext
  <2>4. CASE Drop
    BY <1>1, <2>4 DEF Drop
  <2> QED
    BY <1>3, <2>1, <2>2, <2>3, <2>4 DEF UserStep
<1>4. CASE Waiting \/ new_rpc_ends
  BY <1>1, <1>4 DEF Waiting, recv, recv_returns, new_rpc_ends
<1>5. CASE JobStep
  <2>1. CASE \E j \in Contexts : update(j) \/ check_liveness(j)
    BY <1>1, <2>1 DEF update, check_liveness
  <2>2. CASE \E j \in Contexts : finish(j)
    BY <1>1, <1>9, <2>2 DEF finish
  <2>3. CASE \E c \in Contexts : NestedCall(c)
    BY <1>2, <2>3 DEF NestedCall, Callers
  <2> QED
    BY <1>5, <2>1, <2>2, <2>3 DEF JobStep
<1>6. CASE LoopStep
  BY <1>1, <1>6 DEF LoopStep, HandleQuit, HandleNewRpc, HandleReceived, HandleOutgoing
<1>7. CASE ReadStep \/ WriteStep \/ Join
  BY <1>1, <1>7 DEF ReadStep, read_message, read_fails, WriteStep, write_message, write_fails,
    write_thread_ends, Join
<1>8. CASE ServerStep \/ ConnectionLost \/ \E c \in Contexts : ForeignCall(c) \/ ForeignCancel(c)
  BY <1>1, <1>8 DEF ServerStep, ServerAnswers, ConnectionLost, ForeignCall, ForeignCancel
<1> QED
  BY <1>3, <1>4, <1>5, <1>6, <1>7, <1>8 DEF Next

\* What is handed to the rpc loop stays what it should be.
LEMMA KnownCommandsStep ==
    ASSUME Typed, Next, KnownCommands
    PROVE  KnownCommands'
<1> USE DEF threads, queue, jobs, handler, calls, socket, server
<1>0. commands \in Seq(Command) /\ from_server \in Seq(Message) /\ Queues
  BY QueueTypes DEF Typed
<1>1. ASSUME UNCHANGED commands
      PROVE  KnownCommands'
  BY <1>1 DEF KnownCommands
<1>2. ASSUME NEW x \in Command, Calling(x), commands' = Append(commands, x)
      PROVE  KnownCommands'
  <2>1. \A i \in DOMAIN commands' : \/ i \in DOMAIN commands /\ commands'[i] = commands[i]
                                    \/ commands'[i] = x
    BY <1>0, <1>2
  <2> QED
    BY <1>2, <2>1 DEF KnownCommands
<1>3. ASSUME commands # <<>>, commands' = Tail(commands)
      PROVE  KnownCommands'
  <2>1. \A i \in DOMAIN commands' : i + 1 \in DOMAIN commands /\ commands'[i] = commands[i + 1]
    BY <1>0, <1>3
  <2> QED
    BY <2>1 DEF KnownCommands
<1>4. ASSUME LoopEnds
      PROVE  KnownCommands'
  <2>1. DOMAIN commands' = {}
    BY <1>4 DEF LoopEnds
  <2> QED
    BY <2>1 DEF KnownCommands
<1>5. /\ Calling(Quit) /\ Calling(NewRpc) /\ Quit \in Command /\ NewRpc \in Command
      /\ \A m \in Message : Calling(Received(m)) /\ Received(m) \in Command
      /\ \A c \in Contexts : /\ Calling(OutgoingCall(c)) /\ OutgoingCall(c) \in Command
                             /\ Calling(CancelOutgoingRpc(c)) /\ CancelOutgoingRpc(c) \in Command
      /\ \A c \in Contexts, k \in Kinds :
            Calling(Send(Response(c, k))) /\ Send(Response(c, k)) \in Command
  BY Messages0, Commands0 DEF Calling
<1>6. ASSUME NEW t, NEW c \in Contexts, NEW state, ContextNew(t, c, state)
      PROVE  KnownCommands'
  <2>1. UNCHANGED commands \/ commands' = Append(commands, OutgoingCall(c))
    BY <1>6 DEF ContextNew, Deliver
  <2> QED
    BY <1>1, <1>2, <1>5, <2>1
<1>7. CASE UserStep
  <2>1. CASE (\E t \in Users, c \in Contexts : Call(t, c)) \/ \E c \in Contexts : new_rpc(c)
    BY <1>6, <2>1 DEF Call, new_rpc
  <2>2. CASE \E t \in Callers, c \in Contexts :
                try_recv(t, c) \/ DropContext(t, c)
                  \/ \E how \in {"recv", "wait"} : Block(t, c, how)
    BY <1>1, <2>2 DEF try_recv, DropContext, Block
  <2>3. CASE \E t \in Callers, c \in Contexts : cancel(t, c)
    BY <1>1, <1>2, <1>5, <2>3 DEF cancel, Deliver
  <2>4. CASE Drop
    BY <1>1, <1>2, <1>5, <2>4 DEF Drop, Deliver
  <2> QED
    BY <1>7, <2>1, <2>2, <2>3, <2>4 DEF UserStep
<1>8. CASE Waiting
  BY <1>1, <1>8 DEF Waiting, recv, recv_returns
<1>9. CASE new_rpc_ends
  BY <1>1, <1>2, <1>5, <1>9 DEF new_rpc_ends, Deliver
<1>10. CASE JobStep
  <2>1. ASSUME NEW j \in Contexts, update(j)
        PROVE  KnownCommands'
    <3>1. Updates(j) \in Nat /\ Updates(j) < MaxPartial
      BY <1>0, <2>1, NextPartial DEF update
    <3>2. Updates(j) + 1 \in Kinds
      BY <3>1, NextPartial
    <3> QED
      BY <1>2, <1>5, <2>1, <3>2 DEF update, Deliver
  <2>2. ASSUME NEW j \in Contexts, finish(j)
        PROVE  KnownCommands'
    <3>1. Last \in Kinds
      BY NextPartial
    <3> QED
      BY <1>1, <1>2, <1>5, <2>2, <3>1 DEF finish, Deliver
  <2>3. CASE \E j \in Contexts : check_liveness(j)
    BY <1>1, <2>3 DEF check_liveness
  <2>4. CASE \E c \in Contexts : NestedCall(c)
    BY <1>6, <2>4 DEF NestedCall
  <2> QED
    BY <1>10, <2>1, <2>2, <2>3, <2>4 DEF JobStep
<1>11. CASE LoopStep
  <2>1. CASE HandleQuit
    BY <1>4, <2>1 DEF HandleQuit
  <2>2. CASE HandleNewRpc \/ HandleReceived
    BY <1>3, <2>2 DEF HandleNewRpc, HandleReceived, Handling
  <2>3. CASE HandleOutgoing
    BY <1>3, <1>4, <2>3 DEF HandleOutgoing
  <2> QED
    BY <1>11, <2>1, <2>2, <2>3 DEF LoopStep
<1>12. CASE ReadStep
  <2>1. CASE read_message
    <3>1. Head(from_server) \in Message
      BY <1>0, <2>1 DEF read_message
    <3>2. UNCHANGED commands \/ commands' = Append(commands, Received(Head(from_server)))
      BY <2>1 DEF read_message
    <3> QED
      BY <1>1, <1>2, <1>5, <3>1, <3>2
  <2>2. CASE read_fails
    BY <1>1, <2>2 DEF read_fails
  <2> QED
    BY <1>12, <2>1, <2>2 DEF ReadStep
<1>13. CASE WriteStep \/ Join
  BY <1>1, <1>13 DEF WriteStep, write_message, write_fails, write_thread_ends, Join
<1>14. CASE ServerStep \/ ConnectionLost \/ \E c \in Contexts : ForeignCall(c) \/ ForeignCancel(c)
  BY <1>1, <1>14 DEF ServerStep, ServerAnswers, ConnectionLost, ForeignCall, ForeignCancel
<1> QED
  BY <1>7, <1>8, <1>9, <1>10, <1>11, <1>12, <1>13, <1>14 DEF Next

\* The rpc loop goes on knowing the calls that were sent.
LEMMA KnownCallsStep ==
    ASSUME Typed, Next, KnownCommands, KnownCalls
    PROVE  KnownCalls'
<1> USE DEF threads, queue, jobs, handler, calls, socket, server
<1>0. /\ UNCHANGED program /\ Queues /\ CallsOK /\ made \subseteq Contexts
      /\ send_queue \in Seq(Message) /\ commands \in Seq(Command)
  BY ProgramStays, QueueTypes DEF Typed, CallsOK
<1>1. \A c \in Contexts : Asked(c) => c \in made
  <2> SUFFICES ASSUME NEW c \in Contexts, Asked(c), c \notin made
               PROVE  FALSE
    OBVIOUS
  <2>1. answers[c] = <<>> /\ c \notin running_rpcs
    BY <1>0 DEF CallsOK
  <2>2. PICK i \in DOMAIN send_queue : send_queue[i] = RpcCall(c)
    BY <2>1 DEF Asked
  <2>3. RpcCall(c) \in MessageOf(made)
    BY <1>0, <2>2 DEF Queues
  <2> QED
    BY <1>0, <2>3, Messages0, Made
<1>2. ASSUME loop' = "running" => /\ loop = "running"
                                  /\ running_function_calls \subseteq running_function_calls',
             \A c \in Contexts : Here(c) /\ Asked(c)' => Asked(c) \/ c \in running_function_calls'
      PROVE  KnownCalls'
  <2> SUFFICES ASSUME loop' = "running", NEW c \in made', Here(c)', Asked(c)'
               PROVE  c \in running_function_calls'
    BY DEF KnownCalls
  <2>1. c \in Contexts /\ Here(c)
    <3>1. made' \subseteq Contexts
      BY TypedStep DEF Typed, CallsOK
    <3> QED
      BY <1>0, <3>1 DEF Here
  <2> QED
    BY <1>1, <1>2, <2>1 DEF KnownCalls
<1>3. ASSUME loop' = loop, UNCHANGED <<handler, running_rpcs, answers, send_queue>>
      PROVE  KnownCalls'
  BY <1>2, <1>3 DEF Asked
<1>4. ASSUME LoopEnds
      PROVE  KnownCalls'
  BY <1>4 DEF LoopEnds, KnownCalls
<1>5. \A t, c, state : ContextNew(t, c, state)
                         => UNCHANGED <<loop, handler, running_rpcs, answers, send_queue>>
  BY DEF ContextNew
<1>6. CASE UserStep
  <2>1. CASE (\E t \in Users, c \in Contexts : Call(t, c)) \/ \E c \in Contexts : new_rpc(c)
    BY <1>3, <1>5, <2>1 DEF Call, new_rpc
  <2>2. CASE \E t \in Callers, c \in Contexts :
                try_recv(t, c) \/ DropContext(t, c) \/ cancel(t, c)
                  \/ \E how \in {"recv", "wait"} : Block(t, c, how)
    BY <1>3, <2>2 DEF try_recv, DropContext, cancel, Block
  <2>3. CASE Drop
    BY <1>3, <2>3 DEF Drop
  <2> QED
    BY <1>6, <2>1, <2>2, <2>3 DEF UserStep
<1>7. CASE Waiting \/ new_rpc_ends
  BY <1>3, <1>7 DEF Waiting, recv, recv_returns, new_rpc_ends
<1>8. CASE JobStep
  <2>1. CASE \E j \in Contexts : update(j) \/ check_liveness(j)
    BY <1>3, <2>1 DEF update, check_liveness
  <2>2. CASE \E j \in Contexts : finish(j)
    BY <1>3, <2>2 DEF finish
  <2>3. CASE \E c \in Contexts : NestedCall(c)
    BY <1>3, <1>5, <2>3 DEF NestedCall
  <2> QED
    BY <1>8, <2>1, <2>2, <2>3 DEF JobStep
<1>9. CASE HandleQuit
  BY <1>4, <1>9 DEF HandleQuit
<1>10. CASE HandleNewRpc \/ HandleReceived
  BY <1>2, <1>10 DEF HandleNewRpc, HandleReceived, Asked
<1>11. CASE HandleOutgoing
  <2>1. CASE writer = "running"
    <3> DEFINE cmd == Head(commands)
    <3>1. /\ commands # <<>> /\ Outgoing(cmd) /\ UNCHANGED <<loop, running_rpcs, answers>>
          /\ send_queue' = Append(send_queue, cmd.message)
          /\ running_function_calls' = running_function_calls \cup
               (IF cmd.command = "OutgoingCall" THEN {cmd.message.context} ELSE {})
      BY <1>11, <2>1 DEF HandleOutgoing
    <3>2. cmd \in Command /\ Calling(cmd)
      <4>1. 1 \in DOMAIN commands /\ cmd = commands[1] /\ cmd \in Command
        BY <1>0, <3>1
      <4> QED
        BY <4>1 DEF KnownCommands
    <3>3. cmd.message \in Message
      BY <3>1, <3>2, Commands1
    <3> HIDE DEF cmd
    <3>4. \A i \in DOMAIN send_queue' :
            \/ i \in DOMAIN send_queue /\ send_queue'[i] = send_queue[i]
            \/ send_queue'[i] = cmd.message
      BY <1>0, <3>1, <3>3
    <3>5. \A c \in Contexts : cmd.message = RpcCall(c) => c \in running_function_calls'
      <4> SUFFICES ASSUME NEW c \in Contexts, cmd.message = RpcCall(c)
                   PROVE  c \in running_function_calls'
        OBVIOUS
      <4>1. cmd.message.type = "RpcCall" /\ cmd.message.context = c
        BY Messages0
      <4> QED
        BY <3>1, <3>2, <4>1 DEF Calling
    <3>6. ASSUME NEW c \in Contexts, Asked(c)'
          PROVE  Asked(c) \/ c \in running_function_calls'
      BY <3>1, <3>4, <3>5, <3>6 DEF Asked
    <3> QED
      BY <1>2, <3>1, <3>6
  <2>2. CASE writer # "running"
    BY <1>4, <1>11, <2>2 DEF HandleOutgoing
  <2> QED
    BY <2>1, <2>2
<1>12. CASE ReadStep \/ Join
  <2>1. CASE read_message
    BY <1>3, <2>1 DEF read_message
  <2>2. CASE read_fails \/ Join
    BY <1>3, <2>2 DEF read_fails, Join
  <2> QED
    BY <1>12, <2>1, <2>2 DEF ReadStep
<1>13. CASE write_message
  <2> DEFINE m == Head(send_queue)
  <2>1. /\ send_queue # <<>> /\ Route(m) /\ send_queue' = Tail(send_queue)
        /\ UNCHANGED <<loop, handler>>
    BY <1>13 DEF write_message
  <2>2. m \in MessageOf(made) /\ 1 \in DOMAIN send_queue /\ send_queue[1] = m
    BY <1>0, <2>1 DEF Queues
  <2>3. m \in Message /\ m.context \in made
    BY <1>0, <2>2, Made
  <2>4. \A i \in DOMAIN send_queue' : i + 1 \in DOMAIN send_queue
                                      /\ send_queue'[i] = send_queue[i + 1]
    BY <1>0, <2>1
  <2>5. m.type = "RpcCall" => Asked(m.context)
    BY <2>2, <2>3, Messages0 DEF Asked
  <2> HIDE DEF m
  <2>6. \A c \in running_rpcs' : c \in running_rpcs \/ (m.type = "RpcCall" /\ c = m.context)
    BY <2>1 DEF Route, RouteCall
  <2>7. \A c \in Contexts : answers'[c] = answers[c] \/ (c = m.context /\ Asked(c))
    <3>0. \/ UNCHANGED answers
          \/ \E k \in Kinds : Answer(m.context, k) /\ (m = RpcCall(m.context) \/ m.context \in running_rpcs)
      <4>1. UNCHANGED <<made, program>> /\ m \in MessageOf(made) /\ Route(m)
        BY <1>13, <2>1, <2>2 DEF write_message, m
      <4> QED
        BY <1>0, <4>1, Routes
    <3>1. CASE UNCHANGED answers
      BY <3>1
    <3>2. ASSUME NEW k \in Kinds, Answer(m.context, k),
                 m = RpcCall(m.context) \/ m.context \in running_rpcs
          PROVE  \A c \in Contexts : answers'[c] = answers[c] \/ (c = m.context /\ Asked(c))
      <4>1. m = RpcCall(m.context) => m.type = "RpcCall"
        BY <1>0, <2>3, Messages0
      <4>2. Asked(m.context)
        BY <2>5, <3>2, <4>1 DEF Asked
      <4> QED
        BY <1>0, <2>3, <3>2, <4>2, AnswerOK
    <3> QED
      BY <3>0, <3>1, <3>2
  <2>8. ASSUME NEW c \in Contexts, Asked(c)'
        PROVE  Asked(c)
    BY <2>4, <2>5, <2>6, <2>7, <2>8 DEF Asked
  <2> QED
    BY <1>2, <2>1, <2>8
<1>14. CASE write_fails \/ write_thread_ends
  <2>1. DOMAIN send_queue' = {} \/ UNCHANGED send_queue
    BY <1>14 DEF write_fails, write_thread_ends
  <2>2. UNCHANGED <<loop, handler, running_rpcs, answers>>
    BY <1>14 DEF write_fails, write_thread_ends
  <2> QED
    BY <1>2, <2>1, <2>2 DEF Asked
<1>15. ASSUME NEW c \in Contexts, ServerAnswers(c)
       PROVE  KnownCalls'
  <2>1. c \in made /\ c \in running_rpcs /\ Len(answers[c]) \in Nat
    BY <1>0, <1>15 DEF ServerAnswers, CallsOK
  <2>2. PICK k \in Kinds : Answer(c, k)
    BY <1>15, <2>1, NextPartial DEF ServerAnswers
  <2>3. running_rpcs' \subseteq running_rpcs /\ UNCHANGED <<loop, handler, send_queue>>
    BY <1>15 DEF ServerAnswers
  <2>4. \A d \in Contexts \ {c} : answers'[d] = answers[d]
    BY <1>0, <2>1, <2>2, AnswerOK
  <2> QED
    BY <1>2, <2>1, <2>3, <2>4 DEF Asked
<1>16. ASSUME NEW c \in Contexts, ForeignCall(c) \/ ForeignCancel(c)
       PROVE  KnownCalls'
  <2>1. UNCHANGED <<loop, handler, send_queue, answers>>
    BY <1>16 DEF ForeignCall, ForeignCancel
  <2>2. running_rpcs' \subseteq running_rpcs \/ (running_rpcs' = running_rpcs \cup {c} /\ ~Here(c))
    BY <1>16 DEF ForeignCall, ForeignCancel, Here, Callers, Users
  <2> QED
    BY <1>2, <2>1, <2>2 DEF Asked
<1>17. CASE ConnectionLost
  BY <1>3, <1>17 DEF ConnectionLost
<1> QED
  BY <1>6, <1>7, <1>8, <1>9, <1>10, <1>11, <1>12, <1>13, <1>14, <1>15, <1>16, <1>17
  DEF Next, LoopStep, WriteStep, ServerStep

\* All of it together.
LEMMA KnownStep ==
    ASSUME Typed, Next, Known
    PROVE  Known'
BY KnownHereStep, KnownCommandsStep, KnownCallsStep DEF Known

\* What is in flight, now and after the step.
LEMMA Flight ==
    ASSUME Queues, NEW c \in Contexts
    PROVE  /\ InFlight(c) = IF loop = "running"
                            THEN AtLoop(commands, c) \o AtSocket(from_server, c) ELSE <<>>
           /\ AtLoop(commands, c) \in Seq(Kinds) /\ AtSocket(from_server, c) \in Seq(Kinds)
           /\ InFlight(c) \in Seq(Kinds)
<1>1. commands \in Seq(Command) /\ from_server \in Seq(Message)
  BY QueueTypes
<1>2. InFlight(c) = IF loop = "running"
                    THEN AtLoop(commands, c) \o AtSocket(from_server, c) ELSE <<>>
  BY <1>1, FlightIs DEF InFlight
<1>3. AtLoop(commands, c) \in Seq(Kinds) /\ AtSocket(from_server, c) \in Seq(Kinds)
  BY <1>1, AtLoopStep, AtSocketStep
<1> QED
  BY <1>2, <1>3

\* The same after a step.
LEMMA FlightNext ==
    ASSUME Queues', NEW c \in Contexts
    PROVE  /\ InFlight(c)' = IF loop' = "running"
                             THEN AtLoop(commands', c) \o AtSocket(from_server', c) ELSE <<>>
           /\ AtLoop(commands', c) \in Seq(Kinds) /\ AtSocket(from_server', c) \in Seq(Kinds)
           /\ InFlight(c)' \in Seq(Kinds)
<1>1. commands' \in Seq(Command) /\ from_server' \in Seq(Message)
  <2>1. CommandOf(made') \subseteq Command /\ MessageOf(made') \subseteq Message
    BY DEF CommandOf, MessageOf
  <2>2. \A X, Y : X \subseteq Y => \A s \in Seq(X) : s \in Seq(Y)
    OBVIOUS
  <2> QED
    BY <2>1, <2>2 DEF Queues
<1>2. InFlight(c)' = IF loop' = "running"
                     THEN AtLoop(commands', c) \o AtSocket(from_server', c) ELSE <<>>
  BY <1>1, FlightIs DEF InFlight
<1>3. AtLoop(commands', c) \in Seq(Kinds) /\ AtSocket(from_server', c) \in Seq(Kinds)
  BY <1>1, AtLoopStep, AtSocketStep
<1> QED
  BY <1>2, <1>3

\* Queues that grow and shrink, seen by who waits for responses to c.
LEMMA AtLoopMoves ==
    ASSUME NEW c \in Contexts, NEW s \in Seq(Command), NEW x \in Command
    PROVE  /\ x \notin ToReceive(c) => AtLoop(Append(s, x), c) = AtLoop(s, c)
           /\ \A k \in Kinds : x = Received(Response(c, k))
                                  => AtLoop(Append(s, x), c) = AtLoop(s, c) \o <<k>>
           /\ s # <<>> /\ Head(s) \notin ToReceive(c) => AtLoop(Tail(s), c) = AtLoop(s, c)
           /\ \A k \in Kinds : s # <<>> /\ Head(s) = Received(Response(c, k))
                                  => AtLoop(s, c) = <<k>> \o AtLoop(Tail(s), c)
<1> DEFINE one == <<x>>
<1>1. one \in Seq(Command) /\ Append(s, x) = s \o one
  OBVIOUS
<1>2. AtLoop(s \o one, c) = AtLoop(s, c) \o AtLoop(one, c) /\ AtLoop(s, c) \in Seq(Kinds)
  <2> HIDE DEF one
  <2> QED
    BY <1>1, AtLoopStep
<1>3. x \notin ToReceive(c) => AtLoop(one, c) = <<>>
  BY AtLoopStep
<1>4. \A k \in Kinds : x = Received(Response(c, k)) => AtLoop(one, c) = <<k>>
  BY AtLoopStep
<1> HIDE DEF one
<1>5. x \notin ToReceive(c) => AtLoop(Append(s, x), c) = AtLoop(s, c)
  <2>1. AtLoop(s, c) \o <<>> = AtLoop(s, c)
    BY <1>2
  <2> QED
    BY <1>1, <1>2, <1>3, <2>1
<1>6. \A k \in Kinds : x = Received(Response(c, k))
                          => AtLoop(Append(s, x), c) = AtLoop(s, c) \o <<k>>
  BY <1>1, <1>2, <1>4
<1>7. ASSUME s # <<>>
      PROVE  /\ Head(s) \notin ToReceive(c) => AtLoop(Tail(s), c) = AtLoop(s, c)
             /\ \A k \in Kinds : Head(s) = Received(Response(c, k))
                                    => AtLoop(s, c) = <<k>> \o AtLoop(Tail(s), c)
  <2> DEFINE y == Head(s)
             first == <<y>>
             rest == Tail(s)
  <2>1. first \in Seq(Command) /\ rest \in Seq(Command) /\ s = first \o rest /\ y \in Command
    BY <1>7
  <2> HIDE DEF y, rest
  <2>2. y \notin ToReceive(c) => AtLoop(first, c) = <<>>
    BY <2>1, AtLoopStep
  <2>3. \A k \in Kinds : y = Received(Response(c, k)) => AtLoop(first, c) = <<k>>
    BY AtLoopStep
  <2> HIDE DEF first
  <2>4. AtLoop(s, c) = AtLoop(first, c) \o AtLoop(rest, c) /\ AtLoop(rest, c) \in Seq(Kinds)
    BY <2>1, AtLoopStep
  <2>5. <<>> \o AtLoop(rest, c) = AtLoop(rest, c)
    BY <2>4
  <2> QED
    BY <2>2, <2>3, <2>4, <2>5 DEF y, rest
<1> QED
  BY <1>5, <1>6, <1>7

\* The same for messages in the socket.
LEMMA AtSocketMoves ==
    ASSUME NEW c \in Contexts, NEW s \in Seq(Message), NEW m \in Message
    PROVE  /\ m \notin Responses(c) => AtSocket(Append(s, m), c) = AtSocket(s, c)
           /\ \A k \in Kinds : m = Response(c, k)
                                  => AtSocket(Append(s, m), c) = AtSocket(s, c) \o <<k>>
           /\ s # <<>> /\ Head(s) \notin Responses(c) => AtSocket(Tail(s), c) = AtSocket(s, c)
           /\ \A k \in Kinds : s # <<>> /\ Head(s) = Response(c, k)
                                  => AtSocket(s, c) = <<k>> \o AtSocket(Tail(s), c)
<1> DEFINE one == <<m>>
<1>1. one \in Seq(Message) /\ Append(s, m) = s \o one
  OBVIOUS
<1>2. AtSocket(s \o one, c) = AtSocket(s, c) \o AtSocket(one, c) /\ AtSocket(s, c) \in Seq(Kinds)
  <2> HIDE DEF one
  <2> QED
    BY <1>1, AtSocketStep
<1>3. m \notin Responses(c) => AtSocket(one, c) = <<>>
  BY AtSocketStep
<1>4. \A k \in Kinds : m = Response(c, k) => AtSocket(one, c) = <<k>>
  BY AtSocketStep
<1> HIDE DEF one
<1>5. m \notin Responses(c) => AtSocket(Append(s, m), c) = AtSocket(s, c)
  <2>1. AtSocket(s, c) \o <<>> = AtSocket(s, c)
    BY <1>2
  <2> QED
    BY <1>1, <1>2, <1>3, <2>1
<1>6. \A k \in Kinds : m = Response(c, k)
                          => AtSocket(Append(s, m), c) = AtSocket(s, c) \o <<k>>
  BY <1>1, <1>2, <1>4
<1>7. ASSUME s # <<>>
      PROVE  /\ Head(s) \notin Responses(c) => AtSocket(Tail(s), c) = AtSocket(s, c)
             /\ \A k \in Kinds : Head(s) = Response(c, k)
                                    => AtSocket(s, c) = <<k>> \o AtSocket(Tail(s), c)
  <2> DEFINE y == Head(s)
             first == <<y>>
             rest == Tail(s)
  <2>1. first \in Seq(Message) /\ rest \in Seq(Message) /\ s = first \o rest /\ y \in Message
    BY <1>7
  <2> HIDE DEF y, rest
  <2>2. y \notin Responses(c) => AtSocket(first, c) = <<>>
    BY <2>1, AtSocketStep
  <2>3. \A k \in Kinds : y = Response(c, k) => AtSocket(first, c) = <<k>>
    BY AtSocketStep
  <2> HIDE DEF first
  <2>4. AtSocket(s, c) = AtSocket(first, c) \o AtSocket(rest, c) /\ AtSocket(rest, c) \in Seq(Kinds)
    BY <2>1, AtSocketStep
  <2>5. <<>> \o AtSocket(rest, c) = AtSocket(rest, c)
    BY <2>4
  <2> QED
    BY <2>2, <2>3, <2>4, <2>5 DEF y, rest
<1> QED
  BY <1>5, <1>6, <1>7

\* A sequence that grows.
LEMMA AppendIs ==
    ASSUME NEW X, NEW s \in Seq(X), NEW x \in X
    PROVE  Append(s, x) = s \o <<x>>
OBVIOUS

\* A sequence is its first n elements and the others.
LEMMA Splits ==
    ASSUME NEW X, NEW s \in Seq(X), NEW n \in 0 .. Len(s)
    PROVE  /\ SubSeq(s, 1, n) \in Seq(X) /\ SubSeq(s, n + 1, Len(s)) \in Seq(X)
           /\ s = SubSeq(s, 1, n) \o SubSeq(s, n + 1, Len(s))
<1> DEFINE l == Len(s)
           a == SubSeq(s, 1, n)
           b == SubSeq(s, n + 1, l)
<1>1. l \in Nat /\ n \in Nat /\ n <= l /\ DOMAIN s = 1 .. l
  OBVIOUS
<1>2. \A i \in 1 .. l : s[i] \in X
  OBVIOUS
<1>3. a \in Seq(X) /\ Len(a) = n /\ \A i \in 1 .. n : a[i] = s[i]
  BY <1>1
<1>4. b \in Seq(X) /\ Len(b) = l - n /\ \A i \in 1 .. l - n : b[i] = s[n + i]
  <2>1. \A i \in 1 .. l - n : n + i \in 1 .. l /\ s[n + i] \in X
    BY <1>1, <1>2
  <2>2. b = [i \in 1 .. l - n |-> s[n + i]]
    BY <1>1
  <2>3. l - n \in Nat
    BY <1>1
  <2> HIDE DEF b, l
  <2> QED
    BY <2>1, <2>2, <2>3
<1> HIDE DEF a, b, l
<1>5. a \o b \in Seq(X) /\ Len(a \o b) = l
  <2>1. a \o b \in Seq(X) /\ Len(a \o b) = Len(a) + Len(b)
    BY <1>3, <1>4, Lengths
  <2> QED
    BY <1>1, <1>3, <1>4, <2>1
<1>6. \A i \in 1 .. l : s[i] = (a \o b)[i]
  <2> TAKE i \in 1 .. l
  <2>1. i \in Nat /\ 1 <= i /\ i <= l
    BY <1>1
  <2>2. CASE i <= n
    BY <1>1, <1>3, <1>4, <2>1, <2>2
  <2>3. CASE i > n
    <3> DEFINE j == i - n
    <3>1. j \in 1 .. l - n /\ i = n + j
      BY <1>1, <2>1, <2>3
    <3> HIDE DEF j
    <3>2. (a \o b)[i] = b[j]
      BY <1>1, <1>3, <1>4, <3>1
    <3> QED
      BY <1>4, <3>1, <3>2
  <2>4. i <= n \/ i > n
    BY <1>1, <2>1
  <2> QED
    BY <2>2, <2>3, <2>4, Zenon
<1> DEFINE ab == a \o b
<1> HIDE DEF ab
<1>7. s = ab
  <2>1. s \in Seq(X) /\ ab \in Seq(X) /\ Len(s) = l /\ Len(ab) = l /\ \A i \in 1 .. l : s[i] = ab[i]
    BY <1>5, <1>6 DEF l, ab
  <2> QED
    BY <2>1
<1> QED
  BY <1>3, <1>4, <1>7 DEF a, b, l, ab

\* The responses are where they were.
LEMMA OrderedStays ==
    ASSUME NEW c \in Contexts, OrderedAt(c), InFlight(c)' = InFlight(c),
           answers'[c] = answers[c], received'[c] = received[c], values'[c] = values[c],
           lost => lost', loop = "ended" => loop' = "ended"
    PROVE  OrderedAt(c)'
BY DEF OrderedAt, Got

\* The next one is read.
LEMMA OrderedTake ==
    ASSUME CallsOK, Queues, NEW c \in Contexts, OrderedAt(c), InFlight(c)' = InFlight(c),
           answers'[c] = answers[c], values[c] # <<>>,
           received'[c] = Append(received[c], Head(values[c])), values'[c] = Tail(values[c]),
           UNCHANGED <<lost, loop>>
    PROVE  OrderedAt(c)'
<1> DEFINE r == received[c]
           v == values[c]
<1>1. r \in Seq(Kinds) /\ v \in Seq(Kinds) /\ <<>> \in Seq(Kinds)
  BY DEF CallsOK
<1>2. received'[c] = Append(r, Head(v)) /\ values'[c] = Tail(v) /\ v # <<>>
  OBVIOUS
<1> HIDE DEF r, v
<1>3. Append(r, Head(v)) \o Tail(v) = r \o v
  <2> DEFINE one == <<Head(v)>>
             t == Tail(v)
  <2>3. Head(v) \in Kinds
    BY <1>1, <1>2
  <2>1. one \in Seq(Kinds) /\ t \in Seq(Kinds) /\ v = one \o t /\ Append(r, Head(v)) = r \o one
    <3>1. one \in Seq(Kinds) /\ t \in Seq(Kinds)
      BY <1>1, <1>2, <2>3
    <3>2. v = one \o t
      BY <1>1, <1>2
    <3>3. Append(r, Head(v)) = r \o one
      BY <1>1, <2>3, AppendIs
    <3> QED
      BY <3>1, <3>2, <3>3
  <2> HIDE DEF one, t
  <2>2. r \o (one \o t) = (r \o one) \o t
    BY <1>1, <2>1
  <2> QED
    BY <2>1, <2>2 DEF t
<1>4. received'[c] \o values'[c] = received[c] \o values[c]
  BY <1>2, <1>3 DEF r, v
<1> QED
  BY <1>4 DEF OrderedAt, Got

\* The rpc loop forwards one.
LEMMA OrderedForward ==
    ASSUME CallsOK, Queues, Queues', NEW c \in Contexts, NEW k \in Kinds, OrderedAt(c),
           InFlight(c) = <<k>> \o InFlight(c)',
           answers'[c] = answers[c], received'[c] = received[c],
           values'[c] = Append(values[c], k), UNCHANGED <<lost, loop>>
    PROVE  OrderedAt(c)'
<1> DEFINE r == received[c]
           v == values[c]
           f == InFlight(c)'
           one == <<k>>
<1>1. r \in Seq(Kinds) /\ v \in Seq(Kinds) /\ f \in Seq(Kinds)
  BY FlightNext DEF CallsOK
<1>2. InFlight(c) = <<k>> \o f
  OBVIOUS
<1> HIDE DEF r, v, f
<1>3. values'[c] = v \o <<k>>
  <2>1. Append(v, k) = v \o <<k>>
    BY <1>1, AppendIs, Zenon
  <2> QED
    BY <2>1 DEF v
<1>4. (r \o v) \o (<<k>> \o f) = (r \o (v \o <<k>>)) \o f
  <2>1. InLine(r, v, f, k)
    BY <1>1, InOneLine
  <2> QED
    BY <2>1 DEF InLine
<1>5. Got(c)' = Got(c)
  BY <1>2, <1>3, <1>4 DEF Got, r, v, f
<1> QED
  BY <1>5 DEF OrderedAt

\* One more in the socket is one more of what is in flight.
OneMore(X, r, v, x, y, rest, k) ==
    /\ (r \o v \o (x \o y) \o <<>>) \o <<k>> = r \o v \o (x \o (y \o <<k>>)) \o <<>>
    /\ (r \o v \o <<>> \o rest) \o <<k>> = r \o v \o <<>> \o (rest \o <<k>>)
    /\ rest \o <<k>> \in Seq(X) /\ <<>> \in Seq(X)

\* It is, whether the rpc loop runs or not.
LEMMA AnswerInLine ==
    ASSUME NEW X, NEW r \in Seq(X), NEW v \in Seq(X), NEW x \in Seq(X), NEW y \in Seq(X),
           NEW rest \in Seq(X), NEW k \in X
    PROVE  OneMore(X, r, v, x, y, rest, k)
<1> DEFINE one == <<k>>
           none == <<>>
<1>1. one \in Seq(X) /\ none \in Seq(X)
  OBVIOUS
<1>2. \A s \in Seq(X) : s \o none = s
  OBVIOUS
<1> HIDE DEF one, none
<1>3. x \o (y \o one) = (x \o y) \o one /\ y \o one \in Seq(X)
  BY <1>1
<1> DEFINE rv == r \o v
           xy == x \o y
           p == rv \o xy
           s == rv \o none
           ro == rest \o one
<1>5. rv \in Seq(X) /\ xy \in Seq(X) /\ ro \in Seq(X)
  BY <1>1
<1> HIDE DEF rv, xy
<1>6. p \in Seq(X) /\ s \in Seq(X)
  BY <1>1, <1>5
<1>15. one \in Seq(X) /\ xy \in Seq(X) /\ rv \in Seq(X)
  BY <1>1, <1>5
<1>7. rv \o (xy \o one) = (rv \o xy) \o one
  BY <1>15
<1> HIDE DEF p, s
<1>16. one \in Seq(X) /\ s \in Seq(X)
  BY <1>1, <1>6
<1>8. s \o (rest \o one) = (s \o rest) \o one
  BY <1>16
<1> DEFINE po == p \o one
           sr == s \o rest
<1>9. po \in Seq(X) /\ sr \in Seq(X)
  BY <1>1, <1>6
<1> HIDE DEF po, sr, ro
<1>10. (p \o none) \o one = po \o none
  <2>1. p \o none = p /\ po \o none = po
    BY <1>2, <1>6, <1>9
  <2> QED
    BY <2>1 DEF po
<1>12. po = r \o v \o (x \o (y \o one))
  BY <1>3, <1>7 DEF po, p, rv, xy
<1>13. (r \o v \o (x \o y) \o none) \o one = r \o v \o (x \o (y \o one)) \o none
  BY <1>10, <1>12 DEF p, rv, xy
<1>14. (r \o v \o none \o rest) \o one = r \o v \o none \o (rest \o one)
  BY <1>8 DEF s, rv
<1> QED
  BY <1>1, <1>5, <1>13, <1>14 DEF OneMore, ro, one, none

\* The server sends one.
LEMMA OrderedAnswer ==
    ASSUME ThreadsOK, CallsOK, Queues, Queues', NEW c \in Contexts, NEW k \in Kinds,
           OrderedAt(c), ~lost,
           UNCHANGED <<loop, lost, commands, received, values>>
    PROVE  /\ from_server' = Append(from_server, Response(c, k))
           /\ answers'[c] = Append(answers[c], k)
           => OrderedAt(c)'
<1> DEFINE r == received[c]
           v == values[c]
           a == answers[c]
           x == AtLoop(commands, c)
           y == AtSocket(from_server, c)
           running == loop = "running"
<1>1. r \in Seq(Kinds) /\ v \in Seq(Kinds) /\ x \in Seq(Kinds) /\ y \in Seq(Kinds)
  BY Flight DEF CallsOK
<1>2. InFlight(c) = IF running THEN x \o y ELSE <<>>
  BY Flight
<1>3. PICK rest \in Seq(Kinds) : /\ a = r \o v \o (IF running THEN x \o y ELSE <<>>) \o rest
                                 /\ running => rest = <<>>
  BY <1>2 DEF OrderedAt, Got
<1>12. /\ r \in Seq(Kinds) /\ v \in Seq(Kinds) /\ x \in Seq(Kinds) /\ y \in Seq(Kinds)
      /\ rest \in Seq(Kinds) /\ k \in Kinds
  BY <1>1
<1>13. /\ (r \o v \o (x \o y) \o <<>>) \o <<k>> = r \o v \o (x \o (y \o <<k>>)) \o <<>>
       /\ (r \o v \o <<>> \o rest) \o <<k>> = r \o v \o <<>> \o (rest \o <<k>>)
       /\ rest \o <<k>> \in Seq(Kinds) /\ <<>> \in Seq(Kinds)
  <2> HIDE DEF r, v, a, x, y, running
  <2>1. OneMore(Kinds, r, v, x, y, rest, k)
    BY <1>12, AnswerInLine
  <2> QED
    BY <2>1 DEF OneMore
<1> HAVE /\ from_server' = Append(from_server, Response(c, k))
         /\ answers'[c] = Append(answers[c], k)
<1>4. InFlight(c)' = IF running THEN x \o (y \o <<k>>) ELSE <<>>
  <2>1. from_server \in Seq(Message) /\ Response(c, k) \in Message
    BY QueueTypes, Messages0
  <2>2. AtSocket(from_server', c) = y \o <<k>>
    BY <2>1, AtSocketMoves
  <2> QED
    BY <2>2, FlightNext
<1>5. /\ received'[c] = r /\ values'[c] = v /\ answers'[c] = Append(a, k)
      /\ running \in BOOLEAN /\ (loop' = "ended" <=> ~running)
  BY DEF ThreadsOK
<1>6. Got(c)' = r \o v \o (IF running THEN x \o (y \o <<k>>) ELSE <<>>)
  BY <1>4, <1>5 DEF Got
<1> DEFINE none == <<>>
           some == rest \o <<k>>
           more == x \o (y \o <<k>>)
<1> HIDE DEF r, v, a, x, y, running, none, some, more
<1>7. /\ (r \o v \o (x \o y) \o none) \o <<k>> = r \o v \o more \o none
      /\ (r \o v \o none \o rest) \o <<k>> = r \o v \o none \o some
      /\ some \in Seq(Kinds) /\ none \in Seq(Kinds)
  BY <1>13 DEF none, some, more
<1>11. answers'[c] = a \o <<k>>
  <2>1. a \in Seq(Kinds) /\ k \in Kinds
    BY DEF CallsOK, a
  <2> QED
    BY <1>5, <2>1, AppendIs
<1> DEFINE z == IF running THEN none ELSE some
<1>8. answers'[c] = Got(c)' \o z /\ (z = <<>> \/ lost' \/ loop' = "ended") /\ z \in Seq(Kinds)
  <2> HIDE DEF none, some, more
  <2>1. CASE running
    <3>1. a = r \o v \o (x \o y) \o none
      BY <1>3, <2>1 DEF none
    <3>2. answers'[c] = r \o v \o more \o none
      BY <1>7, <1>11, <3>1
    <3>3. Got(c)' = r \o v \o more
      BY <1>6, <2>1 DEF more
    <3> QED
      BY <1>7, <2>1, <3>2, <3>3 DEF none
  <2>2. CASE ~running
    <3>1. a = r \o v \o none \o rest
      BY <1>3, <2>2 DEF none
    <3>2. answers'[c] = r \o v \o none \o some
      BY <1>7, <1>11, <3>1
    <3>3. Got(c)' = r \o v \o none
      BY <1>6, <2>2 DEF none
    <3> QED
      BY <1>5, <1>7, <2>2, <3>2, <3>3
  <2> QED
    BY <1>5, <2>1, <2>2
<1> QED
  BY <1>8 DEF OrderedAt

\* The rpc loop ends.
LEMMA OrderedEnd ==
    ASSUME CallsOK, Queues, Queues', NEW c \in Contexts, OrderedAt(c), loop' = "ended",
           answers'[c] = answers[c], received'[c] = received[c], values'[c] = values[c]
    PROVE  OrderedAt(c)'
<1> DEFINE r == received[c]
           v == values[c]
           f == InFlight(c)
           rv == r \o v
<1>1. r \in Seq(Kinds) /\ v \in Seq(Kinds) /\ f \in Seq(Kinds)
  BY Flight DEF CallsOK
<1>2. PICK rest \in Seq(Kinds) : answers[c] = r \o v \o f \o rest
  BY DEF OrderedAt, Got
<1>3. received'[c] = r /\ values'[c] = v /\ InFlight(c)' = <<>>
  BY FlightNext
<1> HIDE DEF r, v, f
<1>4. rv \in Seq(Kinds) /\ rv \o <<>> = rv
  BY <1>1
<1>5. Got(c)' = rv
  BY <1>3, <1>4 DEF Got
<1>6. f \o rest \in Seq(Kinds)
  BY <1>1
<1> HIDE DEF rv
<1>7. rv \o (f \o rest) = (rv \o f) \o rest
  BY <1>1, <1>4
<1>8. answers'[c] = Got(c)' \o (f \o rest)
  BY <1>2, <1>5, <1>7 DEF rv
<1> QED
  BY <1>6, <1>8 DEF OrderedAt

\* The connection is lost, and the last messages in the socket with it.
LEMMA OrderedLost ==
    ASSUME CallsOK, Queues, Queues', NEW c \in Contexts, OrderedAt(c), lost',
           NEW n \in 0 .. Len(from_server), from_server' = SubSeq(from_server, 1, n),
           UNCHANGED <<loop, commands, answers, received, values>>
    PROVE  OrderedAt(c)'
<1> DEFINE kept == SubSeq(from_server, 1, n)
           gone == SubSeq(from_server, n + 1, Len(from_server))
<1>0. from_server \in Seq(Message)
  BY QueueTypes
<1>1. kept \in Seq(Message) /\ gone \in Seq(Message) /\ from_server = kept \o gone
  BY <1>0, Splits
<1>2. from_server' = kept
  OBVIOUS
<1> DEFINE x == AtLoop(commands, c)
           y == AtSocket(kept, c)
           z == AtSocket(gone, c)
           f1 == InFlight(c)'
           rv == received[c] \o values[c]
<1> HIDE DEF kept, gone
<1>3. AtSocket(from_server, c) = y \o z /\ y \in Seq(Kinds) /\ z \in Seq(Kinds)
  BY <1>1, AtSocketStep
<1>4. x \in Seq(Kinds) /\ f1 \in Seq(Kinds)
  BY Flight, FlightNext
<1>5. InFlight(c) = IF loop = "running" THEN x \o (y \o z) ELSE <<>>
  BY <1>3, Flight
<1>6. f1 = IF loop = "running" THEN x \o y ELSE <<>>
  BY <1>2, FlightNext
<1>7. rv \in Seq(Kinds)
  BY DEF CallsOK
<1>8. Got(c)' = rv \o f1
  BY DEF Got
<1>9. PICK rest \in Seq(Kinds) : answers[c] = rv \o InFlight(c) \o rest
  BY DEF OrderedAt, Got
<1> HIDE DEF x, y, z, f1, rv
<1>10. \E g \in Seq(Kinds) : InFlight(c) = f1 \o g
  <2>1. CASE loop = "running"
    <3>2. x \in Seq(Kinds) /\ y \in Seq(Kinds) /\ z \in Seq(Kinds)
      BY <1>3, <1>4
    <3>1. x \o (y \o z) = (x \o y) \o z
      BY <3>2
    <3> QED
      BY <1>3, <1>5, <1>6, <2>1, <3>1
  <2>2. CASE loop # "running"
    <3> DEFINE none == <<>>
    <3>1. none \in Seq(Kinds) /\ none \o none = none
      OBVIOUS
    <3>2. InFlight(c) = none /\ f1 = none
      BY <1>5, <1>6, <2>2
    <3> HIDE DEF none
    <3> QED
      BY <3>1, <3>2
  <2> QED
    BY <2>1, <2>2
<1>11. PICK g \in Seq(Kinds) : InFlight(c) = f1 \o g
  BY <1>10
<1>12. (rv \o (f1 \o g)) \o rest = (rv \o f1) \o (g \o rest) /\ g \o rest \in Seq(Kinds)
  <2>1. rv \o (f1 \o g) = (rv \o f1) \o g
    <3>1. rv \in Seq(Kinds) /\ f1 \in Seq(Kinds) /\ g \in Seq(Kinds)
      BY <1>4, <1>7
    <3> QED
      BY <3>1
  <2> DEFINE rf == rv \o f1
  <2>2. rf \in Seq(Kinds)
    BY <1>4, <1>7
  <2> HIDE DEF rf
  <2>3. rf \o (g \o rest) = (rf \o g) \o rest
    BY <2>2, <1>11
  <2>4. g \o rest \in Seq(Kinds)
    BY <1>9, <1>11
  <2> QED
    BY <2>1, <2>3, <2>4 DEF rf
<1>13. answers'[c] = Got(c)' \o (g \o rest)
  BY <1>8, <1>9, <1>11, <1>12
<1> QED
  BY <1>12, <1>13 DEF OrderedAt

\* Nothing is on its way to a context that is not there yet.
LEMMA NothingFor ==
    ASSUME Queues, made \subseteq Contexts, NEW c \in Contexts, c \notin made
    PROVE  AtLoop(commands, c) = <<>> /\ AtSocket(from_server, c) = <<>>
<1> DEFINE u == Only(commands, ToReceive(c))
           w == Only(from_server, Responses(c))
<1>1. CommandOf(made) \cap ToReceive(c) = {} /\ MessageOf(made) \cap Responses(c) = {}
  <2>1. ASSUME NEW m \in MessageOf(made), m \in Responses(c)
        PROVE  FALSE
    <3>1. m.context = c
      BY <2>1, ResponseFacts
    <3>2. m.context \in made
      BY DEF MessageOf
    <3> QED
      BY <3>1, <3>2
  <2>2. ASSUME NEW x \in CommandOf(made), x \in ToReceive(c)
        PROVE  FALSE
    <3>1. x.command = "Received" /\ x.message \in Responses(c)
      BY <2>2, ResponseFacts
    <3>2. x.message \in MessageOf(made)
      BY <3>1, Made
    <3> QED
      BY <2>1, <3>1, <3>2
  <2> QED
    BY <2>1, <2>2
<1>2. u \in Seq({}) /\ w \in Seq({})
  <2>1. u \in Seq(CommandOf(made) \cap ToReceive(c))
    BY OnlyType DEF Queues
  <2>2. w \in Seq(MessageOf(made) \cap Responses(c))
    BY OnlyType DEF Queues
  <2> QED
    BY <1>1, <2>1, <2>2
<1>3. \A s \in Seq({}) : s = <<>>
  OBVIOUS
<1> HIDE DEF u, w
<1>4. u = <<>> /\ w = <<>>
  BY <1>2, <1>3
<1>5. \A f : Mapped(<<>>, f) = <<>>
  BY DEF Mapped
<1> QED
  BY <1>4, <1>5 DEF AtLoop, AtSocket, u, w

\* A context that is new: nothing was sent to it, and nothing has come.
LEMMA OrderedNew ==
    ASSUME Queues, Queues', CallsOK, NEW c \in Contexts, c \notin made,
           commands' = Append(commands, OutgoingCall(c)),
           UNCHANGED <<from_server, answers, received, values>>
    PROVE  OrderedAt(c)'
<1> DEFINE none == <<>>
<1>1. answers'[c] = none /\ received'[c] = none /\ values'[c] = none
  BY DEF CallsOK
<1>2. AtLoop(commands, c) = none /\ AtSocket(from_server', c) = none
  BY NothingFor DEF CallsOK
<1>3. AtLoop(commands', c) = none
  <2>1. /\ commands \in Seq(Command) /\ OutgoingCall(c) \in Command
        /\ OutgoingCall(c) \notin ToReceive(c)
    BY QueueTypes, Commands0, ResponseFacts
  <2> QED
    BY <1>2, <2>1, AtLoopMoves
<1>4. none \o none = none /\ none \in Seq(Kinds)
  OBVIOUS
<1> HIDE DEF none
<1>5. InFlight(c)' = none
  <2>1. InFlight(c)' = IF loop' = "running"
                       THEN AtLoop(commands', c) \o AtSocket(from_server', c) ELSE <<>>
    BY FlightNext
  <2> QED
    BY <1>2, <1>3, <1>4, <2>1 DEF none
<1>6. Got(c)' = none
  BY <1>1, <1>4, <1>5 DEF Got
<1> QED
  BY <1>1, <1>4, <1>6 DEF OrderedAt, none

\* Whatever else the queues lose or get, the responses to c are there as before.
LEMMA OrderedQuiet ==
    ASSUME Queues, Queues', NEW c \in Contexts, OrderedAt(c), loop' = loop,
           AtLoop(commands', c) = AtLoop(commands, c),
           AtSocket(from_server', c) = AtSocket(from_server, c),
           answers'[c] = answers[c], received'[c] = received[c], values'[c] = values[c],
           lost => lost'
    PROVE  OrderedAt(c)'
<1>1. InFlight(c)' = InFlight(c)
  BY Flight, FlightNext
<1> QED
  BY <1>1, OrderedStays

\* Commands of the program's threads are none.
LEMMA OrderedDeliver ==
    ASSUME Queues, Queues', NEW c \in Contexts, OrderedAt(c),
           NEW x \in Command, x.command # "Received", Deliver(x),
           UNCHANGED <<loop, lost, from_server, answers>>,
           received'[c] = received[c], values'[c] = values[c]
    PROVE  OrderedAt(c)'
<1>1. commands \in Seq(Command) /\ x \notin ToReceive(c)
  BY QueueTypes, ResponseFacts
<1>2. AtLoop(Append(commands, x), c) = AtLoop(commands, c)
  BY <1>1, AtLoopMoves
<1>3. commands' = Append(commands, x)
  BY DEF Deliver
<1> QED
  BY <1>2, <1>3, OrderedQuiet

\* The read thread hands the next message to the rpc loop, or drops it when that has ended.
LEMMA OrderedRead ==
    ASSUME ThreadsOK, Queues, Queues', NEW c \in Contexts, OrderedAt(c), read_message
    PROVE  OrderedAt(c)'
<1> USE DEF queue, jobs, handler, calls, server
<1> DEFINE m == Head(from_server)
<1>1. /\ from_server # <<>> /\ from_server' = Tail(from_server)
      /\ UNCHANGED <<loop, answers, received, values, lost>>
  BY DEF read_message
<1>2. commands \in Seq(Command) /\ from_server \in Seq(Message) /\ m \in Message
  BY <1>1, QueueTypes
<1>3. CASE loop = "running"
  <2>1. commands' = Append(commands, Received(m))
    BY <1>3 DEF read_message
  <2>2. Received(m) \in Command /\ (Received(m) \in ToReceive(c) <=> m \in Responses(c))
    BY <1>2, Commands0, ResponseFacts
  <2>3. CASE m \notin Responses(c)
    <3>1. AtLoop(commands', c) = AtLoop(commands, c)
      BY <1>2, <2>1, <2>2, <2>3, AtLoopMoves
    <3>2. AtSocket(from_server', c) = AtSocket(from_server, c)
      BY <1>1, <1>2, <2>3, AtSocketMoves
    <3> QED
      BY <1>1, <3>1, <3>2, OrderedQuiet
  <2>4. CASE m \in Responses(c)
    <3>1. PICK k \in Kinds : m = Response(c, k)
      BY <2>4 DEF Responses
    <3>2. AtLoop(commands', c) = AtLoop(commands, c) \o <<k>>
      BY <1>2, <2>1, <2>2, <3>1, AtLoopMoves
    <3>3. AtSocket(from_server, c) = <<k>> \o AtSocket(from_server', c)
      BY <1>1, <1>2, <3>1, AtSocketMoves
    <3> DEFINE x == AtLoop(commands, c)
               y == AtSocket(from_server', c)
               one == <<k>>
    <3>4. x \in Seq(Kinds) /\ y \in Seq(Kinds) /\ one \in Seq(Kinds)
      BY Flight, FlightNext
    <3> HIDE DEF x, y, one, m
    <3>5. x \o (one \o y) = (x \o one) \o y
      BY <3>4
    <3>6. InFlight(c) = x \o (one \o y)
      BY <1>3, <3>3, Flight DEF x, y, one
    <3>7. InFlight(c)' = (x \o one) \o y
      BY <1>1, <1>3, <3>2, FlightNext DEF x, y, one
    <3>8. InFlight(c)' = InFlight(c)
      BY <3>5, <3>6, <3>7
    <3> QED
      BY <1>1, <3>8, OrderedStays
  <2> QED
    BY <2>3, <2>4
<1>4. CASE loop # "running"
  <2>1. InFlight(c) = <<>> /\ InFlight(c)' = <<>>
    BY <1>1, <1>4, Flight, FlightNext
  <2> QED
    BY <1>1, <2>1, OrderedStays
<1> QED
  BY <1>3, <1>4

\* The rpc loop takes a message: a response to a context of this client is forwarded to it.
LEMMA OrderedReceived ==
    ASSUME ThreadsOK, CallsOK, Queues, Queues', Known, NEW c \in Contexts, c \in open,
           OrderedAt(c), HandleReceived
    PROVE  OrderedAt(c)'
<1> USE DEF threads, queue, jobs, handler, calls, socket, server
<1> DEFINE x == Head(commands)
           m == x.message
<1>1. /\ loop = "running" /\ commands # <<>> /\ commands' = Tail(commands)
      /\ x.command = "Received"
      /\ UNCHANGED <<loop, answers, received, lost, from_server>>
  BY DEF HandleReceived, Handling
<1>2. commands \in Seq(Command) /\ x \in Command
  BY <1>1, QueueTypes
<1>3. m \in Message /\ x = Received(m)
  BY <1>1, <1>2, Commands1
<1>4. x \in ToReceive(c) <=> m \in Responses(c)
  BY <1>3, ResponseFacts
<1>5. values \in [Contexts -> Seq(Kinds)] /\ m.context \in Contexts
  BY <1>3, Messages0 DEF CallsOK
<1>6. \/ m.type # "RpcResponse" /\ UNCHANGED values
      \/ m.type = "RpcResponse" /\ ReceivedResponse(m)
  BY <1>1 DEF HandleReceived, ReceivedCall, ReceivedCancel
<1> HIDE DEF m, x
<1>7. CASE m \notin Responses(c)
  <2>1. values'[c] = values[c]
    <3>1. m.type = "RpcResponse" => m.context # c
      BY <1>3, <1>7, ResponseFacts
    <3> QED
      BY <1>5, <1>6, <3>1 DEF ReceivedResponse
  <2>2. AtLoop(commands', c) = AtLoop(commands, c)
    BY <1>1, <1>2, <1>4, <1>7, AtLoopMoves DEF x
  <2> QED
    BY <1>1, <2>1, <2>2, OrderedQuiet
<1>8. CASE m \in Responses(c)
  <2>1. PICK k \in Kinds : m = Response(c, k)
    BY <1>8 DEF Responses
  <2>2. m.type = "RpcResponse" /\ m.context = c /\ m.kind = k
    BY <2>1, Messages0
  <2>3. AtLoop(commands, c) = <<k>> \o AtLoop(commands', c)
    <3>1. Head(commands) = Received(Response(c, k))
      BY <1>3, <2>1 DEF x
    <3> QED
      BY <1>1, <1>2, <3>1, AtLoopMoves
  <2> DEFINE one == <<k>>
             p == AtLoop(commands', c)
             q == AtSocket(from_server, c)
  <2>4. p \in Seq(Kinds) /\ q \in Seq(Kinds) /\ one \in Seq(Kinds)
    BY Flight, FlightNext
  <2>5. InFlight(c) = (one \o p) \o q /\ InFlight(c)' = p \o q
    BY <1>1, <2>3, Flight, FlightNext
  <2>10. one # <<>>
    OBVIOUS
  <2> HIDE DEF one, p, q
  <2>6. one \o (p \o q) = (one \o p) \o q
    BY <2>4
  <2>7. answers[c] # <<>>
    <3> DEFINE r == received[c]
               v == values[c]
               f == InFlight(c)
               a == answers[c]
    <3>1. r \in Seq(Kinds) /\ v \in Seq(Kinds) /\ f \in Seq(Kinds)
      BY Flight DEF CallsOK
    <3>2. PICK rest \in Seq(Kinds) : a = r \o v \o f \o rest
      BY DEF OrderedAt, Got
    <3>3. Len(f) # 0
      <4>1. f = (one \o p) \o q
        BY <2>5
      <4>2. Len(one) = 1
        BY DEF one
      <4>3. one \o p \in Seq(Kinds) /\ Len(one \o p) = Len(one) + Len(p) /\ Len(p) \in Nat
        BY <2>4, Lengths
      <4> DEFINE op1 == one \o p
      <4> HIDE DEF op1
      <4>4. op1 \in Seq(Kinds)
        BY <4>3 DEF op1
      <4>5. Len(op1 \o q) = Len(op1) + Len(q) /\ Len(q) \in Nat
        BY <2>4, <4>4, Lengths
      <4> QED
        BY <4>1, <4>2, <4>3, <4>5 DEF op1
    <3> HIDE DEF r, v, f, a
    <3> DEFINE rv == r \o v
               g == rv \o f
    <3>4. rv \in Seq(Kinds)
      BY <3>1
    <3> HIDE DEF rv
    <3>5. g \in Seq(Kinds) /\ Len(g) = Len(rv) + Len(f) /\ Len(rv) \in Nat /\ Len(f) \in Nat
      BY <3>1, <3>4, Lengths
    <3> HIDE DEF g
    <3>6. Len(g \o rest) = Len(g) + Len(rest) /\ Len(rest) \in Nat
      BY <3>5, Lengths
    <3>7. Len(a) # 0
      <4>1. a = g \o rest
        BY <3>2 DEF g, rv
      <4> QED
        BY <3>3, <3>5, <3>6, <4>1
    <3> QED
      BY <3>7 DEF a
  <2>8. c \in running_function_calls
    BY <1>1, <2>7 DEF Known, KnownHere, KnownCalls, Asked, CallsOK
  <2>9. values'[c] = Append(values[c], k)
    BY <1>5, <1>6, <2>2, <2>8 DEF ReceivedResponse
  <2>11. InFlight(c) = <<k>> \o InFlight(c)'
    BY <2>5, <2>6 DEF one
  <2> QED
    BY <1>1, <2>9, <2>11, OrderedForward
<1> QED
  BY <1>7, <1>8

\* The server gets a message, and may answer it.
LEMMA OrderedWrite ==
    ASSUME ThreadsOK, CallsOK, Queues, Queues', NEW c \in Contexts, c \in open,
           OrderedAt(c), write_message
    PROVE  OrderedAt(c)'
<1> USE DEF threads, queue, jobs, handler, calls
<1> DEFINE m == Head(send_queue)
<1>1. /\ send_queue # <<>> /\ Route(m) /\ ~lost
      /\ UNCHANGED <<loop, commands, received, values, lost, made, program>>
  BY DEF write_message
<1>2. m \in MessageOf(made) /\ from_server \in Seq(Message)
  BY <1>1, QueueTypes DEF Queues
<1> HIDE DEF m
<1>3. m \in Message /\ m.context \in made /\ made \subseteq Contexts
  BY <1>2 DEF MessageOf, CallsOK
<1>4. CASE UNCHANGED <<from_server, answers>>
  BY <1>1, <1>4, OrderedQuiet
<1>5. ASSUME UNCHANGED answers, NEW d \in made,
             from_server' \in {Append(from_server, RpcCall(d)), Append(from_server, RpcCancel(d))}
      PROVE  OrderedAt(c)'
  <2>1. /\ RpcCall(d) \in Message /\ RpcCall(d) \notin Responses(c)
        /\ RpcCancel(d) \in Message /\ RpcCancel(d) \notin Responses(c)
    BY <1>3, Messages0, ResponseFacts
  <2>2. AtSocket(from_server', c) = AtSocket(from_server, c)
    BY <1>2, <1>5, <2>1, AtSocketMoves
  <2> QED
    BY <1>1, <1>5, <2>2, OrderedQuiet
<1>6. ASSUME NEW k \in Kinds, Answer(m.context, k)
      PROVE  OrderedAt(c)'
  <2>1. CASE m.context = c
    <3>1. from_server' = Append(from_server, Response(c, k)) /\ answers'[c] = Append(answers[c], k)
      BY <1>3, <1>6, <2>1, AnswerOK DEF Answer
    <3> QED
      BY <1>1, <3>1, OrderedAnswer
  <2>2. CASE m.context # c
    <3>1. answers'[c] = answers[c]
      BY <1>3, <1>6, <2>2, AnswerOK
    <3>2. Response(m.context, k) \in Message /\ Response(m.context, k) \notin Responses(c)
      <4>1. m.context \in Contexts
        BY <1>3
      <4>2. /\ Response(m.context, k) \in Message
            /\ Response(m.context, k).context = m.context
        BY <4>1, Messages0
      <4>3. \A x \in Responses(c) : x.context = c
        BY ResponseFacts
      <4> QED
        BY <2>2, <4>2, <4>3, Zenon
    <3>3. AtSocket(from_server', c) = AtSocket(from_server, c)
      BY <1>2, <1>6, <3>2, AtSocketMoves DEF Answer
    <3> QED
      BY <1>1, <3>1, <3>3, OrderedQuiet
  <2> QED
    BY <2>1, <2>2
<1> QED
  BY <1>1, <1>2, <1>4, <1>5, <1>6, Routes

\* Every step: what each context gets stays what was sent to it.
LEMMA OrderedStep ==
    ASSUME Typed, Typed', Next, Known, Ordered
    PROVE  Ordered'
<1> USE DEF threads, queue, jobs, handler, calls, socket, server
<1> SUFFICES ASSUME NEW d \in open'
             PROVE  OrderedAt(d)'
  BY DEF Ordered
<1>0. /\ Queues /\ Queues' /\ CallsOK /\ ThreadsOK /\ made \subseteq Contexts /\ d \in Contexts
      /\ commands \in Seq(Command) /\ from_server \in Seq(Message) /\ open \subseteq made
      /\ send_queue \in Seq(Message) /\ (d \in open => OrderedAt(d))
  BY QueueTypes DEF Typed, CallsOK, Ordered
<1>1. ASSUME d \in open, UNCHANGED <<loop, commands, from_server, answers, lost>>,
             received'[d] = received[d], values'[d] = values[d]
      PROVE  OrderedAt(d)'
  BY <1>0, <1>1, OrderedQuiet
<1>2. ASSUME d \in open, UNCHANGED <<loop, lost, from_server, answers>>,
             received'[d] = received[d], values'[d] = values[d],
             NEW x \in Command, x.command # "Received", Deliver(x)
      PROVE  OrderedAt(d)'
  BY <1>0, <1>2, OrderedDeliver
<1>3. ASSUME NEW t, NEW c \in Contexts, NEW state, ContextNew(t, c, state)
      PROVE  OrderedAt(d)'
  <2>1. UNCHANGED <<loop, lost, from_server, answers, received, values>> /\ c \notin made
    BY <1>3 DEF ContextNew
  <2>2. \/ Deliver(OutgoingCall(c)) /\ open' = open \cup {c}
        \/ UNCHANGED <<commands, open>>
    BY <1>3 DEF ContextNew
  <2>3. CASE d \in open
    <3>1. OutgoingCall(c) \in Command /\ OutgoingCall(c).command # "Received"
      BY Commands0
    <3> QED
      BY <1>1, <1>2, <2>1, <2>2, <2>3, <3>1
  <2>4. CASE d \notin open
    <3>1. d = c /\ commands' = Append(commands, OutgoingCall(c))
      BY <2>2, <2>4 DEF Deliver
    <3> QED
      BY <1>0, <2>1, <3>1, OrderedNew
  <2> QED
    BY <2>3, <2>4
<1>4. ASSUME NEW c \in made, TakeValue(c), UNCHANGED <<commands, from_server, answers, lost, loop>>,
             UNCHANGED open
      PROVE  OrderedAt(d)'
  <2>1. /\ values[c] # <<>> /\ values'[c] = Tail(values[c])
        /\ received'[c] = Append(received[c], Head(values[c]))
        /\ \A e \in Contexts \ {c} : values'[e] = values[e] /\ received'[e] = received[e]
    BY <1>0, <1>4, Takes
  <2>2. CASE d = c
    <3>1. InFlight(d)' = InFlight(d)
      BY <1>4 DEF InFlight
    <3> QED
      BY <1>0, <1>4, <2>1, <2>2, <3>1, OrderedTake
  <2>3. CASE d # c
    BY <1>0, <1>1, <1>4, <2>1, <2>3
  <2> QED
    BY <2>2, <2>3
<1>5. ASSUME NEW cs, Consume(cs)
      PROVE  d \in open /\ values'[d] = values[d]
  <2>1. open' = open \ cs /\ \A e \in Contexts \ cs : values'[e] = values[e]
    BY <1>0, <1>5, Consumes
  <2> QED
    BY <1>0, <2>1
<1>6. ASSUME loop' = "ended", UNCHANGED <<open, answers, received, values>>
      PROVE  OrderedAt(d)'
  BY <1>0, <1>6, OrderedEnd
<1>7. CASE UserStep
  <2>1. CASE (\E t \in Users, c \in Contexts : Call(t, c)) \/ \E c \in Contexts : new_rpc(c)
    BY <1>3, <2>1 DEF Call, new_rpc
  <2>2. ASSUME NEW t \in Callers, NEW c \in Contexts, try_recv(t, c)
        PROVE  OrderedAt(d)'
    <3>1. c \in made
      BY <1>0, <2>2 DEF try_recv, Uses, Held
    <3> QED
      BY <1>4, <2>2, <3>1 DEF try_recv
  <2>3. ASSUME NEW t \in Callers, NEW c \in Contexts, cancel(t, c)
        PROVE  OrderedAt(d)'
    <3>1. /\ Consume({c}) /\ UNCHANGED <<loop, from_server, answers, lost, received>>
          /\ Deliver(CancelOutgoingRpc(c)) \/ UNCHANGED commands
      BY <2>3 DEF cancel
    <3>2. CancelOutgoingRpc(c) \in Command /\ CancelOutgoingRpc(c).command # "Received"
      BY Commands0
    <3> QED
      BY <1>1, <1>2, <1>5, <3>1, <3>2
  <2>4. ASSUME NEW t \in Callers, NEW c \in Contexts, DropContext(t, c)
        PROVE  OrderedAt(d)'
    BY <1>1, <1>5, <2>4 DEF DropContext
  <2>5. CASE \E t \in Callers, c \in Contexts, how \in {"recv", "wait"} : Block(t, c, how)
    BY <1>1, <2>5 DEF Block
  <2>6. CASE Drop
    BY <1>1, <1>2, <2>6, Commands0 DEF Drop
  <2> QED
    BY <1>7, <2>1, <2>2, <2>3, <2>4, <2>5, <2>6 DEF UserStep
<1>8. CASE Waiting
  <2>1. ASSUME NEW t \in Callers, recv(t)
        PROVE  OrderedAt(d)'
    <3> DEFINE c == op[t].context
    <3>1. TakeValue(c) /\ Blocked(t) /\ UNCHANGED <<commands, from_server, answers, lost, loop, open>>
      BY <2>1 DEF recv, Blocked
    <3>2. c \in made
      BY <1>0, <3>1 DEF Typed, UsersOK, Held
    <3> QED
      BY <1>4, <3>1, <3>2
  <2>2. CASE \E t \in Callers : recv_returns(t)
    BY <1>1, <2>2 DEF recv_returns
  <2> QED
    BY <1>8, <2>1, <2>2 DEF Waiting
<1>9. CASE new_rpc_ends
  BY <1>1, <1>2, <1>9, Commands0 DEF new_rpc_ends
<1>10. CASE JobStep
  <2>1. ASSUME NEW j \in Contexts, update(j)
        PROVE  OrderedAt(d)'
    <3>1. Updates(j) \in Nat /\ Updates(j) < MaxPartial
      BY <1>0, <2>1, NextPartial DEF update
    <3>2. Updates(j) + 1 \in Kinds
      BY <3>1, NextPartial
    <3> DEFINE x == Send(Response(j, Updates(j) + 1))
    <3>3. x \in Command /\ x.command # "Received"
      BY <3>2, Messages0, Commands0
    <3>4. Deliver(x) /\ UNCHANGED <<loop, lost, from_server, answers, received, values, open>>
      BY <2>1 DEF update
    <3> HIDE DEF x
    <3> QED
      BY <1>2, <3>3, <3>4
  <2>2. ASSUME NEW j \in Contexts, finish(j)
        PROVE  OrderedAt(d)'
    <3> DEFINE x == Send(Response(j, Last))
    <3>1. x \in Command /\ x.command # "Received"
      BY NextPartial, Messages0, Commands0
    <3>2. /\ UNCHANGED <<loop, lost, from_server, answers, received>>
          /\ Deliver(x) \/ UNCHANGED commands
          /\ Consume({c \in open : Held("pool", c)})
      BY <2>2 DEF finish
    <3> HIDE DEF x
    <3> QED
      BY <1>1, <1>2, <1>5, <3>1, <3>2
  <2>3. CASE \E j \in Contexts : check_liveness(j)
    BY <1>1, <2>3 DEF check_liveness
  <2>4. CASE \E c \in Contexts : NestedCall(c)
    BY <1>3, <2>4 DEF NestedCall
  <2> QED
    BY <1>10, <2>1, <2>2, <2>3, <2>4 DEF JobStep
<1>11. CASE LoopStep
  <2>1. CASE HandleQuit
    BY <1>6, <2>1 DEF HandleQuit, LoopEnds
  <2>2. ASSUME UNCHANGED <<loop, lost, open, from_server, answers, received, values>>,
               commands # <<>>, commands' = Tail(commands), Head(commands).command # "Received"
        PROVE  OrderedAt(d)'
    <3>1. Head(commands) \notin ToReceive(d)
      BY <1>0, <2>2, ResponseFacts
    <3>2. AtLoop(Tail(commands), d) = AtLoop(commands, d)
      BY <1>0, <2>2, <3>1, AtLoopMoves, QueueFacts
    <3> QED
      BY <1>0, <2>2, <3>2, OrderedQuiet
  <2>3. CASE HandleNewRpc
    BY <2>2, <2>3 DEF HandleNewRpc, Handling
  <2>4. CASE HandleReceived
    <3>1. d \in open
      BY <2>4 DEF HandleReceived
    <3> QED
      BY <1>0, <2>4, <3>1, OrderedReceived
  <2>5. CASE HandleOutgoing
    <3>1. CASE writer = "running"
      <4>1. Head(commands).command # "Received"
        BY <2>5 DEF HandleOutgoing, Outgoing
      <4> QED
        BY <2>2, <2>5, <3>1, <4>1 DEF HandleOutgoing
    <3>2. CASE writer # "running"
      BY <1>6, <2>5, <3>2 DEF HandleOutgoing, LoopEnds
    <3> QED
      BY <3>1, <3>2
  <2> QED
    BY <1>11, <2>1, <2>3, <2>4, <2>5 DEF LoopStep
<1>12. CASE ReadStep
  <2>1. CASE read_message
    <3>1. d \in open
      BY <2>1 DEF read_message
    <3> QED
      BY <1>0, <2>1, <3>1, OrderedRead
  <2>2. CASE read_fails
    BY <1>1, <2>2 DEF read_fails
  <2> QED
    BY <1>12, <2>1, <2>2 DEF ReadStep
<1>13. CASE WriteStep
  <2>1. CASE write_message
    <3>1. d \in open
      BY <2>1 DEF write_message
    <3> QED
      BY <1>0, <2>1, <3>1, OrderedWrite
  <2>2. CASE write_fails \/ write_thread_ends
    BY <1>1, <2>2 DEF write_fails, write_thread_ends
  <2> QED
    BY <1>13, <2>1, <2>2 DEF WriteStep
<1>14. CASE Join
  BY <1>1, <1>14 DEF Join
<1>15. ASSUME NEW c \in Contexts, ServerAnswers(c)
       PROVE  OrderedAt(d)'
  <2>1. /\ c \in made /\ ~lost /\ Len(answers[c]) \in Nat
        /\ UNCHANGED <<loop, commands, received, values, lost, open>>
    BY <1>0, <1>15 DEF ServerAnswers, CallsOK
  <2>2. PICK k \in Kinds : Answer(c, k)
    BY <1>15, <2>1, NextPartial DEF ServerAnswers
  <2>3. CASE d = c
    <3>1. from_server' = Append(from_server, Response(c, k)) /\ answers'[c] = Append(answers[c], k)
      BY <1>0, <2>1, <2>2, AnswerOK DEF Answer
    <3> QED
      BY <1>0, <2>1, <2>3, <3>1, OrderedAnswer
  <2>4. CASE d # c
    <3>1. answers'[d] = answers[d]
      BY <1>0, <2>1, <2>2, <2>4, AnswerOK
    <3>2. Response(c, k) \in Message /\ Response(c, k) \notin Responses(d)
      <4>1. Response(c, k) \in Message /\ Response(c, k).context = c
        BY Messages0
      <4>2. \A m \in Responses(d) : m.context = d
        BY <1>0, ResponseFacts
      <4> QED
        BY <2>4, <4>1, <4>2, Zenon
    <3>3. AtSocket(from_server', d) = AtSocket(from_server, d)
      BY <1>0, <2>2, <3>2, AtSocketMoves DEF Answer
    <3> QED
      BY <1>0, <2>1, <3>1, <3>3, OrderedQuiet
  <2> QED
    BY <2>3, <2>4
<1>16. ASSUME NEW c \in Contexts, ForeignCall(c) \/ ForeignCancel(c)
       PROVE  OrderedAt(d)'
  <2>1. /\ UNCHANGED <<loop, commands, received, values, lost, open, answers>>
        /\ \/ from_server' = Append(from_server, RpcCall(c))
           \/ from_server' = Append(from_server, RpcCancel(c))
    BY <1>16 DEF ForeignCall, ForeignCancel
  <2>2. /\ RpcCall(c) \in Message /\ RpcCall(c) \notin Responses(d)
        /\ RpcCancel(c) \in Message /\ RpcCancel(c) \notin Responses(d)
    BY <1>0, Messages0, ResponseFacts
  <2>3. AtSocket(from_server', d) = AtSocket(from_server, d)
    BY <1>0, <2>1, <2>2, AtSocketMoves
  <2> QED
    BY <1>0, <2>1, <2>3, OrderedQuiet
<1>17. CASE ConnectionLost
  <2>1. /\ lost' /\ UNCHANGED <<loop, commands, received, values, open, answers>>
        /\ \E n \in 0 .. Len(from_server) : from_server' = SubSeq(from_server, 1, n)
    BY <1>17 DEF ConnectionLost
  <2> QED
    BY <1>0, <2>1, OrderedLost
<1> QED
  BY <1>7, <1>8, <1>9, <1>10, <1>11, <1>12, <1>13, <1>14, <1>15, <1>16, <1>17
  DEF Next, ServerStep

\* At first there is no context, and nothing changes when nothing happens.
LEMMA OrderedBase ==
    /\ Init => Known /\ Ordered
    /\ Known /\ Ordered /\ UNCHANGED vars => Known' /\ Ordered'
<1>1. ASSUME Init
      PROVE  Known /\ Ordered
  <2>1. open = {} /\ made = {} /\ commands = <<>>
    BY <1>1 DEF Init
  <2> QED
    BY <2>1 DEF Known, KnownHere, KnownCommands, KnownCalls, Ordered
<1>2. ASSUME Known, Ordered, UNCHANGED vars
      PROVE  Known' /\ Ordered'
  <2> USE DEF vars, threads, queue, jobs, handler, calls, socket, server
  <2>1. KnownHere'
    BY <1>2 DEF Known, KnownHere, Here
  <2>2. KnownCommands'
    BY <1>2 DEF Known, KnownCommands
  <2>3. KnownCalls'
    BY <1>2 DEF Known, KnownCalls, Here, Asked
  <2>4. Ordered'
    <3>1. \A c : InFlight(c)' = InFlight(c)
      BY <1>2 DEF InFlight
    <3> QED
      BY <1>2, <3>1 DEF Ordered, OrderedAt, Got
  <2> QED
    BY <2>1, <2>2, <2>3, <2>4 DEF Known
<1> QED
  BY <1>1, <1>2

\* The first part of a sequence.
LEMMA Prefix ==
    ASSUME NEW X, NEW s \in Seq(X), NEW t \in Seq(X)
    PROVE  /\ Len(s) <= Len(s \o t) /\ s = SubSeq(s \o t, 1, Len(s))
           /\ t = <<>> => Len(s) = Len(s \o t)
OBVIOUS

\* What a context has read, what waits in its channel and what is on its way to it are,
\* in this order, the first responses that the server sent to it; and all of them as long as
\* the connection and the rpc loop are there.
THEOREM ResponsesComeInOrder == Spec => []ResponsesInOrder
<1>1. (Typed /\ Known /\ Ordered) /\ [Next]_vars => (Typed /\ Known /\ Ordered)'
  BY TypedStep, KnownStep, OrderedStep, OrderedBase
<1>2. ASSUME Typed, Ordered
      PROVE  ResponsesInOrder
  <2> SUFFICES ASSUME NEW c \in open
               PROVE  LET got == received[c] \o values[c] \o InFlight(c)
                      IN  /\ Len(got) <= Len(answers[c])
                          /\ got = SubSeq(answers[c], 1, Len(got))
                          /\ lost \/ loop = "ended" \/ Len(got) = Len(answers[c])
    BY DEF ResponsesInOrder
  <2> DEFINE got == received[c] \o values[c] \o InFlight(c)
  <2>1. c \in Contexts
    BY <1>2 DEF Typed, CallsOK
  <2>2. PICK rest \in Seq(Kinds) : /\ answers[c] = got \o rest
                                   /\ rest = <<>> \/ lost \/ loop = "ended"
    BY <1>2 DEF Ordered, OrderedAt, Got
  <2>3. got \in Seq(Kinds)
    <3> DEFINE r == received[c]
               v == values[c]
               f == InFlight(c)
    <3>1. r \in Seq(Kinds) /\ v \in Seq(Kinds) /\ f \in Seq(Kinds)
      BY <1>2, <2>1, Flight DEF Typed, CallsOK
    <3> HIDE DEF r, v, f
    <3>2. r \o v \o f \in Seq(Kinds)
      BY <3>1
    <3> QED
      BY <3>2 DEF r, v, f
  <2> HIDE DEF got
  <2>4. /\ Len(got) <= Len(got \o rest) /\ got = SubSeq(got \o rest, 1, Len(got))
        /\ rest = <<>> => Len(got) = Len(got \o rest)
    BY <2>3, Prefix
  <2> QED
    BY <2>2, <2>4 DEF got
<1> QED
  BY <1>1, <1>2, InitTyped, OrderedBase, PTL DEF Spec
-----------------------------------------------------------------------------
(* The C client.                                                              *)

\* A call frees or boxes just what the program gives up or gets, so the agreement
\* of the documentation with the code is inductive together with the types.
Agreement == /\ object \in [Addresses -> Object \cup {Free}]
             /\ owned \subseteq Addresses
             /\ Heap = owned
Modes == /\ connection \in {"none", "up", "failed"}
         /\ crashed \in {"no", "connection", "NotHandled"}

\* Freeing the boxes that the program gives up keeps the agreement.
LEMMA FreesAgree ==
    ASSUME NEW dead \in SUBSET Addresses, Agreement, Frees(dead), Owns(dead, {})
    PROVE  Agreement'
BY DEF Agreement, Heap, Frees, Owns, Free

\* So does boxing one object more.
LEMMA BoxesAgree ==
    ASSUME NEW a \in Addresses, NEW o \in Object, NEW dead \in SUBSET owned,
           Agreement, Boxes(a, o, dead), Owns(dead, {a})
    PROVE  Agreement'
<1>1. o # Free
  BY DEF Object, Values, Free
<1>2. a \notin owned
  BY DEF Agreement, Heap, Boxes
<1> QED
  BY <1>1, <1>2 DEF Agreement, Heap, Boxes, Owns

\* A crash and a step that leaves objects alone keep it, too.
LEMMA UnchangedAgree ==
    ASSUME Agreement, UNCHANGED <<object, owned>>
    PROVE  Agreement'
BY DEF Agreement, Heap

\* What may be boxed.
LEMMA Objects ==
    /\ {"client", "server_context", "context", "done_context", "string"} \subseteq Object
    /\ Values \subseteq Object
    /\ {"Ok", "Err", "NotHandled"} = Values
BY DEF Object, Values

\* call(), by a client or from an RPC.
LEMMA CallKeeps ==
    ASSUME NEW c \in Addresses, Agreement, Modes, call(c)
    PROVE  Agreement' /\ Modes'
<1>1. CASE connection = "up" /\ Boxes(c, "context", {}) /\ Owns({}, {c}) /\ Quietly
  <2>1. Agreement'
    BY <1>1, BoxesAgree, Objects
  <2> QED
    BY <1>1, <2>1 DEF Modes, Quietly
<1>2. CASE Crash("connection")
  BY <1>2, UnchangedAgree DEF Modes, Crash
<1> QED
  BY <1>1, <1>2 DEF call

\* Every call of the C API keeps the agreement.
LEMMA NextKeeps ==
    ASSUME Agreement, Modes, [CNext]_c_vars
    PROVE  Agreement' /\ Modes'
<1>1. CASE UNCHANGED c_vars
  BY <1>1, UnchangedAgree DEF c_vars, Modes
<1>2. ASSUME NEW a \in Addresses, swiboe_connect(a)
      PROVE  Agreement' /\ Modes'
  <2>1. Agreement'
    BY <1>2, BoxesAgree, Objects DEF swiboe_connect
  <2> QED
    BY <1>2, <2>1 DEF swiboe_connect, Modes
<1>3. ASSUME NEW a \in Addresses, swiboe_disconnect(a)
      PROVE  Agreement' /\ Modes'
  <2>1. CASE Frees({a}) /\ Owns({a}, {}) /\ connection' = "none" /\ UNCHANGED crashed
    BY <1>3, <2>1, FreesAgree DEF Modes
  <2>2. CASE Crash("connection")
    BY <2>2, UnchangedAgree DEF Crash, Modes
  <2> QED
    BY <1>3, <2>1, <2>2 DEF swiboe_disconnect
<1>4. ASSUME NEW a \in Addresses, swiboe_new_rpc(a)
      PROVE  Agreement' /\ Modes'
  BY <1>4, UnchangedAgree DEF swiboe_new_rpc, Crash, Modes
<1>5. ASSUME NEW a \in Addresses, NEW b \in Addresses,
             swiboe_client_call_rpc(a, b) \/ swiboe_server_context_call_rpc(a, b)
      PROVE  Agreement' /\ Modes'
  BY <1>5, CallKeeps DEF swiboe_client_call_rpc, swiboe_server_context_call_rpc
<1>6. ASSUME NEW a \in Addresses, NEW b \in Addresses, client_context_receive(a, b)
      PROVE  Agreement' /\ Modes'
  <2>1. CASE Boxes(b, "string", {}) /\ Owns({}, {b})
    <3>1. Agreement'
      BY <2>1, BoxesAgree, Objects
    <3> QED
      BY <1>6, <3>1 DEF client_context_receive, Quietly, Modes
  <2>2. CASE object' = [object EXCEPT ![a] = "done_context"] /\ UNCHANGED owned
    <3>1. "done_context" \in Object /\ "done_context" # Free
      BY Objects DEF Free
    <3>2. a \in owned
      BY <1>6 DEF client_context_receive
    <3>3. Agreement'
      BY <2>2, <3>1, <3>2 DEF Agreement, Heap
    <3> QED
      BY <1>6, <3>3 DEF client_context_receive, Quietly, Modes
  <2> QED
    BY <1>6, <2>1, <2>2 DEF client_context_receive
<1>7. ASSUME NEW a \in Addresses, NEW b \in Addresses, swiboe_client_context_wait(a, b)
      PROVE  Agreement' /\ Modes'
  <2>1. a \in owned
    BY <1>7 DEF swiboe_client_context_wait
  <2>2. ASSUME NEW v \in Values, Boxes(b, v, {a}), Owns({a}, {b})
        PROVE  Agreement'
    BY <2>1, <2>2, BoxesAgree, Objects
  <2>3. ASSUME Frees({a}), Owns({a}, {})
        PROVE  Agreement'
    BY <2>3, FreesAgree
  <2>4. Agreement'
    BY <1>7, <2>2, <2>3 DEF swiboe_client_context_wait
  <2> QED
    BY <1>7, <2>4 DEF swiboe_client_context_wait, Quietly, Modes
<1>8. ASSUME NEW a \in Addresses, swiboe_client_context_cancel(a) \/ swiboe_delete_string(a)
      PROVE  Agreement' /\ Modes'
  <2>1. Agreement'
    BY <1>8, FreesAgree DEF swiboe_client_context_cancel, swiboe_delete_string
  <2> QED
    BY <1>8, <2>1 DEF swiboe_client_context_cancel, swiboe_delete_string, Quietly, Modes
<1>9. ASSUME NEW a \in Addresses, CallbackRpc(a)
      PROVE  Agreement' /\ Modes'
  <2>1. Agreement'
    BY <1>9, BoxesAgree, Objects DEF CallbackRpc
  <2> QED
    BY <1>9, <2>1 DEF CallbackRpc, Quietly, Modes
<1>10. ASSUME NEW a \in Addresses, NEW b \in Addresses, swiboe_server_context_finish(a, b)
       PROVE  Agreement' /\ Modes'
  <2>1. Agreement'
    BY <1>10, FreesAgree DEF swiboe_server_context_finish
  <2> QED
    BY <1>10, <2>1 DEF swiboe_server_context_finish, Quietly, Modes
<1>11. ASSUME NEW a \in Addresses, NEW v \in Values, NewResult(a, v)
       PROVE  Agreement' /\ Modes'
  <2>1. Agreement'
    BY <1>11, BoxesAgree, Objects DEF NewResult
  <2> QED
    BY <1>11, <2>1 DEF NewResult, Quietly, Modes
<1>12. ASSUME NEW a \in Addresses, NEW b \in Addresses, swiboe_rpc_result_unwrap(a, b)
       PROVE  Agreement' /\ Modes'
  <2>1. {a} \in SUBSET owned
    BY <1>12 DEF swiboe_rpc_result_unwrap
  <2>2. Agreement'
    BY <1>12, <2>1, BoxesAgree, Objects DEF swiboe_rpc_result_unwrap
  <2> QED
    BY <1>12, <2>2 DEF swiboe_rpc_result_unwrap, Quietly, Modes
<1>13. ASSUME NEW a \in Addresses, NEW b \in Addresses, swiboe_rpc_result_unwrap_err(a, b)
       PROVE  Agreement' /\ Modes'
  <2>1. {a} \in SUBSET owned
    BY <1>13 DEF swiboe_rpc_result_unwrap_err
  <2>2. CASE Boxes(b, "string", {a}) /\ Owns({a}, {b}) /\ Quietly
    <3>1. Agreement'
      BY <2>1, <2>2, BoxesAgree, Objects
    <3> QED
      BY <2>2, <3>1 DEF Quietly, Modes
  <2>3. CASE Frees({a}) /\ Owns({a}, {}) /\ Quietly
    BY <2>3, FreesAgree DEF Quietly, Modes
  <2>4. CASE Crash("NotHandled")
    BY <2>4, UnchangedAgree DEF Crash, Modes
  <2> QED
    BY <1>13, <2>2, <2>3, <2>4 DEF swiboe_rpc_result_unwrap_err
<1>14. CASE ConnectionFails
  BY <1>14, UnchangedAgree DEF ConnectionFails, Modes
<1> QED
  BY <1>1, <1>2, <1>3, <1>4, <1>5, <1>6, <1>7, <1>8, <1>9, <1>10, <1>11, <1>12, <1>13, <1>14
  DEF CNext

\* The agreement is an invariant.
LEMMA CInvariance == CSpec => [](Agreement /\ Modes)
<1>1. CInit => Agreement /\ Modes
  BY DEF CInit, Agreement, Modes, Heap, Free
<1>2. (Agreement /\ Modes) /\ [CNext]_c_vars => (Agreement /\ Modes)'
  BY NextKeeps
<1> QED
  BY <1>1, <1>2, PTL DEF CSpec

\* The objects keep their types (src/c_client/src/lib.rs), whatever calls a program
\* that keeps the rules makes.
THEOREM CTypeCorrectness == CSpec => []CTypeOK
<1>1. Agreement /\ Modes => CTypeOK
  BY DEF Agreement, Modes, CTypeOK
<1> QED
  BY <1>1, CInvariance, PTL

\* No call of the C API, successful or not, leaks an object or leaves the program
\* with the address of one that is gone, however many objects there are.
THEOREM OwnershipIsExact == CSpec => []OwnershipAgrees
<1>1. Agreement /\ Modes => OwnershipAgrees
  BY DEF Agreement, OwnershipAgrees
<1> QED
  BY <1>1, CInvariance, PTL

\* A step after which the program has crashed is one of the two kinds of crashes,
\* with its reason at hand; nothing follows it.
LEMMA CrashHasReason ==
    ASSUME CNext
    PROVE  CrashesForAReason'
<1>1. crashed = "no"
  BY DEF CNext
<1>2. ASSUME UNCHANGED crashed
      PROVE  CrashesForAReason'
  BY <1>1, <1>2 DEF CrashesForAReason
<1>3. ASSUME Crash("connection"), connection # "up"
      PROVE  CrashesForAReason'
  BY <1>3 DEF CrashesForAReason, Crash
<1>4. ASSUME NEW r \in owned, object[r] \in {"Err", "NotHandled"}, object[r] # "Err",
             Crash("NotHandled")
      PROVE  CrashesForAReason'
  <2>1. r \in owned' /\ object'[r] = "NotHandled" /\ crashed' = "NotHandled"
    BY <1>4 DEF Crash
  <2> QED
    BY <2>1 DEF CrashesForAReason
<1>5. ASSUME NEW a \in Addresses, NEW b \in Addresses,
             \/ swiboe_connect(a) \/ client_context_receive(a, b)
             \/ swiboe_client_context_wait(a, b) \/ swiboe_client_context_cancel(a)
             \/ CallbackRpc(a) \/ swiboe_server_context_finish(a, b)
             \/ \E v \in Values : NewResult(a, v)
             \/ swiboe_rpc_result_unwrap(a, b) \/ swiboe_delete_string(a)
             \/ ConnectionFails
      PROVE  UNCHANGED crashed
  BY <1>5 DEF swiboe_connect, client_context_receive, swiboe_client_context_wait,
    swiboe_client_context_cancel, CallbackRpc, swiboe_server_context_finish, NewResult,
    swiboe_rpc_result_unwrap, swiboe_delete_string, ConnectionFails, Quietly
<1>6. ASSUME NEW a \in Addresses, swiboe_disconnect(a)
      PROVE  CrashesForAReason'
  <2>1. UNCHANGED crashed \/ (connection = "failed" /\ Crash("connection"))
    BY <1>6 DEF swiboe_disconnect
  <2> QED
    BY <1>2, <1>3, <2>1
<1>7. ASSUME NEW a \in Addresses, NEW b \in Addresses,
             \/ swiboe_new_rpc(a) \/ swiboe_client_call_rpc(a, b)
             \/ swiboe_server_context_call_rpc(a, b)
      PROVE  CrashesForAReason'
  <2>1. UNCHANGED crashed \/ (connection # "up" /\ Crash("connection"))
    BY <1>7 DEF swiboe_new_rpc, swiboe_client_call_rpc, swiboe_server_context_call_rpc, call,
      Quietly
  <2> QED
    BY <1>2, <1>3, <2>1
<1>8. ASSUME NEW a \in Addresses, NEW b \in Addresses, swiboe_rpc_result_unwrap_err(a, b)
      PROVE  CrashesForAReason'
  <2>1. UNCHANGED crashed \/ (object[a] # "Err" /\ Crash("NotHandled"))
    BY <1>8 DEF swiboe_rpc_result_unwrap_err, Quietly
  <2>2. a \in owned /\ object[a] \in {"Err", "NotHandled"}
    BY <1>8 DEF swiboe_rpc_result_unwrap_err
  <2> QED
    BY <1>2, <1>4, <2>1, <2>2
<1> QED
  BY <1>2, <1>5, <1>6, <1>7, <1>8 DEF CNext

\* A C program that keeps the rules is brought down by a panic only when its
\* connection is gone or when it unwraps a result that was not handled
\* (unwrap_err in src/c_client/src/lib.rs), and is left with that result in hand.
THEOREM CrashesHaveReasons == CSpec => []CrashesForAReason
<1>1. CInit => CrashesForAReason
  BY DEF CInit, CrashesForAReason
<1>2. CrashesForAReason /\ [CNext]_c_vars => CrashesForAReason'
  <2>1. ASSUME CrashesForAReason, UNCHANGED c_vars
        PROVE  CrashesForAReason'
    BY <2>1 DEF CrashesForAReason, c_vars
  <2> QED
    BY <2>1, CrashHasReason
<1> QED
  BY <1>1, <1>2, PTL DEF CSpec

=============================================================================
