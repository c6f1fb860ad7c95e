---------------------------- MODULE Server_proofs ----------------------------
(***************************************************************************)
(* What Server and the table of registered RPCs promise, for any number of *)
(* clients, calls, functions and priorities and any bounds.                *)
(***************************************************************************)
(***************************************************************************)
(* 1. The operations of the table: registering and deregistering keep      *)
(* lists sorted.   2. IInv: types and the routing of messages; responses   *)
(* go to callers; the table stays sorted.   3. InOrder: what is said about *)
(* a call stays in order; nothing follows the answer.   4. Ledger: who has *)
(* a call, and what swiboe knows of it; only the callee works on it.   5.  *)
(* Kept: no call gets lost.   6. Layers are asked in order.   7. Ahead:    *)
(* NotHandled means that all were asked, when nobody goes away.            *)
(***************************************************************************)
EXTENDS Server, FiniteSetTheorems, TLAPS

(***************************************************************************)
(* The set of entries: any records with these two fields.                  *)
(***************************************************************************)
Infos(Ids, Prios) == [client_id : Ids, priority : Prios]

(***************************************************************************)
(* Vec::insert makes a list that is longer by one.                         *)
(***************************************************************************)
LEMMA InsertType ==
  ASSUME NEW S, NEW infos \in Seq(S), NEW info \in S,
         NEW index \in 1 .. Len(infos) + 1
  PROVE  /\ insert(infos, index, info) \in Seq(S)
         /\ Len(insert(infos, index, info)) = Len(infos) + 1
  <1> DEFINE r == insert(infos, index, info)
  <1>1. r \in [1 .. Len(infos) + 1 -> S]
    BY DEF insert
  <1>2. Len(infos) + 1 \in Nat
    OBVIOUS
  <1> QED
    BY <1>1, <1>2 DEF insert

(***************************************************************************)
(* The search finds a place in the list or the one behind it, and the list *)
(* stays sorted when the entry is inserted there.                          *)
(***************************************************************************)
LEMMA InsertSorted ==
  ASSUME NEW Ids, NEW infos \in Seq(Infos(Ids, Nat)),
         NEW info \in Infos(Ids, Nat),
         NEW index \in binary_search(infos, info.priority),
         \A i, j \in DOMAIN infos :
            i < j => infos[i].priority <= infos[j].priority
  PROVE  /\ index \in 1 .. Len(infos) + 1
         /\ LET r == insert(infos, index, info)
            IN  \A i, j \in DOMAIN r :
                   i < j => r[i].priority <= r[j].priority
  <1> DEFINE p == info.priority
             r == insert(infos, index, info)
  <1>1. p \in Nat /\ DOMAIN infos = 1 .. Len(infos) /\ Len(infos) \in Nat
    BY DEF Infos
  <1>2. \A i \in DOMAIN infos : infos[i].priority \in Nat
    <2>1. \A i \in DOMAIN infos : infos[i] \in Infos(Ids, Nat)
      OBVIOUS
    <2> QED
      BY <2>1 DEF Infos
  <1>3. index \in 1 .. Len(infos) + 1
    BY <1>1 DEF binary_search
  <1>4. /\ \A j \in DOMAIN infos : j < index => infos[j].priority <= p
        /\ \A j \in DOMAIN infos : index <= j => p <= infos[j].priority
    <2>1. CASE \E i \in DOMAIN infos : infos[i].priority = p
      <3>1. index \in DOMAIN infos /\ infos[index].priority = p
        BY <2>1 DEF binary_search
      <3> QED
        BY <3>1, <1>1, <1>2
    <2>2. CASE ~ \E i \in DOMAIN infos : infos[i].priority = p
      <3>1. /\ \A j \in DOMAIN infos : j < index => infos[j].priority < p
            /\ \A j \in DOMAIN infos : index <= j => p < infos[j].priority
        BY <2>2 DEF binary_search
      <3> QED
        BY <3>1, <1>1, <1>2
    <2> QED
      BY <2>1, <2>2
  <1>5. ASSUME NEW i \in DOMAIN r, NEW j \in DOMAIN r, i < j
        PROVE  r[i].priority <= r[j].priority
    <2>1. DOMAIN r = 1 .. Len(infos) + 1
      BY DEF insert
    <2>2. CASE j < index
      BY <2>1, <2>2, <1>1, <1>2, <1>3, <1>5 DEF insert
    <2>3. CASE j = index
      <3>1. r[i] = infos[i] /\ r[j] = info /\ i \in DOMAIN infos
        BY <2>1, <2>3, <1>1, <1>3, <1>5 DEF insert
      <3> QED
        BY <3>1, <2>3, <1>4, <1>5
    <2>4. CASE index < j
      <3>1. r[j] = infos[j - 1] /\ j - 1 \in DOMAIN infos /\ index <= j - 1
        BY <2>1, <2>4, <1>1, <1>3, <1>5 DEF insert
      <3>2. CASE i < index
        <4>1. r[i] = infos[i] /\ i \in DOMAIN infos
          BY <3>2, <2>1, <1>1, <1>3, <1>5 DEF insert
        <4> QED
          BY <4>1, <3>1, <3>2, <1>1, <1>2, <1>4
      <3>3. CASE i = index
        <4>1. r[i] = info
          BY <3>3, <2>1, <1>1, <1>3 DEF insert
        <4> QED
          BY <4>1, <3>1, <1>4
      <3>4. CASE index < i
        <4>1. r[i] = infos[i - 1] /\ i - 1 \in DOMAIN infos /\ i - 1 < j - 1
          BY <3>4, <2>1, <1>1, <1>3, <1>5 DEF insert
        <4> QED
          BY <4>1, <3>1, <1>1, <1>2
      <3> QED
        BY <3>2, <3>3, <3>4, <2>1, <1>3
    <2> QED
      BY <2>1, <2>2, <2>3, <2>4, <1>3
  <1> QED
    BY <1>3, <1>5

(***************************************************************************)
(* Vec::retain: a list of entries of the old one, in their order, none of  *)
(* them of the client.                                                     *)
(***************************************************************************)
LEMMA RetainFacts ==
  ASSUME NEW S, NEW infos \in Seq(S), NEW client_id,
         NEW r \in retain(infos, client_id)
  PROVE  /\ r \in Seq(S)
         /\ \A k \in DOMAIN r : r[k].client_id # client_id
         /\ \A k, l \in DOMAIN r : k < l =>
               \E i, j \in DOMAIN infos :
                  i < j /\ r[k] = infos[i] /\ r[l] = infos[j]
         /\ \A k \in DOMAIN r : \E i \in DOMAIN infos : r[k] = infos[i]
  <1> DEFINE kept == {i \in DOMAIN infos : infos[i].client_id # client_id}
  <1>1. Cardinality(kept) \in Nat
    <2>1. IsFiniteSet(1 .. Len(infos))
      BY FS_Interval
    <2>2. kept \subseteq 1 .. Len(infos)
      OBVIOUS
    <2> QED
      BY <2>1, <2>2, FS_Subset, FS_CardinalityType
  <1>2. PICK e \in Enumerations(kept) : r = [k \in DOMAIN e |-> infos[e[k]]]
    BY DEF retain
  <1> HIDE DEF kept
  <1>3. /\ e \in [1 .. Cardinality(kept) -> kept]
        /\ \A i, j \in DOMAIN e : i < j => e[i] < e[j]
    BY DEF Enumerations
  <1>4. \A k \in DOMAIN e : /\ e[k] \in DOMAIN infos
                            /\ infos[e[k]] \in S
                            /\ infos[e[k]].client_id # client_id
    BY <1>3 DEF kept
  <1>5. r \in [1 .. Cardinality(kept) -> S]
    BY <1>2, <1>3, <1>4
  <1> QED
    BY <1>1, <1>2, <1>3, <1>4, <1>5

(***************************************************************************)
(* register and deregister_by_client give tables again.                    *)
(***************************************************************************)
LEMMA RegisterType ==
  ASSUME NEW Names, NEW Ids, NEW Prios, Prios \subseteq Nat,
         NEW table \in [Names -> Seq(Infos(Ids, Prios))],
         NEW name \in Names, NEW info \in Infos(Ids, Prios),
         NEW t \in register(table, name, info)
  PROVE  t \in [Names -> Seq(Infos(Ids, Prios))]
  <1>1. PICK index \in binary_search(table[name], info.priority) :
           t = [table EXCEPT ![name] = insert(table[name], index, info)]
    BY DEF register
  <1>2. index \in 1 .. Len(table[name]) + 1
    <2>1. DOMAIN table[name] = 1 .. Len(table[name]) /\ Len(table[name]) \in Nat
      OBVIOUS
    <2> QED
      BY <1>1, <2>1 DEF binary_search
  <1>3. insert(table[name], index, info) \in Seq(Infos(Ids, Prios))
    BY <1>2, InsertType
  <1> QED
    BY <1>1, <1>3

(***************************************************************************)
(* A deregistration gives a table of the same type.                        *)
(***************************************************************************)
LEMMA DeregisterType ==
  ASSUME NEW Names, NEW S, NEW table \in [Names -> Seq(S)], NEW client_id,
         NEW t \in deregister_by_client(table, client_id)
  PROVE  t \in [Names -> Seq(S)]
  <1>1. /\ DOMAIN table = Names
        /\ t \in [Names -> UNION {retain(table[n], client_id) : n \in Names}]
        /\ \A n \in Names : t[n] \in retain(table[n], client_id)
    BY DEF deregister_by_client
  <1>2. \A n \in Names : t[n] \in Seq(S)
    BY <1>1, RetainFacts
  <1> QED
    BY <1>1, <1>2

(***************************************************************************)
(* The entries that get_first and get_next find are in the table.          *)
(***************************************************************************)
LEMMA GetFirstType ==
  ASSUME NEW Names, NEW S, NEW table \in [Names -> Seq(S)], NEW name \in Names
  PROVE  get_first(table, name) \subseteq S
  BY DEF get_first

(***************************************************************************)
(* What get_next returns is an entry of the table.                         *)
(***************************************************************************)
LEMMA GetNextType ==
  ASSUME NEW Names, NEW S, NEW table \in [Names -> Seq(S)],
         NEW name \in Names, NEW client_id
  PROVE  get_next(table, name, client_id) \subseteq S
  BY DEF get_next

(***************************************************************************)
(* Both operations keep every list in ascending order of priority.         *)
(***************************************************************************)
THEOREM RegisterSorted ==
  ASSUME NEW Names, NEW Ids, NEW Prios, Prios \subseteq Nat,
         NEW table \in [Names -> Seq(Infos(Ids, Prios))], Sorted(table),
         NEW name \in Names, NEW info \in Infos(Ids, Prios),
         NEW t \in register(table, name, info)
  PROVE  Sorted(t)
  <1>1. PICK index \in binary_search(table[name], info.priority) :
           t = [table EXCEPT ![name] = insert(table[name], index, info)]
    BY DEF register
  <1>2. info \in Infos(Ids, Nat) /\ table[name] \in Seq(Infos(Ids, Nat))
    <2>1. Infos(Ids, Prios) \subseteq Infos(Ids, Nat)
      BY DEF Infos
    <2> QED
      BY <2>1
  <1>3. \A i, j \in DOMAIN table[name] :
           i < j => table[name][i].priority <= table[name][j].priority
    BY DEF Sorted
  <1>4. \A i, j \in DOMAIN insert(table[name], index, info) :
           i < j => insert(table[name], index, info)[i].priority
                       <= insert(table[name], index, info)[j].priority
    BY <1>1, <1>2, <1>3, InsertSorted
  <1>5. \A n \in Names \ {name} : t[n] = table[n]
    BY <1>1
  <1>6. t[name] = insert(table[name], index, info) /\ DOMAIN t = Names
    BY <1>1
  <1> QED
    BY <1>4, <1>5, <1>6 DEF Sorted

(***************************************************************************)
(* ApiTable::deregister_by_client removes entries and leaves every list of *)
(* a sorted table sorted.                                                  *)
(***************************************************************************)
THEOREM DeregisterSorted ==
  ASSUME NEW Names, NEW S, NEW table \in [Names -> Seq(S)], Sorted(table),
         NEW client_id, NEW t \in deregister_by_client(table, client_id)
  PROVE  Sorted(t)
  <1>1. /\ DOMAIN table = Names /\ DOMAIN t = Names
        /\ \A n \in Names : t[n] \in retain(table[n], client_id)
    BY DEF deregister_by_client
  <1>2. ASSUME NEW n \in Names, NEW k \in DOMAIN t[n], NEW l \in DOMAIN t[n], k < l
        PROVE  t[n][k].priority <= t[n][l].priority
    <2>1. PICK i \in DOMAIN table[n], j \in DOMAIN table[n] :
             i < j /\ t[n][k] = table[n][i] /\ t[n][l] = table[n][j]
      BY <1>1, <1>2, RetainFacts
    <2> QED
      BY <2>1, <1>1 DEF Sorted
  <1> QED
    BY <1>1, <1>2 DEF Sorted

-----------------------------------------------------------------------------
(***************************************************************************)
(* What the operations on queues do to their elements.                     *)
(***************************************************************************)
LEMMA AppendFacts ==
  ASSUME NEW S, NEW s \in Seq(S), NEW x \in S
  PROVE  Append(s, x) \in Seq(S) /\ Range(Append(s, x)) = Range(s) \cup {x}
  <1>1. Append(s, x) \in Seq(S) /\ Len(Append(s, x)) = Len(s) + 1
    OBVIOUS
  <1>2. /\ \A i \in 1 .. Len(s) : Append(s, x)[i] = s[i]
        /\ Append(s, x)[Len(s) + 1] = x
    OBVIOUS
  <1>3. DOMAIN Append(s, x) = 1 .. Len(s) + 1 /\ DOMAIN s = 1 .. Len(s)
    BY <1>1
  <1>4. Range(Append(s, x)) \subseteq Range(s) \cup {x}
    BY <1>2, <1>3 DEF Range
  <1>5. Range(s) \subseteq Range(Append(s, x))
    BY <1>2, <1>3 DEF Range
  <1>6. x \in Range(Append(s, x))
    BY <1>2, <1>3 DEF Range
  <1> QED
    BY <1>1, <1>4, <1>5, <1>6

(***************************************************************************)
(* The same for all queues of a type at once.                              *)
(***************************************************************************)
LEMMA AppendType ==
  \A S : \A s \in Seq(S) : \A x \in S :
     Append(s, x) \in Seq(S) /\ Range(Append(s, x)) = Range(s) \cup {x}
  BY AppendFacts

(***************************************************************************)
(* Taking the head of a queue adds no element to it.                       *)
(***************************************************************************)
LEMMA TailFacts ==
  ASSUME NEW S, NEW s \in Seq(S), s # <<>>
  PROVE  /\ Tail(s) \in Seq(S) /\ Range(Tail(s)) \subseteq Range(s)
         /\ Head(s) \in S /\ Head(s) \in Range(s)
  <1>1. /\ Tail(s) \in Seq(S) /\ Len(Tail(s)) = Len(s) - 1 /\ Len(s) > 0
        /\ \A i \in 1 .. Len(s) - 1 : Tail(s)[i] = s[i + 1]
        /\ Head(s) = s[1]
    OBVIOUS
  <1> QED
    BY <1>1 DEF Range

(***************************************************************************)
(* A prefix of a queue has no other elements than the queue.               *)
(***************************************************************************)
LEMMA PrefixFacts ==
  ASSUME NEW S, NEW s \in Seq(S), NEW n \in 0 .. Len(s)
  PROVE  /\ SubSeq(s, 1, n) \in Seq(S)
         /\ Range(SubSeq(s, 1, n)) \subseteq Range(s)
  <1>1. /\ SubSeq(s, 1, n) \in Seq(S) /\ Len(SubSeq(s, 1, n)) = n
        /\ \A i \in 1 .. n : SubSeq(s, 1, n)[i] = s[i]
    OBVIOUS
  <1> QED
    BY <1>1 DEF Range

(***************************************************************************)
(* The elements of a queue have its type.                                  *)
(***************************************************************************)
LEMMA RangeType ==
  ASSUME NEW S, NEW s \in Seq(S)
  PROVE  Range(s) \subseteq S
  BY DEF Range

(***************************************************************************)
(* The empty queue has every type and no element.                          *)
(***************************************************************************)
LEMMA EmptyFacts ==
  ASSUME NEW S
  PROVE  <<>> \in Seq(S) /\ Range(<<>>) = {}
  BY DEF Range

-----------------------------------------------------------------------------
(***************************************************************************)
(* Messages and commands are of their types, and have the fields of their  *)
(* tags.                                                                   *)
(***************************************************************************)
LEMMA MessageFacts ==
  /\ \A c \in Contexts : RpcCall(c) \in Message /\ RpcCancel(c) \in Message
  /\ \A c \in Contexts, k \in Kinds : RpcResponse(c, k) \in Message
  /\ \A m \in Message : m.context \in Contexts
  /\ \A m \in Message : m.tag = "RpcResponse" => m.kind \in Kinds
  BY DEF Message, RpcCall, RpcCancel, RpcResponse

(***************************************************************************)
(* Which type the constructors of commands give.                           *)
(***************************************************************************)
LEMMA CommandFacts ==
  /\ \A id \in ClientId : ClientConnected(id) \in Command
  /\ \A id \in ClientId : ClientDisconnected(id) \in Command
  /\ \A id \in ClientId, n \in Functions, p \in Priorities :
        NewRpc(id, n, p) \in Command
  /\ \A id \in ClientId, m \in Message :
        /\ FromClient(id, m) \in Command
        /\ SendDataFailed(id, m) \in Command
        /\ SendData(id, m) \in BridgeCommand
  /\ \A c \in Command : c.client \in ClientId
  /\ \A c \in Command : c.cmd \in {"FromClient", "SendDataFailed"} =>
        c.message \in Message
  /\ \A c \in Command : c.cmd = "NewRpc" =>
        c.name \in Functions /\ c.priority \in Priorities
  /\ \A c \in BridgeCommand : c.receiver \in ClientId /\ c.message \in Message
  BY DEF Command, BridgeCommand, ClientConnected, ClientDisconnected, NewRpc,
         FromClient, SendDataFailed, SendData

(***************************************************************************)
(* What the alternatives of a Call have in common.                         *)
(***************************************************************************)
LEMMA CallFacts ==
  ASSUME NEW x \in Call \cup {None}, x # None
  PROVE  /\ x.caller \in ClientId /\ x.function \in Functions
         /\ x.core => x.priority \in Priorities
  BY DEF Call

IInv == TypeOK /\ Routing

(***************************************************************************)
(* The inductive invariant holds at the start.                             *)
(***************************************************************************)
LEMMA InitIInv == Init => IInv
  <1> SUFFICES ASSUME Init PROVE IInv
    OBVIOUS
  <1> USE DEF Init, ServerInit, ClientInit
  <1>1. TypeOK
    BY BoundsAssumption, EmptyFacts DEF TypeOK
  <1>2. Routing
    BY EmptyFacts DEF Routing
  <1> QED
    BY <1>1, <1>2 DEF IInv

(***************************************************************************)
(* A step that makes no call keeps Routing if what it adds to the queues,  *)
(* to running_rpcs and to serving is about calls and for their owners.     *)
(***************************************************************************)
LEMMA RoutingFrame ==
  ASSUME Routing, UNCHANGED call,
         \A id \in ClientId : \A m \in Range(to_server'[id]) :
            m \in Range(to_server[id]) \/ FromOwner(m, id),
         \A c \in Range(commands') : c \in Range(commands) \/ Attributed(c),
         \A c \in Contexts : running_rpcs'[c] # None =>
            \/ running_rpcs'[c] = running_rpcs[c]
            \/ call[c] # None /\ running_rpcs'[c].caller = call[c].caller,
         \A c \in Range(ipc_bridge_commands') :
            \/ c \in Range(ipc_bridge_commands)
            \/ ForOwner(c.message, c.receiver),
         \A id \in ClientId : \A m \in Range(to_client'[id]) :
            m \in Range(to_client[id]) \/ ForOwner(m, id),
         \A id \in ClientId : \A c \in serving'[id] :
            c \in serving[id] \/ call[c] # None
  PROVE  Routing'
  BY DEF Routing, FromOwner, ForOwner, Attributed

(***************************************************************************)
(* The bridge.                                                             *)
(***************************************************************************)
LEMMA NewClientStep ==
  ASSUME IInv, NEW token \in Tokens, new_client(token)
  PROVE  IInv'
  <1> DEFINE id == [serial |-> next_serial, token |-> token]
  <1> USE DEF new_client, swiboeVars, callerVars, calleeVars
  <1>1. TypeOK /\ Routing
    BY DEF IInv
  <1>2. id \in ClientId
    BY <1>1, BoundsAssumption DEF TypeOK, ClientId
  <1>3. /\ commands' \in Seq(Command)
        /\ Range(commands') = Range(commands) \cup {ClientConnected(id)}
    BY <1>1, <1>2, CommandFacts, AppendFacts DEF TypeOK
  <1>4. TypeOK'
    BY <1>1, <1>2, <1>3, BoundsAssumption DEF TypeOK
  <1>5. Routing'
    <2>1. Attributed(ClientConnected(id))
      BY DEF Attributed, ClientConnected
    <2> QED
      BY <1>1, <1>3, <2>1, RoutingFrame
  <1> QED
    BY <1>4, <1>5 DEF IInv

(***************************************************************************)
(* A reader job hands a message of a client over under that client's id.   *)
(***************************************************************************)
LEMMA ReadMessageStep ==
  ASSUME IInv, NEW id \in ClientId, ReadMessage(id)
  PROVE  IInv'
  <1> USE DEF ReadMessage, swiboeVars, bridgeVars, callerVars, calleeVars
  <1>1. TypeOK /\ Routing
    BY DEF IInv
  <1> DEFINE m == Head(to_server[id])
  <1>2. /\ to_server[id] \in Seq(Message)
        /\ m \in Message /\ m \in Range(to_server[id])
        /\ Tail(to_server[id]) \in Seq(Message)
        /\ Range(Tail(to_server[id])) \subseteq Range(to_server[id])
    BY <1>1, TailFacts DEF TypeOK
  <1>3. /\ commands' \in Seq(Command)
        /\ Range(commands') = Range(commands) \cup {FromClient(id, m)}
    BY <1>1, <1>2, CommandFacts, AppendFacts DEF TypeOK
  <1>4. TypeOK'
    BY <1>1, <1>2, <1>3 DEF TypeOK
  <1>5. Routing'
    <2>1. FromOwner(m, id)
      BY <1>1, <1>2 DEF Routing
    <2>2. \A i \in ClientId : Range(to_server'[i]) \subseteq Range(to_server[i])
      BY <1>1, <1>2 DEF TypeOK
    <2>3. Attributed(FromClient(id, m))
      BY <2>1 DEF Attributed, FromClient
    <2> QED
      BY <1>1, <1>3, <2>2, <2>3, RoutingFrame
  <1> QED
    BY <1>4, <1>5 DEF IInv

(***************************************************************************)
(* A hang-up shortens the queues of one connection.                        *)
(***************************************************************************)
LEMMA HupStep ==
  ASSUME IInv, NEW id \in ClientId, Hup(id)
  PROVE  IInv'
  <1> USE DEF Hup, ReportHup, swiboeVars, callerVars
  <1>1. TypeOK /\ Routing
    BY DEF IInv
  <1>2. /\ commands' \in Seq(Command)
        /\ Range(commands') = Range(commands) \cup {ClientDisconnected(id)}
    BY <1>1, CommandFacts, AppendFacts DEF TypeOK
  <1>3. /\ to_server' \in [ClientId -> Seq(Message)]
        /\ \A i \in ClientId : Range(to_server'[i]) \subseteq Range(to_server[i])
    <2>1. PICK n \in 0 .. Len(to_server[id]) :
             to_server' = [to_server EXCEPT ![id] = SubSeq(@, 1, n)]
      OBVIOUS
    <2>2. /\ SubSeq(to_server[id], 1, n) \in Seq(Message)
          /\ Range(SubSeq(to_server[id], 1, n)) \subseteq Range(to_server[id])
      BY <1>1, PrefixFacts DEF TypeOK
    <2> QED
      BY <1>1, <2>1, <2>2 DEF TypeOK
  <1>4. /\ to_client' \in [ClientId -> Seq(Message)]
        /\ \A i \in ClientId : Range(to_client'[i]) \subseteq Range(to_client[i])
    BY <1>1, EmptyFacts DEF TypeOK
  <1>5. /\ serving' \in [ClientId -> SUBSET Contexts]
        /\ \A i \in ClientId : serving'[i] \subseteq serving[i]
    BY <1>1 DEF TypeOK
  <1>6. TypeOK'
    <2>1. connections' \in [Tokens -> ClientId \cup {None}]
      BY <1>1 DEF TypeOK
    <2>2. remote_procedures' \in [ClientId -> SUBSET Functions]
      BY <1>1 DEF TypeOK
    <2>3. lost' \subseteq Contexts
      BY <1>1 DEF TypeOK
    <2> QED
      BY <1>1, <1>2, <1>3, <1>4, <1>5, <2>1, <2>2, <2>3 DEF TypeOK
  <1>7. Routing'
    <2>1. Attributed(ClientDisconnected(id))
      BY DEF Attributed, ClientDisconnected
    <2> QED
      BY <1>1, <1>2, <1>3, <1>4, <1>5, <2>1, RoutingFrame
  <1> QED
    BY <1>6, <1>7 DEF IInv

(***************************************************************************)
(* notify sends a response to the receiver swiboe has named, or gives it   *)
(* back under the same id.                                                 *)
(***************************************************************************)
LEMMA NotifyStep ==
  ASSUME IInv, notify
  PROVE  IInv'
  <1> USE DEF notify, swiboeVars, bridgeVars, callerVars, calleeVars
  <1>1. TypeOK /\ Routing
    BY DEF IInv
  <1> DEFINE c == Head(ipc_bridge_commands)
  <1>2. /\ c \in BridgeCommand /\ c \in Range(ipc_bridge_commands)
        /\ ipc_bridge_commands' \in Seq(BridgeCommand)
        /\ Range(ipc_bridge_commands') \subseteq Range(ipc_bridge_commands)
    BY <1>1, TailFacts DEF TypeOK
  <1>3. c.receiver \in ClientId /\ c.message \in Message
    BY <1>2, CommandFacts
  <1>4. ForOwner(c.message, c.receiver)
    BY <1>1, <1>2 DEF Routing
  <1>5. CASE IsReceiver(connections[c.receiver.token], c.receiver)
    <2> DEFINE q == to_client[c.receiver]
    <2>1. /\ to_client' = [to_client EXCEPT ![c.receiver] = Append(q, c.message)]
          /\ UNCHANGED commands
      BY <1>5 DEF IsReceiver
    <2>2. /\ Append(q, c.message) \in Seq(Message)
          /\ Range(Append(q, c.message)) = Range(q) \cup {c.message}
      <3>1. q \in Seq(Message) /\ c.message \in Message
        BY <1>1, <1>3 DEF TypeOK
      <3> HIDE DEF q, c, notify
      <3> QED
        BY <3>1, AppendType
    <2>3. /\ to_client' \in [ClientId -> Seq(Message)]
          /\ \A i \in ClientId \ {c.receiver} : to_client'[i] = to_client[i]
          /\ Range(to_client'[c.receiver]) = Range(q) \cup {c.message}
      <3> HIDE DEF c
      <3> QED
        BY <1>1, <1>3, <2>1, <2>2 DEF TypeOK
    <2>4. TypeOK'
      BY <1>1, <1>2, <2>1, <2>3 DEF TypeOK
    <2>5. Routing'
      BY <1>1, <1>2, <1>4, <2>1, <2>3, RoutingFrame
    <2> QED
      BY <2>4, <2>5 DEF IInv
  <1>6. CASE ~IsReceiver(connections[c.receiver.token], c.receiver)
    <2>1. /\ commands' = Append(commands, SendDataFailed(c.receiver, c.message))
          /\ UNCHANGED to_client
      BY <1>6
    <2>2. /\ commands' \in Seq(Command)
          /\ Range(commands') =
                Range(commands) \cup {SendDataFailed(c.receiver, c.message)}
      <3> DEFINE f == SendDataFailed(c.receiver, c.message)
      <3>1. commands \in Seq(Command)
        BY <1>1 DEF TypeOK
      <3>2. f \in Command
        BY <1>3, CommandFacts
      <3> HIDE DEF f, notify
      <3>3. /\ Append(commands, f) \in Seq(Command)
            /\ Range(Append(commands, f)) = Range(commands) \cup {f}
        BY <3>1, <3>2, AppendType
      <3> QED
        BY <2>1, <3>3 DEF f
    <2>3. TypeOK'
      BY <1>1, <1>2, <2>1, <2>2 DEF TypeOK
    <2>4. Routing'
      <3>1. Attributed(SendDataFailed(c.receiver, c.message))
        BY <1>4 DEF Attributed, SendDataFailed
      <3> QED
        BY <1>1, <1>2, <2>1, <2>2, <3>1, RoutingFrame
    <2> QED
      BY <2>3, <2>4 DEF IInv
  <1> QED
    BY <1>5, <1>6

-----------------------------------------------------------------------------
(***************************************************************************)
(* The swiboe thread.  First what its actions have in common: the command  *)
(* at the head of the queue, and what they add to the queue of the bridge. *)
(***************************************************************************)
LEMMA TakesFacts ==
  ASSUME IInv, NEW command, Takes(command)
  PROVE  /\ Head(commands) \in Command /\ Head(commands).cmd = command
         /\ Head(commands).client \in ClientId
         /\ Attributed(Head(commands))
         /\ Tail(commands) \in Seq(Command)
         /\ Range(Tail(commands)) \subseteq Range(commands)
  <1>1. commands \in Seq(Command) /\ commands # <<>>
    BY DEF IInv, TypeOK, Takes
  <1>2. Head(commands) \in Range(commands)
    BY <1>1, TailFacts
  <1> QED
    BY <1>1, <1>2, TailFacts, CommandFacts DEF IInv, Routing, Takes

(***************************************************************************)
(* A message added to the queue of one client leaves the other queues      *)
(* alone.                                                                  *)
(***************************************************************************)
LEMMA SendFacts ==
  ASSUME IInv, NEW id \in ClientId, NEW m \in Message,
         ipc_bridge_commands' = Append(ipc_bridge_commands, SendData(id, m)),
         ForOwner(m, id)
  PROVE  /\ ipc_bridge_commands' \in Seq(BridgeCommand)
         /\ \A c \in Range(ipc_bridge_commands') :
               \/ c \in Range(ipc_bridge_commands)
               \/ ForOwner(c.message, c.receiver)
  <1>1. /\ ipc_bridge_commands \in Seq(BridgeCommand)
        /\ SendData(id, m) \in BridgeCommand
    BY CommandFacts DEF IInv, TypeOK
  <1>2. SendData(id, m).message = m /\ SendData(id, m).receiver = id
    BY DEF SendData
  <1> QED
    BY <1>1, <1>2, AppendFacts

(***************************************************************************)
(* on_rpc_response, for a response to a call that was made.                *)
(***************************************************************************)
LEMMA OnRpcResponseFacts ==
  ASSUME IInv, NEW context \in Contexts, NEW kind \in Kinds,
         on_rpc_response(context, kind)
  PROVE  /\ running_rpcs' \in [Contexts -> RunningRpc \cup {None}]
         /\ unasked' \in [Contexts -> SUBSET ClientId]
         /\ ipc_bridge_commands' \in Seq(BridgeCommand)
         /\ \A c \in Contexts : running_rpcs'[c] # None =>
               \/ running_rpcs'[c] = running_rpcs[c]
               \/ call[c] # None /\ running_rpcs'[c].caller = call[c].caller
         /\ \A c \in Range(ipc_bridge_commands') :
               \/ c \in Range(ipc_bridge_commands)
               \/ ForOwner(c.message, c.receiver)
  <1> DEFINE rpc == running_rpcs[context]
             next == get_next(api_table, call[context].function, rpc.callee)
             m == RpcResponse(context, kind)
  <1>1. TypeOK /\ Routing
    BY DEF IInv
  <1>2. CASE rpc = None
    <2>1. UNCHANGED <<running_rpcs, unasked, ipc_bridge_commands>>
      BY <1>2 DEF on_rpc_response
    <2> QED
      BY <1>1, <2>1 DEF TypeOK
  <1>3. ASSUME rpc # None
        PROVE  /\ call[context] # None /\ call[context].function \in Functions
               /\ rpc \in RunningRpc /\ rpc.caller \in ClientId
               /\ rpc.callee \in ClientId /\ rpc.caller = call[context].caller
               /\ m \in Message /\ ForOwner(m, rpc.caller)
               /\ RpcCall(context) \in Message
               /\ \A id : ForOwner(RpcCall(context), id)
    <2>1. call[context] # None /\ rpc.caller = call[context].caller
      BY <1>1, <1>3 DEF Routing
    <2>2. rpc \in RunningRpc
      BY <1>1, <1>3 DEF TypeOK
    <2>3. call[context] \in Call \cup {None}
      BY <1>1 DEF TypeOK
    <2>4. ForOwner(m, rpc.caller) /\ \A id : ForOwner(RpcCall(context), id)
      BY <2>1 DEF ForOwner, RpcResponse, RpcCall
    <2> QED
      BY <2>1, <2>2, <2>3, <2>4, CallFacts, MessageFacts DEF RunningRpc
  <1>4. ASSUME rpc # None,
               ipc_bridge_commands' =
                  Append(ipc_bridge_commands, SendData(rpc.caller, m))
        PROVE  /\ ipc_bridge_commands' \in Seq(BridgeCommand)
               /\ \A c \in Range(ipc_bridge_commands') :
                     \/ c \in Range(ipc_bridge_commands)
                     \/ ForOwner(c.message, c.receiver)
    BY <1>3, <1>4, SendFacts
  <1>5. CASE rpc # None /\ kind = "Partial"
    <2>1. /\ ipc_bridge_commands' =
                Append(ipc_bridge_commands, SendData(rpc.caller, m))
          /\ UNCHANGED <<running_rpcs, unasked>>
      BY <1>5 DEF on_rpc_response
    <2> QED
      BY <1>1, <1>4, <1>5, <2>1 DEF TypeOK
  <1>6. CASE rpc # None /\ kind \in {"Done", "UnknownRpc"}
    <2>1. /\ ipc_bridge_commands' =
                Append(ipc_bridge_commands, SendData(rpc.caller, m))
          /\ running_rpcs' = [running_rpcs EXCEPT ![context] = None]
          /\ UNCHANGED unasked
      BY <1>6 DEF on_rpc_response
    <2> QED
      BY <1>1, <1>4, <1>6, <2>1 DEF TypeOK
  <1>7. CASE rpc # None /\ kind = "NotHandled" /\ next = {}
    <2>1. /\ ipc_bridge_commands' =
                Append(ipc_bridge_commands, SendData(rpc.caller, m))
          /\ UNCHANGED <<running_rpcs, unasked>>
      BY <1>7 DEF on_rpc_response
    <2> QED
      BY <1>1, <1>4, <1>7, <2>1 DEF TypeOK
  <1>8. CASE rpc # None /\ kind = "NotHandled" /\ next # {}
    <2>1. PICK info \in next :
            /\ running_rpcs' = [running_rpcs EXCEPT ![context] =
                                  WithCallee(rpc, info)]
            /\ unasked' = [unasked EXCEPT ![context] = @ \ {info.client_id}]
            /\ ipc_bridge_commands' =
                  Append(ipc_bridge_commands,
                         SendData(info.client_id, RpcCall(context)))
      BY <1>8 DEF on_rpc_response
    <2>2. info.client_id \in ClientId
      <3>1. /\ api_table \in [Functions -> Seq(ApiInfo)]
            /\ call[context].function \in Functions
        BY <1>1, <1>3, <1>8 DEF TypeOK
      <3>2. next \subseteq ApiInfo
        BY <3>1, GetNextType
      <3> QED
        BY <2>1, <3>2 DEF ApiInfo
    <2>3. /\ WithCallee(rpc, info) \in RunningRpc
          /\ WithCallee(rpc, info).caller = call[context].caller
      BY <1>3, <1>8, <2>2 DEF WithCallee, RunningRpc
    <2>4. /\ ipc_bridge_commands' \in Seq(BridgeCommand)
          /\ \A c \in Range(ipc_bridge_commands') :
                \/ c \in Range(ipc_bridge_commands)
                \/ ForOwner(c.message, c.receiver)
      BY <1>3, <1>8, <2>1, <2>2, SendFacts
    <2>5. /\ running_rpcs' \in [Contexts -> RunningRpc \cup {None}]
          /\ unasked' \in [Contexts -> SUBSET ClientId]
          /\ \A c \in Contexts \ {context} : running_rpcs'[c] = running_rpcs[c]
          /\ running_rpcs'[context] = WithCallee(rpc, info)
      BY <1>1, <2>1, <2>2, <2>3 DEF TypeOK
    <2> QED
      BY <1>3, <1>8, <2>3, <2>4, <2>5
  <1> QED
    BY <1>2, <1>5, <1>6, <1>7, <1>8 DEF Kinds, LastKinds

(***************************************************************************)
(* The parts of IInv that no action of the swiboe thread touches.          *)
(***************************************************************************)
LEMMA HandleFrame ==
  ASSUME IInv, NEW command, Takes(command),
         commands' \in Seq(Command),
         \A c \in Range(commands') : c \in Range(commands) \/ Attributed(c),
         api_table' \in [Functions -> Seq(ApiInfo)],
         clients' \subseteq ClientId,
         running_rpcs' \in [Contexts -> RunningRpc \cup {None}],
         unasked' \in [Contexts -> SUBSET ClientId],
         \A c \in Contexts : running_rpcs'[c] # None =>
            \/ running_rpcs'[c] = running_rpcs[c]
            \/ call[c] # None /\ running_rpcs'[c].caller = call[c].caller,
         ipc_bridge_commands' \in Seq(BridgeCommand),
         \A c \in Range(ipc_bridge_commands') :
            \/ c \in Range(ipc_bridge_commands)
            \/ ForOwner(c.message, c.receiver)
  PROVE  IInv'
  <1> USE DEF Takes, bridgeVars, callerVars, calleeVars
  <1>1. TypeOK'
    BY DEF IInv, TypeOK
  <1>2. Routing'
    BY RoutingFrame DEF IInv
  <1> QED
    BY <1>1, <1>2 DEF IInv

(***************************************************************************)
(* The handler of NewRpc only changes the table.                           *)
(***************************************************************************)
LEMMA HandleNewRpcStep ==
  ASSUME IInv, HandleNewRpc
  PROVE  IInv'
  <1> DEFINE c == Head(commands)
             info == [client_id |-> c.client, priority |-> c.priority]
  <1>1. TypeOK /\ Takes("NewRpc")
    BY DEF IInv, HandleNewRpc
  <1>2. c.client \in ClientId /\ c.name \in Functions /\ c.priority \in Priorities
    BY <1>1, TakesFacts, CommandFacts
  <1>3. api_table' \in register(api_table, c.name, info)
    BY DEF HandleNewRpc
  <1> HIDE DEF c
  <1>4. api_table' \in [Functions -> Seq(ApiInfo)]
    <2>1. /\ ApiInfo = Infos(ClientId, Priorities)
          /\ info \in Infos(ClientId, Priorities)
      BY <1>2 DEF ApiInfo, Infos
    <2>2. api_table \in [Functions -> Seq(Infos(ClientId, Priorities))]
      BY <1>1, <2>1 DEF TypeOK
    <2> HIDE DEF info
    <2>3. api_table' \in [Functions -> Seq(Infos(ClientId, Priorities))]
      BY <1>2, <1>3, <2>1, <2>2, RegisterType, PrioritiesAssumption
    <2> QED
      BY <2>1, <2>3
  <1>5. /\ commands' \in Seq(Command)
        /\ Range(commands') \subseteq Range(commands)
    BY <1>1, TakesFacts DEF HandleNewRpc
  <1> QED
    BY <1>1, <1>4, <1>5, HandleFrame DEF HandleNewRpc, TypeOK

(***************************************************************************)
(* The answer to a core call goes to the client that called.               *)
(***************************************************************************)
LEMMA HandleCoreCallStep ==
  ASSUME IInv, HandleCoreCall
  PROVE  IInv'
  <1> DEFINE id == Head(commands).client
             m == Head(commands).message
             x == call[m.context]
             new == NewRpc(id, x.function, x.priority)
             reply == RpcResponse(m.context, "Done")
  <1>1. TypeOK /\ Takes("FromClient") /\ m.tag = "RpcCall" /\ x.core
    BY DEF IInv, HandleCoreCall
  <1>2. /\ id \in ClientId /\ m \in Message /\ m.context \in Contexts
        /\ x # None /\ x.caller = id
    BY <1>1, TakesFacts, CommandFacts, MessageFacts DEF Attributed, FromOwner
  <1>3. x.function \in Functions /\ x.priority \in Priorities
    BY <1>1, <1>2, CallFacts DEF TypeOK
  <1>4. /\ commands' = Append(Tail(commands), new)
        /\ ipc_bridge_commands' =
              Append(ipc_bridge_commands, SendData(id, reply))
        /\ UNCHANGED swiboeVars
    BY DEF HandleCoreCall
  <1>5. reply \in Message /\ ForOwner(reply, id)
    BY <1>2, MessageFacts DEF Kinds, LastKinds, ForOwner, RpcResponse
  <1>6. new \in Command /\ Attributed(new)
    BY <1>2, <1>3, CommandFacts DEF Attributed, NewRpc
  <1> HIDE DEF id, m, x, new, reply
  <1>7. /\ commands' \in Seq(Command)
        /\ \A c \in Range(commands') : c \in Range(commands) \/ Attributed(c)
    <2>1. /\ Tail(commands) \in Seq(Command)
          /\ Range(Tail(commands)) \subseteq Range(commands)
      BY <1>1, TakesFacts
    <2> DEFINE rest == Tail(commands)
    <2>2. rest \in Seq(Command) /\ commands' = Append(rest, new)
      BY <1>4, <2>1
    <2> HIDE DEF rest
    <2>3. /\ commands' \in Seq(Command)
          /\ Range(commands') = Range(rest) \cup {new}
      BY <1>6, <2>2, AppendFacts
    <2> QED
      BY <1>6, <2>1, <2>3 DEF rest
  <1>8. /\ ipc_bridge_commands' \in Seq(BridgeCommand)
        /\ \A c \in Range(ipc_bridge_commands') :
              \/ c \in Range(ipc_bridge_commands)
              \/ ForOwner(c.message, c.receiver)
    BY <1>2, <1>4, <1>5, SendFacts
  <1> QED
    BY <1>1, <1>4, <1>7, <1>8, HandleFrame DEF swiboeVars, TypeOK

(***************************************************************************)
(* A new entry of running_rpcs names the client that called.               *)
(***************************************************************************)
LEMMA HandleRpcCallStep ==
  ASSUME IInv, HandleRpcCall
  PROVE  IInv'
  <1> DEFINE id == Head(commands).client
             m == Head(commands).message
             name == call[m.context].function
             first == get_first(api_table, name)
  <1>1. TypeOK /\ Takes("FromClient") /\ m.tag = "RpcCall"
    BY DEF IInv, HandleRpcCall
  <1>2. /\ id \in ClientId /\ m \in Message /\ m.context \in Contexts
        /\ call[m.context] # None /\ call[m.context].caller = id
    BY <1>1, TakesFacts, CommandFacts, MessageFacts DEF Attributed, FromOwner
  <1>3. name \in Functions
    BY <1>1, <1>2, CallFacts DEF TypeOK
  <1>4. /\ commands' \in Seq(Command)
        /\ Range(commands') \subseteq Range(commands)
    BY <1>1, TakesFacts DEF HandleRpcCall
  <1>5. UNCHANGED <<api_table, clients>>
    BY DEF HandleRpcCall
  <1>6. CASE first # {}
    <2>1. PICK info \in first :
            /\ running_rpcs' = [running_rpcs EXCEPT ![m.context] =
                  [caller |-> id, callee |-> info.client_id]]
            /\ unasked' = [unasked EXCEPT ![m.context] =
                  Registered(api_table, name) \ {info.client_id}]
            /\ ipc_bridge_commands' =
                  Append(ipc_bridge_commands, SendData(info.client_id, m))
      BY <1>6 DEF HandleRpcCall
    <2> HIDE DEF id, m
    <2>2. info.client_id \in ClientId
      <3>1. api_table \in [Functions -> Seq(ApiInfo)]
        BY <1>1 DEF TypeOK
      <3>2. first \subseteq ApiInfo
        BY <1>3, <3>1, GetFirstType
      <3> QED
        BY <2>1, <3>2 DEF ApiInfo
    <2>3. Registered(api_table, name) \subseteq ClientId
      <3>1. api_table[name] \in Seq(ApiInfo)
        BY <1>1, <1>3 DEF TypeOK
      <3>2. \A i \in DOMAIN api_table[name] : api_table[name][i] \in ApiInfo
        BY <3>1
      <3> QED
        BY <3>2 DEF Registered, ApiInfo
    <2>4. ForOwner(m, info.client_id)
      BY <1>1, <1>2 DEF ForOwner
    <2>5. /\ ipc_bridge_commands' \in Seq(BridgeCommand)
          /\ \A c \in Range(ipc_bridge_commands') :
                \/ c \in Range(ipc_bridge_commands)
                \/ ForOwner(c.message, c.receiver)
      BY <1>2, <2>1, <2>2, <2>4, SendFacts
    <2>6. /\ running_rpcs' \in [Contexts -> RunningRpc \cup {None}]
          /\ unasked' \in [Contexts -> SUBSET ClientId]
          /\ \A c \in Contexts \ {m.context} : running_rpcs'[c] = running_rpcs[c]
          /\ running_rpcs'[m.context].caller = call[m.context].caller
      BY <1>1, <1>2, <2>1, <2>2, <2>3 DEF TypeOK, RunningRpc
    <2> QED
      BY <1>1, <1>2, <1>4, <1>5, <2>5, <2>6, HandleFrame DEF TypeOK
  <1>7. CASE first = {}
    <2> DEFINE reply == RpcResponse(m.context, "UnknownRpc")
    <2>1. /\ ipc_bridge_commands' =
                Append(ipc_bridge_commands, SendData(id, reply))
          /\ UNCHANGED <<running_rpcs, unasked>>
      BY <1>7 DEF HandleRpcCall
    <2> HIDE DEF id, m
    <2>2. reply \in Message /\ ForOwner(reply, id)
      BY <1>2, MessageFacts DEF Kinds, LastKinds, ForOwner, RpcResponse
    <2>3. /\ ipc_bridge_commands' \in Seq(BridgeCommand)
          /\ \A c \in Range(ipc_bridge_commands') :
                \/ c \in Range(ipc_bridge_commands)
                \/ ForOwner(c.message, c.receiver)
      BY <1>2, <2>1, <2>2, SendFacts
    <2> QED
      BY <1>1, <1>4, <1>5, <2>1, <2>3, HandleFrame DEF TypeOK
  <1> QED
    BY <1>6, <1>7

(***************************************************************************)
(* A response of a client is forwarded to the caller of the running rpc.   *)
(***************************************************************************)
LEMMA HandleRpcResponseStep ==
  ASSUME IInv, HandleRpcResponse
  PROVE  IInv'
  <1> DEFINE m == Head(commands).message
  <1>1. /\ Takes("FromClient") /\ m.tag = "RpcResponse"
        /\ on_rpc_response(m.context, m.kind)
        /\ commands' = Tail(commands) /\ UNCHANGED <<api_table, clients>>
    BY DEF HandleRpcResponse
  <1>2. m.context \in Contexts /\ m.kind \in Kinds
    BY <1>1, TakesFacts, CommandFacts, MessageFacts
  <1> HIDE DEF m
  <1>3. /\ commands' \in Seq(Command)
        /\ Range(commands') \subseteq Range(commands)
    BY <1>1, TakesFacts
  <1> QED
    BY <1>1, <1>2, <1>3, OnRpcResponseFacts, HandleFrame DEF IInv, TypeOK

(***************************************************************************)
(* A cancel is forwarded to the callee and changes no entry.               *)
(***************************************************************************)
LEMMA HandleRpcCancelStep ==
  ASSUME IInv, HandleRpcCancel
  PROVE  IInv'
  <1> DEFINE m == Head(commands).message
             rpc == running_rpcs[m.context]
  <1>1. /\ TypeOK /\ Routing
        /\ Takes("FromClient") /\ on_rpc_cancel(m.context)
        /\ commands' = Tail(commands) /\ UNCHANGED <<api_table, clients>>
    BY DEF HandleRpcCancel, IInv
  <1>2. m.context \in Contexts
    BY <1>1, TakesFacts, CommandFacts, MessageFacts
  <1> HIDE DEF m
  <1>3. /\ commands' \in Seq(Command)
        /\ Range(commands') \subseteq Range(commands)
    BY <1>1, TakesFacts
  <1>4. UNCHANGED <<running_rpcs, unasked>>
    BY <1>1 DEF on_rpc_cancel
  <1>5. CASE rpc = None
    BY <1>1, <1>3, <1>4, <1>5, HandleFrame DEF TypeOK, on_rpc_cancel
  <1>6. CASE rpc # None
    <2>1. ipc_bridge_commands' =
             Append(ipc_bridge_commands,
                    SendData(rpc.callee, RpcCancel(m.context)))
      BY <1>1, <1>6 DEF on_rpc_cancel
    <2>2. /\ rpc.callee \in ClientId /\ RpcCancel(m.context) \in Message
      BY <1>1, <1>2, <1>6, MessageFacts DEF TypeOK, RunningRpc
    <2>3. ForOwner(RpcCancel(m.context), rpc.callee)
      BY <1>1, <1>2, <1>6 DEF Routing, ForOwner, RpcCancel
    <2>4. /\ ipc_bridge_commands' \in Seq(BridgeCommand)
          /\ \A c \in Range(ipc_bridge_commands') :
                \/ c \in Range(ipc_bridge_commands)
                \/ ForOwner(c.message, c.receiver)
      BY <2>1, <2>2, <2>3, SendFacts
    <2> QED
      BY <1>1, <1>3, <1>4, <2>4, HandleFrame DEF TypeOK
  <1> QED
    BY <1>5, <1>6

(***************************************************************************)
(* The surrogate answer to an undeliverable call is handled like a         *)
(* response.                                                               *)
(***************************************************************************)
LEMMA HandleSendDataFailedStep ==
  ASSUME IInv, HandleSendDataFailed
  PROVE  IInv'
  <1> DEFINE m == Head(commands).message
  <1>1. /\ Takes("SendDataFailed") /\ commands' = Tail(commands)
        /\ UNCHANGED <<api_table, clients>>
        /\ \/ on_rpc_response(m.context, "NotHandled")
           \/ UNCHANGED <<running_rpcs, unasked, ipc_bridge_commands>>
    BY DEF HandleSendDataFailed
  <1>2. m.context \in Contexts /\ "NotHandled" \in Kinds
    BY <1>1, TakesFacts, CommandFacts, MessageFacts DEF Kinds, LastKinds
  <1> HIDE DEF m
  <1>3. /\ commands' \in Seq(Command)
        /\ Range(commands') \subseteq Range(commands)
    BY <1>1, TakesFacts
  <1>4. CASE on_rpc_response(m.context, "NotHandled")
    BY <1>1, <1>2, <1>3, <1>4, OnRpcResponseFacts, HandleFrame DEF IInv, TypeOK
  <1>5. CASE UNCHANGED <<running_rpcs, unasked, ipc_bridge_commands>>
    BY <1>1, <1>3, <1>5, HandleFrame DEF IInv, TypeOK
  <1> QED
    BY <1>1, <1>4, <1>5

(***************************************************************************)
(* The handler of ClientConnected only changes the set of clients.         *)
(***************************************************************************)
LEMMA HandleClientConnectedStep ==
  ASSUME IInv, HandleClientConnected
  PROVE  IInv'
  <1>1. TypeOK /\ Takes("ClientConnected")
    BY DEF IInv, HandleClientConnected
  <1>2. /\ commands' \in Seq(Command)
        /\ Range(commands') \subseteq Range(commands)
        /\ clients' \subseteq ClientId
    BY <1>1, TakesFacts DEF HandleClientConnected, TypeOK
  <1> QED
    BY <1>1, <1>2, HandleFrame DEF HandleClientConnected, TypeOK

(***************************************************************************)
(* The handler of ClientDisconnected removes entries and adds none.        *)
(***************************************************************************)
LEMMA HandleClientDisconnectedStep ==
  ASSUME IInv, HandleClientDisconnected
  PROVE  IInv'
  <1> DEFINE id == Head(commands).client
  <1>1. TypeOK /\ Takes("ClientDisconnected")
    BY DEF IInv, HandleClientDisconnected
  <1>2. /\ commands' \in Seq(Command)
        /\ Range(commands') \subseteq Range(commands)
        /\ clients' \subseteq ClientId
    BY <1>1, TakesFacts DEF HandleClientDisconnected, TypeOK
  <1>3. api_table' \in [Functions -> Seq(ApiInfo)]
    <2>1. /\ api_table \in [Functions -> Seq(ApiInfo)]
          /\ api_table' \in deregister_by_client(api_table, id)
      BY <1>1 DEF HandleClientDisconnected, TypeOK
    <2> QED
      BY <2>1, DeregisterType
  <1>4. \A c \in Contexts : running_rpcs'[c] \in {None, running_rpcs[c]}
    BY DEF HandleClientDisconnected
  <1>5. running_rpcs' \in [Contexts -> RunningRpc \cup {None}]
    BY <1>1 DEF HandleClientDisconnected, TypeOK
  <1>6. UNCHANGED <<unasked, ipc_bridge_commands>>
    BY DEF HandleClientDisconnected
  <1> QED
    BY <1>1, <1>2, <1>3, <1>4, <1>5, <1>6, HandleFrame DEF TypeOK

(***************************************************************************)
(* Every command keeps the inductive invariant.                            *)
(***************************************************************************)
LEMMA HandleStep ==
  ASSUME IInv, handle
  PROVE  IInv'
  BY HandleNewRpcStep, HandleCoreCallStep, HandleRpcCallStep,
     HandleRpcResponseStep, HandleRpcCancelStep, HandleSendDataFailedStep,
     HandleClientConnectedStep, HandleClientDisconnectedStep DEF handle

-----------------------------------------------------------------------------
(***************************************************************************)
(* The clients.                                                            *)
(***************************************************************************)
LEMMA ClientSendFacts ==
  ASSUME IInv, NEW id \in ClientId, NEW m \in Message, Send(id, m)
  PROVE  /\ to_server' \in [ClientId -> Seq(Message)]
         /\ \A i \in ClientId \ {id} : to_server'[i] = to_server[i]
         /\ Range(to_server'[id]) = Range(to_server[id]) \cup {m}
  <1>1. to_server \in [ClientId -> Seq(Message)]
    BY DEF IInv, TypeOK
  <1>2. to_server' = [to_server EXCEPT ![id] = Append(to_server[id], m)]
    BY DEF Send
  <1>3. /\ Append(to_server[id], m) \in Seq(Message)
        /\ Range(Append(to_server[id], m)) = Range(to_server[id]) \cup {m}
    BY <1>1, AppendFacts
  <1> QED
    BY <1>1, <1>2, <1>3

(***************************************************************************)
(* The only step that changes call: what was known of other calls stays.   *)
(***************************************************************************)
LEMMA NewContextStep ==
  ASSUME IInv, NEW id \in ClientId, NEW context \in Contexts,
         NEW newCall \in Call, newCall.caller = id,
         NewContext(id, context, newCall)
  PROVE  IInv'
  <1> USE DEF NewContext, swiboeVars, bridgeVars, calleeVars
  <1>1. TypeOK /\ Routing /\ newCall # None
    BY NoneAssumption DEF IInv
  <1> DEFINE m == RpcCall(context)
  <1>2. m \in Message /\ m.context = context
    BY MessageFacts DEF RpcCall
  <1>3. /\ to_server' \in [ClientId -> Seq(Message)]
        /\ \A i \in ClientId \ {id} : to_server'[i] = to_server[i]
        /\ Range(to_server'[id]) = Range(to_server[id]) \cup {m}
    BY <1>2, ClientSendFacts
  <1>4. /\ call' \in [Contexts -> Call \cup {None}]
        /\ call'[context] = newCall
        /\ \A c \in Contexts : call[c] # None => call'[c] = call[c]
    BY <1>1 DEF TypeOK
  <1>5. TypeOK'
    BY <1>1, <1>3, <1>4 DEF TypeOK
  <1>6. Routing'
    <2>1. ASSUME NEW x \in Message, NEW i
          PROVE  /\ FromOwner(x, i) => FromOwner(x, i)'
                 /\ ForOwner(x, i) => ForOwner(x, i)'
      BY <1>4, MessageFacts DEF FromOwner, ForOwner
    <2>2. FromOwner(m, id)'
      BY <1>1, <1>2, <1>4 DEF FromOwner
    <2> HIDE DEF m
    <2>3. ASSUME NEW i \in ClientId, NEW x \in Range(to_server'[i])
          PROVE  FromOwner(x, i)'
      <3>1. CASE x \in Range(to_server[i])
        <4>1. x \in Message /\ FromOwner(x, i)
          BY <1>1, <3>1 DEF TypeOK, Routing, Range
        <4> QED
          BY <2>1, <4>1
      <3>2. CASE x \notin Range(to_server[i])
        BY <1>3, <2>2, <2>3, <3>2
      <3> QED
        BY <3>1, <3>2
    <2>4. ASSUME NEW c \in Range(commands')
          PROVE  Attributed(c)'
      <3>1. c \in Command /\ Attributed(c)
        BY <1>1 DEF TypeOK, Routing, Range
      <3>2. c.cmd = "FromClient" => FromOwner(c.message, c.client)'
        BY <2>1, <3>1, CommandFacts DEF Attributed
      <3>3. c.cmd = "SendDataFailed" => ForOwner(c.message, c.client)'
        BY <2>1, <3>1, CommandFacts DEF Attributed
      <3> QED
        BY <3>2, <3>3 DEF Attributed
    <2>5. ASSUME NEW c \in Range(ipc_bridge_commands')
          PROVE  ForOwner(c.message, c.receiver)'
      <3>1. c \in Range(ipc_bridge_commands)
        OBVIOUS
      <3>2. c \in BridgeCommand
        BY <1>1, <3>1, RangeType DEF TypeOK
      <3>3. ForOwner(c.message, c.receiver)
        BY <1>1, <3>1 DEF Routing
      <3> QED
        BY <2>1, <3>2, <3>3, CommandFacts
    <2>6. ASSUME NEW i \in ClientId, NEW x \in Range(to_client'[i])
          PROVE  ForOwner(x, i)'
      <3>1. x \in Message /\ ForOwner(x, i)
        BY <1>1 DEF TypeOK, Routing, Range
      <3> QED
        BY <2>1, <3>1
    <2>7. /\ \A c \in Contexts : running_rpcs'[c] # None =>
                call'[c] # None /\ running_rpcs'[c].caller = call'[c].caller
          /\ \A i \in ClientId : \A c \in serving'[i] : call'[c] # None
      BY <1>1, <1>4 DEF TypeOK, Routing
    <2> QED
      BY <2>3, <2>4, <2>5, <2>6, <2>7 DEF Routing
  <1> QED
    BY <1>5, <1>6 DEF IInv

(***************************************************************************)
(* A new call is attributed to the client that makes it.                   *)
(***************************************************************************)
LEMMA CallStep ==
  ASSUME IInv, NEW id \in ClientId, NEW context \in Contexts,
         NEW name \in Functions,
         \/ CallRpc(id, context, name)
         \/ \E p \in Priorities : RequestNewRpc(id, context, name, p)
  PROVE  IInv'
  <1>1. CASE CallRpc(id, context, name)
    <2> DEFINE x == [caller |-> id, core |-> FALSE, function |-> name]
    <2>1. x \in Call /\ x.caller = id
      BY DEF Call
    <2> QED
      BY <1>1, <2>1, NewContextStep DEF CallRpc
  <1>2. CASE \E p \in Priorities : RequestNewRpc(id, context, name, p)
    <2>1. PICK p \in Priorities : RequestNewRpc(id, context, name, p)
      BY <1>2
    <2> DEFINE x == [caller |-> id, core |-> TRUE, function |-> name,
                     priority |-> p]
    <2>2. x \in Call /\ x.caller = id
      BY DEF Call
    <2> QED
      BY <2>1, <2>2, NewContextStep DEF RequestNewRpc
  <1> QED
    BY <1>1, <1>2

(***************************************************************************)
(* Installing a function touches no queue.                                 *)
(***************************************************************************)
LEMMA InstallRpcStep ==
  ASSUME IInv, NEW id \in ClientId, NEW context \in Contexts,
         InstallRpc(id, context)
  PROVE  IInv'
  <1> USE DEF InstallRpc, swiboeVars, bridgeVars, callerVars
  <1>1. TypeOK /\ Routing /\ call[context].function \in Functions
    BY CallFacts DEF IInv, TypeOK
  <1>2. remote_procedures' \in [ClientId -> SUBSET Functions]
    BY <1>1 DEF TypeOK
  <1>3. TypeOK'
    BY <1>1, <1>2 DEF TypeOK
  <1>4. Routing'
    BY <1>1, RoutingFrame
  <1> QED
    BY <1>3, <1>4 DEF IInv

(***************************************************************************)
(* What the three kinds of messages have in common when a client receives  *)
(* one.                                                                    *)
(***************************************************************************)
LEMMA ReceivesFacts ==
  ASSUME IInv, NEW id \in ClientId, NEW tag, Receives(id, tag)
  PROVE  /\ Head(to_client[id]) \in Message
         /\ Head(to_client[id]).context \in Contexts
         /\ call[Head(to_client[id]).context] # None
         /\ to_client' \in [ClientId -> Seq(Message)]
         /\ \A i \in ClientId : Range(to_client'[i]) \subseteq Range(to_client[i])
  <1>1. /\ TypeOK /\ Routing /\ to_client[id] \in Seq(Message)
        /\ to_client[id] # <<>>
        /\ to_client' = [to_client EXCEPT ![id] = Tail(to_client[id])]
    BY DEF IInv, TypeOK, Receives
  <1>2. /\ Head(to_client[id]) \in Message
        /\ Head(to_client[id]) \in Range(to_client[id])
        /\ Tail(to_client[id]) \in Seq(Message)
        /\ Range(Tail(to_client[id])) \subseteq Range(to_client[id])
    BY <1>1, TailFacts
  <1>3. ForOwner(Head(to_client[id]), id)
    BY <1>1, <1>2 DEF Routing
  <1> QED
    BY <1>1, <1>2, <1>3, MessageFacts DEF TypeOK, ForOwner

(***************************************************************************)
(* A client that receives a message serves only calls that were made.      *)
(***************************************************************************)
LEMMA ReceiveStep ==
  ASSUME IInv, NEW id \in ClientId, Receive(id)
  PROVE  IInv'
  <1> DEFINE m == Head(to_client[id])
  <1> USE DEF Receives, swiboeVars, bridgeVars
  <1>1. TypeOK /\ Routing
    BY DEF IInv
  <1>2. PICK tag : Receives(id, tag)
    BY DEF Receive, ReceiveCall, ReceiveResponse, ReceiveCancel
  <1>3. /\ m \in Message /\ m.context \in Contexts /\ call[m.context] # None
        /\ to_client' \in [ClientId -> Seq(Message)]
        /\ \A i \in ClientId : Range(to_client'[i]) \subseteq Range(to_client[i])
    BY <1>2, ReceivesFacts
  <1>4. /\ serving' \in [ClientId -> SUBSET Contexts]
        /\ \A i \in ClientId : \A c \in serving'[i] :
              c \in serving[i] \/ call[c] # None
        /\ dropped' \subseteq Contexts
        /\ responses' \in [Contexts -> Seq(Kinds)]
    <2>1. CASE ReceiveCall(id)
      <3>1. /\ \/ UNCHANGED serving
               \/ serving' = [serving EXCEPT ![id] =
                                serving[id] \cup {m.context}]
            /\ UNCHANGED dropped \/ dropped' = dropped \cup {m.context}
            /\ UNCHANGED responses
        BY <2>1 DEF ReceiveCall
      <3> HIDE DEF m
      <3>2. /\ serving' \in [ClientId -> SUBSET Contexts]
            /\ \A i \in ClientId : serving'[i] \subseteq
                                    serving[i] \cup {m.context}
        <4>1. CASE UNCHANGED serving
          BY <1>1, <4>1 DEF TypeOK
        <4>2. CASE serving' = [serving EXCEPT ![id] =
                                 serving[id] \cup {m.context}]
          BY <1>1, <1>3, <4>2 DEF TypeOK
        <4> QED
          BY <3>1, <4>1, <4>2
      <3> QED
        BY <1>1, <1>3, <3>1, <3>2 DEF TypeOK
    <2>2. CASE ReceiveResponse(id)
      <3>1. /\ m.tag = "RpcResponse"
            /\ \/ UNCHANGED responses
               \/ responses' = [responses EXCEPT ![m.context] =
                                  Append(responses[m.context], m.kind)]
            /\ UNCHANGED <<serving, dropped>>
        BY <2>2 DEF ReceiveResponse
      <3> HIDE DEF m
      <3>2. m.kind \in Kinds
        BY <1>3, <3>1, MessageFacts
      <3>3. Append(responses[m.context], m.kind) \in Seq(Kinds)
        BY <1>1, <1>3, <3>2, AppendFacts DEF TypeOK
      <3>4. responses' \in [Contexts -> Seq(Kinds)]
        BY <1>1, <1>3, <3>1, <3>3 DEF TypeOK
      <3> QED
        BY <1>1, <3>1, <3>4 DEF TypeOK
    <2>3. CASE ReceiveCancel(id)
      <3>1. /\ serving' = [serving EXCEPT ![id] = serving[id] \ {m.context}]
            /\ UNCHANGED <<responses, dropped>>
        BY <2>3 DEF ReceiveCancel
      <3> HIDE DEF m
      <3> QED
        BY <1>1, <1>3, <3>1 DEF TypeOK
    <2> QED
      BY <2>1, <2>2, <2>3 DEF Receive
  <1>5. TypeOK'
    BY <1>1, <1>2, <1>3, <1>4 DEF TypeOK
  <1>6. Routing'
    BY <1>1, <1>2, <1>3, <1>4, RoutingFrame
  <1> QED
    BY <1>5, <1>6 DEF IInv

(***************************************************************************)
(* Only the caller cancels a call.                                         *)
(***************************************************************************)
LEMMA CancelStep ==
  ASSUME IInv, NEW id \in ClientId, NEW context \in Contexts,
         Cancel(id, context)
  PROVE  IInv'
  <1> DEFINE m == RpcCancel(context)
  <1> USE DEF Cancel, swiboeVars, bridgeVars, calleeVars
  <1>1. TypeOK /\ Routing /\ m \in Message
    BY MessageFacts DEF IInv
  <1>2. FromOwner(m, id)
    BY DEF FromOwner, RpcCancel
  <1> HIDE DEF m
  <1>3. /\ to_server' \in [ClientId -> Seq(Message)]
        /\ \A i \in ClientId \ {id} : to_server'[i] = to_server[i]
        /\ Range(to_server'[id]) = Range(to_server[id]) \cup {m}
    BY <1>1, ClientSendFacts DEF m
  <1>4. TypeOK'
    BY <1>1, <1>3 DEF TypeOK
  <1>5. Routing'
    BY <1>1, <1>2, <1>3, RoutingFrame
  <1> QED
    BY <1>4, <1>5 DEF IInv

(***************************************************************************)
(* update and finish send a response to a call that the client serves.     *)
(***************************************************************************)
LEMMA RespondStep ==
  ASSUME IInv, NEW id \in ClientId, NEW context \in serving[id],
         NEW kind \in Kinds, Send(id, RpcResponse(context, kind))
  PROVE  /\ to_server' \in [ClientId -> Seq(Message)]
         /\ \A i \in ClientId : \A x \in Range(to_server'[i]) :
               x \in Range(to_server[i]) \/ FromOwner(x, i)
  <1> DEFINE m == RpcResponse(context, kind)
  <1>1. context \in Contexts /\ call[context] # None
    BY DEF IInv, TypeOK, Routing
  <1>2. m \in Message /\ FromOwner(m, id)
    BY <1>1, MessageFacts DEF FromOwner, RpcResponse
  <1> HIDE DEF m
  <1>3. /\ to_server' \in [ClientId -> Seq(Message)]
        /\ \A i \in ClientId \ {id} : to_server'[i] = to_server[i]
        /\ Range(to_server'[id]) = Range(to_server[id]) \cup {m}
    BY <1>2, ClientSendFacts DEF m
  <1> QED
    BY <1>2, <1>3

(***************************************************************************)
(* A partial response is about a call that the client serves.              *)
(***************************************************************************)
LEMMA UpdateStep ==
  ASSUME IInv, NEW id \in ClientId, NEW context \in Contexts,
         update(id, context)
  PROVE  IInv'
  <1> USE DEF update, swiboeVars, bridgeVars, callerVars
  <1>1. TypeOK /\ Routing /\ "Partial" \in Kinds
    BY DEF IInv, Kinds
  <1>2. /\ to_server' \in [ClientId -> Seq(Message)]
        /\ \A i \in ClientId : \A x \in Range(to_server'[i]) :
              x \in Range(to_server[i]) \/ FromOwner(x, i)
    BY <1>1, RespondStep
  <1>3. updates' \in [Contexts -> 0 .. MaxUpdates]
    BY <1>1, BoundsAssumption DEF TypeOK
  <1>4. TypeOK'
    BY <1>1, <1>2, <1>3 DEF TypeOK
  <1>5. Routing'
    BY <1>1, <1>2, RoutingFrame
  <1> QED
    BY <1>4, <1>5 DEF IInv

(***************************************************************************)
(* A last response is about a call that the client serves.                 *)
(***************************************************************************)
LEMMA FinishStep ==
  ASSUME IInv, NEW id \in ClientId, NEW context \in Contexts,
         NEW kind \in {"Done", "NotHandled"}, finish(id, context, kind)
  PROVE  IInv'
  <1> USE DEF finish, Finished, swiboeVars, bridgeVars, callerVars
  <1>1. TypeOK /\ Routing /\ kind \in Kinds
    BY DEF IInv, Kinds, LastKinds
  <1>2. /\ to_server' \in [ClientId -> Seq(Message)]
        /\ \A i \in ClientId : \A x \in Range(to_server'[i]) :
              x \in Range(to_server[i]) \/ FromOwner(x, i)
    BY <1>1, RespondStep
  <1>3. /\ serving' \in [ClientId -> SUBSET Contexts]
        /\ \A i \in ClientId : serving'[i] \subseteq serving[i]
    BY <1>1 DEF TypeOK
  <1>4. TypeOK'
    BY <1>1, <1>2, <1>3 DEF TypeOK
  <1>5. Routing'
    BY <1>1, <1>2, <1>3, RoutingFrame
  <1> QED
    BY <1>4, <1>5 DEF IInv

-----------------------------------------------------------------------------
(***************************************************************************)
(* Every step of the specification keeps the inductive invariant.          *)
(***************************************************************************)
LEMMA NextStep ==
  ASSUME IInv, [Next]_vars
  PROVE  IInv'
  <1>1. CASE handle
    BY <1>1, HandleStep
  <1>2. CASE notify
    BY <1>2, NotifyStep
  <1>3. CASE \E t \in Tokens : new_client(t)
    BY <1>3, NewClientStep
  <1>4. ASSUME NEW id \in ClientId, ReadMessage(id) \/ Hup(id) \/ ClientStep(id)
        PROVE  IInv'
    BY <1>4, ReadMessageStep, HupStep, ReceiveStep, CallStep, InstallRpcStep,
       CancelStep, UpdateStep, FinishStep DEF ClientStep
  <1>5. CASE UNCHANGED vars
    <2> USE <1>5 DEF vars, swiboeVars, bridgeVars, callerVars, calleeVars
    <2>1. TypeOK'
      BY DEF IInv, TypeOK
    <2>2. Routing'
      BY RoutingFrame DEF IInv
    <2> QED
      BY <2>1, <2>2 DEF IInv
  <1> QED
    BY <1>1, <1>2, <1>3, <1>4, <1>5 DEF Next

(***************************************************************************)
(* The inductive invariant holds in every state.                           *)
(***************************************************************************)
THEOREM Invariance == Spec => []IInv
  BY InitIInv, NextStep, PTL DEF Spec

(***************************************************************************)
(* Every variable keeps its type, whatever the clients do and whenever     *)
(* they go away.                                                           *)
(***************************************************************************)
THEOREM TypeCorrectness == Spec => []TypeOK
  <1>1. IInv => TypeOK
    BY DEF IInv
  <1> QED
    BY <1>1, Invariance, PTL

(***************************************************************************)
(* The bridge never queues a response for a client other than the one that *)
(* made the call: not when a slot of the slab is used again, and not when  *)
(* the call has moved on from one layer to the next.                       *)
(***************************************************************************)
THEOREM ResponsesReachTheirCaller == Spec => []RepliesReachCaller
  <1>1. IInv => RepliesReachCaller
    BY DEF IInv, Routing, ForOwner, RepliesReachCaller
  <1> QED
    BY <1>1, Invariance, PTL

(***************************************************************************)
(* Only registrations and disconnects change the table.                    *)
(***************************************************************************)
LEMMA ApiTableChange ==
  ASSUME IInv, [Next]_vars
  PROVE  HandleNewRpc \/ HandleClientDisconnected \/ UNCHANGED api_table
  <1> USE DEF swiboeVars
  <1>1. CASE handle
    BY <1>1 DEF handle, HandleCoreCall, HandleRpcCall, HandleRpcResponse,
       HandleRpcCancel, HandleSendDataFailed, HandleClientConnected
  <1>2. CASE notify \/ \E t \in Tokens : new_client(t)
    BY <1>2 DEF notify, new_client
  <1>3. ASSUME NEW id \in ClientId, ReadMessage(id) \/ Hup(id)
        PROVE  UNCHANGED api_table
    BY <1>3 DEF ReadMessage, Hup
  <1>4. ASSUME NEW id \in ClientId, ClientStep(id)
        PROVE  UNCHANGED api_table
    <2>1. CASE Receive(id)
      BY <2>1 DEF Receive, ReceiveCall, ReceiveResponse, ReceiveCancel,
         Receives
    <2>2. CASE ~Receive(id)
      BY <1>4, <2>2 DEF ClientStep, CallRpc, RequestNewRpc, NewContext, InstallRpc,
         Cancel, update, finish
    <2> QED
      BY <2>1, <2>2
  <1>5. CASE UNCHANGED vars
    BY <1>5 DEF vars
  <1> QED
    BY <1>1, <1>2, <1>3, <1>4, <1>5 DEF Next

(***************************************************************************)
(* The registrations of every function stay in ascending order of their    *)
(* priorities, so that following the list asks the layers in order.        *)
(***************************************************************************)
THEOREM TableStaysSorted == Spec => []TableSorted
  <1>1. Init => TableSorted
    BY DEF Init, ServerInit, TableSorted, Sorted
  <1>2. ASSUME IInv, TableSorted, [Next]_vars
        PROVE  TableSorted'
    <2>1. CASE HandleNewRpc
      <3> DEFINE c == Head(commands)
                 info == [client_id |-> c.client, priority |-> c.priority]
      <3>1. api_table' \in register(api_table, c.name, info)
        BY <2>1 DEF HandleNewRpc
      <3>2. /\ c.client \in ClientId /\ c.name \in Functions
            /\ c.priority \in Priorities
        BY <1>2, <2>1, TakesFacts, CommandFacts DEF HandleNewRpc
      <3>3. /\ info \in Infos(ClientId, Priorities)
            /\ api_table \in [Functions -> Seq(Infos(ClientId, Priorities))]
        BY <1>2, <3>2 DEF Infos, ApiInfo, IInv, TypeOK
      <3> HIDE DEF c, info
      <3> QED
        BY <1>2, <3>1, <3>2, <3>3, RegisterSorted, PrioritiesAssumption
           DEF TableSorted
    <2>2. CASE HandleClientDisconnected
      <3>1. PICK id : api_table' \in deregister_by_client(api_table, id)
        BY <2>2 DEF HandleClientDisconnected
      <3>2. api_table \in [Functions -> Seq(ApiInfo)]
        BY <1>2 DEF IInv, TypeOK
      <3> QED
        BY <1>2, <3>1, <3>2, DeregisterSorted DEF TableSorted
    <2>3. CASE UNCHANGED api_table
      BY <1>2, <2>3 DEF TableSorted
    <2> QED
      BY <1>2, <2>1, <2>2, <2>3, ApiTableChange
  <1> QED
    BY <1>1, <1>2, Invariance, PTL DEF Spec

-----------------------------------------------------------------------------
(***************************************************************************)
(* queue has an element of S.                                              *)
(***************************************************************************)
Has(queue, S) == \E i \in DOMAIN queue : queue[i] \in S

(***************************************************************************)
(* No element of A comes after one of C.                                   *)
(***************************************************************************)
NoneBehind(queue, C, A) ==
  \A i, j \in DOMAIN queue : queue[i] \in C /\ queue[j] \in A => j <= i

(***************************************************************************)
(* A queue that grows by x has what it had and x; an x of A is behind all. *)
(***************************************************************************)
LEMMA HasAppend ==
  ASSUME NEW T, NEW s \in Seq(T), NEW x \in T
  PROVE  /\ \A S : Has(Append(s, x), S) <=> Has(s, S) \/ x \in S
         /\ \A C, A : NoneBehind(s, C, A) /\ (x \in A => ~Has(s, C))
               => NoneBehind(Append(s, x), C, A)
  <1> DEFINE r == Append(s, x)
  <1>1. /\ Len(s) \in Nat /\ DOMAIN s = 1 .. Len(s)
        /\ DOMAIN r = 1 .. Len(s) + 1
        /\ \A i \in 1 .. Len(s) : r[i] = s[i]
        /\ r[Len(s) + 1] = x
    OBVIOUS
  <1> HIDE DEF r
  <1>2. ASSUME NEW S
        PROVE  Has(r, S) <=> Has(s, S) \/ x \in S
    <2>1. CASE x \in S
      BY <1>1, <2>1 DEF Has
    <2>2. CASE x \notin S
      BY <1>1, <2>2 DEF Has
    <2> QED
      BY <2>1, <2>2
  <1>3. ASSUME NEW C, NEW A, NoneBehind(s, C, A), x \in A => ~Has(s, C)
        PROVE  NoneBehind(r, C, A)
    <2> SUFFICES ASSUME NEW i \in DOMAIN r, NEW j \in DOMAIN r,
                        r[i] \in C, r[j] \in A
                 PROVE  j <= i
      BY DEF NoneBehind
    <2>1. CASE i = Len(s) + 1
      BY <1>1, <2>1
    <2>2. CASE i # Len(s) + 1 /\ j # Len(s) + 1
      BY <1>1, <1>3, <2>2 DEF NoneBehind
    <2>3. CASE i # Len(s) + 1 /\ j = Len(s) + 1
      BY <1>1, <1>3, <2>3 DEF Has
    <2> QED
      BY <2>1, <2>2, <2>3
  <1> QED
    BY <1>2, <1>3 DEF r

(***************************************************************************)
(* A queue that is not empty has its head and what its tail has; nothing   *)
(* of A is behind a head of C.                                             *)
(***************************************************************************)
LEMMA HasTail ==
  ASSUME NEW T, NEW s \in Seq(T), s # <<>>
  PROVE  /\ Tail(s) \in Seq(T) /\ Head(s) \in T
         /\ \A S : Has(s, S) <=> Has(Tail(s), S) \/ Head(s) \in S
         /\ \A C, A : NoneBehind(s, C, A) =>
               /\ NoneBehind(Tail(s), C, A)
               /\ Head(s) \in C => ~Has(Tail(s), A)
  <1> DEFINE r == Tail(s)
             n == Len(s)
  <1>1. /\ r \in Seq(T) /\ Head(s) \in T
        /\ n \in Nat /\ n > 0 /\ DOMAIN s = 1 .. n
        /\ DOMAIN r = 1 .. n - 1
        /\ \A i \in 1 .. n - 1 : r[i] = s[i + 1]
        /\ Head(s) = s[1]
    OBVIOUS
  <1> HIDE DEF r, n
  <1>2. ASSUME NEW S
        PROVE  Has(s, S) <=> Has(r, S) \/ Head(s) \in S
    <2>1. ASSUME NEW i \in DOMAIN s, s[i] \in S, i # 1
          PROVE  Has(r, S)
      <3>1. i - 1 \in 1 .. n - 1 /\ r[i - 1] = s[i]
        BY <1>1, <2>1
      <3> QED
        BY <1>1, <2>1, <3>1 DEF Has
    <2>2. ASSUME NEW i \in DOMAIN r, r[i] \in S
          PROVE  Has(s, S)
      <3>1. i + 1 \in 1 .. n /\ r[i] = s[i + 1]
        BY <1>1
      <3> QED
        BY <1>1, <2>2, <3>1 DEF Has
    <2>3. Head(s) \in S => Has(s, S)
      BY <1>1 DEF Has
    <2> QED
      BY <1>1, <2>1, <2>2, <2>3 DEF Has
  <1>3. ASSUME NEW C, NEW A, NoneBehind(s, C, A)
        PROVE  NoneBehind(r, C, A) /\ (Head(s) \in C => ~Has(r, A))
    <2>1. ASSUME NEW i \in DOMAIN r, NEW j \in DOMAIN r,
                 r[i] \in C, r[j] \in A
          PROVE  j <= i
      <3>1. /\ i + 1 \in DOMAIN s /\ j + 1 \in DOMAIN s
            /\ s[i + 1] \in C /\ s[j + 1] \in A
        BY <1>1, <2>1
      <3>2. j + 1 <= i + 1
        BY <1>3, <3>1 DEF NoneBehind
      <3> QED
        BY <1>1, <3>2
    <2>2. ASSUME Head(s) \in C, NEW j \in DOMAIN r, r[j] \in A
          PROVE  FALSE
      <3>1. /\ 1 \in DOMAIN s /\ j + 1 \in DOMAIN s
            /\ s[1] \in C /\ s[j + 1] \in A
        BY <1>1, <2>2
      <3>2. j + 1 <= 1
        BY <1>3, <3>1 DEF NoneBehind
      <3> QED
        BY <1>1, <3>2
    <2> QED
      BY <2>1, <2>2 DEF NoneBehind, Has
  <1> QED
    BY <1>1, <1>2, <1>3 DEF r

(***************************************************************************)
(* A prefix of a queue has nothing that the queue does not have, and keeps *)
(* its order.                                                              *)
(***************************************************************************)
LEMMA HasPrefix ==
  ASSUME NEW T, NEW s \in Seq(T), NEW n \in 0 .. Len(s)
  PROVE  /\ \A S : Has(SubSeq(s, 1, n), S) => Has(s, S)
         /\ \A S : Has(s, S) =>
               \/ Has(SubSeq(s, 1, n), S)
               \/ \E i \in n + 1 .. Len(s) : s[i] \in S
         /\ \A C, A : NoneBehind(s, C, A) => NoneBehind(SubSeq(s, 1, n), C, A)
  <1> DEFINE r == SubSeq(s, 1, n)
  <1>1. /\ Len(s) \in Nat /\ DOMAIN s = 1 .. Len(s)
        /\ DOMAIN r = 1 .. n /\ 1 .. n \subseteq 1 .. Len(s)
        /\ \A i \in 1 .. n : r[i] = s[i]
    OBVIOUS
  <1> HIDE DEF r
  <1>2. \A S : Has(r, S) => Has(s, S)
    BY <1>1 DEF Has
  <1>3. \A S : Has(s, S) => Has(r, S) \/ \E i \in n + 1 .. Len(s) : s[i] \in S
    <2> SUFFICES ASSUME NEW S, NEW i \in DOMAIN s, s[i] \in S
                 PROVE  Has(r, S) \/ \E k \in n + 1 .. Len(s) : s[k] \in S
      BY DEF Has
    <2>1. i \in 1 .. n \/ i \in n + 1 .. Len(s)
      BY <1>1
    <2> QED
      BY <1>1, <2>1 DEF Has
  <1>4. \A C, A : NoneBehind(s, C, A) => NoneBehind(r, C, A)
    BY <1>1 DEF NoneBehind
  <1> QED
    BY <1>2, <1>3, <1>4 DEF r

(***************************************************************************)
(* The empty queue has nothing.                                            *)
(***************************************************************************)
LEMMA HasNone == \A S, C, A : ~Has(<<>>, S) /\ NoneBehind(<<>>, C, A)
  BY DEF Has, NoneBehind

(***************************************************************************)
(* What is in a set is in a larger set.                                    *)
(***************************************************************************)
LEMMA HasMore ==
  ASSUME NEW s, NEW R, NEW S, R \subseteq S, Has(s, R)
  PROVE  Has(s, S)
  BY DEF Has

(***************************************************************************)
(* Having an element is having it in the range.                            *)
(***************************************************************************)
LEMMA HasRange ==
  ASSUME NEW T, NEW s \in Seq(T)
  PROVE  \A S : Has(s, S) <=> \E x \in Range(s) : x \in S
  BY DEF Has, Range

-----------------------------------------------------------------------------
(***************************************************************************)
(* The messages that carry a call, and all that is said about it but       *)
(* cancels.                                                                *)
(***************************************************************************)
CarriersOf(c) == {m \in Message : Carries(m, c)}
SaidOf(c) == {m \in Message : m.context = c /\ m.tag # "RpcCancel"}

(***************************************************************************)
(* The commands by which a message of S reaches swiboe or the bridge.      *)
(***************************************************************************)
CommandsOf(S) ==
  {k \in Command :
     \/ k.cmd = "FromClient" /\ k.message \in S
     \/ k.cmd = "SendDataFailed" /\ k.message \in S /\ NeedsSurrogate(k.message)}

BridgeCommandsOf(S) == {b \in BridgeCommand : b.message \in S}

InServer(id, S) == Has(to_server[id], S)
InCommands(S) == Has(commands, CommandsOf(S))
InBridge(S) == Has(ipc_bridge_commands, BridgeCommandsOf(S))
InClient(id, S) == Has(to_client[id], S)

(***************************************************************************)
(* In every queue a carrier of the call is behind all that is said about   *)
(* it.                                                                     *)
(***************************************************************************)
CarrierIsLast(c) ==
  /\ NoneBehind(commands, CommandsOf(CarriersOf(c)), CommandsOf(SaidOf(c)))
  /\ NoneBehind(ipc_bridge_commands, BridgeCommandsOf(CarriersOf(c)),
                BridgeCommandsOf(SaidOf(c)))
  /\ \A id \in ClientId :
        /\ NoneBehind(to_server[id], CarriersOf(c), SaidOf(c))
        /\ NoneBehind(to_client[id], CarriersOf(c), SaidOf(c))

(***************************************************************************)
(* There is one carrier in all, and nothing that is said about the call is *)
(* upstream of it: from the client that serves the call to its socket, the *)
(* queue of swiboe, that of the bridge and the socket of a client.         *)
(***************************************************************************)
OneCarrier(c) ==
  \A i, j \in ClientId :
    /\ c \in serving[i] =>
         /\ ~InServer(j, CarriersOf(c)) /\ ~InCommands(CarriersOf(c))
         /\ ~InBridge(CarriersOf(c)) /\ ~InClient(j, CarriersOf(c))
         /\ i # j => ~InServer(j, SaidOf(c)) /\ c \notin serving[j]
    /\ InServer(i, SaidOf(c)) =>
         /\ ~InCommands(CarriersOf(c)) /\ ~InBridge(CarriersOf(c))
         /\ ~InClient(j, CarriersOf(c))
    /\ InServer(i, CarriersOf(c)) /\ i # j => ~InServer(j, SaidOf(c))
    /\ InCommands(SaidOf(c)) =>
         ~InBridge(CarriersOf(c)) /\ ~InClient(j, CarriersOf(c))
    /\ InBridge(SaidOf(c)) => ~InClient(j, CarriersOf(c))
    /\ InClient(i, CarriersOf(c)) /\ i # j => ~InClient(j, CarriersOf(c))

(***************************************************************************)
(* Nothing is said about the call anywhere.                                *)
(***************************************************************************)
Silent(c) ==
  /\ ~InCommands(SaidOf(c)) /\ ~InBridge(SaidOf(c))
  /\ \A id \in ClientId :
       /\ ~InServer(id, SaidOf(c)) /\ ~InClient(id, SaidOf(c))
       /\ c \notin serving[id]

(***************************************************************************)
(* Nothing is said once the caller has the answer, or before the call.     *)
(***************************************************************************)
AnswerIsLast(c) ==
  /\ Answered(c) => Silent(c)
  /\ call[c] = None => responses[c] = <<>>
  /\ \A i, j \in DOMAIN responses[c] : i < j => responses[c][i] = "Partial"

(***************************************************************************)
(* The order in which things are said about a call.                        *)
(***************************************************************************)
InOrder(c) == CarrierIsLast(c) /\ OneCarrier(c) /\ AnswerIsLast(c)

(***************************************************************************)
(* Which messages carry a call, and which say something about it.          *)
(***************************************************************************)
LEMMA SetFacts ==
  ASSUME NEW c \in Contexts
  PROVE  /\ CarriersOf(c) \subseteq SaidOf(c) /\ SaidOf(c) \subseteq Message
         /\ CommandsOf(CarriersOf(c)) \subseteq CommandsOf(SaidOf(c))
         /\ BridgeCommandsOf(CarriersOf(c)) \subseteq BridgeCommandsOf(SaidOf(c))
         /\ \A m \in SaidOf(c) : m.context = c /\ m.tag # "RpcCancel"
         /\ \A d \in Contexts : /\ RpcCall(d) \in CarriersOf(c) <=> d = c
                                /\ RpcCall(d) \in SaidOf(c) <=> d = c
                                /\ RpcCancel(d) \notin SaidOf(c)
         /\ \A d \in Contexts, k \in Kinds :
               /\ RpcResponse(d, k) \in SaidOf(c) <=> d = c
               /\ RpcResponse(d, k) \in CarriersOf(c) <=> d = c /\ k \in LastKinds
         /\ \A m \in Message : m \in SaidOf(c) /\ m \notin CarriersOf(c) =>
               m.tag = "RpcResponse" /\ m.kind = "Partial"
  BY MessageFacts DEF CarriersOf, SaidOf, CommandsOf, BridgeCommandsOf, Carries,
     RpcCall, RpcCancel, RpcResponse, Message, Kinds, LastKinds

(***************************************************************************)
(* Which commands bring such messages.                                     *)
(***************************************************************************)
LEMMA CommandsOfFacts ==
  /\ \A k \in Command : \A S :
        /\ k.cmd = "FromClient" => (k \in CommandsOf(S) <=> k.message \in S)
        /\ k.cmd = "SendDataFailed" =>
              (k \in CommandsOf(S) <=> k.message \in S /\ NeedsSurrogate(k.message))
        /\ k.cmd \notin {"FromClient", "SendDataFailed"} => k \notin CommandsOf(S)
  /\ \A id \in ClientId, m \in Message : \A S :
        /\ FromClient(id, m) \in CommandsOf(S) <=> m \in S
        /\ SendDataFailed(id, m) \in CommandsOf(S)
              <=> m \in S /\ NeedsSurrogate(m)
        /\ SendData(id, m) \in BridgeCommandsOf(S) <=> m \in S
  /\ \A id \in ClientId : \A S :
        /\ ClientConnected(id) \notin CommandsOf(S)
        /\ ClientDisconnected(id) \notin CommandsOf(S)
  /\ \A id \in ClientId, n \in Functions, p \in Priorities : \A S :
        NewRpc(id, n, p) \notin CommandsOf(S)
  /\ \A b \in BridgeCommand : \A S : b \in BridgeCommandsOf(S) <=> b.message \in S
  <1>1. ASSUME NEW k \in Command, NEW S
        PROVE  /\ k.cmd = "FromClient" => (k \in CommandsOf(S) <=> k.message \in S)
               /\ k.cmd = "SendDataFailed" =>
                     (k \in CommandsOf(S)
                        <=> k.message \in S /\ NeedsSurrogate(k.message))
               /\ k.cmd \notin {"FromClient", "SendDataFailed"}
                     => k \notin CommandsOf(S)
    BY DEF CommandsOf
  <1>2. ASSUME NEW id \in ClientId, NEW m \in Message, NEW S
        PROVE  /\ FromClient(id, m) \in CommandsOf(S) <=> m \in S
               /\ SendDataFailed(id, m) \in CommandsOf(S)
                     <=> m \in S /\ NeedsSurrogate(m)
               /\ SendData(id, m) \in BridgeCommandsOf(S) <=> m \in S
    BY CommandFacts
       DEF CommandsOf, BridgeCommandsOf, FromClient, SendDataFailed, SendData
  <1>3. ASSUME NEW id \in ClientId, NEW S
        PROVE  /\ ClientConnected(id) \notin CommandsOf(S)
               /\ ClientDisconnected(id) \notin CommandsOf(S)
    BY DEF CommandsOf, ClientConnected, ClientDisconnected
  <1>4. ASSUME NEW id \in ClientId, NEW n \in Functions, NEW p \in Priorities,
               NEW S
        PROVE  NewRpc(id, n, p) \notin CommandsOf(S)
    BY DEF CommandsOf, NewRpc
  <1>5. \A b \in BridgeCommand : \A S : b \in BridgeCommandsOf(S) <=> b.message \in S
    BY DEF BridgeCommandsOf
  <1> QED
    BY <1>1, <1>2, <1>3, <1>4, <1>5

(***************************************************************************)
(* A queue with a carrier of a call has something said about it, before    *)
(* and after every step.                                                   *)
(***************************************************************************)
LEMMA CarriersAreSaid ==
  ASSUME NEW c \in Contexts
  PROVE  LET Also ==
               /\ InCommands(CarriersOf(c)) => InCommands(SaidOf(c))
               /\ InBridge(CarriersOf(c)) => InBridge(SaidOf(c))
               /\ \A id \in ClientId :
                    /\ InServer(id, CarriersOf(c)) => InServer(id, SaidOf(c))
                    /\ InClient(id, CarriersOf(c)) => InClient(id, SaidOf(c))
         IN  Also /\ Also'
  <1>1. \A queue :
           /\ Has(queue, CarriersOf(c)) => Has(queue, SaidOf(c))
           /\ Has(queue, CommandsOf(CarriersOf(c))) => Has(queue, CommandsOf(SaidOf(c)))
           /\ Has(queue, BridgeCommandsOf(CarriersOf(c)))
                 => Has(queue, BridgeCommandsOf(SaidOf(c)))
    BY SetFacts, HasMore
  <1> QED
    BY <1>1 DEF InCommands, InBridge, InServer, InClient

-----------------------------------------------------------------------------
(***************************************************************************)
(* swiboe's queue grows by one command.                                    *)
(***************************************************************************)
LEMMA CommandsGrow ==
  ASSUME NEW queue \in Seq(Command), NEW k \in Command,
         commands' = Append(queue, k)
  PROVE  /\ \A S : InCommands(S)' <=> Has(queue, CommandsOf(S)) \/ k \in CommandsOf(S)
         /\ \A C, A :
               /\ NoneBehind(queue, CommandsOf(C), CommandsOf(A))
               /\ k \in CommandsOf(A) => ~Has(queue, CommandsOf(C))
               => NoneBehind(commands', CommandsOf(C), CommandsOf(A))
  BY HasAppend DEF InCommands

(***************************************************************************)
(* The queue of the bridge grows by one message.                           *)
(***************************************************************************)
LEMMA BridgeGrows ==
  ASSUME TypeOK, NEW id \in ClientId, NEW m \in Message,
         ipc_bridge_commands' = Append(ipc_bridge_commands, SendData(id, m))
  PROVE  /\ \A S : InBridge(S)' <=> InBridge(S) \/ m \in S
         /\ \A C, A :
               /\ NoneBehind(ipc_bridge_commands, BridgeCommandsOf(C), BridgeCommandsOf(A))
               /\ m \in A => ~InBridge(C)
               => NoneBehind(ipc_bridge_commands', BridgeCommandsOf(C), BridgeCommandsOf(A))
  <1>1. /\ ipc_bridge_commands \in Seq(BridgeCommand)
        /\ SendData(id, m) \in BridgeCommand
        /\ \A S : SendData(id, m) \in BridgeCommandsOf(S) <=> m \in S
    BY CommandFacts, CommandsOfFacts DEF TypeOK
  <1> QED
    BY <1>1, HasAppend DEF InBridge

(***************************************************************************)
(* A client sends one message.                                             *)
(***************************************************************************)
LEMMA SocketGrows ==
  ASSUME TypeOK, NEW id \in ClientId, NEW m \in Message, Send(id, m)
  PROVE  /\ \A S : InServer(id, S)' <=> InServer(id, S) \/ m \in S
         /\ \A S : \A i \in ClientId \ {id} : InServer(i, S)' <=> InServer(i, S)
         /\ \A C, A : \A i \in ClientId :
               /\ NoneBehind(to_server[i], C, A)
               /\ i = id /\ m \in A => ~InServer(i, C)
               => NoneBehind(to_server'[i], C, A)
  <1>1. /\ to_server[id] \in Seq(Message)
        /\ to_server'[id] = Append(to_server[id], m)
        /\ \A i \in ClientId \ {id} : to_server'[i] = to_server[i]
    BY DEF TypeOK, Send
  <1>2. \A S : InServer(id, S)' <=> InServer(id, S) \/ m \in S
    BY <1>1, HasAppend DEF InServer
  <1>3. \A C, A :
               /\ NoneBehind(to_server[id], C, A)
               /\ m \in A => ~InServer(id, C)
               => NoneBehind(to_server'[id], C, A)
    BY <1>1, HasAppend DEF InServer
  <1> QED
    BY <1>1, <1>2, <1>3 DEF InServer

(***************************************************************************)
(* swiboe takes a command; core.new_rpc puts a registration behind the     *)
(* others, which says nothing about a call.                                *)
(***************************************************************************)
LEMMA CommandTaken ==
  ASSUME TypeOK, commands # <<>>,
         \/ commands' = Tail(commands)
         \/ \E id \in ClientId, n \in Functions, p \in Priorities :
               commands' = Append(Tail(commands), NewRpc(id, n, p))
  PROVE  /\ \A S : InCommands(S) <=> InCommands(S)' \/ Head(commands) \in CommandsOf(S)
         /\ \A C, A : NoneBehind(commands, CommandsOf(C), CommandsOf(A)) =>
               /\ NoneBehind(commands', CommandsOf(C), CommandsOf(A))
               /\ Head(commands) \in CommandsOf(C) => ~InCommands(A)'
  <1> DEFINE rest == Tail(commands)
  <1>1. commands \in Seq(Command)
    BY DEF TypeOK
  <1>2. /\ rest \in Seq(Command)
        /\ \A S : Has(commands, S) <=> Has(rest, S) \/ Head(commands) \in S
        /\ \A C, A : NoneBehind(commands, C, A) =>
               NoneBehind(rest, C, A) /\ (Head(commands) \in C => ~Has(rest, A))
    BY <1>1, HasTail
  <1>3. commands' = rest \/ \E id \in ClientId, n \in Functions, p \in Priorities :
                               commands' = Append(rest, NewRpc(id, n, p))
    OBVIOUS
  <1> HIDE DEF rest
  <1>4. /\ \A S : InCommands(S)' <=> Has(rest, CommandsOf(S))
        /\ \A C, A : NoneBehind(rest, CommandsOf(C), CommandsOf(A))
              => NoneBehind(commands', CommandsOf(C), CommandsOf(A))
    <2>1. CASE commands' = rest
      BY <2>1 DEF InCommands
    <2>2. ASSUME NEW id \in ClientId, NEW n \in Functions, NEW p \in Priorities,
                 commands' = Append(rest, NewRpc(id, n, p))
          PROVE  <1>4!:
      <3>1. /\ NewRpc(id, n, p) \in Command
            /\ \A S : NewRpc(id, n, p) \notin CommandsOf(S)
        BY CommandFacts, CommandsOfFacts
      <3> QED
        BY <1>2, <2>2, <3>1, CommandsGrow
    <2> QED
      BY <1>3, <2>1, <2>2
  <1> QED
    BY <1>2, <1>4 DEF InCommands

(***************************************************************************)
(* A step that puts no message about the call anywhere keeps the order.    *)
(***************************************************************************)
LEMMA OrderFrame ==
  ASSUME NEW c \in Contexts, InOrder(c), CarrierIsLast(c)',
         InCommands(CarriersOf(c))' => InCommands(CarriersOf(c)),
         InCommands(SaidOf(c))' => InCommands(SaidOf(c)),
         InBridge(CarriersOf(c))' => InBridge(CarriersOf(c)),
         InBridge(SaidOf(c))' => InBridge(SaidOf(c)),
         \A i \in ClientId :
           /\ InServer(i, CarriersOf(c))' => InServer(i, CarriersOf(c))
           /\ InServer(i, SaidOf(c))' => InServer(i, SaidOf(c))
           /\ InClient(i, CarriersOf(c))' => InClient(i, CarriersOf(c))
           /\ InClient(i, SaidOf(c))' => InClient(i, SaidOf(c))
           /\ c \in serving'[i] => c \in serving[i],
         UNCHANGED responses[c],
         call[c] # None => call'[c] # None
  PROVE  InOrder(c)'
  <1>1. OneCarrier(c)'
    BY DEF InOrder, OneCarrier
  <1>2. AnswerIsLast(c)'
    BY DEF InOrder, AnswerIsLast, Silent, Answered
  <1> QED
    BY <1>1, <1>2 DEF InOrder

(***************************************************************************)
(* A handler that says only about the call of its own command, and carries *)
(* it on only when the command did, keeps the order.                       *)
(***************************************************************************)
LEMMA HandlerOrder ==
  ASSUME IInv, NEW c \in Contexts, InOrder(c),
         NEW command, Takes(command),
         \/ commands' = Tail(commands)
         \/ \E id \in ClientId, n \in Functions, p \in Priorities :
               commands' = Append(Tail(commands), NewRpc(id, n, p)),
         \/ UNCHANGED ipc_bridge_commands
         \/ \E id \in ClientId, m \in Message :
              /\ ipc_bridge_commands' = Append(ipc_bridge_commands, SendData(id, m))
              /\ m \in CarriersOf(c) => Head(commands) \in CommandsOf(CarriersOf(c))
              /\ m \in SaidOf(c) => Head(commands) \in CommandsOf(SaidOf(c))
  PROVE  InOrder(c)'
  <1> DEFINE C == CarriersOf(c)
             A == SaidOf(c)
             k == Head(commands)
  <1>1. /\ commands # <<>> /\ TypeOK
        /\ UNCHANGED <<to_server, to_client, serving, responses, call>>
    BY DEF Takes, IInv, callerVars, calleeVars
  <1>2. /\ \A S : InCommands(S) <=> InCommands(S)' \/ k \in CommandsOf(S)
        /\ NoneBehind(commands', CommandsOf(C), CommandsOf(A))
        /\ k \in CommandsOf(C) => ~InCommands(A)'
    BY <1>1, CommandTaken DEF InOrder, CarrierIsLast
  <1>3. /\ \A S : \A i \in ClientId : InServer(i, S)' <=> InServer(i, S)
        /\ \A S : \A i \in ClientId : InClient(i, S)' <=> InClient(i, S)
        /\ Answered(c)' <=> Answered(c)
    BY <1>1 DEF InClient, InServer, Answered
  <1>4. CASE UNCHANGED ipc_bridge_commands
    <2>1. \A S : InBridge(S)' <=> InBridge(S)
      BY <1>4 DEF InBridge
    <2>2. CarrierIsLast(c)'
      BY <1>1, <1>2, <1>4 DEF CarrierIsLast, InOrder
    <2> QED
      BY <1>1, <1>2, <1>3, <2>1, <2>2, OrderFrame
  <1>5. ASSUME NEW id \in ClientId, NEW m \in Message,
               ipc_bridge_commands' = Append(ipc_bridge_commands, SendData(id, m)),
               m \in C => k \in CommandsOf(C),
               m \in A => k \in CommandsOf(A)
        PROVE  InOrder(c)'
    <2>1. \A S : InBridge(S)' <=> InBridge(S) \/ m \in S
      BY <1>1, <1>5, BridgeGrows
    <2>2. m \in A => ~InBridge(C)
      <3>1. PICK i \in ClientId : TRUE
        OBVIOUS
      <3> QED
        BY <1>2, <1>5, <3>1 DEF InOrder, OneCarrier
    <2>3. NoneBehind(ipc_bridge_commands', BridgeCommandsOf(C), BridgeCommandsOf(A))
      BY <1>1, <1>5, <2>2, BridgeGrows DEF InOrder, CarrierIsLast
    <2>4. CarrierIsLast(c)'
      BY <1>1, <1>2, <2>3 DEF CarrierIsLast, InOrder
    <2>5. OneCarrier(c)'
      BY <1>1, <1>2, <1>3, <1>5, <2>1, CarriersAreSaid, SetFacts
         DEF OneCarrier, InOrder
    <2>6. AnswerIsLast(c)'
      BY <1>1, <1>2, <1>3, <1>5, <2>1 DEF AnswerIsLast, InOrder, Silent
    <2> QED
      BY <2>4, <2>5, <2>6 DEF InOrder
  <1> QED
    BY <1>4, <1>5

(***************************************************************************)
(* A reader job takes the oldest message of a socket to the end of         *)
(* swiboe's queue.                                                         *)
(***************************************************************************)
LEMMA ReadMessageOrder ==
  ASSUME IInv, NEW c \in Contexts, InOrder(c),
         NEW id \in ClientId, ReadMessage(id)
  PROVE  InOrder(c)'
  <1> DEFINE m == Head(to_server[id])
             C == CarriersOf(c)
             A == SaidOf(c)
  <1>1. /\ commands' = Append(commands, FromClient(id, m))
        /\ to_server[id] # <<>> /\ to_server[id] \in Seq(Message)
        /\ commands \in Seq(Command)
        /\ to_server'[id] = Tail(to_server[id])
        /\ \A i \in ClientId \ {id} : to_server'[i] = to_server[i]
        /\ UNCHANGED <<ipc_bridge_commands, to_client, serving, responses, call>>
    BY DEF ReadMessage, IInv, TypeOK, calleeVars, callerVars
  <1>2. /\ m \in Message
        /\ \A S : InServer(id, S) <=> InServer(id, S)' \/ m \in S
        /\ NoneBehind(to_server'[id], C, A)
        /\ m \in C => ~InServer(id, A)'
    BY <1>1, HasTail DEF InOrder, CarrierIsLast, InServer
  <1> HIDE DEF m
  <1>3. \A S : InCommands(S)' <=> InCommands(S) \/ m \in S
    BY <1>1, <1>2, HasAppend, CommandFacts, CommandsOfFacts DEF InCommands
  <1>4. m \in A => ~InCommands(C)
    BY <1>2 DEF InOrder, OneCarrier
  <1>5. NoneBehind(commands', CommandsOf(C), CommandsOf(A))
    BY <1>1, <1>2, <1>4, HasAppend, CommandFacts, CommandsOfFacts
       DEF InCommands, InOrder, CarrierIsLast
  <1>6. /\ \A S : InBridge(S)' <=> InBridge(S)
        /\ \A S : \A i \in ClientId : InClient(i, S)' <=> InClient(i, S)
        /\ \A S : \A i \in ClientId \ {id} : InServer(i, S)' <=> InServer(i, S)
        /\ Answered(c)' <=> Answered(c)
    BY <1>1 DEF InBridge, InClient, InServer, Answered
  <1>7. CarrierIsLast(c)'
    BY <1>1, <1>2, <1>5 DEF CarrierIsLast, InOrder
  <1>8. OneCarrier(c)'
    BY <1>1, <1>2, <1>3, <1>6, CarriersAreSaid, SetFacts DEF OneCarrier, InOrder
  <1>9. AnswerIsLast(c)'
    BY <1>1, <1>2, <1>3, <1>6 DEF AnswerIsLast, InOrder, Silent
  <1> QED
    BY <1>7, <1>8, <1>9 DEF InOrder

(***************************************************************************)
(* A hang-up takes messages away from the ends of the two sockets and from *)
(* the client.                                                             *)
(***************************************************************************)
LEMMA HupOrder ==
  ASSUME IInv, NEW c \in Contexts, InOrder(c), NEW id \in ClientId, Hup(id)
  PROVE  InOrder(c)'
  <1> DEFINE C == CarriersOf(c)
             A == SaidOf(c)
  <1>1. PICK n \in 0 .. Len(to_server[id]) :
           to_server' = [to_server EXCEPT ![id] = SubSeq(@, 1, n)]
    BY DEF Hup
  <1>2. /\ commands' = Append(commands, ClientDisconnected(id))
        /\ to_client' = [to_client EXCEPT ![id] = <<>>]
        /\ serving' = [serving EXCEPT ![id] = {}]
        /\ UNCHANGED <<ipc_bridge_commands, responses, call>>
    BY DEF Hup, ReportHup, callerVars
  <1>3. /\ commands \in Seq(Command)
        /\ to_server \in [ClientId -> Seq(Message)]
        /\ to_client \in [ClientId -> Seq(Message)]
        /\ serving \in [ClientId -> SUBSET Contexts]
    BY DEF IInv, TypeOK
  <1>4. /\ \A S : InServer(id, S)' => InServer(id, S)
        /\ \A i \in ClientId \ {id} : \A S : InServer(i, S)' <=> InServer(i, S)
        /\ \A i \in ClientId : NoneBehind(to_server'[i], C, A)
    <2>1. /\ to_server[id] \in Seq(Message)
          /\ to_server'[id] = SubSeq(to_server[id], 1, n)
          /\ \A i \in ClientId \ {id} : to_server'[i] = to_server[i]
      BY <1>1, <1>3
    <2>2. /\ \A S : Has(to_server'[id], S) => Has(to_server[id], S)
          /\ NoneBehind(to_server'[id], C, A)
      BY <2>1, HasPrefix DEF InOrder, CarrierIsLast
    <2> QED
      BY <2>1, <2>2 DEF InServer, InOrder, CarrierIsLast
  <1>5. /\ \A S : ~InClient(id, S)'
        /\ \A i \in ClientId \ {id} : \A S : InClient(i, S)' <=> InClient(i, S)
        /\ \A i \in ClientId : NoneBehind(to_client'[i], C, A)
    <2>1. to_client'[id] = <<>> /\ \A i \in ClientId \ {id} : to_client'[i] = to_client[i]
      BY <1>2, <1>3
    <2> QED
      BY <2>1, HasNone DEF InClient, InOrder, CarrierIsLast
  <1>6. /\ \A S : InCommands(S)' <=> InCommands(S)
        /\ NoneBehind(commands', CommandsOf(C), CommandsOf(A))
    <2>1. /\ ClientDisconnected(id) \in Command
          /\ \A S : ClientDisconnected(id) \notin CommandsOf(S)
      BY CommandFacts, CommandsOfFacts
    <2> QED
      BY <1>2, <1>3, <2>1, CommandsGrow DEF InCommands, InOrder, CarrierIsLast
  <1>7. /\ \A S : InBridge(S)' <=> InBridge(S)
        /\ \A i \in ClientId : c \in serving'[i] => c \in serving[i]
    BY <1>2, <1>3 DEF InBridge
  <1>8. CarrierIsLast(c)'
    BY <1>2, <1>4, <1>5, <1>6 DEF CarrierIsLast, InOrder
  <1> QED
    BY <1>2, <1>4, <1>5, <1>6, <1>7, <1>8, OrderFrame

(***************************************************************************)
(* The bridge takes the oldest message of its queue to a client or, when   *)
(* it comes back, to swiboe.                                               *)
(***************************************************************************)
LEMMA NotifyOrder ==
  ASSUME IInv, NEW c \in Contexts, InOrder(c), notify
  PROVE  InOrder(c)'
  <1> DEFINE C == CarriersOf(c)
             A == SaidOf(c)
  <1>1. /\ ipc_bridge_commands # <<>>
        /\ ipc_bridge_commands \in Seq(BridgeCommand)
        /\ ipc_bridge_commands' = Tail(ipc_bridge_commands)
        /\ UNCHANGED <<to_server, serving, responses, call>>
        /\ commands \in Seq(Command)
        /\ to_client \in [ClientId -> Seq(Message)]
    BY DEF IInv, TypeOK, notify, callerVars, calleeVars
  <1>2. PICK id \in ClientId, m \in Message :
          /\ id = Head(ipc_bridge_commands).receiver
          /\ m = Head(ipc_bridge_commands).message
          /\ \A S : InBridge(S) <=> InBridge(S)' \/ m \in S
          /\ NoneBehind(ipc_bridge_commands', BridgeCommandsOf(C), BridgeCommandsOf(A))
          /\ m \in C => ~InBridge(A)'
    <2>1. /\ Head(ipc_bridge_commands) \in BridgeCommand
          /\ \A S : Has(ipc_bridge_commands, S)
                <=> Has(ipc_bridge_commands', S) \/ Head(ipc_bridge_commands) \in S
          /\ NoneBehind(ipc_bridge_commands', BridgeCommandsOf(C), BridgeCommandsOf(A))
          /\ Head(ipc_bridge_commands) \in BridgeCommandsOf(C)
                => ~Has(ipc_bridge_commands', BridgeCommandsOf(A))
      BY <1>1, HasTail DEF InOrder, CarrierIsLast
    <2> QED
      BY <2>1, CommandsOfFacts, CommandFacts DEF InBridge
  <1>3. \/ /\ to_client' = [to_client EXCEPT ![id] = Append(@, m)]
           /\ UNCHANGED commands
        \/ /\ commands' = Append(commands, SendDataFailed(id, m))
           /\ UNCHANGED to_client
    BY <1>2 DEF notify, IsReceiver
  <1>4. /\ \A S : \A i \in ClientId : InServer(i, S)' <=> InServer(i, S)
        /\ Answered(c)' <=> Answered(c)
    BY <1>1 DEF InServer, Answered
  <1>5. /\ m \in A => \A i \in ClientId : ~InClient(i, C)
        /\ m \in C => ~InCommands(C)
    <2>1. /\ m \in A => InBridge(A)
          /\ m \in C => InBridge(C)
      BY <1>2
    <2> QED
      BY <1>2, <2>1, CarriersAreSaid DEF InOrder, OneCarrier
  <1>6. CASE /\ to_client' = [to_client EXCEPT ![id] = Append(@, m)]
             /\ UNCHANGED commands
    <2>1. /\ \A S : InClient(id, S)' <=> InClient(id, S) \/ m \in S
          /\ \A i \in ClientId \ {id} : \A S : InClient(i, S)' <=> InClient(i, S)
          /\ \A i \in ClientId : NoneBehind(to_client'[i], C, A)
      <3>1. /\ to_client[id] \in Seq(Message)
            /\ to_client'[id] = Append(to_client[id], m)
            /\ \A i \in ClientId \ {id} : to_client'[i] = to_client[i]
        BY <1>1, <1>2, <1>6
      <3>2. /\ \A S : Has(to_client'[id], S) <=> Has(to_client[id], S) \/ m \in S
            /\ NoneBehind(to_client'[id], C, A)
        BY <1>2, <1>5, <3>1, HasAppend DEF InClient, InOrder, CarrierIsLast
      <3> QED
        BY <3>1, <3>2 DEF InClient, InOrder, CarrierIsLast
    <2>2. \A S : InCommands(S)' <=> InCommands(S)
      BY <1>6 DEF InCommands
    <2>3. CarrierIsLast(c)'
      BY <1>1, <1>2, <1>6, <2>1 DEF CarrierIsLast, InOrder
    <2>4. OneCarrier(c)'
      <3>1. /\ InCommands(C)' <=> InCommands(C)
            /\ InCommands(A)' <=> InCommands(A)
            /\ InBridge(C)' => InBridge(C)
            /\ InBridge(A)' => InBridge(A)
            /\ m \in A => InBridge(A)
            /\ m \in C => InBridge(C) /\ InBridge(A) /\ ~InBridge(A)' /\ ~InBridge(C)'
        BY <1>2, <2>2, CarriersAreSaid
      <3>2. \A i \in ClientId :
               /\ InServer(i, C)' <=> InServer(i, C)
               /\ InServer(i, A)' <=> InServer(i, A)
               /\ InClient(i, C)' <=> InClient(i, C) \/ (i = id /\ m \in C)
               /\ c \in serving'[i] <=> c \in serving[i]
        BY <1>1, <1>4, <2>1
      <3> QED
        BY <1>5, <3>1, <3>2 DEF OneCarrier, InOrder
    <2>5. AnswerIsLast(c)'
      BY <1>1, <1>2, <1>4, <2>1, <2>2 DEF AnswerIsLast, InOrder, Silent
    <2> QED
      BY <2>3, <2>4, <2>5 DEF InOrder
  <1>7. CASE /\ commands' = Append(commands, SendDataFailed(id, m))
             /\ UNCHANGED to_client
    <2>1. m \in A /\ NeedsSurrogate(m) => m \in C
      BY <1>2, SetFacts DEF NeedsSurrogate
    <2>3. /\ \A S : InCommands(S)' <=>
                InCommands(S) \/ (m \in S /\ NeedsSurrogate(m))
          /\ NoneBehind(commands', CommandsOf(C), CommandsOf(A))
      <3>1. /\ SendDataFailed(id, m) \in Command
            /\ \A S : SendDataFailed(id, m) \in CommandsOf(S)
                  <=> m \in S /\ NeedsSurrogate(m)
        BY <1>2, CommandFacts, CommandsOfFacts
      <3> QED
        BY <1>1, <1>5, <1>7, <2>1, <3>1, CommandsGrow
           DEF InCommands, InOrder, CarrierIsLast
    <2>2. \A S : \A i \in ClientId : InClient(i, S)' <=> InClient(i, S)
      BY <1>7 DEF InClient
    <2>4. CarrierIsLast(c)'
      BY <1>1, <1>2, <1>7, <2>3 DEF CarrierIsLast, InOrder
    <2>5. OneCarrier(c)'
      <3>1. /\ InCommands(C)' => InCommands(C) \/ m \in C
            /\ InCommands(A)' => InCommands(A) \/ m \in C
            /\ InBridge(C)' => InBridge(C)
            /\ InBridge(A)' => InBridge(A)
            /\ m \in C => InBridge(C) /\ InBridge(A) /\ ~InBridge(A)' /\ ~InBridge(C)'
        BY <1>2, <2>1, <2>3, CarriersAreSaid, SetFacts
      <3>2. \A i \in ClientId :
               /\ InServer(i, C)' <=> InServer(i, C)
               /\ InServer(i, A)' <=> InServer(i, A)
               /\ InClient(i, C)' <=> InClient(i, C)
               /\ c \in serving'[i] <=> c \in serving[i]
        BY <1>1, <1>4, <2>2
      <3> QED
        BY <1>5, <3>1, <3>2 DEF OneCarrier, InOrder
    <2>6. AnswerIsLast(c)'
      BY <1>1, <1>2, <1>4, <2>2, <2>3 DEF AnswerIsLast, InOrder, Silent
    <2> QED
      BY <2>4, <2>5, <2>6 DEF InOrder
  <1> QED
    BY <1>3, <1>6, <1>7

(***************************************************************************)
(* The three things on_rpc_response does: nothing; pass the response on to *)
(* the caller; pass the call on to the next handler.                       *)
(***************************************************************************)
LEMMA Forwarded ==
  ASSUME IInv, NEW d \in Contexts, NEW kind \in Kinds, on_rpc_response(d, kind)
  PROVE  \/ /\ running_rpcs[d] = None
            /\ UNCHANGED <<running_rpcs, unasked, ipc_bridge_commands>>
         \/ /\ running_rpcs[d] # None
            /\ ipc_bridge_commands' =
                  Append(ipc_bridge_commands,
                         SendData(running_rpcs[d].caller, RpcResponse(d, kind)))
            /\ kind \in {"Done", "UnknownRpc"} =>
                  running_rpcs' = [running_rpcs EXCEPT ![d] = None]
            /\ kind \notin {"Done", "UnknownRpc"} => UNCHANGED running_rpcs
            /\ UNCHANGED unasked
            /\ kind = "NotHandled" =>
                  get_next(api_table, call[d].function, running_rpcs[d].callee) = {}
         \/ /\ running_rpcs[d] # None
            /\ kind = "NotHandled"
            /\ \E info \in get_next(api_table, call[d].function,
                                    running_rpcs[d].callee) :
                 /\ info \in ApiInfo
                 /\ running_rpcs' = [running_rpcs EXCEPT ![d] =
                       WithCallee(running_rpcs[d], info)]
                 /\ unasked' = [unasked EXCEPT ![d] = @ \ {info.client_id}]
                 /\ ipc_bridge_commands' =
                       Append(ipc_bridge_commands,
                              SendData(info.client_id, RpcCall(d)))
  <1> DEFINE rpc == running_rpcs[d]
             next == get_next(api_table, call[d].function, rpc.callee)
  <1>1. TypeOK /\ Routing
    BY DEF IInv
  <1>2. rpc # None => next \subseteq ApiInfo
    <2> SUFFICES ASSUME rpc # None PROVE next \subseteq ApiInfo
      OBVIOUS
    <2>1. call[d] # None
      BY <1>1 DEF Routing
    <2>2. /\ call[d] \in Call \cup {None}
          /\ api_table \in [Functions -> Seq(ApiInfo)]
      BY <1>1 DEF TypeOK
    <2>3. call[d].function \in Functions
      BY <2>1, <2>2, CallFacts
    <2> QED
      BY <2>2, <2>3, GetNextType
  <1>3. CASE rpc = None
    BY <1>3 DEF on_rpc_response
  <1>4. CASE rpc # None /\ kind # "NotHandled"
    BY <1>4 DEF on_rpc_response, Kinds, LastKinds
  <1>5. CASE rpc # None /\ kind = "NotHandled" /\ next = {}
    BY <1>5 DEF on_rpc_response
  <1>6. CASE rpc # None /\ kind = "NotHandled" /\ next # {}
    BY <1>2, <1>6 DEF on_rpc_response
  <1> QED
    BY <1>3, <1>4, <1>5, <1>6

(***************************************************************************)
(* Whatever it sends is about the same call, and carries it only when the  *)
(* response did.                                                           *)
(***************************************************************************)
LEMMA ResponseForwards ==
  ASSUME IInv, NEW d \in Contexts, NEW kind \in Kinds, on_rpc_response(d, kind)
  PROVE  \/ UNCHANGED ipc_bridge_commands
         \/ \E id \in ClientId, m \in Message :
              /\ ipc_bridge_commands' = Append(ipc_bridge_commands, SendData(id, m))
              /\ \A c \in Contexts :
                   /\ m \in CarriersOf(c) => d = c /\ kind \in LastKinds
                   /\ m \in SaidOf(c) => d = c
  <1>1. CASE UNCHANGED ipc_bridge_commands
    BY <1>1
  <1>2. CASE /\ running_rpcs[d] # None
             /\ ipc_bridge_commands' =
                  Append(ipc_bridge_commands,
                         SendData(running_rpcs[d].caller, RpcResponse(d, kind)))
    <2>1. /\ running_rpcs[d].caller \in ClientId
          /\ RpcResponse(d, kind) \in Message
      BY <1>2, MessageFacts DEF IInv, TypeOK, RunningRpc
    <2>2. \A c \in Contexts :
             /\ RpcResponse(d, kind) \in CarriersOf(c) => d = c /\ kind \in LastKinds
             /\ RpcResponse(d, kind) \in SaidOf(c) => d = c
      BY SetFacts
    <2> QED
      BY <1>2, <2>1, <2>2
  <1>3. ASSUME NEW info \in ApiInfo, kind = "NotHandled",
               ipc_bridge_commands' =
                  Append(ipc_bridge_commands, SendData(info.client_id, RpcCall(d)))
        PROVE  \E id \in ClientId, m \in Message :
              /\ ipc_bridge_commands' = Append(ipc_bridge_commands, SendData(id, m))
              /\ \A c \in Contexts :
                   /\ m \in CarriersOf(c) => d = c /\ kind \in LastKinds
                   /\ m \in SaidOf(c) => d = c
    <2>1. /\ info.client_id \in ClientId /\ RpcCall(d) \in Message
          /\ kind \in LastKinds
      BY <1>3, MessageFacts DEF ApiInfo, LastKinds
    <2>2. \A c \in Contexts : /\ RpcCall(d) \in CarriersOf(c) => d = c
                              /\ RpcCall(d) \in SaidOf(c) => d = c
      BY SetFacts
    <2> QED
      BY <1>3, <2>1, <2>2
  <1> QED
    BY <1>1, <1>2, <1>3, Forwarded

(***************************************************************************)
(* Every handler of swiboe keeps the order.                                *)
(***************************************************************************)
LEMMA HandleOrder ==
  ASSUME IInv, NEW c \in Contexts, InOrder(c), handle
  PROVE  InOrder(c)'
  <1> DEFINE k == Head(commands)
             C == CarriersOf(c)
             A == SaidOf(c)
  <1>1. ASSUME NEW tag, Takes(tag)
        PROVE  /\ k \in Command /\ k.client \in ClientId /\ k.cmd = tag
               /\ tag \in {"FromClient", "SendDataFailed"} =>
                     k.message \in Message /\ k.message.context \in Contexts
               /\ tag = "FromClient" =>
                     \A S : k \in CommandsOf(S) <=> k.message \in S
    BY <1>1, TakesFacts, CommandFacts, CommandsOfFacts, MessageFacts
  <1>2. CASE HandleNewRpc
    <2>1. Takes("NewRpc") /\ commands' = Tail(commands) /\ UNCHANGED ipc_bridge_commands
      BY <1>2 DEF HandleNewRpc
    <2> QED
      BY <2>1, HandlerOrder
  <1>3. CASE HandleClientConnected \/ HandleClientDisconnected
    <2>1. /\ commands' = Tail(commands) /\ UNCHANGED ipc_bridge_commands
          /\ Takes("ClientConnected") \/ Takes("ClientDisconnected")
      BY <1>3 DEF HandleClientConnected, HandleClientDisconnected
    <2> QED
      BY <2>1, HandlerOrder
  <1>4. CASE HandleCoreCall
    <2> DEFINE m == k.message
               reply == RpcResponse(m.context, "Done")
               x == call[m.context]
    <2>1. /\ Takes("FromClient") /\ m.tag = "RpcCall" /\ x.core
          /\ commands' = Append(Tail(commands), NewRpc(k.client, x.function, x.priority))
          /\ ipc_bridge_commands' =
                Append(ipc_bridge_commands, SendData(k.client, reply))
      BY <1>4 DEF HandleCoreCall
    <2>2. /\ m \in Message /\ m.context \in Contexts /\ k.client \in ClientId
          /\ \A S : k \in CommandsOf(S) <=> m \in S
      BY <1>1, <2>1
    <2>3. x.function \in Functions /\ x.priority \in Priorities
      <3>1. x # None
        BY <2>1, TakesFacts DEF Attributed, FromOwner
      <3>2. x \in Call \cup {None}
        BY <2>2 DEF IInv, TypeOK
      <3> QED
        BY <2>1, <3>1, <3>2, CallFacts
    <2>4. /\ reply \in Message
          /\ reply \in C => m \in C
          /\ reply \in A => m \in A
      BY <2>1, <2>2, SetFacts, MessageFacts
         DEF Kinds, LastKinds, CarriersOf, SaidOf, Carries
    <2> HIDE DEF k, m, reply, x, C, A
    <2> QED
      BY <2>1, <2>2, <2>3, <2>4, HandlerOrder DEF k, C, A
  <1>5. CASE HandleRpcCall
    <2> DEFINE m == k.message
               name == call[m.context].function
    <2>1. /\ Takes("FromClient") /\ m.tag = "RpcCall"
          /\ commands' = Tail(commands)
      BY <1>5 DEF HandleRpcCall
    <2>2. /\ m \in Message /\ m.context \in Contexts /\ k.client \in ClientId
          /\ \A S : k \in CommandsOf(S) <=> m \in S
      BY <1>1, <2>1
    <2>3. CASE get_first(api_table, name) = {}
      <3> DEFINE reply == RpcResponse(m.context, "UnknownRpc")
      <3>1. ipc_bridge_commands' =
               Append(ipc_bridge_commands, SendData(k.client, reply))
        BY <1>5, <2>3 DEF HandleRpcCall
      <3>2. /\ reply \in Message
            /\ reply \in C => m \in C
            /\ reply \in A => m \in A
        BY <2>1, <2>2, SetFacts, MessageFacts
           DEF Kinds, LastKinds, CarriersOf, SaidOf, Carries
      <3> HIDE DEF k, m, reply, C, A
      <3> QED
        BY <2>1, <2>2, <3>1, <3>2, HandlerOrder DEF k, C, A
    <2>4. CASE get_first(api_table, name) # {}
      <3>1. PICK info \in get_first(api_table, name) :
               ipc_bridge_commands' =
                  Append(ipc_bridge_commands, SendData(info.client_id, m))
        BY <1>5, <2>4 DEF HandleRpcCall
      <3>2. info.client_id \in ClientId
        <4>1. call[m.context] # None
          BY <2>1, TakesFacts DEF Attributed, FromOwner
        <4>2. /\ call[m.context] \in Call \cup {None}
              /\ api_table \in [Functions -> Seq(ApiInfo)]
          BY <2>2 DEF IInv, TypeOK
        <4>3. get_first(api_table, name) \subseteq ApiInfo
          BY <4>1, <4>2, CallFacts, GetFirstType
        <4> QED
          BY <3>1, <4>3 DEF ApiInfo
      <3> HIDE DEF k, m, C, A
      <3> QED
        BY <2>1, <2>2, <3>1, <3>2, HandlerOrder DEF k, C, A
    <2> QED
      BY <2>3, <2>4
  <1>6. CASE HandleRpcResponse
    <2> DEFINE m == k.message
    <2>1. /\ Takes("FromClient") /\ m.tag = "RpcResponse"
          /\ commands' = Tail(commands)
          /\ on_rpc_response(m.context, m.kind)
      BY <1>6 DEF HandleRpcResponse
    <2>2. /\ m \in Message /\ m.context \in Contexts /\ m.kind \in Kinds
          /\ \A S : k \in CommandsOf(S) <=> m \in S
      BY <1>1, <2>1, MessageFacts
    <2>3. /\ m.context = c /\ m.kind \in LastKinds => m \in C
          /\ m.context = c => m \in A
      BY <2>1, <2>2 DEF CarriersOf, SaidOf, Carries
    <2> HIDE DEF k, m, C, A
    <2>4. \/ UNCHANGED ipc_bridge_commands
          \/ \E id \in ClientId, r \in Message :
              /\ ipc_bridge_commands' = Append(ipc_bridge_commands, SendData(id, r))
              /\ r \in C => m.context = c /\ m.kind \in LastKinds
              /\ r \in A => m.context = c
      BY <2>1, <2>2, ResponseForwards DEF C, A
    <2> QED
      BY <2>1, <2>2, <2>3, <2>4, HandlerOrder DEF k, C, A
  <1>7. CASE HandleRpcCancel
    <2> DEFINE m == k.message
    <2>1. /\ Takes("FromClient") /\ commands' = Tail(commands)
          /\ on_rpc_cancel(m.context)
      BY <1>7 DEF HandleRpcCancel
    <2>2. m.context \in Contexts
      BY <1>1, <2>1
    <2>3. /\ RpcCancel(m.context) \in Message
          /\ RpcCancel(m.context) \notin C /\ RpcCancel(m.context) \notin A
      BY <2>2, SetFacts, MessageFacts
    <2>4. CASE running_rpcs[m.context] = None
      BY <2>1, <2>4, HandlerOrder DEF on_rpc_cancel
    <2>5. CASE running_rpcs[m.context] # None
      <3>1. running_rpcs[m.context].callee \in ClientId
        BY <2>2, <2>5 DEF IInv, TypeOK, RunningRpc
      <3>2. ipc_bridge_commands' =
              Append(ipc_bridge_commands,
                     SendData(running_rpcs[m.context].callee, RpcCancel(m.context)))
        BY <2>1, <2>5 DEF on_rpc_cancel
      <3> HIDE DEF k, m, C, A
      <3> QED
        BY <2>1, <2>3, <3>1, <3>2, HandlerOrder DEF C, A
    <2> QED
      BY <2>4, <2>5
  <1>8. CASE HandleSendDataFailed
    <2> DEFINE m == k.message
    <2>1. /\ Takes("SendDataFailed") /\ commands' = Tail(commands)
          /\ \/ NeedsSurrogate(m) /\ on_rpc_response(m.context, "NotHandled")
             \/ UNCHANGED ipc_bridge_commands
      BY <1>8 DEF HandleSendDataFailed
    <2>2. /\ m \in Message /\ m.context \in Contexts /\ k \in Command
          /\ k.cmd = "SendDataFailed" /\ "NotHandled" \in Kinds
      BY <1>1, <2>1 DEF Kinds, LastKinds
    <2>3. CASE UNCHANGED ipc_bridge_commands
      BY <2>1, <2>3, HandlerOrder
    <2>4. CASE NeedsSurrogate(m) /\ on_rpc_response(m.context, "NotHandled")
      <3>1. m.context = c =>
               k \in CommandsOf(C) /\ k \in CommandsOf(A)
        BY <2>2, <2>4, CommandsOfFacts DEF NeedsSurrogate, CarriersOf, SaidOf, Carries
      <3> HIDE DEF k, m, C, A
      <3>2. \/ UNCHANGED ipc_bridge_commands
            \/ \E id \in ClientId, r \in Message :
                /\ ipc_bridge_commands' = Append(ipc_bridge_commands, SendData(id, r))
                /\ r \in C => m.context = c
                /\ r \in A => m.context = c
        BY <2>2, <2>4, ResponseForwards DEF C, A
      <3> QED
        BY <2>1, <3>1, <3>2, HandlerOrder DEF k, C, A
    <2> QED
      BY <2>1, <2>3, <2>4
  <1> QED
    BY <1>2, <1>3, <1>4, <1>5, <1>6, <1>7, <1>8 DEF handle

(***************************************************************************)
(* A new connection says nothing about a call.                             *)
(***************************************************************************)
LEMMA NewClientOrder ==
  ASSUME IInv, NEW c \in Contexts, InOrder(c), NEW token \in Tokens,
         new_client(token)
  PROVE  InOrder(c)'
  <1> DEFINE id == [serial |-> next_serial, token |-> token]
  <1>1. /\ commands' = Append(commands, ClientConnected(id))
        /\ commands \in Seq(Command)
        /\ UNCHANGED <<ipc_bridge_commands, to_server, to_client, serving,
                       responses, call>>
    BY DEF new_client, IInv, TypeOK, callerVars, calleeVars
  <1>2. id \in ClientId
    BY BoundsAssumption DEF new_client, IInv, TypeOK, ClientId
  <1>3. /\ ClientConnected(id) \in Command
        /\ \A S : ClientConnected(id) \notin CommandsOf(S)
    BY <1>2, CommandFacts, CommandsOfFacts
  <1> HIDE DEF id
  <1>4. /\ \A S : InCommands(S)' <=> InCommands(S)
        /\ NoneBehind(commands', CommandsOf(CarriersOf(c)), CommandsOf(SaidOf(c)))
    BY <1>1, <1>3, CommandsGrow DEF InCommands, InOrder, CarrierIsLast
  <1>5. CarrierIsLast(c)'
    BY <1>1, <1>4 DEF CarrierIsLast, InOrder
  <1> QED
    BY <1>1, <1>4, <1>5, OrderFrame DEF InBridge, InServer, InClient

(***************************************************************************)
(* So does whatever leaves queues, contexts and responses alone.           *)
(***************************************************************************)
LEMMA QuietOrder ==
  ASSUME NEW c \in Contexts, InOrder(c),
         UNCHANGED <<commands, ipc_bridge_commands, to_server, to_client,
                     serving, responses, call>>
  PROVE  InOrder(c)'
  <1>1. CarrierIsLast(c)'
    BY DEF CarrierIsLast, InOrder
  <1> QED
    BY <1>1, OrderFrame DEF InCommands, InBridge, InServer, InClient

(***************************************************************************)
(* Nothing is said about a call before it is made.                         *)
(***************************************************************************)
LEMMA UnmadeSilent ==
  ASSUME IInv, NEW c \in Contexts, call[c] = None
  PROVE  Silent(c)
  <1>1. \A m \in SaidOf(c) : m.context = c
    BY SetFacts
  <1>2. ASSUME InCommands(SaidOf(c)) PROVE FALSE
    <2>1. PICK k \in Range(commands) : k \in CommandsOf(SaidOf(c))
      BY <1>2, HasRange DEF InCommands, IInv, TypeOK
    <2> QED
      BY <1>1, <2>1 DEF CommandsOf, IInv, Routing, Attributed, FromOwner, ForOwner
  <1>3. ASSUME InBridge(SaidOf(c)) PROVE FALSE
    <2>1. PICK b \in Range(ipc_bridge_commands) : b \in BridgeCommandsOf(SaidOf(c))
      BY <1>3, HasRange DEF InBridge, IInv, TypeOK
    <2> QED
      BY <1>1, <2>1 DEF BridgeCommandsOf, IInv, Routing, ForOwner
  <1>4. ASSUME NEW id \in ClientId, InServer(id, SaidOf(c)) PROVE FALSE
    <2>1. to_server[id] \in Seq(Message)
      BY DEF IInv, TypeOK
    <2>2. PICK m \in Range(to_server[id]) : m \in SaidOf(c)
      BY <1>4, <2>1, HasRange DEF InServer
    <2> QED
      BY <1>1, <2>2 DEF IInv, Routing, FromOwner
  <1>5. ASSUME NEW id \in ClientId, InClient(id, SaidOf(c)) PROVE FALSE
    <2>1. to_client[id] \in Seq(Message)
      BY DEF IInv, TypeOK
    <2>2. PICK m \in Range(to_client[id]) : m \in SaidOf(c)
      BY <1>5, <2>1, HasRange DEF InClient
    <2> QED
      BY <1>1, <2>2 DEF IInv, Routing, ForOwner
  <1>6. \A id \in ClientId : c \notin serving[id]
    BY DEF IInv, Routing
  <1> QED
    BY <1>2, <1>3, <1>4, <1>5, <1>6 DEF Silent

(***************************************************************************)
(* A call is made under a uuid about which nothing is said yet.            *)
(***************************************************************************)
LEMMA CallOrder ==
  ASSUME IInv, NEW c \in Contexts, InOrder(c),
         NEW id \in ClientId, NEW context \in Contexts, NEW new \in Call,
         NewContext(id, context, new)
  PROVE  InOrder(c)'
  <1> DEFINE m == RpcCall(context)
             C == CarriersOf(c)
             A == SaidOf(c)
  <1>1. /\ call[context] = None /\ call' = [call EXCEPT ![context] = new]
        /\ Send(id, m) /\ m \in Message /\ new # None
        /\ UNCHANGED <<commands, ipc_bridge_commands, to_client, serving, responses>>
    BY MessageFacts, NoneAssumption DEF NewContext, calleeVars
  <1>2. /\ m \in C <=> context = c
        /\ m \in A <=> context = c
    BY SetFacts
  <1>3. /\ TypeOK /\ call \in [Contexts -> Call \cup {None}]
    BY DEF IInv, TypeOK
  <1>4. m \in A => Silent(c) /\ ~Answered(c)
    BY <1>1, <1>2, UnmadeSilent DEF InOrder, AnswerIsLast, Answered, Range
  <1> HIDE DEF m
  <1>5. /\ \A S : InServer(id, S)' <=> InServer(id, S) \/ m \in S
        /\ \A i \in ClientId \ {id} : \A S : InServer(i, S)' <=> InServer(i, S)
    BY <1>1, <1>3, SocketGrows
  <1>6. \A i \in ClientId : NoneBehind(to_server'[i], C, A)
    <2>1. m \in A => ~InServer(id, C)
      BY <1>4, CarriersAreSaid DEF Silent
    <2> QED
      BY <1>1, <1>3, <2>1, SocketGrows DEF InOrder, CarrierIsLast
  <1>7. CarrierIsLast(c)'
    BY <1>1, <1>6 DEF CarrierIsLast, InOrder
  <1>8. /\ \A S : InCommands(S)' <=> InCommands(S)
        /\ \A S : InBridge(S)' <=> InBridge(S)
        /\ \A i \in ClientId : \A S : InClient(i, S)' <=> InClient(i, S)
        /\ Answered(c)' <=> Answered(c)
    BY <1>1 DEF InCommands, InBridge, InClient, Answered
  <1>9. CASE context # c
    <2>1. /\ InServer(id, C)' <=> InServer(id, C)
          /\ InServer(id, A)' <=> InServer(id, A)
      BY <1>2, <1>5, <1>9
    <2>2. call'[c] = call[c]
      BY <1>1, <1>3, <1>9
    <2> QED
      BY <1>1, <1>5, <1>7, <1>8, <2>1, <2>2, OrderFrame
  <1>10. CASE context = c
    <2>1. OneCarrier(c)'
      BY <1>1, <1>2, <1>4, <1>5, <1>8, <1>10, CarriersAreSaid DEF Silent, OneCarrier
    <2>2. AnswerIsLast(c)'
      BY <1>1, <1>2, <1>3, <1>4, <1>8, <1>10 DEF AnswerIsLast, InOrder
    <2> QED
      BY <1>7, <2>1, <2>2 DEF InOrder
  <1> QED
    BY <1>9, <1>10

(***************************************************************************)
(* A cancel neither carries the call nor says anything that may not follow *)
(* the last response.                                                      *)
(***************************************************************************)
LEMMA CancelOrder ==
  ASSUME IInv, NEW c \in Contexts, InOrder(c),
         NEW id \in ClientId, NEW context \in Contexts, Cancel(id, context)
  PROVE  InOrder(c)'
  <1> DEFINE m == RpcCancel(context)
             C == CarriersOf(c)
             A == SaidOf(c)
  <1>1. /\ Send(id, m) /\ m \in Message /\ TypeOK
        /\ m \notin C /\ m \notin A
        /\ UNCHANGED <<commands, ipc_bridge_commands, to_client, serving,
                       responses, call>>
    BY MessageFacts, SetFacts DEF Cancel, calleeVars, IInv
  <1> HIDE DEF m
  <1>2. /\ \A S : InServer(id, S)' <=> InServer(id, S) \/ m \in S
        /\ \A i \in ClientId \ {id} : \A S : InServer(i, S)' <=> InServer(i, S)
        /\ \A i \in ClientId : NoneBehind(to_server'[i], C, A)
    BY <1>1, SocketGrows DEF InOrder, CarrierIsLast
  <1>3. CarrierIsLast(c)'
    BY <1>1, <1>2 DEF CarrierIsLast, InOrder
  <1> QED
    BY <1>1, <1>2, <1>3, OrderFrame DEF InCommands, InBridge, InClient

(***************************************************************************)
(* A client that updates a call serves it, so nothing carries it           *)
(* elsewhere, and its last response is still to come.                      *)
(***************************************************************************)
LEMMA UpdateOrder ==
  ASSUME IInv, NEW c \in Contexts, InOrder(c),
         NEW id \in ClientId, NEW context \in Contexts, update(id, context)
  PROVE  InOrder(c)'
  <1> DEFINE m == RpcResponse(context, "Partial")
             C == CarriersOf(c)
             A == SaidOf(c)
  <1>1. /\ Send(id, m) /\ m \in Message /\ TypeOK /\ context \in serving[id]
        /\ UNCHANGED <<commands, ipc_bridge_commands, to_client, serving,
                       responses, call>>
    BY MessageFacts DEF update, callerVars, IInv, Kinds
  <1>2. /\ m \notin C
        /\ m \in A <=> context = c
    BY SetFacts DEF Kinds, LastKinds
  <1> HIDE DEF m
  <1>3. m \in A => ~InServer(id, C) /\ ~Answered(c)
    BY <1>1, <1>2 DEF InOrder, OneCarrier, AnswerIsLast, Silent
  <1>4. /\ \A S : InServer(id, S)' <=> InServer(id, S) \/ m \in S
        /\ \A i \in ClientId \ {id} : \A S : InServer(i, S)' <=> InServer(i, S)
        /\ \A i \in ClientId : NoneBehind(to_server'[i], C, A)
    BY <1>1, <1>3, SocketGrows DEF InOrder, CarrierIsLast
  <1>5. CarrierIsLast(c)'
    BY <1>1, <1>4 DEF CarrierIsLast, InOrder
  <1>6. /\ \A S : InCommands(S)' <=> InCommands(S)
        /\ \A S : InBridge(S)' <=> InBridge(S)
        /\ \A i \in ClientId : \A S : InClient(i, S)' <=> InClient(i, S)
        /\ Answered(c)' <=> Answered(c)
    BY <1>1 DEF InCommands, InBridge, InClient, Answered
  <1>7. OneCarrier(c)'
    <2>1. \A i \in ClientId :
             /\ InServer(i, C)' <=> InServer(i, C)
             /\ InServer(i, A)' <=> InServer(i, A) \/ (i = id /\ m \in A)
      BY <1>2, <1>4
    <2>2. /\ InCommands(C)' <=> InCommands(C)
          /\ InCommands(A)' <=> InCommands(A)
          /\ InBridge(C)' <=> InBridge(C)
          /\ InBridge(A)' <=> InBridge(A)
          /\ \A i \in ClientId : InClient(i, C)' <=> InClient(i, C)
      BY <1>6
    <2>3. m \in A => c \in serving[id]
      BY <1>1, <1>2
    <2> QED
      BY <1>1, <2>1, <2>2, <2>3 DEF OneCarrier, InOrder
  <1>8. AnswerIsLast(c)'
    BY <1>1, <1>3, <1>4, <1>6 DEF AnswerIsLast, InOrder, Silent
  <1> QED
    BY <1>5, <1>7, <1>8 DEF InOrder

(***************************************************************************)
(* A client that finishes a call stops serving it: the last response now   *)
(* carries it.                                                             *)
(***************************************************************************)
LEMMA FinishOrder ==
  ASSUME IInv, NEW c \in Contexts, InOrder(c),
         NEW id \in ClientId, NEW context \in Contexts,
         NEW kind \in {"Done", "NotHandled"}, finish(id, context, kind)
  PROVE  InOrder(c)'
  <1> DEFINE m == RpcResponse(context, kind)
             C == CarriersOf(c)
             A == SaidOf(c)
  <1>1. /\ Send(id, m) /\ m \in Message /\ TypeOK /\ context \in serving[id]
        /\ serving' = [serving EXCEPT ![id] = @ \ {context}]
        /\ serving \in [ClientId -> SUBSET Contexts]
        /\ UNCHANGED <<commands, ipc_bridge_commands, to_client, responses, call>>
    BY MessageFacts DEF finish, Finished, callerVars, IInv, TypeOK, Kinds, LastKinds
  <1>2. /\ m \in C <=> context = c
        /\ m \in A <=> context = c
    BY SetFacts DEF Kinds, LastKinds
  <1> HIDE DEF m
  <1>3. m \in A => ~InServer(id, C) /\ ~Answered(c)
    BY <1>1, <1>2 DEF InOrder, OneCarrier, AnswerIsLast, Silent
  <1>4. /\ \A S : InServer(id, S)' <=> InServer(id, S) \/ m \in S
        /\ \A i \in ClientId \ {id} : \A S : InServer(i, S)' <=> InServer(i, S)
        /\ \A i \in ClientId : NoneBehind(to_server'[i], C, A)
    BY <1>1, <1>3, SocketGrows DEF InOrder, CarrierIsLast
  <1>5. CarrierIsLast(c)'
    BY <1>1, <1>4 DEF CarrierIsLast, InOrder
  <1>6. /\ \A S : InCommands(S)' <=> InCommands(S)
        /\ \A S : InBridge(S)' <=> InBridge(S)
        /\ \A i \in ClientId : \A S : InClient(i, S)' <=> InClient(i, S)
        /\ Answered(c)' <=> Answered(c)
    BY <1>1 DEF InCommands, InBridge, InClient, Answered
  <1>7. OneCarrier(c)'
    <2>1. \A i \in ClientId :
             /\ InServer(i, C)' <=> InServer(i, C) \/ (i = id /\ context = c)
             /\ InServer(i, A)' <=> InServer(i, A) \/ (i = id /\ context = c)
             /\ c \in serving'[i] <=> c \in serving[i] /\ ~(i = id /\ context = c)
      BY <1>1, <1>2, <1>4
    <2>2. /\ InCommands(C)' <=> InCommands(C)
          /\ InCommands(A)' <=> InCommands(A)
          /\ InBridge(C)' <=> InBridge(C)
          /\ InBridge(A)' <=> InBridge(A)
          /\ \A i \in ClientId : InClient(i, C)' <=> InClient(i, C)
      BY <1>6
    <2>3. context = c => c \in serving[id]
      BY <1>1
    <2> QED
      BY <2>1, <2>2, <2>3 DEF OneCarrier, InOrder
  <1>8. AnswerIsLast(c)'
    BY <1>1, <1>3, <1>4, <1>6 DEF AnswerIsLast, InOrder, Silent
  <1> QED
    BY <1>5, <1>7, <1>8 DEF InOrder

(***************************************************************************)
(* A client takes the oldest message from its socket.                      *)
(***************************************************************************)
LEMMA Received ==
  ASSUME IInv, NEW c \in Contexts, InOrder(c), NEW id \in ClientId, NEW tag,
         Receives(id, tag)
  PROVE  \E m \in Message :
           /\ m = Head(to_client[id]) /\ m.tag = tag /\ m.context \in Contexts
           /\ ForOwner(m, id)
           /\ \A S : InClient(id, S) <=> InClient(id, S)' \/ m \in S
           /\ \A i \in ClientId \ {id} : \A S : InClient(i, S)' <=> InClient(i, S)
           /\ CarrierIsLast(c)'
           /\ m \in CarriersOf(c) => ~InClient(id, SaidOf(c))'
  <1> DEFINE m == Head(to_client[id])
             C == CarriersOf(c)
             A == SaidOf(c)
  <1>1. /\ to_client[id] # <<>> /\ m.tag = tag
        /\ to_client \in [ClientId -> Seq(Message)]
        /\ to_client' = [to_client EXCEPT ![id] = Tail(@)]
        /\ UNCHANGED <<commands, ipc_bridge_commands, to_server>>
    BY DEF Receives, IInv, TypeOK
  <1>2. /\ to_client[id] \in Seq(Message)
        /\ to_client'[id] = Tail(to_client[id])
        /\ \A i \in ClientId \ {id} : to_client'[i] = to_client[i]
    BY <1>1
  <1>3. /\ m \in Message
        /\ \A S : Has(to_client[id], S) <=> Has(to_client'[id], S) \/ m \in S
        /\ NoneBehind(to_client'[id], C, A)
        /\ m \in C => ~Has(to_client'[id], A)
    BY <1>1, <1>2, HasTail DEF InOrder, CarrierIsLast
  <1>4. m.context \in Contexts /\ ForOwner(m, id)
    <2>1. m \in Range(to_client[id])
      BY <1>1, <1>2, TailFacts
    <2> QED
      BY <1>3, <2>1, MessageFacts DEF IInv, Routing
  <1>5. CarrierIsLast(c)'
    BY <1>1, <1>2, <1>3 DEF CarrierIsLast, InOrder
  <1> QED
    BY <1>1, <1>2, <1>3, <1>4, <1>5 DEF InClient

(***************************************************************************)
(* It serves the call, or drops it, or hands a response to the caller, for *)
(* whom a last response is then the end of the matter.                     *)
(***************************************************************************)
LEMMA ReceiveOrder ==
  ASSUME IInv, NEW c \in Contexts, InOrder(c), NEW id \in ClientId, Receive(id)
  PROVE  InOrder(c)'
  <1> DEFINE C == CarriersOf(c)
             A == SaidOf(c)
  <1>1. PICK tag : Receives(id, tag)
    BY DEF Receive, ReceiveCall, ReceiveResponse, ReceiveCancel
  <1>2. PICK m \in Message :
           /\ m = Head(to_client[id]) /\ m.tag = tag /\ m.context \in Contexts
           /\ ForOwner(m, id)
           /\ \A S : InClient(id, S) <=> InClient(id, S)' \/ m \in S
           /\ \A i \in ClientId \ {id} : \A S : InClient(i, S)' <=> InClient(i, S)
           /\ CarrierIsLast(c)'
           /\ m \in C => ~InClient(id, A)'
    BY <1>1, Received
  <1>3. /\ UNCHANGED <<commands, ipc_bridge_commands, to_server, call>>
        /\ serving \in [ClientId -> SUBSET Contexts]
        /\ responses \in [Contexts -> Seq(Kinds)]
    BY <1>1 DEF Receives, IInv, TypeOK
  <1>4. /\ \A S : InCommands(S)' <=> InCommands(S)
        /\ \A S : InBridge(S)' <=> InBridge(S)
        /\ \A i \in ClientId : \A S : InServer(i, S)' <=> InServer(i, S)
    BY <1>3 DEF InCommands, InBridge, InServer
  <1>5. CASE ReceiveCall(id)
    <2>1. /\ m.tag = "RpcCall" /\ UNCHANGED responses
          /\ \/ UNCHANGED serving
             \/ serving' = [serving EXCEPT ![id] = @ \cup {m.context}]
      BY <1>2, <1>5 DEF ReceiveCall, Receives
    <2>2. m.context = c => m \in C /\ m \in A
      BY <1>2, <2>1 DEF CarriersOf, SaidOf, Carries
    <2>3. CASE \A i \in ClientId : c \in serving'[i] => c \in serving[i]
      BY <1>2, <1>3, <1>4, <2>1, <2>3, OrderFrame
    <2>4. CASE ~ \A i \in ClientId : c \in serving'[i] => c \in serving[i]
      <3>1. /\ m.context = c
            /\ \A i \in ClientId : c \in serving'[i] => c \in serving[i] \/ i = id
        BY <1>3, <2>1, <2>4
      <3>2. /\ InClient(id, C) /\ InClient(id, A) /\ ~InClient(id, A)'
            /\ ~InClient(id, C)'
        BY <1>2, <2>2, <3>1, CarriersAreSaid
      <3>3. OneCarrier(c)'
        <4>1. \A i \in ClientId :
                 /\ ~InServer(i, A)' /\ ~InServer(i, C)' /\ c \notin serving[i]
                 /\ ~InClient(i, C)'
          BY <1>2, <1>4, <3>2, CarriersAreSaid DEF InOrder, OneCarrier
        <4>2. /\ ~InCommands(A)' /\ ~InCommands(C)'
              /\ ~InBridge(A)' /\ ~InBridge(C)'
          BY <1>4, <3>2, CarriersAreSaid DEF InOrder, OneCarrier
        <4> QED
          BY <3>1, <4>1, <4>2 DEF OneCarrier
      <3>4. AnswerIsLast(c)'
        <4>1. ~Answered(c)
          BY <3>2 DEF InOrder, AnswerIsLast, Silent
        <4> QED
          BY <1>3, <2>1, <4>1 DEF InOrder, AnswerIsLast, Answered
      <3> QED
        BY <1>2, <3>3, <3>4 DEF InOrder
    <2> QED
      BY <2>3, <2>4
  <1>6. CASE ReceiveResponse(id)
    <2>1. /\ m.tag = "RpcResponse" /\ m.kind \in Kinds /\ UNCHANGED serving
          /\ \/ UNCHANGED responses
             \/ responses' = [responses EXCEPT ![m.context] = Append(@, m.kind)]
      BY <1>2, <1>6, MessageFacts DEF ReceiveResponse, Receives
    <2>2. CASE responses'[c] = responses[c]
      BY <1>2, <1>3, <1>4, <2>1, <2>2, OrderFrame
    <2>3. CASE responses'[c] # responses[c]
      <3>1. /\ m.context = c
            /\ responses[c] \in Seq(Kinds)
            /\ responses'[c] = Append(responses[c], m.kind)
        BY <1>2, <1>3, <2>1, <2>3
      <3>2. m \in A /\ (m.kind \in LastKinds <=> m \in C)
        BY <1>2, <2>1, <3>1 DEF CarriersOf, SaidOf, Carries
      <3>3. InClient(id, A) /\ ~Answered(c) /\ call[c] # None
        BY <1>2, <3>1, <3>2 DEF InOrder, AnswerIsLast, Silent, ForOwner
      <3>4. OneCarrier(c)'
        <4>1. \A i \in ClientId :
                 /\ InServer(i, C)' <=> InServer(i, C)
                 /\ InServer(i, A)' <=> InServer(i, A)
                 /\ InClient(i, C)' => InClient(i, C)
                 /\ c \in serving'[i] <=> c \in serving[i]
          BY <1>2, <1>4, <2>1
        <4> QED
          BY <1>4, <4>1 DEF InOrder, OneCarrier
      <3>5. Answered(c)' => Silent(c)'
        <4>1. Answered(c)' => m \in C
          <5>1. Range(responses'[c]) = Range(responses[c]) \cup {m.kind}
            BY <2>1, <3>1, AppendFacts
          <5> QED
            BY <3>2, <3>3, <5>1 DEF Answered
        <4>2. ASSUME m \in C PROVE Silent(c)'
          <5>1. InClient(id, C) /\ ~InClient(id, A)'
            BY <1>2, <4>2
          <5>2. ~InCommands(A)' /\ ~InBridge(A)'
            BY <1>4, <5>1 DEF InOrder, OneCarrier
          <5>3. ASSUME NEW i \in ClientId
                PROVE  ~InServer(i, A)' /\ c \notin serving'[i]
            BY <1>4, <2>1, <5>1 DEF InOrder, OneCarrier
          <5>4. ASSUME NEW i \in ClientId \ {id}, InClient(i, A)
                PROVE  FALSE
            <6>1. ~InClient(i, C)
              BY <5>1 DEF InOrder, OneCarrier
            <6>2. to_client[i] \in Seq(Message)
              BY DEF IInv, TypeOK
            <6>3. PICK x \in Range(to_client[i]) : x \in A /\ x \notin C
              BY <5>4, <6>1, <6>2, HasRange DEF InClient
            <6>4. x.tag = "RpcResponse" /\ x.context = c
              BY <6>3, SetFacts
            <6>5. call[c].caller = i
              BY <6>3, <6>4 DEF IInv, Routing, ForOwner
            <6>6. call[c].caller = id
              BY <1>2, <2>1, <3>1 DEF ForOwner
            <6> QED
              BY <6>5, <6>6
          <5> QED
            BY <1>2, <5>1, <5>2, <5>3, <5>4 DEF Silent
        <4> QED
          BY <4>1, <4>2
      <3>6. \A i, j \in DOMAIN responses'[c] : i < j => responses'[c][i] = "Partial"
        <4> DEFINE r == responses[c]
                   kind == m.kind
                   q == responses'[c]
        <4>1. \A i \in DOMAIN r : r[i] = "Partial"
          BY <3>1, <3>3 DEF Answered, Range, Kinds
        <4>2. r \in Seq(Kinds) /\ kind \in Kinds /\ q = Append(r, kind)
          BY <2>1, <3>1
        <4> HIDE DEF r, kind, q
        <4>3. /\ DOMAIN q = 1 .. Len(r) + 1 /\ DOMAIN r = 1 .. Len(r)
              /\ Len(r) \in Nat
              /\ \A i \in 1 .. Len(r) : q[i] = r[i]
          BY <4>2
        <4>4. \A i, j \in DOMAIN q : i < j => q[i] = "Partial"
          BY <4>1, <4>3
        <4> QED
          BY <4>4 DEF q
      <3>7. AnswerIsLast(c)'
        BY <1>3, <3>3, <3>5, <3>6 DEF AnswerIsLast
      <3> QED
        BY <1>2, <3>4, <3>7 DEF InOrder
    <2> QED
      BY <2>2, <2>3
  <1>7. CASE ReceiveCancel(id)
    <2>1. /\ serving' = [serving EXCEPT ![id] = @ \ {m.context}]
          /\ UNCHANGED responses
      BY <1>2, <1>7 DEF ReceiveCancel
    <2>2. \A i \in ClientId : c \in serving'[i] => c \in serving[i]
      BY <1>3, <2>1
    <2> QED
      BY <1>2, <1>3, <1>4, <2>1, <2>2, OrderFrame
  <1> QED
    BY <1>5, <1>6, <1>7 DEF Receive

-----------------------------------------------------------------------------
(***************************************************************************)
(* Every step keeps the order of a call.                                   *)
(***************************************************************************)
LEMMA NextOrder ==
  ASSUME IInv, NEW c \in Contexts, InOrder(c), [Next]_vars
  PROVE  InOrder(c)'
  <1>1. CASE handle
    BY <1>1, HandleOrder
  <1>2. CASE notify
    BY <1>2, NotifyOrder
  <1>3. CASE \E t \in Tokens : new_client(t)
    BY <1>3, NewClientOrder
  <1>4. ASSUME NEW id \in ClientId, ReadMessage(id) \/ Hup(id)
        PROVE  InOrder(c)'
    BY <1>4, ReadMessageOrder, HupOrder
  <1>5. ASSUME NEW id \in ClientId, ClientStep(id)
        PROVE  InOrder(c)'
    <2>1. CASE Receive(id)
      BY <2>1, ReceiveOrder
    <2>2. ASSUME NEW context \in Contexts, NEW name \in Functions,
                 CallRpc(id, context, name)
          PROVE  InOrder(c)'
      <3>1. [caller |-> id, core |-> FALSE, function |-> name] \in Call
        BY DEF Call
      <3> QED
        BY <2>2, <3>1, CallOrder DEF CallRpc
    <2>3. ASSUME NEW context \in Contexts, NEW name \in Functions,
                 NEW p \in Priorities, RequestNewRpc(id, context, name, p)
          PROVE  InOrder(c)'
      <3>1. [caller |-> id, core |-> TRUE, function |-> name, priority |-> p] \in Call
        BY DEF Call
      <3> QED
        BY <2>3, <3>1, CallOrder DEF RequestNewRpc
    <2>4. ASSUME NEW context \in Contexts, InstallRpc(id, context)
          PROVE  InOrder(c)'
      BY <2>4, QuietOrder DEF InstallRpc, callerVars
    <2>5. ASSUME NEW context \in Contexts,
                 \/ Cancel(id, context) \/ update(id, context)
                 \/ \E kind \in {"Done", "NotHandled"} : finish(id, context, kind)
          PROVE  InOrder(c)'
      BY <2>5, CancelOrder, UpdateOrder, FinishOrder
    <2> QED
      BY <1>5, <2>1, <2>2, <2>3, <2>4, <2>5 DEF ClientStep
  <1>6. CASE UNCHANGED vars
    BY <1>6, QuietOrder DEF vars, callerVars, calleeVars
  <1> QED
    BY <1>1, <1>2, <1>3, <1>4, <1>5, <1>6 DEF Next

(***************************************************************************)
(* The inductive invariant of what is said about calls.                    *)
(***************************************************************************)
AllInOrder == \A c \in Contexts : InOrder(c)

(***************************************************************************)
(* In the beginning nothing is said about any call.                        *)
(***************************************************************************)
LEMMA InitOrder == Init => AllInOrder
  <1> SUFFICES ASSUME Init, NEW c \in Contexts PROVE InOrder(c)
    BY DEF AllInOrder
  <1> USE HasNone DEF Init, ServerInit, ClientInit
  <1>1. CarrierIsLast(c)
    BY DEF CarrierIsLast
  <1>2. OneCarrier(c)
    BY DEF OneCarrier, InServer, InClient, InBridge, InCommands
  <1>3. AnswerIsLast(c)
    BY DEF AnswerIsLast, Silent, Answered, Range, InServer, InClient, InBridge,
           InCommands
  <1> QED
    BY <1>1, <1>2, <1>3 DEF InOrder

(***************************************************************************)
(* What is said about a call stays in order, in every queue and at every   *)
(* client: the call, or its last response, is in one place, nothing that   *)
(* was said before is behind it, and nothing comes after the answer.       *)
(***************************************************************************)
THEOREM CallsInOrder == Spec => []AllInOrder
  <1>1. ASSUME IInv, AllInOrder, [Next]_vars
        PROVE  AllInOrder'
    BY <1>1, NextOrder DEF AllInOrder
  <1> QED
    BY <1>1, InitOrder, Invariance, PTL DEF Spec

(***************************************************************************)
(* Client::call: a caller gets at most one last response, and nothing      *)
(* after it.                                                               *)
(***************************************************************************)
THEOREM NothingFollowsTheAnswer == Spec => []NothingAfterLast
  <1>1. AllInOrder => NothingAfterLast
    BY DEF AllInOrder, InOrder, AnswerIsLast, NothingAfterLast
  <1> QED
    BY <1>1, CallsInOrder, PTL

-----------------------------------------------------------------------------
(***************************************************************************)
(* A client that has gone: it had a connection and will never have one     *)
(* again.                                                                  *)
(***************************************************************************)
Gone(id) == ~Connected(id) /\ id.serial < next_serial

(***************************************************************************)
(* Connections and callers have serial numbers that were given out, and    *)
(* swiboe is told only of clients that have gone.                          *)
(***************************************************************************)
Departures ==
  /\ \A t \in Tokens : connections[t] # None =>
        connections[t].token = t /\ connections[t].serial < next_serial
  /\ \A id \in ClientId :
        Has(commands, {ClientDisconnected(id)}) => Gone(id)
  /\ \A c \in Contexts : call[c] # None => call[c].caller.serial < next_serial

(***************************************************************************)
(* The commands that a step may add to swiboe's queue; only a hang-up      *)
(* announces a disconnect.                                                 *)
(***************************************************************************)
LEMMA CommandsChange ==
  ASSUME IInv, [Next]_vars
  PROVE  \/ UNCHANGED commands
         \/ commands # <<>> /\ commands' = Tail(commands)
         \/ \E k \in Command :
              /\ commands' = Append(commands, k)
              /\ k.cmd = "ClientDisconnected" => Hup(k.client)
         \/ \E k \in Command :
              /\ commands # <<>> /\ commands' = Append(Tail(commands), k)
              /\ k.cmd = "NewRpc"
  <1>1. CASE handle
    <2>1. CASE HandleCoreCall
      <3> DEFINE m == Head(commands).message
                 x == call[m.context]
                 new == NewRpc(Head(commands).client, x.function, x.priority)
      <3>1. /\ Takes("FromClient") /\ x.core /\ m.tag = "RpcCall"
            /\ commands' = Append(Tail(commands), new)
            /\ commands # <<>>
        BY <2>1 DEF HandleCoreCall, Takes
      <3>2. /\ m.context \in Contexts /\ Head(commands).client \in ClientId
            /\ x # None
        BY <3>1, TakesFacts, CommandFacts, MessageFacts DEF Attributed, FromOwner
      <3>3. x \in Call \cup {None}
        BY <3>2 DEF IInv, TypeOK
      <3>4. new \in Command /\ new.cmd = "NewRpc"
        BY <3>1, <3>2, <3>3, CallFacts, CommandFacts DEF NewRpc
      <3> QED
        BY <3>1, <3>4
    <2>2. CASE handle /\ ~HandleCoreCall
      BY <2>2 DEF handle, HandleNewRpc, HandleRpcCall, HandleRpcResponse,
           HandleRpcCancel, HandleSendDataFailed, HandleClientConnected,
           HandleClientDisconnected, Takes
    <2> QED
      BY <1>1, <2>1, <2>2
  <1>2. CASE notify
    <2> DEFINE h == Head(ipc_bridge_commands)
               new == SendDataFailed(h.receiver, h.message)
    <2>1. UNCHANGED commands \/ commands' = Append(commands, new)
      BY <1>2 DEF notify
    <2>2. h \in BridgeCommand
      BY <1>2, TailFacts DEF notify, IInv, TypeOK
    <2>3. new \in Command /\ new.cmd = "SendDataFailed"
      BY <2>2, CommandFacts DEF SendDataFailed
    <2> QED
      BY <2>1, <2>3
  <1>3. ASSUME NEW t \in Tokens, new_client(t)
        PROVE  \E k \in Command : /\ commands' = Append(commands, k)
                                  /\ k.cmd # "ClientDisconnected"
    <2> DEFINE id == [serial |-> next_serial, token |-> t]
    <2>1. id \in ClientId
      BY <1>3, BoundsAssumption DEF new_client, IInv, TypeOK, ClientId
    <2>2. ClientConnected(id) \in Command /\ ClientConnected(id).cmd = "ClientConnected"
      BY <2>1, CommandFacts DEF ClientConnected
    <2>3. commands' = Append(commands, ClientConnected(id))
      BY <1>3 DEF new_client
    <2> QED
      BY <2>2, <2>3
  <1>4. ASSUME NEW id \in ClientId, ReadMessage(id)
        PROVE  \E k \in Command : /\ commands' = Append(commands, k)
                                  /\ k.cmd # "ClientDisconnected"
    <2>1. Head(to_server[id]) \in Message
      BY <1>4, TailFacts DEF ReadMessage, IInv, TypeOK
    <2>2. /\ FromClient(id, Head(to_server[id])) \in Command
          /\ FromClient(id, Head(to_server[id])).cmd = "FromClient"
      BY <2>1, CommandFacts DEF FromClient
    <2> QED
      BY <1>4, <2>2 DEF ReadMessage
  <1>5. ASSUME NEW id \in ClientId, Hup(id)
        PROVE  \E k \in Command : commands' = Append(commands, k) /\ Hup(k.client)
    <2>1. /\ ClientDisconnected(id) \in Command
          /\ ClientDisconnected(id).client = id
      BY CommandFacts DEF ClientDisconnected
    <2> QED
      BY <1>5, <2>1 DEF Hup, ReportHup
  <1>6. ASSUME NEW id \in ClientId, ClientStep(id)
        PROVE  UNCHANGED commands
    BY <1>6 DEF ClientStep, Receive, ReceiveCall, ReceiveResponse, ReceiveCancel,
         Receives, CallRpc, RequestNewRpc, NewContext, InstallRpc, Cancel, update,
         finish
  <1>7. CASE UNCHANGED vars
    BY <1>7 DEF vars
  <1> QED
    BY <1>1, <1>2, <1>3, <1>4, <1>5, <1>6, <1>7 DEF Next

(***************************************************************************)
(* A disconnect in the queue was there or is being announced.              *)
(***************************************************************************)
LEMMA DisconnectedOnlyByHup ==
  ASSUME IInv, [Next]_vars, NEW id \in ClientId,
         Has(commands, {ClientDisconnected(id)})'
  PROVE  Has(commands, {ClientDisconnected(id)}) \/ Hup(id)
  <1> DEFINE S == {ClientDisconnected(id)}
  <1>1. commands \in Seq(Command)
    BY DEF IInv, TypeOK
  <1>2. ASSUME NEW k \in S PROVE k.cmd = "ClientDisconnected" /\ k.client = id
    BY DEF ClientDisconnected
  <1> HIDE DEF S
  <1>3. Has(commands', S)
    BY DEF S
  <1>4. CASE UNCHANGED commands
    BY <1>3, <1>4 DEF S
  <1>5. CASE commands # <<>> /\ commands' = Tail(commands)
    BY <1>1, <1>3, <1>5, HasTail DEF S
  <1>6. ASSUME NEW k \in Command, commands' = Append(commands, k),
               k.cmd = "ClientDisconnected" => Hup(k.client)
        PROVE  Has(commands, S) \/ Hup(id)
    <2>1. Has(commands, S) \/ k \in S
      BY <1>1, <1>3, <1>6, HasAppend
    <2> QED
      BY <1>2, <1>6, <2>1
  <1>7. ASSUME NEW k \in Command, commands # <<>>,
               commands' = Append(Tail(commands), k), k.cmd = "NewRpc"
        PROVE  Has(commands, S)
    <2>1. Tail(commands) \in Seq(Command)
      BY <1>1, <1>7, HasTail
    <2>2. Has(Tail(commands), S) \/ k \in S
      BY <1>3, <1>7, <2>1, HasAppend
    <2> QED
      BY <1>1, <1>2, <1>7, <2>2, HasTail
  <1> QED
    BY <1>4, <1>5, <1>6, <1>7, CommandsChange DEF S

(***************************************************************************)
(* Only new connections and hang-ups change the slab.                      *)
(***************************************************************************)
LEMMA ConnectionsChange ==
  ASSUME IInv, [Next]_vars
  PROVE  \/ UNCHANGED <<connections, next_serial>>
         \/ \E t \in Tokens : new_client(t)
         \/ \E id \in ClientId : Hup(id)
  <1>1. ASSUME handle PROVE UNCHANGED <<connections, next_serial>>
    BY <1>1 DEF handle, HandleNewRpc, HandleCoreCall, HandleRpcCall,
         HandleRpcResponse, HandleRpcCancel, HandleSendDataFailed,
         HandleClientConnected, HandleClientDisconnected, Takes, bridgeVars
  <1>2. ASSUME NEW id \in ClientId, ClientStep(id)
        PROVE  UNCHANGED <<connections, next_serial>>
    BY <1>2 DEF ClientStep, Receive, ReceiveCall, ReceiveResponse, ReceiveCancel,
         Receives, CallRpc, RequestNewRpc, NewContext, InstallRpc, Cancel, update,
         finish, bridgeVars
  <1> QED
    BY <1>1, <1>2 DEF Next, notify, ReadMessage, bridgeVars, vars

(***************************************************************************)
(* Only the making of a call changes what was called.                      *)
(***************************************************************************)
LEMMA CallChange ==
  ASSUME [Next]_vars
  PROVE  \/ UNCHANGED call
         \/ \E id \in ClientId, context \in Contexts, new \in Call :
               new.caller = id /\ NewContext(id, context, new)
  <1>1. ASSUME handle PROVE UNCHANGED call
    BY <1>1 DEF handle, HandleNewRpc, HandleCoreCall, HandleRpcCall,
         HandleRpcResponse, HandleRpcCancel, HandleSendDataFailed,
         HandleClientConnected, HandleClientDisconnected, Takes, callerVars
  <1>2. ASSUME NEW id \in ClientId, ClientStep(id)
        PROVE  \/ UNCHANGED call
               \/ \E context \in Contexts, new \in Call :
                    new.caller = id /\ NewContext(id, context, new)
    <2>1. ASSUME NEW context \in Contexts, NEW name \in Functions,
                 CallRpc(id, context, name)
          PROVE  \E new \in Call : new.caller = id /\ NewContext(id, context, new)
      <3> DEFINE new == [caller |-> id, core |-> FALSE, function |-> name]
      <3>1. new \in Call /\ new.caller = id
        BY DEF Call
      <3> QED
        BY <2>1, <3>1 DEF CallRpc
    <2>2. ASSUME NEW context \in Contexts, NEW name \in Functions,
                 NEW p \in Priorities, RequestNewRpc(id, context, name, p)
          PROVE  \E new \in Call : new.caller = id /\ NewContext(id, context, new)
      <3> DEFINE new == [caller |-> id, core |-> TRUE, function |-> name,
                         priority |-> p]
      <3>1. new \in Call /\ new.caller = id
        BY DEF Call
      <3> QED
        BY <2>2, <3>1 DEF RequestNewRpc
    <2> QED
      BY <1>2, <2>1, <2>2 DEF ClientStep, Receive, ReceiveCall, ReceiveResponse,
           ReceiveCancel, Receives, InstallRpc, Cancel, update, finish, callerVars
  <1> QED
    BY <1>1, <1>2
       DEF Next, notify, new_client, ReadMessage, Hup, callerVars, vars

(***************************************************************************)
(* A client that has gone stays gone: no serial number is used again.      *)
(***************************************************************************)
LEMMA GoneStays ==
  ASSUME IInv, [Next]_vars, NEW id \in ClientId, Gone(id)
  PROVE  Gone(id)'
  <1>1. /\ connections \in [Tokens -> ClientId \cup {None}]
        /\ next_serial \in Nat /\ id.token \in Tokens /\ id.serial \in Nat
    BY BoundsAssumption DEF IInv, TypeOK, ClientId
  <1>2. CASE UNCHANGED <<connections, next_serial>>
    BY <1>2 DEF Gone, Connected
  <1>3. ASSUME NEW t \in Tokens, new_client(t) PROVE Gone(id)'
    <2>1. /\ connections' = [connections EXCEPT ![t] = [serial |-> next_serial, token |-> t]]
          /\ next_serial' = next_serial + 1
      BY <1>3 DEF new_client
    <2>2. [serial |-> next_serial, token |-> t] # id
      BY <1>1 DEF Gone
    <2> QED
      BY <1>1, <2>1, <2>2 DEF Gone, Connected
  <1>4. ASSUME NEW i \in ClientId, Hup(i) PROVE Gone(id)'
    <2>1. /\ connections' = [connections EXCEPT ![i.token] = None]
          /\ next_serial' = next_serial
      BY <1>4 DEF Hup
    <2> QED
      BY <1>1, <2>1, NoneAssumption DEF Gone, Connected
  <1> QED
    BY <1>2, <1>3, <1>4, ConnectionsChange

(***************************************************************************)
(* Every step keeps what is known about departures.                        *)
(***************************************************************************)
LEMMA NextDepartures ==
  ASSUME IInv, Departures, [Next]_vars
  PROVE  Departures'
  <1>1. /\ connections \in [Tokens -> ClientId \cup {None}]
        /\ next_serial \in Nat
        /\ \A id \in ClientId : id.token \in Tokens /\ id.serial \in Nat
        /\ call \in [Contexts -> Call \cup {None}]
    BY BoundsAssumption DEF IInv, TypeOK, ClientId
  <1>2. next_serial' \in Nat /\ next_serial <= next_serial'
    <2>1. ASSUME NEW t \in Tokens, new_client(t)
          PROVE  next_serial' = next_serial + 1
      BY <2>1 DEF new_client
    <2>2. ASSUME NEW i \in ClientId, Hup(i)
          PROVE  next_serial' = next_serial
      BY <2>2 DEF Hup
    <2> QED
      BY <1>1, <2>1, <2>2, ConnectionsChange
  <1>3. \A t \in Tokens : connections'[t] # None =>
           connections'[t].token = t /\ connections'[t].serial < next_serial'
    <2>1. CASE UNCHANGED <<connections, next_serial>>
      BY <2>1 DEF Departures
    <2>2. ASSUME NEW t \in Tokens, new_client(t)
          PROVE  \A s \in Tokens : connections'[s] # None =>
             connections'[s].token = s /\ connections'[s].serial < next_serial'
      <3>1. /\ connections' = [connections EXCEPT ![t] = [serial |-> next_serial, token |-> t]]
            /\ next_serial' = next_serial + 1
        BY <2>2 DEF new_client
      <3>2. ASSUME NEW s \in Tokens, connections'[s] # None
            PROVE  connections'[s].token = s /\ connections'[s].serial < next_serial'
        <4>1. CASE s = t
          BY <1>1, <3>1, <4>1
        <4>2. CASE s # t
          <5>1. connections'[s] = connections[s] /\ connections[s] \in ClientId
            BY <1>1, <3>1, <3>2, <4>2
          <5> QED
            BY <1>1, <3>1, <3>2, <5>1 DEF Departures
        <4> QED
          BY <4>1, <4>2
      <3> QED
        BY <3>2
    <2>3. ASSUME NEW i \in ClientId, Hup(i)
          PROVE  \A t \in Tokens : connections'[t] # None =>
             connections'[t].token = t /\ connections'[t].serial < next_serial'
      BY <1>1, <2>3 DEF Hup, Departures
    <2> QED
      BY <2>1, <2>2, <2>3, ConnectionsChange
  <1>4. ASSUME NEW id \in ClientId, Has(commands, {ClientDisconnected(id)})'
        PROVE  Gone(id)'
    <2>1. CASE Has(commands, {ClientDisconnected(id)})
      BY <2>1, GoneStays DEF Departures
    <2>2. CASE Hup(id)
      <3>1. /\ connections[id.token] = id
            /\ connections' = [connections EXCEPT ![id.token] = None]
            /\ next_serial' = next_serial
        BY <2>2 DEF Hup, Connected
      <3>2. connections[id.token] # None /\ id.token \in Tokens
        BY <1>1, <3>1, NoneAssumption
      <3> QED
        BY <1>1, <3>1, <3>2, NoneAssumption DEF Departures, Gone, Connected
    <2> QED
      BY <1>4, <2>1, <2>2, DisconnectedOnlyByHup
  <1>5. ASSUME NEW c \in Contexts, call'[c] # None
        PROVE  call'[c].caller.serial < next_serial'
    <2>1. CASE call'[c] = call[c]
      <3>1. call[c].caller.serial < next_serial /\ call[c].caller \in ClientId
        BY <1>1, <1>5, <2>1, CallFacts DEF Departures
      <3> QED
        BY <1>1, <1>2, <2>1, <3>1
    <2>2. CASE call'[c] # call[c]
      <3>1. PICK id \in ClientId, context \in Contexts, new \in Call :
               new.caller = id /\ NewContext(id, context, new)
        BY <2>2, CallChange
      <3>2. call'[c].caller = id /\ connections[id.token] = id /\ id.token \in Tokens
        BY <1>1, <2>2, <3>1 DEF NewContext, Connected
      <3>3. id.serial < next_serial
        BY <3>2, NoneAssumption DEF Departures
      <3> QED
        BY <1>1, <1>2, <3>2, <3>3
    <2> QED
      BY <2>1, <2>2
  <1> QED
    BY <1>3, <1>4, <1>5 DEF Departures

-----------------------------------------------------------------------------
(***************************************************************************)
(* A call on its way, its last response, its cancel.                       *)
(***************************************************************************)
CallOf(c) == {RpcCall(c)}
LastsOf(c) == CarriersOf(c) \ CallOf(c)
CancelOf(c) == {RpcCancel(c)}

(***************************************************************************)
(* Commands and bridge commands that bring a message of S from a client,   *)
(* back from the bridge, or to the client id.                              *)
(***************************************************************************)
FromClients(S) == {k \in Command : k.cmd = "FromClient" /\ k.message \in S}
Returned(S) == {k \in Command : k.cmd = "SendDataFailed" /\ k.message \in S}
ForClient(id, S) == {b \in BridgeCommand : b.receiver = id /\ b.message \in S}

(***************************************************************************)
(* The call is with the client id or on its way there.                     *)
(***************************************************************************)
AtCallee(id, c) ==
  \/ c \in serving[id]
  \/ InClient(id, CallOf(c))
  \/ Has(ipc_bridge_commands, ForClient(id, CallOf(c)))

(***************************************************************************)
(* The call is on its way from the caller to swiboe.                       *)
(***************************************************************************)
Unhandled(c) ==
  \/ \E id \in ClientId : InServer(id, CallOf(c))
  \/ Has(commands, FromClients(CallOf(c)))

(***************************************************************************)
(* swiboe has passed the call on, and it is not answered yet.              *)
(***************************************************************************)
Accepted(c) ==
  \/ \E id \in ClientId : AtCallee(id, c) \/ InServer(id, LastsOf(c))
  \/ Has(commands, FromClients(LastsOf(c)))
  \/ Has(commands, Returned(CallOf(c)))

(***************************************************************************)
(* A last response could not be delivered.                                 *)
(***************************************************************************)
Bounced(c) == Has(commands, Returned(LastsOf(c)))

(***************************************************************************)
(* A cancel of the call is on its way.                                     *)
(***************************************************************************)
CancelSent(c) ==
  \/ \E id \in ClientId : InServer(id, CancelOf(c)) \/ InClient(id, CancelOf(c))
  \/ Has(commands, FromClients(CancelOf(c)))
  \/ \E id \in ClientId : Has(ipc_bridge_commands, ForClient(id, CancelOf(c)))

(***************************************************************************)
(* The accounts of a call.  Only the callee in running_rpcs has the call;  *)
(* no entry exists before swiboe has handled the call, and one exists      *)
(* until it has handled the last response, unless the caller is gone; a    *)
(* response comes back only when the caller is gone; only a caller that    *)
(* has cancelled sends a cancel.                                           *)
(***************************************************************************)
Ledger(c) ==
  /\ running_rpcs[c] # None =>
       \A id \in ClientId : AtCallee(id, c) => running_rpcs[c].callee = id
  /\ Unhandled(c) => running_rpcs[c] = None
  /\ Accepted(c) => running_rpcs[c] # None \/ CallerGone(c)
  /\ Bounced(c) => CallerGone(c)
  /\ CancelSent(c) => c \in cancelled

(***************************************************************************)
(* Calls, last responses and cancels are three things.                     *)
(***************************************************************************)
LEMMA KindFacts ==
  ASSUME NEW c \in Contexts
  PROVE  /\ \A m \in Message :
              /\ m \in CallOf(c) <=> m.tag = "RpcCall" /\ m.context = c
              /\ m \in CancelOf(c) <=> m.tag = "RpcCancel" /\ m.context = c
              /\ m \in CarriersOf(c) <=> m \in CallOf(c) \/ m \in LastsOf(c)
              /\ m \in LastsOf(c) => m.tag = "RpcResponse" /\ m.context = c
              /\ m \in LastsOf(c) => m.kind \in LastKinds
         /\ \A d \in Contexts, k \in Kinds :
              /\ RpcResponse(d, k) \notin CallOf(c)
              /\ RpcResponse(d, k) \notin CancelOf(c)
              /\ RpcResponse(d, k) \in LastsOf(c) <=> d = c /\ k \in LastKinds
         /\ \A d \in Contexts :
              /\ RpcCall(d) \in CallOf(c) <=> d = c
              /\ RpcCall(d) \notin CancelOf(c) /\ RpcCall(d) \notin LastsOf(c)
              /\ RpcCancel(d) \notin CallOf(c) /\ RpcCancel(d) \notin LastsOf(c)
              /\ RpcCancel(d) \in CancelOf(c) <=> d = c
  <1>1. \A m \in Message :
              /\ m \in CallOf(c) <=> m.tag = "RpcCall" /\ m.context = c
              /\ m \in CancelOf(c) <=> m.tag = "RpcCancel" /\ m.context = c
    BY DEF CallOf, CancelOf, RpcCall, RpcCancel, Message
  <1>2. \A m \in Message :
              /\ m \in CarriersOf(c) <=> m \in CallOf(c) \/ m \in LastsOf(c)
              /\ m \in LastsOf(c) =>
                    m.tag = "RpcResponse" /\ m.context = c /\ m.kind \in LastKinds
    BY <1>1 DEF LastsOf, CarriersOf, Carries
  <1>3. \A d \in Contexts, k \in Kinds :
           /\ RpcResponse(d, k) \in Message
           /\ RpcResponse(d, k).tag = "RpcResponse"
           /\ RpcResponse(d, k).context = d /\ RpcResponse(d, k).kind = k
    BY MessageFacts DEF RpcResponse
  <1>4. \A d \in Contexts :
           /\ RpcCall(d) \in Message /\ RpcCancel(d) \in Message
           /\ RpcCall(d).tag = "RpcCall" /\ RpcCall(d).context = d
           /\ RpcCancel(d).tag = "RpcCancel" /\ RpcCancel(d).context = d
    BY MessageFacts DEF RpcCall, RpcCancel
  <1>5. \A d \in Contexts, k \in Kinds :
              /\ RpcResponse(d, k) \notin CallOf(c)
              /\ RpcResponse(d, k) \notin CancelOf(c)
              /\ RpcResponse(d, k) \in LastsOf(c) <=> d = c /\ k \in LastKinds
    BY <1>1, <1>2, <1>3, SetFacts
  <1>6. \A d \in Contexts :
              /\ RpcCall(d) \in CallOf(c) <=> d = c
              /\ RpcCall(d) \notin CancelOf(c) /\ RpcCall(d) \notin LastsOf(c)
              /\ RpcCancel(d) \notin CallOf(c) /\ RpcCancel(d) \notin LastsOf(c)
              /\ RpcCancel(d) \in CancelOf(c) <=> d = c
    BY <1>1, <1>2, <1>4
  <1> QED
    BY <1>1, <1>2, <1>5, <1>6

(***************************************************************************)
(* Which commands bring them, and which bring them back.                   *)
(***************************************************************************)
LEMMA CommandKinds ==
  /\ \A id \in ClientId, m \in Message : \A S :
       /\ FromClient(id, m) \in FromClients(S) <=> m \in S
       /\ FromClient(id, m) \notin Returned(S)
       /\ SendDataFailed(id, m) \in Returned(S) <=> m \in S
       /\ SendDataFailed(id, m) \notin FromClients(S)
       /\ \A i : SendData(id, m) \in ForClient(i, S) <=> i = id /\ m \in S
  /\ \A k \in Command : \A S :
       k.cmd \notin {"FromClient", "SendDataFailed"} =>
          k \notin FromClients(S) /\ k \notin Returned(S)
  <1>1. ASSUME NEW id \in ClientId, NEW m \in Message, NEW S
        PROVE  /\ FromClient(id, m) \in FromClients(S) <=> m \in S
               /\ FromClient(id, m) \notin Returned(S)
               /\ SendDataFailed(id, m) \in Returned(S) <=> m \in S
               /\ SendDataFailed(id, m) \notin FromClients(S)
               /\ \A i : SendData(id, m) \in ForClient(i, S) <=> i = id /\ m \in S
    BY CommandFacts DEF FromClients, Returned, ForClient, FromClient,
       SendDataFailed, SendData
  <1>2. \A k \in Command : \A S :
          k.cmd \notin {"FromClient", "SendDataFailed"} =>
             k \notin FromClients(S) /\ k \notin Returned(S)
    BY DEF FromClients, Returned
  <1> QED
    BY <1>1, <1>2

(***************************************************************************)
(* Calls and last responses carry the call, and so do the commands with    *)
(* them.                                                                   *)
(***************************************************************************)
LEMMA CarriedWhere ==
  ASSUME NEW c \in Contexts
  PROVE  /\ CallOf(c) \subseteq CarriersOf(c) /\ LastsOf(c) \subseteq CarriersOf(c)
         /\ \A S : S \subseteq CarriersOf(c) =>
              /\ FromClients(S) \subseteq CommandsOf(CarriersOf(c))
              /\ \A id : ForClient(id, S) \subseteq BridgeCommandsOf(CarriersOf(c))
         /\ Returned(CallOf(c)) \subseteq CommandsOf(CarriersOf(c))
  <1>1. CallOf(c) \subseteq CarriersOf(c)
    BY SetFacts DEF CallOf
  <1>2. LastsOf(c) \subseteq CarriersOf(c)
    BY DEF LastsOf
  <1>3. ASSUME NEW S, S \subseteq CarriersOf(c)
        PROVE  /\ FromClients(S) \subseteq CommandsOf(CarriersOf(c))
               /\ \A id : ForClient(id, S) \subseteq BridgeCommandsOf(CarriersOf(c))
    BY <1>3 DEF FromClients, ForClient, CommandsOf, BridgeCommandsOf
  <1>4. Returned(CallOf(c)) \subseteq CommandsOf(CarriersOf(c))
    BY <1>1 DEF Returned, CommandsOf, NeedsSurrogate, CallOf, RpcCall
  <1> QED
    BY <1>1, <1>2, <1>3, <1>4

(***************************************************************************)
(* A step keeps the ledger when it does not bring the call to anybody and  *)
(* makes no account larger.                                                *)
(***************************************************************************)
LEMMA LedgerFrame ==
  ASSUME NEW c \in Contexts, Ledger(c),
         running_rpcs'[c] = running_rpcs[c],
         \A id \in ClientId : AtCallee(id, c)' => AtCallee(id, c),
         Unhandled(c)' => Unhandled(c) \/ running_rpcs[c] = None,
         Accepted(c)' => Accepted(c),
         Bounced(c)' => Bounced(c) \/ CallerGone(c)',
         CancelSent(c)' => CancelSent(c) \/ c \in cancelled',
         CallerGone(c) => CallerGone(c)',
         c \in cancelled => c \in cancelled'
  PROVE  Ledger(c)'
  BY DEF Ledger

(***************************************************************************)
(* A handler keeps the ledger when it sends the call only if its command   *)
(* carried it, and then to the new callee.                                 *)
(***************************************************************************)
LEMMA HandlerLedger ==
  ASSUME IInv, NEW c \in Contexts, InOrder(c), Ledger(c),
         NEW command, Takes(command),
         \/ commands' = Tail(commands)
         \/ \E k \in Command : commands' = Append(Tail(commands), k) /\ k.cmd = "NewRpc",
         \/ UNCHANGED ipc_bridge_commands /\ UNCHANGED running_rpcs[c]
         \/ \E id \in ClientId, m \in Message :
              /\ ipc_bridge_commands' = Append(ipc_bridge_commands, SendData(id, m))
              /\ m \in CancelOf(c) => c \in cancelled
              /\ \/ UNCHANGED running_rpcs[c] /\ m \notin CallOf(c)
                 \/ /\ Head(commands) \in CommandsOf(CarriersOf(c))
                    /\ m \in CallOf(c) =>
                          running_rpcs'[c] # None /\ running_rpcs'[c].callee = id
  PROVE  Ledger(c)'
  <1> DEFINE C == CarriersOf(c)
             k == Head(commands)
  <1>1. /\ commands \in Seq(Command) /\ commands # <<>>
        /\ ipc_bridge_commands \in Seq(BridgeCommand)
        /\ UNCHANGED <<to_server, to_client, serving, call, cancelled, connections>>
    BY DEF Takes, IInv, TypeOK, callerVars, calleeVars, bridgeVars
  <1>2. /\ \A S : Has(commands', FromClients(S)) => Has(commands, FromClients(S))
        /\ \A S : Has(commands', Returned(S)) => Has(commands, Returned(S))
    <2>1. /\ Tail(commands) \in Seq(Command)
          /\ \A X : Has(Tail(commands), X) => Has(commands, X)
      BY <1>1, HasTail
    <2>2. CASE commands' = Tail(commands)
      BY <2>1, <2>2
    <2>3. ASSUME NEW x \in Command, commands' = Append(Tail(commands), x),
                 x.cmd = "NewRpc"
          PROVE  <1>2!:
      <3>1. \A X : Has(commands', X) => Has(commands, X) \/ x \in X
        BY <2>1, <2>3, HasAppend
      <3> QED
        BY <2>3, <3>1, CommandKinds
    <2> QED
      BY <2>2, <2>3
  <1>3. /\ \A i \in ClientId : \A S : InServer(i, S)' <=> InServer(i, S)
        /\ \A i \in ClientId : \A S : InClient(i, S)' <=> InClient(i, S)
        /\ \A i \in ClientId : c \in serving'[i] <=> c \in serving[i]
        /\ CallerGone(c)' <=> CallerGone(c)
    BY <1>1 DEF InServer, InClient, CallerGone, Connected
  <1>4. Bounced(c)' => CallerGone(c)'
    BY <1>2, <1>3 DEF Bounced, Ledger
  <1>5. CASE UNCHANGED ipc_bridge_commands /\ UNCHANGED running_rpcs[c]
    <2>1. \A X : Has(ipc_bridge_commands', X) <=> Has(ipc_bridge_commands, X)
      BY <1>5
    <2>2. \A i \in ClientId : AtCallee(i, c)' <=> AtCallee(i, c)
      BY <1>3, <2>1 DEF AtCallee
    <2>3. /\ Unhandled(c)' => Unhandled(c)
          /\ Accepted(c)' => Accepted(c)
          /\ CancelSent(c)' => CancelSent(c)
      BY <1>2, <1>3, <2>1, <2>2 DEF Unhandled, Accepted, CancelSent
    <2> QED
      BY <1>1, <1>3, <1>4, <1>5, <2>2, <2>3, LedgerFrame
  <1>6. ASSUME NEW id \in ClientId, NEW m \in Message,
               ipc_bridge_commands' = Append(ipc_bridge_commands, SendData(id, m)),
               m \in CancelOf(c) => c \in cancelled,
               \/ UNCHANGED running_rpcs[c] /\ m \notin CallOf(c)
               \/ /\ k \in CommandsOf(C)
                  /\ m \in CallOf(c) =>
                        running_rpcs'[c] # None /\ running_rpcs'[c].callee = id
        PROVE  Ledger(c)'
    <2>1. \A i \in ClientId : \A S :
             Has(ipc_bridge_commands', ForClient(i, S))
                <=> Has(ipc_bridge_commands, ForClient(i, S)) \/ (i = id /\ m \in S)
      <3>1. /\ SendData(id, m) \in BridgeCommand
            /\ \A i, S : SendData(id, m) \in ForClient(i, S) <=> i = id /\ m \in S
        BY CommandFacts, CommandKinds
      <3>2. \A X : Has(ipc_bridge_commands', X)
                      <=> Has(ipc_bridge_commands, X) \/ SendData(id, m) \in X
        BY <1>1, <1>6, <3>1, HasAppend
      <3> QED
        BY <3>1, <3>2
    <2>2. \A i \in ClientId : AtCallee(i, c)' <=>
             AtCallee(i, c) \/ (i = id /\ m \in CallOf(c))
      BY <1>3, <2>1 DEF AtCallee
    <2>3. Unhandled(c)' => Unhandled(c)
      BY <1>2, <1>3 DEF Unhandled
    <2>4. CancelSent(c)' => CancelSent(c) \/ c \in cancelled'
      BY <1>1, <1>2, <1>3, <1>6, <2>1 DEF CancelSent
    <2>5. CASE UNCHANGED running_rpcs[c] /\ m \notin CallOf(c)
      <3>1. Accepted(c)' => Accepted(c)
        BY <1>2, <1>3, <2>2, <2>5 DEF Accepted
      <3> QED
        BY <1>1, <1>3, <1>4, <2>2, <2>3, <2>4, <2>5, <3>1, LedgerFrame
    <2>6. CASE /\ k \in CommandsOf(C)
               /\ m \in CallOf(c) =>
                     running_rpcs'[c] # None /\ running_rpcs'[c].callee = id
      <3>1. /\ InCommands(C) /\ ~InCommands(SaidOf(c))'
        <4>1. \/ commands' = Tail(commands)
              \/ \E i \in ClientId, n \in Functions, p \in Priorities :
                    commands' = Append(Tail(commands), NewRpc(i, n, p))
          BY DEF Command, NewRpc
        <4>2. TypeOK /\ NoneBehind(commands, CommandsOf(C), CommandsOf(SaidOf(c)))
          BY DEF IInv, InOrder, CarrierIsLast
        <4> QED
          BY <1>1, <2>6, <4>1, <4>2, CommandTaken
      <3>2. ~InCommands(C)'
        BY <3>1, CarriersAreSaid
      <3>3. \A i \in ClientId : /\ ~InServer(i, C) /\ ~InClient(i, C) /\ ~InBridge(C)
                                /\ c \notin serving[i]
        BY <3>1, CarriersAreSaid DEF InOrder, OneCarrier
      <3>4. \A i \in ClientId : ~AtCallee(i, c)
        BY <3>3, CarriedWhere, HasMore DEF AtCallee, InClient, InBridge
      <3>5. \A i \in ClientId : ~InServer(i, CallOf(c))' /\ ~InServer(i, LastsOf(c))'
        <4>1. \A i \in ClientId : ~InServer(i, CallOf(c)) /\ ~InServer(i, LastsOf(c))
          BY <3>3, CarriedWhere, HasMore DEF InServer
        <4> QED
          BY <1>3, <4>1
      <3>6. /\ ~Has(commands', FromClients(CallOf(c)))
            /\ ~Has(commands', FromClients(LastsOf(c)))
            /\ ~Has(commands', Returned(CallOf(c)))
        BY <3>2, CarriedWhere, HasMore DEF InCommands
      <3>7. ~Unhandled(c)'
        BY <3>5, <3>6 DEF Unhandled
      <3>8. Accepted(c)' => m \in CallOf(c)
        BY <2>2, <3>4, <3>5, <3>6 DEF Accepted
      <3> QED
        BY <1>1, <1>4, <2>2, <2>4, <2>6, <3>4, <3>7, <3>8 DEF Ledger
    <2> QED
      BY <1>6, <2>5, <2>6
  <1> QED
    BY <1>5, <1>6

(***************************************************************************)
(* A caller that has gone does not come back.                              *)
(***************************************************************************)
LEMMA CallerStaysGone ==
  ASSUME IInv, Departures, [Next]_vars, NEW c \in Contexts, CallerGone(c)
  PROVE  CallerGone(c)'
  <1>1. /\ call \in [Contexts -> Call \cup {None}] /\ call[c] # None
        /\ call[c].caller \in ClientId
    BY CallFacts DEF CallerGone, IInv, TypeOK
  <1>2. Gone(call[c].caller)
    BY <1>1 DEF CallerGone, Gone, Departures
  <1>3. call'[c] = call[c]
    BY <1>1, CallChange DEF NewContext
  <1>4. PICK id \in ClientId : id = call[c].caller
    BY <1>1
  <1>5. Gone(id)'
    BY <1>2, <1>4, GoneStays
  <1> QED
    BY <1>1, <1>3, <1>4, <1>5 DEF Gone, CallerGone, Connected

(***************************************************************************)
(* The command that swiboe takes.                                          *)
(***************************************************************************)
LEMMA HeadCommand ==
  ASSUME IInv, NEW tag, Takes(tag)
  PROVE  /\ Head(commands) \in Command /\ Head(commands).cmd = tag
         /\ Head(commands).client \in ClientId
         /\ \A X : Head(commands) \in X => Has(commands, X)
         /\ tag \in {"FromClient", "SendDataFailed"} =>
               /\ Head(commands).message \in Message
               /\ Head(commands).message.context \in Contexts
               /\ call[Head(commands).message.context] # None
         /\ tag = "FromClient" => \A S :
               /\ Head(commands) \in CommandsOf(S) <=> Head(commands).message \in S
               /\ Head(commands) \in FromClients(S) <=> Head(commands).message \in S
         /\ tag = "SendDataFailed" => \A S :
               Head(commands) \in Returned(S) <=> Head(commands).message \in S
  <1>1. /\ Head(commands) \in Command /\ Head(commands).cmd = tag
        /\ Head(commands).client \in ClientId /\ Attributed(Head(commands))
    BY TakesFacts
  <1>2. \A X : Head(commands) \in X => Has(commands, X)
    BY HasTail DEF Takes, IInv, TypeOK
  <1>3. tag \in {"FromClient", "SendDataFailed"} =>
               /\ Head(commands).message \in Message
               /\ Head(commands).message.context \in Contexts
               /\ call[Head(commands).message.context] # None
    BY <1>1, CommandFacts, MessageFacts DEF Attributed, FromOwner, ForOwner
  <1>4. /\ tag = "FromClient" => \A S :
               /\ Head(commands) \in CommandsOf(S) <=> Head(commands).message \in S
               /\ Head(commands) \in FromClients(S) <=> Head(commands).message \in S
        /\ tag = "SendDataFailed" => \A S :
               Head(commands) \in Returned(S) <=> Head(commands).message \in S
    BY <1>1, CommandsOfFacts DEF FromClients, Returned
  <1> QED
    BY <1>1, <1>2, <1>3, <1>4

(***************************************************************************)
(* on_rpc_response keeps the ledger: a call goes to the client that        *)
(* becomes the callee, a last response ends the call.                      *)
(***************************************************************************)
LEMMA ResponseLedger ==
  ASSUME IInv, NEW c \in Contexts, InOrder(c), Ledger(c),
         NEW tag, Takes(tag), commands' = Tail(commands),
         NEW d \in Contexts, NEW kind \in Kinds, on_rpc_response(d, kind),
         d = c /\ kind # "Partial" => Head(commands) \in CommandsOf(CarriersOf(c))
  PROVE  Ledger(c)'
  <1>1. running_rpcs \in [Contexts -> RunningRpc \cup {None}]
    BY DEF IInv, TypeOK
  <1>2. CASE UNCHANGED <<running_rpcs, unasked, ipc_bridge_commands>>
    BY <1>2, HandlerLedger
  <1>3. CASE /\ running_rpcs[d] # None
             /\ ipc_bridge_commands' =
                  Append(ipc_bridge_commands,
                         SendData(running_rpcs[d].caller, RpcResponse(d, kind)))
             /\ kind \in {"Done", "UnknownRpc"} =>
                  running_rpcs' = [running_rpcs EXCEPT ![d] = None]
             /\ kind \notin {"Done", "UnknownRpc"} => UNCHANGED running_rpcs
    <2>1. /\ running_rpcs[d].caller \in ClientId
          /\ RpcResponse(d, kind) \in Message
          /\ RpcResponse(d, kind) \notin CallOf(c)
          /\ RpcResponse(d, kind) \notin CancelOf(c)
      BY <1>1, <1>3, MessageFacts, KindFacts DEF RunningRpc
    <2>2. \/ UNCHANGED running_rpcs[c]
          \/ d = c /\ kind # "Partial"
      BY <1>1, <1>3
    <2> QED
      BY <1>3, <2>1, <2>2, HandlerLedger
  <1>4. ASSUME NEW info \in ApiInfo, kind = "NotHandled", running_rpcs[d] # None,
               running_rpcs' = [running_rpcs EXCEPT ![d] =
                                  WithCallee(running_rpcs[d], info)],
               ipc_bridge_commands' =
                  Append(ipc_bridge_commands, SendData(info.client_id, RpcCall(d)))
        PROVE  Ledger(c)'
    <2>1. /\ info.client_id \in ClientId /\ RpcCall(d) \in Message
          /\ RpcCall(d) \notin CancelOf(c)
          /\ RpcCall(d) \in CallOf(c) <=> d = c
      BY MessageFacts, KindFacts DEF ApiInfo
    <2>2. CASE d # c
      <3>1. UNCHANGED running_rpcs[c]
        BY <1>1, <1>4, <2>2
      <3> QED
        BY <1>4, <2>1, <2>2, <3>1, HandlerLedger
    <2>3. CASE d = c
      <3>1. running_rpcs'[c] # None /\ running_rpcs'[c].callee = info.client_id
        <4>1. running_rpcs[c] \in RunningRpc
          BY <1>1, <1>4, <2>3
        <4>2. /\ WithCallee(running_rpcs[c], info) \in RunningRpc
              /\ WithCallee(running_rpcs[c], info).callee = info.client_id
          BY <2>1, <4>1 DEF WithCallee, RunningRpc
        <4> QED
          BY <1>1, <1>4, <2>3, <4>2, NoneAssumption
      <3> QED
        BY <1>4, <2>1, <2>3, <3>1, HandlerLedger
    <2> QED
      BY <2>2, <2>3
  <1> QED
    BY <1>2, <1>3, <1>4, Forwarded

(***************************************************************************)
(* Every handler of swiboe keeps the ledger.                               *)
(***************************************************************************)
LEMMA HandleLedger ==
  ASSUME IInv, Departures, NEW c \in Contexts, InOrder(c), Ledger(c), handle
  PROVE  Ledger(c)'
  <1> DEFINE k == Head(commands)
             m == k.message
             C == CarriersOf(c)
  <1>1. CASE HandleNewRpc \/ HandleClientConnected
    <2>1. /\ commands' = Tail(commands)
          /\ UNCHANGED <<ipc_bridge_commands, running_rpcs>>
          /\ Takes("NewRpc") \/ Takes("ClientConnected")
      BY <1>1 DEF HandleNewRpc, HandleClientConnected
    <2> QED
      BY <2>1, HandlerLedger
  <1>2. CASE HandleClientDisconnected
    <2> DEFINE id == k.client
    <2>1. /\ Takes("ClientDisconnected") /\ commands' = Tail(commands)
          /\ UNCHANGED ipc_bridge_commands
          /\ running_rpcs' = [x \in Contexts |->
               IF running_rpcs[x] # None /\ running_rpcs[x].caller = id
               THEN None ELSE running_rpcs[x]]
      BY <1>2 DEF HandleClientDisconnected
    <2>2. CASE running_rpcs'[c] = running_rpcs[c]
      BY <2>1, <2>2, HandlerLedger
    <2>3. CASE running_rpcs'[c] # running_rpcs[c]
      <3>1. /\ running_rpcs'[c] = None /\ running_rpcs[c] # None
            /\ running_rpcs[c].caller = id
        BY <2>1, <2>3
      <3>2. Gone(id)
        <4>1. k \in Command /\ k.cmd = "ClientDisconnected" /\ id \in ClientId
              /\ \A X : k \in X => Has(commands, X)
          BY <2>1, HeadCommand
        <4>2. k = ClientDisconnected(id)
          BY <4>1 DEF Command, ClientDisconnected
        <4> QED
          BY <4>1, <4>2 DEF Departures
      <3>3. CallerGone(c)
        BY <3>1, <3>2 DEF CallerGone, Gone, IInv, Routing
      <3>4. /\ call' = call /\ connections' = connections /\ cancelled' = cancelled
            /\ UNCHANGED <<to_server, to_client, serving>>
            /\ commands \in Seq(Command) /\ commands # <<>>
        BY <2>1 DEF Takes, bridgeVars, callerVars, calleeVars, IInv, TypeOK
      <3>5. CallerGone(c)'
        BY <3>3, <3>4 DEF CallerGone, Connected
      <3>6. \A X : Has(commands', X) => Has(commands, X)
        BY <2>1, <3>4, HasTail
      <3>7. CancelSent(c)' => CancelSent(c)
        BY <2>1, <3>4, <3>6 DEF CancelSent, InServer, InClient
      <3> QED
        BY <3>1, <3>4, <3>5, <3>7 DEF Ledger
    <2> QED
      BY <2>2, <2>3
  <1>3. CASE HandleCoreCall
    <2> DEFINE reply == RpcResponse(m.context, "Done")
               x == call[m.context]
               new == NewRpc(k.client, x.function, x.priority)
    <2>1. /\ Takes("FromClient") /\ x.core
          /\ commands' = Append(Tail(commands), new)
          /\ ipc_bridge_commands' =
                Append(ipc_bridge_commands, SendData(k.client, reply))
          /\ UNCHANGED running_rpcs
      BY <1>3 DEF HandleCoreCall, swiboeVars
    <2>2. /\ m.context \in Contexts /\ k.client \in ClientId /\ x # None
          /\ x \in Call \cup {None}
      BY <2>1, HeadCommand DEF IInv, TypeOK
    <2>3. new \in Command /\ new.cmd = "NewRpc"
      BY <2>1, <2>2, CallFacts, CommandFacts DEF NewRpc
    <2>4. reply \in Message /\ reply \notin CallOf(c) /\ reply \notin CancelOf(c)
      BY <2>2, KindFacts, MessageFacts DEF Kinds, LastKinds
    <2> HIDE DEF k, m, reply, x, new
    <2> QED
      BY <2>1, <2>2, <2>3, <2>4, HandlerLedger DEF k
  <1>4. CASE HandleRpcCall
    <2> DEFINE name == call[m.context].function
    <2>1. /\ Takes("FromClient") /\ m.tag = "RpcCall"
          /\ commands' = Tail(commands)
      BY <1>4 DEF HandleRpcCall
    <2>2. /\ m \in Message /\ m.context \in Contexts /\ k.client \in ClientId
          /\ call[m.context] # None
          /\ \A S : k \in CommandsOf(S) <=> m \in S
      BY <2>1, HeadCommand
    <2>3. CASE get_first(api_table, name) = {}
      <3> DEFINE reply == RpcResponse(m.context, "UnknownRpc")
      <3>1. /\ ipc_bridge_commands' =
                  Append(ipc_bridge_commands, SendData(k.client, reply))
            /\ UNCHANGED running_rpcs
        BY <1>4, <2>3 DEF HandleRpcCall
      <3>2. reply \in Message /\ reply \notin CallOf(c) /\ reply \notin CancelOf(c)
        BY <2>2, KindFacts, MessageFacts DEF Kinds, LastKinds
      <3> HIDE DEF k, m, reply
      <3> QED
        BY <2>1, <2>2, <3>1, <3>2, HandlerLedger DEF k
    <2>4. CASE get_first(api_table, name) # {}
      <3>1. PICK info \in get_first(api_table, name) :
              /\ running_rpcs' = [running_rpcs EXCEPT ![m.context] =
                       [caller |-> k.client, callee |-> info.client_id]]
              /\ ipc_bridge_commands' =
                  Append(ipc_bridge_commands, SendData(info.client_id, m))
        BY <1>4, <2>4 DEF HandleRpcCall
      <3>2. info.client_id \in ClientId
        <4>1. /\ call[m.context] \in Call \cup {None}
              /\ api_table \in [Functions -> Seq(ApiInfo)]
          BY <2>2 DEF IInv, TypeOK
        <4>2. get_first(api_table, name) \subseteq ApiInfo
          BY <2>2, <4>1, CallFacts, GetFirstType
        <4> QED
          BY <3>1, <4>2 DEF ApiInfo
      <3>3. /\ m \in CallOf(c) <=> m.context = c
            /\ m \notin CancelOf(c)
            /\ m \in CallOf(c) => m \in C
        BY <2>1, <2>2, KindFacts
      <3>4. running_rpcs \in [Contexts -> RunningRpc \cup {None}]
        BY DEF IInv, TypeOK
      <3>5. CASE m.context # c
        <4>1. UNCHANGED running_rpcs[c]
          BY <3>1, <3>4, <3>5
        <4> HIDE DEF k, m
        <4> QED
          BY <2>1, <2>2, <3>1, <3>2, <3>3, <3>5, <4>1, HandlerLedger DEF k
      <3>6. CASE m.context = c
        <4>1. /\ running_rpcs'[c] = [caller |-> k.client, callee |-> info.client_id]
              /\ running_rpcs'[c] \in RunningRpc
          BY <2>2, <3>1, <3>2, <3>4, <3>6 DEF RunningRpc
        <4>2. running_rpcs'[c] # None /\ running_rpcs'[c].callee = info.client_id
          BY <4>1, NoneAssumption
        <4> HIDE DEF k, m
        <4> QED
          BY <2>1, <2>2, <3>1, <3>2, <3>3, <3>6, <4>2, HandlerLedger DEF k
      <3> QED
        BY <3>5, <3>6
    <2> QED
      BY <2>3, <2>4
  <1>5. CASE HandleRpcResponse
    <2>1. /\ Takes("FromClient") /\ m.tag = "RpcResponse"
          /\ commands' = Tail(commands)
          /\ on_rpc_response(m.context, m.kind)
      BY <1>5 DEF HandleRpcResponse
    <2>2. /\ m \in Message /\ m.context \in Contexts /\ m.kind \in Kinds
          /\ k \in CommandsOf(C) <=> m \in C
      BY <2>1, HeadCommand, MessageFacts
    <2>3. m.context = c /\ m.kind # "Partial" => k \in CommandsOf(C)
      BY <2>1, <2>2 DEF CarriersOf, Carries, Kinds
    <2> HIDE DEF k, m
    <2> QED
      BY <2>1, <2>2, <2>3, ResponseLedger DEF k
  <1>6. CASE HandleRpcCancel
    <2>1. /\ Takes("FromClient") /\ m.tag = "RpcCancel"
          /\ commands' = Tail(commands)
          /\ on_rpc_cancel(m.context)
      BY <1>6 DEF HandleRpcCancel
    <2>2. /\ m \in Message /\ m.context \in Contexts
          /\ \A S : m \in S => Has(commands, FromClients(S))
      BY <2>1, HeadCommand
    <2>3. /\ RpcCancel(m.context) \in Message
          /\ RpcCancel(m.context) \notin CallOf(c)
          /\ RpcCancel(m.context) \in CancelOf(c) => c \in cancelled
      BY <2>1, <2>2, KindFacts, MessageFacts DEF Ledger, CancelSent
    <2>4. UNCHANGED running_rpcs
      BY <2>1 DEF on_rpc_cancel
    <2>5. CASE running_rpcs[m.context] = None
      BY <2>1, <2>4, <2>5, HandlerLedger DEF on_rpc_cancel
    <2>6. CASE running_rpcs[m.context] # None
      <3>1. running_rpcs[m.context].callee \in ClientId
        BY <2>2, <2>6 DEF IInv, TypeOK, RunningRpc
      <3>2. ipc_bridge_commands' =
              Append(ipc_bridge_commands,
                     SendData(running_rpcs[m.context].callee, RpcCancel(m.context)))
        BY <2>1, <2>6 DEF on_rpc_cancel
      <3> HIDE DEF k, m
      <3> QED
        BY <2>1, <2>3, <2>4, <3>1, <3>2, HandlerLedger
    <2> QED
      BY <2>5, <2>6
  <1>7. CASE HandleSendDataFailed
    <2>1. /\ Takes("SendDataFailed") /\ commands' = Tail(commands)
          /\ \/ NeedsSurrogate(m) /\ on_rpc_response(m.context, "NotHandled")
             \/ UNCHANGED <<running_rpcs, ipc_bridge_commands>>
      BY <1>7 DEF HandleSendDataFailed
    <2>2. /\ m \in Message /\ m.context \in Contexts /\ "NotHandled" \in Kinds
          /\ k \in Command /\ k.cmd = "SendDataFailed"
      BY <2>1, HeadCommand DEF Kinds, LastKinds
    <2>3. CASE UNCHANGED <<running_rpcs, ipc_bridge_commands>>
      BY <2>1, <2>3, HandlerLedger
    <2>4. CASE NeedsSurrogate(m) /\ on_rpc_response(m.context, "NotHandled")
      <3>1. m.context = c => k \in CommandsOf(C)
        BY <2>2, <2>4, CommandsOfFacts DEF NeedsSurrogate, CarriersOf, Carries
      <3> HIDE DEF k, m
      <3> QED
        BY <2>1, <2>2, <2>4, <3>1, ResponseLedger DEF k
    <2> QED
      BY <2>1, <2>3, <2>4
  <1> QED
    BY <1>1, <1>2, <1>3, <1>4, <1>5, <1>6, <1>7 DEF handle

-----------------------------------------------------------------------------
(***************************************************************************)
(* A queue that has grown by one element.                                  *)
(***************************************************************************)
LEMMA CommandsWith ==
  ASSUME IInv, NEW k \in Command, commands' = Append(commands, k)
  PROVE  \A X : Has(commands', X) <=> Has(commands, X) \/ k \in X
  BY HasAppend DEF IInv, TypeOK

(***************************************************************************)
(* What the connection of id took from its socket, swiboe has in its       *)
(* queue: the ledger of a call does not see the difference.                *)
(***************************************************************************)
LEMMA ReadMessageLedger ==
  ASSUME IInv, NEW c \in Contexts, Ledger(c), CallerGone(c) => CallerGone(c)',
         NEW id \in ClientId, ReadMessage(id)
  PROVE  Ledger(c)'
  <1>1. /\ commands' = Append(commands, FromClient(id, Head(to_server[id])))
        /\ to_server[id] # <<>> /\ to_server[id] \in Seq(Message)
        /\ to_server'[id] = Tail(to_server[id])
        /\ \A i \in ClientId \ {id} : to_server'[i] = to_server[i]
        /\ UNCHANGED <<ipc_bridge_commands, to_client, serving, running_rpcs, cancelled>>
    BY DEF ReadMessage, IInv, TypeOK, swiboeVars, calleeVars, callerVars
  <1>2. PICK m \in Message :
          /\ m = Head(to_server[id])
          /\ \A S : InServer(id, S) <=> InServer(id, S)' \/ m \in S
    BY <1>1, HasTail DEF InServer
  <1>3. \A X : Has(commands', X) <=> Has(commands, X) \/ FromClient(id, m) \in X
    BY <1>1, <1>2, CommandsWith, CommandFacts
  <1>4. /\ \A S : Has(commands', FromClients(S)) <=>
                    Has(commands, FromClients(S)) \/ m \in S
        /\ \A S : Has(commands', Returned(S)) <=> Has(commands, Returned(S))
    BY <1>2, <1>3, CommandKinds
  <1>5. /\ \A i \in ClientId : \A S : InServer(i, S)' => InServer(i, S)
        /\ \A S : m \in S => InServer(id, S)
        /\ \A i \in ClientId : \A S : InClient(i, S)' <=> InClient(i, S)
    BY <1>1, <1>2 DEF InServer, InClient
  <1>6. \A i \in ClientId : AtCallee(i, c)' <=> AtCallee(i, c)
    BY <1>1, <1>5 DEF AtCallee
  <1>7. /\ Unhandled(c)' => Unhandled(c)
        /\ Accepted(c)' => Accepted(c)
        /\ Bounced(c)' => Bounced(c)
        /\ CancelSent(c)' => CancelSent(c)
    BY <1>1, <1>4, <1>5, <1>6 DEF Unhandled, Accepted, Bounced, CancelSent
  <1> QED
    BY <1>1, <1>6, <1>7, LedgerFrame

(***************************************************************************)
(* The end of a connection takes messages away and adds none.              *)
(***************************************************************************)
LEMMA HupLedger ==
  ASSUME IInv, NEW c \in Contexts, Ledger(c), CallerGone(c) => CallerGone(c)',
         NEW id \in ClientId, Hup(id)
  PROVE  Ledger(c)'
  <1>1. PICK n \in 0 .. Len(to_server[id]) :
           to_server' = [to_server EXCEPT ![id] = SubSeq(@, 1, n)]
    BY DEF Hup
  <1>2. /\ commands' = Append(commands, ClientDisconnected(id))
        /\ to_client' = [to_client EXCEPT ![id] = <<>>]
        /\ serving' = [serving EXCEPT ![id] = {}]
        /\ UNCHANGED <<ipc_bridge_commands, running_rpcs, cancelled>>
    BY DEF Hup, ReportHup, swiboeVars, callerVars
  <1>3. /\ to_server \in [ClientId -> Seq(Message)]
        /\ to_client \in [ClientId -> Seq(Message)]
        /\ serving \in [ClientId -> SUBSET Contexts]
    BY DEF IInv, TypeOK
  <1>4. \A i \in ClientId : \A S : InServer(i, S)' => InServer(i, S)
    <2>1. /\ to_server[id] \in Seq(Message)
          /\ to_server'[id] = SubSeq(to_server[id], 1, n)
          /\ \A i \in ClientId \ {id} : to_server'[i] = to_server[i]
      BY <1>1, <1>3
    <2>2. \A S : Has(to_server'[id], S) => Has(to_server[id], S)
      BY <2>1, HasPrefix
    <2> QED
      BY <2>1, <2>2 DEF InServer
  <1>5. \A i \in ClientId : \A S : InClient(i, S)' => InClient(i, S)
    <2>1. to_client'[id] = <<>> /\ \A i \in ClientId \ {id} : to_client'[i] = to_client[i]
      BY <1>2, <1>3
    <2> QED
      BY <2>1, HasNone DEF InClient
  <1>6. \A i \in ClientId : c \in serving'[i] => c \in serving[i]
    BY <1>2, <1>3
  <1>7. /\ \A S : Has(commands', FromClients(S)) <=> Has(commands, FromClients(S))
        /\ \A S : Has(commands', Returned(S)) <=> Has(commands, Returned(S))
    <2>1. /\ ClientDisconnected(id) \in Command
          /\ ClientDisconnected(id).cmd = "ClientDisconnected"
      BY CommandFacts DEF ClientDisconnected
    <2>2. \A X : Has(commands', X) <=> Has(commands, X) \/ ClientDisconnected(id) \in X
      BY <1>2, <2>1, CommandsWith
    <2> QED
      BY <2>1, <2>2, CommandKinds
  <1>8. \A i \in ClientId : AtCallee(i, c)' => AtCallee(i, c)
    BY <1>2, <1>5, <1>6 DEF AtCallee
  <1>9. /\ Unhandled(c)' => Unhandled(c)
        /\ Accepted(c)' => Accepted(c)
        /\ Bounced(c)' => Bounced(c)
        /\ CancelSent(c)' => CancelSent(c)
    BY <1>2, <1>4, <1>5, <1>7, <1>8 DEF Unhandled, Accepted, Bounced, CancelSent
  <1> QED
    BY <1>2, <1>8, <1>9, LedgerFrame

(***************************************************************************)
(* notify() gives a call to the client that the bridge command is for or   *)
(* back to swiboe; an answer it gives back was for a caller that is gone.  *)
(***************************************************************************)
LEMMA NotifyLedger ==
  ASSUME IInv, NEW c \in Contexts, Ledger(c), CallerGone(c) => CallerGone(c)', notify
  PROVE  Ledger(c)'
  <1>1. /\ ipc_bridge_commands # <<>>
        /\ ipc_bridge_commands \in Seq(BridgeCommand)
        /\ ipc_bridge_commands' = Tail(ipc_bridge_commands)
        /\ UNCHANGED <<to_server, serving, running_rpcs, cancelled, call, connections>>
        /\ to_client \in [ClientId -> Seq(Message)]
    BY DEF IInv, TypeOK, notify, callerVars, calleeVars, swiboeVars, bridgeVars
  <1>2. PICK id \in ClientId, m \in Message :
          /\ id = Head(ipc_bridge_commands).receiver
          /\ m = Head(ipc_bridge_commands).message
          /\ ForOwner(m, id)
          /\ \A i \in ClientId : \A S :
                Has(ipc_bridge_commands, ForClient(i, S)) <=>
                   \/ Has(ipc_bridge_commands', ForClient(i, S))
                   \/ i = id /\ m \in S
    <2>1. /\ Head(ipc_bridge_commands) \in BridgeCommand
          /\ Head(ipc_bridge_commands) \in Range(ipc_bridge_commands)
          /\ \A X : Has(ipc_bridge_commands, X)
                <=> Has(ipc_bridge_commands', X) \/ Head(ipc_bridge_commands) \in X
      BY <1>1, HasTail, TailFacts
    <2>2. /\ Head(ipc_bridge_commands).receiver \in ClientId
          /\ Head(ipc_bridge_commands).message \in Message
          /\ ForOwner(Head(ipc_bridge_commands).message,
                      Head(ipc_bridge_commands).receiver)
      BY <2>1, CommandFacts DEF IInv, Routing
    <2>3. \A i, S : Head(ipc_bridge_commands) \in ForClient(i, S) <=>
             /\ i = Head(ipc_bridge_commands).receiver
             /\ Head(ipc_bridge_commands).message \in S
      BY <2>1 DEF ForClient
    <2> QED
      BY <2>1, <2>2, <2>3
  <1>3. \/ /\ to_client' = [to_client EXCEPT ![id] = Append(@, m)]
           /\ UNCHANGED commands
        \/ /\ commands' = Append(commands, SendDataFailed(id, m))
           /\ UNCHANGED to_client
           /\ ~Connected(id)
    BY <1>2 DEF notify, IsReceiver, Connected
  <1>4. \A i \in ClientId : \A S : InServer(i, S)' <=> InServer(i, S)
    BY <1>1 DEF InServer
  <1>5. CASE /\ to_client' = [to_client EXCEPT ![id] = Append(@, m)]
             /\ UNCHANGED commands
    <2>1. \A i \in ClientId : \A S :
             InClient(i, S)' <=> InClient(i, S) \/ (i = id /\ m \in S)
      <3>1. /\ to_client[id] \in Seq(Message)
            /\ to_client'[id] = Append(to_client[id], m)
            /\ \A i \in ClientId \ {id} : to_client'[i] = to_client[i]
        BY <1>1, <1>2, <1>5
      <3>2. \A S : Has(to_client'[id], S) <=> Has(to_client[id], S) \/ m \in S
        BY <1>2, <3>1, HasAppend
      <3> QED
        BY <3>1, <3>2 DEF InClient
    <2>2. \A i \in ClientId : AtCallee(i, c)' => AtCallee(i, c)
      BY <1>1, <1>2, <2>1 DEF AtCallee
    <2>3. /\ Unhandled(c)' => Unhandled(c)
          /\ Accepted(c)' => Accepted(c)
          /\ Bounced(c)' => Bounced(c)
          /\ CancelSent(c)' => CancelSent(c)
      BY <1>2, <1>4, <1>5, <2>1, <2>2 DEF Unhandled, Accepted, Bounced, CancelSent
    <2> QED
      BY <1>1, <2>2, <2>3, LedgerFrame
  <1>6. CASE /\ commands' = Append(commands, SendDataFailed(id, m))
             /\ UNCHANGED to_client
             /\ ~Connected(id)
    <2>1. /\ \A S : Has(commands', FromClients(S)) <=> Has(commands, FromClients(S))
          /\ \A S : Has(commands', Returned(S)) <=> Has(commands, Returned(S)) \/ m \in S
      <3>1. \A X : Has(commands', X) <=> Has(commands, X) \/ SendDataFailed(id, m) \in X
        BY <1>2, <1>6, CommandsWith, CommandFacts
      <3> QED
        BY <1>2, <3>1, CommandKinds
    <2>2. \A i \in ClientId : \A S : InClient(i, S)' <=> InClient(i, S)
      BY <1>6 DEF InClient
    <2>3. \A i \in ClientId : AtCallee(i, c)' => AtCallee(i, c)
      BY <1>1, <1>2, <2>2 DEF AtCallee
    <2>4. m \in CallOf(c) => AtCallee(id, c)
      BY <1>2 DEF AtCallee
    <2>5. m \in LastsOf(c) => CallerGone(c)'
      <3>1. m \in LastsOf(c) => m.tag = "RpcResponse" /\ m.context = c
        BY <1>2, KindFacts
      <3> QED
        BY <1>1, <1>2, <1>6, <3>1 DEF ForOwner, CallerGone, Connected
    <2>6. /\ Unhandled(c)' => Unhandled(c)
          /\ Accepted(c)' => Accepted(c)
          /\ Bounced(c)' => Bounced(c) \/ CallerGone(c)'
          /\ CancelSent(c)' => CancelSent(c)
      BY <1>2, <1>4, <2>1, <2>2, <2>3, <2>4, <2>5
         DEF Unhandled, Accepted, Bounced, CancelSent
    <2> QED
      BY <1>1, <2>3, <2>6, LedgerFrame
  <1> QED
    BY <1>3, <1>5, <1>6

(***************************************************************************)
(* A new connection adds a command that is about no call.                  *)
(***************************************************************************)
LEMMA NewClientLedger ==
  ASSUME IInv, NEW c \in Contexts, Ledger(c), CallerGone(c) => CallerGone(c)',
         NEW token \in Tokens, new_client(token)
  PROVE  Ledger(c)'
  <1> DEFINE id == [serial |-> next_serial, token |-> token]
  <1>1. /\ commands' = Append(commands, ClientConnected(id))
        /\ UNCHANGED <<ipc_bridge_commands, to_server, to_client, serving,
                       running_rpcs, cancelled>>
    BY DEF new_client, swiboeVars, callerVars, calleeVars
  <1>2. id \in ClientId
    BY BoundsAssumption DEF IInv, TypeOK, new_client, ClientId
  <1>3. /\ \A S : Has(commands', FromClients(S)) <=> Has(commands, FromClients(S))
        /\ \A S : Has(commands', Returned(S)) <=> Has(commands, Returned(S))
    <2>1. /\ ClientConnected(id) \in Command
          /\ ClientConnected(id).cmd = "ClientConnected"
      BY <1>2, CommandFacts DEF ClientConnected
    <2> HIDE DEF id
    <2>2. \A X : Has(commands', X) <=> Has(commands, X) \/ ClientConnected(id) \in X
      BY <1>1, <2>1, CommandsWith
    <2> QED
      BY <2>1, <2>2, CommandKinds
  <1>4. /\ \A i \in ClientId : \A S : InServer(i, S)' <=> InServer(i, S)
        /\ \A i \in ClientId : \A S : InClient(i, S)' <=> InClient(i, S)
    BY <1>1 DEF InServer, InClient
  <1>5. \A i \in ClientId : AtCallee(i, c)' <=> AtCallee(i, c)
    BY <1>1, <1>4 DEF AtCallee
  <1>6. /\ Unhandled(c)' => Unhandled(c)
        /\ Accepted(c)' => Accepted(c)
        /\ Bounced(c)' => Bounced(c)
        /\ CancelSent(c)' => CancelSent(c)
    BY <1>1, <1>3, <1>4, <1>5 DEF Unhandled, Accepted, Bounced, CancelSent
  <1> QED
    BY <1>1, <1>5, <1>6, LedgerFrame

(***************************************************************************)
(* What a client says: a message to the server, and perhaps a cancelled    *)
(* or a finished call.                                                     *)
(***************************************************************************)
LEMMA SendLedger ==
  ASSUME IInv, NEW c \in Contexts, Ledger(c), CallerGone(c) => CallerGone(c)',
         NEW id \in ClientId, NEW m \in Message, Send(id, m),
         UNCHANGED <<commands, ipc_bridge_commands, to_client, running_rpcs>>,
         \A i \in ClientId : c \in serving'[i] => c \in serving[i],
         c \in cancelled => c \in cancelled',
         m \in CallOf(c) => running_rpcs[c] = None,
         m \in LastsOf(c) => c \in serving[id],
         m \in CancelOf(c) => c \in cancelled'
  PROVE  Ledger(c)'
  <1>1. /\ \A S : InServer(id, S)' <=> InServer(id, S) \/ m \in S
        /\ \A i \in ClientId \ {id} : \A S : InServer(i, S)' <=> InServer(i, S)
    BY SocketGrows DEF IInv
  <1>2. \A i \in ClientId : \A S : InClient(i, S)' <=> InClient(i, S)
    BY DEF InClient
  <1>3. /\ \A S : Has(commands', FromClients(S)) <=> Has(commands, FromClients(S))
        /\ \A S : Has(commands', Returned(S)) <=> Has(commands, Returned(S))
    OBVIOUS
  <1>4. \A i \in ClientId : AtCallee(i, c)' => AtCallee(i, c)
    BY <1>2 DEF AtCallee
  <1>5. Unhandled(c)' => Unhandled(c) \/ running_rpcs[c] = None
    BY <1>1, <1>3 DEF Unhandled
  <1>6. Accepted(c)' => Accepted(c)
    <2>1. c \in serving[id] => AtCallee(id, c)
      BY DEF AtCallee
    <2> QED
      BY <1>1, <1>3, <1>4, <2>1 DEF Accepted
  <1>7. Bounced(c)' => Bounced(c)
    BY <1>3 DEF Bounced
  <1>8. CancelSent(c)' => CancelSent(c) \/ c \in cancelled'
    BY <1>1, <1>2, <1>3 DEF CancelSent
  <1> QED
    BY <1>4, <1>5, <1>6, <1>7, <1>8, LedgerFrame

(***************************************************************************)
(* A call is made under a uuid that nothing runs under; cancels come from  *)
(* callers that have cancelled; only a client that serves a call answers   *)
(* it.                                                                     *)
(***************************************************************************)
LEMMA ClientLedger ==
  ASSUME IInv, NEW c \in Contexts, Ledger(c), CallerGone(c) => CallerGone(c)',
         NEW id \in ClientId, NEW context \in Contexts,
         \/ \E new \in Call : NewContext(id, context, new)
         \/ Cancel(id, context)
         \/ update(id, context)
         \/ \E kind \in {"Done", "NotHandled"} : finish(id, context, kind)
  PROVE  Ledger(c)'
  <1>1. ASSUME NEW new \in Call, NewContext(id, context, new)
        PROVE  Ledger(c)'
    <2>1. /\ Send(id, RpcCall(context)) /\ call[context] = None
          /\ UNCHANGED <<commands, ipc_bridge_commands, to_client, running_rpcs,
                         serving, cancelled>>
      BY <1>1 DEF NewContext, swiboeVars, calleeVars
    <2>2. /\ RpcCall(context) \in Message
          /\ RpcCall(context) \in CallOf(c) => running_rpcs[c] = None
          /\ RpcCall(context) \notin LastsOf(c)
          /\ RpcCall(context) \notin CancelOf(c)
      BY <2>1, KindFacts, MessageFacts DEF IInv, Routing
    <2> QED
      BY <2>1, <2>2, SendLedger
  <1>2. CASE Cancel(id, context)
    <2>1. /\ Send(id, RpcCancel(context))
          /\ cancelled' = cancelled \cup {context}
          /\ UNCHANGED <<commands, ipc_bridge_commands, to_client, running_rpcs,
                         serving>>
      BY <1>2 DEF Cancel, swiboeVars, calleeVars
    <2>2. /\ RpcCancel(context) \in Message
          /\ RpcCancel(context) \notin CallOf(c)
          /\ RpcCancel(context) \notin LastsOf(c)
          /\ RpcCancel(context) \in CancelOf(c) => c \in cancelled'
      BY <2>1, KindFacts, MessageFacts
    <2> QED
      BY <2>1, <2>2, SendLedger
  <1>3. CASE update(id, context)
    <2>1. /\ Send(id, RpcResponse(context, "Partial"))
          /\ UNCHANGED <<commands, ipc_bridge_commands, to_client, running_rpcs,
                         serving, cancelled>>
      BY <1>3 DEF update, swiboeVars, callerVars
    <2>2. /\ RpcResponse(context, "Partial") \in Message
          /\ RpcResponse(context, "Partial") \notin CallOf(c)
          /\ RpcResponse(context, "Partial") \notin LastsOf(c)
          /\ RpcResponse(context, "Partial") \notin CancelOf(c)
      BY KindFacts, MessageFacts DEF Kinds, LastKinds
    <2> QED
      BY <2>1, <2>2, SendLedger
  <1>4. ASSUME NEW kind \in {"Done", "NotHandled"}, finish(id, context, kind)
        PROVE  Ledger(c)'
    <2>1. /\ Send(id, RpcResponse(context, kind))
          /\ context \in serving[id]
          /\ serving' = [serving EXCEPT ![id] = @ \ {context}]
          /\ serving \in [ClientId -> SUBSET Contexts]
          /\ UNCHANGED <<commands, ipc_bridge_commands, to_client, running_rpcs,
                         cancelled>>
      BY <1>4 DEF finish, Finished, swiboeVars, callerVars, IInv, TypeOK
    <2>2. /\ RpcResponse(context, kind) \in Message
          /\ RpcResponse(context, kind) \notin CallOf(c)
          /\ RpcResponse(context, kind) \in LastsOf(c) => c \in serving[id]
          /\ RpcResponse(context, kind) \notin CancelOf(c)
      BY <2>1, KindFacts, MessageFacts DEF Kinds, LastKinds
    <2>3. \A i \in ClientId : c \in serving'[i] => c \in serving[i]
      BY <2>1
    <2> QED
      BY <2>1, <2>2, <2>3, SendLedger
  <1> QED
    BY <1>1, <1>2, <1>3, <1>4

(***************************************************************************)
(* A call that a client receives was on its way to this client.            *)
(***************************************************************************)
LEMMA ReceiveLedger ==
  ASSUME IInv, NEW c \in Contexts, InOrder(c), Ledger(c),
         CallerGone(c) => CallerGone(c)', NEW id \in ClientId, Receive(id)
  PROVE  Ledger(c)'
  <1>1. PICK tag : Receives(id, tag)
    BY DEF Receive, ReceiveCall, ReceiveResponse, ReceiveCancel
  <1>2. PICK m \in Message :
           /\ m = Head(to_client[id]) /\ m.tag = tag
           /\ \A S : InClient(id, S) <=> InClient(id, S)' \/ m \in S
           /\ \A i \in ClientId \ {id} : \A S : InClient(i, S)' <=> InClient(i, S)
    BY <1>1, Received
  <1>3. /\ UNCHANGED <<commands, ipc_bridge_commands, to_server, running_rpcs, cancelled>>
        /\ serving \in [ClientId -> SUBSET Contexts]
    BY <1>1 DEF Receives, IInv, TypeOK, swiboeVars
  <1>4. \A i \in ClientId : c \in serving'[i] =>
           c \in serving[i] \/ (i = id /\ m \in CallOf(c))
    <2>1. CASE ReceiveCall(id)
      <3>1. /\ m.tag = "RpcCall"
            /\ \/ UNCHANGED serving
               \/ serving' = [serving EXCEPT ![id] = @ \cup {m.context}]
        BY <1>2, <2>1 DEF ReceiveCall, Receives
      <3> QED
        BY <1>2, <1>3, <3>1, KindFacts
    <2>2. CASE ReceiveResponse(id)
      BY <2>2 DEF ReceiveResponse
    <2>3. CASE ReceiveCancel(id)
      BY <1>3, <2>3 DEF ReceiveCancel
    <2> QED
      BY <2>1, <2>2, <2>3 DEF Receive
  <1>5. /\ \A i \in ClientId : \A S : InServer(i, S)' <=> InServer(i, S)
        /\ \A i \in ClientId : \A S : InClient(i, S)' => InClient(i, S)
        /\ \A S : m \in S => InClient(id, S)
    BY <1>2, <1>3 DEF InServer
  <1>6. \A i \in ClientId : AtCallee(i, c)' => AtCallee(i, c)
    BY <1>3, <1>4, <1>5 DEF AtCallee
  <1>7. /\ Unhandled(c)' => Unhandled(c)
        /\ Accepted(c)' => Accepted(c)
        /\ Bounced(c)' => Bounced(c)
        /\ CancelSent(c)' => CancelSent(c)
    BY <1>3, <1>5, <1>6 DEF Unhandled, Accepted, Bounced, CancelSent
  <1> QED
    BY <1>3, <1>6, <1>7, LedgerFrame

(***************************************************************************)
(* Whatever does not touch queues, calls and contexts keeps the ledger.    *)
(***************************************************************************)
LEMMA QuietLedger ==
  ASSUME NEW c \in Contexts, Ledger(c), CallerGone(c) => CallerGone(c)',
         UNCHANGED <<commands, ipc_bridge_commands, to_server, to_client,
                     serving, running_rpcs, cancelled>>
  PROVE  Ledger(c)'
  <1>1. \A i \in ClientId : AtCallee(i, c)' <=> AtCallee(i, c)
    BY DEF AtCallee, InClient
  <1>2. /\ Unhandled(c)' => Unhandled(c)
        /\ Accepted(c)' => Accepted(c)
        /\ Bounced(c)' => Bounced(c)
        /\ CancelSent(c)' => CancelSent(c)
    BY <1>1 DEF Unhandled, Accepted, Bounced, CancelSent, InServer, InClient
  <1> QED
    BY <1>1, <1>2, LedgerFrame

(***************************************************************************)
(* Every step keeps the ledger of a call.                                  *)
(***************************************************************************)
LEMMA NextLedger ==
  ASSUME IInv, Departures, NEW c \in Contexts, InOrder(c), Ledger(c), [Next]_vars
  PROVE  Ledger(c)'
  <1>0. CallerGone(c) => CallerGone(c)'
    BY CallerStaysGone
  <1>1. CASE handle
    BY <1>1, HandleLedger
  <1>2. CASE notify
    BY <1>0, <1>2, NotifyLedger
  <1>3. CASE \E t \in Tokens : new_client(t)
    BY <1>0, <1>3, NewClientLedger
  <1>4. ASSUME NEW id \in ClientId, ReadMessage(id) \/ Hup(id)
        PROVE  Ledger(c)'
    BY <1>0, <1>4, ReadMessageLedger, HupLedger
  <1>5. ASSUME NEW id \in ClientId, ClientStep(id)
        PROVE  Ledger(c)'
    <2>1. CASE Receive(id)
      BY <1>0, <2>1, ReceiveLedger
    <2>2. ASSUME NEW context \in Contexts, NEW name \in Functions,
                 \/ CallRpc(id, context, name)
                 \/ \E p \in Priorities : RequestNewRpc(id, context, name, p)
          PROVE  \E new \in Call : NewContext(id, context, new)
      BY <2>2 DEF CallRpc, RequestNewRpc, Call
    <2>3. ASSUME NEW context \in Contexts, InstallRpc(id, context)
          PROVE  Ledger(c)'
      BY <1>0, <2>3, QuietLedger DEF InstallRpc, callerVars, swiboeVars
    <2> QED
      BY <1>0, <1>5, <2>1, <2>2, <2>3, ClientLedger DEF ClientStep
  <1>6. CASE UNCHANGED vars
    BY <1>0, <1>6, QuietLedger DEF vars, callerVars, calleeVars, swiboeVars
  <1> QED
    BY <1>1, <1>2, <1>3, <1>4, <1>5, <1>6 DEF Next

(***************************************************************************)
(* The inductive invariant of a call's life.                               *)
(***************************************************************************)
CInv == AllInOrder /\ Departures /\ \A c \in Contexts : Ledger(c)

(***************************************************************************)
(* In the beginning all ledgers are empty.                                 *)
(***************************************************************************)
LEMMA InitLedger == Init => CInv
  <1> SUFFICES ASSUME Init PROVE CInv
    OBVIOUS
  <1>1. AllInOrder
    BY InitOrder
  <1>2. Departures
    BY HasNone DEF Init, ServerInit, ClientInit, Departures
  <1>3. ASSUME NEW c \in Contexts PROVE Ledger(c)
    <2>1. /\ commands = <<>> /\ ipc_bridge_commands = <<>> /\ running_rpcs[c] = None
          /\ \A i \in ClientId : to_server[i] = <<>> /\ to_client[i] = <<>>
                                   /\ serving[i] = {}
      BY DEF Init, ServerInit, ClientInit
    <2>2. /\ \A X : ~Has(commands, X) /\ ~Has(ipc_bridge_commands, X)
          /\ \A i \in ClientId : \A S : ~InServer(i, S) /\ ~InClient(i, S)
      BY <2>1, HasNone DEF InServer, InClient
    <2> QED
      BY <2>1, <2>2 DEF Ledger, Unhandled, Accepted, Bounced, CancelSent, AtCallee
  <1> QED
    BY <1>1, <1>2, <1>3 DEF CInv

(***************************************************************************)
(* For every call: only the callee in running_rpcs has it, swiboe has an   *)
(* entry for it exactly between its arrival and its answer (or the caller  *)
(* is gone), and only a caller that has cancelled sends a cancel.          *)
(***************************************************************************)
THEOREM LedgersBalance == Spec => []CInv
  <1>1. ASSUME IInv, CInv, [Next]_vars
        PROVE  CInv'
    BY <1>1, NextOrder, NextDepartures, NextLedger DEF CInv, AllInOrder
  <1> QED
    BY <1>1, InitLedger, Invariance, PTL DEF Spec

(***************************************************************************)
(* While a call runs, only the client that running_rpcs calls its callee   *)
(* works on it.                                                            *)
(***************************************************************************)
THEOREM OnlyTheCalleeServes == Spec => []ServedByCallee
  <1>1. IInv /\ CInv => ServedByCallee
    BY DEF CInv, Ledger, AtCallee, ServedByCallee, IInv, TypeOK
  <1> QED
    BY <1>1, LedgersBalance, Invariance, PTL

-----------------------------------------------------------------------------
(***************************************************************************)
(* The call or its last response is in a queue that leads on, or with a    *)
(* client that works on it.                                                *)
(***************************************************************************)
Carried(c) ==
  \/ InCommands(CarriersOf(c)) \/ InBridge(CarriersOf(c))
  \/ \E id \in ClientId :
       \/ c \in serving[id]
       \/ InServer(id, CarriersOf(c)) \/ InClient(id, CarriersOf(c))

(***************************************************************************)
(* A call that was made is carried, answered or abandoned.                 *)
(***************************************************************************)
Kept(c) == call[c] # None => Carried(c) \/ Answered(c) \/ Abandoned(c)

(***************************************************************************)
(* What is answered stays answered and what is abandoned stays abandoned.  *)
(***************************************************************************)
LEMMA AnsweredStays ==
  ASSUME IInv, [Next]_vars, NEW c \in Contexts, Answered(c)
  PROVE  Answered(c)'
  <1>1. CASE UNCHANGED responses
    BY <1>1 DEF Answered
  <1>2. ASSUME NEW id \in ClientId, ReceiveResponse(id)
        PROVE  Answered(c)'
    <2> DEFINE m == Head(to_client[id])
    <2>1. /\ m \in Message /\ m.tag = "RpcResponse" /\ m.context \in Contexts
          /\ m.kind \in Kinds
          /\ \/ UNCHANGED responses
             \/ responses' = [responses EXCEPT ![m.context] = Append(@, m.kind)]
          /\ responses \in [Contexts -> Seq(Kinds)]
      BY <1>2, ReceivesFacts, MessageFacts DEF ReceiveResponse, Receives, IInv, TypeOK
    <2> HIDE DEF m
    <2>2. Range(responses[c]) \subseteq Range(responses'[c])
      <3>1. responses[c] \in Seq(Kinds)
        BY <2>1
      <3>2. \/ responses'[c] = responses[c]
            \/ responses'[c] = Append(responses[c], m.kind)
        BY <2>1
      <3>3. m.kind \in Kinds
        BY <2>1
      <3>4. Range(Append(responses[c], m.kind)) = Range(responses[c]) \cup {m.kind}
        BY <3>1, <3>3, AppendFacts
      <3> QED
        BY <3>2, <3>4
    <2> QED
      BY <2>2 DEF Answered
  <1>3. ASSUME handle PROVE UNCHANGED responses
    BY <1>3 DEF handle, HandleNewRpc, HandleCoreCall, HandleRpcCall,
         HandleRpcResponse, HandleRpcCancel, HandleSendDataFailed,
         HandleClientConnected, HandleClientDisconnected, Takes, callerVars
  <1>4. ASSUME NEW id \in ClientId, ClientStep(id)
        PROVE  UNCHANGED responses \/ ReceiveResponse(id)
    BY <1>4 DEF ClientStep, Receive, ReceiveCall, ReceiveCancel, CallRpc,
         RequestNewRpc, NewContext, InstallRpc, Cancel, update, finish, callerVars
  <1> QED
    BY <1>1, <1>2, <1>3, <1>4
       DEF Next, notify, new_client, ReadMessage, Hup, callerVars, vars

(***************************************************************************)
(* What is abandoned stays abandoned.                                      *)
(***************************************************************************)
LEMMA AbandonedStays ==
  ASSUME IInv, Departures, [Next]_vars, NEW c \in Contexts, Abandoned(c)
  PROVE  Abandoned(c)'
  <1>1. /\ cancelled \subseteq cancelled' /\ dropped \subseteq dropped'
        /\ lost \subseteq lost'
    <2>1. CASE handle
      BY <2>1 DEF handle, HandleNewRpc, HandleCoreCall, HandleRpcCall,
         HandleRpcResponse, HandleRpcCancel, HandleSendDataFailed,
         HandleClientConnected, HandleClientDisconnected, Takes, callerVars,
         calleeVars
    <2>2. ASSUME NEW id \in ClientId, ClientStep(id)
          PROVE  <1>1!:
      <3>1. CASE Receive(id)
        BY <3>1 DEF Receive, ReceiveCall, ReceiveResponse, ReceiveCancel, Receives
      <3>2. CASE ~Receive(id)
        BY <2>2, <3>2 DEF ClientStep, CallRpc, RequestNewRpc, NewContext,
           InstallRpc, Cancel, update, finish, callerVars, calleeVars
      <3> QED
        BY <3>1, <3>2
    <2> QED
      BY <2>1, <2>2 DEF Next, notify, new_client, ReadMessage, Hup, callerVars,
         calleeVars, vars
  <1> QED
    BY <1>1, CallerStaysGone DEF Abandoned

(***************************************************************************)
(* A handler that has put the call or its answer into the bridge's queue,  *)
(* if its command held one, has lost nothing.                              *)
(***************************************************************************)
LEMMA HandlerKeeps ==
  ASSUME IInv, NEW c \in Contexts, Carried(c), NEW tag, Takes(tag),
         \/ commands' = Tail(commands)
         \/ \E k \in Command : commands' = Append(Tail(commands), k),
         \/ UNCHANGED ipc_bridge_commands
         \/ \E id \in ClientId, m \in Message :
              ipc_bridge_commands' = Append(ipc_bridge_commands, SendData(id, m)),
         Head(commands) \in CommandsOf(CarriersOf(c)) => InBridge(CarriersOf(c))'
  PROVE  Carried(c)'
  <1> DEFINE C == CarriersOf(c)
             X == CommandsOf(C)
  <1>1. /\ commands \in Seq(Command) /\ commands # <<>> /\ TypeOK
        /\ UNCHANGED <<to_server, to_client, serving>>
    BY DEF Takes, IInv, TypeOK, calleeVars
  <1>2. Has(commands, X) => Has(commands', X) \/ Head(commands) \in X
    <2>1. /\ Tail(commands) \in Seq(Command)
          /\ Has(commands, X) <=> Has(Tail(commands), X) \/ Head(commands) \in X
      BY <1>1, HasTail
    <2>2. ASSUME NEW k \in Command, commands' = Append(Tail(commands), k)
          PROVE  Has(commands', X) <=> Has(Tail(commands), X) \/ k \in X
      BY <2>1, <2>2, HasAppend
    <2> QED
      BY <2>1, <2>2
  <1>3. InBridge(C) => InBridge(C)'
    <2>1. ASSUME NEW id \in ClientId, NEW m \in Message,
                 ipc_bridge_commands' = Append(ipc_bridge_commands, SendData(id, m))
          PROVE  InBridge(C)' <=> InBridge(C) \/ m \in C
      BY <1>1, <2>1, BridgeGrows
    <2>2. UNCHANGED ipc_bridge_commands => (InBridge(C)' <=> InBridge(C))
      BY DEF InBridge
    <2> QED
      BY <2>1, <2>2
  <1>4. \A i \in ClientId :
           /\ InServer(i, C)' <=> InServer(i, C)
           /\ InClient(i, C)' <=> InClient(i, C)
    BY <1>1 DEF InServer, InClient
  <1> QED
    BY <1>1, <1>2, <1>3, <1>4 DEF Carried, InCommands

(***************************************************************************)
(* on_rpc_response passes an answer on or the call to the next handler;    *)
(* when it knows nothing of the call, the caller is gone.                  *)
(***************************************************************************)
LEMMA ResponseKeeps ==
  ASSUME IInv, NEW c \in Contexts, Ledger(c), Accepted(c),
         NEW kind \in LastKinds, on_rpc_response(c, kind)
  PROVE  InBridge(CarriersOf(c))' \/ CallerGone(c)
  <1>1. kind \in Kinds /\ TypeOK
    BY DEF Kinds, IInv
  <1>2. CASE running_rpcs[c] = None
    BY <1>2 DEF Ledger
  <1>3. CASE /\ running_rpcs[c] # None
             /\ ipc_bridge_commands' =
                  Append(ipc_bridge_commands,
                         SendData(running_rpcs[c].caller, RpcResponse(c, kind)))
    <2>1. /\ running_rpcs[c].caller \in ClientId
          /\ RpcResponse(c, kind) \in Message
          /\ RpcResponse(c, kind) \in CarriersOf(c)
      BY <1>1, <1>3, MessageFacts, SetFacts DEF TypeOK, RunningRpc
    <2> QED
      BY <1>1, <1>3, <2>1, BridgeGrows
  <1>4. ASSUME NEW info \in ApiInfo,
               ipc_bridge_commands' =
                  Append(ipc_bridge_commands, SendData(info.client_id, RpcCall(c)))
        PROVE  InBridge(CarriersOf(c))'
    <2>1. /\ info.client_id \in ClientId /\ RpcCall(c) \in Message
          /\ RpcCall(c) \in CarriersOf(c)
      BY MessageFacts, SetFacts DEF ApiInfo
    <2> QED
      BY <1>1, <1>4, <2>1, BridgeGrows
  <1> QED
    BY <1>1, <1>2, <1>3, <1>4, Forwarded

(***************************************************************************)
(* Every handler of swiboe keeps the call, or its caller is gone.          *)
(***************************************************************************)
LEMMA HandleKeeps ==
  ASSUME IInv, NEW c \in Contexts, Ledger(c), Carried(c), handle
  PROVE  Carried(c)' \/ CallerGone(c)
  <1> DEFINE k == Head(commands)
             m == k.message
             C == CarriersOf(c)
  <1>0. TypeOK
    BY DEF IInv
  <1>1. CASE HandleNewRpc \/ HandleClientConnected \/ HandleClientDisconnected
    <2>1. PICK tag \in {"NewRpc", "ClientConnected", "ClientDisconnected"} :
            /\ Takes(tag) /\ commands' = Tail(commands)
            /\ UNCHANGED ipc_bridge_commands
      BY <1>1 DEF HandleNewRpc, HandleClientConnected, HandleClientDisconnected
    <2>2. k \notin CommandsOf(C)
      BY <2>1, HeadCommand, CommandsOfFacts
    <2> QED
      BY <2>1, <2>2, HandlerKeeps
  <1>2. CASE HandleCoreCall
    <2> DEFINE reply == RpcResponse(m.context, "Done")
    <2>1. /\ Takes("FromClient")
          /\ m.tag = "RpcCall" /\ call[m.context].core
          /\ commands' = Append(Tail(commands),
                NewRpc(k.client, call[m.context].function, call[m.context].priority))
          /\ ipc_bridge_commands' =
                Append(ipc_bridge_commands, SendData(k.client, reply))
      BY <1>2 DEF HandleCoreCall
    <2>2. /\ m \in Message /\ m.context \in Contexts /\ k.client \in ClientId
          /\ call[m.context] # None /\ call[m.context] \in Call \cup {None}
          /\ k \in CommandsOf(C) <=> m \in C
      BY <1>0, <2>1, HeadCommand DEF TypeOK
    <2>3. NewRpc(k.client, call[m.context].function, call[m.context].priority) \in Command
      BY <2>1, <2>2, CallFacts, CommandFacts
    <2>4. reply \in Message /\ (reply \in C <=> m.context = c)
      BY <2>2, MessageFacts, SetFacts DEF Kinds, LastKinds
    <2>5. k \in CommandsOf(C) => InBridge(C)'
      <3>1. k \in CommandsOf(C) => reply \in C
        BY <2>2, <2>4 DEF CarriersOf, Carries
      <3> HIDE DEF reply
      <3>2. InBridge(C)' <=> InBridge(C) \/ reply \in C
        BY <1>0, <2>1, <2>2, <2>4, BridgeGrows
      <3> QED
        BY <3>1, <3>2
    <2> HIDE DEF reply
    <2> QED
      BY <2>1, <2>2, <2>3, <2>4, <2>5, HandlerKeeps
  <1>3. CASE HandleRpcCall
    <2> DEFINE first == get_first(api_table, call[m.context].function)
               unknown == RpcResponse(m.context, "UnknownRpc")
    <2>1. /\ Takes("FromClient") /\ m.tag = "RpcCall"
          /\ commands' = Tail(commands)
      BY <1>3 DEF HandleRpcCall
    <2>2. /\ m \in Message /\ m.context \in Contexts /\ k.client \in ClientId
          /\ call[m.context] # None /\ call[m.context] \in Call \cup {None}
          /\ k \in CommandsOf(C) <=> m \in C
      BY <1>0, <2>1, HeadCommand DEF TypeOK
    <2>3. /\ unknown \in Message
          /\ m \in C => unknown \in C
      BY <2>2, MessageFacts, SetFacts DEF Kinds, LastKinds, CarriersOf, Carries
    <2>4. first \subseteq ApiInfo
      <3>1. /\ call[m.context].function \in Functions
            /\ api_table \in [Functions -> Seq(ApiInfo)]
        BY <1>0, <2>2, CallFacts DEF TypeOK
      <3> QED
        BY <3>1, GetFirstType
    <2>5. PICK id \in ClientId, x \in {m, unknown} :
            ipc_bridge_commands' = Append(ipc_bridge_commands, SendData(id, x))
      <3>1. CASE first = {}
        BY <1>3, <2>2, <3>1 DEF HandleRpcCall
      <3>2. CASE first # {}
        <4>1. PICK info \in first :
                 ipc_bridge_commands' =
                    Append(ipc_bridge_commands, SendData(info.client_id, m))
          BY <1>3, <3>2 DEF HandleRpcCall
        <4> QED
          BY <2>4, <4>1 DEF ApiInfo
      <3> QED
        BY <3>1, <3>2
    <2>6. x \in Message /\ (m \in C => x \in C)
      BY <2>2, <2>3
    <2>7. InBridge(C)' <=> InBridge(C) \/ x \in C
      BY <1>0, <2>5, <2>6, BridgeGrows
    <2> QED
      BY <2>1, <2>2, <2>5, <2>6, <2>7, HandlerKeeps
  <1>4. CASE HandleRpcCancel
    <2>1. /\ Takes("FromClient") /\ m.tag = "RpcCancel"
          /\ commands' = Tail(commands) /\ on_rpc_cancel(m.context)
      BY <1>4 DEF HandleRpcCancel
    <2>2. /\ m \in Message /\ m.context \in Contexts
          /\ k \in CommandsOf(C) <=> m \in C
      BY <2>1, HeadCommand
    <2>3. k \notin CommandsOf(C)
      BY <2>1, <2>2, SetFacts
    <2>4. \/ UNCHANGED ipc_bridge_commands
          \/ \E id \in ClientId, x \in Message :
               ipc_bridge_commands' = Append(ipc_bridge_commands, SendData(id, x))
      <3>1. /\ RpcCancel(m.context) \in Message
            /\ running_rpcs[m.context] # None =>
                  running_rpcs[m.context].callee \in ClientId
        BY <1>0, <2>2, MessageFacts DEF TypeOK, RunningRpc
      <3> QED
        BY <2>1, <3>1 DEF on_rpc_cancel
    <2> QED
      BY <2>1, <2>3, <2>4, HandlerKeeps
  <1>5. ASSUME NEW tag \in {"FromClient", "SendDataFailed"}, Takes(tag),
               commands' = Tail(commands), NEW kind \in Kinds,
               m.context \in Contexts, on_rpc_response(m.context, kind),
               k \in CommandsOf(C) =>
                  m.context = c /\ kind \in LastKinds /\ Accepted(c)
        PROVE  Carried(c)' \/ CallerGone(c)
    <2>1. \/ UNCHANGED ipc_bridge_commands
          \/ \E id \in ClientId, x \in Message :
               ipc_bridge_commands' = Append(ipc_bridge_commands, SendData(id, x))
      BY <1>5, ResponseForwards
    <2>2. k \in CommandsOf(C) => InBridge(C)' \/ CallerGone(c)
      BY <1>5, ResponseKeeps
    <2> QED
      BY <1>5, <2>1, <2>2, HandlerKeeps
  <1>6. CASE HandleRpcResponse
    <2>1. /\ Takes("FromClient") /\ m.tag = "RpcResponse"
          /\ commands' = Tail(commands)
          /\ on_rpc_response(m.context, m.kind)
      BY <1>6 DEF HandleRpcResponse
    <2>2. /\ m \in Message /\ m.context \in Contexts /\ m.kind \in Kinds
          /\ k \in CommandsOf(C) <=> m \in C
          /\ \A S : m \in S => Has(commands, FromClients(S))
      BY <2>1, HeadCommand, MessageFacts
    <2>3. m \in C => m.context = c /\ m.kind \in LastKinds /\ Accepted(c)
      <3>1. m \in C => m \in LastsOf(c)
        BY <2>1, <2>2, KindFacts
      <3> QED
        BY <2>2, <3>1, KindFacts DEF Accepted
    <2> QED
      BY <1>5, <2>1, <2>2, <2>3
  <1>7. CASE HandleSendDataFailed
    <2>1. /\ Takes("SendDataFailed") /\ commands' = Tail(commands)
          /\ \/ NeedsSurrogate(m) /\ on_rpc_response(m.context, "NotHandled")
             \/ ~NeedsSurrogate(m) /\ UNCHANGED ipc_bridge_commands
      BY <1>7 DEF HandleSendDataFailed
    <2>2. /\ m \in Message /\ m.context \in Contexts /\ "NotHandled" \in Kinds
          /\ "NotHandled" \in LastKinds
          /\ k \in Command /\ k.cmd = "SendDataFailed"
          /\ \A S : m \in S => Has(commands, Returned(S))
      BY <2>1, HeadCommand DEF Kinds, LastKinds
    <2>3. k \in CommandsOf(C) <=> m \in C /\ NeedsSurrogate(m)
      BY <2>2, CommandsOfFacts
    <2>4. m \in C /\ NeedsSurrogate(m) => m.context = c /\ Accepted(c)
      <3>1. m \in C /\ NeedsSurrogate(m) => m \in CallOf(c) /\ m.context = c
        BY <2>2, KindFacts DEF NeedsSurrogate
      <3> QED
        BY <2>2, <3>1 DEF Accepted
    <2> QED
      BY <1>5, <2>1, <2>2, <2>3, <2>4, HandlerKeeps
  <1> QED
    BY <1>1, <1>2, <1>3, <1>4, <1>6, <1>7 DEF handle

(***************************************************************************)
(* The reader job takes a message from one queue to the next.              *)
(***************************************************************************)
LEMMA ReadMessageKeeps ==
  ASSUME IInv, NEW c \in Contexts, Carried(c), NEW id \in ClientId, ReadMessage(id)
  PROVE  Carried(c)'
  <1> DEFINE C == CarriersOf(c)
  <1>1. /\ commands' = Append(commands, FromClient(id, Head(to_server[id])))
        /\ to_server[id] # <<>> /\ to_server[id] \in Seq(Message)
        /\ to_server'[id] = Tail(to_server[id])
        /\ \A i \in ClientId \ {id} : to_server'[i] = to_server[i]
        /\ UNCHANGED <<ipc_bridge_commands, to_client, serving>>
    BY DEF ReadMessage, IInv, TypeOK, calleeVars
  <1>2. PICK m \in Message :
          /\ m = Head(to_server[id])
          /\ InServer(id, C) <=> InServer(id, C)' \/ m \in C
    BY <1>1, HasTail DEF InServer
  <1>3. InCommands(C)' <=> InCommands(C) \/ m \in C
    <2>1. /\ FromClient(id, m) \in Command
          /\ FromClient(id, m) \in CommandsOf(C) <=> m \in C
      BY <1>2, CommandFacts, CommandsOfFacts
    <2> QED
      BY <1>1, <1>2, <2>1, CommandsWith DEF InCommands
  <1>4. /\ InBridge(C)' <=> InBridge(C)
        /\ \A i \in ClientId : InClient(i, C)' <=> InClient(i, C)
        /\ \A i \in ClientId \ {id} : InServer(i, C)' <=> InServer(i, C)
    BY <1>1 DEF InBridge, InClient, InServer
  <1> QED
    BY <1>1, <1>2, <1>3, <1>4 DEF Carried

(***************************************************************************)
(* What goes with a connection was in one of its queues or with its        *)
(* client.                                                                 *)
(***************************************************************************)
LEMMA HupKeeps ==
  ASSUME IInv, NEW c \in Contexts, Carried(c), NEW id \in ClientId, Hup(id)
  PROVE  Carried(c)' \/ c \in lost'
  <1> DEFINE C == CarriersOf(c)
  <1>1. PICK n \in 0 .. Len(to_server[id]) :
           /\ to_server' = [to_server EXCEPT ![id] = SubSeq(@, 1, n)]
           /\ lost' = lost \cup serving[id]
                       \cup {x \in Contexts :
                              \/ \E m \in Range(to_client[id]) : Carries(m, x)
                              \/ \E i \in n + 1 .. Len(to_server[id]) :
                                    Carries(to_server[id][i], x)}
    BY DEF Hup
  <1>2. /\ commands' = Append(commands, ClientDisconnected(id))
        /\ to_client' = [to_client EXCEPT ![id] = <<>>]
        /\ serving' = [serving EXCEPT ![id] = {}]
        /\ UNCHANGED ipc_bridge_commands
    BY DEF Hup, ReportHup
  <1>3. /\ to_server \in [ClientId -> Seq(Message)]
        /\ to_client \in [ClientId -> Seq(Message)]
        /\ serving \in [ClientId -> SUBSET Contexts]
    BY DEF IInv, TypeOK
  <1>4. /\ InCommands(C)' <=> InCommands(C)
        /\ InBridge(C)' <=> InBridge(C)
    <2>1. ClientDisconnected(id) \in Command /\ ClientDisconnected(id) \notin CommandsOf(C)
      BY CommandFacts, CommandsOfFacts
    <2> QED
      BY <1>2, <2>1, CommandsWith DEF InCommands, InBridge
  <1>5. ASSUME NEW i \in ClientId \ {id}
        PROVE  /\ InServer(i, C)' <=> InServer(i, C)
               /\ InClient(i, C)' <=> InClient(i, C)
               /\ c \in serving'[i] <=> c \in serving[i]
    BY <1>1, <1>2, <1>3 DEF InServer, InClient
  <1>6. c \in serving[id] => c \in lost'
    BY <1>1
  <1>7. InClient(id, C) => c \in lost'
    <2>1. to_client[id] \in Seq(Message)
      BY <1>3
    <2>2. InClient(id, C) => \E m \in Range(to_client[id]) : Carries(m, c)
      BY <2>1, HasRange DEF InClient, CarriersOf
    <2> QED
      BY <1>1, <2>2
  <1>8. InServer(id, C) => InServer(id, C)' \/ c \in lost'
    <2>1. to_server[id] \in Seq(Message) /\ to_server'[id] = SubSeq(to_server[id], 1, n)
      BY <1>1, <1>3
    <2>2. Has(to_server[id], C) =>
             \/ Has(to_server'[id], C)
             \/ \E i \in n + 1 .. Len(to_server[id]) : to_server[id][i] \in C
      BY <2>1, HasPrefix
    <2> QED
      BY <1>1, <2>2 DEF InServer, CarriersOf
  <1> QED
    BY <1>4, <1>5, <1>6, <1>7, <1>8 DEF Carried

(***************************************************************************)
(* notify() delivers a call or has swiboe answer it; an answer that it     *)
(* cannot deliver was for a caller that is gone.                           *)
(***************************************************************************)
LEMMA NotifyKeeps ==
  ASSUME IInv, NEW c \in Contexts, Carried(c), notify
  PROVE  Carried(c)' \/ CallerGone(c)
  <1> DEFINE C == CarriersOf(c)
  <1>1. /\ ipc_bridge_commands # <<>>
        /\ ipc_bridge_commands \in Seq(BridgeCommand)
        /\ ipc_bridge_commands' = Tail(ipc_bridge_commands)
        /\ UNCHANGED <<to_server, serving, call, connections>>
        /\ commands \in Seq(Command)
        /\ to_client \in [ClientId -> Seq(Message)]
    BY DEF IInv, TypeOK, notify, callerVars, calleeVars, bridgeVars
  <1>2. PICK id \in ClientId, m \in Message :
          /\ id = Head(ipc_bridge_commands).receiver
          /\ m = Head(ipc_bridge_commands).message
          /\ ForOwner(m, id)
          /\ InBridge(C) <=> InBridge(C)' \/ m \in C
    <2>1. /\ Head(ipc_bridge_commands) \in BridgeCommand
          /\ Head(ipc_bridge_commands) \in Range(ipc_bridge_commands)
          /\ \A X : Has(ipc_bridge_commands, X)
                <=> Has(ipc_bridge_commands', X) \/ Head(ipc_bridge_commands) \in X
      BY <1>1, HasTail, TailFacts
    <2> QED
      BY <2>1, CommandsOfFacts, CommandFacts DEF IInv, Routing, InBridge
  <1>3. \A i \in ClientId : InServer(i, C)' <=> InServer(i, C)
    BY <1>1 DEF InServer
  <1>4. CASE /\ to_client' = [to_client EXCEPT ![id] = Append(@, m)]
             /\ UNCHANGED commands
    <2>1. \A i \in ClientId : InClient(i, C)' <=> InClient(i, C) \/ (i = id /\ m \in C)
      <3>1. /\ to_client[id] \in Seq(Message)
            /\ to_client'[id] = Append(to_client[id], m)
            /\ \A i \in ClientId \ {id} : to_client'[i] = to_client[i]
        BY <1>1, <1>2, <1>4
      <3>2. Has(to_client'[id], C) <=> Has(to_client[id], C) \/ m \in C
        BY <1>2, <3>1, HasAppend
      <3> QED
        BY <3>1, <3>2 DEF InClient
    <2>2. InCommands(C)' <=> InCommands(C)
      BY <1>4 DEF InCommands
    <2> QED
      BY <1>1, <1>2, <1>3, <2>1, <2>2 DEF Carried
  <1>5. CASE /\ commands' = Append(commands, SendDataFailed(id, m))
             /\ UNCHANGED to_client
             /\ ~Connected(id)
    <2>1. InCommands(C)' <=> InCommands(C) \/ (m \in C /\ NeedsSurrogate(m))
      <3>1. /\ SendDataFailed(id, m) \in Command
            /\ SendDataFailed(id, m) \in CommandsOf(C) <=> m \in C /\ NeedsSurrogate(m)
        BY <1>2, CommandFacts, CommandsOfFacts
      <3> QED
        BY <1>5, <3>1, CommandsWith DEF InCommands
    <2>2. \A i \in ClientId : InClient(i, C)' <=> InClient(i, C)
      BY <1>5 DEF InClient
    <2>3. m \in C => NeedsSurrogate(m) \/ CallerGone(c)
      <3>1. m \in C => \/ m.tag = "RpcCall"
                       \/ m.tag = "RpcResponse" /\ m.context = c
        BY <1>2, KindFacts
      <3> QED
        BY <1>2, <1>5, <3>1 DEF NeedsSurrogate, ForOwner, CallerGone
    <2> QED
      BY <1>1, <1>2, <1>3, <2>1, <2>2, <2>3 DEF Carried
  <1> QED
    BY <1>2, <1>4, <1>5 DEF notify, IsReceiver, Connected

(***************************************************************************)
(* What a client sends does not end what it has not finished.              *)
(***************************************************************************)
LEMMA SendKeeps ==
  ASSUME IInv, NEW c \in Contexts, NEW id \in ClientId, NEW m \in Message,
         Send(id, m), UNCHANGED <<commands, ipc_bridge_commands, to_client>>,
         \A i \in ClientId : c \in serving[i] =>
            c \in serving'[i] \/ m \in CarriersOf(c)
  PROVE  Carried(c) \/ m \in CarriersOf(c) => Carried(c)'
  <1>1. /\ \A S : InServer(id, S)' <=> InServer(id, S) \/ m \in S
        /\ \A i \in ClientId \ {id} : \A S : InServer(i, S)' <=> InServer(i, S)
    BY SocketGrows DEF IInv
  <1>2. /\ \A S : InCommands(S)' <=> InCommands(S)
        /\ \A S : InBridge(S)' <=> InBridge(S)
        /\ \A i \in ClientId : \A S : InClient(i, S)' <=> InClient(i, S)
    BY DEF InCommands, InBridge, InClient
  <1> QED
    BY <1>1, <1>2 DEF Carried

(***************************************************************************)
(* So does whatever a client says.                                         *)
(***************************************************************************)
LEMMA ClientKeeps ==
  ASSUME IInv, NEW c \in Contexts, Carried(c),
         NEW id \in ClientId, NEW context \in Contexts,
         \/ \E new \in Call : NewContext(id, context, new)
         \/ Cancel(id, context)
         \/ update(id, context)
         \/ \E kind \in {"Done", "NotHandled"} : finish(id, context, kind)
  PROVE  Carried(c)'
  <1>1. ASSUME NEW new \in Call, NewContext(id, context, new)
        PROVE  Carried(c)'
    BY <1>1, SendKeeps, MessageFacts DEF NewContext, calleeVars
  <1>2. CASE Cancel(id, context)
    BY <1>2, SendKeeps, MessageFacts DEF Cancel, calleeVars
  <1>3. CASE update(id, context)
    BY <1>3, SendKeeps, MessageFacts DEF update, Kinds
  <1>4. ASSUME NEW kind \in {"Done", "NotHandled"}, finish(id, context, kind)
        PROVE  Carried(c)'
    <2>1. /\ Send(id, RpcResponse(context, kind))
          /\ serving' = [serving EXCEPT ![id] = @ \ {context}]
          /\ serving \in [ClientId -> SUBSET Contexts]
          /\ UNCHANGED <<commands, ipc_bridge_commands, to_client>>
      BY <1>4 DEF finish, Finished, IInv, TypeOK
    <2>2. /\ RpcResponse(context, kind) \in Message
          /\ RpcResponse(context, kind) \in CarriersOf(c) <=> context = c
      BY MessageFacts, SetFacts DEF Kinds, LastKinds
    <2>3. \A i \in ClientId : c \in serving[i] => c \in serving'[i] \/ context = c
      BY <2>1
    <2> QED
      BY <2>1, <2>2, <2>3, SendKeeps
  <1> QED
    BY <1>1, <1>2, <1>3, <1>4

(***************************************************************************)
(* A client works on the call it receives, unless it does not know the     *)
(* function; a caller gets its answer, unless it has cancelled; a client   *)
(* stops working on a call only when the caller has cancelled it.          *)
(***************************************************************************)
LEMMA ReceiveKeeps ==
  ASSUME IInv, NEW c \in Contexts, InOrder(c), Ledger(c), Carried(c),
         NEW id \in ClientId, Receive(id)
  PROVE  Carried(c)' \/ Answered(c)' \/ Abandoned(c)'
  <1> DEFINE C == CarriersOf(c)
  <1>1. PICK tag : Receives(id, tag)
    BY DEF Receive, ReceiveCall, ReceiveResponse, ReceiveCancel
  <1>2. PICK m \in Message :
           /\ m = Head(to_client[id]) /\ m.tag = tag /\ m.context \in Contexts
           /\ \A S : InClient(id, S) <=> InClient(id, S)' \/ m \in S
           /\ \A i \in ClientId \ {id} : \A S : InClient(i, S)' <=> InClient(i, S)
    BY <1>1, Received
  <1>3. /\ UNCHANGED <<commands, ipc_bridge_commands, to_server, cancelled>>
        /\ serving \in [ClientId -> SUBSET Contexts]
        /\ responses \in [Contexts -> Seq(Kinds)]
    BY <1>1 DEF Receives, IInv, TypeOK
  <1>4. /\ InCommands(C)' <=> InCommands(C)
        /\ InBridge(C)' <=> InBridge(C)
        /\ \A i \in ClientId : InServer(i, C)' <=> InServer(i, C)
    BY <1>3 DEF InCommands, InBridge, InServer
  <1>5. CASE ReceiveCall(id)
    <2>1. /\ m.tag = "RpcCall"
          /\ \/ serving' = [serving EXCEPT ![id] = @ \cup {m.context}]
             \/ UNCHANGED serving /\ dropped' = dropped \cup {m.context}
      BY <1>2, <1>5 DEF ReceiveCall, Receives
    <2>2. \A i \in ClientId : c \in serving[i] => c \in serving'[i]
      BY <1>3, <2>1
    <2>3. m \in C => m.context = c
      BY DEF CarriersOf, Carries
    <2>4. m \in C => c \in serving'[id] \/ c \in dropped'
      BY <1>3, <2>1, <2>3
    <2> QED
      BY <1>2, <1>4, <2>2, <2>4 DEF Carried, Abandoned
  <1>6. CASE ReceiveResponse(id)
    <2>1. /\ m.tag = "RpcResponse" /\ m.kind \in Kinds /\ UNCHANGED serving
          /\ \/ m.context \in cancelled
             \/ responses' = [responses EXCEPT ![m.context] = Append(@, m.kind)]
      BY <1>2, <1>6, MessageFacts DEF ReceiveResponse, Receives
    <2>2. m \in C => m.context = c /\ m.kind \in LastKinds
      BY <2>1 DEF CarriersOf, Carries
    <2>3. m \in C => c \in cancelled' \/ Answered(c)'
      <3>1. ASSUME m \in C, responses' = [responses EXCEPT ![m.context] = Append(@, m.kind)]
            PROVE  Answered(c)'
        <4>1. responses[c] \in Seq(Kinds) /\ responses'[c] = Append(responses[c], m.kind)
          BY <1>3, <2>2, <3>1
        <4>2. Range(responses'[c]) = Range(responses[c]) \cup {m.kind}
          BY <2>1, <4>1, AppendFacts
        <4> QED
          BY <2>2, <3>1, <4>2 DEF Answered
      <3> QED
        BY <1>3, <2>1, <2>2, <3>1
    <2> QED
      BY <1>2, <1>4, <2>1, <2>3 DEF Carried, Abandoned
  <1>7. CASE ReceiveCancel(id)
    <2>1. /\ m.tag = "RpcCancel"
          /\ serving' = [serving EXCEPT ![id] = @ \ {m.context}]
      BY <1>2, <1>7 DEF ReceiveCancel, Receives
    <2>2. m \notin C
      BY <2>1 DEF CarriersOf, Carries
    <2>3. m.context = c => c \in cancelled'
      <3>1. m.context = c => InClient(id, CancelOf(c))
        BY <1>2, <2>1, KindFacts
      <3> QED
        BY <1>3, <3>1 DEF Ledger, CancelSent
    <2>4. \A i \in ClientId : c \in serving[i] => c \in serving'[i] \/ m.context = c
      BY <1>3, <2>1
    <2> QED
      BY <1>2, <1>4, <2>2, <2>3, <2>4 DEF Carried, Abandoned
  <1> QED
    BY <1>5, <1>6, <1>7 DEF Receive

(***************************************************************************)
(* A new connection adds a command and takes nothing away.                 *)
(***************************************************************************)
LEMMA QuietKeeps ==
  ASSUME NEW c \in Contexts, Carried(c),
         \E k \in Command : commands' = Append(commands, k),
         commands \in Seq(Command),
         UNCHANGED <<ipc_bridge_commands, to_server, to_client, serving>>
  PROVE  Carried(c)'
  BY HasAppend DEF Carried, InCommands, InBridge, InServer, InClient

(***************************************************************************)
(* Whatever leaves queues and contexts alone keeps the call.               *)
(***************************************************************************)
LEMMA StutterKeeps ==
  ASSUME NEW c \in Contexts, Carried(c),
         UNCHANGED <<commands, ipc_bridge_commands, to_server, to_client, serving>>
  PROVE  Carried(c)'
  BY DEF Carried, InCommands, InBridge, InServer, InClient

(***************************************************************************)
(* Every step keeps the call, answers it or finds it abandoned.            *)
(***************************************************************************)
LEMMA NextKeeps ==
  ASSUME IInv, CInv, NEW c \in Contexts, Kept(c), [Next]_vars
  PROVE  Kept(c)'
  <1>1. InOrder(c) /\ Ledger(c) /\ Departures
    BY DEF CInv, AllInOrder
  <1>2. CASE call[c] = None
    <2>1. CASE UNCHANGED call
      BY <1>2, <2>1 DEF Kept
    <2>2. ASSUME NEW id \in ClientId, NEW context \in Contexts, NEW new \in Call,
                 NewContext(id, context, new)
          PROVE  Kept(c)'
      <3>1. CASE context # c
        BY <1>2, <2>2, <3>1 DEF NewContext, Kept, IInv, TypeOK
      <3>2. CASE context = c
        <4>1. RpcCall(c) \in Message /\ RpcCall(c) \in CarriersOf(c)
          BY MessageFacts, SetFacts
        <4> QED
          BY <2>2, <3>2, <4>1, SendKeeps DEF NewContext, Kept, calleeVars
      <3> QED
        BY <3>1, <3>2
    <2> QED
      BY <2>1, <2>2, CallChange
  <1>3. CASE Answered(c) \/ Abandoned(c)
    BY <1>1, <1>3, AnsweredStays, AbandonedStays DEF Kept
  <1>4. CASE call[c] # None /\ Carried(c)
    <2>1. CallerGone(c) => Abandoned(c)'
      BY <1>1, AbandonedStays DEF Abandoned
    <2>2. CASE handle
      BY <1>1, <1>4, <2>1, <2>2, HandleKeeps DEF Kept
    <2>3. CASE notify
      BY <1>4, <2>1, <2>3, NotifyKeeps DEF Kept
    <2>4. ASSUME NEW t \in Tokens, new_client(t)
          PROVE  Kept(c)'
      <3> DEFINE id == [serial |-> next_serial, token |-> t]
      <3>1. id \in ClientId
        BY <2>4, BoundsAssumption DEF IInv, TypeOK, new_client, ClientId
      <3>2. ClientConnected(id) \in Command
        BY <3>1, CommandFacts
      <3>3. /\ commands' = Append(commands, ClientConnected(id))
            /\ UNCHANGED <<ipc_bridge_commands, to_server, to_client, serving>>
            /\ commands \in Seq(Command)
        BY <2>4 DEF new_client, calleeVars, IInv, TypeOK
      <3> QED
        BY <1>4, <3>2, <3>3, QuietKeeps DEF Kept
    <2>5. ASSUME NEW id \in ClientId, ReadMessage(id) \/ Hup(id)
          PROVE  Kept(c)'
      BY <1>4, <2>5, ReadMessageKeeps, HupKeeps DEF Kept, Abandoned
    <2>6. ASSUME NEW id \in ClientId, ClientStep(id)
          PROVE  Kept(c)'
      <3>1. CASE Receive(id)
        BY <1>1, <1>4, <3>1, ReceiveKeeps DEF Kept
      <3>2. ASSUME NEW context \in Contexts, NEW name \in Functions,
                   \/ CallRpc(id, context, name)
                   \/ \E p \in Priorities : RequestNewRpc(id, context, name, p)
            PROVE  \E new \in Call : NewContext(id, context, new)
        BY <3>2 DEF CallRpc, RequestNewRpc, Call
      <3>3. ASSUME NEW context \in Contexts, InstallRpc(id, context)
            PROVE  Kept(c)'
        BY <1>4, <3>3, StutterKeeps DEF InstallRpc, Kept
      <3> QED
        BY <1>4, <2>6, <3>1, <3>2, <3>3, ClientKeeps DEF ClientStep, Kept
    <2>7. CASE UNCHANGED vars
      BY <1>4, <2>7, StutterKeeps DEF vars, calleeVars, Kept
    <2> QED
      BY <2>2, <2>3, <2>4, <2>5, <2>6, <2>7 DEF Next
  <1> QED
    BY <1>2, <1>3, <1>4 DEF Kept

(***************************************************************************)
(* What is carried is in flight.                                           *)
(***************************************************************************)
LEMMA CarriedInFlight ==
  ASSUME IInv, NEW c \in Contexts, Carried(c)
  PROVE  InFlight(c)
  <1> DEFINE C == CarriersOf(c)
  <1>1. \A m \in C : Carries(m, c)
    BY DEF CarriersOf
  <1>2. ASSUME InCommands(C) PROVE InFlight(c)
    <2>1. PICK k \in Range(commands) : k \in CommandsOf(C)
      BY <1>2, HasRange DEF InCommands, IInv, TypeOK
    <2> QED
      BY <1>1, <2>1 DEF CommandsOf, InFlight
  <1>3. ASSUME InBridge(C) PROVE InFlight(c)
    <2>1. PICK b \in Range(ipc_bridge_commands) : b \in BridgeCommandsOf(C)
      BY <1>3, HasRange DEF InBridge, IInv, TypeOK
    <2> QED
      BY <1>1, <2>1 DEF BridgeCommandsOf, InFlight
  <1>4. ASSUME NEW id \in ClientId, InServer(id, C) \/ InClient(id, C)
        PROVE  InFlight(c)
    <2>1. to_server[id] \in Seq(Message) /\ to_client[id] \in Seq(Message)
      BY DEF IInv, TypeOK
    <2>2. PICK m \in Range(to_server[id]) \cup Range(to_client[id]) : m \in C
      BY <1>4, <2>1, HasRange DEF InServer, InClient
    <2> QED
      BY <1>1, <2>2 DEF InFlight
  <1> QED
    BY <1>2, <1>3, <1>4 DEF Carried, InFlight

(***************************************************************************)
(* No call gets lost between the threads: unless a client lets it down, an *)
(* unanswered call or its answer is in a queue or being worked on.         *)
(***************************************************************************)
THEOREM NoCallIsLost == Spec => []NoLostCall
  <1> DEFINE AllKept == \A c \in Contexts : Kept(c)
  <1>1. Init => AllKept
    <2> SUFFICES ASSUME Init, NEW c \in Contexts PROVE Kept(c)
      OBVIOUS
    <2>1. call[c] = None
      BY DEF Init, ClientInit
    <2> QED
      BY <2>1 DEF Kept
  <1>2. IInv /\ CInv /\ AllKept /\ [Next]_vars => AllKept'
    BY NextKeeps
  <1>3. IInv /\ AllKept => NoLostCall
    BY CarriedInFlight DEF Kept, NoLostCall
  <1> HIDE DEF AllKept
  <1> QED
    BY <1>1, <1>2, <1>3, Invariance, LedgersBalance, PTL DEF Spec

-----------------------------------------------------------------------------
(***************************************************************************)
(* Only four handlers touch running_rpcs, and only a call that swiboe does *)
(* not have yet or an answer changes who works on a call.                  *)
(***************************************************************************)
LEMMA RunningChange ==
  ASSUME IInv, [Next]_vars
  PROVE  \/ UNCHANGED <<running_rpcs, unasked>>
         \/ HandleRpcCall \/ HandleClientDisconnected
         \/ \E d \in Contexts, kind \in Kinds :
              /\ on_rpc_response(d, kind)
              /\ UNCHANGED <<api_table, call, connections>>
  <1>1. CASE HandleRpcResponse
    <2>1. /\ Takes("FromClient") /\ UNCHANGED api_table
          /\ Head(commands).message.tag = "RpcResponse"
          /\ on_rpc_response(Head(commands).message.context,
                             Head(commands).message.kind)
      BY <1>1 DEF HandleRpcResponse
    <2> QED
      BY <2>1, HeadCommand, MessageFacts DEF Takes, callerVars, bridgeVars
  <1>2. CASE HandleSendDataFailed
    <2>1. /\ Takes("SendDataFailed") /\ UNCHANGED api_table
          /\ \/ on_rpc_response(Head(commands).message.context, "NotHandled")
             \/ UNCHANGED <<running_rpcs, unasked>>
      BY <1>2 DEF HandleSendDataFailed
    <2> QED
      BY <2>1, HeadCommand DEF Takes, callerVars, bridgeVars, Kinds, LastKinds
  <1>3. CASE handle
    BY <1>1, <1>2, <1>3 DEF handle, HandleNewRpc, HandleCoreCall, HandleRpcCancel,
       on_rpc_cancel, HandleClientConnected, swiboeVars
  <1>4. ASSUME NEW id \in ClientId, ClientStep(id)
        PROVE  UNCHANGED <<running_rpcs, unasked>>
    <2>1. CASE Receive(id)
      BY <2>1 DEF Receive, ReceiveCall, ReceiveResponse, ReceiveCancel, Receives,
         swiboeVars
    <2>2. CASE ~Receive(id)
      BY <1>4, <2>2 DEF ClientStep, CallRpc, RequestNewRpc, NewContext, InstallRpc,
         Cancel, update, finish, swiboeVars
    <2> QED
      BY <2>1, <2>2
  <1> QED
    BY <1>3, <1>4 DEF Next, notify, new_client, ReadMessage, Hup, swiboeVars, vars

(***************************************************************************)
(* get_next goes from an entry of the client to the one behind it, which   *)
(* does not come before it in a sorted list.                               *)
(***************************************************************************)
LEMMA NextIsBehind ==
  ASSUME IInv, TableSorted, NEW name \in Functions, NEW id \in ClientId,
         NEW info \in get_next(api_table, name, id)
  PROVE  \E p \in PriorityOf(id, name), q \in PriorityOf(info.client_id, name) : p <= q
  <1> DEFINE infos == api_table[name]
  <1>1. /\ infos \in Seq(ApiInfo) /\ DOMAIN infos = 1 .. Len(infos)
        /\ Len(infos) \in Nat /\ name \in DOMAIN api_table
    BY DEF IInv, TypeOK
  <1>2. PICK i \in DOMAIN infos :
          /\ i < Len(infos) /\ infos[i].client_id = id /\ info = infos[i + 1]
    BY DEF get_next
  <1>3. i \in Nat /\ i + 1 \in DOMAIN infos /\ i < i + 1
    BY <1>1, <1>2
  <1>4. infos[i].priority <= infos[i + 1].priority
    BY <1>1, <1>2, <1>3 DEF TableSorted, Sorted
  <1>5. /\ infos[i].priority \in PriorityOf(id, name)
        /\ infos[i + 1].priority \in PriorityOf(info.client_id, name)
    BY <1>2, <1>3 DEF PriorityOf
  <1> QED
    BY <1>4, <1>5

(***************************************************************************)
(* A step that changes the callee takes the call to the next entry of the  *)
(* list.                                                                   *)
(***************************************************************************)
LEMMA StepMovesDown ==
  ASSUME IInv, TableSorted, [Next]_vars, NEW c \in Contexts, Ledger(c)
  PROVE  MovesDown(c)
  <1> DEFINE name == call[c].function
             old == running_rpcs[c]
             new == running_rpcs'[c]
  <1>1. /\ running_rpcs \in [Contexts -> RunningRpc \cup {None}]
        /\ call \in [Contexts -> Call \cup {None}]
    BY DEF IInv, TypeOK
  <1>2. CASE new = old \/ old = None \/ new = None
    BY <1>2 DEF MovesDown
  <1>3. ASSUME NEW d \in Contexts, NEW kind \in Kinds, on_rpc_response(d, kind),
               new # old, old # None, new # None
        PROVE  MovesDown(c)
    <2>1. PICK info \in get_next(api_table, call[d].function, running_rpcs[d].callee) :
            running_rpcs' = [running_rpcs EXCEPT ![d] = WithCallee(running_rpcs[d], info)]
      BY <1>1, <1>3, Forwarded
    <2>2. d = c /\ new = WithCallee(old, info)
      BY <1>1, <1>3, <2>1
    <2>3. old \in RunningRpc /\ old.callee \in ClientId
      BY <1>1, <1>3 DEF RunningRpc
    <2>4. new.callee = info.client_id
      BY <2>2, <2>3 DEF WithCallee, RunningRpc
    <2>5. name \in Functions
      BY <1>1, <1>3, CallFacts DEF IInv, Routing
    <2>6. info \in get_next(api_table, name, old.callee)
      BY <2>1, <2>2
    <2>7. \E p \in PriorityOf(old.callee, name), q \in PriorityOf(info.client_id, name) :
             p <= q
      BY <2>3, <2>5, <2>6, NextIsBehind
    <2> QED
      BY <2>4, <2>7 DEF MovesDown
  <1>4. CASE HandleRpcCall
    <2> DEFINE m == Head(commands).message
    <2>1. /\ Takes("FromClient") /\ m.tag = "RpcCall"
          /\ \/ UNCHANGED running_rpcs
             \/ \E r : running_rpcs' = [running_rpcs EXCEPT ![m.context] = r]
      BY <1>4 DEF HandleRpcCall
    <2>2. /\ m \in Message /\ m.context \in Contexts
          /\ \A S : m \in S => Has(commands, FromClients(S))
      BY <2>1, HeadCommand
    <2>3. m.context = c => old = None
      BY <2>1, <2>2, KindFacts DEF Ledger, Unhandled
    <2>4. new = old \/ old = None
      BY <1>1, <2>1, <2>3
    <2> QED
      BY <1>2, <2>4
  <1>5. CASE HandleClientDisconnected
    BY <1>2, <1>5 DEF HandleClientDisconnected
  <1> QED
    BY <1>2, <1>3, <1>4, <1>5, RunningChange

(***************************************************************************)
(* Layers are asked in ascending order of priority.                        *)
(***************************************************************************)
THEOREM LayersAreAskedInOrder == Spec => LayersInOrder
  <1>1. IInv /\ TableSorted /\ CInv /\ [Next]_vars
          => [\A c \in Contexts : MovesDown(c)]_running_rpcs
    BY StepMovesDown DEF CInv
  <1> QED
    BY <1>1, Invariance, TableStaysSorted, LedgersBalance, PTL
       DEF Spec, LayersInOrder

-----------------------------------------------------------------------------
(***************************************************************************)
(* f is the first entry of the client id.                                  *)
(***************************************************************************)
FirstOf(infos, id, f) ==
  /\ f \in DOMAIN infos /\ infos[f].client_id = id
  /\ \A j \in 1 .. f - 1 : infos[j].client_id # id

(***************************************************************************)
(* Everybody in the list has a first entry in it.                          *)
(***************************************************************************)
HasFirsts(infos) ==
  \A i \in DOMAIN infos : \E f \in 1 .. i : FirstOf(infos, infos[i].client_id, f)

(***************************************************************************)
(* Where insert puts what was at k.                                        *)
(***************************************************************************)
Moved(k, index) == IF k < index THEN k ELSE k + 1

(***************************************************************************)
(* insert puts the entry at index and moves what was behind it by one.     *)
(***************************************************************************)
LEMMA InsertMoves ==
  ASSUME NEW S, NEW infos \in Seq(S), NEW info \in S,
         NEW index \in 1 .. Len(infos) + 1
  PROVE  LET r == insert(infos, index, info) IN
         /\ DOMAIN r = 1 .. Len(infos) + 1
         /\ r[index] = info
         /\ \A k \in DOMAIN infos : /\ Moved(k, index) \in DOMAIN r
                                    /\ r[Moved(k, index)] = infos[k]
         /\ \A a, b \in DOMAIN infos : a < b => Moved(a, index) < Moved(b, index)
         /\ \A i \in DOMAIN r : i # index =>
               \E k \in DOMAIN infos : i = Moved(k, index)
  <1> DEFINE r == insert(infos, index, info)
  <1>1. /\ r = [k \in 1 .. Len(infos) + 1 |-> IF k < index THEN infos[k]
                                 ELSE IF k = index THEN info
                                 ELSE infos[k - 1]]
        /\ Len(infos) \in Nat /\ DOMAIN infos = 1 .. Len(infos)
        /\ index \in Nat /\ index >= 1 /\ index <= Len(infos) + 1
    BY DEF insert
  <1> HIDE DEF r
  <1>2. DOMAIN r = 1 .. Len(infos) + 1 /\ r[index] = info
    BY <1>1
  <1>3. ASSUME NEW k \in DOMAIN infos
        PROVE  Moved(k, index) \in DOMAIN r /\ r[Moved(k, index)] = infos[k]
    BY <1>1 DEF Moved
  <1>4. \A a, b \in DOMAIN infos : a < b => Moved(a, index) < Moved(b, index)
    BY <1>1 DEF Moved
  <1>5. ASSUME NEW i \in DOMAIN r, i # index
        PROVE  \E k \in DOMAIN infos : i = Moved(k, index)
    <2> DEFINE k == IF i < index THEN i ELSE i - 1
    <2>1. k \in DOMAIN infos /\ i = Moved(k, index)
      BY <1>1, <1>2, <1>5 DEF Moved
    <2> QED
      BY <2>1
  <1> QED
    BY <1>2, <1>3, <1>4, <1>5 DEF r

(***************************************************************************)
(* A list in which every client has a first entry keeps that.              *)
(***************************************************************************)
LEMMA InsertFirsts ==
  ASSUME NEW S, NEW infos \in Seq(S), NEW info \in S,
         NEW index \in 1 .. Len(infos) + 1, HasFirsts(infos)
  PROVE  HasFirsts(insert(infos, index, info))
  <1> DEFINE r == insert(infos, index, info)
  <1>1. /\ DOMAIN r = 1 .. Len(infos) + 1
        /\ r[index] = info
        /\ \A k \in DOMAIN infos : /\ Moved(k, index) \in DOMAIN r
                                   /\ r[Moved(k, index)] = infos[k]
        /\ \A i \in DOMAIN r : i # index =>
              \E k \in DOMAIN infos : i = Moved(k, index)
    BY InsertMoves
  <1>2. /\ Len(infos) \in Nat /\ DOMAIN infos = 1 .. Len(infos)
        /\ index \in Nat /\ index >= 1 /\ index <= Len(infos) + 1
    OBVIOUS
  <1> HIDE DEF r
  <1> SUFFICES ASSUME NEW i \in DOMAIN r
               PROVE  \E f \in 1 .. i : FirstOf(r, r[i].client_id, f)
    BY DEF HasFirsts, r
  <1> DEFINE id == r[i].client_id
  <1>3. ASSUME NEW k \in DOMAIN infos, infos[k].client_id = id,
               \/ id # info.client_id /\ Moved(k, index) <= i
               \/ k < index /\ k <= i
        PROVE  \E f \in 1 .. i : FirstOf(r, id, f)
    <2>1. PICK f \in 1 .. k : FirstOf(infos, id, f)
      BY <1>3 DEF HasFirsts
    <2> DEFINE g == Moved(f, index)
    <2>2. g \in 1 .. i /\ g \in DOMAIN r /\ r[g].client_id = id
      BY <1>1, <1>2, <1>3, <2>1 DEF FirstOf, Moved
    <2>3. ASSUME NEW j \in 1 .. g - 1 PROVE r[j].client_id # id
      <3>1. CASE j = index
        BY <1>1, <1>2, <1>3, <2>1, <2>3, <3>1 DEF Moved, FirstOf
      <3>2. CASE j # index
        <4>1. j \in DOMAIN r
          BY <1>1, <1>2, <2>1, <2>3 DEF Moved, FirstOf
        <4>2. PICK l \in DOMAIN infos : j = Moved(l, index)
          BY <1>1, <3>2, <4>1
        <4>3. l \in 1 .. f - 1
          BY <1>2, <2>1, <2>3, <4>2 DEF Moved, FirstOf
        <4> QED
          BY <1>1, <2>1, <4>2, <4>3 DEF FirstOf
      <3> QED
        BY <3>1, <3>2
    <2> QED
      BY <2>2, <2>3 DEF FirstOf
  <1>4. CASE i < index
    <2>1. i \in DOMAIN infos /\ r[i] = infos[i]
      BY <1>1, <1>2, <1>4 DEF Moved
    <2> QED
      BY <1>2, <1>3, <1>4, <2>1
  <1>5. CASE i >= index /\ id # info.client_id
    <2>1. PICK k \in DOMAIN infos : i = Moved(k, index) /\ infos[k].client_id = id
      BY <1>1, <1>5
    <2> QED
      BY <1>1, <1>2, <1>3, <1>5, <2>1
  <1>6. CASE i >= index /\ id = info.client_id
    <2>1. CASE \E k \in DOMAIN infos : k < index /\ infos[k].client_id = id
      BY <1>1, <1>2, <1>3, <1>6, <2>1
    <2>2. CASE ~ \E k \in DOMAIN infos : k < index /\ infos[k].client_id = id
      <3>1. ASSUME NEW j \in 1 .. index - 1 PROVE r[j].client_id # id
        <4>1. j \in DOMAIN infos /\ j < index /\ Moved(j, index) = j
          BY <1>2 DEF Moved
        <4> QED
          BY <1>1, <2>2, <4>1
      <3>2. index \in 1 .. i /\ index \in DOMAIN r
        BY <1>1, <1>2, <1>6
      <3> QED
        BY <1>1, <1>6, <3>1, <3>2 DEF FirstOf
    <2> QED
      BY <2>1, <2>2
  <1> QED
    BY <1>1, <1>2, <1>4, <1>5, <1>6

(***************************************************************************)
(* All the clients that have ever connected are still there.               *)
(***************************************************************************)
Occupied == {t \in Tokens : connections[t] # None}

NobodyLeft ==
  /\ IsFiniteSet(Occupied) /\ Cardinality(Occupied) = next_serial - 1
  /\ \A id \in ClientId : ~Has(commands, {ClientDisconnected(id)})

(***************************************************************************)
(* When no client may go away, none does, and swiboe handles no            *)
(* disconnect.                                                             *)
(***************************************************************************)
LEMMA NobodyLeaves ==
  ASSUME MaxDisconnects = 0, IInv, NobodyLeft, [Next]_vars
  PROVE  NobodyLeft' /\ ~HandleClientDisconnected
  <1>1. /\ connections \in [Tokens -> ClientId \cup {None}]
        /\ next_serial \in Nat /\ commands \in Seq(Command)
    BY BoundsAssumption DEF IInv, TypeOK
  <1>2. ASSUME NEW id \in ClientId, Hup(id) PROVE FALSE
    BY <1>1, <1>2 DEF Hup, Disconnects, NobodyLeft, Occupied
  <1>3. IsFiniteSet(Occupied') /\ Cardinality(Occupied') = next_serial' - 1
    <2>1. CASE UNCHANGED <<connections, next_serial>>
      BY <2>1 DEF NobodyLeft, Occupied
    <2>2. ASSUME NEW t \in Tokens, new_client(t)
          PROVE  IsFiniteSet(Occupied') /\ Cardinality(Occupied') = next_serial' - 1
      <3> DEFINE id == [serial |-> next_serial, token |-> t]
      <3>1. /\ connections' = [connections EXCEPT ![t] = id]
            /\ next_serial' = next_serial + 1
            /\ connections[t] = None
        BY <2>2 DEF new_client
      <3>2. id # None
        BY <2>2, BoundsAssumption, NoneAssumption DEF IInv, TypeOK, new_client, ClientId
      <3>3. Occupied' = Occupied \cup {t} /\ t \notin Occupied
        BY <1>1, <3>1, <3>2 DEF Occupied
      <3>4. /\ IsFiniteSet(Occupied \cup {t})
            /\ Cardinality(Occupied \cup {t}) = Cardinality(Occupied) + 1
        BY <3>3, FS_AddElement DEF NobodyLeft
      <3> QED
        BY <1>1, <3>1, <3>3, <3>4 DEF NobodyLeft
    <2> QED
      BY <1>2, <2>1, <2>2, ConnectionsChange
  <1>4. \A id \in ClientId : ~Has(commands, {ClientDisconnected(id)})'
    BY <1>2, DisconnectedOnlyByHup DEF NobodyLeft
  <1>5. ~HandleClientDisconnected
    <2> SUFFICES ASSUME HandleClientDisconnected PROVE FALSE
      OBVIOUS
    <2>1. Takes("ClientDisconnected")
      BY DEF HandleClientDisconnected
    <2>2. /\ Head(commands) \in Command /\ Head(commands).cmd = "ClientDisconnected"
          /\ Head(commands).client \in ClientId
          /\ \A X : Head(commands) \in X => Has(commands, X)
      BY <2>1, HeadCommand
    <2>3. Head(commands) = ClientDisconnected(Head(commands).client)
      BY <2>2 DEF Command, ClientDisconnected
    <2> QED
      BY <2>2, <2>3 DEF NobodyLeft
  <1> QED
    BY <1>3, <1>4, <1>5 DEF NobodyLeft

(***************************************************************************)
(* A registration puts one entry into one list.                            *)
(***************************************************************************)
LEMMA Registration ==
  ASSUME IInv, HandleNewRpc
  PROVE  \E name \in Functions, info \in ApiInfo :
           \E index \in 1 .. Len(api_table[name]) + 1 :
             api_table' = [api_table EXCEPT ![name] =
                             insert(api_table[name], index, info)]
  <1> DEFINE k == Head(commands)
             info == [client_id |-> k.client, priority |-> k.priority]
  <1>1. /\ Takes("NewRpc") /\ api_table' \in register(api_table, k.name, info)
        /\ api_table \in [Functions -> Seq(ApiInfo)]
    BY DEF HandleNewRpc, IInv, TypeOK
  <1>2. k.client \in ClientId /\ k.name \in Functions /\ k.priority \in Priorities
    BY <1>1, TakesFacts, CommandFacts
  <1>3. info \in ApiInfo /\ api_table[k.name] \in Seq(ApiInfo)
    BY <1>1, <1>2 DEF ApiInfo
  <1>4. PICK index \in binary_search(api_table[k.name], info.priority) :
           api_table' = [api_table EXCEPT ![k.name] =
                             insert(api_table[k.name], index, info)]
    BY <1>1 DEF register
  <1>5. index \in 1 .. Len(api_table[k.name]) + 1
    BY <1>3, <1>4 DEF binary_search
  <1> QED
    BY <1>2, <1>3, <1>4, <1>5

(***************************************************************************)
(* Everybody in the table has a first entry.                               *)
(***************************************************************************)
AllFirsts == \A name \in Functions : HasFirsts(api_table[name])

(***************************************************************************)
(* Without disconnects every client keeps a first entry in the lists that  *)
(* it is in.                                                               *)
(***************************************************************************)
LEMMA FirstsStay ==
  ASSUME IInv, AllFirsts, [Next]_vars, ~HandleClientDisconnected
  PROVE  AllFirsts'
  <1>1. CASE UNCHANGED api_table
    BY <1>1 DEF AllFirsts
  <1>2. CASE HandleNewRpc
    <2>1. PICK name \in Functions, info \in ApiInfo :
            \E index \in 1 .. Len(api_table[name]) + 1 :
               api_table' = [api_table EXCEPT ![name] =
                               insert(api_table[name], index, info)]
      BY <1>2, Registration
    <2>2. PICK index \in 1 .. Len(api_table[name]) + 1 :
             api_table' = [api_table EXCEPT ![name] =
                               insert(api_table[name], index, info)]
      BY <2>1
    <2>3. api_table \in [Functions -> Seq(ApiInfo)] /\ api_table[name] \in Seq(ApiInfo)
      BY DEF IInv, TypeOK
    <2>4. HasFirsts(insert(api_table[name], index, info))
      BY <2>3, InsertFirsts DEF AllFirsts
    <2> QED
      BY <2>2, <2>3, <2>4 DEF AllFirsts
  <1> QED
    BY <1>1, <1>2, ApiTableChange

(***************************************************************************)
(* Whoever has not been asked stands behind an entry of the callee.        *)
(***************************************************************************)
Stands(infos, callee, rest) ==
  \E a \in DOMAIN infos :
    /\ infos[a].client_id = callee
    /\ \A u \in rest : \E b \in DOMAIN infos : a < b /\ infos[b].client_id = u

(***************************************************************************)
(* Handlers that were registered when the call came and have not been      *)
(* asked stand behind the callee in the list of the function.              *)
(***************************************************************************)
Ahead(c) ==
  running_rpcs[c] # None =>
    Stands(api_table[call[c].function], running_rpcs[c].callee, unasked[c])

(***************************************************************************)
(* A registration puts nobody who stood behind an entry of the callee      *)
(* before it.                                                              *)
(***************************************************************************)
LEMMA InsertStands ==
  ASSUME NEW S, NEW infos \in Seq(S), NEW info \in S,
         NEW index \in 1 .. Len(infos) + 1, NEW callee, NEW rest,
         Stands(infos, callee, rest)
  PROVE  Stands(insert(infos, index, info), callee, rest)
  <1> DEFINE r == insert(infos, index, info)
  <1>1. /\ \A k \in DOMAIN infos : /\ Moved(k, index) \in DOMAIN r
                                   /\ r[Moved(k, index)] = infos[k]
        /\ \A a, b \in DOMAIN infos : a < b => Moved(a, index) < Moved(b, index)
    BY InsertMoves
  <1> HIDE DEF r
  <1>2. PICK a \in DOMAIN infos :
          /\ infos[a].client_id = callee
          /\ \A u \in rest : \E b \in DOMAIN infos : a < b /\ infos[b].client_id = u
    BY DEF Stands
  <1>3. /\ Moved(a, index) \in DOMAIN r /\ r[Moved(a, index)].client_id = callee
        /\ \A u \in rest : \E b \in DOMAIN r :
              Moved(a, index) < b /\ r[b].client_id = u
    BY <1>1, <1>2
  <1>4. Stands(r, callee, rest)
    BY <1>3 DEF Stands
  <1> QED
    BY <1>4 DEF r

(***************************************************************************)
(* What get_next says of a list with first entries: nothing means that     *)
(* nobody stands behind the client; an entry means that whoever stood      *)
(* behind the client stands behind this entry or is its owner.             *)
(***************************************************************************)
LEMMA GetNextStands ==
  ASSUME NEW name, NEW table, NEW callee, NEW rest, NEW S,
         table[name] \in Seq(S), HasFirsts(table[name]),
         Stands(table[name], callee, rest)
  PROVE  /\ get_next(table, name, callee) = {} => rest = {}
         /\ \A info \in get_next(table, name, callee) :
               Stands(table[name], info.client_id, rest \ {info.client_id})
  <1> DEFINE infos == table[name]
  <1>1. /\ Len(infos) \in Nat /\ DOMAIN infos = 1 .. Len(infos)
    OBVIOUS
  <1>2. PICK a \in DOMAIN infos :
          /\ infos[a].client_id = callee
          /\ \A u \in rest : \E b \in DOMAIN infos : a < b /\ infos[b].client_id = u
    BY DEF Stands
  <1>3. PICK f \in 1 .. a : FirstOf(infos, callee, f)
    BY <1>2 DEF HasFirsts
  <1>4. \A u \in rest : \E b \in DOMAIN infos : f < b /\ infos[b].client_id = u
    BY <1>1, <1>2, <1>3
  <1>5. ASSUME get_next(table, name, callee) = {} PROVE rest = {}
    <2>1. ~(f < Len(infos))
      BY <1>1, <1>3, <1>5 DEF get_next, FirstOf
    <2> QED
      BY <1>1, <1>3, <1>4, <2>1
  <1>6. ASSUME NEW info \in get_next(table, name, callee)
        PROVE  Stands(infos, info.client_id, rest \ {info.client_id})
    <2>1. PICK i \in DOMAIN infos :
            /\ i < Len(infos) /\ infos[i].client_id = callee
            /\ \A j \in 1 .. i - 1 : infos[j].client_id # callee
            /\ info = infos[i + 1]
      BY <1>6 DEF get_next
    <2>2. i = f
      BY <1>1, <1>3, <2>1 DEF FirstOf
    <2>3. i + 1 \in DOMAIN infos /\ infos[i + 1].client_id = info.client_id
      BY <1>1, <2>1
    <2>4. ASSUME NEW u \in rest \ {info.client_id}
          PROVE  \E b \in DOMAIN infos : i + 1 < b /\ infos[b].client_id = u
      <3>1. PICK b \in DOMAIN infos : f < b /\ infos[b].client_id = u
        BY <1>4, <2>4
      <3>2. b # i + 1
        BY <2>3, <2>4, <3>1
      <3> QED
        BY <1>1, <2>1, <2>2, <3>1, <3>2
    <2> QED
      BY <2>3, <2>4 DEF Stands
  <1> QED
    BY <1>5, <1>6

(***************************************************************************)
(* Without disconnects, whoever has not been asked stays behind the        *)
(* callee.                                                                 *)
(***************************************************************************)
LEMMA AheadStays ==
  ASSUME IInv, AllFirsts, NEW c \in Contexts, Ahead(c), [Next]_vars,
         ~HandleClientDisconnected
  PROVE  Ahead(c)'
  <1> DEFINE name == call[c].function
             infos == api_table[name]
  <1>1. /\ running_rpcs \in [Contexts -> RunningRpc \cup {None}]
        /\ unasked \in [Contexts -> SUBSET ClientId]
        /\ api_table \in [Functions -> Seq(ApiInfo)]
        /\ call \in [Contexts -> Call \cup {None}]
    BY DEF IInv, TypeOK
  <1>2. call[c] # None => /\ call'[c] = call[c] /\ name \in Functions
                          /\ infos \in Seq(ApiInfo) /\ HasFirsts(infos)
    <2>1. call[c] # None => call'[c] = call[c]
      BY <1>1, CallChange DEF NewContext
    <2>2. call[c] # None => name \in Functions
      BY <1>1, CallFacts
    <2> QED
      BY <1>1, <2>1, <2>2 DEF AllFirsts
  <1>3. running_rpcs[c] # None => call[c] # None
    BY DEF IInv, Routing
  <1>4. CASE /\ running_rpcs'[c] = running_rpcs[c] /\ unasked'[c] = unasked[c]
             /\ running_rpcs[c] # None
    <2>1. CASE UNCHANGED api_table
      BY <1>2, <1>3, <1>4, <2>1 DEF Ahead
    <2>2. CASE HandleNewRpc
      <3>1. PICK n \in Functions, info \in ApiInfo :
              \E index \in 1 .. Len(api_table[n]) + 1 :
                 api_table' = [api_table EXCEPT ![n] = insert(api_table[n], index, info)]
        BY <2>2, Registration
      <3>2. PICK index \in 1 .. Len(api_table[n]) + 1 :
                 api_table' = [api_table EXCEPT ![n] = insert(api_table[n], index, info)]
        BY <3>1
      <3>3. CASE n # name
        <4>1. api_table'[name] = infos
          BY <1>1, <1>2, <1>3, <1>4, <3>2, <3>3
        <4> QED
          BY <1>2, <1>3, <1>4, <4>1 DEF Ahead
      <3>4. CASE n = name
        <4>1. api_table'[name] = insert(infos, index, info)
          BY <1>1, <3>2, <3>4
        <4>2. Stands(infos, running_rpcs[c].callee, unasked[c])
          BY <1>4 DEF Ahead
        <4>3. Stands(api_table'[name], running_rpcs[c].callee, unasked[c])
          BY <1>2, <1>3, <1>4, <3>4, <4>1, <4>2, InsertStands
        <4> QED
          BY <1>2, <1>3, <1>4, <4>3 DEF Ahead
      <3> QED
        BY <3>3, <3>4
    <2> QED
      BY <2>1, <2>2, ApiTableChange
  <1>5. CASE running_rpcs'[c] = None
    BY <1>5 DEF Ahead
  <1>6. CASE HandleRpcCall
    <2> DEFINE m == Head(commands).message
               d == m.context
    <2>1. /\ Takes("FromClient") /\ UNCHANGED api_table /\ UNCHANGED call
          /\ \/ UNCHANGED <<running_rpcs, unasked>>
             \/ \E info \in get_first(api_table, call[d].function) :
                  /\ running_rpcs' = [running_rpcs EXCEPT ![d] =
                        [caller |-> Head(commands).client, callee |-> info.client_id]]
                  /\ unasked' = [unasked EXCEPT ![d] =
                        Registered(api_table, call[d].function) \ {info.client_id}]
      BY <1>6 DEF HandleRpcCall, Takes, callerVars
    <2>2. d \in Contexts /\ call[d] # None
      BY <2>1, HeadCommand
    <2>3. CASE d # c \/ UNCHANGED <<running_rpcs, unasked>>
      BY <1>1, <1>4, <1>5, <2>1, <2>3
    <2>4. CASE d = c /\ ~UNCHANGED <<running_rpcs, unasked>>
      <3>1. PICK info \in get_first(api_table, name) :
                  /\ running_rpcs'[c] =
                        [caller |-> Head(commands).client, callee |-> info.client_id]
                  /\ unasked'[c] = Registered(api_table, name) \ {info.client_id}
        BY <1>1, <2>1, <2>4
      <3>2. 1 \in DOMAIN infos /\ info = infos[1] /\ DOMAIN infos = 1 .. Len(infos)
        BY <1>2, <2>2, <2>4, <3>1 DEF get_first
      <3>3. ASSUME NEW u \in Registered(api_table, name) \ {info.client_id}
            PROVE  \E b \in DOMAIN infos : 1 < b /\ infos[b].client_id = u
        BY <3>2, <3>3 DEF Registered
      <3>4. Stands(infos, info.client_id, unasked'[c])
        BY <3>1, <3>2, <3>3 DEF Stands
      <3>5. running_rpcs'[c].callee = info.client_id
        BY <3>1
      <3> QED
        BY <2>1, <3>4, <3>5 DEF Ahead
    <2> QED
      BY <2>3, <2>4
  <1>7. ASSUME NEW d \in Contexts, NEW kind \in Kinds, on_rpc_response(d, kind),
               UNCHANGED <<api_table, call>>
        PROVE  Ahead(c)'
    <2>1. CASE UNCHANGED running_rpcs[c] /\ UNCHANGED unasked[c]
      BY <1>4, <1>5, <2>1
    <2>2. CASE d = c /\ \E info \in get_next(api_table, name, running_rpcs[c].callee) :
                 /\ running_rpcs[c] # None
                 /\ running_rpcs'[c] = WithCallee(running_rpcs[c], info)
                 /\ unasked'[c] = unasked[c] \ {info.client_id}
      <3>1. PICK info \in get_next(api_table, name, running_rpcs[c].callee) :
                 /\ running_rpcs[c] # None
                 /\ running_rpcs'[c] = WithCallee(running_rpcs[c], info)
                 /\ unasked'[c] = unasked[c] \ {info.client_id}
        BY <2>2
      <3>2. Stands(infos, running_rpcs[c].callee, unasked[c])
        BY <3>1 DEF Ahead
      <3>3. Stands(infos, info.client_id, unasked[c] \ {info.client_id})
        BY <1>2, <1>3, <3>1, <3>2, GetNextStands
      <3>4. running_rpcs'[c].callee = info.client_id
        BY <1>1, <3>1 DEF WithCallee, RunningRpc
      <3> QED
        BY <1>7, <3>1, <3>3, <3>4 DEF Ahead
    <2>3. \/ UNCHANGED running_rpcs[c] /\ UNCHANGED unasked[c]
          \/ running_rpcs'[c] = None
          \/ d = c /\ \E info \in get_next(api_table, name, running_rpcs[c].callee) :
                 /\ running_rpcs[c] # None
                 /\ running_rpcs'[c] = WithCallee(running_rpcs[c], info)
                 /\ unasked'[c] = unasked[c] \ {info.client_id}
      <3>1. CASE UNCHANGED <<running_rpcs, unasked>>
        BY <3>1
      <3>2. CASE running_rpcs' = [running_rpcs EXCEPT ![d] = None] /\ UNCHANGED unasked
        BY <1>1, <3>2
      <3>3. ASSUME NEW info \in get_next(api_table, call[d].function,
                                         running_rpcs[d].callee),
                   running_rpcs[d] # None,
                   running_rpcs' = [running_rpcs EXCEPT ![d] =
                                      WithCallee(running_rpcs[d], info)],
                   unasked' = [unasked EXCEPT ![d] = @ \ {info.client_id}]
            PROVE  <2>3!:
        BY <1>1, <3>3
      <3> QED
        BY <1>7, <3>1, <3>2, <3>3, Forwarded
    <2> QED
      BY <1>5, <2>1, <2>2, <2>3
  <1> QED
    BY <1>4, <1>5, <1>6, <1>7, RunningChange

(***************************************************************************)
(* The caller of the call is being told, or has been told, NotHandled.     *)
(***************************************************************************)
Refusal(c) == {RpcResponse(c, "NotHandled")}

Refused(c) ==
  \/ InBridge(Refusal(c))
  \/ \E id \in ClientId : InClient(id, Refusal(c))
  \/ "NotHandled" \in Range(responses[c])

(***************************************************************************)
(* on_rpc_response finds no handler behind the one that did not handle it. *)
(***************************************************************************)
Refuses(c) ==
  /\ running_rpcs[c] # None
  /\ get_next(api_table, call[c].function, running_rpcs[c].callee) = {}
  /\ UNCHANGED unasked

(***************************************************************************)
(* A message that tells it is a carrier of this call and of no other.      *)
(***************************************************************************)
LEMMA RefusalFacts ==
  ASSUME NEW c \in Contexts
  PROVE  /\ Refusal(c) \subseteq CarriersOf(c)
         /\ \A m \in Message : m \in Refusal(c) <=>
               m.tag = "RpcResponse" /\ m.context = c /\ m.kind = "NotHandled"
  <1>1. RpcResponse(c, "NotHandled") \in CarriersOf(c)
    BY SetFacts DEF Kinds, LastKinds
  <1>2. ASSUME NEW m \in Message
        PROVE  m \in Refusal(c) <=>
                  m.tag = "RpcResponse" /\ m.context = c /\ m.kind = "NotHandled"
    BY DEF Refusal, RpcResponse, Message
  <1> QED
    BY <1>1, <1>2 DEF Refusal

(***************************************************************************)
(* Only on_rpc_response, out of handlers, puts such a message into the     *)
(* queue of the bridge.                                                    *)
(***************************************************************************)
LEMMA HandleRefuses ==
  ASSUME IInv, handle, NEW c \in Contexts
  PROVE  \/ UNCHANGED ipc_bridge_commands
         \/ \E id \in ClientId, m \in Message :
              /\ ipc_bridge_commands' = Append(ipc_bridge_commands, SendData(id, m))
              /\ m \in Refusal(c) => Refuses(c)
  <1> DEFINE k == Head(commands)
             m == k.message
  <1>0. TypeOK
    BY DEF IInv
  <1>1. CASE HandleNewRpc \/ HandleClientConnected \/ HandleClientDisconnected
    BY <1>1 DEF HandleNewRpc, HandleClientConnected, HandleClientDisconnected
  <1>2. CASE HandleCoreCall
    <2> DEFINE reply == RpcResponse(m.context, "Done")
    <2>1. /\ Takes("FromClient")
          /\ ipc_bridge_commands' =
                Append(ipc_bridge_commands, SendData(k.client, reply))
      BY <1>2 DEF HandleCoreCall
    <2>2. m.context \in Contexts /\ k.client \in ClientId
      BY <2>1, HeadCommand
    <2>3. reply \in Message /\ reply \notin Refusal(c)
      BY <2>2, MessageFacts DEF Refusal, RpcResponse, Kinds, LastKinds
    <2> QED
      BY <2>1, <2>2, <2>3
  <1>3. CASE HandleRpcCall
    <2> DEFINE first == get_first(api_table, call[m.context].function)
               unknown == RpcResponse(m.context, "UnknownRpc")
    <2>1. Takes("FromClient") /\ m.tag = "RpcCall"
      BY <1>3 DEF HandleRpcCall
    <2>2. /\ m \in Message /\ m.context \in Contexts /\ k.client \in ClientId
          /\ call[m.context] # None /\ call[m.context] \in Call \cup {None}
      BY <1>0, <2>1, HeadCommand DEF TypeOK
    <2>3. /\ unknown \in Message /\ unknown \notin Refusal(c)
          /\ m \notin Refusal(c)
      BY <2>1, <2>2, MessageFacts, RefusalFacts DEF Refusal, RpcResponse, Kinds, LastKinds
    <2>4. first \subseteq ApiInfo
      <3>1. /\ call[m.context].function \in Functions
            /\ api_table \in [Functions -> Seq(ApiInfo)]
        BY <1>0, <2>2, CallFacts DEF TypeOK
      <3> QED
        BY <3>1, GetFirstType
    <2>5. PICK id \in ClientId, x \in {m, unknown} :
            ipc_bridge_commands' = Append(ipc_bridge_commands, SendData(id, x))
      <3>1. CASE first = {}
        BY <1>3, <2>2, <3>1 DEF HandleRpcCall
      <3>2. CASE first # {}
        <4>1. PICK info \in first :
                 ipc_bridge_commands' =
                    Append(ipc_bridge_commands, SendData(info.client_id, m))
          BY <1>3, <3>2 DEF HandleRpcCall
        <4> QED
          BY <2>4, <4>1 DEF ApiInfo
      <3> QED
        BY <3>1, <3>2
    <2> QED
      BY <2>2, <2>3, <2>5
  <1>4. CASE HandleRpcCancel
    <2>1. Takes("FromClient") /\ on_rpc_cancel(m.context)
      BY <1>4 DEF HandleRpcCancel
    <2>2. m.context \in Contexts
      BY <2>1, HeadCommand
    <2>3. /\ RpcCancel(m.context) \in Message /\ RpcCancel(m.context) \notin Refusal(c)
          /\ running_rpcs[m.context] # None => running_rpcs[m.context].callee \in ClientId
      BY <1>0, <2>2, MessageFacts
         DEF Refusal, RpcResponse, RpcCancel, TypeOK, RunningRpc
    <2> QED
      BY <2>1, <2>3 DEF on_rpc_cancel
  <1>5. ASSUME NEW d \in Contexts, NEW kind \in Kinds, on_rpc_response(d, kind)
        PROVE  \/ UNCHANGED ipc_bridge_commands
               \/ \E id \in ClientId, x \in Message :
                    /\ ipc_bridge_commands' = Append(ipc_bridge_commands, SendData(id, x))
                    /\ x \in Refusal(c) => Refuses(c)
    <2>1. CASE UNCHANGED ipc_bridge_commands
      BY <2>1
    <2>2. CASE /\ running_rpcs[d] # None
               /\ ipc_bridge_commands' =
                    Append(ipc_bridge_commands,
                           SendData(running_rpcs[d].caller, RpcResponse(d, kind)))
               /\ UNCHANGED unasked
               /\ kind = "NotHandled" =>
                    get_next(api_table, call[d].function, running_rpcs[d].callee) = {}
      <3>1. /\ running_rpcs[d].caller \in ClientId
            /\ RpcResponse(d, kind) \in Message
        BY <1>0, <2>2, MessageFacts DEF TypeOK, RunningRpc
      <3>2. RpcResponse(d, kind) \in Refusal(c) => d = c /\ kind = "NotHandled"
        BY <3>1, RefusalFacts, MessageFacts DEF RpcResponse
      <3>3. RpcResponse(d, kind) \in Refusal(c) => Refuses(c)
        BY <2>2, <3>2 DEF Refuses
      <3> QED
        BY <2>2, <3>1, <3>3
    <2>3. ASSUME NEW info \in ApiInfo,
                 ipc_bridge_commands' =
                    Append(ipc_bridge_commands, SendData(info.client_id, RpcCall(d)))
          PROVE  \E id \in ClientId, x \in Message :
                    /\ ipc_bridge_commands' = Append(ipc_bridge_commands, SendData(id, x))
                    /\ x \notin Refusal(c)
      <3>1. /\ info.client_id \in ClientId /\ RpcCall(d) \in Message
            /\ RpcCall(d) \notin Refusal(c)
        BY MessageFacts DEF ApiInfo, Refusal, RpcCall, RpcResponse
      <3> QED
        BY <2>3, <3>1
    <2> QED
      BY <1>5, <2>1, <2>2, <2>3, Forwarded
  <1>6. CASE HandleRpcResponse
    <2>1. Takes("FromClient") /\ m.tag = "RpcResponse" /\ on_rpc_response(m.context, m.kind)
      BY <1>6 DEF HandleRpcResponse
    <2> QED
      BY <1>5, <2>1, HeadCommand, MessageFacts
  <1>7. CASE HandleSendDataFailed
    <2>1. /\ Takes("SendDataFailed")
          /\ \/ on_rpc_response(m.context, "NotHandled")
             \/ UNCHANGED ipc_bridge_commands
      BY <1>7 DEF HandleSendDataFailed
    <2> QED
      BY <1>5, <2>1, HeadCommand DEF Kinds, LastKinds
  <1> QED
    BY <1>1, <1>2, <1>3, <1>4, <1>6, <1>7 DEF handle

(***************************************************************************)
(* From the bridge it goes to a client, from there to the caller.          *)
(***************************************************************************)
LEMMA RefusedChange ==
  ASSUME IInv, NEW c \in Contexts, [Next]_vars, Refused(c)'
  PROVE  Refused(c) \/ Refuses(c)
  <1> DEFINE R == Refusal(c)
  <1>1. /\ ipc_bridge_commands \in Seq(BridgeCommand)
        /\ to_client \in [ClientId -> Seq(Message)]
        /\ responses \in [Contexts -> Seq(Kinds)] /\ TypeOK
    BY DEF IInv, TypeOK
  <1>2. CASE handle
    <2>1. UNCHANGED <<to_client, responses>>
      BY <1>2 DEF handle, HandleNewRpc, HandleCoreCall, HandleRpcCall,
         HandleRpcResponse, HandleRpcCancel, HandleSendDataFailed,
         HandleClientConnected, HandleClientDisconnected, Takes, callerVars
    <2>2. InBridge(R)' => InBridge(R) \/ Refuses(c)
      <3>1. ASSUME NEW id \in ClientId, NEW m \in Message,
                   ipc_bridge_commands' = Append(ipc_bridge_commands, SendData(id, m)),
                   m \in R => Refuses(c)
            PROVE  InBridge(R)' => InBridge(R) \/ Refuses(c)
        BY <1>1, <3>1, BridgeGrows
      <3>2. UNCHANGED ipc_bridge_commands => (InBridge(R)' <=> InBridge(R))
        BY DEF InBridge, Refusal
      <3> QED
        BY <1>2, <3>1, <3>2, HandleRefuses
    <2> QED
      BY <2>1, <2>2 DEF Refused, InClient, Refusal
  <1>3. CASE notify
    <2>1. /\ ipc_bridge_commands # <<>>
          /\ ipc_bridge_commands' = Tail(ipc_bridge_commands)
          /\ UNCHANGED responses
          /\ \/ UNCHANGED to_client
             \/ \E conn \in ClientId : to_client' =
                  [to_client EXCEPT ![conn] =
                     Append(@, Head(ipc_bridge_commands).message)]
      <3>1. Head(ipc_bridge_commands).receiver \in ClientId
        BY <1>1, <1>3, TailFacts, CommandFacts DEF notify
      <3> QED
        BY <1>3, <3>1 DEF notify, IsReceiver, callerVars
    <2>2. PICK m \in Message :
            /\ m = Head(ipc_bridge_commands).message
            /\ InBridge(R) <=> InBridge(R)' \/ m \in R
      <3>1. /\ Head(ipc_bridge_commands) \in BridgeCommand
            /\ Head(ipc_bridge_commands).message \in Message
            /\ Head(ipc_bridge_commands) \in BridgeCommandsOf(R) <=>
                  Head(ipc_bridge_commands).message \in R
        BY <1>1, <2>1, TailFacts, CommandFacts, CommandsOfFacts
      <3>2. InBridge(R) <=>
               InBridge(R)' \/ Head(ipc_bridge_commands) \in BridgeCommandsOf(R)
        BY <1>1, <2>1, HasTail DEF InBridge, Refusal
      <3> QED
        BY <3>1, <3>2
    <2>3. ASSUME NEW id \in ClientId, InClient(id, R)'
          PROVE  InClient(id, R) \/ m \in R
      <3>1. to_client[id] \in Seq(Message)
        BY <1>1
      <3>2. to_client'[id] = to_client[id] \/ to_client'[id] = Append(to_client[id], m)
        BY <1>1, <2>1, <2>2
      <3>3. Has(Append(to_client[id], m), R) <=> Has(to_client[id], R) \/ m \in R
        BY <3>1, HasAppend
      <3> QED
        BY <2>3, <3>2, <3>3 DEF InClient, Refusal
    <2> QED
      BY <2>1, <2>2, <2>3 DEF Refused, Refusal
  <1>4. ASSUME NEW id \in ClientId, Hup(id)
        PROVE  Refused(c)
    <2>1. /\ UNCHANGED <<ipc_bridge_commands, responses>>
          /\ to_client' = [to_client EXCEPT ![id] = <<>>]
      BY <1>4 DEF Hup, callerVars
    <2>2. \A i \in ClientId : InClient(i, R)' => InClient(i, R)
      <3>1. to_client'[id] = <<>> /\ \A i \in ClientId \ {id} : to_client'[i] = to_client[i]
        BY <1>1, <2>1
      <3> QED
        BY <3>1, HasNone DEF InClient, Refusal
    <2> QED
      BY <2>1, <2>2 DEF Refused, InBridge, Refusal
  <1>5. ASSUME NEW id \in ClientId, Receive(id)
        PROVE  Refused(c)
    <2>1. /\ UNCHANGED ipc_bridge_commands /\ to_client[id] # <<>>
          /\ to_client' = [to_client EXCEPT ![id] = Tail(@)]
      BY <1>5 DEF Receive, ReceiveCall, ReceiveResponse, ReceiveCancel, Receives
    <2>2. /\ to_client[id] \in Seq(Message) /\ Head(to_client[id]) \in Message
          /\ \A i \in ClientId : InClient(i, R)' => InClient(i, R)
          /\ Head(to_client[id]) \in R => InClient(id, R)
      <3>1. /\ to_client[id] \in Seq(Message) /\ to_client'[id] = Tail(to_client[id])
            /\ \A i \in ClientId \ {id} : to_client'[i] = to_client[i]
        BY <1>1, <2>1
      <3> QED
        BY <2>1, <3>1, HasTail DEF InClient, Refusal
    <2>3. CASE UNCHANGED responses
      BY <2>1, <2>2, <2>3 DEF Refused, InBridge, Refusal
    <2>4. CASE ReceiveResponse(id) /\ ~UNCHANGED responses
      <3>1. PICK m \in Message :
              /\ m = Head(to_client[id]) /\ m.tag = "RpcResponse"
              /\ m.context \in Contexts /\ m.kind \in Kinds
              /\ responses' = [responses EXCEPT ![m.context] = Append(@, m.kind)]
        BY <2>2, <2>4, MessageFacts DEF ReceiveResponse, Receives
      <3>2. CASE "NotHandled" \in Range(responses'[c])
        <4>1. CASE m.context # c
          BY <1>1, <3>1, <3>2, <4>1 DEF Refused
        <4>2. CASE m.context = c
          <5>1. responses[c] \in Seq(Kinds) /\ responses'[c] = Append(responses[c], m.kind)
            BY <1>1, <3>1, <4>2
          <5>2. "NotHandled" \in Range(responses[c]) \/ m.kind = "NotHandled"
            BY <3>1, <3>2, <5>1, AppendFacts
          <5>3. m.kind = "NotHandled" => m \in R
            BY <3>1, <4>2, RefusalFacts
          <5> QED
            BY <2>2, <3>1, <5>2, <5>3 DEF Refused
        <4> QED
          BY <4>1, <4>2
      <3>3. CASE "NotHandled" \notin Range(responses'[c])
        BY <2>1, <2>2, <3>3 DEF Refused, InBridge, Refusal
      <3> QED
        BY <3>2, <3>3
    <2> QED
      BY <1>5, <2>3, <2>4 DEF Receive, ReceiveCall, ReceiveCancel
  <1>6. CASE UNCHANGED <<ipc_bridge_commands, to_client, responses>>
    BY <1>6 DEF Refused, InBridge, InClient, Refusal
  <1>7. ASSUME NEW id \in ClientId, ClientStep(id), ~Receive(id)
        PROVE  UNCHANGED <<ipc_bridge_commands, to_client, responses>>
    BY <1>7 DEF ClientStep, CallRpc, RequestNewRpc, NewContext, InstallRpc,
       Cancel, update, finish, callerVars
  <1>8. CASE UNCHANGED vars
    BY <1>6, <1>8 DEF vars, callerVars
  <1> QED
    BY <1>2, <1>3, <1>4, <1>5, <1>6, <1>7, <1>8
       DEF Next, new_client, ReadMessage, callerVars

(***************************************************************************)
(* Everybody who was to be asked has been asked before the caller is told. *)
(***************************************************************************)
AskedBeforeRefused(c) == Refused(c) => unasked[c] = {}

(***************************************************************************)
(* A step that begins to tell the caller NotHandled finds nobody left; no  *)
(* later step adds anybody.                                                *)
(***************************************************************************)
LEMMA RefusedAsks ==
  ASSUME IInv, AllFirsts, NEW c \in Contexts, InOrder(c), Ahead(c),
         AskedBeforeRefused(c), [Next]_vars
  PROVE  AskedBeforeRefused(c)'
  <1> SUFFICES ASSUME Refused(c)' PROVE unasked'[c] = {}
    BY DEF AskedBeforeRefused
  <1>1. unasked \in [Contexts -> SUBSET ClientId]
    BY DEF IInv, TypeOK
  <1>2. CASE Refused(c)
    <2>1. unasked[c] = {}
      BY <1>2 DEF AskedBeforeRefused
    <2>2. ~InCommands(SaidOf(c))
      <3>1. /\ InBridge(Refusal(c)) => InBridge(CarriersOf(c))
            /\ \A id \in ClientId : InClient(id, Refusal(c)) => InClient(id, CarriersOf(c))
        <4>1. \A q : Has(q, Refusal(c)) => Has(q, CarriersOf(c))
          BY RefusalFacts, HasMore
        <4>2. BridgeCommandsOf(Refusal(c)) \subseteq BridgeCommandsOf(CarriersOf(c))
          BY RefusalFacts DEF BridgeCommandsOf
        <4> QED
          BY <4>1, <4>2, HasMore DEF InBridge, InClient
      <3>2. "NotHandled" \in Range(responses[c]) => Answered(c)
        BY DEF Answered, LastKinds
      <3>3. CASE ClientId = {}
        <4>1. commands \in Seq(Command) /\ \A k \in Command : k.client \in ClientId
          BY CommandFacts DEF IInv, TypeOK
        <4> QED
          BY <3>3, <4>1 DEF InCommands, Has
      <3>4. CASE ClientId # {}
        BY <1>2, <3>1, <3>2, <3>4 DEF Refused, InOrder, OneCarrier, AnswerIsLast, Silent
      <3> QED
        BY <3>3, <3>4
    <2>3. CASE HandleRpcCall
      <3> DEFINE m == Head(commands).message
                 d == m.context
      <3>1. /\ Takes("FromClient") /\ m.tag = "RpcCall"
            /\ \/ UNCHANGED unasked
               \/ \E x : unasked' = [unasked EXCEPT ![d] = x]
        BY <2>3 DEF HandleRpcCall
      <3>2. /\ m \in Message /\ d \in Contexts
            /\ m \in SaidOf(c) => InCommands(SaidOf(c))
        BY <3>1, HeadCommand DEF InCommands
      <3>3. d # c
        BY <2>2, <3>1, <3>2 DEF SaidOf
      <3> QED
        BY <1>1, <2>1, <3>1, <3>3
    <2>4. ASSUME NEW d \in Contexts, NEW kind \in Kinds, on_rpc_response(d, kind)
          PROVE  unasked'[c] = {}
      BY <1>1, <2>1, <2>4, Forwarded
    <2>5. CASE HandleClientDisconnected \/ UNCHANGED unasked
      BY <2>1, <2>5 DEF HandleClientDisconnected
    <2> QED
      BY <2>3, <2>4, <2>5, RunningChange
  <1>3. CASE Refuses(c)
    <2> DEFINE name == call[c].function
    <2>1. /\ call[c] # None /\ call[c] \in Call \cup {None}
          /\ api_table \in [Functions -> Seq(ApiInfo)]
      BY <1>3 DEF Refuses, IInv, TypeOK, Routing
    <2>2. /\ name \in Functions /\ api_table[name] \in Seq(ApiInfo)
          /\ HasFirsts(api_table[name])
      BY <2>1, CallFacts DEF AllFirsts
    <2>3. Stands(api_table[name], running_rpcs[c].callee, unasked[c])
      BY <1>3 DEF Refuses, Ahead
    <2>4. get_next(api_table, name, running_rpcs[c].callee) = {}
      BY <1>3 DEF Refuses
    <2>5. unasked[c] = {}
      BY <2>2, <2>3, <2>4, GetNextStands
    <2> QED
      BY <1>3, <2>5 DEF Refuses
  <1> QED
    BY <1>2, <1>3, RefusedChange

(***************************************************************************)
(* While nobody goes away, NotHandled reaches a caller only when every     *)
(* handler that was registered when the call came has been asked.          *)
(***************************************************************************)
THEOREM RefusedMeansAllAsked ==
  ASSUME MaxDisconnects = 0
  PROVE  Spec => []NotHandledMeansAllAsked
  <1> DEFINE AInv == /\ NobodyLeft /\ AllFirsts
                     /\ \A c \in Contexts : Ahead(c) /\ AskedBeforeRefused(c)
  <1>1. Init => AInv
    <2> SUFFICES ASSUME Init PROVE AInv
      OBVIOUS
    <2>1. NobodyLeft
      <3>1. Occupied = {} /\ next_serial = 1 /\ commands = <<>>
        BY DEF Init, ServerInit, Occupied
      <3>2. IsFiniteSet({}) /\ Cardinality({}) = 0
        BY FS_EmptySet
      <3>3. \A X : ~Has(commands, X)
        BY <3>1, HasNone
      <3> QED
        BY <3>1, <3>2, <3>3 DEF NobodyLeft
    <2>2. AllFirsts
      <3>1. \A n \in Functions : api_table[n] = <<>>
        BY DEF Init, ServerInit
      <3> QED
        BY <3>1 DEF AllFirsts, HasFirsts
    <2>3. \A c \in Contexts : running_rpcs[c] = None /\ unasked[c] = {}
      BY DEF Init, ServerInit, ClientInit
    <2> QED
      BY <2>1, <2>2, <2>3 DEF Ahead, AskedBeforeRefused
  <1>2. IInv /\ CInv /\ AInv /\ [Next]_vars => AInv'
    <2> SUFFICES ASSUME IInv, CInv, AInv, [Next]_vars PROVE AInv'
      OBVIOUS
    <2>1. NobodyLeft' /\ ~HandleClientDisconnected
      BY NobodyLeaves
    <2>2. AllFirsts'
      BY <2>1, FirstsStay
    <2>3. ASSUME NEW c \in Contexts PROVE Ahead(c)' /\ AskedBeforeRefused(c)'
      <3>1. InOrder(c)
        BY DEF CInv, AllInOrder
      <3> QED
        BY <2>1, <3>1, AheadStays, RefusedAsks
    <2> QED
      BY <2>1, <2>2, <2>3
  <1>3. AInv => NotHandledMeansAllAsked
    BY DEF NotHandledMeansAllAsked, AskedBeforeRefused, Refused
  <1> HIDE DEF AInv
  <1> QED
    BY <1>1, <1>2, <1>3, Invariance, LedgersBalance, PTL DEF Spec
=============================================================================
