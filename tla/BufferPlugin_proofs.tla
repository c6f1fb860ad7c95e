------------------------ MODULE BufferPlugin_proofs ------------------------
(***************************************************************************)
(* What the buffer plugin announces agrees with the buffers it has, for    *)
(* any number of calls and cancels.                                        *)
(***************************************************************************)
EXTENDS BufferPlugin, TLAPS

New(index) == Send(Event("on.buffer.new", index))
Gone(index) == Send(Event("on.buffer.deleted", index))

(***************************************************************************)
(* The invariant.  EventsTellBuffers is about the indices given out so far *)
(* only; that no other has been announced makes it inductive.              *)
(***************************************************************************)
GivenOut ==
  /\ \A i \in DOMAIN buffers : i < next_buffer_index
  /\ \A k \in DOMAIN Line : \A i \in Nat :
       Line[k] \in {New(i), Gone(i)} => i < next_buffer_index

(***************************************************************************)
(* Handlers run for calls that were made.  Without it nothing is known of  *)
(* the arguments that a handler works with.                                *)
(***************************************************************************)
Asked ==
  /\ \A k \in DOMAIN commands :
       commands[k].cmd = "Received" => request[commands[k].call] # None
  /\ \A k \in DOMAIN pool : request[pool[k]] # None
  /\ worker # None => request[worker.call] # None

Announced == GivenOut /\ EventsTellBuffers /\ IndicesUsedOnce

IInv == TypeOK /\ Asked /\ Announced

-----------------------------------------------------------------------------
(***************************************************************************)
(* The three things that happen to the line: a command is put behind it,   *)
(* the next message moves on to swiboe, a received command leaves it.      *)
(***************************************************************************)
Grows(command) ==
  /\ DOMAIN Line = 1 .. Len(Line) /\ Len(Line) \in Nat
  /\ DOMAIN Line' = 1 .. Len(Line) + 1
  /\ \A k \in 1 .. Len(Line) : Line'[k] = Line[k]
  /\ Line'[Len(Line) + 1] = command

Loses(p) ==
  /\ DOMAIN Line = 1 .. Len(Line) /\ Len(Line) \in Nat
  /\ p \in 1 .. Len(Line)
  /\ Line[p].cmd = "Received"
  /\ DOMAIN Line' = 1 .. Len(Line) - 1
  /\ \A k \in 1 .. Len(Line) - 1 : Line'[k] = Line[IF k < p THEN k ELSE k + 1]

Stays ==
  /\ DOMAIN Line' = DOMAIN Line
  /\ \A k \in DOMAIN Line : Line'[k] = Line[k]

Layout(line, sent, queue) ==
  /\ line \in Seq(Command)
  /\ Len(line) = Len(sent) + Len(queue)
  /\ \A k \in 1 .. Len(sent) : line[k] = Send(sent[k])
  /\ \A k \in 1 .. Len(queue) : line[Len(sent) + k] = queue[k]

LEMMA LineLayout ==
  ASSUME NEW sent \in Seq(Outgoing), NEW queue \in Seq(Command)
  PROVE  Layout([k \in DOMAIN sent |-> Send(sent[k])] \o queue, sent, queue)
<1> DEFINE first == [k \in DOMAIN sent |-> Send(sent[k])]
<1>1. \A m \in Outgoing : Send(m) \in Command
  BY DEF Send, Command
<1>2. first \in Seq(Command) /\ Len(first) = Len(sent)
  BY <1>1
<1>3. \A k \in 1 .. Len(sent) : first[k] = Send(sent[k])
  OBVIOUS
<1> HIDE DEF first
<1>4. Layout(first \o queue, sent, queue)
  BY <1>2, <1>3 DEF Layout
<1> QED
  BY <1>4 DEF first

LEMMA LineGrows ==
  ASSUME to_server \in Seq(Outgoing), commands \in Seq(Command),
         NEW x \in Command,
         to_server' = to_server, commands' = Append(commands, x)
  PROVE  Grows(x)
<1>1. Layout(Line, to_server, commands)
  BY LineLayout DEF Line
<1>2. commands' \in Seq(Command) /\ to_server' \in Seq(Outgoing)
  OBVIOUS
<1>3. Layout(Line', to_server, commands')
  BY <1>2, LineLayout DEF Line
<1>4. Len(commands') = Len(commands) + 1 /\ commands'[Len(commands) + 1] = x
  OBVIOUS
<1>5. \A k \in 1 .. Len(commands) : commands'[k] = commands[k]
  OBVIOUS
<1>6. /\ Len(Line) = Len(to_server) + Len(commands)
      /\ Len(Line') = Len(Line) + 1 /\ Len(Line) \in Nat
      /\ DOMAIN Line = 1 .. Len(Line) /\ DOMAIN Line' = 1 .. Len(Line) + 1
  BY <1>1, <1>3, <1>4 DEF Layout
<1>7. ASSUME NEW k \in 1 .. Len(Line)
      PROVE  Line'[k] = Line[k]
  <2>1. CASE k <= Len(to_server)
    BY <2>1, <1>1, <1>3 DEF Layout
  <2>2. CASE k > Len(to_server)
    <3> DEFINE j == k - Len(to_server)
    <3>1. j \in 1 .. Len(commands) /\ k = Len(to_server) + j
      BY <2>2, <1>6
    <3> HIDE DEF j
    <3>2. j \in 1 .. Len(commands')
      BY <3>1, <1>4
    <3> QED
      BY <3>1, <3>2, <1>1, <1>3, <1>5 DEF Layout
  <2> QED
    BY <2>1, <2>2
<1>8. Line'[Len(Line) + 1] = x
  <2>1. Len(commands) + 1 \in 1 .. Len(commands')
    BY <1>4
  <2>2. Line'[Len(to_server) + (Len(commands) + 1)] = x
    BY <2>1, <1>3, <1>4 DEF Layout
  <2> QED
    BY <2>2, <1>6
<1> QED
  BY <1>6, <1>7, <1>8 DEF Grows

LEMMA LineMoves ==
  ASSUME to_server \in Seq(Outgoing), commands \in Seq(Command), commands # <<>>,
         Head(commands).cmd = "Send",
         to_server' = Append(to_server, Head(commands).message),
         commands' = Tail(commands)
  PROVE  Stays
<1>1. Head(commands) \in Command /\ Head(commands) = commands[1]
  OBVIOUS
<1>2. /\ commands[1] = Send(Head(commands).message)
      /\ Head(commands).message \in Outgoing
  BY <1>1 DEF Command, Send
<1>3. /\ to_server' \in Seq(Outgoing) /\ Len(to_server') = Len(to_server) + 1
      /\ \A k \in 1 .. Len(to_server) : to_server'[k] = to_server[k]
      /\ to_server'[Len(to_server) + 1] = Head(commands).message
  BY <1>2
<1>4. /\ commands' \in Seq(Command) /\ Len(commands') = Len(commands) - 1
      /\ \A j \in 1 .. Len(commands) - 1 : commands'[j] = commands[j + 1]
  OBVIOUS
<1>5. Layout(Line, to_server, commands)
  BY LineLayout DEF Line
<1>6. Layout(Line', to_server', commands')
  BY <1>3, <1>4, LineLayout DEF Line
<1>7. /\ Len(Line) = Len(to_server) + Len(commands)
      /\ DOMAIN Line = 1 .. Len(Line) /\ DOMAIN Line' = 1 .. Len(Line)
      /\ Len(commands) \in Nat \ {0} /\ Len(to_server) \in Nat
  BY <1>3, <1>4, <1>5, <1>6 DEF Layout
<1>8. ASSUME NEW k \in DOMAIN Line
      PROVE  Line'[k] = Line[k]
  <2>1. CASE k <= Len(to_server)
    BY <2>1, <1>3, <1>5, <1>6, <1>7 DEF Layout
  <2>2. CASE k = Len(to_server) + 1
    <3>1. Line'[k] = Send(to_server'[k])
      BY <2>2, <1>3, <1>6, <1>7 DEF Layout
    <3>2. Line[Len(to_server) + 1] = commands[1]
      BY <1>5, <1>7 DEF Layout
    <3> QED
      BY <3>1, <3>2, <2>2, <1>2, <1>3
  <2>3. CASE k > Len(to_server) + 1
    <3> DEFINE j == k - (Len(to_server) + 1)
    <3>1. /\ j \in 1 .. Len(commands) - 1 /\ j + 1 \in 1 .. Len(commands)
          /\ k = Len(to_server) + (j + 1) /\ k = Len(to_server') + j
      BY <2>3, <1>3, <1>7
    <3> HIDE DEF j
    <3>2. Line[k] = commands[j + 1]
      BY <3>1, <1>5 DEF Layout
    <3>3. Line'[k] = commands'[j]
      BY <3>1, <1>4, <1>6 DEF Layout
    <3> QED
      BY <3>1, <3>2, <3>3, <1>4
  <2> QED
    BY <2>1, <2>2, <2>3, <1>7
<1> QED
  BY <1>7, <1>8 DEF Stays

LEMMA LineLoses ==
  ASSUME to_server \in Seq(Outgoing), commands \in Seq(Command), commands # <<>>,
         Head(commands).cmd = "Received",
         to_server' = to_server, commands' = Tail(commands)
  PROVE  Loses(Len(to_server) + 1)
<1> DEFINE p == Len(to_server) + 1
<1>1. Head(commands) = commands[1]
  OBVIOUS
<1>4. /\ commands' \in Seq(Command) /\ Len(commands') = Len(commands) - 1
      /\ \A j \in 1 .. Len(commands) - 1 : commands'[j] = commands[j + 1]
  OBVIOUS
<1>5. Layout(Line, to_server, commands)
  BY LineLayout DEF Line
<1>6. Layout(Line', to_server, commands')
  BY <1>4, LineLayout DEF Line
<1>7. /\ Len(Line) = Len(to_server) + Len(commands)
      /\ DOMAIN Line = 1 .. Len(Line) /\ DOMAIN Line' = 1 .. Len(Line) - 1
      /\ Len(commands) \in Nat \ {0} /\ Len(to_server) \in Nat
      /\ Len(Line) \in Nat /\ p \in 1 .. Len(Line)
  BY <1>4, <1>5, <1>6 DEF Layout
<1>8. Line[p].cmd = "Received"
  <2>1. Line[Len(to_server) + 1] = commands[1]
    BY <1>5, <1>7 DEF Layout
  <2> QED
    BY <2>1, <1>1
<1>9. ASSUME NEW k \in 1 .. Len(Line) - 1
      PROVE  Line'[k] = Line[IF k < p THEN k ELSE k + 1]
  <2>1. CASE k < p
    <3>1. k \in 1 .. Len(to_server)
      BY <2>1, <1>7
    <3> QED
      BY <3>1, <2>1, <1>5, <1>6 DEF Layout
  <2>2. CASE k >= p
    <3> DEFINE j == k - Len(to_server)
    <3>1. /\ j \in 1 .. Len(commands) - 1 /\ j + 1 \in 1 .. Len(commands)
          /\ k = Len(to_server) + j /\ k + 1 = Len(to_server) + (j + 1)
      BY <2>2, <1>7
    <3> HIDE DEF j
    <3>2. Line[k + 1] = commands[j + 1]
      BY <3>1, <1>5 DEF Layout
    <3>3. Line'[k] = commands'[j]
      BY <3>1, <1>4, <1>6 DEF Layout
    <3>4. ~(k < p)
      BY <2>2, <1>7
    <3> QED
      BY <3>1, <3>2, <3>3, <3>4, <1>4
  <2> QED
    BY <2>1, <2>2, <1>7
<1> HIDE DEF p
<1>10. Loses(p)
  BY <1>7, <1>8, <1>9 DEF Loses
<1> QED
  BY <1>10 DEF p

-----------------------------------------------------------------------------
(***************************************************************************)
(* The announcements survive each of them.                                 *)
(***************************************************************************)
Manager == next_buffer_index \in Nat /\ DOMAIN buffers \subseteq Nat

\* The last word about index is that it is in use.
Told(index) ==
  \E k \in DOMAIN Line :
    /\ Says(k, "on.buffer.new", index)
    /\ \A l \in DOMAIN Line : l > k => ~Says(l, "on.buffer.deleted", index)

LEMMA ToldByCommands ==
  ASSUME NEW i
  PROVE  /\ Told(i) <=> \E k \in DOMAIN Line :
                          /\ Line[k] = New(i)
                          /\ \A l \in DOMAIN Line : l > k => Line[l] # Gone(i)
         /\ Told(i)' <=> \E k \in DOMAIN Line' :
                           /\ Line'[k] = New(i)
                           /\ \A l \in DOMAIN Line' : l > k => Line'[l] # Gone(i)
  BY DEF Told, Says, New, Gone

LEMMA AnnouncementsDiffer ==
  ASSUME NEW i, NEW j
  PROVE  /\ New(i) # Gone(j)
         /\ New(i) = New(j) => i = j
         /\ Gone(i) = Gone(j) => i = j
<1>1. New(i).message.function = "on.buffer.new" /\ New(i).message.buffer_index = i
  BY DEF New, Send, Event
<1>2. /\ Gone(j).message.function = "on.buffer.deleted"
      /\ Gone(j).message.buffer_index = j /\ Gone(i).message.buffer_index = i
  BY DEF Gone, Send, Event
<1>3. New(j).message.buffer_index = j
  BY DEF New, Send, Event
<1> QED
  BY <1>1, <1>2, <1>3

LEMMA WhenItStays ==
  ASSUME Announced, Stays, UNCHANGED managerVars
  PROVE  Announced'
<1>1. GivenOut'
  BY DEF Announced, GivenOut, Stays, managerVars
<1>2. EventsTellBuffers'
  BY DEF Announced, EventsTellBuffers, Says, Stays, managerVars
<1>3. IndicesUsedOnce'
  BY DEF Announced, IndicesUsedOnce, Stays
<1> QED
  BY <1>1, <1>2, <1>3 DEF Announced

LEMMA WhenItLoses ==
  ASSUME Announced, Manager, NEW p, Loses(p), UNCHANGED managerVars
  PROVE  Announced'
<1> DEFINE n == Len(Line)
           old(k) == IF k < p THEN k ELSE k + 1
<1>1. /\ n \in Nat /\ p \in 1 .. n
      /\ DOMAIN Line = 1 .. n /\ DOMAIN Line' = 1 .. n - 1
      /\ \A k \in 1 .. n - 1 : old(k) \in 1 .. n /\ Line'[k] = Line[old(k)]
  BY DEF Loses
<1>2. \A k, l \in 1 .. n - 1 : l > k <=> old(l) > old(k)
  BY <1>1
<1>3. \A k \in 1 .. n : k # p => \E j \in 1 .. n - 1 : old(j) = k
  <2> TAKE k \in 1 .. n
  <2> HAVE k # p
  <2>1. CASE k < p
    <3>1. k \in 1 .. n - 1 /\ old(k) = k
      BY <2>1, <1>1
    <3> QED
      BY <3>1
  <2>2. CASE k > p
    <3>1. k - 1 \in 1 .. n - 1 /\ old(k - 1) = k
      BY <2>2, <1>1
    <3> QED
      BY <3>1
  <2> QED
    BY <2>1, <2>2, <1>1
<1>4. \A name, i : ~Says(p, name, i)
  BY DEF Loses, Says, Send
<1>5. \A k, l \in 1 .. n - 1 : old(k) = old(l) => k = l
  BY <1>1
<1> HIDE DEF n, old
<1>6. GivenOut'
  BY <1>1 DEF Announced, GivenOut, managerVars
<1>7. ASSUME NEW i \in Nat
      PROVE  Told(i)' <=> Told(i)
  <2>1. ASSUME Told(i)
        PROVE  Told(i)'
    <3>1. PICK k \in 1 .. n : /\ Says(k, "on.buffer.new", i)
                             /\ \A l \in 1 .. n : l > k => ~Says(l, "on.buffer.deleted", i)
      BY <2>1, <1>1 DEF Told
    <3>2. PICK j \in 1 .. n - 1 : old(j) = k
      BY <3>1, <1>3, <1>4
    <3>3. Line'[j] = Send(Event("on.buffer.new", i))
      BY <3>1, <3>2, <1>1 DEF Says
    <3>4. \A l \in 1 .. n - 1 : l > j => Line'[l] # Send(Event("on.buffer.deleted", i))
      BY <3>1, <3>2, <1>1, <1>2 DEF Says
    <3> QED
      BY <3>3, <3>4, <1>1 DEF Told, Says
  <2>2. ASSUME Told(i)'
        PROVE  Told(i)
    <3>1. PICK j \in 1 .. n - 1 :
            /\ Line'[j] = Send(Event("on.buffer.new", i))
            /\ \A l \in 1 .. n - 1 : l > j => Line'[l] # Send(Event("on.buffer.deleted", i))
      BY <2>2, <1>1 DEF Told, Says
    <3>2. old(j) \in 1 .. n /\ Says(old(j), "on.buffer.new", i)
      BY <3>1, <1>1 DEF Says
    <3>3. ASSUME NEW l \in 1 .. n, l > old(j)
          PROVE  ~Says(l, "on.buffer.deleted", i)
      <4>1. CASE l = p
        BY <4>1, <1>4
      <4>2. CASE l # p
        <5>1. PICK m \in 1 .. n - 1 : old(m) = l
          BY <4>2, <1>3
        <5>2. Line'[m] # Send(Event("on.buffer.deleted", i))
          BY <5>1, <3>1, <3>3, <1>2
        <5> QED
          BY <5>1, <5>2, <1>1 DEF Says
      <4> QED
        BY <4>1, <4>2
    <3> QED
      BY <3>2, <3>3, <1>1 DEF Told
  <2> QED
    BY <2>1, <2>2
<1>8. EventsTellBuffers'
  <2>1. \A i \in 0 .. next_buffer_index : i \in DOMAIN buffers <=> Told(i)
    BY DEF Announced, EventsTellBuffers, Told
  <2>2. \A i \in 0 .. next_buffer_index' : i \in DOMAIN buffers' <=> Told(i)'
    BY <2>1, <1>7 DEF managerVars, Manager
  <2> QED
    BY <2>2 DEF EventsTellBuffers, Told
<1>9. IndicesUsedOnce'
  BY <1>1, <1>5 DEF Announced, IndicesUsedOnce
<1> QED
  BY <1>6, <1>8, <1>9 DEF Announced

LEMMA WhenItGrowsQuietly ==
  ASSUME Announced, Manager, NEW x, Grows(x), UNCHANGED managerVars,
         \A i : x \notin {New(i), Gone(i)},
         ~(x.cmd = "Send" /\ x.message.tag = "RpcCall")
  PROVE  Announced'
<1> DEFINE n == Len(Line)
<1>1. /\ n \in Nat /\ DOMAIN Line = 1 .. n /\ DOMAIN Line' = 1 .. n + 1
      /\ \A k \in 1 .. n : k \in 1 .. n + 1 /\ Line'[k] = Line[k]
      /\ n + 1 \in 1 .. n + 1 /\ Line'[n + 1] = x
      /\ \A k \in 1 .. n + 1 : k \in 1 .. n \/ k = n + 1
  BY DEF Grows
<1> HIDE DEF n
<1>2. GivenOut'
  BY <1>1 DEF Announced, GivenOut, managerVars
<1>3. ASSUME NEW i \in Nat
      PROVE  Told(i)' <=> Told(i)
  BY <1>1 DEF Told, Says, New, Gone
<1>4. EventsTellBuffers'
  <2>1. \A i \in 0 .. next_buffer_index : i \in DOMAIN buffers <=> Told(i)
    BY DEF Announced, EventsTellBuffers, Told
  <2>2. \A i \in 0 .. next_buffer_index' : i \in DOMAIN buffers' <=> Told(i)'
    BY <2>1, <1>3 DEF managerVars, Manager
  <2> QED
    BY <2>2 DEF EventsTellBuffers, Told
<1>5. IndicesUsedOnce'
  BY <1>1 DEF Announced, IndicesUsedOnce
<1> QED
  BY <1>2, <1>4, <1>5 DEF Announced

LEMMA WhenABufferIsNew ==
  ASSUME Announced, Manager, Grows(New(next_buffer_index)),
         DOMAIN buffers' = DOMAIN buffers \cup {next_buffer_index},
         next_buffer_index' = next_buffer_index + 1
  PROVE  Announced'
<1> DEFINE n == Len(Line)
<1>0. PICK new \in Nat : new = next_buffer_index
  BY DEF Manager
<1>1. /\ n \in Nat /\ DOMAIN Line = 1 .. n /\ DOMAIN Line' = 1 .. n + 1
      /\ \A k \in 1 .. n : k \in 1 .. n + 1 /\ Line'[k] = Line[k]
      /\ n + 1 \in 1 .. n + 1 /\ Line'[n + 1] = New(new)
      /\ \A k \in 1 .. n + 1 : k \in 1 .. n \/ k = n + 1
  BY <1>0 DEF Grows
<1>2. /\ new \in Nat /\ DOMAIN buffers \subseteq Nat
      /\ new \notin DOMAIN buffers
      /\ \A k \in 1 .. n : Line[k] \notin {New(new), Gone(new)}
  BY <1>0, <1>1 DEF Announced, GivenOut, Manager
<1>3. \A a, b : /\ New(a) # Gone(b)
                /\ New(a) = New(b) => a = b
  BY AnnouncementsDiffer
<1>4. GivenOut'
  <2>1. \A i \in DOMAIN buffers' : i < next_buffer_index'
    BY <1>0, <1>2 DEF Announced, GivenOut
  <2>2. ASSUME NEW k \in 1 .. n + 1, NEW i \in Nat, Line'[k] \in {New(i), Gone(i)}
        PROVE  i < next_buffer_index'
    <3>1. CASE k \in 1 .. n
      <4>1. i < new
        BY <3>1, <2>2, <1>0, <1>1 DEF Announced, GivenOut
      <4> QED
        BY <4>1, <1>0, <1>2
    <3>2. CASE k = n + 1
      <4>1. New(new) = New(i) \/ New(new) = Gone(i)
        BY <3>2, <2>2, <1>1
      <4>3. i = new
        BY <4>1, <1>3
      <4> QED
        BY <4>3, <1>0, <1>2
    <3> QED
      BY <3>1, <3>2, <1>1
  <2> HIDE DEF n
  <2> QED
    BY <2>1, <2>2, <1>1 DEF GivenOut
<1> HIDE DEF n
<1>5. ASSUME NEW i \in Nat, i # new
      PROVE  Told(i)' <=> Told(i)
  BY <1>1, <1>3, <1>5, ToldByCommands
<1>6. Told(new)'
  <2>1. \A l \in 1 .. n + 1 : ~(l > n + 1)
    BY <1>1
  <2> QED
    BY <1>1, <1>3, <2>1, ToldByCommands
<1>7. EventsTellBuffers'
  <2>1. \A i \in 0 .. new : i \in DOMAIN buffers <=> Told(i)
    BY <1>0 DEF Announced, EventsTellBuffers, Told
  <2>2. ASSUME NEW i \in 0 .. new + 1
        PROVE  i \in DOMAIN buffers' <=> Told(i)'
    <3>1. CASE i \in 0 .. new /\ i # new
      BY <3>1, <2>1, <1>0, <1>2, <1>5
    <3>2. CASE i = new
      BY <3>2, <1>0, <1>2, <1>6
    <3>3. CASE i = new + 1
      <4>1. i \in Nat /\ i # new /\ ~(i < new) /\ i \notin DOMAIN buffers'
        BY <3>3, <1>0, <1>2 DEF Announced, GivenOut
      <4>2. ~Told(i)
        BY <4>1, <1>0, <1>1, ToldByCommands DEF Announced, GivenOut
      <4> QED
        BY <4>1, <4>2, <1>5
    <3> QED
      BY <3>1, <3>2, <3>3, <1>2
  <2> QED
    BY <2>2, <1>0 DEF EventsTellBuffers, Told
<1>8. IndicesUsedOnce'
  BY <1>1, <1>2 DEF Announced, IndicesUsedOnce
<1> QED
  BY <1>4, <1>7, <1>8 DEF Announced

LEMMA WhenABufferIsGone ==
  ASSUME Announced, Manager, NEW old \in DOMAIN buffers, Grows(Gone(old)),
         DOMAIN buffers' = DOMAIN buffers \ {old},
         next_buffer_index' = next_buffer_index
  PROVE  Announced'
<1> DEFINE n == Len(Line)
<1>1. /\ n \in Nat /\ DOMAIN Line = 1 .. n /\ DOMAIN Line' = 1 .. n + 1
      /\ \A k \in 1 .. n : k \in 1 .. n + 1 /\ Line'[k] = Line[k] /\ n + 1 > k
      /\ n + 1 \in 1 .. n + 1 /\ Line'[n + 1] = Gone(old)
      /\ \A k \in 1 .. n + 1 : k \in 1 .. n \/ k = n + 1
  BY DEF Grows
<1> HIDE DEF n
<1>3. \A a, b : /\ New(a) # Gone(b)
                /\ Gone(a) = Gone(b) => a = b
  BY AnnouncementsDiffer
<1>9. \A k \in 1 .. n : n + 1 > k
  BY <1>1
<1>4. GivenOut'
  <2>1. ASSUME NEW k \in 1 .. n + 1, NEW i \in Nat, Line'[k] \in {New(i), Gone(i)}
        PROVE  i < next_buffer_index
    <3>1. CASE k \in 1 .. n
      BY <3>1, <2>1, <1>1 DEF Announced, GivenOut
    <3>2. CASE k = n + 1
      <4>1. Gone(old) = New(i) \/ Gone(old) = Gone(i)
        BY <3>2, <2>1, <1>1
      <4>2. old = i
        BY <4>1, <1>3
      <4> QED
        BY <4>2 DEF Announced, GivenOut
    <3> QED
      BY <3>1, <3>2, <1>1
  <2> QED
    BY <2>1, <1>1 DEF Announced, GivenOut
<1>5. ASSUME NEW i \in Nat, i # old
      PROVE  Told(i)' <=> Told(i)
  BY <1>1, <1>3, <1>5, ToldByCommands
<1>6. ~Told(old)'
  BY <1>1, <1>3, <1>9, ToldByCommands
<1>7. EventsTellBuffers'
  <2>1. \A i \in 0 .. next_buffer_index : i \in DOMAIN buffers <=> Told(i)
    BY DEF Announced, EventsTellBuffers, Told
  <2>2. \A i \in 0 .. next_buffer_index' : i \in DOMAIN buffers' <=> Told(i)'
    BY <2>1, <1>5, <1>6 DEF Manager
  <2> QED
    BY <2>2 DEF EventsTellBuffers, Told
<1>8. Gone(old).message.function # "on.buffer.new"
  BY DEF Gone, Send, Event
<1>10. IndicesUsedOnce'
  BY <1>1, <1>8 DEF Announced, IndicesUsedOnce
<1> QED
  BY <1>4, <1>7, <1>10 DEF Announced

-----------------------------------------------------------------------------
(***************************************************************************)
(* The types.                                                              *)
(***************************************************************************)
LEMMA MessageTypes ==
  /\ \A c \in Calls : \A r \in Result : Send(RpcResponse(c, r)) \in Command
  /\ \A i \in Nat : New(i) \in Command /\ Gone(i) \in Command
  /\ \A c \in Calls : /\ Received("RpcCall", c) \in Command
                      /\ Received("RpcCancel", c) \in Command
<1>1. \A c \in Calls : \A r \in Result : RpcResponse(c, r) \in Outgoing
  BY DEF RpcResponse, Outgoing
<1>2. \A i \in Nat : /\ Event("on.buffer.new", i) \in Outgoing
                    /\ Event("on.buffer.deleted", i) \in Outgoing
  BY DEF Event, Outgoing
<1>3. \A m \in Outgoing : Send(m) \in Command
  BY DEF Send, Command
<1> QED
  BY <1>1, <1>2, <1>3 DEF New, Gone, Received, Command

LEMMA ResultTypes ==
  /\ \A i \in Nat : Created(i) \in Result
  /\ \A c \in Calls : Content(c) \in Result
  /\ \A I \in SUBSET Nat : Listed(I) \in Result
  /\ {Deleted, InvalidArgs, Io, NotHandled} \subseteq Result
  BY DEF Result, Created, Content, Listed

LEMMA UnchangingTypes ==
  ASSUME TypeOK, NEW r \in Request, ~Creates(r), ~Removes(r)
  PROVE  GuardOf(r) \in {"none", "read", "write"} /\ Unchanging(r) \in Result
<1>1. GuardOf(r) \in {"none", "read", "write"}
  BY DEF GuardOf
<1>2. CASE r.rpc \in {"malformed", "open"}
  BY <1>1, <1>2, ResultTypes DEF Unchanging
<1>3. CASE r.rpc = "list"
  <2>1. Unchanging(r) = Listed(DOMAIN buffers)
    BY <1>3 DEF Unchanging
  <2> QED
    BY <2>1, <1>1, ResultTypes DEF TypeOK
<1>4. CASE r.rpc \in {"delete", "get_content"} /\ r.buffer_index \notin DOMAIN buffers
  <2>1. Unchanging(r) = InvalidArgs
    BY <1>4 DEF Unchanging
  <2> QED
    BY <2>1, <1>1, ResultTypes
<1>5. CASE r.rpc \in {"delete", "get_content"} /\ r.buffer_index \in DOMAIN buffers
  <2>1. Unchanging(r) = Content(buffers[r.buffer_index])
    BY <1>5 DEF Unchanging
  <2> QED
    BY <2>1, <1>1, <1>5, ResultTypes DEF TypeOK
<1>6. r.rpc \in {"new", "list", "malformed", "open", "delete", "get_content"}
  BY DEF Request
<1> QED
  BY <1>1, <1>2, <1>3, <1>4, <1>5, <1>6 DEF Creates

(***************************************************************************)
(* What Work leaves in the buffers, in the line and in the worker.         *)
(***************************************************************************)
WorkerType == [call : Calls, guard : {"none", "read", "write"},
               result : Result \cup {None}]

BufferTypes ==
  DOMAIN buffers \subseteq Nat /\ \A i \in DOMAIN buffers : buffers[i] \in Calls

Creation ==
  /\ commands' = Append(commands, New(next_buffer_index))
  /\ DOMAIN buffers' = DOMAIN buffers \cup {next_buffer_index}
  /\ next_buffer_index' = next_buffer_index + 1

Removal ==
  \E i \in DOMAIN buffers :
    /\ commands' = Append(commands, Gone(i))
    /\ DOMAIN buffers' = DOMAIN buffers \ {i}
    /\ next_buffer_index' = next_buffer_index

LEMMA WhatWorkDoes ==
  ASSUME TypeOK, Asked, Work
  PROVE  /\ Creation \/ Removal \/ UNCHANGED <<commands, managerVars>>
         /\ worker' \in WorkerType /\ worker'.call = worker.call
         /\ BufferTypes'
<1>1. worker \in WorkerType /\ worker.call \in Calls
  BY DEF TypeOK, Work, WorkerType
<1> DEFINE c == worker.call
           r == request[c]
<1>2. r \in Request /\ c \in Calls
  BY <1>1 DEF TypeOK, Asked, Work
<1>3. \A g \in {"none", "read", "write"} : \A x \in Result :
         /\ [worker EXCEPT !.guard = g, !.result = x] \in WorkerType
         /\ [worker EXCEPT !.guard = g, !.result = x].call = worker.call
  BY <1>1 DEF WorkerType
<1>4. BufferTypes /\ next_buffer_index \in Nat
  BY DEF TypeOK, BufferTypes
<1> HIDE DEF c, r
<1>5. CASE new_buffer(c)
  <2>1. Creation
    BY <1>5 DEF new_buffer, NextIndex, Creation, New
  <2>2. BufferTypes'
    BY <1>5, <1>2, <1>4 DEF new_buffer, NextIndex, BufferTypes
  <2>3. worker' = [worker EXCEPT !.guard = "write", !.result = Created(next_buffer_index)]
    BY <1>5 DEF new_buffer, NextIndex
  <2>4. Created(next_buffer_index) \in Result
    BY <1>4, ResultTypes
  <2> QED
    BY <2>1, <2>2, <2>3, <2>4, <1>3
<1>6. CASE Removes(r) /\ delete_buffer(r.buffer_index)
  <2>1. Removal
    BY <1>6 DEF Removes, delete_buffer, Announce, Removal, Gone
  <2>2. BufferTypes'
    BY <1>6, <1>4 DEF delete_buffer, BufferTypes
  <2>3. worker' = [worker EXCEPT !.guard = "write", !.result = Deleted]
    BY <1>6 DEF delete_buffer
  <2>4. Deleted \in Result
    BY ResultTypes
  <2> QED
    BY <2>1, <2>2, <2>3, <2>4, <1>3
<1>7. CASE /\ ~Creates(r) /\ ~Removes(r)
           /\ worker' = [worker EXCEPT !.guard = GuardOf(r), !.result = Unchanging(r)]
           /\ UNCHANGED <<commands, managerVars>>
  <2>1. GuardOf(r) \in {"none", "read", "write"} /\ Unchanging(r) \in Result
    BY <1>2, <1>7, UnchangingTypes
  <2>2. BufferTypes'
    BY <1>7, <1>4 DEF BufferTypes, managerVars
  <2> QED
    BY <2>1, <2>2, <1>3, <1>7
<1> QED
  BY <1>5, <1>6, <1>7 DEF Work, c, r

-----------------------------------------------------------------------------
(***************************************************************************)
(* One lemma per action.                                                   *)
(***************************************************************************)
LEMMA Queues ==
  ASSUME TypeOK
  PROVE  /\ to_server \in Seq(Outgoing) /\ commands \in Seq(Command)
         /\ pool \in Seq(Calls) /\ Manager
  BY DEF TypeOK, Manager

LEMMA KeepsLine ==
  ASSUME Announced, UNCHANGED <<to_server, commands, managerVars>>
  PROVE  Announced'
<1>1. Stays
  BY DEF Stays, Line
<1> QED
  BY <1>1, WhenItStays

LEMMA OnArrival ==
  ASSUME TypeOK, Announced, NEW tag \in {"RpcCall", "RpcCancel"}, NEW c \in Calls,
         commands' = Append(commands, Received(tag, c)),
         UNCHANGED <<to_server, managerVars>>
  PROVE  Announced'
<1> DEFINE x == Received(tag, c)
<1>1. x \in Command /\ x.cmd = "Received"
  BY MessageTypes DEF Received
<1>2. \A i : New(i).cmd = "Send" /\ Gone(i).cmd = "Send"
  BY DEF New, Gone, Send
<1> HIDE DEF x
<1>3. Grows(x)
  BY <1>1, Queues, LineGrows DEF x
<1> QED
  BY <1>1, <1>2, <1>3, Queues, WhenItGrowsQuietly

LEMMA OnCall ==
  ASSUME IInv, NEW c \in Calls, Call(c)
  PROVE  IInv'
<1>1. Announced'
  BY OnArrival DEF IInv, Call
<1>2. Received("RpcCall", c) \in Command /\ Received("RpcCall", c).call = c
  BY MessageTypes DEF Received
<1>3. TypeOK'
  BY <1>2 DEF IInv, TypeOK, Call, loopVars, managerVars
<1>4. PICK r \in Request : request' = [request EXCEPT ![c] = r]
  BY DEF Call
<1>5. \A d \in Calls : request[d] # None => request'[d] # None
  BY <1>4, NoneAssumption DEF IInv, TypeOK
<1>6. request'[c] # None
  BY <1>4, NoneAssumption DEF IInv, TypeOK
<1>7. \A k \in DOMAIN commands : commands[k].cmd = "Received" => commands[k].call \in Calls
  BY DEF IInv, TypeOK, Command
<1>8. Asked'
  <2>1. ASSUME NEW k \in DOMAIN commands', commands'[k].cmd = "Received"
        PROVE  request'[commands'[k].call] # None
    <3>1. CASE k \in DOMAIN commands /\ commands'[k] = commands[k]
      BY <3>1, <2>1, <1>5, <1>7 DEF IInv, Asked
    <3>2. CASE commands'[k] = Received("RpcCall", c)
      BY <3>2, <1>2, <1>6
    <3>3. commands \in Seq(Command) /\ commands' = Append(commands, Received("RpcCall", c))
      BY Queues DEF IInv, Call
    <3> QED
      BY <3>1, <3>2, <3>3, <1>2
  <2>2. pool' = pool /\ worker' = worker /\ pool \in Seq(Calls)
    BY Queues DEF IInv, Call
  <2>3. worker # None => worker.call \in Calls
    BY DEF IInv, TypeOK
  <2> QED
    BY <2>1, <2>2, <2>3, <1>5 DEF IInv, Asked
<1> QED
  BY <1>1, <1>3, <1>8 DEF IInv

LEMMA OnCancel ==
  ASSUME IInv, NEW c \in Calls, Cancel(c)
  PROVE  IInv'
<1>1. Announced'
  BY OnArrival DEF IInv, Cancel
<1>2. Received("RpcCancel", c) \in Command /\ Received("RpcCancel", c).call = c
  BY MessageTypes DEF Received
<1>3. TypeOK'
  BY <1>2 DEF IInv, TypeOK, Cancel, loopVars, managerVars
<1>4. Asked'
  <2>1. commands \in Seq(Command) /\ commands' = Append(commands, Received("RpcCancel", c))
    BY Queues DEF IInv, Cancel
  <2> QED
    BY <2>1, <1>2 DEF IInv, Asked, Cancel
<1> QED
  BY <1>1, <1>3, <1>4 DEF IInv

LEMMA OnTake ==
  ASSUME IInv, NEW cmd, Takes(cmd)
  PROVE  /\ Head(commands) \in Command /\ Head(commands) = commands[1]
         /\ Head(commands).cmd = cmd /\ 1 \in DOMAIN commands
         /\ commands' \in Seq(Command)
         /\ \A k \in DOMAIN commands' :
              k + 1 \in DOMAIN commands /\ commands'[k] = commands[k + 1]
  BY Queues DEF IInv, Takes

LEMMA OnReceived ==
  ASSUME IInv, Takes("Received"), UNCHANGED to_server
  PROVE  Announced'
<1>1. Loses(Len(to_server) + 1)
  BY Queues, LineLoses, OnTake DEF IInv, Takes
<1>2. UNCHANGED managerVars
  BY DEF Takes, managerVars
<1> QED
  BY <1>1, <1>2, Queues, WhenItLoses DEF IInv

LEMMA OnHandleRpcCall ==
  ASSUME IInv, HandleRpcCall
  PROVE  IInv'
<1>1. Announced'
  BY OnReceived DEF HandleRpcCall
<1>2. Head(commands) \in Command /\ Head(commands).cmd = "Received"
  BY OnTake DEF HandleRpcCall
<1>3. Head(commands).call \in Calls /\ request[Head(commands).call] # None
  <2>1. Head(commands).call \in Calls
    BY <1>2 DEF Command
  <2> QED
    BY <2>1, <1>2, OnTake DEF IInv, Asked, HandleRpcCall
<1>4. TypeOK'
  BY <1>3, OnTake DEF IInv, TypeOK, HandleRpcCall, Takes, managerVars
<1>5. Asked'
  <2>1. \A k \in DOMAIN pool' : \/ k \in DOMAIN pool /\ pool'[k] = pool[k]
                               \/ pool'[k] = Head(commands).call
    BY <1>3, Queues DEF IInv, HandleRpcCall
  <2> QED
    BY <2>1, <1>3, OnTake DEF IInv, Asked, HandleRpcCall, Takes
<1> QED
  BY <1>1, <1>4, <1>5 DEF IInv

LEMMA OnHandleRpcCancel ==
  ASSUME IInv, HandleRpcCancel
  PROVE  IInv'
<1>1. Announced'
  BY OnReceived DEF HandleRpcCancel
<1>4. TypeOK'
  BY OnTake DEF IInv, TypeOK, HandleRpcCancel, Takes, managerVars, Reached
<1>5. Asked'
  BY OnTake DEF IInv, Asked, HandleRpcCancel, Takes
<1> QED
  BY <1>1, <1>4, <1>5 DEF IInv

LEMMA OnHandleSend ==
  ASSUME IInv, HandleSend
  PROVE  IInv'
<1>1. Announced'
  <2>1. Stays
    BY Queues, LineMoves, OnTake DEF IInv, HandleSend, Takes
  <2> QED
    BY <2>1, WhenItStays DEF IInv, HandleSend, Takes
<1>2. Head(commands).message \in Outgoing
  BY OnTake DEF HandleSend, Command
<1>4. TypeOK'
  BY <1>2, OnTake DEF IInv, TypeOK, HandleSend, Takes, managerVars
<1>5. Asked'
  BY OnTake DEF IInv, Asked, HandleSend, Takes
<1> QED
  BY <1>1, <1>4, <1>5 DEF IInv

LEMMA OnStart ==
  ASSUME IInv, Start
  PROVE  IInv'
<1>1. Announced'
  BY KeepsLine DEF IInv, Start, loopVars
<1>2. /\ Head(pool) \in Calls /\ Head(pool) = pool[1] /\ 1 \in DOMAIN pool
      /\ pool' \in Seq(Calls)
      /\ \A k \in DOMAIN pool' : k + 1 \in DOMAIN pool /\ pool'[k] = pool[k + 1]
  BY Queues DEF IInv, Start
<1>3. worker' \in WorkerType /\ worker'.call = pool[1]
  BY <1>2 DEF Start, WorkerType
<1>4. TypeOK'
  BY <1>2, <1>3 DEF IInv, TypeOK, Start, loopVars, managerVars, WorkerType
<1>5. Asked'
  BY <1>2, <1>3 DEF IInv, Asked, Start, loopVars
<1> QED
  BY <1>1, <1>4, <1>5 DEF IInv

LEMMA OnWork ==
  ASSUME IInv, Work
  PROVE  IInv'
<1>1. /\ Creation \/ Removal \/ UNCHANGED <<commands, managerVars>>
      /\ worker' \in WorkerType /\ worker'.call = worker.call
      /\ BufferTypes'
  BY WhatWorkDoes DEF IInv
<1>2. /\ to_server \in Seq(Outgoing) /\ commands \in Seq(Command)
      /\ Manager /\ to_server' = to_server
  BY Queues DEF IInv, Work
<1>3. CASE Creation
  <2> DEFINE x == New(next_buffer_index)
  <2>1. x \in Command /\ commands' = Append(commands, x) /\ x.cmd = "Send"
    BY <1>2, <1>3, MessageTypes DEF Creation, Manager, New, Send
  <2>2. Announced'
    <3>1. Grows(x)
      <4> HIDE DEF x
      <4> QED
        BY <2>1, <1>2, LineGrows
    <3> QED
      BY <3>1, <1>2, <1>3, WhenABufferIsNew DEF IInv, Creation
  <2> HIDE DEF x
  <2>3. /\ commands' \in Seq(Command)
        /\ \A k \in DOMAIN commands' : \/ k \in DOMAIN commands /\ commands'[k] = commands[k]
                                       \/ commands'[k] = x
    BY <2>1, <1>2
  <2>6. next_buffer_index' \in Nat
    BY <1>2, <1>3 DEF Creation, Manager
  <2>4. TypeOK'
    BY <2>3, <2>6, <1>1 DEF IInv, TypeOK, Work, BufferTypes, WorkerType
  <2>5. Asked'
    BY <2>1, <2>3, <1>1 DEF IInv, Asked, Work
  <2> QED
    BY <2>2, <2>4, <2>5 DEF IInv
<1>4. CASE Removal
  <2>1. PICK i \in DOMAIN buffers : /\ commands' = Append(commands, Gone(i))
                                   /\ DOMAIN buffers' = DOMAIN buffers \ {i}
                                   /\ next_buffer_index' = next_buffer_index
    BY <1>4 DEF Removal
  <2> DEFINE x == Gone(i)
  <2>2. x \in Command /\ x.cmd = "Send"
    BY <1>2, MessageTypes DEF Manager, Gone, Send
  <2>3. Announced'
    <3>1. Grows(x)
      <4>1. commands' = Append(commands, x)
        BY <2>1
      <4> HIDE DEF x
      <4> QED
        BY <4>1, <2>2, <1>2, LineGrows
    <3> QED
      BY <3>1, <1>2, <2>1, WhenABufferIsGone DEF IInv
  <2>6. commands' = Append(commands, x)
    BY <2>1
  <2> HIDE DEF x
  <2>7. /\ commands' \in Seq(Command)
        /\ \A k \in DOMAIN commands' : \/ k \in DOMAIN commands /\ commands'[k] = commands[k]
                                       \/ commands'[k] = x
    BY <2>2, <2>6, <1>2
  <2>4. TypeOK'
    BY <2>1, <2>7, <1>1 DEF IInv, TypeOK, Work, BufferTypes, WorkerType
  <2>5. Asked'
    BY <2>2, <2>7, <1>1 DEF IInv, Asked, Work
  <2> QED
    BY <2>3, <2>4, <2>5 DEF IInv
<1>5. CASE UNCHANGED <<commands, managerVars>>
  <2>1. Announced'
    BY <1>2, <1>5, KeepsLine DEF IInv
  <2>2. TypeOK'
    BY <1>1, <1>5 DEF IInv, TypeOK, Work, BufferTypes, WorkerType, managerVars
  <2>3. Asked'
    BY <1>1, <1>5 DEF IInv, Asked, Work
  <2> QED
    BY <2>1, <2>2, <2>3 DEF IInv
<1> QED
  BY <1>1, <1>3, <1>4, <1>5

LEMMA OnAbort ==
  ASSUME IInv, Abort
  PROVE  IInv'
<1>1. Announced'
  BY KeepsLine DEF IInv, Abort, loopVars
<1>2. TypeOK' /\ Asked'
  BY DEF IInv, TypeOK, Asked, Abort, loopVars, managerVars
<1> QED
  BY <1>1, <1>2 DEF IInv

LEMMA OnFinish ==
  ASSUME IInv, finish
  PROVE  IInv'
<1>1. /\ to_server \in Seq(Outgoing) /\ commands \in Seq(Command)
      /\ Manager /\ UNCHANGED <<to_server, managerVars>>
  BY Queues DEF IInv, finish
<1>2. CASE UNCHANGED commands
  <2>1. Announced'
    BY <1>1, <1>2, KeepsLine DEF IInv
  <2>2. TypeOK' /\ Asked'
    BY <1>2 DEF IInv, TypeOK, Asked, finish, managerVars
  <2> QED
    BY <2>1, <2>2 DEF IInv
<1>3. CASE commands' = Append(commands, Send(RpcResponse(worker.call, worker.result)))
  <2> DEFINE x == Send(RpcResponse(worker.call, worker.result))
  <2>1. worker.call \in Calls /\ worker.result \in Result
    BY DEF IInv, TypeOK, finish
  <2>2. x \in Command /\ commands' = Append(commands, x)
    BY <2>1, <1>3, MessageTypes
  <2>3. x.cmd = "Send" /\ x.message.tag = "RpcResponse"
    BY DEF Send, RpcResponse
  <2>4. \A i : New(i).message.tag = "RpcCall" /\ Gone(i).message.tag = "RpcCall"
    BY DEF New, Gone, Send, Event
  <2> HIDE DEF x
  <2>9. PICK y \in Command : y = x
    BY <2>2
  <2>5. Announced'
    <3>1. Grows(y)
      BY <2>2, <2>9, <1>1, LineGrows
    <3> QED
      BY <3>1, <2>3, <2>4, <2>9, <1>1, WhenItGrowsQuietly DEF IInv
  <2>6. /\ commands' \in Seq(Command)
        /\ \A k \in DOMAIN commands' : \/ k \in DOMAIN commands /\ commands'[k] = commands[k]
                                       \/ commands'[k] = x
    BY <2>2, <1>1
  <2>7. TypeOK'
    BY <2>6 DEF IInv, TypeOK, finish, managerVars
  <2>8. Asked'
    BY <2>3, <2>6 DEF IInv, Asked, finish
  <2> QED
    BY <2>5, <2>7, <2>8 DEF IInv
<1> QED
  BY <1>2, <1>3 DEF finish

-----------------------------------------------------------------------------
LEMMA Invariance == Spec => []IInv
<1>1. Init => IInv
  <2> SUFFICES ASSUME Init
               PROVE  IInv
    OBVIOUS
  <2>1. Line = <<>>
    BY DEF Init, Line
  <2>2. TypeOK
    <3>1. request \in [Calls -> Request \cup {None}]
      BY DEF Init
    <3>2. commands \in Seq(Command) /\ to_server \in Seq(Outgoing) /\ pool \in Seq(Calls)
      BY DEF Init
    <3>3. DOMAIN buffers = {}
      BY DEF Init
    <3> QED
      BY <3>1, <3>2, <3>3 DEF Init, TypeOK
  <2>3. Asked
    BY DEF Init, Asked
  <2>4. Announced
    BY <2>1 DEF Init, Announced, GivenOut, EventsTellBuffers, IndicesUsedOnce
  <2> QED
    BY <2>2, <2>3, <2>4 DEF IInv
<1>2. IInv /\ [Next]_vars => IInv'
  <2> SUFFICES ASSUME IInv, [Next]_vars
               PROVE  IInv'
    OBVIOUS
  <2>1. CASE UNCHANGED vars
    <3>1. Announced'
      BY <2>1, KeepsLine DEF IInv, vars, loopVars, managerVars
    <3>2. TypeOK' /\ Asked'
      BY <2>1 DEF IInv, TypeOK, Asked, vars, loopVars, managerVars
    <3> QED
      BY <3>1, <3>2 DEF IInv
  <2>2. ASSUME NEW c \in Calls, Call(c)
        PROVE  IInv'
    BY <2>2, OnCall
  <2>3. ASSUME NEW c \in Calls, Cancel(c)
        PROVE  IInv'
    BY <2>3, OnCancel
  <2>4. CASE handle
    BY <2>4, OnHandleRpcCall, OnHandleRpcCancel, OnHandleSend DEF handle
  <2>5. CASE Handler
    BY <2>5, OnStart, OnWork, OnAbort, OnFinish DEF Handler
  <2> QED
    BY <2>1, <2>2, <2>3, <2>4, <2>5 DEF Next
<1> QED
  BY <1>1, <1>2, PTL DEF Spec

(***************************************************************************)
(* The fields of the rpc loop, the pool and the BuffersManager keep their  *)
(* types, and every answer is one that the RPC may give.                   *)
(***************************************************************************)
THEOREM TypeCorrectness == Spec => []TypeOK
  BY Invariance, PTL DEF IInv

(***************************************************************************)
(* However calls, cancels and failures mix, a plugin that follows the      *)
(* announcements knows which buffers exist (BuffersManager::new_buffer and *)
(* delete_buffer).                                                         *)
(***************************************************************************)
THEOREM AnnouncementsAreTrue == Spec => []EventsTellBuffers
<1>1. IInv => EventsTellBuffers
  BY DEF IInv, Announced
<1> QED
  BY <1>1, Invariance, PTL

(***************************************************************************)
(* An index names one buffer for ever: it is announced at most once.       *)
(***************************************************************************)
THEOREM IndicesAreNotReused == Spec => []IndicesUsedOnce
<1>1. IInv => IndicesUsedOnce
  BY DEF IInv, Announced
<1> QED
  BY <1>1, Invariance, PTL
=============================================================================
