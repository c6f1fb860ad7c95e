-------------------------- MODULE Lifecycle_proofs --------------------------
(* The life of a server, for any number of processes that are started one    *)
(* after the other and anything that clients do.                             *)
EXTENDS Lifecycle, TLAPS

\* A process that has its Server and did not panic.
Alive == main \notin {"off", "launch failed", "panicked"}

Both == {"swiboe", "bridge"}

\* What has been joined ended without a panic, and the phases of main join in turn.
Joins ==
    /\ Alive => /\ "bridge" \in joined => bridge = "ended"
                /\ "swiboe" \in joined => swiboe = "ended"
    /\ main \in {"shutdown:join_swiboe", "wait:join_swiboe"} => "bridge" \in joined
    /\ main = "wait:remove_file" => Both \subseteq joined
    /\ Alive /\ returned => Both \subseteq joined

\* The event loop ends only by the Quit of a shutdown.
QuitIsAsked ==
    Alive => /\ \A i \in DOMAIN bridge_commands : bridge_commands[i] = "Quit" => asked
             /\ bridge = "ended" => asked
             /\ returned => asked

\* The file of the socket: there until wait_for_shutdown returns.
SocketFile ==
    /\ main = "off" => (socket <=> crashed)
    /\ main = "launch failed" => socket /\ crashed
    /\ main = "launching" => ~crashed
    /\ main \notin {"off", "launch failed"} => (socket <=> ~returned)

Inv == TypeOK /\ Joins /\ QuitIsAsked /\ SocketFile /\ PanicsForAReason

SwiboeCommand == {"Quit", "Client", "SendDataFailed", "call", "exit", "bad"}
BridgeCommand == {"Quit", "SendData"}

\* The type invariant in three parts.
StatesOK ==
    /\ main \in Stopping \cup {"off", "launching", "launch failed", "holds", "panicked"}
    /\ joined \subseteq Both
    /\ "swiboe" \in joined => swiboe # "running"
    /\ "bridge" \in joined => bridge # "running"
    /\ swiboe \in Thread /\ bridge \in Thread
    /\ socket \in BOOLEAN /\ asked \in BOOLEAN /\ returned \in BOOLEAN
    /\ crashed \in BOOLEAN

CountersOK == starts \in 0 .. MaxStarts /\ events \in 0 .. MaxEvents

QueuesOK == commands \in Seq(SwiboeCommand) /\ bridge_commands \in Seq(BridgeCommand)

LEMMA TypeOKParts == TypeOK <=> StatesOK /\ CountersOK /\ QueuesOK
BY DEF TypeOK, StatesOK, CountersOK, QueuesOK, Both, SwiboeCommand, BridgeCommand

LEMMA TypeOKPartsNext == TypeOK' <=> StatesOK' /\ CountersOK' /\ QueuesOK'
BY DEF TypeOK, StatesOK, CountersOK, QueuesOK, Both, SwiboeCommand, BridgeCommand

\* Nothing is in a queue that was not in it or sent.
LEMMA QueueFacts ==
    ASSUME NEW S, NEW q \in Seq(S), NEW c \in S, NEW thread
    PROVE  /\ Sent(q, thread, c) \in Seq(S)
           /\ Append(q, c) \in Seq(S)
           /\ \A i \in DOMAIN Sent(q, thread, c) :
                 Sent(q, thread, c)[i] = c \/ \E j \in DOMAIN q : Sent(q, thread, c)[i] = q[j]
           /\ q # <<>> => /\ Tail(q) \in Seq(S) /\ Head(q) \in S
                          /\ \A i \in DOMAIN Tail(q) : \E j \in DOMAIN q : Tail(q)[i] = q[j]
                          /\ \E j \in DOMAIN q : Head(q) = q[j]
<1>1. /\ Append(q, c) \in Seq(S) /\ Len(q) \in Nat /\ DOMAIN q = 1 .. Len(q)
      /\ DOMAIN Append(q, c) = 1 .. Len(q) + 1
      /\ \A i \in 1 .. Len(q) : Append(q, c)[i] = q[i]
      /\ Append(q, c)[Len(q) + 1] = c
  OBVIOUS
<1>2. \A i \in DOMAIN Append(q, c) : Append(q, c)[i] = c \/ \E j \in DOMAIN q : Append(q, c)[i] = q[j]
  BY <1>1
<1>3. ASSUME q # <<>>
      PROVE  /\ Tail(q) \in Seq(S) /\ Head(q) \in S
             /\ \A i \in DOMAIN Tail(q) : \E j \in DOMAIN q : Tail(q)[i] = q[j]
             /\ \E j \in DOMAIN q : Head(q) = q[j]
  <2>1. /\ Tail(q) \in Seq(S) /\ Head(q) = q[1] /\ 1 \in DOMAIN q /\ Head(q) \in S
        /\ DOMAIN Tail(q) = 1 .. Len(q) - 1
        /\ \A i \in DOMAIN Tail(q) : Tail(q)[i] = q[i + 1] /\ i + 1 \in DOMAIN q
    BY <1>1, <1>3
  <2> QED
    BY <2>1
<1> QED
  BY <1>1, <1>2, <1>3 DEF Sent

LEMMA EmptyQueue ==
    ASSUME NEW S
    PROVE  <<>> \in Seq(S) /\ DOMAIN <<>> = {}
OBVIOUS

LEMMA InitInv == Init => Inv
<1> SUFFICES ASSUME Init PROVE Inv
  OBVIOUS
<1>1. TypeOK
  <2>1. StatesOK
    BY DEF Init, StatesOK, Stopping, Thread
  <2>4. CountersOK
    BY LifecycleAssumption DEF Init, CountersOK
  <2>2. <<>> \in Seq(SwiboeCommand) /\ <<>> \in Seq(BridgeCommand)
    BY EmptyQueue
  <2>3. QueuesOK
    BY <2>2 DEF Init, QueuesOK
  <2> QED
    BY <2>1, <2>3, <2>4, TypeOKParts
<1> QED
  BY <1>1, EmptyQueue DEF Init, Inv, Joins, QuitIsAsked, SocketFile, PanicsForAReason, Alive, Both

\* The queues keep their types.
LEMMA QueuesTyped ==
    ASSUME Inv, [Next]_vars
    PROVE  commands' \in Seq(SwiboeCommand) /\ bridge_commands' \in Seq(BridgeCommand)
<1>1. commands \in Seq(SwiboeCommand) /\ bridge_commands \in Seq(BridgeCommand)
  BY DEF Inv, TypeOK, SwiboeCommand, BridgeCommand
<1>2. CASE launch
  BY <1>1, <1>2, EmptyQueue DEF launch, threads, SwiboeCommand, BridgeCommand, Sent
<1>3. CASE launched
  BY <1>1, <1>3, EmptyQueue DEF launched, threads, SwiboeCommand, BridgeCommand, Sent
<1>4. CASE shutdown
  BY <1>1, <1>4, EmptyQueue DEF shutdown, Sent, SwiboeCommand, BridgeCommand
<1>5. CASE wait_for_shutdown
  BY <1>1, <1>5, EmptyQueue DEF wait_for_shutdown, threads, SwiboeCommand, BridgeCommand, Sent
<1>6. CASE join_bridge
  BY <1>1, <1>6, EmptyQueue DEF join_bridge, join, Sent, SwiboeCommand, BridgeCommand
<1>7. CASE join_swiboe
  BY <1>1, <1>7, EmptyQueue DEF join_swiboe, join, threads, SwiboeCommand, BridgeCommand, Sent
<1>8. CASE remove_file
  BY <1>1, <1>8, EmptyQueue DEF remove_file, threads, SwiboeCommand, BridgeCommand, Sent
<1>9. CASE exit
  BY <1>1, <1>9, EmptyQueue DEF exit, SwiboeCommand, BridgeCommand, Sent
<1>10. CASE connection
  <2>1. Append(commands, "Client") \in Seq(SwiboeCommand)
    BY <1>1 DEF SwiboeCommand
  <2> QED
    BY <1>1, <1>10, <2>1 DEF connection, tell_swiboe
<1>11. CASE call
  BY <1>1, <1>11, EmptyQueue DEF call, Sent, SwiboeCommand, BridgeCommand
<1>12. CASE notify
  <2>1. Append(commands, "SendDataFailed") \in Seq(SwiboeCommand)
    BY <1>1 DEF SwiboeCommand
  <2>2. bridge_commands # <<>> => Tail(bridge_commands) \in Seq(BridgeCommand)
    BY <1>1
  <2> QED
    BY <1>1, <1>12, <2>1, <2>2 DEF notify, tell_swiboe
<1>13. CASE handle
  <2>1. commands # <<>> /\ Tail(commands) \in Seq(SwiboeCommand)
    BY <1>1, <1>13 DEF handle
  <2>2. Append(Tail(commands), "Quit") \in Seq(SwiboeCommand)
    BY <2>1 DEF SwiboeCommand
  <2>3. Sent(bridge_commands, bridge, "SendData") \in Seq(BridgeCommand)
    BY <1>1, QueueFacts DEF BridgeCommand
  <2> QED
    BY <1>1, <1>13, <2>1, <2>2, <2>3 DEF handle, answer
<1>14. CASE UNCHANGED vars
  BY <1>1, <1>14, EmptyQueue DEF vars, threads, SwiboeCommand, BridgeCommand, Sent
<1> QED
  BY <1>2, <1>3, <1>4, <1>5, <1>6, <1>7, <1>8, <1>9, <1>10, <1>11, <1>12, <1>13, <1>14 DEF Next, Main

\* What the queue of the event loop holds was in it before or is not a Quit, unless
\* shutdown sends one.
LEMMA QuitsKept ==
    ASSUME Inv, [Next]_vars, ~shutdown
    PROVE  \A i \in DOMAIN bridge_commands' : bridge_commands'[i] = "Quit" =>
              \E j \in DOMAIN bridge_commands : bridge_commands[j] = "Quit"
<1>1. bridge_commands \in Seq(BridgeCommand)
  BY DEF Inv, TypeOK, BridgeCommand
<1>2. CASE notify
  BY <1>1, <1>2, QueueFacts DEF notify, BridgeCommand
<1>3. CASE handle
  <2>1. bridge_commands' \in {bridge_commands, Sent(bridge_commands, bridge, "SendData")}
    BY <1>3 DEF handle, answer
  <2>2. "SendData" \in BridgeCommand
    BY DEF BridgeCommand
  <2>3. \A i \in DOMAIN Sent(bridge_commands, bridge, "SendData") :
           Sent(bridge_commands, bridge, "SendData")[i] = "Quit" =>
              \E j \in DOMAIN bridge_commands : bridge_commands[j] = "Quit"
    BY <1>1, <2>2, QueueFacts
  <2>4. CASE bridge_commands' = bridge_commands
    BY <2>4
  <2>5. CASE bridge_commands' = Sent(bridge_commands, bridge, "SendData")
    BY <2>3, <2>5
  <2> QED
    BY <2>1, <2>4, <2>5
<1>4. CASE launch \/ exit
  BY <1>4, EmptyQueue DEF launch, exit
<1>5. CASE UNCHANGED bridge_commands
  BY <1>5
<1>6. CASE launched \/ wait_for_shutdown \/ Main \/ connection \/ call \/ UNCHANGED vars
  BY <1>5, <1>6 DEF launched, wait_for_shutdown, Main, join_bridge, join_swiboe, remove_file,
                    connection, call, vars, threads
<1> QED
  BY <1>2, <1>3, <1>4, <1>6 DEF Next

\* The rest of the type invariant.
\* So do the counters.
LEMMA CountersTyped ==
    ASSUME Inv, [Next]_vars
    PROVE  CountersOK'
<1>1. CountersOK
  BY TypeOKParts DEF Inv
<1>2. \/ UNCHANGED <<starts, events>>
      \/ UNCHANGED starts /\ events < MaxEvents /\ events' = events + 1
      \/ starts < MaxStarts /\ starts' = starts + 1 /\ events' = 0
  BY DEF Next, launch, launched, shutdown, wait_for_shutdown, Main, join_bridge, join_swiboe,
         remove_file, exit, connection, call, notify, handle, vars
<1> QED
  BY <1>1, <1>2, LifecycleAssumption DEF CountersOK

LEMMA StatesTyped ==
    ASSUME Inv, [Next]_vars
    PROVE  TypeOK'
<1> SUFFICES StatesOK'
  BY QueuesTyped, CountersTyped, TypeOKPartsNext DEF QueuesOK
<1>1. StatesOK
  BY TypeOKParts DEF Inv
<1>2. CASE launch
  BY <1>1, <1>2
     DEF launch, threads, StatesOK, Both, Thread, Stopping
<1>3. CASE launched
  BY <1>1, <1>3
     DEF launched, threads, StatesOK, Both, Thread, Stopping
<1>4. CASE shutdown
  BY <1>1, <1>4
     DEF shutdown, StatesOK, Both, Thread, Stopping
<1>5. CASE wait_for_shutdown
  BY <1>1, <1>5
     DEF wait_for_shutdown, threads, StatesOK, Both, Thread, Stopping
<1>6. CASE join_bridge
  BY <1>1, <1>6
     DEF join_bridge, join, StatesOK, Both, Thread, Stopping
<1>7. CASE join_swiboe
  BY <1>1, <1>7
     DEF join_swiboe, join, threads, StatesOK, Both, Thread, Stopping
<1>8. CASE remove_file
  BY <1>1, <1>8
     DEF remove_file, threads, StatesOK, Both, Thread, Stopping
<1>9. CASE exit
  BY <1>1, <1>9
     DEF exit, StatesOK, Both, Thread, Stopping
<1>10. CASE connection
  BY <1>1, <1>10
     DEF connection, tell_swiboe, StatesOK, Both, Thread, Stopping
<1>11. CASE call
  BY <1>1, <1>11
     DEF call, StatesOK, Both, Thread, Stopping
<1>12. CASE notify
  BY <1>1, <1>12
     DEF notify, tell_swiboe, StatesOK, Both, Thread, Stopping
<1>13. CASE handle
  BY <1>1, <1>13
     DEF handle, answer, StatesOK, Both, Thread, Stopping
<1>14. CASE UNCHANGED vars
  BY <1>1, <1>14
     DEF vars, threads, StatesOK, Both, Thread, Stopping
<1> QED
  BY <1>2, <1>3, <1>4, <1>5, <1>6, <1>7, <1>8, <1>9, <1>10, <1>11, <1>12, <1>13, <1>14 DEF Next, Main

\* What relates the states of the threads.
LEMMA NextInv == Inv /\ [Next]_vars => Inv'
<1> SUFFICES ASSUME Inv, [Next]_vars PROVE Inv'
  OBVIOUS
<1> USE DEF Alive, Both
<1> DEFINE QuitsAsked == \A i \in DOMAIN bridge_commands : bridge_commands[i] = "Quit" => asked
<1>1. TypeOK'
  BY StatesTyped
<1>2. ~shutdown => \A i \in DOMAIN bridge_commands' : bridge_commands'[i] = "Quit" =>
              \E j \in DOMAIN bridge_commands : bridge_commands[j] = "Quit"
  BY QuitsKept
<1>3. CASE launch
  <2>1. /\ bridge_commands' = <<>> /\ joined' = {} /\ returned' = FALSE /\ crashed' = crashed
        /\ \/ main' = "launch failed" /\ socket /\ UNCHANGED <<swiboe, bridge, socket>>
           \/ main' = "launching" /\ ~socket /\ swiboe' = "running" /\ bridge' = "running" /\ socket'
        /\ main = "off"
    BY <1>3, TypeOKParts DEF launch, threads, Inv, StatesOK
  <2>2. DOMAIN bridge_commands' = {}
    BY <2>1, EmptyQueue
  <2>3. QuitIsAsked'
    BY <2>1, <2>2 DEF QuitIsAsked
  <2>4. (Joins /\ SocketFile)'
    BY <2>1 DEF Inv, Joins, SocketFile
  <2>5. PanicsForAReason'
    BY <2>1 DEF Inv, PanicsForAReason
  <2> QED
    BY <1>1, <2>3, <2>4, <2>5 DEF Inv
<1>4. CASE launched
  BY <1>1, <1>4
     DEF launched, threads, Inv, TypeOK, Thread, Joins, QuitIsAsked, SocketFile, PanicsForAReason
<1>5. CASE shutdown
  BY <1>1, <1>5
     DEF shutdown, Inv, TypeOK, Thread, Joins, QuitIsAsked, SocketFile, PanicsForAReason
<1>6. CASE wait_for_shutdown
  BY <1>1, <1>6
     DEF wait_for_shutdown, threads, Inv, TypeOK, Thread, Joins, QuitIsAsked, SocketFile, PanicsForAReason
<1>7. CASE join_bridge
  BY <1>1, <1>7
     DEF join_bridge, join, Inv, TypeOK, Thread, Joins, QuitIsAsked, SocketFile, PanicsForAReason
<1>8. CASE join_swiboe
  BY <1>1, <1>8
     DEF join_swiboe, join, threads, Inv, TypeOK, Thread, Joins, QuitIsAsked, SocketFile, PanicsForAReason
<1>9. CASE remove_file
  BY <1>1, <1>9
     DEF remove_file, threads, Inv, TypeOK, Thread, Joins, QuitIsAsked, SocketFile, PanicsForAReason
<1>10. CASE exit
  BY <1>1, <1>10
     DEF exit, Inv, TypeOK, Thread, Joins, QuitIsAsked, SocketFile, PanicsForAReason
<1>11. CASE connection
  BY <1>1, <1>11
     DEF connection, tell_swiboe, Inv, TypeOK, Thread, Joins, QuitIsAsked, SocketFile, PanicsForAReason
<1>12. CASE call
  BY <1>1, <1>12
     DEF call, Inv, TypeOK, Thread, Joins, QuitIsAsked, SocketFile, PanicsForAReason
<1>13. CASE notify
  <2>1. Head(bridge_commands) = "Quit" => \E j \in DOMAIN bridge_commands : bridge_commands[j] = "Quit"
    <3>1. bridge_commands \in Seq(BridgeCommand) /\ bridge_commands # <<>>
      BY <1>13, TypeOKParts DEF notify, Inv, QueuesOK
    <3> QED
      BY <3>1, QueueFacts DEF BridgeCommand
  <2>2. \A i \in DOMAIN bridge_commands' : bridge_commands'[i] = "Quit"
             => \E j \in DOMAIN bridge_commands : bridge_commands[j] = "Quit"
    BY <1>2, <1>13 DEF notify, shutdown
  <2>3. UNCHANGED <<main, joined, swiboe, socket, asked, returned, crashed>> /\ bridge = "running"
        /\ \/ bridge' = "ended" /\ Head(bridge_commands) = "Quit"
           \/ bridge' = bridge
           \/ bridge' = "panicked" /\ swiboe # "running"
    BY <1>13 DEF notify, tell_swiboe
  <2>4. (QuitIsAsked /\ PanicsForAReason)'
    BY <2>1, <2>2, <2>3 DEF Inv, QuitIsAsked, PanicsForAReason
  <2>5. (Joins /\ SocketFile)'
    BY <2>3 DEF Inv, Joins, SocketFile
  <2> QED
    BY <1>1, <2>4, <2>5 DEF Inv
<1>14. CASE handle
  <2>1. UNCHANGED <<main, joined, bridge, socket, asked, returned, crashed>>
        /\ swiboe = "running" /\ swiboe' \in Thread
    BY <1>1, <1>14 DEF handle, TypeOK
  <2>2. \A i \in DOMAIN bridge_commands' : bridge_commands'[i] = "Quit"
             => \E j \in DOMAIN bridge_commands : bridge_commands[j] = "Quit"
    BY <1>2, <2>1 DEF shutdown, Inv, TypeOK
  <2> QED
    BY <1>1, <2>1, <2>2 DEF Inv, TypeOK, Joins, QuitIsAsked, SocketFile, PanicsForAReason
<1>15. CASE UNCHANGED vars
  BY <1>1, <1>15
     DEF vars, threads, Inv, TypeOK, Thread, Joins, QuitIsAsked, SocketFile, PanicsForAReason
<1> QED
  BY <1>3, <1>4, <1>5, <1>6, <1>7, <1>8, <1>9, <1>10, <1>11, <1>12, <1>13, <1>14, <1>15 DEF Next, Main

\* The inductive invariant of a server's life.
THEOREM Invariance == Spec => []Inv
BY InitInv, NextInv, PTL DEF Spec

\* The queues and the states of the threads keep their types, and what was joined has
\* ended.
THEOREM TypeCorrectness == Spec => []TypeOK
<1>1. Inv => TypeOK
  BY DEF Inv
<1> QED
  BY <1>1, Invariance, PTL

\* A shutdown that returns leaves nothing behind, however it meets exits, panics and
\* traffic.
THEOREM ShutdownIsClean == Spec => []StoppedCleanly
<1>1. Inv => StoppedCleanly
  BY DEF Inv, TypeOK, Joins, QuitIsAsked, SocketFile, StoppedCleanly, Alive, Both
<1> QED
  BY <1>1, Invariance, PTL

\* A server can be launched again unless its predecessor died.
THEOREM RestartAfterShutdown == Spec => []LaunchFailsAfterCrash
<1>1. Inv => LaunchFailsAfterCrash
  BY DEF Inv, SocketFile, LaunchFailsAfterCrash
<1> QED
  BY <1>1, Invariance, PTL

\* No panic of the thread that holds the Server comes out of nothing.
THEOREM PanicsAreExplained == Spec => []PanicsForAReason
<1>1. Inv => PanicsForAReason
  BY DEF Inv
<1> QED
  BY <1>1, Invariance, PTL

=============================================================================
