------------------------------ MODULE RpcClient ------------------------------
(***************************************************************************)
(* The client library (src/src/client/): one Client with its read thread,  *)
(* rpc loop, write thread and the single thread of its pool, used by the   *)
(* thread that owns it, by a thread with a ThinClient and by the RPCs it   *)
(* serves.  Channels and sockets deliver in order (Wire shows that framing *)
(* does).  The server is external: it routes calls and responses as Server *)
(* models, and its connection may be lost at any time.                     *)
(***************************************************************************)
EXTENDS Naturals, Sequences, FiniteSets, Functions, Filter

CONSTANTS
    Contexts,      \* contexts (UUIDs) of calls
    Programs,      \* what is done in a behaviour: for each context, who calls what and
                   \* how it is used, and may the connection be lost
    MaxPartial     \* bound: partial responses of one call


VARIABLES
    client,        \* the Client: "open", the joins of its Drop, "gone" or "panicked"
    loop, reader, writer,       \* the three threads: "running", "ended" or "panicked"
    commands,      \* channel to the rpc loop
    send_queue,    \* channel to the write thread
    remote_procedures,          \* Handler: is the function of this client known
    running_function_calls,     \* Handler: calls made, with the sender of their values
    running_rpc_calls,          \* Handler: calls served, with the sender of their commands
    pool,          \* thread_pool: the jobs submitted, the running one first
    program,       \* the element of Programs this behaviour follows
    made,          \* those that were made
    open,          \* client contexts not yet consumed or dropped
    values,        \* channel of a client context
    result,        \* Context.result: has the Last response been received and not taken
    op,            \* what each calling thread is doing
    written, from_server,       \* the socket: all that was written, what is still to be read
    registered,    \* server: has core.new_rpc been handled
    running_rpcs,  \* server: calls not yet finished
    lost,          \* is the connection to the server lost
    handed,        \* history: the commands to send or to quit given to the rpc loop
    dropped,       \* history: calls received for a function not known yet
    answers,       \* history: responses the server sent to a context
    received       \* history: responses a context has read

threads == <<client, loop, reader, writer>>
queue == <<commands, handed>>
jobs == <<running_rpc_calls, dropped, pool>>
handler == <<remote_procedures, running_function_calls>>
calls == <<program, made, open, values, result, received>>
socket == <<written, from_server, answers>>
server == <<registered, running_rpcs, lost>>
vars == <<threads, queue, send_queue, handler, jobs, calls, op, socket, server>>

Users == {"owner", "thin"}          \* threads of the program with a Client, a ThinClient
Callers == Users \cup {"pool"}
Calls == [caller : Callers \cup {"other", "nobody"}, function : {"core.new_rpc", "own", "remote"},
          uses : SUBSET {"try_recv", "recv", "wait", "cancel", "drop"}]

ASSUME ClientAssumption ==
    /\ MaxPartial \in Nat
    /\ Programs \subseteq [calls : [Contexts -> Calls], lossy : BOOLEAN]

Last == 0                           \* a response: Last, or the n-th Partial
Kinds == 0 .. MaxPartial
Idle == [op |-> "idle"]
Panicked == [op |-> "panicked"]

RpcCall(c) == [type |-> "RpcCall", context |-> c]
RpcCancel(c) == [type |-> "RpcCancel", context |-> c]
Response(c, k) == [type |-> "RpcResponse", context |-> c, kind |-> k]
Message == {RpcCall(c) : c \in Contexts} \cup {RpcCancel(c) : c \in Contexts}
             \cup {Response(c, k) : c \in Contexts, k \in Kinds}

\* rpc_loop::Command.
Quit == [command |-> "Quit"]
NewRpc == [command |-> "NewRpc"]
Received(m) == [command |-> "Received", message |-> m]
OutgoingCall(c) == [command |-> "OutgoingCall", message |-> RpcCall(c)]
CancelOutgoingRpc(c) == [command |-> "CancelOutgoingRpc", message |-> RpcCancel(c)]
Send(m) == [command |-> "Send", message |-> m]
Command == {Quit, NewRpc} \cup {Received(m) : m \in Message} \cup {Send(m) : m \in Message}
             \cup {OutgoingCall(c) : c \in Contexts} \cup {CancelOutgoingRpc(c) : c \in Contexts}
Outgoing(cmd) == cmd.command \in {"OutgoingCall", "CancelOutgoingRpc", "Send"}

Init == /\ client = "open"
        /\ loop = "running" /\ reader = "running" /\ writer = "running"
        /\ commands = <<>> /\ send_queue = <<>>
        /\ remote_procedures = FALSE
        /\ running_function_calls = {} /\ running_rpc_calls = {}
        /\ pool = <<>>
        /\ program \in Programs
        /\ made = {}
        /\ open = {}
        /\ values = [c \in Contexts |-> <<>>]
        /\ result = [c \in Contexts |-> FALSE]
        /\ op = [t \in Callers |-> Idle]
        /\ written = <<>> /\ from_server = <<>>
        /\ registered = FALSE /\ running_rpcs = {} /\ lost = FALSE
        /\ handed = <<>>
        /\ dropped = {}
        /\ answers = [c \in Contexts |-> <<>>]
        /\ received = [c \in Contexts |-> <<>>]

-----------------------------------------------------------------------------
(* Handing a command to the rpc loop: Sender::send fails once it has ended. *)

Deliver(cmd) ==
    /\ loop = "running"
    /\ commands' = Append(commands, cmd)
    /\ handed' = IF Outgoing(cmd) \/ cmd = Quit THEN Append(handed, cmd) ELSE handed

\* A thread reaches its next step; a thread that panics takes no other.
Becomes(t, state) == op' = [op EXCEPT ![t] = state]

\* Context::new by thread t, which then does 'state'.
ContextNew(t, c, state) ==
    /\ c \notin made /\ program.calls[c].caller = t
    /\ \/ /\ Deliver(OutgoingCall(c))
          /\ made' = made \cup {c}
          /\ open' = open \cup {c}
          /\ Becomes(t, state)
       \/ /\ loop = "ended"                              \* expect("Command::OutgoingCall")
          /\ Becomes(t, Panicked)
          /\ UNCHANGED <<queue, made, open>>
    /\ UNCHANGED <<threads, send_queue, handler, jobs, program, values, result, received,
                   socket, server>>

\* Client::call and ThinClient::call.
Call(t, c) ==
    /\ op[t] = Idle /\ (t = "owner" => client = "open")
    /\ program.calls[c].function # "core.new_rpc"
    /\ ContextNew(t, c, Idle)

\* Client::new_rpc: call core.new_rpc, wait, then tell the rpc loop.
new_rpc(c) ==
    /\ op["owner"] = Idle /\ client = "open"
    /\ program.calls[c].function = "core.new_rpc"
    /\ ContextNew("owner", c, [op |-> "new_rpc", context |-> c])

-----------------------------------------------------------------------------
(* rpc/client.rs: the context of a call, used by the thread t that made it. *)

Held(t, c) == c \in open /\ program.calls[c].caller = t
Uses(t, c, use) == op[t] = Idle /\ Held(t, c) /\ use \in program.calls[c].uses

\* The sender of the values of c was dropped with the handler or with the command.
SenderGone(c) == /\ c \notin running_function_calls
                 /\ OutgoingCall(c) \notin Range(commands)

\* What try_recv and recv do with the next response.
TakeValue(c) ==
    /\ values[c] # <<>> /\ ~result[c]
    /\ values' = [values EXCEPT ![c] = Tail(@)]
    /\ received' = [received EXCEPT ![c] = Append(@, Head(values[c]))]

try_recv(t, c) ==
    /\ Uses(t, c, "try_recv")
    /\ TakeValue(c)
    /\ result' = [result EXCEPT ![c] = Head(values[c]) = Last]
    /\ UNCHANGED <<threads, queue, send_queue, handler, jobs, program, made, open, op, socket,
                   server>>

\* recv and wait block; the steps below are what happens while they do.
Block(t, c, how) ==
    /\ Uses(t, c, how)
    /\ Becomes(t, [op |-> how, context |-> c])
    /\ UNCHANGED <<threads, queue, send_queue, handler, jobs, calls, socket, server>>

\* wait() takes the result it finds; a second wait() finds none and reads again.
recv(t) ==
    /\ op[t].op \in {"recv", "wait", "new_rpc"}
    /\ LET c == op[t].context
           last == Head(values[c]) = Last
       IN  /\ TakeValue(c)
           /\ result' = [result EXCEPT ![c] = last /\ op[t].op = "recv"]
           /\ Becomes(t, CASE op[t].op = "recv" \/ (last /\ op[t].op = "wait") -> Idle
                           [] last /\ op[t].op = "new_rpc" -> [op |-> "NewRpc"]
                           [] OTHER -> op[t])
    /\ UNCHANGED <<threads, queue, send_queue, handler, jobs, program, made, open, socket,
                   server>>

\* Mutant: recv does not look at the result it has.
recv_returns_OnlyClosed(t) ==
    /\ op[t].op \in {"recv", "wait", "new_rpc"}
    /\ values[op[t].context] = <<>> /\ SenderGone(op[t].context)
    /\ Becomes(t, Idle)
    /\ UNCHANGED <<threads, queue, send_queue, handler, jobs, calls, socket, server>>

\* The result is there already, or the channel is closed: Ok(None), the result or Err.
recv_returns(t) ==
    /\ op[t].op \in {"recv", "wait", "new_rpc"}
    /\ LET c == op[t].context
       IN  /\ result[c] \/ (values[c] = <<>> /\ SenderGone(c))
           /\ result' = [result EXCEPT ![c] = @ /\ op[t].op # "wait"]
    /\ Becomes(t, Idle)
    /\ UNCHANGED <<threads, queue, send_queue, handler, jobs, program, made, open, values,
                   received, socket, server>>

\* The end of new_rpc.
new_rpc_ends ==
    /\ op["owner"].op = "NewRpc"
    /\ \/ Deliver(NewRpc) /\ Becomes("owner", Idle)
       \/ /\ loop = "ended"                                       \* expect("NewRpc")
          /\ Becomes("owner", Panicked)
          /\ UNCHANGED <<queue>>
    /\ UNCHANGED <<threads, send_queue, handler, jobs, calls, socket, server>>

\* Contexts are consumed by cancel(), or just dropped.
Consume(cs) ==
    /\ open' = open \ cs
    /\ values' = [c \in Contexts |-> IF c \in cs THEN <<>> ELSE values[c]]

cancel(t, c) ==
    /\ Uses(t, c, "cancel")
    /\ Consume({c})
    /\ \/ Deliver(CancelOutgoingRpc(c))
       \/ loop = "ended" /\ UNCHANGED <<commands, handed>>
    /\ UNCHANGED <<threads, send_queue, handler, jobs, program, made, result, received, op,
                   socket, server>>

DropContext(t, c) ==
    /\ Uses(t, c, "drop")
    /\ Consume({c})
    /\ UNCHANGED <<threads, queue, send_queue, handler, jobs, program, made, result, received,
                   op, socket, server>>

-----------------------------------------------------------------------------
(* rpc/server.rs: the RPC that the thread of the pool runs.                  *)

Running(j) == pool # <<>> /\ Head(pool) = j

\* check_liveness: the channel of commands is empty and open.  A Cancel is sent
\* when the entry is removed, so either way the RPC is Cancelled from then on.
Alive(j) == j \in running_rpc_calls

Updates(j) == Cardinality({i \in DOMAIN handed :
                             handed[i].command = "Send" /\ handed[i].message.context = j})

\* Context::update; an error is ignored.
update(j) ==
    /\ Running(j) /\ op["pool"] = Idle /\ Alive(j)
    /\ Updates(j) < MaxPartial
    /\ Deliver(Send(Response(j, Updates(j) + 1)))
    /\ UNCHANGED <<threads, send_queue, handler, jobs, calls, op, socket, server>>

\* Context::call of a served RPC: liveness is checked before the call is made.
check_liveness(j) ==
    /\ Running(j) /\ op["pool"] = Idle /\ Alive(j)
    /\ \E c \in Contexts \ made : program.calls[c].caller = "pool"
    /\ Becomes("pool", [op |-> "call"])
    /\ UNCHANGED <<threads, queue, send_queue, handler, jobs, calls, socket, server>>

\* If it panics, the unwinding drops the RPC's own context, which is Alive and
\* panics again: the process aborts.
NestedCall(c) ==
    /\ op["pool"].op = "call"
    /\ ContextNew("pool", c, Idle)

\* Context::finish, and the RPC returns: its contexts are dropped.
finish(j) ==
    /\ Running(j) /\ op["pool"] = Idle
    /\ \/ Alive(j) /\ Deliver(Send(Response(j, Last)))
       \/ ~Alive(j) /\ UNCHANGED <<commands, handed>>
    /\ pool' = Tail(pool)
    /\ Consume({c \in open : Held("pool", c)})
    /\ UNCHANGED <<threads, send_queue, handler, running_rpc_calls, dropped, program, made,
                   result, received, op, socket, server>>

-----------------------------------------------------------------------------
(* rpc_loop.rs: Handler::handle, one action per command.                     *)

Handling(name) == loop = "running" /\ commands # <<>> /\ Head(commands).command = name

\* Mutant: the handler outlives the loop.
LoopEnds_HandlerKept ==
    /\ loop' = "ended"
    /\ commands' = <<>>
    /\ UNCHANGED <<running_function_calls, running_rpc_calls>>

\* The thread ends: the handler and the commands that wait are dropped.
LoopEnds ==
    /\ loop' = "ended"
    /\ commands' = <<>>
    /\ running_function_calls' = {} /\ running_rpc_calls' = {}

HandleQuit ==
    /\ Handling("Quit")
    /\ LoopEnds
    /\ UNCHANGED <<client, reader, writer, handed, send_queue, remote_procedures, dropped, pool,
                   calls, op, socket, server>>

HandleNewRpc ==
    /\ Handling("NewRpc")
    /\ commands' = Tail(commands)
    /\ remote_procedures' = TRUE
    /\ UNCHANGED <<threads, handed, send_queue, running_function_calls, jobs, calls, op, socket,
                   server>>

\* A call of a function that is not known is dropped.
ReceivedCall(m) ==
    /\ IF remote_procedures
       THEN /\ running_rpc_calls' = running_rpc_calls \cup {m.context}
            /\ pool' = Append(pool, m.context)
            /\ UNCHANGED dropped
       ELSE /\ dropped' = dropped \cup {m.context}
            /\ UNCHANGED <<running_rpc_calls, pool>>
    /\ UNCHANGED values

ReceivedCancel(m) ==
    /\ running_rpc_calls' = running_rpc_calls \ {m.context}
    /\ UNCHANGED <<dropped, pool, values>>

\* Mutant: the newest response is kept, as if the channel had one place.
ReceivedResponse_Newest(m) ==
    /\ values' = IF m.context \in running_function_calls /\ m.context \in open
                 THEN [values EXCEPT ![m.context] = <<m.kind>>]
                 ELSE values
    /\ UNCHANGED <<jobs>>

\* Forwarded if the call is known; the other side may have dropped its context.
ReceivedResponse(m) ==
    /\ values' = IF m.context \in running_function_calls /\ m.context \in open
                 THEN [values EXCEPT ![m.context] = Append(@, m.kind)]
                 ELSE values
    /\ UNCHANGED <<jobs>>

HandleReceived ==
    /\ Handling("Received")
    /\ commands' = Tail(commands)
    /\ LET m == Head(commands).message
       IN  \/ m.type = "RpcCall" /\ ReceivedCall(m)
           \/ m.type = "RpcCancel" /\ ReceivedCancel(m)
           \/ m.type = "RpcResponse" /\ ReceivedResponse(m)
    /\ UNCHANGED <<threads, handed, send_queue, handler, program, made, open, result, received,
                   op, socket, server>>

\* Send, OutgoingCall and CancelOutgoingRpc: without a write thread the loop ends.
HandleOutgoing ==
    /\ loop = "running" /\ commands # <<>> /\ Outgoing(Head(commands))
    /\ IF writer = "running"
       THEN /\ send_queue' = Append(send_queue, Head(commands).message)
            /\ commands' = Tail(commands)
            /\ running_function_calls' = running_function_calls \cup
                 (IF Head(commands).command = "OutgoingCall"
                  THEN {Head(commands).message.context} ELSE {})
            /\ UNCHANGED <<loop, running_rpc_calls>>
       ELSE LoopEnds /\ UNCHANGED send_queue
    /\ UNCHANGED <<client, reader, writer, handed, remote_procedures, dropped, pool, calls, op,
                   socket, server>>

-----------------------------------------------------------------------------
(* The server, external: it routes what is written to it, in order.          *)

Here(c) == program.calls[c].caller \in Callers

\* Responses go to the caller while the call is running.
Answer(c, k) ==
    /\ from_server' = Append(from_server, Response(c, k))
    /\ answers' = [answers EXCEPT ![c] = Append(@, k)]

RouteCall(c) ==
    \/ /\ program.calls[c].function = "remote"
       /\ running_rpcs' = running_rpcs \cup {c}
       /\ UNCHANGED <<from_server, answers, registered>>
    \/ /\ program.calls[c].function = "own" /\ registered
       /\ running_rpcs' = running_rpcs \cup {c}
       /\ from_server' = Append(from_server, RpcCall(c))
       /\ UNCHANGED <<answers, registered>>
    \/ /\ program.calls[c].function = "own" /\ ~registered             \* UnknownRpc
       /\ Answer(c, Last)
       /\ UNCHANGED <<registered, running_rpcs>>
    \/ /\ program.calls[c].function = "core.new_rpc"
       /\ registered' = TRUE
       /\ Answer(c, Last)
       /\ UNCHANGED running_rpcs

Route(m) ==
    \/ m.type = "RpcCall" /\ RouteCall(m.context)
    \/ /\ m.type = "RpcCancel"
       /\ running_rpcs' = running_rpcs \ {m.context}
       /\ from_server' = IF m.context \in running_rpcs /\ program.calls[m.context].function = "own"
                         THEN Append(from_server, RpcCancel(m.context)) ELSE from_server
       /\ UNCHANGED <<answers, registered>>
    \/ /\ m.type = "RpcResponse"
       /\ IF m.context \in running_rpcs /\ Here(m.context)
          THEN Answer(m.context, m.kind) ELSE UNCHANGED <<from_server, answers>>
       /\ running_rpcs' = running_rpcs \ (IF m.kind = Last THEN {m.context} ELSE {})
       /\ UNCHANGED registered

-----------------------------------------------------------------------------
(* client/mod.rs: the read and the write thread, and Drop.                   *)

\* Mutant: the socket is shut down after the threads were joined.
ReadShut_Late == client \in {"gone", "panicked"}

ReadShut == client \in {"join_write", "join_read", "gone", "panicked"}

read_message ==
    /\ reader = "running" /\ from_server # <<>>
    /\ from_server' = Tail(from_server)
    /\ IF loop = "running"
       THEN commands' = Append(commands, Received(Head(from_server))) /\ UNCHANGED reader
       ELSE reader' = "ended" /\ UNCHANGED commands
    /\ UNCHANGED <<client, loop, writer, handed, send_queue, handler, jobs, calls, op, written,
                   answers, server>>

\* End of file or an error: the thread ends, and tells nobody.
read_fails ==
    /\ reader = "running" /\ from_server = <<>> /\ (lost \/ ReadShut)
    /\ reader' = "ended"
    /\ UNCHANGED <<client, loop, writer, queue, send_queue, handler, jobs, calls, op, socket,
                   server>>

write_message ==
    /\ writer = "running" /\ send_queue # <<>> /\ ~lost
    /\ send_queue' = Tail(send_queue)
    /\ written' = Append(written, Head(send_queue))
    /\ Route(Head(send_queue))
    /\ UNCHANGED <<threads, queue, handler, jobs, calls, op, lost>>

\* Mutant: a write that would block is an error, too.
write_fails_Early ==
    /\ writer = "running" /\ send_queue # <<>>
    /\ writer' = "panicked"
    /\ send_queue' = <<>>
    /\ UNCHANGED <<client, loop, reader, queue, handler, jobs, calls, op, socket, server>>

write_fails ==
    /\ writer = "running" /\ send_queue # <<>> /\ lost
    /\ writer' = "panicked"                                  \* expect("Writing failed")
    /\ send_queue' = <<>>
    /\ UNCHANGED <<client, loop, reader, queue, handler, jobs, calls, op, socket, server>>

\* Mutant: the thread is stopped with the rpc loop, messages may be queued.
write_thread_ends_Early ==
    /\ writer = "running" /\ loop = "ended"
    /\ writer' = "ended"
    /\ send_queue' = <<>>
    /\ UNCHANGED <<client, loop, reader, queue, handler, jobs, calls, op, socket, server>>

\* The rpc loop held the only sender of the queue.
write_thread_ends ==
    /\ writer = "running" /\ send_queue = <<>> /\ loop = "ended"
    /\ writer' = "ended"
    /\ UNCHANGED <<client, loop, reader, queue, send_queue, handler, jobs, calls, op, socket,
                   server>>

Drop ==
    /\ client = "open" /\ op["owner"] = Idle
    /\ client' = "join_loop"
    /\ \/ Deliver(Quit)
       \/ loop = "ended" /\ UNCHANGED <<commands, handed>>
    /\ UNCHANGED <<loop, reader, writer, send_queue, handler, jobs, calls, op, socket, server>>

\* A panic of the write thread is passed on by expect.
Join ==
    /\ client' = CASE client = "join_loop" /\ loop = "ended" -> "join_write"
                   [] client = "join_write" /\ writer = "ended" -> "join_read"
                   [] client = "join_write" /\ writer = "panicked" -> "panicked"
                   [] client = "join_read" /\ reader = "ended" -> "gone"
                   [] OTHER -> client
    /\ client' # client
    /\ UNCHANGED <<loop, reader, writer, queue, send_queue, handler, jobs, calls, op, socket,
                   server>>

-----------------------------------------------------------------------------
(* The other clients, external, and the connection.                          *)

\* Another client answers a call of this one.
ServerAnswers(c) ==
    /\ ~lost /\ c \in running_rpcs /\ program.calls[c].function = "remote"
    /\ \/ /\ Len(answers[c]) < MaxPartial
          /\ Answer(c, Len(answers[c]) + 1)
          /\ UNCHANGED running_rpcs
       \/ Answer(c, Last) /\ running_rpcs' = running_rpcs \ {c}
    /\ UNCHANGED <<threads, queue, send_queue, handler, jobs, calls, op, written, registered,
                   lost>>

\* Another client calls the function of this one, and may cancel the call.
ForeignCall(c) ==
    /\ ~lost /\ registered /\ c \notin made /\ program.calls[c].caller = "other"
    /\ made' = made \cup {c}
    /\ running_rpcs' = running_rpcs \cup {c}
    /\ from_server' = Append(from_server, RpcCall(c))
    /\ UNCHANGED <<threads, queue, send_queue, handler, jobs, program, open, values, result,
                   received, op, written, answers, registered, lost>>

ForeignCancel(c) ==
    /\ ~lost /\ c \in running_rpcs /\ ~Here(c)
    /\ running_rpcs' = running_rpcs \ {c}
    /\ from_server' = Append(from_server, RpcCancel(c))
    /\ UNCHANGED <<threads, queue, send_queue, handler, jobs, calls, op, written, answers,
                   registered, lost>>

ConnectionLost ==
    /\ ~lost /\ program.lossy
    /\ lost' = TRUE
    /\ \E n \in 0 .. Len(from_server) : from_server' = SubSeq(from_server, 1, n)
    /\ UNCHANGED <<threads, queue, send_queue, handler, jobs, calls, op, written, answers,
                   registered, running_rpcs>>

-----------------------------------------------------------------------------
(* The specification.                                                        *)

UserStep == \/ \E t \in Users, c \in Contexts : Call(t, c)
            \/ \E c \in Contexts : new_rpc(c)
            \/ \E t \in Callers, c \in Contexts :
                  try_recv(t, c) \/ cancel(t, c) \/ DropContext(t, c)
                    \/ \E how \in {"recv", "wait"} : Block(t, c, how)
            \/ Drop
JobStep == \/ \E j \in Contexts : update(j) \/ check_liveness(j) \/ finish(j)
           \/ \E c \in Contexts : NestedCall(c)
LoopStep == HandleQuit \/ HandleNewRpc \/ HandleReceived \/ HandleOutgoing
ReadStep == read_message \/ read_fails
WriteStep == write_message \/ write_fails \/ write_thread_ends
ServerStep == \E c \in Contexts : ServerAnswers(c)
Waiting == \E t \in Callers : recv(t) \/ recv_returns(t)

Aborted == op["pool"] = Panicked

Next == /\ ~Aborted
        /\ \/ UserStep \/ Waiting \/ new_rpc_ends \/ JobStep
           \/ LoopStep \/ ReadStep \/ WriteStep \/ Join
           \/ ServerStep \/ (\E c \in Contexts : ForeignCall(c) \/ ForeignCancel(c))
           \/ ConnectionLost

Spec == Init /\ [][Next]_vars

\* The threads run, the server and the other clients answer, and an RPC that is
\* served returns some time unless it blocks.  What the program does is its choice.
Fairness ==
    /\ WF_vars(~Aborted /\ LoopStep) /\ WF_vars(~Aborted /\ ReadStep)
    /\ WF_vars(~Aborted /\ WriteStep) /\ WF_vars(~Aborted /\ Join)
    /\ WF_vars(~Aborted /\ new_rpc_ends)
    /\ \A t \in Callers : WF_vars(~Aborted /\ (recv(t) \/ recv_returns(t)))
    /\ \A c \in Contexts : /\ WF_vars(~Aborted /\ ServerAnswers(c))
                           /\ WF_vars(~Aborted /\ NestedCall(c))
                           /\ SF_vars(~Aborted /\ finish(c))
FairSpec == Spec /\ Fairness

-----------------------------------------------------------------------------
(* Properties.                                                               *)

Blocked(t) == op[t].op \in {"recv", "wait", "new_rpc"}

\* Type invariant.
TypeOK ==
    /\ client \in {"open", "join_loop", "join_write", "join_read", "gone", "panicked"}
    /\ loop \in {"running", "ended"} /\ reader \in {"running", "ended"}
    /\ writer \in {"running", "ended", "panicked"}
    /\ commands \in Seq(Command) /\ send_queue \in Seq(Message)
    /\ remote_procedures \in BOOLEAN
    /\ running_function_calls \subseteq made /\ running_rpc_calls \subseteq made
    /\ dropped \subseteq made
    /\ pool \in Seq(made) /\ (pool = <<>> => op["pool"] = Idle)
    /\ program \in Programs /\ made \subseteq Contexts /\ open \subseteq made
    /\ values \in [Contexts -> Seq(Kinds)] /\ result \in [Contexts -> BOOLEAN]
    /\ \A t \in Callers : \/ op[t].op \in {"idle", "panicked", "call", "NewRpc"}
                          \/ Blocked(t) /\ Held(t, op[t].context)
    /\ written \in Seq(Message) /\ from_server \in Seq(Message)
    /\ registered \in BOOLEAN /\ running_rpcs \subseteq made /\ lost \in BOOLEAN
    /\ handed \in Seq(Command)
    /\ answers \in [Contexts -> Seq(Kinds)] /\ received \in [Contexts -> Seq(Kinds)]

BeforeQuit(s) == IF Quit \in Range(s)
                 THEN SubSeq(s, 1, (CHOOSE i \in DOMAIN s : s[i] = Quit) - 1) ELSE s
Messages(s) == [i \in DOMAIN s |-> s[i].message]
OutgoingCommand == {cmd \in Command : Outgoing(cmd)}

\* Whatever any thread handed to the rpc loop before Drop sent Quit is written to
\* the socket, once and in that order, however Drop races with the loop and the
\* write thread: unless writing fails, Drop loses no response and no cancel.
DropFlushes ==
    writer # "panicked" =>
        written \o send_queue \o Messages(Only(BeforeQuit(commands), OutgoingCommand))
          = Messages(BeforeQuit(handed))

\* The responses to c on their way: first those that the rpc loop is to receive.
InFlight(c) ==
    LET responses == {Response(c, k) : k \in Kinds}
        here == Messages(Only(commands, {Received(m) : m \in responses}))
        mine == here \o Only(from_server, responses)
    IN  IF loop = "running" THEN [i \in DOMAIN mine |-> mine[i].kind] ELSE <<>>

\* The responses that a context reads, together with those on their way through
\* the socket, the rpc loop and its channel, are what the server sent, in order;
\* some at the end may be missing only if the connection or the rpc loop is gone.
ResponsesInOrder ==
    \A c \in open :
        LET got == received[c] \o values[c] \o InFlight(c)
        IN  /\ Len(got) <= Len(answers[c])
            /\ got = SubSeq(answers[c], 1, Len(got))
            /\ lost \/ loop = "ended" \/ Len(got) = Len(answers[c])

\* The panics of the library: the owner's thread panics only after the connection
\* was lost, other threads only then or once Drop has begun.
PanicsForAReason ==
    /\ client = "panicked" \/ op["owner"] = Panicked \/ writer = "panicked" => lost
    /\ (\E t \in Callers : op[t] = Panicked) => lost \/ client # "open"

\* No response is to come: the last one was read and taken before, or the call was
\* received when the function was not known yet.
Over(c) == (Last \in Range(received[c]) /\ ~result[c]) \/ c \in dropped

Own(c) == program.calls[c].function = "own"

\* The pool's only thread is blocked for good: by a call that is over, or by one
\* that the pool itself is to serve.
PoolStuck == Blocked("pool") /\ (Over(op["pool"].context) \/ Own(op["pool"].context))

Unanswerable(c) == Over(c) \/ (Own(c) /\ PoolStuck)

\* recv() and wait() return, unless the connection is lost or no answer can come.
WaitReturns ==
    \A t \in Callers : Blocked(t) ~> (\/ ~Blocked(t) \/ lost \/ Aborted
                                      \/ Unanswerable(op[t].context))

\* Once the Client is being dropped, every recv() and wait() in progress returns:
\* on a lost connection, after the last response, or of an RPC that waits for itself.
DropReleasesWaiters ==
    \A t \in Callers : (client # "open" /\ Blocked(t)) ~> (~Blocked(t) \/ Aborted)

\* Drop returns (or panics): none of the joins waits for ever.
DropReturns == client # "open" ~> (client \in {"gone", "panicked"} \/ Aborted)

=============================================================================
