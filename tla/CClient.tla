------------------------------- MODULE CClient -------------------------------
(***************************************************************************)
(* The C client (src/c_client/src/lib.rs): who owns the objects that cross *)
(* the boundary to C.  The library boxes clients, contexts, results and    *)
(* strings and hands out their addresses; "owned" is what a C program has  *)
(* still to delete according to the documentation and to what the calls    *)
(* returned, "object" is what the code leaves allocated.  The program keeps *)
(* the documented rules: it passes only what it owns, and asks is_ok before *)
(* it unwraps.  update, cancelled, done and is_ok change nothing here.      *)
(***************************************************************************)
EXTENDS Naturals, FiniteSets

CONSTANT Addresses            \* bound: places for boxes; a freed one is used again

VARIABLES
    object,        \* address -> what is boxed there, or Free
    owned,         \* addresses the C program is to delete
    connection,    \* the rpc loop of the client: "none", "up", or "failed" to write
    crashed        \* a panic that crossed the boundary, and its cause

c_vars == <<object, owned, connection, crashed>>

Values == {"Ok", "Err", "NotHandled"}                            \* rpc::Result
Free == "free"
Object == {"client", "server_context", "context", "done_context", "string"} \cup Values
IsContext(a) == object[a] \in {"context", "done_context"}        \* with or without the Last

CInit == /\ object = [a \in Addresses |-> Free]
         /\ owned = {}
         /\ connection = "none"
         /\ crashed = "no"

\* The code frees the boxes "dead" and boxes o at a.
Boxes(a, o, dead) ==
    /\ object[a] = Free
    /\ object' = [b \in Addresses |-> IF b = a THEN o ELSE IF b \in dead THEN Free ELSE object[b]]
Frees(dead) == object' = [b \in Addresses |-> IF b \in dead THEN Free ELSE object[b]]

\* What the documentation says of a call: it deletes "deleted" and fills in "filled".
Owns(deleted, filled) == owned' = (owned \ deleted) \cup filled

Quietly == UNCHANGED <<connection, crashed>>

Crash(cause) == crashed' = cause /\ UNCHANGED <<object, owned, connection>>

-----------------------------------------------------------------------------
(* Clients and calls.                                                        *)

\* An error leaves 'client' unfilled, and nothing changes.
swiboe_connect(a) ==
    /\ connection = "none"
    /\ Boxes(a, "client", {}) /\ Owns({}, {a})
    /\ connection' = "up" /\ UNCHANGED crashed

\* Drop of the Client panics if its write thread did.
swiboe_disconnect(a) ==
    /\ a \in owned /\ object[a] = "client"
    /\ \/ /\ connection = "up"
          /\ Frees({a}) /\ Owns({a}, {})
          /\ connection' = "none" /\ UNCHANGED crashed
       \/ connection = "failed" /\ Crash("connection")

\* call() for both kinds of callers: Context::new expects a running rpc loop, and
\* 'client_context' is filled in only on success.
call(c) ==
    \/ connection = "up" /\ Boxes(c, "context", {}) /\ Owns({}, {c}) /\ Quietly
    \/ connection # "up" /\ Crash("connection")

swiboe_client_call_rpc(a, c) ==
    a \in owned /\ object[a] = "client" /\ call(c)

\* The liveness check of a context whose rpc loop is gone may come too early.
swiboe_server_context_call_rpc(x, c) ==
    x \in owned /\ object[x] = "server_context" /\ call(c)

\* client_context_receive with Recv or TryRecv: a partial result, the end, or nothing.
client_context_receive(c, s) ==
    /\ c \in owned /\ object[c] = "context"
    /\ \/ Boxes(s, "string", {}) /\ Owns({}, {s})
       \/ object' = [object EXCEPT ![c] = "done_context"] /\ UNCHANGED owned
    /\ Quietly

\* Mutant: an error returns before the box is taken over.
swiboe_client_context_wait_ErrorKeeps(c, r) ==
    /\ c \in owned /\ IsContext(c)
    /\ \/ \E v \in Values : Boxes(r, v, {c}) /\ Owns({c}, {r})
       \/ object[c] = "context" /\ connection # "up" /\ Owns({c}, {}) /\ UNCHANGED object
    /\ Quietly

\* Deletes the context even if the connection is gone; then there is no result.
swiboe_client_context_wait(c, r) ==
    /\ c \in owned /\ IsContext(c)
    /\ \/ \E v \in Values : Boxes(r, v, {c}) /\ Owns({c}, {r})
       \/ object[c] = "context" /\ connection # "up" /\ Frees({c}) /\ Owns({c}, {})
    /\ Quietly

swiboe_client_context_cancel(c) ==
    /\ c \in owned /\ IsContext(c)
    /\ Frees({c}) /\ Owns({c}, {})
    /\ Quietly

-----------------------------------------------------------------------------
(* Serving RPCs.                                                             *)

\* CallbackRpc::call boxes the context for the callback, on the pool's thread.
CallbackRpc(x) ==
    /\ connection = "up"
    /\ Boxes(x, "server_context", {}) /\ Owns({}, {x})
    /\ Quietly

\* Both are deleted, whether finish() is accepted or the call was cancelled.
swiboe_server_context_finish(x, r) ==
    /\ {x, r} \subseteq owned /\ object[x] = "server_context" /\ object[r] \in Values
    /\ Frees({x, r}) /\ Owns({x, r}, {})
    /\ Quietly

\* swiboe_rpc_ok, swiboe_rpc_error and swiboe_rpc_not_handled.
NewResult(r, v) ==
    /\ Boxes(r, v, {}) /\ Owns({}, {r})
    /\ Quietly

\* new_rpc() calls, waits and tells the rpc loop; its box goes to the client.
swiboe_new_rpc(a) ==
    /\ a \in owned /\ object[a] = "client"
    /\ connection = "failed" /\ Crash("connection")

-----------------------------------------------------------------------------
(* Results and strings.                                                      *)

\* For a result of which is_ok() said TRUE.
swiboe_rpc_result_unwrap(r, s) ==
    /\ r \in owned /\ object[r] = "Ok"
    /\ Boxes(s, "string", {r}) /\ Owns({r}, {s})
    /\ Quietly

\* Mutant: an error without details is unwrapped, too.
swiboe_rpc_result_unwrap_err_Details(r, s) ==
    /\ r \in owned /\ object[r] \in {"Err", "NotHandled"}
    /\ \/ object[r] = "Err" /\ Boxes(s, "string", {r}) /\ Owns({r}, {s}) /\ Quietly
       \/ object[r] = "Err" /\ Crash("details")
       \/ object[r] = "NotHandled" /\ Crash("NotHandled")

\* For a result of which is_ok() said FALSE; 'details' may stay NULL.  Only an
\* error can be unwrapped: NotHandled panics like Ok.
swiboe_rpc_result_unwrap_err(r, s) ==
    /\ r \in owned /\ object[r] \in {"Err", "NotHandled"}
    /\ \/ object[r] = "Err" /\ Boxes(s, "string", {r}) /\ Owns({r}, {s}) /\ Quietly
       \/ object[r] = "Err" /\ Frees({r}) /\ Owns({r}, {}) /\ Quietly
       \/ object[r] = "NotHandled" /\ Crash("NotHandled")

swiboe_delete_string(s) ==
    /\ s \in owned /\ object[s] = "string"
    /\ Frees({s}) /\ Owns({s}, {})
    /\ Quietly

-----------------------------------------------------------------------------
(* The write thread has failed, and the rpc loop with it (RpcClient).        *)
ConnectionFails ==
    /\ connection = "up"
    /\ connection' = "failed"
    /\ UNCHANGED <<object, owned, crashed>>

CNext == /\ crashed = "no"
         /\ \E a, b \in Addresses :
               \/ swiboe_connect(a) \/ swiboe_disconnect(a) \/ swiboe_new_rpc(a)
               \/ swiboe_client_call_rpc(a, b) \/ swiboe_server_context_call_rpc(a, b)
               \/ client_context_receive(a, b) \/ swiboe_client_context_wait(a, b)
               \/ swiboe_client_context_cancel(a)
               \/ CallbackRpc(a) \/ swiboe_server_context_finish(a, b)
               \/ \E v \in Values : NewResult(a, v)
               \/ swiboe_rpc_result_unwrap(a, b) \/ swiboe_rpc_result_unwrap_err(a, b)
               \/ swiboe_delete_string(a)
               \/ ConnectionFails

CSpec == CInit /\ [][CNext]_c_vars

-----------------------------------------------------------------------------
(* Properties.                                                               *)

Heap == {a \in Addresses : object[a] # Free}

\* Type invariant.
CTypeOK == /\ object \in [Addresses -> Object \cup {Free}]
           /\ owned \subseteq Addresses
           /\ connection \in {"none", "up", "failed"}
           /\ crashed \in {"no", "connection", "NotHandled"}

\* A C program that keeps the documented rules owns exactly what is allocated: no
\* error path leaks an object or leaves the program with the address of one that
\* is gone (and perhaps in use again).
OwnershipAgrees == Heap = owned

\* Such a program crashes only if the connection has failed or a callback races with
\* swiboe_disconnect(), or if it unwraps a result that was not handled.
CrashesForAReason ==
    /\ crashed = "connection" => connection # "up"
    /\ crashed \notin {"no", "connection"} => \E r \in owned : object[r] = "NotHandled"
=============================================================================
