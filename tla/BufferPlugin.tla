---------------------------- MODULE BufferPlugin ----------------------------
(***************************************************************************)
(* The buffer plugin (src/plugin/buffer) as it runs inside the server's    *)
(* process: a client whose rpc loop (src/client/rpc_loop.rs) hands every   *)
(* call to a thread pool with one thread, where a handler works on the     *)
(* BuffersManager under an RwLock and answers through its Context          *)
(* (src/client/rpc/server.rs).                                             *)
(*                                                                         *)
(*   swiboe --commands--> rpc loop --pool--> worker                        *)
(*   swiboe <--to_server-- rpc loop <--commands-- worker                   *)
(*                                                                         *)
(* A handler takes three steps: it starts, works under the lock, and       *)
(* finishes; in between the rpc loop may hear that the call is cancelled.  *)
(* The content of a buffer is named by the call that has created it.       *)
(***************************************************************************)
EXTENDS Naturals, Sequences, FiniteSets

CONSTANTS
  Calls,     \* the calls, numbered in the order in which they are made
  Indices,   \* the buffer indices that callers ask for
  None,      \* no request, no worker, no result
  MaxCancels \* bound: calls that are cancelled

(***************************************************************************)
(* The requests of the five RPCs.  A malformed request has arguments that  *)
(* serde cannot read, for any of them; the uri of buffer.open names a file *)
(* that can be read, one that cannot, or is not a file:// uri.             *)
(***************************************************************************)
Request == [rpc : {"new", "list", "malformed"}]
             \cup [rpc : {"open"}, uri : {"file", "unreadable", "other"}]
             \cup [rpc : {"delete", "get_content"}, buffer_index : Indices]

(***************************************************************************)
(* rpc::Result                                                             *)
(***************************************************************************)
Created(index) == [kind |-> "Ok", buffer_index |-> index]
Content(content) == [kind |-> "Ok", content |-> content]
Listed(indices) == [kind |-> "Ok", buffer_indices |-> indices]
Deleted == [kind |-> "Ok"]
InvalidArgs == [kind |-> "Err", error |-> "InvalidArgs"]
Io == [kind |-> "Err", error |-> "Io"]
NotHandled == [kind |-> "NotHandled"]

Result == [kind : {"Ok"}, buffer_index : Nat]
            \cup [kind : {"Ok"}, content : Calls]
            \cup [kind : {"Ok"}, buffer_indices : SUBSET Nat]
            \cup {Deleted, InvalidArgs, Io, NotHandled}

ASSUME NumbersAssumption == Indices \subseteq Nat /\ Calls \subseteq Nat
ASSUME BoundsAssumption == MaxCancels \in Nat
ASSUME NoneAssumption == None \notin Calls \cup Request \cup Result

(***************************************************************************)
(* ipc::Message, to and from the plugin                                    *)
(***************************************************************************)
RpcResponse(call, result) ==
  [tag |-> "RpcResponse", call |-> call, result |-> result]
Event(name, index) ==
  [tag |-> "RpcCall", function |-> name, buffer_index |-> index]

Outgoing == [tag : {"RpcResponse"}, call : Calls, result : Result]
              \cup [tag : {"RpcCall"}, buffer_index : Nat,
                    function : {"on.buffer.new", "on.buffer.deleted"}]

(***************************************************************************)
(* rpc_loop::Command; Send stands for OutgoingCall too.                    *)
(***************************************************************************)
Received(tag, call) == [cmd |-> "Received", tag |-> tag, call |-> call]
Send(message) == [cmd |-> "Send", message |-> message]

Command == [cmd : {"Received"}, tag : {"RpcCall", "RpcCancel"}, call : Calls]
             \cup [cmd : {"Send"}, message : Outgoing]

VARIABLES
  process,            \* "running" or "aborted"
  request,            \* the requests of the calls made so far
  cancelled,          \* the calls that swiboe has cancelled
  (* rpc loop *)
  commands,
  running_rpc_calls,  \* the calls that the loop can still cancel
  to_server,          \* everything sent to swiboe
  (* thread pool *)
  pool,               \* calls that wait for the thread
  worker,             \* the call, the lock guard and the result of the handler
  told,               \* Contexts with a Cancel in their channel
  (* BuffersManager *)
  poisoned,           \* whether the RwLock is poisoned
  buffers, next_buffer_index

loopVars == <<commands, running_rpc_calls, to_server>>
managerVars == <<buffers, next_buffer_index>>
vars == <<process, request, cancelled, loopVars, pool, worker, told, poisoned,
          managerVars>>

Init ==
  /\ process = "running"
  /\ request = [c \in Calls |-> None] /\ cancelled = {}
  /\ commands = <<>> /\ running_rpc_calls = {} /\ to_server = <<>>
  /\ pool = <<>> /\ worker = None /\ told = {}
  /\ poisoned = FALSE
  /\ buffers = [i \in {} |-> None] /\ next_buffer_index = 0

-----------------------------------------------------------------------------
(***************************************************************************)
(* swiboe forwards a call, and later perhaps its cancellation.             *)
(***************************************************************************)
Call(c) ==
  /\ process = "running"
  /\ request[c] = None
  /\ \A d \in Calls : d < c => request[d] # None
  /\ \E r \in Request : request' = [request EXCEPT ![c] = r]
  /\ commands' = Append(commands, Received("RpcCall", c))
  /\ UNCHANGED <<process, cancelled, running_rpc_calls, to_server, pool, worker,
                 told, poisoned, managerVars>>

Cancel(c) ==
  /\ process = "running"
  /\ request[c] # None /\ c \notin cancelled
  /\ Cardinality(cancelled) < MaxCancels
  /\ cancelled' = cancelled \cup {c}
  /\ commands' = Append(commands, Received("RpcCancel", c))
  /\ UNCHANGED <<process, request, running_rpc_calls, to_server, pool, worker,
                 told, poisoned, managerVars>>

-----------------------------------------------------------------------------
(***************************************************************************)
(* The rpc loop.  The entry of a call that is over stays until a cancel.   *)
(***************************************************************************)
Takes(cmd) ==
  /\ process = "running"
  /\ commands # <<>>
  /\ Head(commands).cmd = cmd
  /\ commands' = Tail(commands)
  /\ UNCHANGED <<process, request, cancelled, worker, poisoned, managerVars>>

HandleRpcCall ==
  /\ Takes("Received")
  /\ Head(commands).tag = "RpcCall"
  /\ running_rpc_calls' = running_rpc_calls \cup {Head(commands).call}
  /\ pool' = Append(pool, Head(commands).call)
  /\ UNCHANGED <<to_server, told>>

(***************************************************************************)
(* The Contexts that a cancel reaches: the channel of the entry, if any.   *)
(***************************************************************************)
Reached_All(call, running) == running

Reached(call, running) == {call} \cap running

HandleRpcCancel ==
  /\ Takes("Received")
  /\ Head(commands).tag = "RpcCancel"
  /\ told' = told \cup Reached(Head(commands).call, running_rpc_calls)
  /\ running_rpc_calls' = running_rpc_calls \ {Head(commands).call}
  /\ UNCHANGED <<to_server, pool>>

HandleSend ==
  /\ Takes("Send")
  /\ to_server' = Append(to_server, Head(commands).message)
  /\ UNCHANGED <<running_rpc_calls, pool, told>>

handle == HandleRpcCall \/ HandleRpcCancel \/ HandleSend

-----------------------------------------------------------------------------
(***************************************************************************)
(* The handlers.                                                           *)
(***************************************************************************)
Start ==
  /\ process = "running"
  /\ worker = None
  /\ pool # <<>>
  /\ worker' = [call |-> Head(pool), guard |-> "none", result |-> None]
  /\ pool' = Tail(pool)
  /\ UNCHANGED <<process, request, cancelled, loopVars, told, poisoned,
                 managerVars>>

(***************************************************************************)
(* Which lock the handler takes, and holds while it calls finish().        *)
(***************************************************************************)
GuardOf(r) ==
  CASE r.rpc \in {"new", "delete"} -> "write"
    [] r.rpc = "open" /\ r.uri = "file" -> "write"
    [] r.rpc \in {"get_content", "list"} -> "read"
    [] OTHER -> "none"

(***************************************************************************)
(* BuffersManager::new_buffer and delete_buffer: an index is never used    *)
(* again, and every change is announced by a call to swiboe.               *)
(***************************************************************************)
NextIndex_Lowest(index, used) == CHOOSE i \in 0 .. index : i \notin used

NextIndex(index, used) == index

new_buffer(c) ==
  LET index == NextIndex(next_buffer_index, DOMAIN buffers) IN
  /\ buffers' = [i \in DOMAIN buffers \cup {index} |->
                   IF i = index THEN c ELSE buffers[i]]
  /\ next_buffer_index' = next_buffer_index + 1
  /\ commands' = Append(commands, Send(Event("on.buffer.new", index)))
  /\ worker' = [worker EXCEPT !.guard = "write", !.result = Created(index)]

Announce_Nothing(queue, index) == queue

Announce(queue, index) ==
  Append(queue, Send(Event("on.buffer.deleted", index)))

delete_buffer(index) ==
  /\ buffers' = [i \in DOMAIN buffers \ {index} |-> buffers[i]]
  /\ commands' = Announce(commands, index)
  /\ worker' = [worker EXCEPT !.guard = "write", !.result = Deleted]
  /\ UNCHANGED next_buffer_index

(***************************************************************************)
(* What a handler answers without a change to the buffers.                 *)
(***************************************************************************)
Unchanging(r) ==
  CASE r.rpc = "malformed" -> InvalidArgs
    [] r.rpc = "open" -> IF r.uri = "other" THEN NotHandled ELSE Io
    [] r.rpc = "list" -> Listed(DOMAIN buffers)
    [] r.rpc \in {"delete", "get_content"} /\ r.buffer_index \notin DOMAIN buffers ->
         InvalidArgs
    [] OTHER -> Content(buffers[r.buffer_index])

Creates(r) == r.rpc = "new" \/ (r.rpc = "open" /\ r.uri = "file")
Removes(r) == r.rpc = "delete" /\ r.buffer_index \in DOMAIN buffers

Work ==
  /\ process = "running"
  /\ worker # None
  /\ worker.result = None
  /\ LET c == worker.call
         r == request[c]
     IN
     /\ GuardOf(r) = "none" \/ ~poisoned
     /\ \/ Creates(r) /\ new_buffer(c)
        \/ Removes(r) /\ delete_buffer(r.buffer_index)
        \/ /\ ~Creates(r) /\ ~Removes(r)
           /\ worker' = [worker EXCEPT !.guard = GuardOf(r), !.result = Unchanging(r)]
           /\ UNCHANGED <<commands, managerVars>>
  /\ UNCHANGED <<process, request, cancelled, running_rpc_calls, to_server, pool,
                 told, poisoned>>

(***************************************************************************)
(* lock().unwrap() on a poisoned lock: unwinding drops the Context, which  *)
(* is alive and panics again; a panic during a panic aborts the process.   *)
(***************************************************************************)
Abort ==
  /\ process = "running"
  /\ worker # None
  /\ worker.result = None
  /\ GuardOf(request[worker.call]) # "none" /\ poisoned
  /\ process' = "aborted"
  /\ UNCHANGED <<request, cancelled, loopVars, pool, worker, told, poisoned,
                 managerVars>>

(***************************************************************************)
(* Context::finish().unwrap().  A cancelled call makes it panic: a write   *)
(* guard that is still held poisons the lock, the pool starts a new thread *)
(* and the call stays without an answer.  A cancel that comes between the  *)
(* check and the sending has the same effect as one that comes later.      *)
(***************************************************************************)
check_liveness(c) == c \notin told

finish ==
  /\ process = "running"
  /\ worker # None
  /\ worker.result # None
  /\ worker' = None
  /\ \/ /\ check_liveness(worker.call)
        /\ commands' = Append(commands, Send(RpcResponse(worker.call, worker.result)))
        /\ UNCHANGED poisoned
     \/ /\ ~check_liveness(worker.call)
        /\ poisoned' = (poisoned \/ worker.guard = "write")
        /\ UNCHANGED commands
  /\ UNCHANGED <<process, request, cancelled, running_rpc_calls, to_server, pool,
                 told, managerVars>>

Handler == Start \/ Work \/ Abort \/ finish

Next ==
  \/ \E c \in Calls : Call(c) \/ Cancel(c)
  \/ handle \/ Handler

Spec == Init /\ [][Next]_vars

(***************************************************************************)
(* The threads of the rpc loop and of the pool keep running.               *)
(***************************************************************************)
FairSpec == Spec /\ WF_vars(handle) /\ WF_vars(Handler)

-----------------------------------------------------------------------------
(***************************************************************************)
(* The types of the rpc loop's, the pool's and the manager's fields.       *)
(***************************************************************************)
TypeOK ==
  /\ process \in {"running", "aborted"}
  /\ request \in [Calls -> Request \cup {None}] /\ cancelled \subseteq Calls
  /\ commands \in Seq(Command)
  /\ running_rpc_calls \subseteq Calls /\ to_server \in Seq(Outgoing)
  /\ pool \in Seq(Calls) /\ told \subseteq Calls
  /\ worker \in [call : Calls, guard : {"none", "read", "write"},
                 result : Result \cup {None}] \cup {None}
  /\ poisoned \in BOOLEAN
  /\ next_buffer_index \in Nat
  /\ DOMAIN buffers \subseteq Nat /\ \A i \in DOMAIN buffers : buffers[i] \in Calls

(***************************************************************************)
(* Everything the plugin has sent, and is about to send, in order.  What   *)
(* the rpc loop has received stands in between and says nothing.           *)
(***************************************************************************)
Line == [k \in DOMAIN to_server |-> Send(to_server[k])] \o commands

Says(k, name, index) == Line[k] = Send(Event(name, index))

(***************************************************************************)
(* A plugin that follows on.buffer.new and on.buffer.deleted knows which   *)
(* buffers there are, whatever was cancelled or failed meanwhile.          *)
(***************************************************************************)
EventsTellBuffers ==
  \A i \in 0 .. next_buffer_index :
    i \in DOMAIN buffers <=>
      \E k \in DOMAIN Line :
        /\ Says(k, "on.buffer.new", i)
        /\ \A l \in DOMAIN Line : l > k => ~Says(l, "on.buffer.deleted", i)

(***************************************************************************)
(* An index names one buffer for ever: no two buffers are announced with   *)
(* the same index, even when the first has been deleted.                   *)
(***************************************************************************)
IndicesUsedOnce ==
  \A k, l \in DOMAIN Line :
    /\ Line[k].cmd = "Send"
    /\ Line[k].message.tag = "RpcCall"
    /\ Line[k].message.function = "on.buffer.new"
    /\ Line[l] = Line[k]
    => l = k

Answered(c) ==
  \E k \in DOMAIN Line : /\ Line[k].cmd = "Send"
                         /\ Line[k].message.tag = "RpcResponse"
                         /\ Line[k].message.call = c

(***************************************************************************)
(* Every call is answered in the end, unless it is cancelled.  One thread  *)
(* is enough: no handler waits for another.                                *)
(***************************************************************************)
EveryCallAnswered ==
  \A c \in Calls : request[c] # None ~>
     Answered(c) \/ c \in cancelled \/ process = "aborted"

=============================================================================
