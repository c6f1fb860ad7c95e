------------------------------- MODULE Server -------------------------------
(***************************************************************************)
(* How swiboe routes RPCs between its clients: the swiboe thread           *)
(* (src/server/swiboe.rs, with plugin_core.rs and the table of ApiTable),  *)
(* the connection table of the ipc bridge (ipc_bridge.rs) and, as the      *)
(* environment, clients built on the client library (src/client).          *)
(*                                                                         *)
(*   clients --to_server--> reader jobs --commands--> swiboe               *)
(*   clients <--to_client-- bridge <--ipc_bridge_commands-- swiboe         *)
(*                          bridge --SendDataFailed, Client(Dis)connected  *)
(*                                   --commands--> swiboe                  *)
(*                                                                         *)
(* Each arrow is a FIFO queue.  to_server[c] is everything between the rpc *)
(* loop of client c and the reader job of its connection (send queue,      *)
(* socket, Reader); to_client[c] everything between queue_message and the  *)
(* rpc loop of c (Writer, socket, read thread).                            *)
(***************************************************************************)
EXTENDS ApiTable, Functions

CONSTANTS
  Tokens,            \* the slots of the slab of connections
  Functions,         \* the names of the RPCs that clients implement
  Priorities,        \* the priorities they register with
  Contexts,          \* the uuids of the RPC calls, each used once
  None,              \* no connection, no running rpc, no call
  MaxSerial,         \* bound: connections accepted
  MaxDisconnects,    \* bound: clients that go away
  MaxRegistrations,  \* bound: new_rpc calls of one client for one function
  MaxUpdates         \* bound: partial responses to one call

ClientId == [serial : 1 .. MaxSerial, token : Tokens]

(***************************************************************************)
(* rpc::Call.  Its arguments never change on the way, so a message carries *)
(* the context and call[context] the rest.  core says that the function is *)
(* "core.new_rpc", whose arguments are then function and priority.         *)
(***************************************************************************)
Call == [caller : ClientId, core : {FALSE}, function : Functions]
          \cup [caller : ClientId, core : {TRUE}, function : Functions,
                priority : Priorities]

RunningRpc == [caller : ClientId, callee : ClientId]

ApiInfo == [client_id : ClientId, priority : Priorities]

(***************************************************************************)
(* rpc::ResponseKind.  Done is the Last(Ok) or Last(Err) of a handler,     *)
(* UnknownRpc the Last(Err) the server makes up itself.                    *)
(***************************************************************************)
LastKinds == {"Done", "NotHandled", "UnknownRpc"}
Kinds == {"Partial"} \cup LastKinds

(***************************************************************************)
(* ipc::Message                                                            *)
(***************************************************************************)
RpcCall(context) == [tag |-> "RpcCall", context |-> context]
RpcCancel(context) == [tag |-> "RpcCancel", context |-> context]
RpcResponse(context, kind) ==
  [tag |-> "RpcResponse", context |-> context, kind |-> kind]

Message == [tag : {"RpcCall", "RpcCancel"}, context : Contexts]
             \cup [tag : {"RpcResponse"}, context : Contexts, kind : Kinds]

(***************************************************************************)
(* The message is the call itself or its last response.                    *)
(***************************************************************************)
Carries(message, context) ==
  /\ message.context = context
  /\ \/ message.tag = "RpcCall"
     \/ message.tag = "RpcResponse" /\ message.kind \in LastKinds

(***************************************************************************)
(* ipc_bridge::Command::SendData; its other commands re-arm sockets.       *)
(***************************************************************************)
SendData(receiver, message) == [receiver |-> receiver, message |-> message]
BridgeCommand == [receiver : ClientId, message : Message]

(***************************************************************************)
(* swiboe::Command.  FromClient is RpcCall(client_id, call), RpcResponse   *)
(* and RpcCancel, which a reader job makes of the message it has read; the *)
(* last two do not say who sent them.                                      *)
(***************************************************************************)
ClientConnected(id) == [cmd |-> "ClientConnected", client |-> id]
ClientDisconnected(id) == [cmd |-> "ClientDisconnected", client |-> id]
NewRpc(id, name, priority) ==
  [cmd |-> "NewRpc", client |-> id, name |-> name, priority |-> priority]
FromClient(id, message) ==
  [cmd |-> "FromClient", client |-> id, message |-> message]
SendDataFailed(id, message) ==
  [cmd |-> "SendDataFailed", client |-> id, message |-> message]

Command == [cmd : {"ClientConnected", "ClientDisconnected"}, client : ClientId]
             \cup [cmd : {"NewRpc"}, client : ClientId, name : Functions,
                   priority : Priorities]
             \cup [cmd : {"FromClient", "SendDataFailed"}, client : ClientId,
                   message : Message]

ASSUME NoneAssumption == None \notin ClientId \cup RunningRpc \cup Call
ASSUME PrioritiesAssumption == Priorities \subseteq Nat
ASSUME BoundsAssumption == /\ MaxSerial \in Nat /\ MaxDisconnects \in Nat
                           /\ MaxRegistrations \in Nat /\ MaxUpdates \in Nat

-----------------------------------------------------------------------------
VARIABLES
  (* swiboe thread *)
  commands,            \* its queue of Commands
  api_table, clients, running_rpcs,
  (* bridge thread *)
  ipc_bridge_commands, \* its queue of SendData
  connections,         \* the slab: token -> client_id
  next_serial,
  (* sockets *)
  to_server, to_client,
  (* clients *)
  call,                \* the calls made so far
  responses,           \* what running_function_calls[context] has received
  remote_procedures,   \* the functions that the rpc loop can execute
  serving,             \* the calls whose rpc::server::Context is alive
  cancelled,           \* the calls whose caller has cancelled them
  updates,             \* partial responses made so far
  (* history *)
  unasked,             \* handlers registered when the call came, not yet asked
  dropped,             \* calls that a client received and did not know
  lost                 \* calls that were with a client when it went away

swiboeVars == <<api_table, clients, running_rpcs, unasked>>
bridgeVars == <<connections, next_serial>>
callerVars == <<call, responses, cancelled>>
calleeVars == <<remote_procedures, serving, updates, dropped, lost>>
vars == <<commands, swiboeVars, ipc_bridge_commands, bridgeVars, to_server,
          to_client, callerVars, calleeVars>>

Connected(id) == connections[id.token] = id

ServerInit ==
  /\ commands = <<>> /\ ipc_bridge_commands = <<>>
  /\ api_table = [n \in Functions |-> <<>>]
  /\ clients = {}
  /\ running_rpcs = [c \in Contexts |-> None]
  /\ connections = [t \in Tokens |-> None]
  /\ next_serial = 1

ClientInit ==
  /\ to_server = [id \in ClientId |-> <<>>]
  /\ to_client = [id \in ClientId |-> <<>>]
  /\ call = [c \in Contexts |-> None]
  /\ responses = [c \in Contexts |-> <<>>]
  /\ remote_procedures = [id \in ClientId |-> {}]
  /\ serving = [id \in ClientId |-> {}]
  /\ cancelled = {}
  /\ updates = [c \in Contexts |-> 0]
  /\ unasked = [c \in Contexts |-> {}]
  /\ dropped = {} /\ lost = {}

Init == ServerInit /\ ClientInit

-----------------------------------------------------------------------------
(***************************************************************************)
(* The ipc bridge: event loop thread and reader jobs.                      *)
(***************************************************************************)

(***************************************************************************)
(* ready() on a listener, then new_client().  insert_with takes a free     *)
(* slot of the slab, used before or not.                                   *)
(***************************************************************************)
new_client(token) ==
  LET id == [serial |-> next_serial, token |-> token] IN
  /\ next_serial <= MaxSerial
  /\ connections[token] = None
  /\ connections' = [connections EXCEPT ![token] = id]
  /\ next_serial' = next_serial + 1
  /\ commands' = Append(commands, ClientConnected(id))
  /\ UNCHANGED <<swiboeVars, ipc_bridge_commands, to_server, to_client,
                 callerVars, calleeVars>>

(***************************************************************************)
(* A reader job takes the next message from the socket of a client and     *)
(* hands it to swiboe.  The job holds the reader and the client_id, not    *)
(* the connection: it goes on after the connection is removed.             *)
(***************************************************************************)
ReadMessage(id) ==
  /\ to_server[id] # <<>>
  /\ to_server' = [to_server EXCEPT ![id] = Tail(@)]
  /\ commands' = Append(commands, FromClient(id, Head(to_server[id])))
  /\ UNCHANGED <<swiboeVars, ipc_bridge_commands, bridgeVars, to_client,
                 callerVars, calleeVars>>

(***************************************************************************)
(* The client closes its socket, or dies, and ready() sees the hang-up.    *)
(* What was on the way to the client is lost; of what it had written, the  *)
(* running reader job still reads a prefix (all, or up to a read error, or *)
(* nothing when no job is running).                                        *)
(***************************************************************************)
ReportHup_TokenOnly(queue, id) ==
  Append(queue, [cmd |-> "ClientDisconnected", client |-> id.token])

ReportHup(queue, id) == Append(queue, ClientDisconnected(id))

Disconnects ==
  (next_serial - 1) - Cardinality({t \in Tokens : connections[t] # None})

Hup(id) ==
  /\ Connected(id)
  /\ Disconnects < MaxDisconnects
  /\ connections' = [connections EXCEPT ![id.token] = None]
  /\ commands' = ReportHup(commands, id)
  /\ \E n \in 0 .. Len(to_server[id]) :
        /\ to_server' = [to_server EXCEPT ![id] = SubSeq(@, 1, n)]
        /\ lost' = lost \cup serving[id]
                       \cup {c \in Contexts :
                              \/ \E m \in Range(to_client[id]) : Carries(m, c)
                              \/ \E i \in n + 1 .. Len(to_server[id]) :
                                    Carries(to_server[id][i], c)}
  /\ to_client' = [to_client EXCEPT ![id] = <<>>]
  /\ remote_procedures' = [remote_procedures EXCEPT ![id] = {}]
  /\ serving' = [serving EXCEPT ![id] = {}]
  /\ UNCHANGED <<swiboeVars, ipc_bridge_commands, next_serial, callerVars,
                 updates, dropped>>

(***************************************************************************)
(* The test of notify(SendData): the slot of the receiver holds the        *)
(* receiver's connection, not that of a client that came later.            *)
(***************************************************************************)
IsReceiver_TokenOnly(conn, receiver) == conn # None

IsReceiver(conn, receiver) == conn = receiver

(***************************************************************************)
(* notify(SendData): the message is queued for the connection in the slot  *)
(* of the receiver if that connection is the receiver's, and comes back to *)
(* swiboe otherwise.                                                       *)
(***************************************************************************)
notify ==
  /\ ipc_bridge_commands # <<>>
  /\ ipc_bridge_commands' = Tail(ipc_bridge_commands)
  /\ LET receiver == Head(ipc_bridge_commands).receiver
         message == Head(ipc_bridge_commands).message
         conn == connections[receiver.token]
     IN  \/ /\ IsReceiver(conn, receiver)
            /\ to_client' = [to_client EXCEPT ![conn] = Append(@, message)]
            /\ UNCHANGED commands
         \/ /\ ~IsReceiver(conn, receiver)
            /\ commands' = Append(commands, SendDataFailed(receiver, message))
            /\ UNCHANGED to_client
  /\ UNCHANGED <<swiboeVars, bridgeVars, to_server, callerVars, calleeVars>>

-----------------------------------------------------------------------------
(***************************************************************************)
(* The swiboe thread: one action per Command.                              *)
(***************************************************************************)
Takes(command) ==
  /\ commands # <<>>
  /\ Head(commands).cmd = command
  /\ UNCHANGED <<bridgeVars, to_server, to_client, callerVars, calleeVars>>

(***************************************************************************)
(* running_rpc.callee = info.client_id                                     *)
(***************************************************************************)
WithCallee_Stale(rpc, info) == rpc

WithCallee(rpc, info) == [rpc EXCEPT !.callee = info.client_id]

(***************************************************************************)
(* Handler::on_rpc_response.  A final NotHandled leaves the entry in       *)
(* running_rpcs.                                                           *)
(***************************************************************************)
on_rpc_response(context, kind) ==
  LET rpc == running_rpcs[context]
      next == get_next(api_table, call[context].function, rpc.callee)
      Reply == Append(ipc_bridge_commands,
                      SendData(rpc.caller, RpcResponse(context, kind)))
  IN
  \/ /\ rpc = None
     /\ UNCHANGED <<running_rpcs, unasked, ipc_bridge_commands>>
  \/ /\ rpc # None
     /\ kind = "Partial"
     /\ ipc_bridge_commands' = Reply
     /\ UNCHANGED <<running_rpcs, unasked>>
  \/ /\ rpc # None
     /\ kind \in {"Done", "UnknownRpc"}
     /\ running_rpcs' = [running_rpcs EXCEPT ![context] = None]
     /\ ipc_bridge_commands' = Reply
     /\ UNCHANGED unasked
  \/ /\ rpc # None
     /\ kind = "NotHandled"
     /\ \E info \in next :
          /\ running_rpcs' = [running_rpcs EXCEPT ![context] =
                                              WithCallee(rpc, info)]
          /\ unasked' = [unasked EXCEPT ![context] = @ \ {info.client_id}]
          /\ ipc_bridge_commands' =
                Append(ipc_bridge_commands,
                       SendData(info.client_id, RpcCall(context)))
  \/ /\ rpc # None
     /\ kind = "NotHandled"
     /\ next = {}
     /\ ipc_bridge_commands' = Reply
     /\ UNCHANGED <<running_rpcs, unasked>>

(***************************************************************************)
(* Handler::on_rpc_cancel.  The entry stays.                               *)
(***************************************************************************)
on_rpc_cancel(context) ==
  /\ UNCHANGED <<running_rpcs, unasked>>
  /\ \/ /\ running_rpcs[context] = None
        /\ UNCHANGED ipc_bridge_commands
     \/ /\ running_rpcs[context] # None
        /\ ipc_bridge_commands' =
              Append(ipc_bridge_commands,
                     SendData(running_rpcs[context].callee, RpcCancel(context)))

HandleNewRpc ==
  /\ Takes("NewRpc")
  /\ commands' = Tail(commands)
  /\ LET c == Head(commands)
     IN  api_table' \in register(api_table, c.name,
                          [client_id |-> c.client, priority |-> c.priority])
  /\ UNCHANGED <<clients, running_rpcs, unasked, ipc_bridge_commands>>

(***************************************************************************)
(* CorePlugin::call("core.new_rpc"): the registration goes to the end of   *)
(* swiboe's own queue, the answer to the caller goes out now.              *)
(***************************************************************************)
HandleCoreCall ==
  /\ Takes("FromClient")
  /\ LET id == Head(commands).client
         m == Head(commands).message
     IN  /\ m.tag = "RpcCall"
         /\ call[m.context].core
         /\ commands' = Append(Tail(commands),
                               NewRpc(id, call[m.context].function,
                                      call[m.context].priority))
         /\ ipc_bridge_commands' =
               Append(ipc_bridge_commands,
                      SendData(id, RpcResponse(m.context, "Done")))
  /\ UNCHANGED swiboeVars

HandleRpcCall ==
  /\ Takes("FromClient")
  /\ commands' = Tail(commands)
  /\ LET id == Head(commands).client
         m == Head(commands).message
         name == call[m.context].function
         first == get_first(api_table, name)
     IN  /\ m.tag = "RpcCall"
         /\ ~call[m.context].core
         /\ \/ \E info \in first :
                 /\ running_rpcs' = [running_rpcs EXCEPT ![m.context] =
                       [caller |-> id, callee |-> info.client_id]]
                 /\ unasked' = [unasked EXCEPT ![m.context] =
                       Registered(api_table, name) \ {info.client_id}]
                 /\ ipc_bridge_commands' =
                       Append(ipc_bridge_commands, SendData(info.client_id, m))
            \/ /\ first = {}
               /\ ipc_bridge_commands' =
                     Append(ipc_bridge_commands,
                            SendData(id, RpcResponse(m.context, "UnknownRpc")))
               /\ UNCHANGED <<running_rpcs, unasked>>
  /\ UNCHANGED <<api_table, clients>>

HandleRpcResponse ==
  /\ Takes("FromClient")
  /\ commands' = Tail(commands)
  /\ LET m == Head(commands).message
     IN  m.tag = "RpcResponse" /\ on_rpc_response(m.context, m.kind)
  /\ UNCHANGED <<api_table, clients>>

HandleRpcCancel ==
  /\ Takes("FromClient")
  /\ commands' = Tail(commands)
  /\ LET m == Head(commands).message
     IN  m.tag = "RpcCancel" /\ on_rpc_cancel(m.context)
  /\ UNCHANGED <<api_table, clients>>

(***************************************************************************)
(* The messages whose loss swiboe makes good.                              *)
(***************************************************************************)
NeedsSurrogate_Never(message) == FALSE

NeedsSurrogate(message) == message.tag = "RpcCall"

(***************************************************************************)
(* A call that could not be sent counts as answered NotHandled.            *)
(***************************************************************************)
HandleSendDataFailed ==
  /\ Takes("SendDataFailed")
  /\ commands' = Tail(commands)
  /\ LET m == Head(commands).message
     IN  \/ /\ NeedsSurrogate(m)
            /\ on_rpc_response(m.context, "NotHandled")
         \/ /\ ~NeedsSurrogate(m)
            /\ UNCHANGED <<running_rpcs, unasked, ipc_bridge_commands>>
  /\ UNCHANGED <<api_table, clients>>

HandleClientConnected ==
  /\ Takes("ClientConnected")
  /\ commands' = Tail(commands)
  /\ clients' = clients \cup {Head(commands).client}
  /\ UNCHANGED <<api_table, running_rpcs, unasked, ipc_bridge_commands>>

(***************************************************************************)
(* The pending RPCs that the client has requested and its registrations    *)
(* go; the RPCs that it was handling stay.                                 *)
(***************************************************************************)
HandleClientDisconnected ==
  /\ Takes("ClientDisconnected")
  /\ commands' = Tail(commands)
  /\ LET id == Head(commands).client
     IN  /\ clients' = clients \ {id}
         /\ running_rpcs' = [c \in Contexts |->
               IF running_rpcs[c] # None /\ running_rpcs[c].caller = id
               THEN None ELSE running_rpcs[c]]
         /\ api_table' \in deregister_by_client(api_table, id)
  /\ UNCHANGED <<unasked, ipc_bridge_commands>>

handle ==
  \/ HandleNewRpc \/ HandleCoreCall \/ HandleRpcCall \/ HandleRpcResponse
  \/ HandleRpcCancel \/ HandleSendDataFailed \/ HandleClientConnected
  \/ HandleClientDisconnected

-----------------------------------------------------------------------------
(***************************************************************************)
(* The clients, as the client library lets them behave.                    *)
(***************************************************************************)
Send_Twice(id, message) ==
  to_server' = [to_server EXCEPT ![id] = @ \o <<message, message>>]

Send(id, message) ==
  to_server' = [to_server EXCEPT ![id] = Append(@, message)]

(***************************************************************************)
(* rpc::client::Context::new: a call under a new uuid.                     *)
(***************************************************************************)
NewContext(id, context, newCall) ==
  /\ Connected(id)
  /\ call[context] = None
  /\ call' = [call EXCEPT ![context] = newCall]
  /\ Send(id, RpcCall(context))
  /\ UNCHANGED <<commands, swiboeVars, ipc_bridge_commands, bridgeVars,
                 to_client, responses, cancelled, calleeVars>>

CallRpc(id, context, name) ==
  NewContext(id, context, [caller |-> id, core |-> FALSE, function |-> name])

(***************************************************************************)
(* Client::new_rpc, up to its wait().  It has &mut self and returns when   *)
(* the function is installed, so a client registers one RPC at a time.     *)
(***************************************************************************)
Registrations(id) ==
  {c \in Contexts : call[c] # None /\ call[c].core /\ call[c].caller = id}

RequestNewRpc(id, context, name, priority) ==
  /\ \A c \in Registrations(id) :
        responses[c] # <<>> /\ call[c].function \in remote_procedures[id]
  /\ Cardinality({c \in Registrations(id) : call[c].function = name})
        < MaxRegistrations
  /\ NewContext(id, context, [caller |-> id, core |-> TRUE,
                              function |-> name, priority |-> priority])

(***************************************************************************)
(* Client::new_rpc, after its wait(): only now does the rpc loop of the    *)
(* client learn the function.                                              *)
(***************************************************************************)
InstallRpc(id, context) ==
  /\ Connected(id)
  /\ call[context] # None
  /\ call[context].core /\ call[context].caller = id
  /\ responses[context] # <<>>
  /\ call[context].function \notin remote_procedures[id]
  /\ remote_procedures' = [remote_procedures EXCEPT ![id] =
                             @ \cup {call[context].function}]
  /\ UNCHANGED <<commands, swiboeVars, ipc_bridge_commands, bridgeVars,
                 to_server, to_client, callerVars, serving, updates, dropped,
                 lost>>

(***************************************************************************)
(* rpc_loop, Received: a call is executed if its function is known and     *)
(* forgotten otherwise, a response goes to the caller's Context while that *)
(* exists, a cancel makes every later update() and finish() fail.          *)
(***************************************************************************)
Receives(id, tag) ==
  /\ to_client[id] # <<>>
  /\ Head(to_client[id]).tag = tag
  /\ to_client' = [to_client EXCEPT ![id] = Tail(@)]
  /\ UNCHANGED <<commands, swiboeVars, ipc_bridge_commands, bridgeVars,
                 to_server, call, cancelled, remote_procedures, updates, lost>>

ReceiveCall(id) ==
  LET context == Head(to_client[id]).context IN
  /\ Receives(id, "RpcCall")
  /\ \/ /\ call[context].function \in remote_procedures[id]
        /\ serving' = [serving EXCEPT ![id] = @ \cup {context}]
        /\ UNCHANGED <<responses, dropped>>
     \/ /\ call[context].function \notin remote_procedures[id]
        /\ dropped' = dropped \cup {context}
        /\ UNCHANGED <<responses, serving>>

ReceiveResponse(id) ==
  LET m == Head(to_client[id]) IN
  /\ Receives(id, "RpcResponse")
  /\ \/ /\ m.context \notin cancelled
        /\ responses' = [responses EXCEPT ![m.context] = Append(@, m.kind)]
     \/ /\ m.context \in cancelled
        /\ UNCHANGED responses
  /\ UNCHANGED <<serving, dropped>>

ReceiveCancel(id) ==
  /\ Receives(id, "RpcCancel")
  /\ serving' = [serving EXCEPT ![id] = @ \ {Head(to_client[id]).context}]
  /\ UNCHANGED <<responses, dropped>>

Receive(id) == ReceiveCall(id) \/ ReceiveResponse(id) \/ ReceiveCancel(id)

(***************************************************************************)
(* rpc::client::Context::cancel, which consumes the Context.               *)
(***************************************************************************)
Cancel(id, context) ==
  /\ Connected(id)
  /\ call[context] # None
  /\ call[context].caller = id /\ ~call[context].core
  /\ context \notin cancelled
  /\ cancelled' = cancelled \cup {context}
  /\ Send(id, RpcCancel(context))
  /\ UNCHANGED <<commands, swiboeVars, ipc_bridge_commands, bridgeVars,
                 to_client, call, responses, calleeVars>>

(***************************************************************************)
(* rpc::server::Context::update and finish of an alive Context.            *)
(***************************************************************************)
update(id, context) ==
  /\ context \in serving[id]
  /\ updates[context] < MaxUpdates
  /\ updates' = [updates EXCEPT ![context] = @ + 1]
  /\ Send(id, RpcResponse(context, "Partial"))
  /\ UNCHANGED <<commands, swiboeVars, ipc_bridge_commands, bridgeVars,
                 to_client, callerVars, remote_procedures, serving, dropped,
                 lost>>

Finished(alive, context) == alive \ {context}

finish(id, context, kind) ==
  /\ context \in serving[id]
  /\ serving' = [serving EXCEPT ![id] = Finished(@, context)]
  /\ Send(id, RpcResponse(context, kind))
  /\ UNCHANGED <<commands, swiboeVars, ipc_bridge_commands, bridgeVars,
                 to_client, callerVars, remote_procedures, updates, dropped,
                 lost>>

-----------------------------------------------------------------------------
ClientStep(id) ==
  \/ Receive(id)
  \/ \E context \in Contexts :
       \/ \E name \in Functions :
            \/ CallRpc(id, context, name)
            \/ \E p \in Priorities : RequestNewRpc(id, context, name, p)
       \/ InstallRpc(id, context)
       \/ Cancel(id, context)
       \/ update(id, context)
       \/ \E kind \in {"Done", "NotHandled"} : finish(id, context, kind)

Next ==
  \/ handle
  \/ notify
  \/ \E t \in Tokens : new_client(t)
  \/ \E id \in ClientId : ReadMessage(id) \/ Hup(id) \/ ClientStep(id)

Spec == Init /\ [][Next]_vars

(***************************************************************************)
(* The threads of the server and of the clients keep running, and the      *)
(* implementation of an RPC answers: dropping an alive Context panics.     *)
(* Nobody has to connect, call, register, cancel, update or hang up.       *)
(***************************************************************************)
Fairness ==
  /\ WF_vars(handle)
  /\ WF_vars(notify)
  /\ \A id \in ClientId :
       /\ WF_vars(ReadMessage(id))
       /\ WF_vars(Receive(id))
       /\ \A context \in Contexts :
            /\ WF_vars(InstallRpc(id, context))
            /\ WF_vars(\E kind \in {"Done", "NotHandled"} :
                          finish(id, context, kind))

FairSpec == Spec /\ Fairness

-----------------------------------------------------------------------------
(***************************************************************************)
(* The types of the handlers' fields, of the channels and of the sockets.  *)
(***************************************************************************)
TypeOK ==
  /\ commands \in Seq(Command)
  /\ api_table \in [Functions -> Seq(ApiInfo)]
  /\ clients \subseteq ClientId
  /\ running_rpcs \in [Contexts -> RunningRpc \cup {None}]
  /\ ipc_bridge_commands \in Seq(BridgeCommand)
  /\ connections \in [Tokens -> ClientId \cup {None}]
  /\ next_serial \in 1 .. MaxSerial + 1
  /\ to_server \in [ClientId -> Seq(Message)]
  /\ to_client \in [ClientId -> Seq(Message)]
  /\ call \in [Contexts -> Call \cup {None}]
  /\ responses \in [Contexts -> Seq(Kinds)]
  /\ remote_procedures \in [ClientId -> SUBSET Functions]
  /\ serving \in [ClientId -> SUBSET Contexts]
  /\ cancelled \subseteq Contexts
  /\ updates \in [Contexts -> 0 .. MaxUpdates]
  /\ unasked \in [Contexts -> SUBSET ClientId]
  /\ dropped \subseteq Contexts /\ lost \subseteq Contexts

(***************************************************************************)
(* Client::call: the caller sees a stream of partial responses and at most *)
(* one last response, after which nothing comes (recv() would lose it).    *)
(***************************************************************************)
NothingAfterLast ==
  \A c \in Contexts : \A i, j \in DOMAIN responses[c] :
     i < j => responses[c][i] = "Partial"

(***************************************************************************)
(* Every message is about a call that was made; requests and cancels come  *)
(* from its caller and responses go to it.  Calls and responses travel     *)
(* under the caller's client_id in the same way in all queues and in       *)
(* running_rpcs.                                                           *)
(***************************************************************************)
FromOwner(message, id) ==
  /\ call[message.context] # None
  /\ message.tag # "RpcResponse" => call[message.context].caller = id

ForOwner(message, id) ==
  /\ call[message.context] # None
  /\ message.tag = "RpcResponse" => call[message.context].caller = id

Attributed(command) ==
  /\ command.cmd = "FromClient" => FromOwner(command.message, command.client)
  /\ command.cmd = "SendDataFailed" => ForOwner(command.message, command.client)

Routing ==
  /\ \A id \in ClientId : \A m \in Range(to_server[id]) : FromOwner(m, id)
  /\ \A c \in Range(commands) : Attributed(c)
  /\ \A c \in Contexts : running_rpcs[c] # None =>
        call[c] # None /\ running_rpcs[c].caller = call[c].caller
  /\ \A c \in Range(ipc_bridge_commands) : ForOwner(c.message, c.receiver)
  /\ \A id \in ClientId : \A m \in Range(to_client[id]) : ForOwner(m, id)
  /\ \A id \in ClientId : \A c \in serving[id] : call[c] # None

(***************************************************************************)
(* A response is only ever put on the way to the client that made the      *)
(* call, although slots of the slab are used again (notify compares the    *)
(* whole client_id) and responses do not say who sent them.                *)
(***************************************************************************)
RepliesReachCaller ==
  \A id \in ClientId : \A m \in Range(to_client[id]) :
     m.tag = "RpcResponse" => call[m.context].caller = id

(***************************************************************************)
(* While a call runs, only the client that running_rpcs calls its callee   *)
(* works on it, so that a cancel finds the worker and no two clients ever  *)
(* handle one call at the same time.                                       *)
(***************************************************************************)
ServedByCallee ==
  \A id \in ClientId : \A c \in serving[id] :
     running_rpcs[c] # None => running_rpcs[c].callee = id

(***************************************************************************)
(* The call or its last response is somewhere on the way.                  *)
(***************************************************************************)
InFlight(context) ==
  \/ \E c \in Range(commands) :
        /\ c.cmd \in {"FromClient", "SendDataFailed"}
        /\ Carries(c.message, context)
  \/ \E c \in Range(ipc_bridge_commands) : Carries(c.message, context)
  \/ \E id \in ClientId :
        \/ context \in serving[id]
        \/ \E m \in Range(to_server[id]) \cup Range(to_client[id]) :
              Carries(m, context)

Answered(context) == Range(responses[context]) \cap LastKinds # {}

(***************************************************************************)
(* The caller is gone or no longer interested, or a client had the call    *)
(* and went away or did not know the function.                             *)
(***************************************************************************)
CallerGone(context) ==
  /\ call[context] # None
  /\ ~Connected(call[context].caller)

Abandoned(context) ==
  CallerGone(context) \/ context \in cancelled \cup dropped \cup lost

(***************************************************************************)
(* No call gets lost between the threads: unless one of the two clients    *)
(* has let it down, an unanswered call or its answer is in some queue or   *)
(* being worked on.                                                        *)
(***************************************************************************)
NoLostCall ==
  \A c \in Contexts :
     call[c] # None => InFlight(c) \/ Answered(c) \/ Abandoned(c)

(***************************************************************************)
(* ApiTable::register relies on every list being sorted by priority (a     *)
(* binary search) and keeps it so; deregister_by_client keeps it too.      *)
(***************************************************************************)
TableSorted == Sorted(api_table)

(***************************************************************************)
(* Layers are asked in ascending order of priority: when a call moves on   *)
(* from one callee to the next, no entry of the new one comes before the   *)
(* entries of the old one.                                                 *)
(***************************************************************************)
PriorityOf(id, name) ==
  {api_table[name][i].priority :
      i \in {i \in DOMAIN api_table[name] : api_table[name][i].client_id = id}}

MovesDown(context) ==
  LET old == running_rpcs[context]
      new == running_rpcs'[context]
      name == call[context].function
  IN  old # None /\ new # None /\ old.callee # new.callee =>
        \E p \in PriorityOf(old.callee, name), q \in PriorityOf(new.callee, name) :
           p <= q

LayersInOrder == [][\A c \in Contexts : MovesDown(c)]_running_rpcs

(***************************************************************************)
(* The caller is told NotHandled only when no handler is left that was     *)
(* registered when the call came, still is, and has not been asked.        *)
(***************************************************************************)
NotHandledMeansAllAsked ==
  \A c \in Contexts :
     "NotHandled" \in Range(responses[c]) =>
        unasked[c] \cap Registered(api_table, call[c].function) = {}

(***************************************************************************)
(* Every call is answered in the end, unless a client lets it down.        *)
(***************************************************************************)
EventuallyAnswered ==
  \A c \in Contexts : call[c] # None ~> Answered(c) \/ Abandoned(c)

=============================================================================
