----------------------------- MODULE IpcBridge -----------------------------
(***************************************************************************)
(* The ipc bridge of the server (src/server/ipc_bridge.rs) in detail: the  *)
(* event loop thread, the jobs of its thread pool and the registrations of *)
(* the sockets with mio.                                                   *)
(*                                                                         *)
(* Every connection has two handles of its socket, one in the Reader and   *)
(* one in the Writer, registered with the same token: level triggered and  *)
(* oneshot, so an event disarms the handle until it is registered again.   *)
(* The Reader moves: it is in the Connection, in the reader job that the   *)
(* event loop starts, or in the ReRegisterForReading with which the job    *)
(* gives it back.  The Writer stays in the Connection, behind a mutex.     *)
(*                                                                         *)
(* Messages are counted: what they say, and how they are cut into bytes,   *)
(* plays no role here.                                                     *)
(***************************************************************************)
EXTENDS Naturals, Sequences, FiniteSets

CONSTANTS
  Tokens,       \* the slots of the slab (1024 in the code)
  None,         \* no connection, no reader
  SocketSize,   \* messages that fit into a socket
  MaxSerial,    \* bound: connections accepted
  MaxMessages   \* bound: messages that the clients and swiboe send

ClientId == [serial : 1 .. MaxSerial, token : Tokens]

ASSUME NoneAssumption == None \notin ClientId
ASSUME BoundsAssumption ==
  /\ SocketSize \in Nat \ {0} /\ MaxSerial \in Nat
  /\ MaxMessages \in Nat

(***************************************************************************)
(* ipc_bridge::Command                                                     *)
(***************************************************************************)
SendData(id) == [cmd |-> "SendData", client |-> id]
ReRegisterForReading(token, r) ==
  [cmd |-> "ReRegisterForReading", token |-> token, reader |-> r]
ReRegisterForWriting(token) == [cmd |-> "ReRegisterForWriting", token |-> token]

Command == [cmd : {"SendData"}, client : ClientId]
             \cup [cmd : {"ReRegisterForReading"}, token : Tokens, reader : ClientId]
             \cup [cmd : {"ReRegisterForWriting"}, token : Tokens]

(***************************************************************************)
(* An event of mio: the handle it is about and whether the peer hung up.   *)
(***************************************************************************)
ListenerEvent == [side |-> "listener", id |-> None, hup |-> FALSE]
Event == [side : {"reader", "writer"}, id : ClientId, hup : BOOLEAN]
           \cup {ListenerEvent}

(***************************************************************************)
(* A reader job: the Reader it holds, and the connection it took it from.  *)
(***************************************************************************)
ReaderJob == [reader : ClientId, client : ClientId]

VARIABLES
  (* event loop *)
  event_loop,      \* "running", or what it has panicked of
  connections,     \* the slab: token -> client_id
  reader,          \* the reader of the connection in a slot, named by its client
  next_serial,
  events,          \* events of this tick not yet handled
  messages,        \* the notify queue
  tick,            \* messages still to be handled in this tick
  (* mio *)
  reading,         \* connections whose reader is armed
  writing,         \* connections whose writer is armed
  (* thread pool *)
  reader_jobs, writer_jobs,
  (* writers *)
  to_write,        \* messages in the Writer
  poisoned,        \* connections whose writer mutex is poisoned
  (* sockets and clients *)
  backlog,         \* connections to accept
  requests,        \* messages from the client in the socket
  replies,         \* messages to the client in the socket
  sent,            \* how many messages the clients and swiboe have sent
  hung_up,         \* clients that are gone
  (* history *)
  disconnected,    \* clients reported as ClientDisconnected
  unread           \* clients whose reader died with its job

loopVars == <<event_loop, connections, reader, next_serial>>
tickVars == <<events, tick>>
mioVars == <<reading, writing>>
jobVars == <<reader_jobs, writer_jobs>>
writerVars == <<to_write, poisoned>>
socketVars == <<requests, replies>>
clientVars == <<backlog, sent, hung_up>>
historyVars == <<disconnected, unread>>
vars == <<loopVars, tickVars, messages, mioVars, jobVars, writerVars, socketVars,
          clientVars, historyVars>>

Init ==
  /\ event_loop = "running"
  /\ connections = [t \in Tokens |-> None] /\ reader = [t \in Tokens |-> None]
  /\ next_serial = 1
  /\ events = {} /\ messages = <<>> /\ tick = 0
  /\ reading = {} /\ writing = {}
  /\ reader_jobs = {} /\ writer_jobs = [id \in ClientId |-> 0]
  /\ to_write = [id \in ClientId |-> 0] /\ poisoned = {}
  /\ backlog = 0
  /\ requests = [id \in ClientId |-> 0] /\ replies = [id \in ClientId |-> 0]
  /\ sent = 0
  /\ hung_up = {} /\ disconnected = {} /\ unread = {}

Accepted(id) == id.serial < next_serial /\ connections[id.token] = id

-----------------------------------------------------------------------------
(***************************************************************************)
(* The event loop.                                                         *)
(***************************************************************************)

(***************************************************************************)
(* The socket of a connection is open, and so registered, as long as one   *)
(* of its two handles exists.                                              *)
(***************************************************************************)
HasReader(id) ==
  \/ \E t \in Tokens : reader[t] = id
  \/ \E j \in reader_jobs : j.reader = id
  \/ \E i \in DOMAIN messages :
        messages[i].cmd = "ReRegisterForReading" /\ messages[i].reader = id

Open(id) ==
  HasReader(id) \/ connections[id.token] = id \/ writer_jobs[id] > 0

(***************************************************************************)
(* A hang-up is what a Unix domain socket reports when the peer closes it: *)
(* both handles become ready, with the hup flag set.  (A TCP peer that     *)
(* closes its side makes the reader readable without hup, since the bridge *)
(* asks for readable events only; such a client is not modelled.)          *)
(***************************************************************************)
Readable(id) == requests[id] > 0 \/ id \in hung_up
Writable(id) == replies[id] < SocketSize \/ id \in hung_up

ReadyEvents ==
  {[side |-> "reader", id |-> id, hup |-> id \in hung_up] :
      id \in {id \in reading : Open(id) /\ Readable(id)}}
  \cup {[side |-> "writer", id |-> id, hup |-> id \in hung_up] :
      id \in {id \in writing : Open(id) /\ Writable(id)}}
  \cup {ListenerEvent : n \in {backlog} \ {0}}

(***************************************************************************)
(* PollOpt::oneshot: an event disarms its handle.                          *)
(***************************************************************************)
Fired_LevelOnly(armed, side) == armed

Fired(armed, side) ==
  armed \ {e.id : e \in {e \in ReadyEvents : e.side = side}}

(***************************************************************************)
(* One tick of mio's event loop: it waits until there is an event or a     *)
(* message, takes all events, in any order, and then the messages that it  *)
(* has counted before.                                                     *)
(***************************************************************************)
poll ==
  /\ event_loop = "running"
  /\ events = {} /\ tick = 0
  /\ ReadyEvents # {} \/ messages # <<>>
  /\ events' = ReadyEvents
  /\ tick' \in {n \in 0 .. Len(messages) : n = 0 => messages = <<>>}
  /\ reading' = Fired(reading, "reader")
  /\ writing' = Fired(writing, "writer")
  /\ UNCHANGED <<loopVars, messages, jobVars, writerVars, socketVars, clientVars,
                 historyVars>>

(***************************************************************************)
(* ready() of a listener, and new_client().                                *)
(***************************************************************************)
new_client ==
  /\ event_loop = "running"
  /\ ListenerEvent \in events
  /\ events' = events \ {ListenerEvent}
  /\ backlog' = backlog - 1
  /\ next_serial' = next_serial + 1
  /\ \/ \E token \in Tokens :
          LET id == [serial |-> next_serial, token |-> token] IN
          /\ connections[token] = None
          /\ connections' = [connections EXCEPT ![token] = id]
          /\ reader' = [reader EXCEPT ![token] = id]
          /\ reading' = reading \cup {id}
          /\ writing' = writing \cup {id}
          /\ UNCHANGED event_loop
     \/ /\ \A token \in Tokens : connections[token] # None
        /\ event_loop' = "slab is full"
        /\ UNCHANGED <<connections, reader, mioVars>>
  /\ UNCHANGED <<tick, messages, jobVars, writerVars, socketVars, sent, hung_up,
                 historyVars>>

(***************************************************************************)
(* ready() of a client's token: a readable event starts a job with the     *)
(* reader of the connection in the slot, a writable event a job with its   *)
(* writer, and a hang-up removes the connection.                           *)
(***************************************************************************)
ready(e) ==
  LET token == e.id.token
      conn == connections[token]
  IN
  /\ event_loop = "running"
  /\ e \in events
  /\ e.side # "listener"
  /\ events' = events \ {e}
  /\ \/ /\ conn = None
        /\ UNCHANGED <<loopVars, jobVars, disconnected>>
     \/ /\ conn # None /\ e.side = "reader" /\ reader[token] = None
        /\ event_loop' = "no reader"
        /\ UNCHANGED <<connections, reader, next_serial, jobVars, disconnected>>
     \/ /\ conn # None /\ ~(e.side = "reader" /\ reader[token] = None)
        /\ \/ /\ e.side = "reader"
              /\ reader_jobs' = reader_jobs \cup
                                  {[reader |-> reader[token], client |-> conn]}
              /\ reader' = [reader EXCEPT ![token] = None]
              /\ UNCHANGED writer_jobs
           \/ /\ e.side = "writer"
              /\ writer_jobs' = [writer_jobs EXCEPT ![conn] = @ + 1]
              /\ reader' = IF e.hup THEN [reader EXCEPT ![token] = None] ELSE reader
              /\ UNCHANGED reader_jobs
        /\ connections' = IF e.hup THEN [connections EXCEPT ![token] = None]
                                   ELSE connections
        /\ disconnected' = IF e.hup THEN disconnected \cup {conn} ELSE disconnected
        /\ UNCHANGED <<event_loop, next_serial>>
  /\ UNCHANGED <<tick, messages, mioVars, writerVars, socketVars, clientVars,
                 unread>>

(***************************************************************************)
(* notify(): the messages of this tick, after its events.                  *)
(***************************************************************************)
Takes(command) ==
  /\ event_loop = "running"
  /\ events = {} /\ tick > 0
  /\ Head(messages).cmd = command
  /\ tick' = tick - 1
  /\ messages' = Tail(messages)
  /\ UNCHANGED <<events, connections, next_serial, jobVars, poisoned, socketVars,
                 clientVars, historyVars>>

(***************************************************************************)
(* event_loop.reregister(): the handle is armed again.                     *)
(***************************************************************************)
reregister_Forgotten(armed, conn) == armed

reregister(armed, conn) == armed \cup {conn}

(***************************************************************************)
(* The event loop locks the writer mutex and arms the writer; it panics if *)
(* a job has poisoned the mutex.                                           *)
(***************************************************************************)
reregister_for_writing(conn) ==
  \/ /\ conn \notin poisoned
     /\ writing' = reregister(writing, conn)
     /\ UNCHANGED event_loop
  \/ /\ conn \in poisoned
     /\ event_loop' = "poisoned mutex"
     /\ UNCHANGED writing

NotifySendData ==
  /\ Takes("SendData")
  /\ LET id == Head(messages).client
     IN  \/ /\ connections[id.token] = id
            /\ to_write' = [to_write EXCEPT ![id] =
                              IF id \in poisoned THEN @ ELSE @ + 1]
            /\ reregister_for_writing(id)
         \/ /\ connections[id.token] # id
            /\ UNCHANGED <<event_loop, to_write, writing>>
  /\ UNCHANGED <<reader, reading>>

NotifyReRegisterForReading ==
  /\ Takes("ReRegisterForReading")
  /\ LET token == Head(messages).token
         r == Head(messages).reader
     IN  \/ /\ connections[token] # None
            /\ reader' = [reader EXCEPT ![token] = r]
            /\ reading' = reregister(reading, r)
         \/ /\ connections[token] = None
            /\ UNCHANGED <<reader, reading>>
  /\ UNCHANGED <<event_loop, to_write, writing>>

NotifyReRegisterForWriting ==
  /\ Takes("ReRegisterForWriting")
  /\ LET conn == connections[Head(messages).token]
     IN  \/ /\ conn # None
            /\ reregister_for_writing(conn)
         \/ /\ conn = None
            /\ UNCHANGED <<event_loop, writing>>
  /\ UNCHANGED <<reader, reading, to_write>>

notify ==
  NotifySendData \/ NotifyReRegisterForReading \/ NotifyReRegisterForWriting

-----------------------------------------------------------------------------
(***************************************************************************)
(* The jobs of the thread pool.                                            *)
(***************************************************************************)

(***************************************************************************)
(* A turn of the reader job's loop that finds a message: swiboe gets it.   *)
(***************************************************************************)
ReadMessage(job) ==
  /\ job \in reader_jobs
  /\ requests[job.reader] > 0
  /\ requests' = [requests EXCEPT ![job.reader] = @ - 1]
  /\ UNCHANGED <<loopVars, tickVars, messages, mioVars, jobVars, writerVars,
                 replies, clientVars, historyVars>>

(***************************************************************************)
(* The last turn: nothing to read, or the end of the stream.               *)
(***************************************************************************)
FinishReading(job) ==
  /\ job \in reader_jobs
  /\ requests[job.reader] = 0
  /\ reader_jobs' = reader_jobs \ {job}
  /\ messages' = Append(messages,
                        ReRegisterForReading(job.client.token, job.reader))
  /\ UNCHANGED <<loopVars, tickVars, mioVars, writer_jobs, writerVars, socketVars,
                 clientVars, historyVars>>

(***************************************************************************)
(* Reading from a client that is gone may fail; the job panics and the     *)
(* reader is lost.                                                         *)
(***************************************************************************)
FailReading(job) ==
  /\ job \in reader_jobs
  /\ job.reader \in hung_up
  /\ reader_jobs' = reader_jobs \ {job}
  /\ unread' = unread \cup {job.reader}
  /\ UNCHANGED <<loopVars, tickVars, messages, mioVars, writer_jobs, writerVars,
                 socketVars, clientVars, disconnected>>

(***************************************************************************)
(* A writer job: lock() panics on a poisoned mutex, try_write() fails when *)
(* the client is gone, and otherwise writes what the socket takes.         *)
(***************************************************************************)
WrittenAtOnce(id) ==
  LET space == SocketSize - replies[id]
  IN  IF to_write[id] <= space THEN to_write[id] ELSE space

RunWriterJob(id) ==
  /\ writer_jobs[id] > 0
  /\ writer_jobs' = [writer_jobs EXCEPT ![id] = @ - 1]
  /\ \/ /\ id \in poisoned
        /\ UNCHANGED <<messages, writerVars, replies>>
     \/ /\ id \notin poisoned /\ id \in hung_up /\ to_write[id] > 0
        /\ poisoned' = poisoned \cup {id}
        /\ UNCHANGED <<messages, to_write, replies>>
     \/ /\ id \notin poisoned /\ (id \notin hung_up \/ to_write[id] = 0)
        /\ to_write' = [to_write EXCEPT ![id] = @ - WrittenAtOnce(id)]
        /\ replies' = [replies EXCEPT ![id] = @ + WrittenAtOnce(id)]
        /\ messages' = IF WrittenAtOnce(id) < to_write[id]
                       THEN Append(messages, ReRegisterForWriting(id.token))
                       ELSE messages
        /\ UNCHANGED poisoned
  /\ UNCHANGED <<loopVars, tickVars, mioVars, reader_jobs, requests, clientVars,
                 historyVars>>

-----------------------------------------------------------------------------
(***************************************************************************)
(* swiboe and the clients.                                                 *)
(***************************************************************************)

(***************************************************************************)
(* swiboe sends to any client that was connected once.                     *)
(***************************************************************************)
Reply(id) ==
  /\ Accepted(id) \/ id \in disconnected
  /\ sent < MaxMessages
  /\ sent' = sent + 1
  /\ messages' = Append(messages, SendData(id))
  /\ UNCHANGED <<loopVars, tickVars, mioVars, jobVars, writerVars, socketVars,
                 backlog, hung_up, historyVars>>

Connect ==
  /\ next_serial + backlog <= MaxSerial
  /\ backlog' = backlog + 1
  /\ UNCHANGED <<loopVars, tickVars, messages, mioVars, jobVars, writerVars,
                 socketVars, sent, hung_up, historyVars>>

Request(id) ==
  /\ Accepted(id) /\ id \notin hung_up
  /\ sent < MaxMessages
  /\ sent' = sent + 1
  /\ requests' = [requests EXCEPT ![id] = @ + 1]
  /\ UNCHANGED <<loopVars, tickVars, messages, mioVars, jobVars, writerVars,
                 replies, backlog, hung_up, historyVars>>

Receive(id) ==
  /\ id \notin hung_up
  /\ replies[id] > 0
  /\ replies' = [replies EXCEPT ![id] = @ - 1]
  /\ UNCHANGED <<loopVars, tickVars, messages, mioVars, jobVars, writerVars,
                 requests, clientVars, historyVars>>

HangUp(id) ==
  /\ Accepted(id) /\ id \notin hung_up
  /\ hung_up' = hung_up \cup {id}
  /\ UNCHANGED <<loopVars, tickVars, messages, mioVars, jobVars, writerVars,
                 socketVars, backlog, sent, historyVars>>

-----------------------------------------------------------------------------
EventLoop == poll \/ new_client \/ (\E e \in events : ready(e)) \/ notify

ReaderJobStep(job) == ReadMessage(job) \/ FinishReading(job)

Next ==
  \/ EventLoop
  \/ Connect
  \/ \E job \in reader_jobs : ReaderJobStep(job) \/ FailReading(job)
  \/ \E id \in ClientId : \/ RunWriterJob(id) \/ Reply(id)
                          \/ Request(id) \/ Receive(id) \/ HangUp(id)

Spec == Init /\ [][Next]_vars

(***************************************************************************)
(* The event loop and the jobs of the pool run, and a client that stays    *)
(* reads what it is sent (its read thread does nothing else).              *)
(***************************************************************************)
Fairness ==
  /\ WF_vars(EventLoop)
  /\ WF_vars(\E job \in reader_jobs : ReaderJobStep(job) \/ FailReading(job))
  /\ \A id \in ClientId : WF_vars(RunWriterJob(id)) /\ WF_vars(Receive(id))

FairSpec == Spec /\ Fairness

-----------------------------------------------------------------------------
(***************************************************************************)
(* The types of the bridge's fields, of the queues and of the sockets.     *)
(***************************************************************************)
TypeOK ==
  /\ event_loop \in {"running", "no reader", "poisoned mutex", "slab is full"}
  /\ connections \in [Tokens -> ClientId \cup {None}]
  /\ reader \in [Tokens -> ClientId \cup {None}]
  /\ next_serial \in 1 .. MaxSerial + 1
  /\ events \subseteq Event
  /\ messages \in Seq(Command) /\ tick \in 0 .. Len(messages)
  /\ reading \subseteq ClientId /\ writing \subseteq ClientId
  /\ reader_jobs \subseteq ReaderJob /\ writer_jobs \in [ClientId -> Nat]
  /\ to_write \in [ClientId -> Nat] /\ poisoned \subseteq ClientId
  /\ backlog \in Nat
  /\ requests \in [ClientId -> Nat] /\ replies \in [ClientId -> 0 .. SocketSize]
  /\ sent \in 0 .. MaxMessages
  /\ hung_up \subseteq ClientId
  /\ disconnected \subseteq ClientId /\ unread \subseteq ClientId

(***************************************************************************)
(* conn.reader.take().unwrap() in ready(): as long as a slot of the slab   *)
(* has had one client only, a readable event finds the reader in place.    *)
(***************************************************************************)
ReaderAtHand ==
  \A e \in events :
     e.side = "reader" /\ connections[e.id.token] # None
       /\ reader[e.id.token] = None =>
     \E other \in disconnected : other.token = e.id.token

(***************************************************************************)
(* No wake-up is lost between SendData, the oneshot event and the writer   *)
(* jobs: while there is something to write, the writer is armed, or its    *)
(* event or job is under way, or it is about to be armed again.            *)
(***************************************************************************)
WillWrite(id) ==
  \/ id \in writing
  \/ \E e \in events : e.side = "writer" /\ e.id = id
  \/ writer_jobs[id] > 0
  \/ \E i \in DOMAIN messages : messages[i] = ReRegisterForWriting(id.token)

NoLostWakeup ==
  \A id \in ClientId :
     connections[id.token] = id /\ to_write[id] > 0 =>
        WillWrite(id) \/ id \in poisoned

(***************************************************************************)
(* What swiboe sends to a client that stays is written in the end, what a  *)
(* client sends is read.                                                   *)
(***************************************************************************)
Lost(id) == event_loop # "running" \/ connections[id.token] # id

EverythingWritten ==
  \A id \in ClientId :
     to_write[id] > 0 ~> to_write[id] = 0 \/ id \in hung_up \/ Lost(id)

EverythingRead ==
  \A id \in ClientId :
     requests[id] > 0 ~> requests[id] = 0 \/ id \in unread \/ Lost(id)

(***************************************************************************)
(* swiboe hears of every client that goes away, unless the job that read   *)
(* from it has panicked.                                                   *)
(***************************************************************************)
HangUpsReported ==
  \A id \in ClientId :
     id \in hung_up ~> id \in disconnected \cup unread \/ event_loop # "running"

=============================================================================
