-------------------------- MODULE IpcBridge_proofs --------------------------
(***************************************************************************)
(* The ipc bridge keeps its types, forgets no writer that has something to *)
(* write, and finds the reader of a readable connection in its slot, for   *)
(* any number of slots, connections and messages.                          *)
(***************************************************************************)
EXTENDS IpcBridge, TLAPS

(***************************************************************************)
(* A queue after Append: the old elements are where they were.             *)
(***************************************************************************)
LEMMA AppendElements ==
  ASSUME NEW S, NEW s \in Seq(S), NEW x \in S
  PROVE  /\ Append(s, x) \in Seq(S) /\ Len(Append(s, x)) = Len(s) + 1
         /\ \A i \in DOMAIN s : i \in DOMAIN Append(s, x) /\ Append(s, x)[i] = s[i]
         /\ Len(s) + 1 \in DOMAIN Append(s, x)
         /\ Append(s, x)[Len(s) + 1] = x
         /\ \A i \in DOMAIN Append(s, x) : i \in DOMAIN s \/ i = Len(s) + 1
         /\ Len(s) + 1 \notin DOMAIN s
  OBVIOUS

(***************************************************************************)
(* A queue after Tail: all elements but the first have moved up.           *)
(***************************************************************************)
LEMMA TailElements ==
  ASSUME NEW S, NEW s \in Seq(S), s # <<>>
  PROVE  /\ Tail(s) \in Seq(S) /\ Len(Tail(s)) = Len(s) - 1 /\ Len(s) > 0
         /\ Head(s) \in S /\ Head(s) = s[1] /\ 1 \in DOMAIN s
         /\ \A i \in DOMAIN s :
               i = 1 \/ (i - 1 \in DOMAIN Tail(s) /\ Tail(s)[i - 1] = s[i])
         /\ \A i \in DOMAIN Tail(s) :
               i \in Nat \ {0} /\ i + 1 \in DOMAIN s /\ Tail(s)[i] = s[i + 1]
  OBVIOUS

(***************************************************************************)
(* The positions and the elements of a queue.                              *)
(***************************************************************************)
LEMMA QueueFacts ==
  ASSUME NEW S, NEW s \in Seq(S)
  PROVE  DOMAIN s \subseteq Nat \ {0} /\ \A i \in DOMAIN s : s[i] \in S
  <1>1. DOMAIN s = 1 .. Len(s) /\ Len(s) \in Nat
    OBVIOUS
  <1> QED
    BY <1>1

(***************************************************************************)
(* Commands and events have the fields of their kinds.                     *)
(***************************************************************************)
LEMMA CommandFacts ==
  /\ \A id \in ClientId : SendData(id) \in Command
  /\ \A t \in Tokens, r \in ClientId : ReRegisterForReading(t, r) \in Command
  /\ \A t \in Tokens : ReRegisterForWriting(t) \in Command
  /\ \A c \in Command : c.cmd = "SendData" => c.client \in ClientId
  /\ \A c \in Command : c.cmd = "ReRegisterForReading" =>
        c.token \in Tokens /\ c.reader \in ClientId
  /\ \A c \in Command : c.cmd = "ReRegisterForWriting" =>
        c.token \in Tokens /\ c = ReRegisterForWriting(c.token)
  /\ \A id \in ClientId : SendData(id).cmd = "SendData"
  /\ \A t, r : /\ ReRegisterForReading(t, r).cmd = "ReRegisterForReading"
               /\ ReRegisterForReading(t, r).token = t
               /\ ReRegisterForReading(t, r).reader = r
  /\ \A t : /\ ReRegisterForWriting(t).cmd = "ReRegisterForWriting"
            /\ ReRegisterForWriting(t).token = t
  BY DEF Command, SendData, ReRegisterForReading, ReRegisterForWriting

(***************************************************************************)
(* Every event but that of the listener names a client and says whether it *)
(* hung up, and a client_id names a slot.                                  *)
(***************************************************************************)
LEMMA EventFacts ==
  /\ \A e \in Event : e.side # "listener" => e.id \in ClientId /\ e.hup \in BOOLEAN
  /\ ListenerEvent.side = "listener"
  /\ \A id \in ClientId : id.token \in Tokens /\ id.serial \in 1 .. MaxSerial
  BY DEF Event, ListenerEvent, ClientId

-----------------------------------------------------------------------------
(***************************************************************************)
(* Every connection that waits to be accepted still has a serial, and the  *)
(* event of the listener is not older than the connections that wait.      *)
(***************************************************************************)
Accepting ==
  /\ next_serial + backlog <= MaxSerial + 1
  /\ ListenerEvent \in events => backlog > 0

(***************************************************************************)
(* No client that had the slot has been reported as gone.                  *)
(***************************************************************************)
Fresh(t) == \A id \in disconnected : id.token # t

(***************************************************************************)
(* The four places in which the turn to read from a slot can be: an armed  *)
(* handle, an event, a job, or the message that gives the reader back.     *)
(***************************************************************************)
Armed(t) == {id \in reading : id.token = t}
Signalled(t) == {e \in events : e.side = "reader" /\ e.id.token = t}
Jobs(t) == {j \in reader_jobs : j.client.token = t}
Returned(t) == {i \in DOMAIN messages :
                  messages[i].cmd = "ReRegisterForReading" /\ messages[i].token = t}

(***************************************************************************)
(* In a fresh slot the turn is in at most one of them, it is the turn of   *)
(* the client in the slot, and the reader is in the slot before the job    *)
(* starts and with the job or the message afterwards.                      *)
(***************************************************************************)
OneReader(t) ==
  /\ \A id \in Armed(t) :
        /\ connections[t] = id /\ reader[t] = id
        /\ Signalled(t) = {} /\ Jobs(t) = {} /\ Returned(t) = {}
  /\ \A e \in Signalled(t) :
        /\ connections[t] = e.id /\ reader[t] = e.id
        /\ Jobs(t) = {} /\ Returned(t) = {}
        /\ \A f \in Signalled(t) : f = e
  /\ \A j \in Jobs(t) :
        /\ connections[t] = j.client /\ j.reader = j.client
        /\ Returned(t) = {}
        /\ \A k \in Jobs(t) : k = j
  /\ \A i \in Returned(t) :
        /\ connections[t] = messages[i].reader
        /\ \A k \in Returned(t) : k = i

Readers == \A t \in Tokens : Fresh(t) => OneReader(t)

(***************************************************************************)
(* The client_id of a connection names the slot it is in, and a reader,    *)
(* even one that outlives its connection, never moves to another slot.     *)
(***************************************************************************)
SameSlot(command) ==
  command.cmd = "ReRegisterForReading" => command.reader.token = command.token

Placed ==
  /\ \A t \in Tokens : connections[t] # None => connections[t].token = t
  /\ \A t \in Tokens : reader[t] # None => reader[t].token = t
  /\ \A j \in reader_jobs : j.reader.token = j.client.token
  /\ \A i \in DOMAIN messages : SameSlot(messages[i])

IInv == TypeOK /\ Accepting /\ Placed /\ Readers

(***************************************************************************)
(* In the initial state nobody is connected and nothing is under way.      *)
(***************************************************************************)
LEMMA InitIInv == Init => IInv
  <1> SUFFICES ASSUME Init PROVE IInv
    OBVIOUS
  <1>1. TypeOK
    BY BoundsAssumption DEF Init, TypeOK
  <1>2. Accepting
    BY BoundsAssumption DEF Init, Accepting
  <1>3. Readers
    BY DEF Init, Readers, OneReader, Armed, Signalled, Jobs, Returned
  <1> QED
    BY <1>1, <1>2, <1>3 DEF IInv, Init, Placed

-----------------------------------------------------------------------------
(***************************************************************************)
(* Types and serials, action by action.                                    *)
(***************************************************************************)
LEMMA PollTypes ==
  ASSUME TypeOK, Accepting, poll
  PROVE  TypeOK' /\ Accepting'
  <1>1. ReadyEvents \subseteq Event
    <2>1. reading \subseteq ClientId /\ writing \subseteq ClientId
      BY DEF TypeOK
    <2>2. \A id \in ClientId, b \in BOOLEAN, s \in {"reader", "writer"} :
             [side |-> s, id |-> id, hup |-> b] \in Event
      BY DEF Event
    <2>3. ListenerEvent \in Event
      BY DEF Event
    <2>4. \A id : (id \in hung_up) \in BOOLEAN
      OBVIOUS
    <2> QED
      BY <2>1, <2>2, <2>3, <2>4 DEF ReadyEvents
  <1>2. ListenerEvent \in ReadyEvents => backlog # 0
    BY DEF ReadyEvents, ListenerEvent
  <1>3. Fired(reading, "reader") \subseteq reading /\ Fired(writing, "writer") \subseteq writing
    BY DEF Fired
  <1> USE DEF poll, loopVars, jobVars, writerVars, socketVars, clientVars, historyVars
  <1>4. TypeOK'
    BY <1>1, <1>3 DEF TypeOK
  <1> QED
    BY <1>2, <1>4 DEF Accepting, TypeOK

(***************************************************************************)
(* new_client() has a serial left for the connection it accepts.           *)
(***************************************************************************)
LEMMA NewClientTypes ==
  ASSUME TypeOK, Accepting, new_client
  PROVE  TypeOK' /\ Accepting'
  <1>1. /\ backlog \in Nat /\ backlog > 0 /\ MaxSerial \in Nat
        /\ next_serial \in 1 .. MaxSerial + 1
        /\ next_serial + backlog <= MaxSerial + 1
    BY BoundsAssumption DEF Accepting, TypeOK, new_client
  <1>2. /\ next_serial \in 1 .. MaxSerial
        /\ next_serial + 1 \in 1 .. MaxSerial + 1
        /\ backlog - 1 \in Nat
        /\ (next_serial + 1) + (backlog - 1) <= MaxSerial + 1
    BY <1>1
  <1>3. \A t \in Tokens : [serial |-> next_serial, token |-> t] \in ClientId
    BY <1>2 DEF ClientId
  <1>4. /\ connections' \in [Tokens -> ClientId \cup {None}]
        /\ reader' \in [Tokens -> ClientId \cup {None}]
        /\ reading' \subseteq ClientId /\ writing' \subseteq ClientId
        /\ event_loop' \in {"running", "slab is full"}
    <2>1. /\ connections \in [Tokens -> ClientId \cup {None}]
          /\ reader \in [Tokens -> ClientId \cup {None}]
          /\ reading \subseteq ClientId /\ writing \subseteq ClientId
      BY DEF TypeOK
    <2>2. ASSUME NEW t \in Tokens, NEW id \in ClientId,
                 connections' = [connections EXCEPT ![t] = id],
                 reader' = [reader EXCEPT ![t] = id]
          PROVE  /\ connections' \in [Tokens -> ClientId \cup {None}]
                 /\ reader' \in [Tokens -> ClientId \cup {None}]
      BY <2>1, <2>2
    <2>3. /\ connections' \in [Tokens -> ClientId \cup {None}]
          /\ reader' \in [Tokens -> ClientId \cup {None}]
      BY <1>3, <2>1, <2>2 DEF new_client
    <2>4. reading' \subseteq ClientId /\ writing' \subseteq ClientId
      BY <1>3, <2>1 DEF new_client, mioVars
    <2> QED
      BY <2>3, <2>4 DEF new_client
  <1>5. /\ next_serial' = next_serial + 1 /\ backlog' = backlog - 1
        /\ events' = events \ {ListenerEvent}
        /\ UNCHANGED <<tick, messages, reader_jobs, writer_jobs, to_write, poisoned,
                       requests, replies, sent, hung_up, disconnected, unread>>
    BY DEF new_client, jobVars, writerVars, socketVars, historyVars
  <1>6. TypeOK'
    BY <1>2, <1>4, <1>5 DEF TypeOK
  <1>7. Accepting'
    BY <1>2, <1>5 DEF Accepting
  <1> QED
    BY <1>6, <1>7

(***************************************************************************)
(* ready() starts jobs with what it finds in a slot.                       *)
(***************************************************************************)
LEMMA ReadyTypes ==
  ASSUME TypeOK, Accepting, NEW e \in events, ready(e)
  PROVE  TypeOK' /\ Accepting'
  <1> DEFINE token == e.id.token
             conn == connections[token]
  <1>1. e.id \in ClientId /\ token \in Tokens
    BY EventFacts DEF TypeOK, ready
  <1>2. /\ conn \in ClientId \cup {None} /\ reader[token] \in ClientId \cup {None}
        /\ connections \in [Tokens -> ClientId \cup {None}]
        /\ reader \in [Tokens -> ClientId \cup {None}]
        /\ reader_jobs \subseteq ReaderJob /\ writer_jobs \in [ClientId -> Nat]
        /\ disconnected \subseteq ClientId /\ event_loop = "running"
    BY <1>1 DEF TypeOK, ready
  <1>3. /\ events' = events \ {e}
        /\ UNCHANGED <<next_serial, tick, messages, reading, writing, to_write,
                       poisoned, requests, replies, backlog, sent, hung_up, unread>>
    BY DEF ready, loopVars, mioVars, writerVars, socketVars, clientVars
  <1>4. CASE UNCHANGED <<loopVars, jobVars, disconnected>>
    BY <1>2, <1>3, <1>4 DEF loopVars, jobVars, TypeOK, Accepting
  <1>5. CASE /\ conn # None /\ e.side = "reader" /\ reader[token] = None
             /\ event_loop' = "no reader"
             /\ UNCHANGED <<connections, reader, next_serial, jobVars, disconnected>>
    BY <1>2, <1>3, <1>5 DEF jobVars, TypeOK, Accepting
  <1>6. CASE /\ conn # None /\ ~(e.side = "reader" /\ reader[token] = None)
             /\ event_loop' = event_loop
    <2>1. conn \in ClientId
      BY <1>2, <1>6
    <2>2. /\ connections' \in [Tokens -> ClientId \cup {None}]
          /\ disconnected' \subseteq ClientId
      BY <1>1, <1>2, <1>6, <2>1 DEF ready
    <2>3. CASE e.side = "reader"
      <3>1. [reader |-> reader[token], client |-> conn] \in ReaderJob
        BY <1>2, <1>6, <2>1, <2>3 DEF ReaderJob
      <3>2. /\ reader_jobs' = reader_jobs \cup {[reader |-> reader[token], client |-> conn]}
            /\ reader' = [reader EXCEPT ![token] = None]
            /\ writer_jobs' = writer_jobs
        BY <1>6, <2>3 DEF ready
      <3>3. reader' \in [Tokens -> ClientId \cup {None}] /\ reader_jobs' \subseteq ReaderJob
        BY <1>2, <3>1, <3>2
      <3> QED
        BY <1>2, <1>3, <1>6, <2>2, <3>2, <3>3 DEF TypeOK, Accepting
    <2>4. CASE e.side = "writer"
      <3>1. /\ writer_jobs' = [writer_jobs EXCEPT ![conn] = @ + 1]
            /\ reader' = IF e.hup THEN [reader EXCEPT ![token] = None] ELSE reader
            /\ reader_jobs' = reader_jobs
        BY <1>6, <2>4 DEF ready
      <3>2. reader' \in [Tokens -> ClientId \cup {None}]
        BY <1>2, <3>1
      <3>3. writer_jobs' \in [ClientId -> Nat]
        BY <1>2, <2>1, <3>1
      <3> QED
        BY <1>2, <1>3, <1>6, <2>2, <3>1, <3>2, <3>3 DEF TypeOK, Accepting
    <2> QED
      BY <2>3, <2>4, <1>6 DEF ready
  <1> QED
    BY <1>4, <1>5, <1>6 DEF ready, loopVars, jobVars

(***************************************************************************)
(* What the commands that notify() takes have in common.                   *)
(***************************************************************************)
LEMMA TakesFacts ==
  ASSUME TypeOK, NEW command, Takes(command)
  PROVE  /\ messages # <<>> /\ messages \in Seq(Command)
         /\ Head(messages) \in Command /\ Head(messages).cmd = command
         /\ messages' \in Seq(Command) /\ tick' \in 0 .. Len(messages')
         /\ messages' = Tail(messages) /\ events = {}
         /\ UNCHANGED <<events, connections, next_serial, reader_jobs, writer_jobs,
                        poisoned, requests, replies, backlog, sent, hung_up,
                        disconnected, unread>>
  <1>1. /\ messages \in Seq(Command) /\ tick \in 0 .. Len(messages) /\ tick > 0
        /\ messages' = Tail(messages) /\ tick' = tick - 1 /\ events = {}
        /\ Head(messages).cmd = command
    BY DEF TypeOK, Takes
  <1>2. messages # <<>> /\ Len(messages) \in Nat
    BY <1>1
  <1>3. /\ Head(messages) \in Command /\ Tail(messages) \in Seq(Command)
        /\ Len(Tail(messages)) = Len(messages) - 1
    BY <1>1, <1>2, TailElements
  <1>4. tick' \in 0 .. Len(messages')
    BY <1>1, <1>2, <1>3
  <1>5. UNCHANGED <<events, connections, next_serial, reader_jobs, writer_jobs,
                    poisoned, requests, replies, backlog, sent, hung_up,
                    disconnected, unread>>
    BY DEF Takes, jobVars, socketVars, clientVars, historyVars
  <1> QED
    BY <1>1, <1>2, <1>3, <1>4, <1>5

(***************************************************************************)
(* notify() keeps the types, whichever command it takes.                   *)
(***************************************************************************)
LEMMA NotifyTypes ==
  ASSUME TypeOK, Accepting, notify
  PROVE  TypeOK' /\ Accepting'
  <1>1. CASE NotifySendData
    <2> DEFINE id == Head(messages).client
    <2>1. Takes("SendData")
      BY <1>1 DEF NotifySendData
    <2>2. id \in ClientId
      BY <2>1, TakesFacts, CommandFacts
    <2>3. /\ to_write \in [ClientId -> Nat] /\ writing \subseteq ClientId
          /\ event_loop \in {"running", "no reader", "poisoned mutex", "slab is full"}
      BY DEF TypeOK
    <2>4. to_write' \in [ClientId -> Nat]
      <3>1. \/ to_write' = to_write
            \/ to_write' = [to_write EXCEPT ![id] = to_write[id]]
            \/ to_write' = [to_write EXCEPT ![id] = to_write[id] + 1]
        BY <1>1 DEF NotifySendData
      <3>2. to_write[id] \in Nat
        BY <2>2, <2>3
      <3>3. to_write[id] + 1 \in Nat
        BY <3>2
      <3> HIDE DEF id
      <3>4. \A n \in Nat : [to_write EXCEPT ![id] = n] \in [ClientId -> Nat]
        BY <2>3
      <3> QED
        BY <2>3, <3>1, <3>2, <3>3, <3>4
    <2>5. /\ writing' \subseteq ClientId
          /\ event_loop' \in {event_loop, "poisoned mutex"}
          /\ reader' = reader /\ reading' = reading
      BY <1>1, <2>2, <2>3 DEF NotifySendData, reregister_for_writing, reregister
    <2>6. TypeOK'
      BY <2>1, <2>3, <2>4, <2>5, TakesFacts DEF TypeOK
    <2> QED
      BY <2>1, <2>6, TakesFacts DEF Accepting
  <1>2. CASE NotifyReRegisterForReading
    <2>1. Takes("ReRegisterForReading")
      BY <1>2 DEF NotifyReRegisterForReading
    <2>2. Head(messages).token \in Tokens /\ Head(messages).reader \in ClientId
      BY <2>1, TakesFacts, CommandFacts
    <2>3. /\ reader' \in [Tokens -> ClientId \cup {None}] /\ reading' \subseteq ClientId
          /\ UNCHANGED <<event_loop, to_write, writing>>
      BY <1>2, <2>2 DEF TypeOK, NotifyReRegisterForReading, reregister
    <2>4. TypeOK'
      BY <2>1, <2>3, TakesFacts DEF TypeOK
    <2> QED
      BY <2>1, <2>4, TakesFacts DEF Accepting
  <1>3. CASE NotifyReRegisterForWriting
    <2>1. Takes("ReRegisterForWriting")
      BY <1>3 DEF NotifyReRegisterForWriting
    <2>2. Head(messages).token \in Tokens
      BY <2>1, TakesFacts, CommandFacts
    <2>3. /\ writing' \subseteq ClientId
          /\ event_loop' \in {event_loop, "poisoned mutex"}
          /\ UNCHANGED <<reader, reading, to_write>>
      BY <1>3, <2>2 DEF TypeOK, NotifyReRegisterForWriting, reregister_for_writing,
                        reregister
    <2>4. TypeOK'
      BY <2>1, <2>3, TakesFacts DEF TypeOK
    <2> QED
      BY <2>1, <2>4, TakesFacts DEF Accepting
  <1> QED
    BY <1>1, <1>2, <1>3 DEF notify

(***************************************************************************)
(* The jobs of the pool.                                                   *)
(***************************************************************************)
LEMMA ReaderJobTypes ==
  ASSUME TypeOK, Accepting, NEW job \in reader_jobs,
         ReaderJobStep(job) \/ FailReading(job)
  PROVE  TypeOK' /\ Accepting'
  <1> USE DEF loopVars, tickVars, mioVars, jobVars, writerVars, socketVars,
              clientVars, historyVars
  <1>1. job.reader \in ClientId /\ job.client \in ClientId /\ job.client.token \in Tokens
    BY EventFacts DEF TypeOK, ReaderJob
  <1>2. CASE ReadMessage(job)
    <2>1. requests \in [ClientId -> Nat] /\ requests[job.reader] > 0
      BY <1>2 DEF TypeOK, ReadMessage
    <2>2. requests[job.reader] - 1 \in Nat
      BY <1>1, <2>1
    <2>3. requests' \in [ClientId -> Nat]
      BY <1>1, <1>2, <2>1, <2>2 DEF ReadMessage
    <2>4. TypeOK'
      BY <1>2, <2>3 DEF TypeOK, ReadMessage
    <2> QED
      BY <1>2, <2>4 DEF Accepting, ReadMessage
  <1>3. CASE FinishReading(job)
    <2>1. messages \in Seq(Command) /\ tick \in 0 .. Len(messages)
      BY DEF TypeOK
    <2>2. messages' = Append(messages, ReRegisterForReading(job.client.token, job.reader))
      BY <1>3 DEF FinishReading
    <2>3. ReRegisterForReading(job.client.token, job.reader) \in Command
      BY <1>1, CommandFacts
    <2>4. messages' \in Seq(Command) /\ Len(messages') = Len(messages) + 1
      BY <2>1, <2>2, <2>3
    <2>5. tick \in 0 .. Len(messages')
      BY <2>1, <2>4
    <2>6. TypeOK'
      BY <1>3, <2>4, <2>5 DEF TypeOK, FinishReading
    <2> QED
      BY <1>3, <2>6 DEF Accepting, FinishReading
  <1>4. CASE FailReading(job)
    <2>1. TypeOK'
      BY <1>1, <1>4 DEF TypeOK, FailReading
    <2> QED
      BY <1>4, <2>1 DEF Accepting, FailReading
  <1> QED
    BY <1>2, <1>3, <1>4 DEF ReaderJobStep

(***************************************************************************)
(* try_write() writes no more than there is and no more than fits.         *)
(***************************************************************************)
LEMMA WrittenFacts ==
  ASSUME TypeOK, NEW id \in ClientId
  PROVE  /\ WrittenAtOnce(id) \in Nat /\ WrittenAtOnce(id) <= to_write[id]
         /\ to_write[id] - WrittenAtOnce(id) \in Nat
         /\ replies[id] + WrittenAtOnce(id) \in 0 .. SocketSize
         /\ to_write[id] \in Nat
  <1>1. /\ to_write[id] \in Nat /\ replies[id] \in 0 .. SocketSize /\ SocketSize \in Nat
    BY BoundsAssumption DEF TypeOK
  <1> QED
    BY <1>1 DEF WrittenAtOnce

(***************************************************************************)
(* A writer job keeps the types: it takes from the Writer what it puts     *)
(* into the socket.                                                        *)
(***************************************************************************)
LEMMA WriterJobTypes ==
  ASSUME TypeOK, Accepting, NEW id \in ClientId, RunWriterJob(id)
  PROVE  TypeOK' /\ Accepting'
  <1>1. /\ writer_jobs \in [ClientId -> Nat] /\ writer_jobs[id] > 0
        /\ to_write \in [ClientId -> Nat] /\ replies \in [ClientId -> 0 .. SocketSize]
        /\ messages \in Seq(Command) /\ tick \in 0 .. Len(messages)
        /\ id.token \in Tokens /\ poisoned \subseteq ClientId
    BY EventFacts DEF TypeOK, RunWriterJob
  <1>2. writer_jobs[id] - 1 \in Nat
    BY <1>1
  <1>3. writer_jobs' \in [ClientId -> Nat] /\ poisoned' \subseteq ClientId
    BY <1>1, <1>2 DEF RunWriterJob, writerVars
  <1>4. to_write' \in [ClientId -> Nat]
    <2>1. \/ to_write' = to_write
          \/ to_write' = [to_write EXCEPT ![id] = to_write[id] - WrittenAtOnce(id)]
      BY DEF RunWriterJob, writerVars
    <2> QED
      BY <1>1, <2>1, WrittenFacts
  <1>5. replies' \in [ClientId -> 0 .. SocketSize]
    <2>1. \/ replies' = replies
          \/ replies' = [replies EXCEPT ![id] = replies[id] + WrittenAtOnce(id)]
      BY DEF RunWriterJob
    <2> QED
      BY <1>1, <2>1, WrittenFacts
  <1>6. messages' \in Seq(Command) /\ tick \in 0 .. Len(messages')
    <2>1. \/ messages' = messages
          \/ messages' = Append(messages, ReRegisterForWriting(id.token))
      BY DEF RunWriterJob
    <2>2. ReRegisterForWriting(id.token) \in Command
      BY <1>1, CommandFacts
    <2>3. CASE messages' = messages
      BY <1>1, <2>3
    <2>4. CASE messages' = Append(messages, ReRegisterForWriting(id.token))
      <3>1. messages' \in Seq(Command) /\ Len(messages') = Len(messages) + 1
        BY <1>1, <2>2, <2>4
      <3> QED
        BY <1>1, <3>1
    <2> QED
      BY <2>1, <2>3, <2>4
  <1>7. UNCHANGED <<event_loop, connections, reader, next_serial, events, tick,
                    reading, writing, reader_jobs, requests, backlog, sent,
                    hung_up, disconnected, unread>>
    BY DEF RunWriterJob, loopVars, tickVars, mioVars, clientVars, historyVars
  <1>8. TypeOK'
    BY <1>3, <1>4, <1>5, <1>6, <1>7 DEF TypeOK
  <1> QED
    BY <1>7, <1>8 DEF Accepting

(***************************************************************************)
(* swiboe and the clients.                                                 *)
(***************************************************************************)
LEMMA EnvironmentTypes ==
  ASSUME TypeOK, Accepting,
         \/ Connect
         \/ \E id \in ClientId : Reply(id) \/ Request(id) \/ Receive(id) \/ HangUp(id)
  PROVE  TypeOK' /\ Accepting'
  <1> USE DEF loopVars, tickVars, mioVars, jobVars, writerVars, socketVars,
              historyVars, clientVars
  <1>1. CASE Connect
    <2>1. /\ backlog \in Nat /\ next_serial \in 1 .. MaxSerial + 1 /\ MaxSerial \in Nat
          /\ next_serial + backlog <= MaxSerial /\ backlog' = backlog + 1
      BY <1>1, BoundsAssumption DEF TypeOK, Connect
    <2>2. backlog' \in Nat /\ next_serial + backlog' <= MaxSerial + 1 /\ backlog' > 0
      BY <2>1
    <2>3. TypeOK'
      BY <1>1, <2>2 DEF TypeOK, Connect
    <2> QED
      BY <1>1, <2>2, <2>3 DEF Accepting, Connect
  <1>2. ASSUME NEW id \in ClientId, Reply(id)
        PROVE  TypeOK' /\ Accepting'
    <2>1. /\ messages \in Seq(Command) /\ tick \in 0 .. Len(messages)
          /\ sent \in 0 .. MaxMessages /\ sent < MaxMessages /\ sent' = sent + 1
          /\ messages' = Append(messages, SendData(id)) /\ MaxMessages \in Nat
      BY <1>2, BoundsAssumption DEF TypeOK, Reply
    <2>2. SendData(id) \in Command
      BY CommandFacts
    <2>3. /\ messages' \in Seq(Command) /\ tick \in 0 .. Len(messages')
          /\ sent' \in 0 .. MaxMessages
      BY <2>1, <2>2
    <2>4. TypeOK'
      BY <1>2, <2>3 DEF TypeOK, Reply
    <2> QED
      BY <1>2, <2>4 DEF Accepting, Reply
  <1>3. ASSUME NEW id \in ClientId, Request(id)
        PROVE  TypeOK' /\ Accepting'
    <2>1. /\ requests \in [ClientId -> Nat] /\ sent \in 0 .. MaxMessages
          /\ sent < MaxMessages /\ sent' = sent + 1 /\ MaxMessages \in Nat
          /\ requests' = [requests EXCEPT ![id] = requests[id] + 1]
      BY <1>3, BoundsAssumption DEF TypeOK, Request
    <2>2. requests' \in [ClientId -> Nat] /\ sent' \in 0 .. MaxMessages
      BY <2>1
    <2>3. TypeOK'
      BY <1>3, <2>2 DEF TypeOK, Request
    <2> QED
      BY <1>3, <2>3 DEF Accepting, Request
  <1>4. ASSUME NEW id \in ClientId, Receive(id)
        PROVE  TypeOK' /\ Accepting'
    <2>1. /\ replies \in [ClientId -> 0 .. SocketSize] /\ replies[id] > 0
          /\ SocketSize \in Nat
      BY <1>4, BoundsAssumption DEF TypeOK, Receive
    <2>2. replies[id] - 1 \in 0 .. SocketSize
      BY <2>1
    <2>3. replies' \in [ClientId -> 0 .. SocketSize]
      BY <1>4, <2>1, <2>2 DEF Receive
    <2>4. TypeOK'
      BY <1>4, <2>3 DEF TypeOK, Receive
    <2> QED
      BY <1>4, <2>4 DEF Accepting, Receive
  <1>5. ASSUME NEW id \in ClientId, HangUp(id)
        PROVE  TypeOK' /\ Accepting'
    <2>1. TypeOK'
      BY <1>5 DEF TypeOK, HangUp
    <2> QED
      BY <1>5, <2>1 DEF Accepting, HangUp
  <1> QED
    BY <1>1, <1>2, <1>3, <1>4, <1>5

-----------------------------------------------------------------------------
(***************************************************************************)
(* The turn to read, action by action.  Most steps leave the readers where *)
(* they are: what is left of the queue has only moved up by d places.      *)
(***************************************************************************)
Moved(d) ==
  \A t \in Tokens : \A i \in Returned(t)' :
     i \in Nat \ {0} /\ i + d \in Returned(t) /\ messages'[i] = messages[i + d]

(***************************************************************************)
(* A step that starts no turn to read, and moves the queue at most by one  *)
(* place, keeps every turn where it is.                                    *)
(***************************************************************************)
LEMMA ReadersFrame ==
  ASSUME Readers, NEW d \in {0, 1}, Moved(d),
         reading' \subseteq reading, events' \subseteq events,
         reader_jobs' \subseteq reader_jobs,
         UNCHANGED <<connections, reader, disconnected>>
  PROVE  Readers'
  <1> SUFFICES ASSUME NEW t \in Tokens, Fresh(t)'
               PROVE  OneReader(t)'
    BY DEF Readers
  <1>1. OneReader(t)
    BY DEF Readers, Fresh
  <1>2. /\ Armed(t)' \subseteq Armed(t) /\ Signalled(t)' \subseteq Signalled(t)
        /\ Jobs(t)' \subseteq Jobs(t)
    BY DEF Armed, Signalled, Jobs
  <1>3. Returned(t) = {} => Returned(t)' = {}
    BY DEF Moved
  <1>4. \A i \in Returned(t)' :
           /\ connections[t] = messages'[i].reader
           /\ \A k \in Returned(t)' : k = i
    BY <1>1 DEF Moved, OneReader
  <1> QED
    BY <1>1, <1>2, <1>3, <1>4 DEF OneReader

(***************************************************************************)
(* A queue that has not changed has moved by nothing.                      *)
(***************************************************************************)
LEMMA MovedUnchanged ==
  ASSUME TypeOK, messages' = messages
  PROVE  Moved(0)
  <1>1. DOMAIN messages \subseteq Nat \ {0}
    BY QueueFacts DEF TypeOK
  <1> QED
    BY <1>1 DEF Moved, Returned

(***************************************************************************)
(* A command at the end of the queue leaves the others in place.           *)
(***************************************************************************)
LEMMA MovedAppend ==
  ASSUME TypeOK, NEW c \in Command, c.cmd # "ReRegisterForReading",
         messages' = Append(messages, c)
  PROVE  Moved(0)
  <1>1. messages \in Seq(Command) /\ DOMAIN messages \subseteq Nat \ {0}
    BY QueueFacts DEF TypeOK
  <1>2. \A i \in DOMAIN messages' :
           messages'[i].cmd = "ReRegisterForReading" =>
              i \in DOMAIN messages /\ messages'[i] = messages[i]
    BY <1>1, AppendElements
  <1>3. \A i \in DOMAIN messages : i + 0 = i
    BY <1>1
  <1> QED
    BY <1>1, <1>2, <1>3 DEF Moved, Returned

(***************************************************************************)
(* Without its first command, the rest of the queue moves up by one.       *)
(***************************************************************************)
LEMMA MovedTail ==
  ASSUME TypeOK, messages # <<>>, messages' = Tail(messages)
  PROVE  Moved(1)
  <1>1. messages \in Seq(Command)
    BY DEF TypeOK
  <1>2. \A i \in DOMAIN messages' :
           i \in Nat \ {0} /\ i + 1 \in DOMAIN messages /\ messages'[i] = messages[i + 1]
    BY <1>1, TailElements
  <1> QED
    BY <1>2 DEF Moved, Returned

(***************************************************************************)
(* poll() turns armed handles into events: a oneshot handle is no longer   *)
(* armed, and each handle has one event.                                   *)
(***************************************************************************)
LEMMA PollReaders ==
  ASSUME TypeOK, Readers, poll
  PROVE  Readers'
  <1> SUFFICES ASSUME NEW t \in Tokens, Fresh(t)'
               PROVE  OneReader(t)'
    BY DEF Readers
  <1>1. /\ events' = ReadyEvents /\ reading' = Fired(reading, "reader")
        /\ UNCHANGED <<connections, reader, disconnected, messages, reader_jobs>>
    BY DEF poll, loopVars, jobVars, historyVars
  <1>2. OneReader(t)
    BY <1>1 DEF Readers, Fresh
  <1>3. /\ Armed(t)' \subseteq Armed(t) /\ Jobs(t)' = Jobs(t)
        /\ Returned(t)' = Returned(t)
    BY <1>1 DEF Armed, Jobs, Returned, Fired
  <1>4. \A e \in Signalled(t)' :
           /\ e.id \in Armed(t) /\ e.id \notin Armed(t)'
           /\ e = [side |-> "reader", id |-> e.id, hup |-> e.id \in hung_up]
    <2>1. \A e \in ReadyEvents : e.side = "reader" =>
             /\ e.id \in reading
             /\ e = [side |-> "reader", id |-> e.id, hup |-> e.id \in hung_up]
      BY DEF ReadyEvents, ListenerEvent
    <2> QED
      BY <1>1, <2>1 DEF Signalled, Armed, Fired
  <1>5. \A id \in Armed(t)' : Signalled(t)' = {}
    BY <1>2, <1>3, <1>4 DEF OneReader
  <1> QED
    BY <1>1, <1>2, <1>3, <1>4, <1>5 DEF OneReader

(***************************************************************************)
(* A slot that is fresh and free has no turn to read: its first client     *)
(* gets it.                                                                *)
(***************************************************************************)
LEMMA NewClientReaders ==
  ASSUME TypeOK, Readers, new_client
  PROVE  Readers'
  <1> SUFFICES ASSUME NEW t \in Tokens, Fresh(t)'
               PROVE  OneReader(t)'
    BY DEF Readers
  <1>1. /\ events' \subseteq events
        /\ UNCHANGED <<disconnected, messages, reader_jobs>>
    BY DEF new_client, jobVars, historyVars
  <1>2. OneReader(t)
    BY <1>1 DEF Readers, Fresh
  <1>3. /\ Jobs(t)' = Jobs(t) /\ Returned(t)' = Returned(t)
        /\ Signalled(t)' \subseteq Signalled(t)
    BY <1>1 DEF Jobs, Returned, Signalled
  <1> DEFINE id == [serial |-> next_serial, token |-> t]
  <1>4. CASE /\ connections[t] = None
             /\ connections' = [connections EXCEPT ![t] = id]
             /\ reader' = [reader EXCEPT ![t] = id]
             /\ reading' = reading \cup {id}
    <2>1. Armed(t) = {}
      BY <1>2, <1>4, NoneAssumption DEF OneReader, Armed, TypeOK
    <2>2. Signalled(t) = {}
      BY <1>2, <1>4, NoneAssumption, EventFacts DEF OneReader, Signalled, TypeOK
    <2>3. Jobs(t) = {}
      BY <1>2, <1>4, NoneAssumption DEF OneReader, Jobs, TypeOK, ReaderJob
    <2>4. Returned(t) = {}
      <3>1. \A i \in DOMAIN messages : messages[i] \in Command
        BY QueueFacts DEF TypeOK
      <3> QED
        BY <1>2, <1>4, <3>1, NoneAssumption, CommandFacts DEF OneReader, Returned
    <2>5. Armed(t)' = {id}
      BY <1>4, <2>1 DEF Armed
    <2>6. connections'[t] = id /\ reader'[t] = id
      BY <1>4 DEF TypeOK
    <2> QED
      BY <1>3, <2>2, <2>3, <2>4, <2>5, <2>6 DEF OneReader
  <1>5. CASE /\ connections'[t] = connections[t] /\ reader'[t] = reader[t]
             /\ Armed(t)' = Armed(t)
    BY <1>1, <1>2, <1>3, <1>5 DEF OneReader
  <1>6. CASE UNCHANGED <<connections, reader, reading>>
    <2>1. Armed(t)' = Armed(t)
      BY <1>6 DEF Armed
    <2> QED
      BY <1>5, <1>6, <2>1
  <1>7. ASSUME NEW u \in Tokens, u # t,
               connections' = [connections EXCEPT ![u] =
                                 [serial |-> next_serial, token |-> u]],
               reader' = [reader EXCEPT ![u] = [serial |-> next_serial, token |-> u]],
               reading' = reading \cup {[serial |-> next_serial, token |-> u]}
        PROVE  OneReader(t)'
    <2>1. Armed(t)' = Armed(t)
      BY <1>7 DEF Armed
    <2>2. connections'[t] = connections[t] /\ reader'[t] = reader[t]
      BY <1>7 DEF TypeOK
    <2> QED
      BY <1>5, <2>1, <2>2
  <1> QED
    BY <1>4, <1>6, <1>7 DEF new_client, mioVars

(***************************************************************************)
(* ready() hands the turn from the event to the job; a hang-up ends the    *)
(* freshness of the slot.                                                  *)
(***************************************************************************)
LEMMA ReadyReaders ==
  ASSUME TypeOK, Placed, Readers, NEW e \in events, ready(e)
  PROVE  Readers'
  <1> DEFINE token == e.id.token
             conn == connections[token]
  <1>1. /\ e.id \in ClientId /\ token \in Tokens /\ conn \in ClientId \cup {None}
        /\ events' = events \ {e}
        /\ UNCHANGED <<reading, messages>>
    BY EventFacts DEF TypeOK, ready, mioVars
  <1>2. CASE UNCHANGED <<connections, reader, reader_jobs, disconnected>>
    BY <1>1, <1>2, MovedUnchanged, ReadersFrame
  <1>3. CASE /\ conn # None /\ ~(e.side = "reader" /\ reader[token] = None)
             /\ event_loop' = event_loop
    <2> SUFFICES ASSUME NEW t \in Tokens, Fresh(t)'
                 PROVE  OneReader(t)'
      BY DEF Readers
    <2>1. disconnected \subseteq disconnected' /\ (e.hup => conn \in disconnected')
      BY <1>3 DEF ready
    <2>2. OneReader(t)
      BY <2>1 DEF Readers, Fresh
    <2>3. /\ Armed(t)' = Armed(t) /\ Returned(t)' = Returned(t)
          /\ Signalled(t)' \subseteq Signalled(t)
      BY <1>1 DEF Armed, Returned, Signalled
    <2>4. CASE t # token
      <3>1. connections'[t] = connections[t] /\ reader'[t] = reader[t]
        BY <1>1, <1>3, <2>4 DEF ready, TypeOK
      <3>2. CASE e.side = "writer"
        <4>1. Jobs(t)' = Jobs(t)
          BY <1>3, <3>2 DEF ready, Jobs
        <4> QED
          BY <1>1, <2>2, <2>3, <3>1, <4>1 DEF OneReader
      <3>3. CASE e.side = "reader"
        <4>1. reader_jobs' = reader_jobs \cup {[reader |-> reader[token], client |-> conn]}
          BY <1>3, <3>3 DEF ready
        <4>2. conn.token = token
          BY <1>1, <1>3 DEF Placed
        <4>3. Jobs(t)' = Jobs(t)
          BY <2>4, <4>1, <4>2 DEF Jobs
        <4> QED
          BY <1>1, <2>2, <2>3, <3>1, <4>3 DEF OneReader
      <3> QED
        BY <1>3, <3>2, <3>3 DEF ready
    <2>5. CASE t = token
      <3>1. conn.token = token
        BY <1>1, <1>3 DEF Placed
      <3>2. ~e.hup
        BY <2>1, <2>5, <3>1 DEF Fresh
      <3>3. connections' = connections
        BY <1>3, <3>2 DEF ready
      <3>4. CASE e.side = "writer"
        <4>1. Jobs(t)' = Jobs(t) /\ reader' = reader
          BY <1>3, <3>2, <3>4 DEF ready, Jobs
        <4> QED
          BY <1>1, <2>2, <2>3, <3>3, <4>1 DEF OneReader
      <3>5. CASE e.side = "reader"
        <4> DEFINE job == [reader |-> reader[token], client |-> conn]
        <4>1. reader_jobs' = reader_jobs \cup {job}
          BY <1>3, <3>5 DEF ready
        <4>2. e \in Signalled(t)
          BY <2>5, <3>5 DEF Signalled
        <4>3. /\ Armed(t) = {} /\ Jobs(t) = {} /\ Returned(t) = {}
              /\ conn = e.id /\ reader[token] = e.id
              /\ \A f \in Signalled(t) : f = e
          BY <2>2, <2>5, <4>2 DEF OneReader
        <4>4. Signalled(t)' = {}
          BY <1>1, <4>3 DEF Signalled
        <4>5. Jobs(t)' = {job}
          BY <2>5, <3>1, <4>1, <4>3 DEF Jobs
        <4>6. job.client = connections'[t] /\ job.reader = job.client
          BY <2>5, <3>3, <4>3
        <4> HIDE DEF job
        <4> QED
          BY <2>3, <4>3, <4>4, <4>5, <4>6 DEF OneReader
      <3> QED
        BY <1>3, <3>4, <3>5 DEF ready
    <2> QED
      BY <2>4, <2>5
  <1> QED
    BY <1>2, <1>3 DEF ready, loopVars, jobVars

(***************************************************************************)
(* notify(): the message that gives a reader back hands the turn to the    *)
(* armed handle, the others have nothing to do with it.                    *)
(***************************************************************************)
LEMMA NotifyReaders ==
  ASSUME TypeOK, Placed, Readers, notify
  PROVE  Readers'
  <1>1. CASE NotifySendData \/ NotifyReRegisterForWriting
    <2>1. PICK command \in {"SendData", "ReRegisterForWriting"} : Takes(command)
      BY <1>1 DEF NotifySendData, NotifyReRegisterForWriting
    <2>2. UNCHANGED <<reader, reading>>
      BY <1>1 DEF NotifySendData, NotifyReRegisterForWriting
    <2>3. Moved(1)
      BY <2>1, TakesFacts, MovedTail
    <2> QED
      BY <2>1, <2>2, <2>3, TakesFacts, ReadersFrame
  <1>2. CASE NotifyReRegisterForReading
    <2> DEFINE token == Head(messages).token
               r == Head(messages).reader
    <2>1. Takes("ReRegisterForReading")
      BY <1>2 DEF NotifyReRegisterForReading
    <2>2. /\ messages # <<>> /\ messages' = Tail(messages) /\ events' = {}
          /\ Head(messages) = messages[1] /\ 1 \in DOMAIN messages
          /\ messages[1].cmd = "ReRegisterForReading"
          /\ token \in Tokens /\ r \in ClientId
          /\ UNCHANGED <<connections, disconnected, reader_jobs, events>>
      BY <2>1, TakesFacts, TailElements, CommandFacts
    <2>3. Moved(1)
      BY <2>2, MovedTail
    <2>4. CASE UNCHANGED <<reader, reading>>
      BY <2>2, <2>3, <2>4, ReadersFrame
    <2>5. CASE /\ reader' = [reader EXCEPT ![token] = r]
               /\ reading' = reading \cup {r}
               /\ connections[token] # None
      <3> SUFFICES ASSUME NEW t \in Tokens, Fresh(t)'
                   PROVE  OneReader(t)'
        BY DEF Readers
      <3>1. OneReader(t)
        BY <2>2 DEF Readers, Fresh
      <3>2. /\ Signalled(t)' = {} /\ Signalled(t) = {} /\ Jobs(t)' = Jobs(t)
            /\ connections' = connections
        BY <2>2 DEF Signalled, Jobs
      <3>3. CASE t = token
        <4>1. 1 \in Returned(t)
          BY <2>2, <3>3 DEF Returned
        <4>2. connections[t] = r /\ \A k \in Returned(t) : k = 1
          BY <2>2, <3>1, <4>1 DEF OneReader
        <4>3. Armed(t) = {} /\ Jobs(t) = {}
          BY <3>1, <4>1 DEF OneReader
        <4>4. Returned(t)' = {}
          <5>1. \A i \in Nat \ {0} : i + 1 # 1
            OBVIOUS
          <5> QED
            BY <2>3, <4>2, <5>1 DEF Moved
        <4>5. reader'[t] = r
          BY <2>2, <2>5, <3>3 DEF TypeOK
        <4>6. Armed(t)' \subseteq {r}
          BY <2>5, <4>3 DEF Armed
        <4> HIDE DEF r
        <4> QED
          BY <3>2, <4>2, <4>3, <4>4, <4>5, <4>6 DEF OneReader
      <3>4. CASE t # token
        <4>1. r.token = token
          BY <2>2 DEF Placed, SameSlot
        <4>2. Armed(t)' = Armed(t)
          BY <2>5, <3>4, <4>1 DEF Armed
        <4>3. reader'[t] = reader[t]
          BY <2>2, <2>5, <3>4 DEF TypeOK
        <4>4. Returned(t) = {} => Returned(t)' = {}
          BY <2>3 DEF Moved
        <4>5. \A i \in Returned(t)' :
                 /\ connections[t] = messages'[i].reader
                 /\ \A k \in Returned(t)' : k = i
          BY <2>3, <3>1 DEF Moved, OneReader
        <4> QED
          BY <3>1, <3>2, <4>2, <4>3, <4>4, <4>5 DEF OneReader
      <3> QED
        BY <3>3, <3>4
    <2> QED
      BY <1>2, <2>4, <2>5 DEF NotifyReRegisterForReading, reregister
  <1> QED
    BY <1>1, <1>2 DEF notify

(***************************************************************************)
(* A job that ends hands the turn to its message, or loses it.             *)
(***************************************************************************)
LEMMA ReaderJobReaders ==
  ASSUME TypeOK, Readers, NEW job \in reader_jobs,
         ReaderJobStep(job) \/ FailReading(job)
  PROVE  Readers'
  <1>1. CASE ReadMessage(job) \/ FailReading(job)
    <2>1. /\ UNCHANGED <<connections, reader, disconnected, messages, reading, events>>
          /\ reader_jobs' \subseteq reader_jobs
      BY <1>1 DEF ReadMessage, FailReading, loopVars, tickVars, mioVars, jobVars,
                  historyVars
    <2> QED
      BY <2>1, MovedUnchanged, ReadersFrame
  <1>2. CASE FinishReading(job)
    <2> DEFINE c == ReRegisterForReading(job.client.token, job.reader)
    <2> SUFFICES ASSUME NEW t \in Tokens, Fresh(t)'
                 PROVE  OneReader(t)'
      BY DEF Readers
    <2>1. /\ UNCHANGED <<connections, reader, disconnected, reading, events>>
          /\ messages' = Append(messages, c) /\ reader_jobs' = reader_jobs \ {job}
      BY <1>2 DEF FinishReading, loopVars, tickVars, mioVars, historyVars
    <2>2. OneReader(t)
      BY <2>1 DEF Readers, Fresh
    <2>3. /\ Armed(t)' = Armed(t) /\ Signalled(t)' = Signalled(t)
          /\ Jobs(t)' = Jobs(t) \ {job}
      BY <2>1 DEF Armed, Signalled, Jobs
    <2>4. /\ messages \in Seq(Command) /\ c \in Command
          /\ c.cmd = "ReRegisterForReading" /\ c.token = job.client.token
          /\ c.reader = job.reader
      <3>1. job.client.token \in Tokens /\ job.reader \in ClientId
        BY EventFacts DEF TypeOK, ReaderJob
      <3>2. messages \in Seq(Command)
        BY DEF TypeOK
      <3>3. c \in Command
        BY <3>1, CommandFacts
      <3>4. /\ c.cmd = "ReRegisterForReading" /\ c.token = job.client.token
            /\ c.reader = job.reader
        BY DEF ReRegisterForReading
      <3> QED
        BY <3>2, <3>3, <3>4
    <2> HIDE DEF c
    <2>5. /\ \A i \in DOMAIN messages : i \in DOMAIN messages' /\ messages'[i] = messages[i]
          /\ \A i \in DOMAIN messages' : i \in DOMAIN messages \/ i = Len(messages) + 1
          /\ messages'[Len(messages) + 1] = c
          /\ Len(messages) + 1 \in DOMAIN messages'
      BY <2>1, <2>4, AppendElements
    <2>6. CASE t # job.client.token
      <3>1. Returned(t)' = Returned(t)
        BY <2>4, <2>5, <2>6 DEF Returned
      <3>2. \A i \in Returned(t) : messages'[i] = messages[i]
        BY <2>5 DEF Returned
      <3>3. Jobs(t)' \subseteq Jobs(t)
        BY <2>3
      <3>4. \A i \in Returned(t)' :
               /\ connections[t] = messages'[i].reader
               /\ \A k \in Returned(t)' : k = i
        BY <2>2, <3>1, <3>2 DEF OneReader
      <3>5. \A j \in Jobs(t)' :
               /\ connections[t] = j.client /\ j.reader = j.client
               /\ Returned(t) = {}
               /\ \A k \in Jobs(t)' : k = j
        BY <2>2, <3>3 DEF OneReader
      <3>6. \A id \in Armed(t)' :
               /\ connections[t] = id /\ reader[t] = id
               /\ Signalled(t)' = {} /\ Jobs(t)' = {} /\ Returned(t)' = {}
        BY <2>2, <2>3, <3>1, <3>3 DEF OneReader
      <3>7. \A e \in Signalled(t)' :
               /\ connections[t] = e.id /\ reader[t] = e.id
               /\ Jobs(t)' = {} /\ Returned(t)' = {}
               /\ \A f \in Signalled(t)' : f = e
        BY <2>2, <2>3, <3>1, <3>3 DEF OneReader
      <3> QED
        BY <2>1, <3>1, <3>4, <3>5, <3>6, <3>7 DEF OneReader
    <2>7. CASE t = job.client.token
      <3>1. job \in Jobs(t)
        BY <2>7 DEF Jobs
      <3>2. /\ connections[t] = job.client /\ job.reader = job.client
            /\ Returned(t) = {} /\ \A k \in Jobs(t) : k = job
            /\ Armed(t) = {} /\ Signalled(t) = {}
        BY <2>2, <3>1 DEF OneReader
      <3>3. Returned(t)' \subseteq {Len(messages) + 1}
        BY <2>5, <3>2 DEF Returned
      <3>4. Jobs(t)' = {}
        BY <2>3, <3>2
      <3> QED
        BY <2>1, <2>3, <2>4, <2>5, <3>2, <3>3, <3>4 DEF OneReader
    <2> QED
      BY <2>6, <2>7
  <1> QED
    BY <1>1, <1>2 DEF ReaderJobStep

(***************************************************************************)
(* Writer jobs, swiboe and the clients do not touch readers.               *)
(***************************************************************************)
LEMMA OtherReaders ==
  ASSUME TypeOK, Readers,
         \/ Connect
         \/ \E id \in ClientId : \/ RunWriterJob(id) \/ Reply(id)
                                 \/ Request(id) \/ Receive(id) \/ HangUp(id)
  PROVE  Readers'
  <1>1. UNCHANGED <<connections, reader, disconnected, reading, events, reader_jobs>>
    BY DEF Connect, RunWriterJob, Reply, Request, Receive, HangUp, loopVars, tickVars,
           mioVars, jobVars, historyVars
  <1>2. \/ messages' = messages
        \/ \E c \in Command : /\ c.cmd # "ReRegisterForReading"
                              /\ messages' = Append(messages, c)
    <2>1. CASE \E id \in ClientId : RunWriterJob(id)
      BY <2>1, CommandFacts, EventFacts DEF RunWriterJob
    <2>2. CASE \E id \in ClientId : Reply(id)
      BY <2>2, CommandFacts DEF Reply
    <2> QED
      BY <2>1, <2>2 DEF Connect, Request, Receive, HangUp
  <1>3. Moved(0)
    BY <1>2, MovedUnchanged, MovedAppend
  <1> QED
    BY <1>1, <1>3, ReadersFrame

-----------------------------------------------------------------------------
(***************************************************************************)
(* Connections and readers stay in their slots, in every step that leaves  *)
(* both alone and only shortens the queue or appends a command to it.      *)
(***************************************************************************)
LEMMA PlacedFrame ==
  ASSUME TypeOK, Placed, UNCHANGED <<connections, reader>>,
         reader_jobs' \subseteq reader_jobs,
         \/ messages' = messages
         \/ messages # <<>> /\ messages' = Tail(messages)
         \/ \E c \in Command : SameSlot(c) /\ messages' = Append(messages, c)
  PROVE  Placed'
  <1>1. messages \in Seq(Command)
    BY DEF TypeOK
  <1>2. \A i \in DOMAIN messages : SameSlot(messages[i])
    BY DEF Placed
  <1>3. \A i \in DOMAIN messages' : SameSlot(messages'[i])
    <2>1. CASE messages' = messages
      BY <1>2, <2>1
    <2>2. CASE messages # <<>> /\ messages' = Tail(messages)
      BY <1>1, <1>2, <2>2, TailElements
    <2>3. ASSUME NEW c \in Command, SameSlot(c), messages' = Append(messages, c)
          PROVE  \A i \in DOMAIN messages' : SameSlot(messages'[i])
      BY <1>1, <1>2, <2>3, AppendElements
    <2> QED
      BY <2>1, <2>2, <2>3
  <1> QED
    BY <1>3 DEF Placed, SameSlot

(***************************************************************************)
(* Every action keeps connections and readers in their slots.              *)
(***************************************************************************)
LEMMA PlacedStep ==
  ASSUME TypeOK, Placed, Next
  PROVE  Placed'
  <1> USE DEF loopVars, tickVars, mioVars, jobVars, historyVars
  <1>1. CASE poll
    BY <1>1, PlacedFrame DEF poll
  <1>2. CASE new_client
    <2>1. UNCHANGED <<messages, reader_jobs>>
      BY <1>2 DEF new_client
    <2>2. \A t \in Tokens :
             \/ connections'[t] = connections[t] /\ reader'[t] = reader[t]
             \/ connections'[t].token = t /\ reader'[t].token = t
      <3>1. /\ connections \in [Tokens -> ClientId \cup {None}]
            /\ reader \in [Tokens -> ClientId \cup {None}]
        BY DEF TypeOK
      <3>2. CASE UNCHANGED <<connections, reader>>
        BY <3>2
      <3>3. ASSUME NEW u \in Tokens, NEW id, id.token = u,
                   connections' = [connections EXCEPT ![u] = id],
                   reader' = [reader EXCEPT ![u] = id]
            PROVE  \A t \in Tokens :
                      \/ connections'[t] = connections[t] /\ reader'[t] = reader[t]
                      \/ connections'[t].token = t /\ reader'[t].token = t
        BY <3>1, <3>3
      <3>4. \/ UNCHANGED <<connections, reader>>
            \/ \E u \in Tokens : \E id :
                  /\ id.token = u
                  /\ connections' = [connections EXCEPT ![u] = id]
                  /\ reader' = [reader EXCEPT ![u] = id]
        BY <1>2 DEF new_client
      <3> QED
        BY <3>2, <3>3, <3>4
    <2> QED
      BY <2>1, <2>2 DEF Placed, SameSlot
  <1>3. ASSUME NEW e \in events, ready(e)
        PROVE  Placed'
    <2> DEFINE token == e.id.token
    <2>1. token \in Tokens /\ messages' = messages
      BY <1>3, EventFacts DEF TypeOK, ready
    <2>2. \A t \in Tokens : /\ connections'[t] \in {connections[t], None}
                            /\ reader'[t] \in {reader[t], None}
      BY <1>3, <2>1 DEF ready, TypeOK
    <2>3. \A j \in reader_jobs' : j.reader.token = j.client.token
      <3>1. CASE reader_jobs' = reader_jobs
        BY <3>1 DEF Placed
      <3>2. CASE /\ connections[token] # None /\ reader[token] # None
                 /\ reader_jobs' = reader_jobs \cup
                      {[reader |-> reader[token], client |-> connections[token]]}
        BY <2>1, <3>2 DEF Placed
      <3> QED
        BY <1>3, <3>1, <3>2 DEF ready
    <2> QED
      BY <2>1, <2>2, <2>3 DEF Placed, SameSlot
  <1>4. CASE NotifySendData \/ NotifyReRegisterForWriting
    <2>1. PICK command \in {"SendData", "ReRegisterForWriting"} : Takes(command)
      BY <1>4 DEF NotifySendData, NotifyReRegisterForWriting
    <2>2. reader' = reader
      BY <1>4 DEF NotifySendData, NotifyReRegisterForWriting
    <2> QED
      BY <2>1, <2>2, TakesFacts, PlacedFrame
  <1>5. CASE NotifyReRegisterForReading
    <2>1. Takes("ReRegisterForReading")
      BY <1>5 DEF NotifyReRegisterForReading
    <2>2. /\ messages # <<>> /\ messages' = Tail(messages) /\ messages \in Seq(Command)
          /\ Head(messages) \in Command /\ Head(messages).cmd = "ReRegisterForReading"
          /\ UNCHANGED <<connections, reader_jobs>>
      BY <2>1, TakesFacts
    <2>3. Head(messages).reader.token = Head(messages).token
      BY <2>2, TailElements DEF Placed, SameSlot
    <2>4. \A i \in DOMAIN messages' : SameSlot(messages'[i])
      BY <2>2, TailElements DEF Placed
    <2>5. \A t \in Tokens : \/ reader'[t] = reader[t]
                            \/ reader'[t].token = t
      BY <1>5, <2>3 DEF NotifyReRegisterForReading, TypeOK
    <2> QED
      BY <2>2, <2>4, <2>5 DEF Placed, SameSlot
  <1>6. ASSUME NEW job \in reader_jobs, ReaderJobStep(job) \/ FailReading(job)
        PROVE  Placed'
    <2>1. CASE ReadMessage(job) \/ FailReading(job)
      BY <2>1, PlacedFrame DEF ReadMessage, FailReading
    <2>2. CASE FinishReading(job)
      <3> DEFINE c == ReRegisterForReading(job.client.token, job.reader)
      <3>1. job.client.token \in Tokens /\ job.reader \in ClientId
        BY EventFacts DEF TypeOK, ReaderJob
      <3>2. c \in Command
        BY <3>1, CommandFacts
      <3>3. SameSlot(c)
        BY DEF SameSlot, ReRegisterForReading, Placed
      <3>4. /\ messages' = Append(messages, c) /\ reader_jobs' \subseteq reader_jobs
            /\ UNCHANGED <<connections, reader>>
        BY <2>2 DEF FinishReading
      <3> HIDE DEF c
      <3> QED
        BY <3>2, <3>3, <3>4, PlacedFrame
    <2> QED
      BY <1>6, <2>1, <2>2 DEF ReaderJobStep
  <1>7. CASE \/ Connect
             \/ \E id \in ClientId : \/ RunWriterJob(id) \/ Reply(id)
                                     \/ Request(id) \/ Receive(id) \/ HangUp(id)
    <2>1. UNCHANGED <<connections, reader, reader_jobs>>
      BY <1>7 DEF Connect, RunWriterJob, Reply, Request, Receive, HangUp
    <2>2. ASSUME NEW id \in ClientId
          PROVE  /\ SendData(id) \in Command /\ SameSlot(SendData(id))
                 /\ ReRegisterForWriting(id.token) \in Command
                 /\ SameSlot(ReRegisterForWriting(id.token))
      BY CommandFacts, EventFacts DEF SameSlot, SendData, ReRegisterForWriting
    <2>3. \/ messages' = messages
          \/ \E id \in ClientId : \/ messages' = Append(messages, SendData(id))
                                  \/ messages' = Append(messages, ReRegisterForWriting(id.token))
      BY <1>7 DEF Connect, RunWriterJob, Reply, Request, Receive, HangUp
    <2> QED
      BY <2>1, <2>2, <2>3, PlacedFrame
  <1> QED
    BY <1>1, <1>2, <1>3, <1>4, <1>5, <1>6, <1>7 DEF Next, EventLoop, notify

-----------------------------------------------------------------------------
(***************************************************************************)
(* Every step of the specification keeps the inductive invariant.          *)
(***************************************************************************)
LEMMA NextIInv ==
  ASSUME IInv, [Next]_vars
  PROVE  IInv'
  <1>1. TypeOK /\ Accepting /\ Placed /\ Readers
    BY DEF IInv
  <1>2. CASE Next
    <2>1. Placed'
      BY <1>1, <1>2, PlacedStep
    <2>2. TypeOK' /\ Accepting'
      BY <1>1, <1>2, PollTypes, NewClientTypes, ReadyTypes, NotifyTypes,
         ReaderJobTypes, WriterJobTypes, EnvironmentTypes DEF Next, EventLoop
    <2>3. Readers'
      BY <1>1, <1>2, PollReaders, NewClientReaders, ReadyReaders, NotifyReaders,
         ReaderJobReaders, OtherReaders DEF Next, EventLoop
    <2> QED
      BY <2>1, <2>2, <2>3 DEF IInv
  <1>3. CASE UNCHANGED vars
    <2> USE <1>3 DEF vars, loopVars, tickVars, mioVars, jobVars, writerVars,
             socketVars, clientVars, historyVars
    <2>1. TypeOK' /\ Accepting'
      BY <1>1 DEF TypeOK, Accepting
    <2>2. Placed'
      BY <1>1, PlacedFrame
    <2>3. Readers'
      BY <1>1, MovedUnchanged, ReadersFrame
    <2> QED
      BY <2>1, <2>2, <2>3 DEF IInv
  <1> QED
    BY <1>2, <1>3

(***************************************************************************)
(* The inductive invariant holds in every state of the bridge.             *)
(***************************************************************************)
THEOREM Invariance == Spec => []IInv
  BY InitIInv, NextIInv, PTL DEF Spec

(***************************************************************************)
(* The slab, the queues, the counters and the sockets of the bridge keep   *)
(* their types; in particular no socket takes more than fits.              *)
(***************************************************************************)
THEOREM TypeCorrectness == Spec => []TypeOK
  <1>1. IInv => TypeOK
    BY DEF IInv
  <1> QED
    BY <1>1, Invariance, PTL

(***************************************************************************)
(* conn.reader.take().unwrap() never panics in a slot that has had only    *)
(* one client: the reader is there whenever a readable event comes.        *)
(***************************************************************************)
THEOREM ReaderIsAtHand == Spec => []ReaderAtHand
  <1>1. IInv => ReaderAtHand
    <2> SUFFICES ASSUME IInv, NEW e \in events, e.side = "reader",
                        connections[e.id.token] # None, reader[e.id.token] = None,
                        Fresh(e.id.token)
                 PROVE  FALSE
      BY DEF ReaderAtHand, Fresh
    <2>1. e.id \in ClientId /\ e.id.token \in Tokens
      BY EventFacts DEF IInv, TypeOK
    <2>2. e \in Signalled(e.id.token)
      BY DEF Signalled
    <2>3. reader[e.id.token] = e.id
      BY <2>1, <2>2 DEF IInv, Readers, OneReader
    <2> QED
      BY <2>1, <2>3, NoneAssumption
  <1> QED
    BY <1>1, Invariance, PTL
-----------------------------------------------------------------------------
(***************************************************************************)
(* No wake-up is lost, action by action.  What can wake a writer stays     *)
(* where it is in most steps.                                              *)
(***************************************************************************)
Asked(id) == \E i \in DOMAIN messages : messages[i] = ReRegisterForWriting(id.token)

(***************************************************************************)
(* A step that takes neither an event, a job nor a request to be armed     *)
(* away from a writer keeps its wake-up.                                   *)
(***************************************************************************)
LEMMA WakeupFrame ==
  ASSUME NEW id \in ClientId, WillWrite(id),
         id \in writing => id \in writing' \/ (\E e \in events' : e.side = "writer" /\ e.id = id),
         \A e \in events : e.side = "writer" /\ e.id = id => e \in events',
         writer_jobs[id] > 0 => writer_jobs'[id] > 0,
         Asked(id) => Asked(id)'
  PROVE  WillWrite(id)'
  BY DEF WillWrite, Asked

(***************************************************************************)
(* A command that is appended takes no request away, and of the commands   *)
(* that notify() takes only ReRegisterForWriting does.                     *)
(***************************************************************************)
LEMMA AskedStays ==
  ASSUME TypeOK, NEW id,
         \/ messages' = messages
         \/ \E c \in Command : messages' = Append(messages, c)
         \/ /\ messages # <<>> /\ messages' = Tail(messages)
            /\ Head(messages) # ReRegisterForWriting(id.token)
  PROVE  Asked(id) => Asked(id)'
  <1>1. messages \in Seq(Command)
    BY DEF TypeOK
  <1>2. CASE messages' = messages
    BY <1>2 DEF Asked
  <1>3. ASSUME NEW c \in Command, messages' = Append(messages, c)
        PROVE  Asked(id) => Asked(id)'
    BY <1>1, <1>3, AppendElements DEF Asked
  <1>4. CASE /\ messages # <<>> /\ messages' = Tail(messages)
             /\ Head(messages) # ReRegisterForWriting(id.token)
    <2> SUFFICES ASSUME NEW i \in DOMAIN messages,
                        messages[i] = ReRegisterForWriting(id.token)
                 PROVE  Asked(id)'
      BY DEF Asked
    <2>1. i - 1 \in DOMAIN Tail(messages) /\ Tail(messages)[i - 1] = messages[i]
      BY <1>1, <1>4, TailElements
    <2> QED
      BY <1>4, <2>1 DEF Asked
  <1> QED
    BY <1>2, <1>3, <1>4

(***************************************************************************)
(* The oneshot event that disarms a writer is among the events of the tick.*)
(***************************************************************************)
LEMMA PollWakeup ==
  ASSUME TypeOK, NoLostWakeup, poll
  PROVE  NoLostWakeup'
  <1>1. /\ events = {} /\ events' = ReadyEvents /\ writing' = Fired(writing, "writer")
        /\ UNCHANGED <<connections, to_write, poisoned, writer_jobs, messages>>
    BY DEF poll, loopVars, jobVars, writerVars
  <1> SUFFICES ASSUME NEW id \in ClientId, connections'[id.token] = id, to_write'[id] > 0
               PROVE  WillWrite(id)' \/ id \in poisoned'
    BY DEF NoLostWakeup
  <1>2. WillWrite(id) \/ id \in poisoned
    BY <1>1 DEF NoLostWakeup
  <1>3. id \in writing =>
           id \in writing' \/ (\E e \in events' : e.side = "writer" /\ e.id = id)
    BY <1>1 DEF Fired
  <1>4. Asked(id) => Asked(id)'
    BY <1>1, AskedStays
  <1> QED
    BY <1>1, <1>2, <1>3, <1>4, WakeupFrame

(***************************************************************************)
(* The writer of a connection is armed when it is accepted.                *)
(***************************************************************************)
LEMMA NewClientWakeup ==
  ASSUME TypeOK, NoLostWakeup, new_client
  PROVE  NoLostWakeup'
  <1>1. /\ events' = events \ {ListenerEvent} /\ writing \subseteq writing'
        /\ UNCHANGED <<to_write, poisoned, writer_jobs, messages>>
    BY DEF new_client, jobVars, writerVars, mioVars
  <1> SUFFICES ASSUME NEW id \in ClientId, connections'[id.token] = id, to_write'[id] > 0
               PROVE  WillWrite(id)' \/ id \in poisoned'
    BY DEF NoLostWakeup
  <1>2. id.token \in Tokens /\ connections \in [Tokens -> ClientId \cup {None}]
    BY EventFacts DEF TypeOK
  <1>3. CASE connections'[id.token] = connections[id.token]
    <2>1. WillWrite(id) \/ id \in poisoned
      BY <1>1, <1>3 DEF NoLostWakeup
    <2>2. Asked(id) => Asked(id)'
      BY <1>1, AskedStays
    <2> QED
      BY <1>1, <2>1, <2>2, WakeupFrame, EventFacts
  <1>4. ASSUME NEW token \in Tokens, NEW new,
               connections' = [connections EXCEPT ![token] = new],
               writing' = writing \cup {new}
        PROVE  WillWrite(id)' \/ id \in poisoned'
    BY <1>2, <1>3, <1>4 DEF WillWrite
  <1> QED
    BY <1>3, <1>4 DEF new_client

(***************************************************************************)
(* ready() makes a job of the event, unless the connection is gone.        *)
(***************************************************************************)
LEMMA ReadyWakeup ==
  ASSUME TypeOK, NoLostWakeup, NEW e \in events, ready(e)
  PROVE  NoLostWakeup'
  <1>1. /\ events' = events \ {e}
        /\ UNCHANGED <<writing, to_write, poisoned, messages>>
    BY DEF ready, writerVars, mioVars
  <1> SUFFICES ASSUME NEW id \in ClientId, connections'[id.token] = id, to_write'[id] > 0
               PROVE  WillWrite(id)' \/ id \in poisoned'
    BY DEF NoLostWakeup
  <1>2. /\ id.token \in Tokens /\ e.id.token \in Tokens /\ id # None
        /\ connections \in [Tokens -> ClientId \cup {None}]
        /\ writer_jobs \in [ClientId -> Nat]
    BY EventFacts, NoneAssumption DEF TypeOK, ready
  <1>3. connections[id.token] = id
    <2>1. \/ connections' = connections
          \/ connections' = [connections EXCEPT ![e.id.token] = None]
      BY DEF ready, loopVars
    <2> QED
      BY <1>2, <2>1
  <1>4. WillWrite(id) \/ id \in poisoned
    BY <1>1, <1>3 DEF NoLostWakeup
  <1>5. Asked(id) => Asked(id)'
    BY <1>1, AskedStays
  <1>6. CASE e.side = "writer" /\ e.id = id
    <2>1. writer_jobs' = [writer_jobs EXCEPT ![id] = @ + 1]
      BY <1>2, <1>3, <1>6 DEF ready
    <2>2. writer_jobs'[id] > 0
      BY <1>2, <2>1
    <2> QED
      BY <2>2 DEF WillWrite
  <1>7. CASE ~(e.side = "writer" /\ e.id = id)
    <2>1. \/ writer_jobs' = writer_jobs
          \/ \E conn : writer_jobs' = [writer_jobs EXCEPT ![conn] = @ + 1]
      BY DEF ready, jobVars
    <2>2. writer_jobs[id] > 0 => writer_jobs'[id] > 0
      BY <1>2, <2>1
    <2> QED
      BY <1>1, <1>4, <1>5, <1>7, <2>2, WakeupFrame
  <1> QED
    BY <1>6, <1>7

(***************************************************************************)
(* notify() arms the writer that gets something to write, and the one that *)
(* a job has asked for; it leaves the others alone.                        *)
(***************************************************************************)
LEMMA NotifyWakeup ==
  ASSUME TypeOK, NoLostWakeup, notify
  PROVE  NoLostWakeup'
  <1>1. PICK command : Takes(command)
    BY DEF notify, NotifySendData, NotifyReRegisterForReading, NotifyReRegisterForWriting
  <1>2. /\ messages # <<>> /\ messages' = Tail(messages)
        /\ Head(messages) \in Command
        /\ UNCHANGED <<events, connections, writer_jobs, poisoned>>
    BY <1>1, TakesFacts
  <1>3. writing \subseteq writing'
    BY DEF notify, NotifySendData, NotifyReRegisterForReading,
           NotifyReRegisterForWriting, reregister_for_writing, reregister
  <1> SUFFICES ASSUME NEW id \in ClientId, connections[id.token] = id, to_write'[id] > 0
               PROVE  WillWrite(id)' \/ id \in poisoned
    BY <1>2 DEF NoLostWakeup
  <1>4. id # None /\ to_write \in [ClientId -> Nat]
    BY NoneAssumption DEF TypeOK
  <1>5. CASE id \in writing' \/ id \in poisoned
    BY <1>5 DEF WillWrite
  <1>6. CASE to_write'[id] = to_write[id] /\ Head(messages) # ReRegisterForWriting(id.token)
    <2>1. WillWrite(id) \/ id \in poisoned
      BY <1>6 DEF NoLostWakeup
    <2>2. Asked(id) => Asked(id)'
      BY <1>2, <1>6, AskedStays
    <2> QED
      BY <1>2, <1>3, <2>1, <2>2, WakeupFrame
  <1>7. CASE NotifySendData
    <2>1. Head(messages) # ReRegisterForWriting(id.token)
      BY <1>2, <1>7, CommandFacts DEF NotifySendData, Takes
    <2>2. CASE Head(messages).client = id
      BY <1>5, <1>7, <2>2 DEF NotifySendData, reregister_for_writing, reregister
    <2>3. CASE Head(messages).client # id
      <3>1. to_write'[id] = to_write[id]
        BY <1>4, <1>7, <2>3 DEF NotifySendData
      <3> QED
        BY <1>6, <2>1, <3>1
    <2> QED
      BY <2>2, <2>3
  <1>8. CASE NotifyReRegisterForReading
    <2>1. Head(messages) # ReRegisterForWriting(id.token)
      BY <1>2, <1>8, CommandFacts DEF NotifyReRegisterForReading, Takes
    <2> QED
      BY <1>6, <1>8, <2>1 DEF NotifyReRegisterForReading
  <1>9. CASE NotifyReRegisterForWriting
    <2>1. CASE Head(messages) = ReRegisterForWriting(id.token)
      <3>1. Head(messages).token = id.token
        BY <2>1, CommandFacts
      <3> QED
        BY <1>4, <1>5, <1>9, <3>1
        DEF NotifyReRegisterForWriting, reregister_for_writing, reregister
    <2> QED
      BY <1>6, <1>9, <2>1 DEF NotifyReRegisterForWriting
  <1> QED
    BY <1>7, <1>8, <1>9 DEF notify

(***************************************************************************)
(* A writer job that leaves something asks for its writer to be armed.     *)
(***************************************************************************)
LEMMA WriterJobWakeup ==
  ASSUME TypeOK, NoLostWakeup, NEW job \in ClientId, RunWriterJob(job)
  PROVE  NoLostWakeup'
  <1>1. /\ UNCHANGED <<connections, events, writing>> /\ poisoned \subseteq poisoned'
        /\ writer_jobs' = [writer_jobs EXCEPT ![job] = @ - 1]
    BY DEF RunWriterJob, loopVars, tickVars, mioVars, writerVars
  <1>2. /\ writer_jobs \in [ClientId -> Nat] /\ to_write \in [ClientId -> Nat]
        /\ messages \in Seq(Command) /\ job.token \in Tokens
    BY EventFacts DEF TypeOK
  <1>3. \/ messages' = messages
        \/ messages' = Append(messages, ReRegisterForWriting(job.token))
    BY DEF RunWriterJob
  <1>4. ReRegisterForWriting(job.token) \in Command
    BY <1>2, CommandFacts
  <1> SUFFICES ASSUME NEW id \in ClientId, connections[id.token] = id, to_write'[id] > 0
               PROVE  WillWrite(id)' \/ id \in poisoned'
    BY <1>1 DEF NoLostWakeup
  <1>5. CASE id = job
    <2>1. CASE id \in poisoned \/ (id \in hung_up /\ to_write[id] > 0)
      BY <1>1, <1>5, <2>1 DEF RunWriterJob
    <2>2. CASE id \notin poisoned /\ (id \notin hung_up \/ to_write[id] = 0)
      <3>1. /\ to_write' = [to_write EXCEPT ![id] = to_write[id] - WrittenAtOnce(id)]
            /\ WrittenAtOnce(id) < to_write[id] =>
                 messages' = Append(messages, ReRegisterForWriting(id.token))
        BY <1>5, <2>2 DEF RunWriterJob
      <3>2. to_write'[id] = to_write[id] - WrittenAtOnce(id)
        BY <1>2, <3>1
      <3>3. /\ WrittenAtOnce(id) \in Nat /\ to_write[id] \in Nat
        BY WrittenFacts
      <3>4. WrittenAtOnce(id) < to_write[id]
        BY <3>2, <3>3
      <3>5. messages' = Append(messages, ReRegisterForWriting(id.token))
        BY <3>1, <3>4
      <3>6. \E i \in DOMAIN messages' : messages'[i] = ReRegisterForWriting(id.token)
        BY <1>2, <1>4, <1>5, <3>5, AppendElements
      <3> QED
        BY <3>6 DEF WillWrite
    <2> QED
      BY <1>2, <2>1, <2>2
  <1>6. CASE id # job
    <2>1. to_write'[id] = to_write[id] /\ writer_jobs'[id] = writer_jobs[id]
      BY <1>1, <1>2, <1>6 DEF RunWriterJob, writerVars
    <2>2. WillWrite(id) \/ id \in poisoned
      BY <2>1 DEF NoLostWakeup
    <2>3. Asked(id) => Asked(id)'
      BY <1>3, <1>4, AskedStays
    <2> QED
      BY <1>1, <2>1, <2>2, <2>3, WakeupFrame
  <1> QED
    BY <1>5, <1>6

(***************************************************************************)
(* Reader jobs, swiboe and the clients do not touch writers.               *)
(***************************************************************************)
LEMMA OtherWakeup ==
  ASSUME TypeOK, NoLostWakeup,
         UNCHANGED <<connections, events, writing, writer_jobs, to_write, poisoned>>,
         messages' = messages \/ \E c \in Command : messages' = Append(messages, c)
  PROVE  NoLostWakeup'
  <1> SUFFICES ASSUME NEW id \in ClientId, connections[id.token] = id, to_write[id] > 0
               PROVE  WillWrite(id)' \/ id \in poisoned
    BY DEF NoLostWakeup
  <1>1. WillWrite(id) \/ id \in poisoned
    BY DEF NoLostWakeup
  <1>2. Asked(id) => Asked(id)'
    BY AskedStays
  <1> QED
    BY <1>1, <1>2, WakeupFrame

(***************************************************************************)
(* No step of the specification loses a wake-up.                           *)
(***************************************************************************)
LEMMA NextWakeup ==
  ASSUME TypeOK, NoLostWakeup, [Next]_vars
  PROVE  NoLostWakeup'
  <1> DEFINE Quiet == /\ UNCHANGED <<connections, events, writing, writer_jobs,
                                     to_write, poisoned>>
                      /\ \/ messages' = messages
                         \/ \E c \in Command : messages' = Append(messages, c)
  <1> USE DEF loopVars, tickVars, mioVars, jobVars, writerVars
  <1>1. ASSUME NEW job \in reader_jobs, ReaderJobStep(job) \/ FailReading(job)
        PROVE  Quiet
    <2>1. job.client.token \in Tokens /\ job.reader \in ClientId
      BY EventFacts DEF TypeOK, ReaderJob
    <2>2. ReRegisterForReading(job.client.token, job.reader) \in Command
      BY <2>1, CommandFacts
    <2> QED
      BY <1>1, <2>2 DEF ReaderJobStep, ReadMessage, FinishReading, FailReading
  <1>2. ASSUME NEW id \in ClientId,
               Reply(id) \/ Request(id) \/ Receive(id) \/ HangUp(id)
        PROVE  Quiet
    <2>1. SendData(id) \in Command
      BY CommandFacts
    <2> QED
      BY <1>2, <2>1 DEF Reply, Request, Receive, HangUp
  <1>3. Connect \/ UNCHANGED vars => Quiet
    BY DEF Connect, vars
  <1>4. Quiet => NoLostWakeup'
    BY OtherWakeup
  <1> HIDE DEF Quiet
  <1> QED
    BY <1>1, <1>2, <1>3, <1>4, PollWakeup, NewClientWakeup, ReadyWakeup, NotifyWakeup,
       WriterJobWakeup DEF Next, EventLoop

(***************************************************************************)
(* Whatever the order of SendData, oneshot events and writer jobs, no      *)
(* connection is left with something to write and nobody to write it,      *)
(* unless a job has poisoned the mutex of its writer.                      *)
(***************************************************************************)
THEOREM NoWakeupLost == Spec => []NoLostWakeup
  <1>1. Init => NoLostWakeup
    BY NoneAssumption DEF Init, NoLostWakeup
  <1>2. TypeOK /\ NoLostWakeup /\ [Next]_vars => NoLostWakeup'
    BY NextWakeup
  <1> QED
    BY <1>1, <1>2, TypeCorrectness, PTL DEF Spec
=============================================================================
