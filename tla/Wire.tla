-------------------------------- MODULE Wire --------------------------------
(***************************************************************************)
(* Messages on a socket (src/ipc.rs): a length of four bytes, then the     *)
(* body.  Both directions of a connection are modelled, which one is       *)
(* chosen in the initial state:                                            *)
(*   "to_server"  the write thread of a client calls write_message, which  *)
(*                blocks, a reader job of the bridge try_read_message;     *)
(*   "to_client"  the bridge calls queue_message and, in writer jobs,      *)
(*                try_write, the read thread of the client read_message,   *)
(*                which blocks.                                            *)
(* A message is the sequence of the bytes of its JSON text.  The code has  *)
(* Base = 256.  A call of the operating system may move any number of the  *)
(* bytes it could move.                                                    *)
(***************************************************************************)
EXTENDS Naturals, Sequences

CONSTANTS Base,        \* values of a byte
          Messages,
          SocketSize,  \* bound: bytes the kernel holds
          MaxSent      \* bound: messages

Byte == 0 .. Base - 1

ASSUME BaseAssumption == Base \in Nat /\ Base > 1
(***************************************************************************)
(* A JSON text is not empty; one of 4 GB would not fit the length.         *)
(***************************************************************************)
ASSUME MessagesAssumption ==
  \A m \in Messages : /\ m \in Seq(Byte)
                      /\ 0 < Len(m)
                      /\ Len(m) < Base * (Base * (Base * Base))
ASSUME WireBoundsAssumption == SocketSize \in Nat /\ MaxSent \in Nat

VARIABLES
  direction,
  to_write,      \* Writer.to_write: the chunks still to be written
  num_written,   \* Writer.num_written: bytes of to_write[1] already written
  socket,        \* bytes in the kernel
  buffer,        \* Reader.buffer (for read_message: size_buf, then buffer)
  reader,        \* the reader "runs" or waits for a "readable" event
  closed,        \* the writing end is closed
  sent, received \* history: the messages handed to and given by this module

vars == <<direction, to_write, num_written, socket, buffer, reader, closed,
          sent, received>>

parse_length(buf) ==
  buf[1] + Base * (buf[2] + Base * (buf[3] + Base * buf[4]))

(***************************************************************************)
(* (len >> 8 * i) as u8, for i = 0 .. 3                                    *)
(***************************************************************************)
encode_length(len) ==
  LET len1 == len \div Base
      len2 == len1 \div Base
      len3 == len2 \div Base
  IN  <<len % Base, len1 % Base, len2 % Base, len3 % Base>>

Init ==
  /\ direction \in {"to_server", "to_client"}
  /\ to_write = <<>> /\ num_written = 0
  /\ socket = <<>>
  /\ buffer = <<>>
  /\ reader = IF direction = "to_server" THEN "readable" ELSE "runs"
  /\ closed = FALSE
  /\ sent = <<>> /\ received = <<>>

(***************************************************************************)
(* queue_message; or the start of write_message, which the write thread    *)
(* calls when the former call has written everything.                      *)
(***************************************************************************)
SendMessage ==
  /\ ~closed
  /\ Len(sent) < MaxSent
  /\ direction = "to_server" => to_write = <<>>
  /\ \E m \in Messages :
        /\ to_write' = to_write \o <<encode_length(Len(m)), m>>
        /\ sent' = Append(sent, m)
  /\ UNCHANGED <<direction, num_written, socket, buffer, reader, closed, received>>

(***************************************************************************)
(* Mutant: what was written in earlier turns is forgotten.                 *)
(***************************************************************************)
Written_Restart(n) ==
  IF n = Len(to_write[1]) - num_written
  THEN to_write' = Tail(to_write) /\ num_written' = 0
  ELSE UNCHANGED <<to_write, num_written>>

(***************************************************************************)
(* One turn of try_write() or of the loop in write_all(): what was written *)
(* is counted, a chunk that is written completely is removed.              *)
(***************************************************************************)
Written(n) ==
  IF num_written + n = Len(to_write[1])
  THEN to_write' = Tail(to_write) /\ num_written' = 0
  ELSE num_written' = num_written + n /\ UNCHANGED to_write

try_write ==
  /\ ~closed
  /\ to_write # <<>>
  /\ \E n \in 1 .. Len(to_write[1]) - num_written :
        /\ Len(socket) + n <= SocketSize
        /\ socket' = socket \o SubSeq(to_write[1], num_written + 1, num_written + n)
        /\ Written(n)
  /\ UNCHANGED <<direction, buffer, reader, closed, sent, received>>

(***************************************************************************)
(* The reader's side: which of the bytes belong to the next message.       *)
(***************************************************************************)
Complete(buf) == Len(buf) >= 4 /\ Len(buf) >= 4 + parse_length(buf)

Deliver(buf) ==
  /\ received' = Append(received, SubSeq(buf, 5, 4 + parse_length(buf)))
  /\ buffer' = SubSeq(buf, 5 + parse_length(buf), Len(buf))

(***************************************************************************)
(* try_read_message in the loop of a reader job, which ends at the first   *)
(* Ok(None).  With nothing to read it still looks into the buffer.         *)
(***************************************************************************)
(***************************************************************************)
(* Mutant: the job ends after a message.                                   *)
(***************************************************************************)
StateAfter_OneMessage(buf) == "readable"

StateAfter(buf) == IF Complete(buf) THEN "runs" ELSE "readable"

try_read_message ==
  /\ direction = "to_server" /\ reader = "runs"
  /\ \E n \in 0 .. Len(socket) :
        LET buf == buffer \o SubSeq(socket, 1, n)
        IN  /\ n = 0 => socket = <<>>
            /\ socket' = SubSeq(socket, n + 1, Len(socket))
            /\ reader' = StateAfter(buf)
            /\ IF Complete(buf) THEN Deliver(buf)
               ELSE buffer' = buf /\ UNCHANGED received
  /\ UNCHANGED <<direction, to_write, num_written, closed, sent>>

(***************************************************************************)
(* The level triggered event of a socket that is registered again.         *)
(***************************************************************************)
ready ==
  /\ reader = "readable" /\ socket # <<>>
  /\ reader' = "runs"
  /\ UNCHANGED <<direction, to_write, num_written, socket, buffer, closed, sent, received>>

(***************************************************************************)
(* read_message: read_exact of the length, then of that many bytes.        *)
(***************************************************************************)
Wanted(buf) == IF Len(buf) < 4 THEN 4 - Len(buf) ELSE 4 + parse_length(buf) - Len(buf)

read_message ==
  /\ direction = "to_client"
  /\ \E n \in 1 .. Len(socket) :
        LET buf == buffer \o SubSeq(socket, 1, n)
        IN  /\ n <= Wanted(buffer)
            /\ socket' = SubSeq(socket, n + 1, Len(socket))
            /\ IF Complete(buf) THEN Deliver(buf)
               ELSE buffer' = buf /\ UNCHANGED received
  /\ UNCHANGED <<direction, to_write, num_written, reader, closed, sent>>

(***************************************************************************)
(* The sender goes away, perhaps with a message half written.              *)
(***************************************************************************)
Close ==
  /\ ~closed
  /\ closed' = TRUE
  /\ UNCHANGED <<direction, to_write, num_written, socket, buffer, reader, sent, received>>

Next ==
  \/ SendMessage \/ try_write
  \/ try_read_message \/ ready \/ read_message
  \/ Close

Spec == Init /\ [][Next]_vars

Fairness ==
  /\ WF_vars(try_write)
  /\ WF_vars(try_read_message) /\ WF_vars(ready) /\ WF_vars(read_message)

FairSpec == Spec /\ Fairness

(***************************************************************************)
(* Type invariant: what the reader gives are messages, and only bytes are  *)
(* counted as written.                                                     *)
(***************************************************************************)
TypeOK ==
  /\ direction \in {"to_server", "to_client"}
  /\ to_write \in Seq(Seq(Byte))
  /\ num_written \in Nat
  /\ socket \in Seq(Byte) /\ Len(socket) <= SocketSize
  /\ buffer \in Seq(Byte)
  /\ reader \in {"runs", "readable"}
  /\ closed \in BOOLEAN
  /\ sent \in Seq(Messages) /\ received \in Seq(Messages)

(***************************************************************************)
(* The two ends of a socket are a FIFO of messages: however the bytes are  *)
(* cut up on the way, no message is torn, merged, repeated or passed by.   *)
(***************************************************************************)
Queue == INSTANCE Fifo WITH
           Messages <- Messages, sent <- sent, received <- received,
           closed <- closed

ImplementsFifo == Queue!Spec

(***************************************************************************)
(* Every message arrives unless the sender goes away: no reader stops with *)
(* a message in its buffer.                                                *)
(***************************************************************************)
ImplementsFairFifo == Queue!FairSpec
=============================================================================
