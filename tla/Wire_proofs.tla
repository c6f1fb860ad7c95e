---------------------------- MODULE Wire_proofs -----------------------------
(***************************************************************************)
(* A connection is a FIFO of messages, however the bytes are cut.          *)
(*                                                                         *)
(* The inductive invariant speaks of the stream of all bytes ever handed   *)
(* to the writer, which no variable holds: `ends` says where each message  *)
(* ends in it and `starts` where each chunk of to_write begins.            *)
(***************************************************************************)
EXTENDS Wire, TLAPS

(***************************************************************************)
(* The messages in the stream: message k is what follows ends[k - 1].      *)
(***************************************************************************)
Layout(stream, ends) ==
  /\ stream \in Seq(Byte)
  /\ ends \in [0 .. Len(sent) -> Nat]
  /\ ends[Len(sent)] = Len(stream)
  /\ \A k \in 0 .. Len(sent) : ends[k] <= Len(stream)
  /\ \A k \in 1 .. Len(sent) :
        /\ ends[k] = ends[k - 1] + 4 + Len(sent[k])
        /\ \A i \in 1 .. 4 :
              stream[ends[k - 1] + i] = encode_length(Len(sent[k]))[i]
        /\ \A i \in 1 .. Len(sent[k]) : stream[ends[k - 1] + 4 + i] = sent[k][i]

(***************************************************************************)
(* buf and then sock are the bytes of the stream behind position d.        *)
(***************************************************************************)
Follows(stream, d, buf, sock) ==
  /\ d + Len(buf) + Len(sock) <= Len(stream)
  /\ \A i \in 1 .. Len(buf) : buf[i] = stream[d + i]
  /\ \A i \in 1 .. Len(sock) : sock[i] = stream[d + Len(buf) + i]

(***************************************************************************)
(* What is to be written is the rest of the stream behind position w.      *)
(***************************************************************************)
Pending(stream, starts, w) ==
  /\ starts \in [1 .. Len(to_write) + 1 -> Nat]
  /\ starts[Len(to_write) + 1] = Len(stream)
  /\ starts[1] + num_written = w
  /\ to_write = <<>> => num_written = 0
  /\ to_write # <<>> => num_written < Len(to_write[1])
  /\ \A i \in 1 .. Len(to_write) :
        /\ Len(to_write[i]) > 0
        /\ starts[i + 1] = starts[i] + Len(to_write[i])
        /\ starts[i + 1] <= Len(stream)
        /\ \A x \in 1 .. Len(to_write[i]) :
              to_write[i][x] = stream[starts[i] + x]

Position(ends) == ends[Len(received)] + Len(buffer) + Len(socket)

Consistent(stream, ends, starts) ==
  /\ Len(received) <= Len(sent)
  /\ Layout(stream, ends)
  /\ Follows(stream, ends[Len(received)], buffer, socket)
  /\ Pending(stream, starts, Position(ends))

IInv == TypeOK /\ \E stream, ends, starts : Consistent(stream, ends, starts)

-----------------------------------------------------------------------------

(***************************************************************************)
(* Four bytes hold a length below Base^4: what encode writes, parse_length *)
(* reads.                                                                  *)
(***************************************************************************)
LEMMA DivMod ==
  ASSUME NEW n \in Nat
  PROVE  /\ n % Base \in Byte /\ n \div Base \in Nat
         /\ n = (n % Base) + Base * (n \div Base)
  BY BaseAssumption DEF Byte

LEMMA DivBelow ==
  ASSUME NEW n \in Nat, NEW b \in Nat, n < Base * b
  PROVE  n \div Base < b
<1>1. Base * (n \div Base) < Base * b
  BY DivMod, BaseAssumption
<1>2. n \div Base \in Nat
  BY DivMod
<1>3. ASSUME n \div Base >= b PROVE FALSE
  <2>1. PICK c \in Nat : n \div Base = b + c
    BY <1>2, <1>3
  <2>2. Base * (b + c) = Base * b + Base * c
    BY BaseAssumption
  <2>3. Base * c \in Nat
    BY BaseAssumption
  <2> QED  BY <1>1, <2>1, <2>2, <2>3, BaseAssumption
<1> QED  BY <1>2, <1>3

LEMMA DivBelowBase ==
  ASSUME NEW n \in Nat, n < Base
  PROVE  n % Base = n
  BY BaseAssumption

LEMMA LengthRoundTrip ==
  ASSUME NEW len \in Nat, len < Base * (Base * (Base * Base))
  PROVE  /\ encode_length(len) \in Seq(Byte) /\ Len(encode_length(len)) = 4
         /\ parse_length(encode_length(len)) = len
<1> DEFINE len1 == len \div Base
           len2 == len1 \div Base
           len3 == len2 \div Base
<1>1. len1 \in Nat /\ len = (len % Base) + Base * len1 /\ len % Base \in Byte
  BY DivMod
<1>2. len2 \in Nat /\ len1 = (len1 % Base) + Base * len2 /\ len1 % Base \in Byte
  BY <1>1, DivMod
<1>3. len3 \in Nat /\ len2 = (len2 % Base) + Base * len3 /\ len2 % Base \in Byte
  BY <1>2, DivMod
<1>4. Base \in Nat /\ Base * Base \in Nat /\ Base * (Base * Base) \in Nat
  BY BaseAssumption
<1>5. len1 < Base * (Base * Base)
  BY <1>4, DivBelow
<1>6. len2 < Base * Base
  BY <1>1, <1>4, <1>5, DivBelow
<1>7. len3 < Base
  BY <1>2, <1>4, <1>6, DivBelow
<1>8. len3 % Base = len3 /\ len3 % Base \in Byte
  BY <1>3, <1>7, DivBelowBase, DivMod
<1>9. encode_length(len) = <<len % Base, len1 % Base, len2 % Base, len3 % Base>>
  BY DEF encode_length
<1> HIDE DEF len1, len2, len3
<1>10. encode_length(len) \in Seq(Byte) /\ Len(encode_length(len)) = 4
  BY <1>1, <1>2, <1>3, <1>8, <1>9
<1>11. parse_length(encode_length(len)) =
         (len % Base) + Base * ((len1 % Base) + Base * ((len2 % Base) + Base * (len3 % Base)))
  BY <1>9 DEF parse_length
<1>12. (len2 % Base) + Base * (len3 % Base) = len2
  BY <1>3, <1>8
<1>13. (len1 % Base) + Base * ((len2 % Base) + Base * (len3 % Base)) = len1
  BY <1>2, <1>12
<1> QED  BY <1>1, <1>10, <1>11, <1>13

-----------------------------------------------------------------------------

LEMMA MessageFacts ==
  ASSUME NEW m \in Messages
  PROVE  /\ m \in Seq(Byte) /\ Len(m) \in Nat /\ Len(m) > 0
         /\ encode_length(Len(m)) \in Seq(Byte) /\ Len(encode_length(Len(m))) = 4
         /\ parse_length(encode_length(Len(m))) = Len(m)
<1>1. m \in Seq(Byte) /\ Len(m) \in Nat /\ Len(m) > 0
  BY MessagesAssumption
<1>2. Len(m) < Base * (Base * (Base * Base))
  BY MessagesAssumption
<1> QED  BY <1>1, <1>2, LengthRoundTrip

(***************************************************************************)
(* What a reader takes for the next message is the next message, and the   *)
(* rest of its buffer is what follows.                                     *)
(***************************************************************************)
LEMMA NextMessage ==
  ASSUME TypeOK, NEW stream, NEW ends, Layout(stream, ends),
         Len(received) <= Len(sent),
         NEW buf \in Seq(Byte), NEW sock \in Seq(Byte),
         Follows(stream, ends[Len(received)], buf, sock),
         Complete(buf), Deliver(buf)
  PROVE  /\ Len(received) < Len(sent)
         /\ received' = Append(received, sent[Len(received) + 1])
         /\ received' \in Seq(Messages)
         /\ buffer' \in Seq(Byte)
         /\ Follows(stream, ends[Len(received) + 1], buffer', sock)
         /\ ends[Len(received) + 1] + Len(buffer') = ends[Len(received)] + Len(buf)
<1> DEFINE r == Len(received)
           m == sent[r + 1]
<1>1. /\ r \in Nat /\ Len(sent) \in Nat /\ Len(buf) \in Nat /\ Len(buf) >= 4
      /\ ends[r] \in Nat /\ Len(stream) \in Nat /\ Len(sock) \in Nat
  BY DEF TypeOK, Complete, Layout
<1>2. r < Len(sent)
  BY <1>1 DEF Layout, Follows
<1>3. m \in Messages
  BY <1>1, <1>2 DEF TypeOK
<1>4. /\ ends[r + 1] = ends[r] + 4 + Len(m)
      /\ \A i \in 1 .. 4 : stream[ends[r] + i] = encode_length(Len(m))[i]
      /\ \A i \in 1 .. Len(m) : stream[ends[r] + 4 + i] = m[i]
  <2>1. r + 1 \in 1 .. Len(sent) /\ (r + 1) - 1 = r
    BY <1>1, <1>2
  <2>2. \A k \in 1 .. Len(sent) :
           /\ ends[k] = ends[k - 1] + 4 + Len(sent[k])
           /\ \A i \in 1 .. 4 : stream[ends[k - 1] + i] = encode_length(Len(sent[k]))[i]
           /\ \A i \in 1 .. Len(sent[k]) : stream[ends[k - 1] + 4 + i] = sent[k][i]
    BY DEF Layout
  <2> QED  BY <2>1, <2>2
<1>5. \A i \in 1 .. Len(buf) : buf[i] = stream[ends[r] + i]
  BY DEF Follows
<1>a. Len(m) \in Nat /\ m \in Seq(Byte)
  BY <1>3, MessageFacts
<1>c. ends[r + 1] = ends[r] + 4 + Len(m)
  BY <1>4
<1>d. \A i \in 1 .. 4 : stream[ends[r] + i] = encode_length(Len(m))[i]
  BY <1>4
<1>e. \A i \in 1 .. Len(m) : stream[ends[r] + 4 + i] = m[i]
  BY <1>4
<1>b. ends[r + 1] \in Nat
  BY <1>1, <1>2 DEF Layout
<1> HIDE DEF r, m
<1>6. \A i \in 1 .. 4 : buf[i] = encode_length(Len(m))[i]
  <2>1. \A i \in 1 .. 4 : i \in 1 .. Len(buf)
    BY <1>1
  <2> QED  BY <2>1, <1>d, <1>5, Zenon
<1>7. parse_length(buf) = Len(m)
  BY <1>3, <1>6, MessageFacts DEF parse_length
<1>8. 4 + Len(m) <= Len(buf)
  BY <1>7 DEF Complete
<1>9. SubSeq(buf, 5, 4 + Len(m)) = m
  <2>1. SubSeq(buf, 5, 4 + Len(m)) \in Seq(Byte) /\ Len(SubSeq(buf, 5, 4 + Len(m))) = Len(m)
    BY <1>1, <1>8, <1>a
  <2>2. \A i \in 1 .. Len(m) : SubSeq(buf, 5, 4 + Len(m))[i] = m[i]
    <3> SUFFICES ASSUME NEW i \in 1 .. Len(m) PROVE SubSeq(buf, 5, 4 + Len(m))[i] = m[i]
      OBVIOUS
    <3>1. SubSeq(buf, 5, 4 + Len(m))[i] = buf[4 + i]
      BY <1>1, <1>8, <1>a
    <3>a. 4 + i \in 1 .. Len(buf)
      BY <1>1, <1>8, <1>a
    <3>2. buf[4 + i] = stream[ends[r] + (4 + i)]
      BY <1>5, <3>a, Zenon
    <3>3. ends[r] + (4 + i) = ends[r] + 4 + i
      BY <1>1
    <3> QED  BY <1>e, <3>1, <3>2, <3>3
  <2> QED  BY <1>8, <1>a, <2>1, <2>2
<1>10. received' = Append(received, m)
  BY <1>7, <1>9 DEF Deliver
<1>11. received' \in Seq(Messages)
  BY <1>3, <1>10 DEF TypeOK, m, r
<1>12. buffer' = SubSeq(buf, 5 + Len(m), Len(buf))
  BY <1>7 DEF Deliver
<1>13. buffer' \in Seq(Byte) /\ Len(buffer') = Len(buf) - (4 + Len(m))
  BY <1>1, <1>8, <1>a, <1>12
<1>14. \A i \in 1 .. Len(buffer') : buffer'[i] = stream[ends[r + 1] + i]
  <2> SUFFICES ASSUME NEW i \in 1 .. Len(buffer') PROVE buffer'[i] = stream[ends[r + 1] + i]
    OBVIOUS
  <2>1. buffer'[i] = buf[4 + Len(m) + i]
    BY <1>1, <1>8, <1>a, <1>12, <1>13
  <2>2. buf[4 + Len(m) + i] = stream[ends[r] + (4 + Len(m) + i)]
    <3>1. 4 + Len(m) + i \in 1 .. Len(buf)
      BY <1>1, <1>8, <1>a, <1>13
    <3> QED  BY <1>5, <3>1, Zenon
  <2>3. ends[r] + (4 + Len(m) + i) = ends[r + 1] + i
    BY <1>1, <1>c, <1>a
  <2> QED  BY <2>1, <2>2, <2>3
<1>15. ends[r + 1] + Len(buffer') = ends[r] + Len(buf)
  BY <1>1, <1>a, <1>c, <1>13
<1>16. Follows(stream, ends[r + 1], buffer', sock)
  BY <1>1, <1>b, <1>13, <1>14, <1>15 DEF Follows, r
<1> QED  BY <1>2, <1>10, <1>11, <1>13, <1>15, <1>16 DEF r, m

(***************************************************************************)
(* Reading n bytes moves the border between socket and buffer.             *)
(***************************************************************************)
LEMMA ReadBytes ==
  ASSUME TypeOK, NEW stream, NEW d \in Nat, Len(stream) \in Nat,
         Follows(stream, d, buffer, socket),
         NEW n \in 0 .. Len(socket)
  PROVE  LET buf == buffer \o SubSeq(socket, 1, n)
             sock == SubSeq(socket, n + 1, Len(socket))
         IN  /\ buf \in Seq(Byte) /\ sock \in Seq(Byte)
             /\ Len(sock) <= SocketSize
             /\ Len(buf) + Len(sock) = Len(buffer) + Len(socket)
             /\ Follows(stream, d, buf, sock)
<1> DEFINE head == SubSeq(socket, 1, n)
           buf == buffer \o head
           sock == SubSeq(socket, n + 1, Len(socket))
<1>1. /\ socket \in Seq(Byte) /\ buffer \in Seq(Byte)
      /\ Len(socket) \in Nat /\ Len(buffer) \in Nat /\ n \in Nat /\ n <= Len(socket)
      /\ SocketSize \in Nat /\ Len(socket) <= SocketSize
  BY WireBoundsAssumption DEF TypeOK
<1>2. head \in Seq(Byte) /\ Len(head) = n /\ \A i \in 1 .. n : head[i] = socket[i]
  BY <1>1
<1>3. /\ sock \in Seq(Byte) /\ Len(sock) = Len(socket) - n
      /\ \A i \in 1 .. Len(socket) - n : sock[i] = socket[n + i]
  BY <1>1
<1> HIDE DEF head
<1>4. /\ buf \in Seq(Byte) /\ Len(buf) = Len(buffer) + n
      /\ \A i \in 1 .. Len(buffer) : buf[i] = buffer[i]
      /\ \A i \in 1 .. n : buf[Len(buffer) + i] = head[i]
  BY <1>1, <1>2
<1> HIDE DEF buf, sock
<1>5. /\ \A i \in 1 .. Len(buffer) : buffer[i] = stream[d + i]
      /\ \A i \in 1 .. Len(socket) : socket[i] = stream[d + Len(buffer) + i]
      /\ d + Len(buffer) + Len(socket) <= Len(stream)
  BY DEF Follows
<1>6. \A i \in 1 .. Len(buf) : buf[i] = stream[d + i]
  <2> SUFFICES ASSUME NEW i \in 1 .. Len(buf) PROVE buf[i] = stream[d + i]
    OBVIOUS
  <2>1. CASE i <= Len(buffer)
    <3>1. i \in 1 .. Len(buffer)
      BY <1>1, <1>4, <2>1
    <3> QED  BY <1>4, <1>5, <3>1, Zenon
  <2>2. CASE i > Len(buffer)
    <3>1. PICK j \in 1 .. n : i = Len(buffer) + j
      <4>1. i - Len(buffer) \in 1 .. n /\ i = Len(buffer) + (i - Len(buffer))
        BY <1>1, <1>4, <2>2
      <4> QED  BY <4>1, Zenon
    <3>2. buf[i] = socket[j]
      BY <1>2, <1>4, <3>1, Zenon
    <3>3. j \in 1 .. Len(socket)
      BY <1>1, <3>1
    <3>4. socket[j] = stream[d + Len(buffer) + j]
      BY <1>5, <3>3, Zenon
    <3>5. d + Len(buffer) + j = d + i
      BY <1>1, <3>1
    <3> QED  BY <3>2, <3>4, <3>5
  <2> QED  BY <1>1, <1>4, <2>1, <2>2
<1>7. \A i \in 1 .. Len(sock) : sock[i] = stream[d + Len(buf) + i]
  <2> SUFFICES ASSUME NEW i \in 1 .. Len(sock) PROVE sock[i] = stream[d + Len(buf) + i]
    OBVIOUS
  <2>1. i \in 1 .. Len(socket) - n /\ n + i \in 1 .. Len(socket)
    BY <1>1, <1>3
  <2>2. sock[i] = socket[n + i]
    BY <1>3, <2>1, Zenon
  <2>3. socket[n + i] = stream[d + Len(buffer) + (n + i)]
    BY <1>5, <2>1, Zenon
  <2>4. d + Len(buffer) + (n + i) = d + Len(buf) + i
    BY <1>1, <1>4, <2>1
  <2> QED  BY <2>2, <2>3, <2>4
<1>8. Len(buf) + Len(sock) = Len(buffer) + Len(socket) /\ Len(sock) <= SocketSize
  BY <1>1, <1>3, <1>4
<1>9. d + Len(buf) + Len(sock) <= Len(stream)
  BY <1>1, <1>3, <1>4, <1>5
<1>10. Follows(stream, d, buf, sock)
  BY <1>6, <1>7, <1>9 DEF Follows
<1> QED  BY <1>3, <1>4, <1>8, <1>10 DEF buf, sock, head

(***************************************************************************)
(* A step of a reader that has taken n bytes from the socket, with the     *)
(* message it delivers, if any.                                            *)
(***************************************************************************)
Delivers(buf) ==
  IF Complete(buf) THEN Deliver(buf) ELSE buffer' = buf /\ UNCHANGED received

Reads(n) ==
  /\ socket' = SubSeq(socket, n + 1, Len(socket))
  /\ Delivers(buffer \o SubSeq(socket, 1, n))

LEMMA ReadStep ==
  ASSUME IInv, NEW n \in 0 .. Len(socket),
         Reads(n),
         UNCHANGED <<direction, to_write, num_written, closed, sent>>,
         reader' \in {"runs", "readable"}
  PROVE  IInv' /\ (Queue!Receive \/ UNCHANGED Queue!vars)
<1> DEFINE buf == buffer \o SubSeq(socket, 1, n)
<1>1. TypeOK
  BY DEF IInv
<1>2. PICK stream, ends, starts : Consistent(stream, ends, starts)
  BY DEF IInv
<1> DEFINE r == Len(received)
           d == ends[r]
<1>3. /\ r <= Len(sent) /\ Layout(stream, ends)
      /\ Follows(stream, d, buffer, socket)
      /\ Pending(stream, starts, d + Len(buffer) + Len(socket))
  BY <1>2 DEF Consistent, Position
<1>w. PICK w : w = d + Len(buffer) + Len(socket)
  OBVIOUS
<1>p. Pending(stream, starts, w)'
  BY <1>3, <1>w DEF Pending
<1>4. r \in Nat /\ Len(sent) \in Nat /\ d \in Nat /\ Len(stream) \in Nat
  BY <1>1, <1>3 DEF TypeOK, Layout
<1>5. /\ buf \in Seq(Byte) /\ socket' \in Seq(Byte) /\ Len(socket') <= SocketSize
      /\ Len(buf) + Len(socket') = Len(buffer) + Len(socket)
      /\ Follows(stream, d, buf, socket')
  BY <1>1, <1>3, <1>4, ReadBytes DEF Reads
<1>6. Len(buf) \in Nat /\ Len(socket') \in Nat /\ Len(buffer) \in Nat /\ Len(socket) \in Nat
  BY <1>1, <1>5 DEF TypeOK
<1>l. Len(buf) + Len(socket') = Len(buffer) + Len(socket)
  BY <1>5
<1>7. Delivers(buf)
  BY DEF Reads
<1>8. Layout(stream, ends)'
  BY <1>3 DEF Layout
<1> HIDE DEF buf, d, r
<1>9. CASE Complete(buf)
  <2>1. Deliver(buf)
    BY <1>7, <1>9 DEF Delivers
  <2>2. /\ r < Len(sent)
        /\ received' = Append(received, sent[r + 1])
        /\ received' \in Seq(Messages) /\ buffer' \in Seq(Byte)
        /\ Follows(stream, ends[r + 1], buffer', socket')
        /\ ends[r + 1] + Len(buffer') = d + Len(buf)
    BY <1>1, <1>3, <1>5, <1>9, <2>1, NextMessage DEF d, r
  <2>3. Len(received') = r + 1 /\ received \in Seq(Messages)
    BY <1>1, <2>2 DEF TypeOK, r
  <2>4. TypeOK'
    BY <1>1, <1>5, <2>2 DEF TypeOK
  <2>a. r < Len(sent) /\ buffer' \in Seq(Byte)
    BY <2>2
  <2>b. ends \in [0 .. Len(sent) -> Nat]
    BY <1>3 DEF Layout
  <2>5. ends[r + 1] \in Nat /\ Len(buffer') \in Nat
    <3>1. r + 1 \in 0 .. Len(sent)
      BY <1>4, <2>a
    <3>2. ends[r + 1] \in Nat
      BY <3>1, <2>b, Zenon
    <3> QED  BY <2>a, <3>2
  <2>6. ends[r + 1] + Len(buffer') = d + Len(buf)
    BY <2>2
  <2>7. ends[r + 1] + Len(buffer') + Len(socket') = w
    <3> DEFINE e == ends[r + 1]
               b == Len(buffer')
    <3>1. e \in Nat /\ b \in Nat /\ e + b = d + Len(buf)
      BY <2>5, <2>6
    <3> HIDE DEF e, b
    <3>2. e + b + Len(socket') = w
      BY <1>4, <1>l, <1>w, <1>6, <3>1
    <3> QED  BY <3>2 DEF e, b
  <2>8. Consistent(stream, ends, starts)'
    <3>1. (Len(received) <= Len(sent))'
      BY <1>4, <2>2, <2>3
    <3>2. Follows(stream, ends[Len(received)], buffer, socket)'
      BY <2>2, <2>3 DEF Follows
    <3>3. Pending(stream, starts, Position(ends))'
      BY <1>p, <2>3, <2>7 DEF Position
    <3> QED  BY <1>8, <3>1, <3>2, <3>3 DEF Consistent
  <2>9. Queue!Receive
    BY <2>2 DEF Queue!Receive, r
  <2> QED  BY <2>4, <2>8, <2>9 DEF IInv
<1>10. CASE ~ Complete(buf)
  <2>1. buffer' = buf /\ received' = received
    BY <1>7, <1>10 DEF Delivers
  <2>2. TypeOK'
    BY <1>1, <1>5, <2>1 DEF TypeOK
  <2>3. d + Len(buffer') + Len(socket') = w
    BY <1>4, <1>l, <1>w, <1>6, <2>1
  <2>4. Consistent(stream, ends, starts)'
    <3>1. (Len(received) <= Len(sent))'
      BY <1>3, <2>1 DEF r
    <3>2. Follows(stream, ends[Len(received)], buffer, socket)'
      BY <1>5, <2>1 DEF Follows, d, r
    <3>3. Pending(stream, starts, Position(ends))'
      BY <1>p, <2>1, <2>3 DEF Position, d, r
    <3> QED  BY <1>8, <3>1, <3>2, <3>3 DEF Consistent
  <2>5. UNCHANGED Queue!vars
    BY <2>1 DEF Queue!vars
  <2> QED  BY <2>2, <2>4, <2>5 DEF IInv
<1> QED  BY <1>9, <1>10

-----------------------------------------------------------------------------

(***************************************************************************)
(* The writer's side.  A message that is sent goes to the end of the       *)
(* stream, as two chunks.                                                  *)
(***************************************************************************)
LEMMA Extend ==
  ASSUME NEW s \in Seq(Byte), NEW a \in Seq(Byte), NEW b \in Seq(Byte)
  PROVE  LET t == s \o a \o b
         IN  /\ t \in Seq(Byte) /\ Len(t) = Len(s) + Len(a) + Len(b)
             /\ \A i \in 1 .. Len(s) : t[i] = s[i]
             /\ \A i \in 1 .. Len(a) : t[Len(s) + i] = a[i]
             /\ \A i \in 1 .. Len(b) : t[Len(s) + Len(a) + i] = b[i]
  OBVIOUS

LEMMA EmptySeq ==
  ASSUME NEW S, NEW s \in Seq(S), Len(s) = 0
  PROVE  s = <<>>
  OBVIOUS

LEMMA SendStep ==
  ASSUME IInv, SendMessage
  PROVE  IInv' /\ Queue!Send
<1>1. TypeOK
  BY DEF IInv
<1>2. PICK stream, ends, starts : Consistent(stream, ends, starts)
  BY DEF IInv
<1>3. PICK m \in Messages : /\ to_write' = to_write \o <<encode_length(Len(m)), m>>
                            /\ sent' = Append(sent, m)
  BY DEF SendMessage
<1>4. PICK len : len = encode_length(Len(m))
  OBVIOUS
<1>5. /\ m \in Seq(Byte) /\ Len(m) \in Nat /\ Len(m) > 0
      /\ len \in Seq(Byte) /\ Len(len) = 4
  BY <1>4, MessageFacts
<1>6. UNCHANGED <<direction, num_written, socket, buffer, reader, closed, received>>
  BY DEF SendMessage
<1>7. to_write \in Seq(Seq(Byte)) /\ sent \in Seq(Messages)
  BY <1>1 DEF TypeOK
<1>8. PICK s, c : s = Len(sent) /\ c = Len(to_write)
  OBVIOUS
<1>9. /\ sent' \in Seq(Messages) /\ Len(sent') = s + 1 /\ s \in Nat
      /\ sent'[s + 1] = m /\ \A k \in 1 .. s : sent'[k] = sent[k]
  BY <1>3, <1>7, <1>8
<1>10. to_write' = to_write \o <<len, m>>
  BY <1>3, <1>4
<1>11. /\ to_write' \in Seq(Seq(Byte)) /\ Len(to_write') = c + 2 /\ c \in Nat
       /\ to_write'[c + 1] = len /\ to_write'[c + 2] = m
       /\ \A k \in 1 .. c : to_write'[k] = to_write[k]
  BY <1>5, <1>7, <1>8, <1>10
<1>12. TypeOK'
  BY <1>1, <1>6, <1>9, <1>11 DEF TypeOK
<1>13. Queue!Send
  BY <1>3, <1>6 DEF Queue!Send, SendMessage
<1>14. /\ Len(received) <= s /\ Layout(stream, ends)
       /\ Follows(stream, ends[Len(received)], buffer, socket)
       /\ Pending(stream, starts, Position(ends))
  BY <1>2, <1>8 DEF Consistent
<1>15. /\ stream \in Seq(Byte) /\ Len(stream) \in Nat
       /\ ends \in [0 .. s -> Nat] /\ ends[s] = Len(stream)
       /\ \A k \in 0 .. s : ends[k] <= Len(stream)
  BY <1>8, <1>14 DEF Layout
<1> DEFINE stream2 == stream \o len \o m
           l == Len(stream)
           ends2 == [k \in 0 .. s + 1 |-> IF k <= s THEN ends[k] ELSE l + 4 + Len(m)]
           starts2 == [i \in 1 .. c + 3 |->
                         IF i <= c + 1 THEN starts[i]
                         ELSE IF i = c + 2 THEN l + 4 ELSE l + 4 + Len(m)]
<1>16. /\ stream2 \in Seq(Byte) /\ Len(stream2) = l + 4 + Len(m)
       /\ \A i \in 1 .. l : stream2[i] = stream[i]
       /\ \A i \in 1 .. 4 : stream2[l + i] = len[i]
       /\ \A i \in 1 .. Len(m) : stream2[l + 4 + i] = m[i]
  <2>5. stream \in Seq(Byte) /\ len \in Seq(Byte) /\ m \in Seq(Byte)
    BY <1>5, <1>15
  <2>6. /\ stream2 \in Seq(Byte) /\ Len(stream2) = l + Len(len) + Len(m)
        /\ \A i \in 1 .. l : stream2[i] = stream[i]
        /\ \A i \in 1 .. Len(len) : stream2[l + i] = len[i]
        /\ \A i \in 1 .. Len(m) : stream2[l + Len(len) + i] = m[i]
    BY <2>5, Extend, Zenon
  <2>1. stream2 \in Seq(Byte) /\ Len(stream2) = l + Len(len) + Len(m)
    BY <2>6
  <2>2. \A i \in 1 .. l : stream2[i] = stream[i]
    BY <2>6
  <2>3. \A i \in 1 .. Len(len) : stream2[l + i] = len[i]
    BY <2>6
  <2>4. \A i \in 1 .. Len(m) : stream2[l + Len(len) + i] = m[i]
    BY <2>6
  <2> HIDE DEF stream2, l
  <2> QED  BY <1>5, <2>1, <2>2, <2>3, <2>4
<1>17. l \in Nat
  BY <1>15
<1> HIDE DEF stream2, l
<1>18. /\ ends2 \in [0 .. s + 1 -> Nat] /\ ends2[s + 1] = l + 4 + Len(m)
       /\ \A k \in 0 .. s : ends2[k] = ends[k]
  BY <1>5, <1>9, <1>15, <1>17
<1> HIDE DEF ends2
<1>19. Layout(stream2, ends2)'
  <2>1. ends2[Len(sent')] = Len(stream2)
    BY <1>9, <1>16, <1>18
  <2>2. \A k \in 0 .. Len(sent') : ends2[k] <= Len(stream2)
    <3> SUFFICES ASSUME NEW k \in 0 .. s + 1 PROVE ends2[k] <= Len(stream2)
      BY <1>9
    <3>1. CASE k = s + 1
      BY <1>5, <1>16, <1>17, <1>18, <3>1
    <3>2. CASE k \in 0 .. s
      <4>1. ends2[k] = ends[k] /\ ends[k] <= l /\ ends[k] \in Nat
        BY <1>15, <1>18, <3>2 DEF l
      <4> QED  BY <1>5, <1>16, <1>17, <4>1
    <3> QED  BY <1>9, <3>1, <3>2
  <2>3. ASSUME NEW k \in 1 .. s
        PROVE  /\ ends2[k] = ends2[k - 1] + 4 + Len(sent'[k])
               /\ \A i \in 1 .. 4 :
                     stream2[ends2[k - 1] + i] = encode_length(Len(sent'[k]))[i]
               /\ \A i \in 1 .. Len(sent'[k]) : stream2[ends2[k - 1] + 4 + i] = sent'[k][i]
    <3>1. /\ ends[k] = ends[k - 1] + 4 + Len(sent[k])
          /\ \A i \in 1 .. 4 :
                stream[ends[k - 1] + i] = encode_length(Len(sent[k]))[i]
          /\ \A i \in 1 .. Len(sent[k]) : stream[ends[k - 1] + 4 + i] = sent[k][i]
      BY <1>8, <1>14 DEF Layout
    <3>2. k \in 0 .. s /\ k - 1 \in 0 .. s
      BY <1>9
    <3>3. ends2[k] = ends[k] /\ ends2[k - 1] = ends[k - 1] /\ sent'[k] = sent[k]
      BY <1>9, <1>18, <3>2
    <3>4. sent[k] \in Messages
      BY <1>7, <1>8
    <3>5. PICK x : x = sent[k]
      OBVIOUS
    <3>6. Len(x) \in Nat
      BY <3>4, <3>5, MessageFacts
    <3>7. PICK e : e = ends[k - 1]
      OBVIOUS
    <3>8. e \in Nat /\ ends[k] <= l
      BY <1>15, <3>2, <3>7 DEF l
    <3>9. e + 4 + Len(x) <= l
      BY <3>1, <3>5, <3>7, <3>8
    <3>10. \A i \in 1 .. 4 : stream2[e + i] = stream[e + i]
      <4>1. \A i \in 1 .. 4 : e + i \in 1 .. l
        BY <1>17, <3>6, <3>8, <3>9
      <4> QED  BY <1>16, <4>1, Zenon
    <3>11. \A i \in 1 .. Len(x) : stream2[e + 4 + i] = stream[e + 4 + i]
      <4>1. \A i \in 1 .. Len(x) : e + 4 + i \in 1 .. l
        BY <1>17, <3>6, <3>8, <3>9
      <4> QED  BY <1>16, <4>1, Zenon
    <3>12. /\ ends2[k] = ends2[k - 1] + 4 + Len(sent'[k])
           /\ e = ends2[k - 1] /\ x = sent'[k]
      BY <3>1, <3>3, <3>5, <3>7, Zenon
    <3>13. \A i \in 1 .. 4 : stream2[e + i] = encode_length(Len(x))[i]
      BY <3>1, <3>5, <3>7, <3>10, Zenon
    <3>14. \A i \in 1 .. Len(x) : stream2[e + 4 + i] = x[i]
      BY <3>1, <3>5, <3>7, <3>11, Zenon
    <3> QED  BY <3>12, <3>13, <3>14, Zenon
  <2>4. /\ ends2[s + 1] = ends2[(s + 1) - 1] + 4 + Len(sent'[s + 1])
        /\ \A i \in 1 .. 4 :
              stream2[ends2[(s + 1) - 1] + i] = encode_length(Len(sent'[s + 1]))[i]
        /\ \A i \in 1 .. Len(sent'[s + 1]) :
              stream2[ends2[(s + 1) - 1] + 4 + i] = sent'[s + 1][i]
    <3>1. ends2[(s + 1) - 1] = l
      BY <1>9, <1>15, <1>18 DEF l
    <3> QED  BY <1>4, <1>9, <1>16, <1>18, <3>1
  <2>5. \A k \in 1 .. s + 1 : k \in 1 .. s \/ k = s + 1
    BY <1>9
  <2> QED  BY <1>9, <1>16, <1>18, <2>1, <2>2, <2>3, <2>4, <2>5 DEF Layout
<1>20. PICK w : w = Position(ends)
  OBVIOUS
<1>21. Len(received) \in 0 .. s /\ Len(received') \in 0 .. s
  BY <1>1, <1>6, <1>9, <1>14 DEF TypeOK
<1>22. Position(ends2)' = w
  BY <1>6, <1>18, <1>20, <1>21 DEF Position
<1>23. Follows(stream2, ends2[Len(received)], buffer, socket)'
  <2>1. PICK e : e = ends[Len(received)]
    OBVIOUS
  <2>2. e \in Nat /\ e = ends2[Len(received')]
    BY <1>6, <1>15, <1>18, <1>21, <2>1
  <2>3. Len(buffer) \in Nat /\ Len(socket) \in Nat
    BY <1>1 DEF TypeOK
  <2>4. /\ e + Len(buffer) + Len(socket) <= l
        /\ \A i \in 1 .. Len(buffer) : buffer[i] = stream[e + i]
        /\ \A i \in 1 .. Len(socket) : socket[i] = stream[e + Len(buffer) + i]
    BY <1>14, <2>1 DEF Follows, l
  <2>5. \A i \in 1 .. Len(buffer) : e + i \in 1 .. l
    BY <1>17, <2>2, <2>3, <2>4
  <2>6. \A i \in 1 .. Len(socket) : e + Len(buffer) + i \in 1 .. l
    BY <1>17, <2>2, <2>3, <2>4
  <2>7. \A i \in 1 .. Len(buffer) : buffer[i] = stream2[e + i]
    BY <1>16, <2>4, <2>5, Zenon
  <2>8. \A i \in 1 .. Len(socket) : socket[i] = stream2[e + Len(buffer) + i]
    BY <1>16, <2>4, <2>6, Zenon
  <2>9. e + Len(buffer) + Len(socket) <= Len(stream2)
    BY <1>5, <1>16, <1>17, <2>2, <2>3, <2>4
  <2>10. Follows(stream2, e, buffer', socket')
    BY <1>6, <2>7, <2>8, <2>9 DEF Follows
  <2> QED  BY <2>2, <2>10
<1>24. /\ starts \in [1 .. c + 1 -> Nat] /\ starts[c + 1] = l
       /\ starts[1] + num_written = w
       /\ to_write = <<>> => num_written = 0
       /\ to_write # <<>> => num_written < Len(to_write[1])
       /\ \A i \in 1 .. c : /\ Len(to_write[i]) > 0
                            /\ starts[i + 1] = starts[i] + Len(to_write[i])
                            /\ starts[i + 1] <= l
                            /\ \A x \in 1 .. Len(to_write[i]) :
                                  to_write[i][x] = stream[starts[i] + x]
  BY <1>8, <1>14, <1>20 DEF Pending, l
<1>25. /\ starts2 \in [1 .. c + 3 -> Nat]
       /\ starts2[c + 2] = l + 4 /\ starts2[c + 3] = l + 4 + Len(m)
       /\ \A i \in 1 .. c + 1 : starts2[i] = starts[i]
  BY <1>5, <1>11, <1>17, <1>24
<1> HIDE DEF starts2
<1>26. Pending(stream2, starts2, w)'
  <2>1. starts2[Len(to_write') + 1] = Len(stream2)
    BY <1>11, <1>16, <1>25
  <2>2. starts2[1] + num_written' = w
    BY <1>6, <1>11, <1>24, <1>25
  <2>3. to_write' # <<>> /\ num_written' < Len(to_write'[1])
    <3>1. CASE c = 0
      <4>3. to_write = <<>>
        BY <1>7, <1>8, <3>1, EmptySeq
      <4>1. num_written = 0
        BY <1>24, <4>3, Zenon
      <4>2. to_write'[1] = len /\ Len(to_write') = 2
        BY <1>11, <3>1
      <4>4. num_written' = 0 /\ Len(len) = 4
        BY <1>5, <1>6, <4>1
      <4> QED  BY <4>2, <4>4
    <3>2. CASE c # 0
      <4>1. to_write # <<>>
        BY <1>8, <3>2
      <4>2. num_written < Len(to_write[1])
        BY <1>24, <4>1, Zenon
      <4>3. to_write'[1] = to_write[1] /\ Len(to_write') # 0
        BY <1>11, <3>2
      <4> QED  BY <1>6, <4>2, <4>3
    <3> QED  BY <3>1, <3>2
  <2>4. ASSUME NEW i \in 1 .. c
        PROVE  /\ Len(to_write'[i]) > 0
               /\ starts2[i + 1] = starts2[i] + Len(to_write'[i])
               /\ starts2[i + 1] <= Len(stream2)
               /\ \A x \in 1 .. Len(to_write'[i]) :
                     to_write'[i][x] = stream2[starts2[i] + x]
    <3>1. i \in 1 .. c + 1 /\ i + 1 \in 1 .. c + 1
      BY <1>11
    <3>2. starts2[i] = starts[i] /\ starts2[i + 1] = starts[i + 1] /\ to_write'[i] = to_write[i]
      BY <1>11, <1>25, <3>1
    <3>3. PICK e, x : e = starts[i] /\ x = to_write[i]
      OBVIOUS
    <3>4. e \in Nat /\ Len(x) \in Nat
      BY <1>7, <1>8, <1>24, <3>1, <3>3
    <3>5. /\ Len(x) > 0 /\ starts[i + 1] = e + Len(x) /\ e + Len(x) <= l
          /\ \A y \in 1 .. Len(x) : x[y] = stream[e + y]
      BY <1>24, <3>3
    <3>6. \A y \in 1 .. Len(x) : e + y \in 1 .. l
      BY <1>17, <3>4, <3>5
    <3>7. \A y \in 1 .. Len(x) : x[y] = stream2[e + y]
      BY <1>16, <3>5, <3>6, Zenon
    <3>8. e + Len(x) <= Len(stream2)
      BY <1>5, <1>16, <1>17, <3>4, <3>5
    <3> QED  BY <3>2, <3>3, <3>5, <3>7, <3>8
  <2>5. /\ Len(to_write'[c + 1]) > 0
        /\ starts2[(c + 1) + 1] = starts2[c + 1] + Len(to_write'[c + 1])
        /\ starts2[(c + 1) + 1] <= Len(stream2)
        /\ \A x \in 1 .. Len(to_write'[c + 1]) :
              to_write'[c + 1][x] = stream2[starts2[c + 1] + x]
    <3>1. starts2[c + 1] = l /\ starts2[(c + 1) + 1] = l + 4
      BY <1>11, <1>24, <1>25
    <3>2. to_write'[c + 1] = len
      BY <1>11
    <3>3. \A x \in 1 .. 4 : len[x] = stream2[l + x]
      BY <1>16
    <3>4. l + 4 <= Len(stream2)
      BY <1>5, <1>16, <1>17
    <3>5. \A x \in 1 .. Len(to_write'[c + 1]) :
              to_write'[c + 1][x] = stream2[starts2[c + 1] + x]
      BY <1>5, <3>1, <3>2, <3>3, Zenon
    <3>6. Len(to_write'[c + 1]) = 4
      BY <1>5, <3>2, Zenon
    <3> QED  BY <3>1, <3>4, <3>5, <3>6
  <2>6. /\ Len(to_write'[c + 2]) > 0
        /\ starts2[(c + 2) + 1] = starts2[c + 2] + Len(to_write'[c + 2])
        /\ starts2[(c + 2) + 1] <= Len(stream2)
        /\ \A x \in 1 .. Len(to_write'[c + 2]) :
              to_write'[c + 2][x] = stream2[starts2[c + 2] + x]
    <3>1. starts2[c + 2] = l + 4 /\ starts2[(c + 2) + 1] = l + 4 + Len(m)
      BY <1>11, <1>25
    <3> QED  BY <1>5, <1>11, <1>16, <1>17, <3>1
  <2>7. \A i \in 1 .. c + 2 : i \in 1 .. c \/ i = c + 1 \/ i = c + 2
    BY <1>11
  <2>8. starts2 \in [1 .. Len(to_write') + 1 -> Nat]
    BY <1>11, <1>25
  <2> QED  BY <1>11, <2>1, <2>2, <2>3, <2>4, <2>5, <2>6, <2>7, <2>8 DEF Pending
<1>27. (Len(received) <= Len(sent))'
  BY <1>9, <1>21
<1>28. Consistent(stream2, ends2, starts2)'
  BY <1>19, <1>22, <1>23, <1>26, <1>27 DEF Consistent
<1> QED  BY <1>12, <1>13, <1>28 DEF IInv

LEMMA Concat ==
  ASSUME NEW s \in Seq(Byte), NEW t \in Seq(Byte)
  PROVE  /\ s \o t \in Seq(Byte) /\ Len(s \o t) = Len(s) + Len(t)
         /\ \A i \in 1 .. Len(s) : (s \o t)[i] = s[i]
         /\ \A i \in 1 .. Len(t) : (s \o t)[Len(s) + i] = t[i]
  OBVIOUS

(***************************************************************************)
(* Bytes that are written move from the first chunk to the socket.         *)
(***************************************************************************)
LEMMA WriteStep ==
  ASSUME IInv, try_write
  PROVE  IInv' /\ UNCHANGED Queue!vars
<1>1. TypeOK
  BY DEF IInv
<1>2. PICK stream, ends, starts : Consistent(stream, ends, starts)
  BY DEF IInv
<1>3. UNCHANGED <<direction, buffer, reader, closed, sent, received>> /\ to_write # <<>>
  BY DEF try_write
<1>4. PICK chunk : chunk = to_write[1]
  OBVIOUS
<1>5. PICK n \in 1 .. Len(chunk) - num_written :
         /\ Len(socket) + n <= SocketSize
         /\ socket' = socket \o SubSeq(chunk, num_written + 1, num_written + n)
         /\ Written(n)
  BY <1>4 DEF try_write
<1>6. PICK c : c = Len(to_write)
  OBVIOUS
<1>7. /\ to_write \in Seq(Seq(Byte)) /\ c \in Nat /\ c > 0
      /\ num_written \in Nat /\ socket \in Seq(Byte) /\ Len(socket) \in Nat
      /\ Len(buffer) \in Nat
  <2>1. to_write \in Seq(Seq(Byte)) /\ c \in Nat
    BY <1>1, <1>6 DEF TypeOK
  <2>2. c # 0
    BY <1>3, <1>6, <2>1, EmptySeq
  <2> QED  BY <1>1, <2>1, <2>2 DEF TypeOK
<1>8. chunk \in Seq(Byte) /\ Len(chunk) \in Nat
  BY <1>4, <1>6, <1>7
<1>9. n \in Nat /\ n > 0 /\ num_written + n <= Len(chunk)
  BY <1>5, <1>7, <1>8
<1>10. PICK part : part = SubSeq(chunk, num_written + 1, num_written + n)
  OBVIOUS
<1>11. /\ part \in Seq(Byte) /\ Len(part) = n
       /\ \A i \in 1 .. n : part[i] = chunk[num_written + i]
  BY <1>7, <1>8, <1>9, <1>10
<1>12. socket' = socket \o part
  BY <1>5, <1>10
<1>13. /\ socket' \in Seq(Byte) /\ Len(socket') = Len(socket) + n
       /\ \A i \in 1 .. Len(socket) : socket'[i] = socket[i]
       /\ \A i \in 1 .. n : socket'[Len(socket) + i] = part[i]
  <2> socket \in Seq(Byte) /\ part \in Seq(Byte) /\ Len(part) = n
    BY <1>7, <1>11
  <2> QED  BY <1>12, Concat
<1>14. PICK w, d : d = ends[Len(received)] /\ w = d + Len(buffer) + Len(socket)
  OBVIOUS
<1>15. /\ Len(received) <= Len(sent) /\ Layout(stream, ends)
       /\ Follows(stream, d, buffer, socket) /\ Pending(stream, starts, w)
  BY <1>2, <1>14 DEF Consistent, Position
<1>16. d \in Nat /\ Len(stream) \in Nat /\ w \in Nat
  <2>1. Len(received) \in 0 .. Len(sent)
    BY <1>1, <1>15 DEF TypeOK
  <2>2. d \in Nat /\ Len(stream) \in Nat
    BY <1>14, <1>15, <2>1 DEF Layout
  <2> QED  BY <1>7, <1>14, <2>2
<1>17. /\ starts \in [1 .. c + 1 -> Nat] /\ starts[c + 1] = Len(stream)
       /\ \A i \in 1 .. c : /\ Len(to_write[i]) > 0
                            /\ starts[i + 1] = starts[i] + Len(to_write[i])
                            /\ starts[i + 1] <= Len(stream)
                            /\ \A x \in 1 .. Len(to_write[i]) :
                                  to_write[i][x] = stream[starts[i] + x]
  BY <1>6, <1>15 DEF Pending
<1>18. PICK a : a = starts[1]
  OBVIOUS
<1>19. /\ a + num_written = w /\ num_written < Len(chunk)
  BY <1>3, <1>4, <1>15, <1>18 DEF Pending
<1>20. /\ a \in Nat /\ starts[2] = a + Len(chunk) /\ a + Len(chunk) <= Len(stream)
       /\ \A x \in 1 .. Len(chunk) : chunk[x] = stream[a + x]
  <2>1. 1 \in 1 .. c /\ 1 \in 1 .. c + 1
    BY <1>7
  <2>2. a \in Nat
    BY <1>17, <1>18, <2>1
  <2>3. starts[1 + 1] = a + Len(chunk) /\ starts[1 + 1] <= Len(stream)
    BY <1>4, <1>17, <1>18, <2>1
  <2>4. \A x \in 1 .. Len(chunk) : chunk[x] = stream[a + x]
    BY <1>4, <1>17, <1>18, <2>1
  <2> QED  BY <2>2, <2>3, <2>4
<1>m. PICK lb \in Nat, ls \in Nat, lc \in Nat, l \in Nat :
         /\ lb = Len(buffer) /\ ls = Len(socket) /\ lc = Len(chunk) /\ l = Len(stream)
         /\ Len(buffer') = lb /\ Len(socket') = ls + n
  BY <1>3, <1>7, <1>8, <1>13, <1>16
<1>k. /\ w = d + lb + ls /\ a + num_written = w
      /\ num_written + n <= lc /\ a + lc <= l
  BY <1>9, <1>14, <1>19, <1>20, <1>m
<1>o. n \in Nat /\ num_written \in Nat /\ a \in Nat /\ d \in Nat
  BY <1>7, <1>9, <1>16, <1>20
<1>21. Follows(stream, d, buffer', socket')
  <2>1. d + Len(buffer') + Len(socket') <= Len(stream)
    <3>1. d + lb + (ls + n) <= l
      BY <1>k, <1>o
    <3> QED  BY <1>m, <3>1
  <2>2. \A i \in 1 .. Len(buffer') : buffer'[i] = stream[d + i]
    BY <1>3, <1>15 DEF Follows
  <2>3. \A i \in 1 .. Len(socket') : socket'[i] = stream[d + Len(buffer') + i]
    <3> SUFFICES ASSUME NEW i \in 1 .. Len(socket')
                 PROVE  socket'[i] = stream[d + Len(buffer) + i]
      BY <1>3
    <3>1. CASE i <= Len(socket)
      <4>1. i \in 1 .. Len(socket)
        BY <1>7, <1>9, <1>13, <3>1
      <4>2. socket[i] = stream[d + Len(buffer) + i]
        BY <1>15, <4>1 DEF Follows
      <4> QED  BY <1>13, <4>1, <4>2, Zenon
    <3>2. CASE i > Len(socket)
      <4>1. PICK j \in 1 .. n : i = Len(socket) + j
        <5>1. i - Len(socket) \in 1 .. n /\ i = Len(socket) + (i - Len(socket))
          BY <1>7, <1>9, <1>13, <3>2
        <5> QED  BY <5>1, Zenon
      <4>2. socket'[i] = chunk[num_written + j]
        BY <1>11, <1>13, <4>1, Zenon
      <4>3. num_written + j \in 1 .. Len(chunk)
        BY <1>7, <1>8, <1>9, <4>1
      <4>4. chunk[num_written + j] = stream[a + (num_written + j)]
        BY <1>20, <4>3, Zenon
      <4>5. a + (num_written + j) = d + Len(buffer) + i
        <5>1. a + (num_written + j) = d + lb + (ls + j)
          BY <1>k, <1>o, <4>1
        <5> QED  BY <1>m, <4>1, <5>1
      <4> QED  BY <4>2, <4>4, <4>5
    <3> QED  BY <1>7, <1>9, <1>13, <3>1, <3>2
  <2> QED  BY <2>1, <2>2, <2>3 DEF Follows
<1>22. PICK v : v = d + Len(buffer') + Len(socket')
  OBVIOUS
<1>23. v = w + n
  <2>1. v = d + lb + (ls + n)
    BY <1>22, <1>m
  <2> QED  BY <1>k, <1>o, <2>1
<1>24. CASE num_written + n = Len(chunk)
  <2>1. to_write' = Tail(to_write) /\ num_written' = 0
    BY <1>4, <1>5, <1>24 DEF Written
  <2>2. /\ to_write' \in Seq(Seq(Byte)) /\ Len(to_write') = c - 1
        /\ \A i \in 1 .. c - 1 : to_write'[i] = to_write[i + 1]
    BY <1>6, <1>7, <2>1
  <2> DEFINE starts2 == [i \in 1 .. c |-> starts[i + 1]]
  <2>3. starts2 \in [1 .. c -> Nat] /\ \A i \in 1 .. c : starts2[i] = starts[i + 1]
    BY <1>7, <1>17
  <2> HIDE DEF starts2
  <2>4. Pending(stream, starts2, v)'
    <3>1. starts2 \in [1 .. Len(to_write') + 1 -> Nat]
      BY <1>7, <2>2, <2>3
    <3>2. starts2[Len(to_write') + 1] = Len(stream)
      BY <1>7, <1>17, <2>2, <2>3
    <3>3. starts2[1] + num_written' = v
      <4>1. starts2[1] = a + Len(chunk)
        BY <1>7, <1>20, <2>3
      <4>2. num_written + n = lc /\ starts2[1] = a + lc
        BY <1>24, <1>m, <4>1
      <4> QED  BY <1>23, <1>k, <1>o, <2>1, <4>2
    <3>4. to_write' # <<>> => num_written' < Len(to_write'[1])
      <4> SUFFICES ASSUME to_write' # <<>> PROVE 0 < Len(to_write'[1])
        BY <2>1
      <4>1. Len(to_write') # 0
        BY <2>2, EmptySeq
      <4>2. 1 \in 1 .. c - 1 /\ 2 \in 1 .. c
        BY <1>7, <2>2, <4>1
      <4>3. to_write'[1] = to_write[1 + 1]
        BY <2>2, <4>2, Zenon
      <4>4. Len(to_write[2]) > 0
        BY <1>17, <4>2, Zenon
      <4> QED  BY <4>3, <4>4
    <3>5. ASSUME NEW i \in 1 .. Len(to_write')
          PROVE  /\ Len(to_write'[i]) > 0
                 /\ starts2[i + 1] = starts2[i] + Len(to_write'[i])
                 /\ starts2[i + 1] <= Len(stream)
                 /\ \A x \in 1 .. Len(to_write'[i]) :
                       to_write'[i][x] = stream[starts2[i] + x]
      <4>1. i \in 1 .. c - 1 /\ i \in 1 .. c /\ i + 1 \in 1 .. c
        BY <1>7, <2>2
      <4>2. /\ to_write'[i] = to_write[i + 1] /\ starts2[i] = starts[i + 1]
            /\ starts2[i + 1] = starts[(i + 1) + 1]
        BY <2>2, <2>3, <4>1, Zenon
      <4> QED  BY <1>17, <4>1, <4>2, Zenon
    <3> QED  BY <2>1, <3>1, <3>2, <3>3, <3>4, <3>5 DEF Pending
  <2>5. TypeOK'
    BY <1>1, <1>3, <1>5, <1>13, <2>1, <2>2 DEF TypeOK
  <2>6. Consistent(stream, ends, starts2)'
    <3>1. Layout(stream, ends)'
      BY <1>3, <1>15 DEF Layout
    <3>2. Follows(stream, ends[Len(received)], buffer, socket)'
      BY <1>3, <1>14, <1>21
    <3>3. Position(ends)' = v
      BY <1>3, <1>14, <1>22 DEF Position
    <3> QED  BY <1>3, <1>15, <2>4, <3>1, <3>2, <3>3 DEF Consistent
  <2> QED  BY <1>3, <2>5, <2>6 DEF IInv, Queue!vars
<1>25. CASE num_written + n # Len(chunk)
  <2>1. to_write' = to_write /\ num_written' = num_written + n
    BY <1>4, <1>5, <1>25 DEF Written
  <2>2. Pending(stream, starts, v)'
    <3>1. starts[1] + num_written' = v
      BY <1>7, <1>9, <1>18, <1>19, <1>20, <1>23, <2>1
    <3>2. to_write' # <<>> => num_written' < Len(to_write'[1])
      BY <1>4, <1>7, <1>8, <1>9, <1>25, <2>1
    <3> QED  BY <1>3, <1>6, <1>17, <2>1, <3>1, <3>2 DEF Pending
  <2>3. TypeOK'
    <3>1. num_written' \in Nat
      BY <1>o, <2>1
    <3>2. socket' \in Seq(Byte) /\ Len(socket') <= SocketSize
      BY <1>5, <1>13
    <3> QED  BY <1>1, <1>3, <2>1, <3>1, <3>2 DEF TypeOK
  <2>4. Consistent(stream, ends, starts)'
    <3>1. Layout(stream, ends)'
      BY <1>3, <1>15 DEF Layout
    <3>2. Follows(stream, ends[Len(received)], buffer, socket)'
      BY <1>3, <1>14, <1>21
    <3>3. Position(ends)' = v
      BY <1>3, <1>14, <1>22 DEF Position
    <3> QED  BY <1>3, <1>15, <2>2, <3>1, <3>2, <3>3 DEF Consistent
  <2> QED  BY <1>3, <2>3, <2>4 DEF IInv, Queue!vars
<1> QED  BY <1>24, <1>25

-----------------------------------------------------------------------------

LEMMA InitIInv == Init => IInv /\ Queue!Init
<1> SUFFICES ASSUME Init PROVE IInv /\ Queue!Init
  OBVIOUS
<1>1. TypeOK
  <2>1. reader \in {"runs", "readable"} /\ closed \in BOOLEAN /\ num_written \in Nat
    BY DEF Init
  <2>2. /\ to_write \in Seq(Seq(Byte)) /\ socket \in Seq(Byte) /\ buffer \in Seq(Byte)
        /\ sent \in Seq(Messages) /\ received \in Seq(Messages)
    BY DEF Init
  <2>3. Len(socket) = 0
    BY DEF Init
  <2> QED  BY <2>1, <2>2, <2>3, WireBoundsAssumption DEF Init, TypeOK
<1> DEFINE ends == [k \in 0 .. 0 |-> 0]
           starts == [i \in 1 .. 1 |-> 0]
<1>2. ends \in [0 .. 0 -> Nat] /\ starts \in [1 .. 1 -> Nat] /\ ends[0] = 0 /\ starts[1] = 0
  OBVIOUS
<1> HIDE DEF ends, starts
<1>3. /\ Len(sent) = 0 /\ Len(received) = 0 /\ Len(to_write) = 0
      /\ Len(buffer) = 0 /\ Len(socket) = 0 /\ num_written = 0 /\ to_write = <<>>
  BY DEF Init
<1>4. Layout(<<>>, ends)
  <2>1. \A k \in 0 .. 0 : ends[k] <= 0
    BY <1>2
  <2>2. <<>> \in Seq(Byte) /\ Len(<<>>) = 0 /\ 1 .. 0 = {}
    OBVIOUS
  <2> QED  BY <1>2, <1>3, <2>1, <2>2 DEF Layout
<1>5. Follows(<<>>, ends[Len(received)], buffer, socket)
  BY <1>2, <1>3 DEF Follows
<1>6. Pending(<<>>, starts, Position(ends))
  BY <1>2, <1>3 DEF Pending, Position
<1>7. Consistent(<<>>, ends, starts)
  BY <1>3, <1>4, <1>5, <1>6 DEF Consistent
<1> QED  BY <1>1, <1>7 DEF IInv, Init, Queue!Init

(***************************************************************************)
(* One step of the bytes is one step of the queue, or none.                *)
(***************************************************************************)
LEMMA Step ==
  ASSUME IInv, [Next]_vars
  PROVE  IInv' /\ [Queue!Next]_(Queue!vars)
<1>1. CASE SendMessage
  BY <1>1, SendStep DEF Queue!Next
<1>2. CASE try_write
  BY <1>2, WriteStep
<1>3. CASE try_read_message
  <2>1. PICK n \in 0 .. Len(socket) :
           Reads(n) /\ reader' = StateAfter(buffer \o SubSeq(socket, 1, n))
    BY <1>3 DEF try_read_message, Reads, Delivers
  <2>2. reader' \in {"runs", "readable"}
    BY <2>1 DEF StateAfter
  <2>3. UNCHANGED <<direction, to_write, num_written, closed, sent>>
    BY <1>3 DEF try_read_message
  <2> QED  BY <2>1, <2>2, <2>3, ReadStep DEF Queue!Next
<1>4. CASE read_message
  <2>1. PICK n \in 1 .. Len(socket) : Reads(n)
    BY <1>4 DEF read_message, Reads, Delivers
  <2>2. n \in 0 .. Len(socket)
    BY DEF IInv, TypeOK
  <2>3. /\ UNCHANGED <<direction, to_write, num_written, closed, sent>>
        /\ reader' \in {"runs", "readable"}
    BY <1>4 DEF read_message, IInv, TypeOK
  <2> QED  BY <2>1, <2>2, <2>3, ReadStep DEF Queue!Next
<1>5. ASSUME UNCHANGED <<direction, to_write, num_written, socket, buffer, sent, received>>,
             reader' \in {"runs", "readable"}, closed' \in BOOLEAN
      PROVE  IInv'
  <2>1. TypeOK'
    BY <1>5 DEF IInv, TypeOK
  <2>2. PICK stream, ends, starts : Consistent(stream, ends, starts)
    BY DEF IInv
  <2>3. Consistent(stream, ends, starts)'
    BY <1>5, <2>2 DEF Consistent, Layout, Follows, Pending, Position
  <2> QED  BY <2>1, <2>3 DEF IInv
<1>6. CASE ready
  <2>1. IInv'
    BY <1>5, <1>6 DEF ready, IInv, TypeOK
  <2> QED  BY <1>6, <2>1 DEF ready, Queue!vars
<1>7. CASE Close
  <2>1. IInv'
    BY <1>5, <1>7 DEF Close, IInv, TypeOK
  <2> QED  BY <1>7, <2>1 DEF Close, Queue!Close, Queue!Next
<1>8. CASE UNCHANGED vars
  <2>1. IInv'
    BY <1>5, <1>8 DEF vars, IInv, TypeOK
  <2> QED  BY <1>8, <2>1 DEF vars, Queue!vars
<1> QED  BY <1>1, <1>2, <1>3, <1>4, <1>6, <1>7, <1>8 DEF Next

(***************************************************************************)
(* The framing of ipc.rs implements a FIFO of messages: what a reader      *)
(* gives is what the writer was handed, whole, in order and once, for all  *)
(* messages whose length four bytes hold and however the system cuts the   *)
(* reads and the writes.                                                   *)
(***************************************************************************)
THEOREM FramingImplementsFifo == Spec => ImplementsFifo
<1>1. Init => IInv /\ Queue!Init
  BY InitIInv
<1>2. IInv /\ [Next]_vars => IInv' /\ [Queue!Next]_(Queue!vars)
  BY Step
<1> QED  BY <1>1, <1>2, PTL DEF Spec, ImplementsFifo, Queue!Spec

(***************************************************************************)
(* Type correctness.                                                       *)
(***************************************************************************)
THEOREM TypeCorrectness == Spec => []TypeOK
<1>1. Init => IInv
  BY InitIInv
<1>2. IInv /\ [Next]_vars => IInv'
  BY Step
<1>3. IInv => TypeOK
  BY DEF IInv
<1> QED  BY <1>1, <1>2, <1>3, PTL DEF Spec
=============================================================================
