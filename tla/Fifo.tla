-------------------------------- MODULE Fifo --------------------------------
(***************************************************************************)
(* What a connection promises to those who send and receive Messages over  *)
(* it: they arrive whole, in order, none twice, and as long as the sender  *)
(* does not close its end every one arrives.                               *)
(***************************************************************************)
EXTENDS Naturals, Sequences

CONSTANT Messages

VARIABLES sent, received, closed

vars == <<sent, received, closed>>

Init == sent = <<>> /\ received = <<>> /\ closed = FALSE

Send ==
  /\ ~closed
  /\ \E m \in Messages : sent' = Append(sent, m)
  /\ UNCHANGED <<received, closed>>

Receive ==
  /\ Len(received) < Len(sent)
  /\ received' = Append(received, sent[Len(received) + 1])
  /\ UNCHANGED <<sent, closed>>

Close == ~closed /\ closed' = TRUE /\ UNCHANGED <<sent, received>>

Next == Send \/ Receive \/ Close

Spec == Init /\ [][Next]_vars

FairSpec == Spec /\ WF_vars(Receive /\ ~closed)
=============================================================================
