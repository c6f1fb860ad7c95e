------------------------------- MODULE MCWire -------------------------------
(***************************************************************************)
(* Bytes of one bit: the lengths need two and three of the four bytes.     *)
(***************************************************************************)
EXTENDS Wire

MCMessages == {<<1>>, <<1, 0, 1, 1, 0>>}
=============================================================================
