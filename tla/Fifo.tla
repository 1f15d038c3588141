-------------------------------- MODULE Fifo --------------------------------
(***************************************************************************)
(* What a pipe promises: bytes leave in the order in which they entered,   *)
(* none is lost or invented, and at most Size are on the way.              *)
(***************************************************************************)
EXTENDS Naturals, Sequences

CONSTANTS Values, Size

VARIABLE q

Init == q = <<>>

Put == \E v \in Values : Len(q) < Size /\ q' = Append(q, v)

Get == q # <<>> /\ q' = Tail(q)

Spec == Init /\ [][Put \/ Get]_q
=============================================================================
