------------------------------- MODULE MCFdtSw -------------------------------
(* Two property names, one the tail of the other, and values of 0 and 1 cells. *)
EXTENDS FdtSw

TwoNames == {<<1>>, <<2, 1>>}
TwoValues == {<<>>, <<7>>}
=============================================================================
