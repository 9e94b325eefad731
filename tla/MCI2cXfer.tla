------------------------------ MODULE MCI2cXfer ------------------------------
(***************************************************************************)
(* Instances of I2cXfer: small transfers on a small FIFO.                  *)
(***************************************************************************)
EXTENDS I2cXfer

Msg(read, n) == [rd |-> read, len |-> n]
W(n) == Msg(FALSE, n)
R(n) == Msg(TRUE, n)

\* The probe of an address and a write longer than the FIFO, a register read longer
\* than the FIFO, something after a read.
Messages == {<<W(0), W(4)>>, <<W(1), R(5)>>, <<R(2), W(0)>>}
=============================================================================
