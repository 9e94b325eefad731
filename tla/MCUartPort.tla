------------------------------ MODULE MCUartPort ------------------------------
(***************************************************************************)
(* Instances of UartPort: FIFOs of two characters.                         *)
(***************************************************************************)
EXTENDS UartPort
=============================================================================
