------------------------------ MODULE MCXGpioPm ------------------------------
(***************************************************************************)
(* Instances of XGpioPm: two pins a channel, a few bindings of the driver. *)
(***************************************************************************)
EXTENDS XGpioPm
=============================================================================
