------------------------------ MODULE FdtStream ------------------------------
(***************************************************************************)
(* What the sequential writer of libfdt promises its caller: the reserved  *)
(* regions and the tokens that it accepted, in order, whatever the buffer  *)
(* they are kept in, and a refused call that changes nothing.  FdtSw       *)
(* implements it.                                                          *)
(***************************************************************************)
EXTENDS Sequences

CONSTANT Terminator     \* the entry that ends the map of reserved regions

VARIABLES stage,        \* "none", "open" or "done"
          reserved,     \* the reserved regions
          tokens,       \* the structure
          reply         \* the last call and whether it was accepted

Init == /\ stage = "none" /\ reserved = <<>> /\ tokens = <<>>
        /\ reply = [call |-> Terminator, ok |-> FALSE]

Mapped == reserved # <<>> /\ reserved[Len(reserved)] = Terminator

\* A buffer that was finished, or never used, is taken for a new tree.
Create == /\ stage # "open" /\ stage' = "open"
          /\ reserved' = <<>> /\ tokens' = <<>>
          /\ reply'.ok

Reserve == /\ stage = "open" /\ ~Mapped /\ tokens = <<>>
           /\ reserved' = Append(reserved, reply'.call)
           /\ reply'.ok /\ UNCHANGED <<stage, tokens>>

Put == /\ stage = "open" /\ Mapped
       /\ tokens' = Append(tokens, reply'.call)
       /\ reply'.ok /\ UNCHANGED <<stage, reserved>>

Finish == /\ stage = "open" /\ stage' = "done" /\ Mapped
          /\ reply'.ok /\ UNCHANGED <<reserved, tokens>>

Refuse == ~reply'.ok /\ UNCHANGED <<stage, reserved, tokens>>

Next == Create \/ Reserve \/ Put \/ Finish \/ Refuse

Spec == Init /\ [][Next]_<<stage, reserved, tokens, reply>>
=============================================================================
