------------------------------- MODULE MCXGpio -------------------------------
(***************************************************************************)
(* Instances of XGpio: one or two channels of two pins, two threads.       *)
(***************************************************************************)
EXTENDS XGpio, TLC

CONSTANTS p0, p1, t1, t2

Single == {1}
Dual == {1, 2}

\* No operation tells the pins of a channel apart, nor the threads.
Symmetry == Permutations({p0, p1}) \cup Permutations({t1, t2})

Of(kinds, channels) ==
  {j \in Jobs : j.k \in kinds /\ j.c \in channels /\ j.on \cap j.off = {}
                /\ j.on \cup j.off # {}}

\* Channel 1 is set and turned; both have interrupts.
Turns == Of({"set", "out", "in"}, {1}) \cup Of({"unmask", "mask"}, {1, 2})
Irqs == Of({"unmask", "mask"}, Channels)
=============================================================================
