------------------------------- MODULE MCFdtEdit -------------------------------
(***************************************************************************)
(* Instances of FdtEdit. The caller starts from a blob of the current       *)
(* version, from one whose blocks lie in another order with a gap before   *)
(* them, and from one of version 16, whose structure has no size.          *)
(***************************************************************************)
EXTENDS FdtEdit, TLC

\* What a call does depends on the blob, not on the call before.
Blob == fdt

P == <<1>>
Q == <<2, 1>>        \* P is its tail
TwoProps == {P, Q}
TwoNodes == {<<3>>, <<3, 5>>}        \* n and n@5
TwoValues == {<<7>>, <<0, 7, 0>>}

Rsv == <<Cell("entry", 1, 0), Cell("entry", 0, 0)>>
Root == <<Cell("begin", 0, 0)>> \o NameCells(<<>>) \o <<Cell("prop", 0, 1)>> \o Bytes(<<7>>)
        \o <<Cell("end_node", 0, 0), Cell("end", 0, 0)>>
Strings == Chars(P)

Laid(version, rsv, struct, strings, total) ==
  LET At0(p, at, s) == IF p \in at .. at + Len(s) - 1 THEN {s[p - at + 1]} ELSE {}
      cells(p) == At0(p, rsv, Rsv) \cup At0(p, struct, Root) \cup At0(p, strings, Strings)
  IN  [magic |-> "FDT", version |-> version, totalsize |-> total, off_mem_rsvmap |-> rsv,
       off_dt_struct |-> struct, size_dt_struct |-> IF version = 17 THEN Len(Root) ELSE 0,
       off_dt_strings |-> strings, size_dt_strings |-> Len(Strings),
       mem |-> [p \in Memory |-> IF cells(p) = {} THEN Junk ELSE CHOOSE c \in cells(p) : TRUE]]

ThreeSources == {Laid(17, 1, 3, 9, 11), Laid(16, 1, 3, 9, 12), Laid(17, 9, 3, 1, 12)}
=============================================================================
