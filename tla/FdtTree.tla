------------------------------- MODULE FdtTree -------------------------------
(***************************************************************************)
(* What the write functions of libfdt promise: a list of reserved regions  *)
(* and an ordered tree of nodes with ordered properties, kept as its nodes *)
(* from the root on, each with its depth.  A call names its node by its    *)
(* place in the list, 0 when it has none.  A call that fails changes       *)
(* nothing (but for fdt_create_empty_tree, see Emptied), and one that      *)
(* needs no more room than there was does not fail for want of it.         *)
(* FdtEdit implements it.                                                  *)
(***************************************************************************)
EXTENDS Integers, Sequences, SequencesExt

CONSTANTS NOTFOUND, EXISTS, NOSPACE, BADOFFSET, BADVERSION, BADLAYOUT,
          NodenameEq(_, _)        \* whether a node name answers to a name

VARIABLES tree, reserved,
          writable,               \* opened by fdt_open_into, or made in order
          reply                   \* the last call and its error

Node(depth, name, props) == [depth |-> depth, name |-> name, props |-> props]

\* The last node below i, and the children of i.
Below(i) == {j \in i + 1 .. Len(tree) : \A k \in i + 1 .. j : tree[k].depth > tree[i].depth}
LastBelow(i) == i + Cardinality(Below(i))
Children(i) == {j \in Below(i) : tree[j].depth = tree[i].depth + 1}

Has(c) == \E k \in DOMAIN tree[c.node].props : tree[c.node].props[k][1] = c.name
Place(c) == CHOOSE k \in DOMAIN tree[c.node].props :
  /\ tree[c.node].props[k][1] = c.name
  /\ \A l \in 1 .. k - 1 : tree[c.node].props[l][1] # c.name
Old(c) == IF Has(c) THEN tree[c.node].props[Place(c)][2] ELSE <<>>

InPlace == {"nopprop", "nop", "inplace", "partial"}     \* fdt_wip.c
NodeOps == InPlace \cup {"rename", "add", "del", "delprop", "set", "append"}
Edits == (NodeOps \ InPlace) \cup {"add_rsv", "del_rsv", "pack"}

\* Why the call must fail; 0 if it need not.
Error(c) ==
  CASE c.op \in NodeOps /\ c.node = 0 -> BADOFFSET
    [] c.op \in {"delprop", "nopprop", "inplace", "partial"} /\ c.node # 0 /\ ~Has(c) -> NOTFOUND
    [] c.op = "del_rsv" /\ Head(c.val) >= Len(reserved) -> NOTFOUND
    [] c.op = "add" /\ c.node # 0 /\ \E j \in Children(c.node) : NodenameEq(tree[j].name, c.name)
         -> EXISTS
    [] c.op = "inplace" /\ c.node # 0 /\ Has(c) /\ Len(Old(c)) # Len(c.val) -> NOSPACE
    [] c.op = "partial" /\ c.node # 0 /\ Has(c) /\ Len(Old(c)) < Head(c.val) + Len(c.val) - 1
         -> NOSPACE
    [] OTHER -> 0

Grows(c) ==
  CASE c.op \in {"add_rsv", "open", "add", "empty"} -> TRUE
    [] c.op = "rename" -> Len(c.name) > Len(tree[c.node].name)
    [] c.op = "set" -> ~Has(c) \/ Len(c.val) > Len(Old(c))
    [] c.op = "append" -> ~Has(c) \/ c.val # <<>>
    [] OTHER -> FALSE

\* A new property comes first, an old one keeps its place.
Stored(c, v) ==
  [tree EXCEPT ![c.node].props =
     IF Has(c) THEN ReplaceAt(@, Place(c), <<c.name, v>>) ELSE <<<<c.name, v>>>> \o @]

Overwritten(old, idx, v) ==
  [i \in DOMAIN old |-> IF i \in idx + 1 .. idx + Len(v) THEN v[i - idx] ELSE old[i]]

NewTree(c) ==
  CASE c.op = "rename" -> [tree EXCEPT ![c.node].name = c.name]
    [] c.op = "add" -> SubSeq(tree, 1, c.node)
                       \o <<Node(tree[c.node].depth + 1, c.name, <<>>)>>     \* before its siblings
                       \o SubSeq(tree, c.node + 1, Len(tree))
    [] c.op \in {"del", "nop"} ->
         SubSeq(tree, 1, c.node - 1) \o SubSeq(tree, LastBelow(c.node) + 1, Len(tree))
    [] c.op \in {"delprop", "nopprop"} -> [tree EXCEPT ![c.node].props = RemoveAt(@, Place(c))]
    [] c.op = "set" -> Stored(c, c.val)
    [] c.op = "append" -> Stored(c, Old(c) \o c.val)
    [] c.op = "inplace" -> Stored(c, c.val)
    [] c.op = "partial" -> Stored(c, Overwritten(Old(c), Head(c.val), Tail(c.val)))
    [] c.op = "empty" -> <<Node(0, <<>>, <<>>)>>
    [] OTHER -> tree

NewReserved(c) ==
  CASE c.op = "add_rsv" -> reserved \o c.val
    [] c.op = "del_rsv" -> RemoveAt(reserved, Head(c.val) + 1)
    [] c.op = "empty" -> <<>>
    [] OTHER -> reserved

Allowed(c) == c.op \in Edits => writable

Refused(err) == reply'.err = err /\ UNCHANGED <<tree, reserved, writable>>

\* An older version, or blocks in another order, only read until they are opened.
Unwritable(c) == ~Allowed(c) /\ \E err \in {BADVERSION, BADLAYOUT} : Refused(err)

Wrong(c) == Allowed(c) /\ Error(c) # 0 /\ Refused(Error(c))

NoRoom(c) == Allowed(c) /\ Error(c) = 0 /\ Grows(c) /\ Refused(NOSPACE)

Succeed(c) ==
  /\ Allowed(c) /\ Error(c) = 0 /\ reply'.err = 0
  /\ tree' = NewTree(c) /\ reserved' = NewReserved(c)
  /\ writable' = (writable \/ c.op \in {"open", "empty"})

\* The one call that fails half-way: a buffer with a header but no room for an empty
\* tree has lost what it held, and holds nothing or a root that was not ended.
Emptied(c) == /\ c.op = "empty" /\ reply'.err = NOSPACE
              /\ tree' \in {<<>>, <<Node(0, <<>>, <<>>)>>}
              /\ reserved' = <<>> /\ writable' = (tree' # <<>>)

Init == /\ tree \in Seq([depth : Nat, name : Seq(Nat), props : Seq(Seq(Nat) \X Seq(Nat))])
        /\ reserved \in Seq(Nat) /\ writable \in BOOLEAN /\ reply.err = 0

Next == LET c == reply'.call
        IN  Unwritable(c) \/ Wrong(c) \/ NoRoom(c) \/ Succeed(c) \/ Emptied(c)

Spec == Init /\ [][Next]_<<tree, reserved, writable, reply>>
=============================================================================
