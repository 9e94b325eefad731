------------------------------- MODULE FdtEdit -------------------------------
(***************************************************************************)
(* A caller of the write functions of libfdt: it holds one blob, passes    *)
(* any offset, valid, stale or wrong, opens the blob into a larger buffer  *)
(* when it wants to, and looks at the error that comes back.               *)
(***************************************************************************)
EXTENDS FdtRw

CONSTANTS
  MaxNodes,      \* bound: nodes in a blob
  MaxLen,        \* bound: bytes of a value
  Sources,       \* blobs the caller starts from
  BufSizes, Indexes,             \* sizes of buffers and places in values that are tried
  NodeNames, PropNames, Values, Regions

\* The strings of a caller end at their first NUL.
ASSUME FdtEditAssumption ==
  /\ BufSizes \subseteq 1 .. MaxSize /\ Indexes \subseteq Nat
  /\ NodeNames \subseteq Seq(Nat \ {0}) /\ PropNames \subseteq Seq(Nat \ {0})
  /\ Values \subseteq Seq(Nat) /\ Regions \subseteq Nat \ {0}

\* Reserve map with its terminator, structure and strings lie inside the buffer,
\* each cell in one of them.
Apart(b) ==
  LET end == [rsv |-> b.off_mem_rsvmap + NumMemRsv(b) + 1,
              struct |-> b.off_dt_struct + End(b) + 1,
              strings |-> b.off_dt_strings + b.size_dt_strings]
      start == [rsv |-> b.off_mem_rsvmap, struct |-> b.off_dt_struct,
                strings |-> b.off_dt_strings]
  IN  \A p \in DOMAIN end :
        /\ RsvStart <= start[p] /\ end[p] <= b.totalsize
        /\ \A q \in DOMAIN end \ {p} : end[p] <= start[q] \/ end[q] <= start[p]

\* fdt_next_tag leads from the root over every tag to the END that closes the
\* structure, where its size says; what lies between two tags is a name or a value;
\* every property's name is a string of the block; and the reserve map ends.
Sound(b) ==
  LET tags == {q \in 0 .. End(b) : Tag(b, q) \in {"begin", "end_node", "prop", "nop", "end"}}
  IN  /\ 0 \in tags /\ Tag(b, End(b)) = "end"
      /\ b.version >= 17 => b.size_dt_struct = End(b) + 1
      /\ \A q \in tags \ {End(b)} : NextTag(b, q) = Min({p \in tags : p > q})
      /\ \A q \in tags : Tag(b, q) = "prop" => \E n \in PropNames : At(b, q).x \in Found(b, n)
      /\ \E i \in 0 .. b.totalsize - b.off_mem_rsvmap - 1 : b.mem[b.off_mem_rsvmap + i].x = 0

\* Every node is closed, inside one root at the start of the structure, no END_NODE
\* comes without a node, properties come before subnodes, and no cell behind END
\* looks like a node.
Nested(b) ==
  /\ Depth(b, -1, End(b)) = 0 /\ \A q \in 0 .. End(b) : Depth(b, -1, q) >= 0
  /\ \A o \in Nodes(b) \ {0} : 0 \in Nodes(b) /\ Depth(b, -1, o) > 1
  /\ \A q \in Tagged(b, {"prop"}, 0) : \E o \in Nodes(b) : q \in Properties(b, o)
  /\ \A q \in 0 .. Size(b) - 1 : At(b, q).tag = "begin" => q \in Nodes(b)

\* The caller starts from blobs as dtc or fdt_finish leaves them.
ASSUME SourcesAssumption ==
  \A b \in Sources : /\ b \in Blobs /\ b.magic = "FDT" /\ b.version >= 16
                     /\ Apart(b) /\ Sound(b) /\ Nested(b)

VARIABLES
  fdt,           \* the blob
  reply,         \* the last call, the node it was for, and the error returned
  content        \* history: what a reader of the blob finds in it

vars == <<fdt, reply, content>>

\* The number of the node at o in the blob, or 0.
NodeAt(b, o) ==
  IF CheckNodeOffset(b, o) >= 0 THEN Cardinality({q \in Nodes(b) : q <= o}) ELSE 0

Call(op, o, name, val) == [op |-> op, node |-> NodeAt(fdt, o), name |-> name, val |-> val]

Do(call, r) ==
  /\ fdt' = r.fdt /\ content' = Decoded(r.fdt)
  /\ reply' = [call |-> call, err |-> r.err]

Init == /\ fdt \in Sources /\ content = Decoded(fdt)
        /\ reply = [call |-> [op |-> "none", node |-> 0, name |-> <<>>, val |-> <<>>], err |-> 0]

Offsets == {o \in 0 .. MaxSize : CheckNodeOffset(fdt, o) >= 0} \cup {1}

OnBlob ==
  \/ \E r \in Regions : Do(Call("add_rsv", 1, <<>>, <<r>>), AddMemRsv(fdt, r))
  \/ \E n \in 0 .. 1 : Do(Call("del_rsv", 1, <<>>, <<n>>), DelMemRsv(fdt, n))
  \/ \E size \in BufSizes, inplace \in BOOLEAN :
       Do(Call("open", 1, <<>>, <<>>), OpenInto(fdt, size, inplace))
  \/ Do(Call("pack", 1, <<>>, <<>>), Pack(fdt))

OnNode(o) ==
  \/ \E n \in NodeNames : Do(Call("rename", o, n, <<>>), SetName(fdt, o, n))
  \/ \E n \in NodeNames : /\ Cardinality(Nodes(fdt)) < MaxNodes
                          /\ Do(Call("add", o, n, <<>>), AddSubnode(fdt, o, n))
  \/ Do(Call("del", o, <<>>, <<>>), DelNode(fdt, o))
  \/ Do(Call("nop", o, <<>>, <<>>), NopNode(fdt, o))

OnProperty(o, n) ==
  \/ Do(Call("delprop", o, n, <<>>), DelProp(fdt, o, n))
  \/ Do(Call("nopprop", o, n, <<>>), NopProperty(fdt, o, n))
  \/ \E v \in Values :
       \/ Do(Call("set", o, n, v), SetProp(fdt, o, n, v))
       \/ /\ HasProp(fdt, o, n) => Len(GetProp(fdt, o, n)) + Len(v) <= MaxLen
          /\ Do(Call("append", o, n, v), AppendProp(fdt, o, n, v))
       \/ Do(Call("inplace", o, n, v), SetpropInplace(fdt, o, n, v))
       \/ \E idx \in Indexes :
            Do(Call("partial", o, n, <<idx>> \o v), SetpropInplacePartial(fdt, o, n, idx, v))

\* After a failed fdt_create_empty_tree the caller makes a new tree or gives up.
Next ==
  \/ fdt.magic = "FDT" /\ OnBlob
  \/ /\ fdt.magic = "FDT"
     /\ \E o \in Offsets : OnNode(o) \/ \E n \in PropNames : OnProperty(o, n)
  \/ \E size \in BufSizes : Do(Call("empty", 1, <<>>, <<>>), EmptyTree(fdt, size))

Spec == Init /\ [][Next]_vars
-----------------------------------------------------------------------------
TypeOK == fdt \in Blobs

(***************************************************************************)
(* Reserve map with its terminator, structure and strings lie inside the   *)
(* buffer, each cell in one of them, whatever call failed before and for   *)
(* whatever offset it was made, and in whatever order they came.           *)
(***************************************************************************)
BlocksApart == fdt.magic = "FDT" => Apart(fdt)

(***************************************************************************)
(* fdt_next_tag leads from the root over every tag to the END that closes  *)
(* the structure where its size says; what lies between two tags is a name *)
(* or a value; every property's name is a string of the block; the reserve *)
(* map has its terminator; and the nodes nest under one root, each with    *)
(* its properties before its subnodes.                                     *)
(***************************************************************************)
StructureSound == fdt.magic = "FDT" => Sound(fdt) /\ Nested(fdt)

Tree == INSTANCE FdtTree WITH
  tree <- content.tree, reserved <- content.reserved, writable <- content.writable

(***************************************************************************)
(* Decoded from the memory, a blob changes as the tree of FdtTree: a call  *)
(* has its effect on its node alone, a call that fails none at all, even   *)
(* when it left a string behind, nops read as nothing, and moving or       *)
(* packing the blocks changes nothing.  The exception is a failed          *)
(* fdt_create_empty_tree: the old tree is gone, and a reader may find a    *)
(* root.                                                                   *)
(***************************************************************************)
ImplementsTree == Tree!Spec

\* Where a walk along the names of each node's path ends.
WalkTo(t) ==
  LET to[k \in DOMAIN t] ==
        IF k = 1 THEN 1
        ELSE Lowest({j \in 2 .. Len(t) : /\ to[Above(t, k)] # 0 /\ Above(t, j) = to[Above(t, k)]
                                         /\ NodenameEq(t[j].name, t[k].name)}, 0)
  IN  to

(***************************************************************************)
(* What the read functions say of offsets agrees with the tree: parents;   *)
(* paths, which are given whenever the buffer holds them with their NUL    *)
(* and not otherwise; the node a path leads to, the first that answers to  *)
(* each name; walks over the nodes and over the subnodes of one; and       *)
(* lookups of a phandle, a value and of strings in a list.  (A root that   *)
(* was given a name appears in the paths of fdt_get_path.)                 *)
(***************************************************************************)
ReadsAgree ==
  LET t == content.tree
      o == InOrder(Nodes(fdt))
  IN  \A k \in {k \in DOMAIN t : t[1].name = <<>>} :
        /\ ParentOffset(fdt, o[k]) = IF k = 1 THEN NOTFOUND ELSE o[Above(t, k)]
        /\ \A len \in 0 .. 8 :
             GetPath(fdt, o[k], len) = IF Len(PathOf(t)[k]) + 1 <= len
                                       THEN [err |-> 0, path |-> PathOf(t)[k]]
                                       ELSE [err |-> NOSPACE, path |-> <<>>]
        /\ PathOffset(fdt, PathOf(t)[k]) = IF WalkTo(t)[k] = 0 THEN NOTFOUND ELSE o[WalkTo(t)[k]]
        /\ NextNode(fdt, o[k]) = IF k < Len(t) THEN o[k + 1] ELSE NOTFOUND
        /\ FirstSubnode(fdt, o[k]) = Lowest({o[j] : j \in {j \in k + 1 .. Len(t) : Above(t, j) = k}}, NOTFOUND)
        /\ k > 1 => NextSubnode(fdt, o[k]) = Lowest({o[j] : j \in {j \in k + 1 .. Len(t) : Above(t, j) = Above(t, k)}}, NOTFOUND)
        /\ \A i \in DOMAIN t[k].props :
             LET name == t[k].props[i][1]
                 at == NodeOffsetByPropValue(fdt, -1, name, GetProp(fdt, o[k], name))
             IN  at \in 0 .. o[k] /\ GetProp(fdt, at, name) = GetProp(fdt, o[k], name)
        /\ LET ph == GetPhandle(fdt, o[k]) IN
           /\ ph \in 1 .. MinusOne - 1 =>
                /\ ph <= GetMaxPhandle(fdt)
                /\ NodeOffsetByPhandle(fdt, ph) = Min({o[j] : j \in {j \in DOMAIN t : GetPhandle(fdt, o[j]) = ph}})
        /\ \A i \in 0 .. StringlistCount(fdt, o[k], compatible) - 1 :
             LET v == GetProp(fdt, o[k], compatible)
                 item == ItemAt(v, CHOOSE p \in Starts(v) : Rank(v, p) = i)
             IN  /\ StringlistGet(fdt, o[k], compatible, i) = Len(item)
                 /\ StringlistSearch(fdt, o[k], compatible, item) <= i
                 /\ NodeOffsetByCompatible(fdt, -1, item) \in 0 .. o[k]
=============================================================================
