------------------------------ MODULE FdtOverlay ------------------------------
(***************************************************************************)
(* Overlays (fdt_overlay.c): fdt_overlay_apply makes the phandles of the   *)
(* overlay distinct from those of the base, adjusts the overlay's          *)
(* references to its own nodes, resolves those to nodes of the base by     *)
(* their labels, and merges the fragments into their targets.  Any of it   *)
(* may fail; there is no way back, only the magics to be erased.           *)
(*                                                                         *)
(* A caller applies overlays to a base one after the other.  Each of the   *)
(* four passes is a step.  The decimal offset in a fixup is one character. *)
(***************************************************************************)
EXTENDS FdtRw

CONSTANTS
  COLON, Digits,         \* ':', and the digits as a function to their values
  overlay, target, target_path, fixups, local_fixups, symbols,     \* names
  Bases, Overlays,       \* the blobs: a set, and a sequence
  References,            \* what the sources of base (0) and overlays say refers to what
  Renumbering            \* the overlays with a phandle for a node of the base

VARIABLES
  fdt, fdto,             \* the base and the overlay being applied
  delta,                 \* the largest phandle of the base
  stage, which,          \* where fdt_overlay_apply is, and with which overlay
  ret,                   \* what it returned
  before,                \* history: the base when it was called
  applied                \* history: the overlays applied

vars == <<fdt, fdto, delta, stage, which, ret, before, applied>>

\* f for each element in turn, until one fails.
ForEach(seq, r, f(_, _)) == FoldLeft(LAMBDA q, x : IF q.err # 0 THEN q ELSE f(q.fdt, x), r, seq)

\* mutant: 0xffffffff is given out as a phandle.
AddOffsetUpToMax(o, node, name, by) ==
  IF ~HasProp(o, node, name) THEN Done(o)
  ELSE IF ~IsNumber(o, node, name) THEN Fail(BADPHANDLE, o)
  ELSE LET new == Number(GetProp(o, node, name)) + by
       IN  IF new > MinusOne THEN Fail(NOPHANDLES, o) ELSE SetpropInplace(o, node, name, Int32(new))

\* overlay_phandle_add_offset, for whose caller a missing property is none.
PhandleAddOffset(o, node, name, by) ==
  IF ~HasProp(o, node, name) THEN Done(o)
  ELSE IF ~IsNumber(o, node, name) THEN Fail(BADPHANDLE, o)
  ELSE LET new == Number(GetProp(o, node, name)) + by
       IN  IF new >= MinusOne THEN Fail(NOPHANDLES, o) ELSE SetpropInplace(o, node, name, Int32(new))

AdjustNode(o, node, by) ==
  AndThen(PhandleAddOffset(o, node, phandle, by), LAMBDA p : PhandleAddOffset(p, node, linux_phandle, by))

\* overlay_adjust_local_phandles; the recursion goes through the nodes in order.
AdjustLocalPhandles(o, by) == ForEach(InOrder(Nodes(o)), Done(o), LAMBDA b, n : AdjustNode(b, n, by))

\* One number at poffset in a property of the overlay.
AdjustReference(o, node, name, poffset, by) ==
  LET Adjusted(v) == (Number(SubSeq(v, poffset + 1, poffset + 2)) + by) % (MinusOne + 1)
      In(v) == IF poffset + 2 > Len(v) THEN Fail(BADOVERLAY, o)
               ELSE SetpropInplacePartial(o, node, name, poffset, Int32(Adjusted(v)))
  IN  In(GetProp(o, node, name))

AdjustProperty(o, node, q, by) ==
  LET Each(v, name) ==
        IF Len(v) % 2 # 0 \/ ~HasProp(o, node, name) THEN Fail(BADOVERLAY, o)
        ELSE ForEach([i \in 1 .. Len(v) \div 2 |-> Number(SubSeq(v, 2 * i - 1, 2 * i))], Done(o),
                     LAMBDA b, at : AdjustReference(b, node, name, at, by))
  IN  Each(Value(o, q), StringAt(o, At(o, q).x))

\* overlay_update_local_node_references.
RECURSIVE UpdateNode(_, _, _, _)
UpdateNode(o, node, fixup, by) ==
  LET Into(b, n, kid) == IF n < 0 THEN Fail(IF n = NOTFOUND THEN BADOVERLAY ELSE n, b)
                         ELSE UpdateNode(b, n, kid, by)
      Child(b, kid) == Into(b, SubnodeOffset(b, node, GetName(b, kid)), kid)
  IN  ForEach(InOrder(Subnodes(o, fixup)),
              ForEach(InOrder(Properties(o, fixup)), Done(o), LAMBDA b, q : AdjustProperty(b, node, q, by)),
              Child)

\* mutant: what the overlay's own references point to keeps its old phandle.
UpdateNothing(o, by) == Done(o)

UpdateLocalReferences(o, by) ==
  LET From(at) == IF at = NOTFOUND THEN Done(o) ELSE IF at < 0 THEN Fail(at, o) ELSE UpdateNode(o, 0, at, by)
  IN  From(PathOffset(o, <<SLASH>> \o local_fixups))
-----------------------------------------------------------------------------
\* overlay_fixup_one_phandle.
FixupOne(b, o, symbolsAt, path, name, poffset, label) ==
  LET Fill(ph, fixup) ==
        IF ph = 0 THEN Fail(NOTFOUND, o)
        ELSE IF fixup < 0 THEN Fail(IF fixup = NOTFOUND THEN BADOVERLAY ELSE fixup, o)
        ELSE SetpropInplacePartial(o, fixup, name, poffset, Int32(ph))
      Node(node) == IF node < 0 THEN Fail(node, o) ELSE Fill(GetPhandle(b, node), PathOffset(o, path))
      Symbol(q) == IF q < 0 THEN Fail(q, o) ELSE Node(PathOffset(b, ItemAt(Value(b, q), 1)))
  IN  IF symbolsAt < 0 THEN Fail(symbolsAt, o) ELSE Symbol(GetProperty(b, symbolsAt, label))

\* A fixup is path:name:offset.
FixupString(b, o, symbolsAt, s, label) ==
  LET colons == {i \in DOMAIN s : s[i] = COLON}
      Between(c1, c2) ==
        IF c2 = c1 + 1 \/ c2 # Len(s) - 1 \/ s[Len(s)] \notin DOMAIN Digits
        THEN Fail(BADOVERLAY, o)
        ELSE FixupOne(b, o, symbolsAt, SubSeq(s, 1, c1 - 1), SubSeq(s, c1 + 1, c2 - 1),
                      Digits[s[Len(s)]], label)
  IN  IF Cardinality(colons) < 2 THEN Fail(BADOVERLAY, o)
      ELSE Between(Min(colons), Min(colons \ {Min(colons)}))

\* overlay_fixup_phandle: every fixup of one label.
FixupPhandle(b, o, symbolsAt, q) ==
  LET Each(v, label) ==
        ForEach(InOrder(Starts(v)), Done(o),
                LAMBDA p, i : IF ~Ended(v, i) THEN Fail(BADOVERLAY, p)
                              ELSE FixupString(b, p, symbolsAt, ItemAt(v, i), label))
  IN  IF At(o, q).y = 0 THEN Fail(BADOVERLAY, o) ELSE Each(Value(o, q), StringAt(o, At(o, q).x))

FixupPhandles(b, o) ==
  LET All(at, symbolsAt) ==
        IF at = NOTFOUND THEN Done(o)
        ELSE IF at < 0 THEN Fail(at, o)
        ELSE IF symbolsAt < 0 /\ symbolsAt # NOTFOUND THEN Fail(symbolsAt, o)
        ELSE ForEach(InOrder(Properties(o, at)), Done(o), LAMBDA p, q : FixupPhandle(b, p, symbolsAt, q))
  IN  All(PathOffset(o, <<SLASH>> \o fixups), PathOffset(b, <<SLASH>> \o symbols))
-----------------------------------------------------------------------------
\* overlay_get_target.
GetTarget(b, o, fragment) ==
  LET ByPath(q) == IF q < 0 THEN BADOVERLAY ELSE PathOffset(b, ItemAt(Value(o, q), 1))
      By(number) == IF number = MinusOne THEN BADPHANDLE
                    ELSE IF number # 0 THEN NodeOffsetByPhandle(b, number)
                    ELSE ByPath(GetProperty(o, fragment, target_path))
      Target0(q) == IF q >= 0 /\ ~OneCell(o, q) THEN BADPHANDLE ELSE By(NumberOr(o, q, 0))
  IN  Target0(GetProperty(o, fragment, target))

\* overlay_apply_node; a node that fdt_add_subnode makes is the first to have its name.
RECURSIVE ApplyNode(_, _, _, _)
ApplyNode(b, at, o, node) ==
  LET Property(p, q) == SetProp(p, at, StringAt(o, At(o, q).x), Value(o, q))
      Below(add, name, kid) ==
        IF add.err \notin {0, EXISTS} THEN add
        ELSE ApplyNode(add.fdt, SubnodeOffset(add.fdt, at, name), o, kid)
      Child(p, kid) == Below(AddSubnode(p, at, GetName(o, kid)), GetName(o, kid), kid)
  IN  ForEach(InOrder(Subnodes(o, node)), ForEach(InOrder(Properties(o, node)), Done(b), Property), Child)

\* mutant: a node that is there already is left as it is.
MergeNewOnly(b, o) ==
  ForEach(InOrder(Subnodes(o, 0)), Done(b),
    LAMBDA p, fragment :
      LET Into(content, at) ==
            IF content = NOTFOUND THEN Done(p)
            ELSE IF at < 0 THEN Fail(at, p)
            ELSE ForEach(InOrder(Properties(o, content)), Done(p),
                         LAMBDA r, q : SetProp(r, at, StringAt(o, At(o, q).x), Value(o, q)))
      IN  Into(SubnodeOffset(o, fragment, overlay), GetTarget(p, o, fragment)))

\* overlay_merge.
Merge(b, o) ==
  ForEach(InOrder(Subnodes(o, 0)), Done(b),
    LAMBDA p, fragment :
      LET Into(content, at) ==
            IF content = NOTFOUND THEN Done(p)
            ELSE IF content < 0 THEN Fail(content, p)
            ELSE IF at < 0 THEN Fail(at, p)
            ELSE ApplyNode(p, at, o, content)
      IN  Into(SubnodeOffset(o, fragment, overlay), GetTarget(p, o, fragment)))
-----------------------------------------------------------------------------
Erased(b) == [b EXCEPT !.magic = "none"]

Init ==
  /\ fdt \in Bases /\ fdto = fdt /\ before = fdt /\ delta = 0
  /\ stage = "idle" /\ which = 0 /\ ret = 0 /\ applied = <<>>

\* fdt_overlay_apply, entered by the caller with an overlay it has not used.
Apply(i) ==
  LET bad == IF CheckHeader(fdt) # 0 THEN CheckHeader(fdt) ELSE CheckHeader(Overlays[i])
  IN  /\ stage = "idle" /\ i \notin ToSet(applied)
      /\ which' = i /\ fdto' = Overlays[i] /\ delta' = GetMaxPhandle(fdt) /\ before' = fdt
      /\ ret' = bad /\ stage' = IF bad # 0 THEN "idle" ELSE "adjust"
      /\ UNCHANGED <<fdt, applied>>

\* mutant: the magic of the base is left when a pass fails.
GiveUpQuietly(b, o, err) ==
  /\ stage' = "idle" /\ ret' = err /\ fdt' = b /\ fdto' = Erased(o)
  /\ UNCHANGED <<delta, which, before, applied>>

\* The label err.
GiveUp(b, o, err) ==
  /\ stage' = "idle" /\ ret' = err /\ fdt' = Erased(b) /\ fdto' = Erased(o)
  /\ UNCHANGED <<delta, which, before, applied>>

\* A pass over the overlay, and the one that comes next.
Pass(r, next) ==
  IF r.err # 0 THEN GiveUp(fdt, r.fdt, r.err)
  ELSE fdto' = r.fdt /\ stage' = next /\ UNCHANGED <<fdt, delta, which, ret, before, applied>>

Adjust == stage = "adjust" /\ Pass(AdjustLocalPhandles(fdto, delta), "local")
Local == stage = "local" /\ Pass(UpdateLocalReferences(fdto, delta), "fixup")
Fixup == stage = "fixup" /\ Pass(FixupPhandles(fdt, fdto), "merge")

MergeAll ==
  /\ stage = "merge"
  /\ \E r \in {Merge(fdt, fdto)} :
       \/ r.err # 0 /\ GiveUp(r.fdt, fdto, r.err)
       \/ /\ r.err = 0 /\ fdt' = r.fdt /\ fdto' = Erased(fdto) /\ stage' = "idle"
          /\ applied' = Append(applied, which) /\ UNCHANGED <<delta, which, ret, before>>

Next == (\E i \in DOMAIN Overlays : Apply(i)) \/ Adjust \/ Local \/ Fixup \/ MergeAll

Spec == Init /\ [][Next]_vars
-----------------------------------------------------------------------------
\* The path of each node of a blob, and the properties of the node at a path.
Paths(b) ==
  LET Of(t, path) == [p \in {path[k] : k \in DOMAIN t} |-> ToSet(t[CHOOSE k \in DOMAIN t : path[k] = p].props)]
      With(t) == Of(t, PathOf(t))
  IN  With(Decoded([b EXCEPT !.magic = "FDT"]).tree)

\* The path a fragment is for, and what it has to say of the nodes from there on.
Destination(base, own) ==
  LET number == {Number(v[2]) : v \in {v \in own : v[1] = target}} \ {0}
  IN  IF number # {} THEN CHOOSE p \in DOMAIN base : <<phandle, Int32(Max(number))>> \in base[p]
      ELSE ItemAt((CHOOSE v \in own : v[1] = target_path)[2], 1)
Joined(p, rest) == IF p = <<SLASH>> /\ rest # <<>> THEN rest ELSE p \o rest
Written(base, plugin, f) ==
  LET root == f \o <<SLASH>> \o overlay
      inside == {p \in DOMAIN plugin : IsPrefix(root, p)}
      At0(to) == [p \in {Joined(to, SubSeq(q, Len(root) + 1, Len(q))) : q \in inside} |->
                   plugin[CHOOSE q \in inside : p = Joined(to, SubSeq(q, Len(root) + 1, Len(q)))]]
  IN  At0(Destination(base, plugin[f]))

\* The fragments of an overlay, and one tree made of several, the last one first.
Fragments(o, plugin) ==
  LET Names(nodes) == [i \in DOMAIN nodes |-> <<SLASH>> \o nodes[i].name]
      Tops(t) == Names(SelectSeq(t, LAMBDA n : n.depth = 1))
  IN  SelectSeq(Tops(Decoded([o EXCEPT !.magic = "FDT"]).tree),
                LAMBDA f : f \o <<SLASH>> \o overlay \in DOMAIN plugin)
Union(layers) ==
  LET Says(i, p, name) == p \in DOMAIN layers[i] /\ \E v \in layers[i][p] : v[1] = name
      names(p) == {v[1] : v \in UNION {layers[i][p] : i \in {i \in DOMAIN layers : p \in DOMAIN layers[i]}}}
      Value0(p, name) == CHOOSE v \in layers[Max({i \in DOMAIN layers : Says(i, p, name)})][p] : v[1] = name
  IN  [p \in UNION {DOMAIN layers[i] : i \in DOMAIN layers} |-> {Value0(p, name) : name \in names(p)}]

(***************************************************************************)
(* The blob is the base with every fragment laid over it: the nodes of     *)
(* both, and of each property the value the last fragment gives it.        *)
(***************************************************************************)
LaidOver(base, o, blob) ==
  LET Layers(b, plugin, fs) == <<b>> \o [i \in DOMAIN fs |-> Written(b, plugin, fs[i])]
      Over(b, plugin) == Union(Layers(b, plugin, Fragments(o, plugin)))
  IN  Paths(blob) = Over(Paths(base), Paths(o))

(***************************************************************************)
(* fdt_overlay_apply is all or nothing as far as the magic tells: when it  *)
(* reports success the whole overlay is in the base, node by node, and     *)
(* when it fails, the base either is as it was or cannot be taken for a    *)
(* tree, whatever fragments had been merged by then.                       *)
(***************************************************************************)
WholeOrErased ==
  stage = "idle" /\ fdt.magic = "FDT" =>
    IF ret = 0 /\ applied # <<>> THEN LaidOver(before, fdto, fdt) ELSE fdt = before

(***************************************************************************)
(* After any number of overlays, what a source wrote as a reference to a   *)
(* node, by label or to a node of its own, is the phandle of that node,    *)
(* the references in the base included.  (Not once an overlay brings a     *)
(* phandle for a node the base has: the merge overwrites the old one.)     *)
(***************************************************************************)
ReferencesResolve ==
  stage = "idle" /\ fdt.magic = "FDT" /\ ToSet(applied) \cap Renumbering = {} =>
    \A r \in References :
      r.from = 0 \/ r.from \in ToSet(applied) =>
        LET v == GetProp(fdt, PathOffset(fdt, r.path), r.prop)
            ph == GetPhandle(fdt, PathOffset(fdt, r.to))
        IN  ph # 0 /\ Number(SubSeq(v, r.at + 1, r.at + 2)) = ph

(***************************************************************************)
(* However many overlays were applied, no two nodes have the same phandle, *)
(* and none has one that stands for no node.                               *)
(***************************************************************************)
PhandlesUnique ==
  stage = "idle" /\ fdt.magic = "FDT" =>
    \A m, n \in {o \in Nodes(fdt) : GetPhandle(fdt, o) # 0} :
      GetPhandle(fdt, m) # MinusOne /\ (GetPhandle(fdt, m) = GetPhandle(fdt, n) => m = n)
=============================================================================
