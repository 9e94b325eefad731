------------------------------- MODULE LiveTree -------------------------------
(***************************************************************************)
(* The tree dtc keeps while it compiles (livetree.c, data.c, and the       *)
(* actions of dtc-parser.y).                                               *)
(*                                                                         *)
(* A tree is the sequence of its node structures; the root is the first    *)
(* and a pointer to a node is its number, 0 for NULL.  A node, a property  *)
(* or a label that is deleted stays in its list with a mark.  The source   *)
(* of a node is a nested record, a definition of the grammar.  A cell is   *)
(* two bytes, as in FdtRo, and Lit gives the literals of the code.         *)
(***************************************************************************)
EXTENDS FdtRo, SequencesExt

CONSTANTS
  Lit,                \* the names in the code, as characters
  COLON, Decimal      \* ':', and the numerals of the offsets that occur

\* The first place in seq where Test holds, or 0.
First(seq, Test(_)) == Lowest({i \in DOMAIN seq : Test(seq[i])}, 0)
Nth(seq, i) == IF i = 0 THEN 0 ELSE seq[i]
\* The first of a sequence of nodes where Test holds, or 0.
Found(seq, Test(_)) == Nth(seq, First(seq, Test))
-----------------------------------------------------------------------------
\* data.c: bytes with markers.
EmptyData == [bytes |-> <<>>, marks |-> <<>>]
Shifted(marks, by) == [i \in DOMAIN marks |-> [marks[i] EXCEPT !.at = @ + by]]
AppendData(d, bytes) == [d EXCEPT !.bytes = @ \o bytes]
AddMarker(d, type, ref) ==
  [d EXCEPT !.marks = Append(@, [type |-> type, at |-> Len(d.bytes), ref |-> ref])]
DataMerge(d1, d2) ==
  [bytes |-> d1.bytes \o d2.bytes, marks |-> d1.marks \o Shifted(d2.marks, Len(d1.bytes))]

\* mutant: the markers behind the one that is filled in keep their offsets.
InsertUnshifted(d, j, bytes) ==
  [d EXCEPT !.bytes = SubSeq(@, 1, d.marks[j].at) \o bytes \o SubSeq(@, d.marks[j].at + 1, Len(@))]

\* data_insert_at_marker.
InsertAtMarker(d, j, bytes) ==
  [bytes |-> SubSeq(d.bytes, 1, d.marks[j].at) \o bytes \o SubSeq(d.bytes, d.marks[j].at + 1, Len(d.bytes)),
   marks |-> SubSeq(d.marks, 1, j) \o Shifted(SubSeq(d.marks, j + 1, Len(d.marks)), Len(bytes))]

OneString(v) == v # <<>> /\ \A i \in DOMAIN v : (v[i] = 0) = (i = Len(v))

\* propdata: a reference in an array has a marker and a cell of ones, one outside
\* only a marker.
PropData(pieces) ==
  FoldLeft(LAMBDA d, p :
             CASE p[1] = "bytes" -> DataMerge(d, AppendData(EmptyData, p[2]))
               [] p[1] = "ref" -> DataMerge(d, AppendData(AddMarker(EmptyData, "ref", p[2]), Int32(MinusOne)))
               [] OTHER -> AddMarker(d, p[1], p[2]),
           EmptyData, pieces)
-----------------------------------------------------------------------------
Label(l) == [label |-> l, dead |-> FALSE]

\* add_label: a label that was deleted comes back where it was.
AddLabel(labels, l) ==
  LET i == First(labels, LAMBDA x : x.label = l)
  IN  IF i # 0 THEN [labels EXCEPT ![i].dead = FALSE] ELSE <<Label(l)>> \o labels
AddLabels(labels, more) == FoldLeft(LAMBDA s, x : AddLabel(s, x.label), labels, more)
DeleteLabels(labels) == [i \in DOMAIN labels |-> [labels[i] EXCEPT !.dead = TRUE]]

Property(n, data) == [name |-> n, val |-> data, labels |-> <<>>, dead |-> FALSE]
DeleteProperty(p) == [p EXCEPT !.dead = TRUE, !.labels = DeleteLabels(@)]

\* build_node and name_node of one definition; its subnodes are planted below it.
BuildNode(def, up) ==
  [name |-> def.name, up |-> up, kids |-> <<>>, props |-> def.props, labels |-> def.labels,
   dead |-> def.dead, phandle |-> 0, path |-> <<>>, basenamelen |-> 0,
   addr_cells |-> -1, size_cells |-> -1]

AddChild(t, up, node) == Append([t EXCEPT ![up].kids = Append(@, Len(t) + 1)], node)

RECURSIVE Plant(_, _, _)
Plant(t, up, def) ==
  LET t1 == IF up = 0 THEN Append(t, BuildNode(def, 0)) ELSE AddChild(t, up, BuildNode(def, up))
  IN  FoldLeft(LAMBDA s, kid : Plant(s, Len(t) + 1, kid), t1, def.kids)

LiveKids(t, n) == SelectSeq(t[n].kids, LAMBDA k : ~t[k].dead)
\* The nodes from n on, as a recursive walk with for_each_child meets them.
RECURSIVE Walk(_, _)
Walk(t, n) == FoldLeft(LAMBDA seq, k : seq \o Walk(t, k), <<n>>, LiveKids(t, n))

\* mutant: only the node is marked, not what is below and in it.
DeleteNodeAlone(t, n) == [t EXCEPT ![n].dead = TRUE, ![n].labels = DeleteLabels(@)]

\* delete_node.
DeleteNode(t, n) ==
  LET gone == ToSet(Walk(t, n))
  IN  [k \in DOMAIN t |->
         IF k \notin gone THEN t[k]
         ELSE [t[k] EXCEPT !.dead = TRUE, !.labels = DeleteLabels(@),
                           !.props = [i \in DOMAIN @ |-> IF @[i].dead THEN @[i] ELSE DeleteProperty(@[i])]]]

\* Deleting by name, and finding what a definition collides with, take the first
\* of the name, deleted or not.
PropNamed(node, n) == First(node.props, LAMBDA p : p.name = n)
ChildNamed(t, n, c) == Found(t[n].kids, LAMBDA k : t[k].name = c)

MergeProperty(node, p) ==
  LET i == PropNamed(node, p.name)
  IN  IF p.dead
      THEN IF i = 0 THEN node ELSE [node EXCEPT !.props[i] = DeleteProperty(@)]
      ELSE IF i = 0 THEN [node EXCEPT !.props = Append(@, p)]
      ELSE [node EXCEPT !.props[i] = [@ EXCEPT !.labels = AddLabels(@, p.labels), !.val = p.val,
                                               !.dead = FALSE]]

RECURSIVE MergeNodes(_, _, _)
MergeNodes(t, n, def) ==
  LET t1 == [t EXCEPT ![n] = FoldLeft(MergeProperty,
                  [t[n] EXCEPT !.dead = FALSE, !.labels = AddLabels(@, def.labels)], def.props)]
      Child(s, kid) ==
        LET old == ChildNamed(s, n, kid.name)
        IN  IF kid.dead THEN IF old = 0 THEN s ELSE DeleteNode(s, old)
            ELSE IF old # 0 THEN MergeNodes(s, old, kid) ELSE Plant(s, n, kid)
  IN  FoldLeft(Child, t1, def.kids)

AddProperty(t, n, p) == [t EXCEPT ![n].props = Append(@, p)]

\* get_property: the place of the live property, or 0.
PropAt(t, n, name) == First(t[n].props, LAMBDA p : ~p.dead /\ p.name = name)

\* mutant: what is appended takes the place of what was there.
AppendOver(t, n, name, bytes) ==
  LET i == PropAt(t, n, name)
  IN  IF i # 0 THEN [t EXCEPT ![n].props[i].val = AppendData(EmptyData, bytes)]
      ELSE AddProperty(t, n, Property(name, AppendData(EmptyData, bytes)))

AppendToProperty(t, n, name, bytes) ==
  LET i == PropAt(t, n, name)
  IN  IF i # 0 THEN [t EXCEPT ![n].props[i].val = AppendData(@, bytes)]
      ELSE AddProperty(t, n, Property(name, AppendData(EmptyData, bytes)))
-----------------------------------------------------------------------------
UnitName(node) == SubSeq(node.name, node.basenamelen + 2, Len(node.name))
CellOf(p) == Number(p.val.bytes)              \* propval_cell, which asserts the length

HasLabel(labels, l) == \E i \in DOMAIN labels : ~labels[i].dead /\ labels[i].label = l

GetSubnode(t, n, name) == Found(LiveKids(t, n), LAMBDA k : t[k].name = name)

\* get_node_by_path: a component in the middle only has to begin the name of the child.
RECURSIVE NodeByPath(_, _, _)
NodeByPath(t, n, path) ==
  LET Below(child, rest) == IF child = 0 THEN 0 ELSE NodeByPath(t, child, rest)
      Enter(rest, p) ==
        IF p = 0 THEN GetSubnode(t, n, rest)
        ELSE Below(Found(LiveKids(t, n), LAMBDA k : IsPrefix(SubSeq(rest, 1, p - 1), t[k].name)),
                   SubSeq(rest, p + 1, Len(rest)))
      Split(rest) == Enter(rest, First(rest, LAMBDA ch : ch = SLASH))
      From(i) == IF i = 0 THEN <<>> ELSE SubSeq(path, i, Len(path))
  IN  IF path = <<>> THEN IF t[n].dead THEN 0 ELSE n
      ELSE Split(From(First(path, LAMBDA ch : ch # SLASH)))

Alive(t, n) == IF n # 0 /\ t[n].dead THEN 0 ELSE n
NodeByLabel(t, l) == Found(Walk(t, 1), LAMBDA n : HasLabel(t[n].labels, l))
NodeByPhandle(t, ph) == Alive(t, Found(Walk(t, 1), LAMBDA k : t[k].phandle = ph))

NodeByRef(t, ref) ==
  IF ref = <<SLASH>> THEN 1
  ELSE IF ref[1] = SLASH THEN NodeByPath(t, 1, ref) ELSE NodeByLabel(t, ref)

\* get_node_phandle, with its static counter: a phandle for node n if it has none.
NodePhandle(d, n) ==
  LET Give(t, name, wanted, ph) ==
        IF wanted /\ PropAt(t, n, name) = 0
        THEN AddProperty(t, n, Property(name, AppendData(EmptyData, Int32(ph)))) ELSE t
      Assign(ph) ==
        [d EXCEPT !.counter = ph,
                  !.t = Give(Give([@ EXCEPT ![n].phandle = ph], linux_phandle, "legacy" \in d.format, ph),
                             phandle, "epapr" \in d.format, ph)]
  IN  IF d.t[n].phandle \notin {0, MinusOne} THEN d
      ELSE Assign(Min({p \in d.counter .. d.counter + Len(d.t) : NodeByPhandle(d.t, p) = 0}))

\* fill_fullpaths (dtc.c): a node's path is made of its parent's, which comes first.
FillFullpaths(t) ==
  LET at(n) == First(t[n].name, LAMBDA ch : ch \in AtChars)
      below(path) == IF Last(path) = SLASH THEN path ELSE Append(path, SLASH)
      Fill(s, n) ==
        [s EXCEPT ![n].path = IF n = 1 THEN <<SLASH>> ELSE below(s[t[n].up].path) \o t[n].name,
                  ![n].basenamelen = IF at(n) = 0 THEN Len(t[n].name) ELSE at(n) - 1]
  IN  FoldLeft(Fill, t, Walk(t, 1))
-----------------------------------------------------------------------------
\* The live references of node n, as places of a property and of a marker in it.
RefsOf(t, n, type) ==
  LET In(p) == InOrder({j \in DOMAIN p.val.marks : p.val.marks[j].type = type})
      Pairs(i, marks) == [k \in DOMAIN marks |-> <<i, marks[k]>>]
  IN  FlattenSeq([i \in DOMAIN t[n].props |->
        IF t[n].props[i].dead THEN <<>> ELSE Pairs(i, In(t[n].props[i]))])
Marker(t, n, at) == t[n].props[at[1]].val.marks[at[2]]

\* f(t, n, at) for every reference of every node, as the walks of the tree meet them.
EachRef(t, type, f(_, _, _)) ==
  FoldLeft(LAMBDA s, n : FoldLeft(LAMBDA r, at : f(r, n, at), s, RefsOf(s, n, type)), t, Walk(t, 1))
Refers(t, type, Test(_)) ==
  \E n \in ToSet(Walk(t, 1)) : \E at \in ToSet(RefsOf(t, n, type)) : Test(Marker(t, n, at).ref)

\* The child of n of that name, made if there is none.
WithSubnode(t, n, name) ==
  IF GetSubnode(t, n, name) # 0 THEN t
  ELSE AddChild(t, n, BuildNode([name |-> name, props |-> <<>>, labels |-> <<>>, dead |-> FALSE], n))

Zeroed(s) == Append(s, 0)

\* generate_label_tree: in node an, label = path for each label of n that is not there yet.
InsertLabel(t, an, n, l) ==
  IF l.dead \/ PropAt(t, an, l.label) # 0 THEN t
  ELSE AddProperty(t, an, Property(l.label, AppendData(EmptyData, Zeroed(t[n].path))))

\* And a phandle for a node with labels if allocph.
LabelNode(d, an, n, allocph) ==
  LET e == [d EXCEPT !.t = FoldLeft(LAMBDA t, l : InsertLabel(t, an, n, l), @, @[n].labels)]
  IN  IF d.t[n].labels # <<>> /\ allocph THEN NodePhandle(e, n) ELSE e

GenerateLabelTree(d, name, allocph) ==
  LET Fill(e, an) == FoldLeft(LAMBDA f, n : LabelNode(f, an, n, allocph), e, Walk(e.t, 1))
      In(e) == Fill(e, GetSubnode(e.t, 1, name))
  IN  IF \A n \in ToSet(Walk(d.t, 1)) : d.t[n].labels = <<>> THEN d
      ELSE In([d EXCEPT !.t = WithSubnode(@, 1, name)])

\* add_fixup_entry: path:property:offset, in the property named like the label.
FixupEntry(t, n, at) ==
  Zeroed(t[n].path \o <<COLON>> \o t[n].props[at[1]].name \o <<COLON, Decimal[Marker(t, n, at).at]>>)

GenerateFixups(t, name) ==
  LET Entry(s, n, at, ref, fn) ==
        IF NodeByRef(s, ref) # 0 THEN s ELSE AppendToProperty(s, fn, ref, FixupEntry(s, n, at))
      Fill(t1, fn) == EachRef(t1, "ref", LAMBDA s, n, at : Entry(s, n, at, Marker(s, n, at).ref, fn))
      In(t1) == Fill(t1, GetSubnode(t1, 1, name))
  IN  IF Refers(t, "ref", LAMBDA r : NodeByRef(t, r) = 0) THEN In(WithSubnode(t, 1, name)) ELSE t

\* The names on the way from the root to n.
RECURSIVE NamesTo(_, _)
NamesTo(t, n) == IF t[n].up = 0 THEN <<>> ELSE Append(NamesTo(t, t[n].up), t[n].name)

\* add_local_fixup_entry: the offset, in a node that mirrors the one of the reference.
GenerateLocalFixups(t, name) ==
  LET Into(s, n, c) == [t |-> s, n |-> GetSubnode(s, n, c)]
      Step(w, c) == Into(WithSubnode(w.t, w.n, c), w.n, c)
      Put(w, prop, at) == AppendToProperty(w.t, w.n, prop, Int32(at))
      Entry(s, n, at) ==
        IF NodeByRef(s, Marker(s, n, at).ref) = 0 THEN s
        ELSE Put(FoldLeft(Step, Into(s, 1, name), NamesTo(s, n)),
                 s[n].props[at[1]].name, Marker(s, n, at).at)
  IN  IF Refers(t, "ref", LAMBDA r : NodeByRef(t, r) # 0)
      THEN EachRef(WithSubnode(t, 1, name), "ref", Entry) ELSE t

\* sort_tree, by strcmp; deleted properties and nodes are sorted with the others.
Less(a, b) ==
  \/ Len(a) < Len(b) /\ IsPrefix(a, b)
  \/ \E i \in DOMAIN a \cap DOMAIN b : a[i] < b[i] /\ \A j \in 1 .. i - 1 : a[j] = b[j]
SortNodes(t) ==
  [n \in DOMAIN t |->
     [t[n] EXCEPT !.props = SortSeq(@, LAMBDA p, q : Less(p.name, q.name)),
                  !.kids = SortSeq(@, LAMBDA k, c : Less(t[k].name, t[c].name))]]
SortReserve(list) == SortSeq(list, LAMBDA a, b : Less(<<a.address, a.size>>, <<b.address, b.size>>))

\* guess_boot_cpuid: reg of the first child of /cpus, which may be a deleted one.
GuessBootCpuid(t) ==
  LET Reg(cpu, i) == IF i = 0 \/ Len(t[cpu].props[i].val.bytes) # 2 THEN 0 ELSE CellOf(t[cpu].props[i])
      First1(kids) == IF kids = <<>> THEN 0 ELSE Reg(kids[1], PropAt(t, kids[1], Lit["reg"]))
      Below(cpus) == IF cpus = 0 THEN 0 ELSE First1(t[cpus].kids)
  IN  Below(NodeByPath(t, 1, <<SLASH>> \o Lit["cpus"]))
=============================================================================
