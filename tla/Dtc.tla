--------------------------------- MODULE Dtc ---------------------------------
(***************************************************************************)
(* The compiler dtc (dtc.c, dtc-parser.y): parses the definitions of a     *)
(* source into a tree, checks it and fills in references, generates the    *)
(* nodes that overlays need and writes a blob.  A second run of dtc may    *)
(* read the blob.                                                          *)
(***************************************************************************)
EXTENDS DtcMain

CONSTANTS
  RootDefs,        \* what the first definition of a source may be
  Items,           \* and the ones behind it: definitions and deletions by reference
  MaxItems,        \* bound: definitions in a source
  ReserveLists,    \* the memory reservations
  Commands,        \* options, with the plugin tag of the source, of the first run
  Rereads          \* and of the run that reads the blob

ASSUME DtcAssumption == MaxItems \in Nat /\ \A o \in Commands \cup Rereads : o.version \in Versions

VARIABLES
  d,               \* what dtc works on (see Checks)
  stage, run,      \* where it is, in the first run or the second
  opts,            \* the options
  blob,            \* what was written
  source,          \* history: the definitions parsed
  written          \* history: the tree and the reserve list that were written

vars == <<d, stage, run, opts, blob, source, written>>

Nothing == [version |-> 0]

\* The live nodes from n on: names, properties with their bytes, and children.
RECURSIVE Shape(_, _)
Shape(t, n) ==
  LET live == SelectSeq(t[n].props, LAMBDA p : ~p.dead)
  IN  [name |-> t[n].name, props |-> [i \in DOMAIN live |-> <<live[i].name, live[i].val.bytes>>],
       kids |-> [i \in DOMAIN LiveKids(t, n) |-> Shape(t, LiveKids(t, n)[i])]]

Init ==
  /\ d = Fresh /\ stage = "parse" /\ run = 1 /\ opts = Nothing /\ blob = Nothing
  /\ source = <<>> /\ written = Nothing

Parsed(t, item) ==
  /\ stage = "parse" /\ Len(source) < MaxItems
  /\ d' = [d EXCEPT !.t = t] /\ source' = Append(source, item)
  /\ UNCHANGED <<run, opts, blob, written>>

\* devicetree: '/' nodedef.
DefineRoot(item) == source = <<>> /\ Parsed(Plant(<<>>, 0, item.def), item) /\ stage' = stage

\* The label before a reference goes to its node.
Labelled(t, n, item) ==
  IF item.label = <<>> THEN t ELSE [t EXCEPT ![n].labels = AddLabel(@, item.label)]

\* devicetree '/' nodedef, and with a label and a reference before the definition.
Define(item) ==
  /\ source # <<>> /\ item.op = "define"
  /\ \E target \in {NodeByRef(d.t, item.ref)} \ {0} :
       Parsed(MergeNodes(Labelled(d.t, target, item), target, item.def), item) /\ stage' = stage

\* devicetree DT_DEL_NODE DT_REF.
Delete(item) ==
  /\ source # <<>> /\ item.op = "delete" /\ stage' = stage
  /\ \E target \in {NodeByRef(d.t, item.ref)} \ {0} : Parsed(DeleteNode(d.t, target), item)

\* A reference to nothing: the source has a syntax error, and dtc stops.
NotFound(item) ==
  /\ source # <<>> /\ NodeByRef(d.t, item.ref) = 0
  /\ Parsed(d.t, item) /\ stage' = "failed"

\* The end of the source, and main up to the checks.
Finish(rsv) ==
  /\ stage = "parse" /\ source # <<>>
  /\ d' = [d EXCEPT !.rsv = rsv, !.cpuid = GuessBootCpuid(d.t), !.t = FillFullpaths(@)]
  /\ stage' = "check" /\ UNCHANGED <<run, opts, blob, source, written>>

\* The options are read first; they matter from here on.
Check(o) ==
  /\ stage = "check" /\ opts' = o
  /\ \E r \in {AfterChecks([d EXCEPT !.plugin = o.plugin /\ run = 1], o)} :
       d' = r.d /\ stage' = IF r.error /\ ~o.force THEN "failed" ELSE "generate"
  /\ UNCHANGED <<run, blob, source, written>>

Generate ==
  /\ stage = "generate" /\ d' = Generated(d, opts)
  /\ stage' = IF d.plugin /\ Colon(d.t) THEN "failed" ELSE "write"
  /\ UNCHANGED <<run, opts, blob, source, written>>

Write ==
  /\ stage = "write" /\ ~Crashes(d.t, opts.version)
  /\ blob' = DtToBlob(d, opts) /\ written' = [tree |-> Shape(d.t, 1), rsv |-> d.rsv] /\ stage' = "written"
  /\ UNCHANGED <<d, run, opts, source>>

\* A version that wants full paths, and a node that was generated without one.
Crash ==
  /\ stage = "write" /\ Crashes(d.t, opts.version)
  /\ stage' = "failed" /\ UNCHANGED <<d, run, opts, blob, source, written>>

\* dtc -I dtb.
Reread ==
  /\ stage = "written" /\ run = 1 /\ run' = 2
  /\ \E r \in {ReadTree(blob)} :
       IF r = Dead THEN d' = Fresh /\ stage' = "unreadable"
       ELSE /\ d' = [Fresh EXCEPT !.t = FillFullpaths(Plant(<<>>, 0, r.node)),
                                  !.rsv = ReadReserve(blob), !.cpuid = blob.boot_cpuid_phys]
            /\ stage' = "check"
  /\ UNCHANGED <<opts, blob, source, written>>

Next ==
  \/ \E item \in RootDefs : DefineRoot(item)
  \/ \E item \in Items : Define(item) \/ Delete(item) \/ NotFound(item)
  \/ \E rsv \in ReserveLists : Finish(rsv)
  \/ \E o \in IF run = 1 THEN Commands ELSE Rereads : Check(o)
  \/ Generate \/ Write \/ Crash \/ Reread

Spec == Init /\ [][Next]_vars
-----------------------------------------------------------------------------
\* What a definition of the node at path p says, piece by piece in its order.
RECURSIVE Says(_, _)
Says(p, def) ==
  [i \in DOMAIN def.labels |-> [kind |-> "label", path |-> p, name |-> def.labels[i].label, val |-> <<>>]]
  \o <<[kind |-> "node", path |-> p, name |-> <<>>, val |-> <<>>]>>
  \o [i \in DOMAIN def.props |->
        [kind |-> IF def.props[i].dead THEN "unset" ELSE "set", path |-> p,
         name |-> def.props[i].name, val |-> def.props[i].val]]
  \o FlattenSeq([i \in DOMAIN def.kids |->
       LET kid == def.kids[i] IN
       IF kid.dead THEN <<[kind |-> "drop", path |-> Append(p, kid.name), name |-> <<>>, val |-> <<>>]>>
       ELSE Says(Append(p, kid.name), kid)])

\* The words that count: those whose node is not dropped later.
Counts(words, i) ==
  words[i].kind # "drop" /\ \A j \in i + 1 .. Len(words) :
    words[j].kind = "drop" => ~IsPrefix(words[j].path, words[i].path)
Lasting(words) == {i \in DOMAIN words : Counts(words, i)}

\* The path a reference stands for in what has been said so far.
PathOfRef(words, ref) ==
  IF ref[1] = SLASH THEN Parts(ref)
  ELSE words[CHOOSE i \in Lasting(words) : words[i].kind = "label" /\ words[i].name = ref].path

SaidBy(items) ==
  LET said[k \in 0 .. Len(items)] ==
        IF k = 0 THEN <<>>
        ELSE LET p == PathOfRef(said[k - 1], items[k].ref)
                 label == IF items[k].label = <<>> THEN <<>>
                          ELSE <<[kind |-> "label", path |-> p, name |-> items[k].label, val |-> <<>>]>>
             IN  said[k - 1] \o
                 IF items[k].op = "delete" THEN <<[kind |-> "drop", path |-> p, name |-> <<>>, val |-> <<>>]>>
                 ELSE label \o Says(p, items[k].def)
  IN  said[Len(items)]

\* Of each path, the labels and the last value of each property that is not unset.
Meaning(items) ==
  LET words == SaidBy(items)
      lasting == Lasting(words)
      about(p) == {i \in lasting : words[i].path = p}
      settled(p) == {i \in about(p) : /\ words[i].kind = "set"
                                      /\ \A j \in about(p) : j > i /\ words[j].name = words[i].name =>
                                                              words[j].kind \notin {"set", "unset"}}
  IN  [p \in {words[i].path : i \in lasting} |->
         [labels |-> {words[i].name : i \in {i \in about(p) : words[i].kind = "label"}},
          props |-> {<<words[i].name, words[i].val>> : i \in settled(p)}]]

InTree(t) ==
  LET nodes == ToSet(Walk(t, 1))
  IN  [p \in {NamesTo(t, n) : n \in nodes} |->
         LET node == t[CHOOSE n \in nodes : NamesTo(t, n) = p]
         IN  [labels |-> {node.labels[i].label : i \in {i \in DOMAIN node.labels : ~node.labels[i].dead}},
              props |-> {<<node.props[i].name, node.props[i].val>> : i \in LiveProps(node)}]]

(***************************************************************************)
(* The tree says what the source says: whatever nodes are defined, deleted *)
(* and defined again, directly or below others, a property has the value   *)
(* last given to it since its node was last deleted, and a reference in    *)
(* the source means the node that has the label by then.                   *)
(***************************************************************************)
SourceMeaning == stage = "parse" /\ source # <<>> => InTree(d.t) = Meaning(source)

PhandleOf(t, n) ==
  LET i == Max({PropAt(t, n, phandle), PropAt(t, n, linux_phandle)})
  IN  IF i = 0 THEN 0 ELSE CellOf(t[n].props[i])

(***************************************************************************)
(* Of what is written, every reference that the checks passed stands for   *)
(* its node, wherever the value around it grew: as a phandle that is in    *)
(* the node and in no other, or as the full path of the node.              *)
(***************************************************************************)
ReferencesFilled ==
  stage = "written" =>
    \A n \in ToSet(Walk(d.t, 1)) :
      /\ IF d.status["phandle_references"] # "PASSED" THEN TRUE ELSE
           \A at \in ToSet(RefsOf(d.t, n, "ref")) :
             LET m == Marker(d.t, n, at)
                 ph == Number(SubSeq(d.t[n].props[at[1]].val.bytes, m.at + 1, m.at + 2))
                 to == NodeByRef(d.t, m.ref)
             IN  IF to = 0 THEN d.plugin /\ ph = MinusOne
                 ELSE {k \in ToSet(Walk(d.t, 1)) : PhandleOf(d.t, k) = ph} = {to}
      /\ IF d.status["path_references"] # "PASSED" THEN TRUE ELSE
           \A at \in ToSet(RefsOf(d.t, n, "path")) :
             LET m == Marker(d.t, n, at)
             IN  IsPrefix(Zeroed(d.t[NodeByRef(d.t, m.ref)].path),
                          SubSeq(d.t[n].props[at[1]].val.bytes, m.at + 1, Len(d.t[n].props[at[1]].val.bytes)))

\* The references of the tree that the fixups must name, by where they are.
Owed(t, resolved) ==
  UNION {{[at |-> NamesTo(t, n), prop |-> t[n].props[r[1]].name, offset |-> Marker(t, n, r).at,
           label |-> IF resolved THEN <<>> ELSE Marker(t, n, r).ref] :
            r \in {r \in ToSet(RefsOf(t, n, "ref")) : (NodeByRef(t, Marker(t, n, r).ref) # 0) = resolved}} :
         n \in ToSet(Walk(t, 1))}

\* What libfdt reads out of /__fixups__ and /__local_fixups__ in the blob.
FixupsIn(b) ==
  LET Strings(label, v) == {<<label, ItemAt(v, i)>> : i \in Starts(v)}
      Of(q) == Strings(StringAt(b, At(b, q).x), Value(b, q))
      Place(s) == CHOOSE i \in DOMAIN s : s[i] = COLON
      Rest(s) == SubSeq(s, Place(s) + 1, Len(s))
      Entry(x) == [at |-> Parts(SubSeq(x[2], 1, Place(x[2]) - 1)),
                   prop |-> SubSeq(Rest(x[2]), 1, Place(Rest(x[2])) - 1),
                   offset |-> CHOOSE k \in DOMAIN Decimal : Decimal[k] = Last(x[2]), label |-> x[1]]
      In(fn) == IF fn < 0 THEN {} ELSE {Entry(x) : x \in UNION {Of(q) : q \in Properties(b, fn)}}
  IN  In(PathOffset(b, <<SLASH>> \o Lit["__fixups__"]))
LocalFixupsIn(b) ==
  LET Inside(lfn) == {o \in Nodes(b) : o >= lfn /\ o < NodeEnd(b, lfn)}
      Entries(names, prop, v) ==
        {[at |-> names, prop |-> prop, offset |-> Number(SubSeq(v, 2 * k - 1, 2 * k)), label |-> <<>>] :
           k \in 1 .. Len(v) \div 2}
      Of(o, q) == Entries(Tail(Parts(GetPath(b, o, b.totalsize).path)), StringAt(b, At(b, q).x), Value(b, q))
      In(lfn) == IF lfn < 0 THEN {}
                 ELSE UNION {UNION {Of(o, q) : q \in Properties(b, o)} : o \in Inside(lfn)}
  IN  In(PathOffset(b, <<SLASH>> \o Lit["__local_fixups__"]))

(***************************************************************************)
(* What libfdt will find in a plugin as fixups are exactly the references  *)
(* in it, the open ones with their labels and the ones to nodes of its     *)
(* own, each at the offset it has in the value that was written.           *)
(***************************************************************************)
FixupsExact ==
  stage = "written" /\ d.plugin =>
    FixupsIn(blob) = Owed(d.t, FALSE) /\ LocalFixupsIn(blob) = Owed(d.t, TRUE)

\* The blob as libfdt walks it.
LibfdtShape(b) ==
  LET order == InOrder(Nodes(b))
      Pairs(qs) == [i \in DOMAIN qs |-> <<StringAt(b, At(b, qs[i]).x), Value(b, qs[i])>>]
  IN  [k \in DOMAIN order |->
         [depth |-> Depth(b, 0, order[k]), name |-> GetName(b, order[k]),
          props |-> Pairs(InOrder(Properties(b, order[k])))]]
RECURSIVE Listed0(_, _)
Listed0(shape, depth) ==
  <<[depth |-> depth, name |-> shape.name, props |-> shape.props]>>
  \o FlattenSeq([i \in DOMAIN shape.kids |-> Listed0(shape.kids[i], depth + 1)])

(***************************************************************************)
(* Nothing is lost on the way through a blob of any version: libfdt walks  *)
(* through the very tree dtc had, and dtc reads the tree and the reserved   *)
(* memory that were written, once its checks have dropped the names that   *)
(* the old versions repeat.                                                *)
(***************************************************************************)
RoundTrip ==
  /\ stage # "unreadable"
  /\ stage = "written" /\ opts.version >= 16 => LibfdtShape(blob) = Listed0(written.tree, 0)
  /\ run = 2 /\ stage = "check" => d.rsv = written.rsv
  /\ run = 2 /\ stage = "generate" /\ d.status["name_properties"] = "PASSED" =>
       Shape(d.t, 1) = written.tree
=============================================================================
