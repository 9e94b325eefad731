-------------------------------- MODULE Checks --------------------------------
(***************************************************************************)
(* The checks dtc runs over the tree (checks.c).  Some only look for       *)
(* mistakes; others give nodes their phandles, fill in references and      *)
(* remove redundant properties.  Each runs at most once, after those it    *)
(* depends on.                                                             *)
(*                                                                         *)
(* d is what one run of dtc works on: the tree t, the reserve list, the    *)
(* plugin flag, the boot CPU, the counter of get_node_phandle, the phandle *)
(* format, and for every check its status and its levels warn and error.   *)
(***************************************************************************)
EXTENDS LiveTree

CONSTANTS
  HASH, COMMA,             \* '#' and ','
  NameChars, StrictChars   \* PROPNODECHARS and PROPNODECHARSSTRICT

Prereqs(c) ==
  CASE c = "node_name_format" -> <<"node_name_chars">>
    [] c = "name_properties" -> <<"name_is_string">>
    [] c = "phandle_references" -> <<"duplicate_node_names", "explicit_phandles">>
    [] c = "path_references" -> <<"duplicate_node_names">>
    [] c = "addr_size_cells" -> <<"address_cells_is_cell", "size_cells_is_cell">>
    [] c \in {"reg_format", "ranges_format", "avoid_default_addr_size"} -> <<"addr_size_cells">>
    [] OTHER -> <<>>

CheckTable ==
  <<"duplicate_node_names", "duplicate_property_names", "node_name_chars", "node_name_format",
    "property_name_chars", "name_is_string", "name_properties", "duplicate_label",
    "explicit_phandles", "phandle_references", "path_references", "address_cells_is_cell",
    "size_cells_is_cell", "interrupt_cells_is_cell", "device_type_is_string", "model_is_string",
    "status_is_string", "property_name_chars_strict", "node_name_chars_strict", "addr_size_cells",
    "reg_format", "ranges_format", "unit_address_vs_reg", "avoid_default_addr_size",
    "obsolete_chosen_interrupt_controller", "always_fail">>
AllChecks == ToSet(CheckTable)

ErrorByDefault ==
  {"duplicate_node_names", "duplicate_property_names", "node_name_chars", "node_name_format",
   "property_name_chars", "name_is_string", "name_properties", "duplicate_label",
   "explicit_phandles", "phandle_references", "path_references"}
Silent == {"property_name_chars_strict", "node_name_chars_strict", "always_fail"}

\* The property that a check of a type is about.
About(c) ==
  CASE c = "name_is_string" -> Lit["name"]
    [] c = "device_type_is_string" -> Lit["device_type"]
    [] c = "model_is_string" -> Lit["model"]
    [] c = "status_is_string" -> Lit["status"]
    [] c = "address_cells_is_cell" -> Lit["#address-cells"]
    [] c = "size_cells_is_cell" -> Lit["#size-cells"]
    [] c = "interrupt_cells_is_cell" -> Lit["#interrupt-cells"]
-----------------------------------------------------------------------------
\* The first character that is not one of chars, counted from 0 as strspn does.
Span(s, chars) == Lowest({i \in DOMAIN s : s[i] \notin chars}, Len(s) + 1) - 1

LiveProps(node) == {i \in DOMAIN node.props : ~node.props[i].dead}
Bytes0(t, n, i) == t[n].props[i].val.bytes

DuplicateNodeNames(t, n) ==
  \E i, j \in DOMAIN t[n].kids :
    i < j /\ ~t[t[n].kids[i]].dead /\ t[t[n].kids[i]].name = t[t[n].kids[j]].name

DuplicatePropertyNames(t, n) ==
  \E i, j \in LiveProps(t[n]) : i < j /\ t[n].props[i].name = t[n].props[j].name

\* '#' may begin a name, or what follows a vendor prefix.
LaxPropertyName(name) ==
  LET at == Span(name, StrictChars)
      hash == at < Len(name) /\ name[at + 1] = HASH /\ (at = 0 \/ name[at] = COMMA)
      rest == IF hash THEN SubSeq(name, at + 2, Len(name)) ELSE name
  IN  name # Lit["device_type"] /\ Span(rest, StrictChars) < Len(rest)

UnitAddressVsReg(t, n) ==
  LET ranges == PropAt(t, n, Lit["ranges"])
      prop == PropAt(t, n, Lit["reg"]) # 0 \/ (ranges # 0 /\ Bytes0(t, n, ranges) # <<>>)
  IN  prop # (UnitName(t[n]) # <<>>)

\* Every label of the tree with its place, in the order the three searches find it.
LabelPlaces(t) ==
  LET OfNode(n) == [i \in DOMAIN t[n].labels |-> <<t[n].labels[i].label, t[n].labels[i].dead, <<n, 0, 0>>>>]
      Props(n, Of(_, _, _)) == FlattenSeq([i \in DOMAIN t[n].props |->
                                  IF t[n].props[i].dead THEN <<>> ELSE Of(n, i, t[n].props[i])])
      OfProp(n, i, p) == [l \in DOMAIN p.labels |-> <<p.labels[l].label, p.labels[l].dead, <<n, i, 0>>>>]
      OfMark(n, i, p) == [m \in DOMAIN p.val.marks |->
                            <<p.val.marks[m].ref, p.val.marks[m].type # "label", <<n, i, m>>>>]
      Each(walk, Of(_)) == FlattenSeq([k \in DOMAIN walk |-> Of(walk[k])])
      All(walk) == Each(walk, OfNode) \o Each(walk, LAMBDA n : Props(n, OfProp))
                   \o Each(walk, LAMBDA n : Props(n, OfMark))
  IN  SelectSeq(All(Walk(t, 1)), LAMBDA x : ~x[2])
DuplicateLabel(t, n) ==
  LET Twice(all) == \E i, j \in DOMAIN all : i < j /\ all[j][3][1] = n /\ all[i][1] = all[j][1]
  IN  Twice(LabelPlaces(t))

\* check_phandle_prop: the value, 0 for none, and whether it is at fault.
PhandleProp(t, n, name) ==
  LET none == [value |-> 0, bad |-> FALSE]
      fault == [value |-> 0, bad |-> TRUE]
      Read(v, j) ==
        IF Len(v.bytes) # 2 THEN fault
        ELSE IF j # 0 THEN IF NodeByRef(t, v.marks[j].ref) # n THEN fault ELSE none
        ELSE IF Number(v.bytes) \in {0, MinusOne} THEN fault
        ELSE [value |-> Number(v.bytes), bad |-> FALSE]
      Value0(v) == Read(v, First(v.marks, LAMBDA m : m.type = "ref"))
      At0(i) == IF i = 0 THEN none ELSE Value0(t[n].props[i].val)
  IN  At0(PropAt(t, n, name))

AddrCells(node) == IF node.addr_cells = -1 THEN 2 ELSE node.addr_cells
SizeCells(node) == IF node.size_cells = -1 THEN 1 ELSE node.size_cells

RegFormat(t, n) ==
  LET i == PropAt(t, n, Lit["reg"])
      entrylen == 2 * (AddrCells(t[t[n].up]) + SizeCells(t[t[n].up]))
  IN  /\ i # 0
      /\ \/ t[n].up = 0
         \/ Bytes0(t, n, i) = <<>>
         \/ entrylen = 0 \/ Len(Bytes0(t, n, i)) % entrylen # 0

\* The code divides by entrylen without looking whether it is 0.
RangesFormat(t, n) ==
  LET i == PropAt(t, n, Lit["ranges"])
      up == t[t[n].up]
      entrylen == 2 * (AddrCells(up) + AddrCells(t[n]) + SizeCells(t[n]))
  IN  /\ i # 0
      /\ \/ t[n].up = 0
         \/ Bytes0(t, n, i) = <<>> /\ (AddrCells(up) # AddrCells(t[n]) \/ SizeCells(up) # SizeCells(t[n]))
         \/ Bytes0(t, n, i) # <<>> /\ Len(Bytes0(t, n, i)) % entrylen # 0

AvoidDefault(t, n) ==
  /\ t[n].up # 0
  /\ PropAt(t, n, Lit["reg"]) # 0 \/ PropAt(t, n, Lit["ranges"]) # 0
  /\ -1 \in {t[t[n].up].addr_cells, t[t[n].up].size_cells}

ObsoleteChosen(t, n) ==
  LET Has(chosen) == chosen # 0 /\ PropAt(t, chosen, Lit["interrupt-controller"]) # 0
  IN  n = 1 /\ Has(NodeByPath(t, 1, <<SLASH>> \o Lit["chosen"]))

\* Whether a check that only looks finds fault with node n.
Faulty(t, c, n) ==
  CASE c \in {"name_is_string", "device_type_is_string", "model_is_string", "status_is_string"} ->
         LET i == PropAt(t, n, About(c)) IN i # 0 /\ ~OneString(Bytes0(t, n, i))
    [] c \in {"address_cells_is_cell", "size_cells_is_cell", "interrupt_cells_is_cell"} ->
         LET i == PropAt(t, n, About(c)) IN i # 0 /\ Len(Bytes0(t, n, i)) # 2
    [] c = "duplicate_node_names" -> DuplicateNodeNames(t, n)
    [] c = "duplicate_property_names" -> DuplicatePropertyNames(t, n)
    [] c = "node_name_chars" -> Span(t[n].name, NameChars \cup AtChars) < Len(t[n].name)
    [] c = "node_name_chars_strict" -> Span(t[n].name, StrictChars) < t[n].basenamelen
    [] c = "node_name_format" -> ToSet(UnitName(t[n])) \cap AtChars # {}
    [] c = "property_name_chars" ->
         \E i \in LiveProps(t[n]) : Span(t[n].props[i].name, NameChars) < Len(t[n].props[i].name)
    [] c = "property_name_chars_strict" -> \E i \in LiveProps(t[n]) : LaxPropertyName(t[n].props[i].name)
    [] c = "unit_address_vs_reg" -> UnitAddressVsReg(t, n)
    [] c = "duplicate_label" -> DuplicateLabel(t, n)
    [] c = "reg_format" -> RegFormat(t, n)
    [] c = "ranges_format" -> RangesFormat(t, n)
    [] c = "avoid_default_addr_size" -> AvoidDefault(t, n)
    [] c = "obsolete_chosen_interrupt_controller" -> ObsoleteChosen(t, n)
    [] c = "always_fail" -> TRUE
-----------------------------------------------------------------------------
Flag(d, c, fault) == IF fault THEN [d EXCEPT !.status[c] = "FAILED"] ELSE d

\* mutant: two nodes may claim the same phandle.
ExplicitUnchecked(d, c, n) ==
  LET Take(own) == IF own.value = 0 THEN Flag(d, c, own.bad) ELSE [d EXCEPT !.t[n].phandle = own.value]
  IN  Take(PhandleProp(d.t, n, phandle))

\* check_explicit_phandles.
ExplicitPhandles(d, c, n) ==
  LET Claim(e, ph, other) ==
        IF ph = 0 THEN e
        ELSE IF other \notin {0, n} THEN Flag(e, c, TRUE) ELSE [e EXCEPT !.t[n].phandle = ph]
      Value0(own, old) == IF own.value # 0 THEN own.value ELSE old.value
      Mismatch(own, old) == own.value # 0 /\ old.value # 0 /\ own.value # old.value
      Take(own, old) ==
        Claim(Flag(d, c, own.bad \/ old.bad \/ Mismatch(own, old)),
              Value0(own, old), NodeByPhandle(d.t, Value0(own, old)))
  IN  Take(PhandleProp(d.t, n, phandle), PhandleProp(d.t, n, linux_phandle))

\* check_name_properties; the first property of the name, deleted or not.
NameProperties(d, c, n) ==
  LET node == d.t[n]
      i == PropNamed(node, Lit["name"])
      v == node.props[i].val.bytes
      good == Len(v) = node.basenamelen + 1 /\ SubSeq(v, 1, node.basenamelen) = SubSeq(node.name, 1, node.basenamelen)
  IN  IF i = 0 THEN d
      ELSE IF ~good THEN Flag(d, c, TRUE)
      ELSE [d EXCEPT !.t[n].props = RemoveAt(@, i)]

PutAt(d, n, at, v) ==
  LET m == Marker(d.t, n, at).at
  IN  [d EXCEPT !.t[n].props[at[1]].val.bytes = SubSeq(@, 1, m) \o v \o SubSeq(@, m + 3, Len(@))]

\* fixup_phandle_references; what a plugin does not define stays all ones.
PhandleReference(d, c, n, at) ==
  LET Fill(e, refnode) == PutAt(e, n, at, Int32(e.t[refnode].phandle))
      To(refnode) ==
        IF refnode = 0
        THEN IF d.plugin THEN PutAt(d, n, at, Int32(MinusOne)) ELSE Flag(d, c, TRUE)
        ELSE Fill(NodePhandle(d, refnode), refnode)
  IN  To(NodeByRef(d.t, Marker(d.t, n, at).ref))

\* fixup_path_references.
PathReference(d, c, n, at) ==
  LET To(refnode) ==
        IF refnode = 0 THEN Flag(d, c, TRUE)
        ELSE [d EXCEPT !.t[n].props[at[1]].val = InsertAtMarker(@, at[2], Zeroed(d.t[refnode].path))]
  IN  To(NodeByRef(d.t, Marker(d.t, n, at).ref))

\* fixup_addr_size_cells.
AddrSizeCells(d, n) ==
  LET Of(name) == LET i == PropAt(d.t, n, name) IN IF i = 0 THEN -1 ELSE CellOf(d.t[n].props[i])
  IN  [d EXCEPT !.t[n].addr_cells = Of(Lit["#address-cells"]),
                !.t[n].size_cells = Of(Lit["#size-cells"])]

\* What check c does at node n.
Visit(d, c, n) ==
  CASE c = "explicit_phandles" -> ExplicitPhandles(d, c, n)
    [] c = "name_properties" -> NameProperties(d, c, n)
    [] c = "phandle_references" ->
         FoldLeft(LAMBDA e, at : PhandleReference(e, c, n, at), d, RefsOf(d.t, n, "ref"))
    [] c = "path_references" ->
         FoldLeft(LAMBDA e, at : PathReference(e, c, n, at), d, RefsOf(d.t, n, "path"))
    [] c = "addr_size_cells" -> AddrSizeCells(d, n)
    [] OTHER -> Flag(d, c, Faulty(d.t, c, n))

\* Of a check that has run, or has a failed prerequisite, the status is final.
Conclude(r, c) == [r EXCEPT !.error = @ \/ (r.d.status[c] # "PASSED" /\ c \in r.d.error)]

(***************************************************************************)
(* run_check.  Once a prerequisite reports an error the ones behind it are *)
(* not run, but their status is looked at all the same.                    *)
(***************************************************************************)
RECURSIVE RunCheck(_, _)
RunCheck(d, c) ==
  LET Judge(s, p) == IF s.d.status[p] = "PASSED" THEN s ELSE [s EXCEPT !.d.status[c] = "PREREQ"]
      Need(r, p) == Judge(IF r.error THEN r ELSE RunCheck(r.d, p), p)
      Passed(e) == IF e.status[c] = "UNCHECKED" THEN [e EXCEPT !.status[c] = "PASSED"] ELSE e
      Run(e) == Passed(FoldLeft(LAMBDA f, n : Visit(f, c, n), e, Walk(e.t, 1)))
      Ready(r) == IF r.d.status[c] # "UNCHECKED" THEN r ELSE [r EXCEPT !.d = Run(@)]
  IN  IF d.status[c] # "UNCHECKED" THEN Conclude([d |-> d, error |-> FALSE], c)
      ELSE Conclude(Ready(FoldLeft(Need, [d |-> d, error |-> FALSE], Prereqs(c))), c)

\* process_checks, but for the exit: nothing is run behind the first error.
ProcessChecks(d) ==
  FoldLeft(LAMBDA r, c : IF r.error \/ c \notin r.d.warn \cup r.d.error THEN r ELSE RunCheck(r.d, c),
           [d |-> d, error |-> FALSE], CheckTable)
-----------------------------------------------------------------------------
\* enable_warning_error and disable_warning_error, where level is "warn" or "error".
RECURSIVE Enable(_, _, _), Disable(_, _, _)
Enable(d, c, level) ==
  LET e == IF c \in d[level] THEN d
           ELSE FoldLeft(LAMBDA s, p : Enable(s, p, level), d, Prereqs(c))
  IN  [e EXCEPT ![level] = @ \cup {c}]
Disable(d, c, level) ==
  LET users == SelectSeq(CheckTable, LAMBDA u : c \in ToSet(Prereqs(u)))
      e == IF c \in d[level] THEN FoldLeft(LAMBDA s, u : Disable(s, u, level), d, users) ELSE d
  IN  [e EXCEPT ![level] = @ \ {c}]

\* The checks at their default levels, then the -W and -E options in order.
Levels(d, options) ==
  FoldLeft(LAMBDA e, o : IF o.enable THEN Enable(e, o.check, o.level) ELSE Disable(e, o.check, o.level),
           [d EXCEPT !.status = [c \in AllChecks |-> "UNCHECKED"],
                     !.error = ErrorByDefault, !.warn = AllChecks \ (ErrorByDefault \cup Silent)],
           options)
=============================================================================
