------------------------------- MODULE DtcMain -------------------------------
(***************************************************************************)
(* What the main function of dtc (dtc.c) does with a tree and its options: *)
(* the checks, the nodes that are generated, and the order of it all.      *)
(***************************************************************************)
EXTENDS FlatTree

Fresh == [t |-> <<>>, rsv |-> <<>>, plugin |-> FALSE, cpuid |-> 0, counter |-> 1, format |-> {},
          status |-> <<>>, warn |-> {}, error |-> {}]

\* The checks with their levels, the phandle format and the boot CPU as the options say.
AfterChecks(d, o) ==
  ProcessChecks(Levels([d EXCEPT !.format = o.format, !.cpuid = IF o.cpuid = -1 THEN @ ELSE o.cpuid],
                       o.checks))

\* A plugin gets fixups whether or not there are symbols.
Generated(d, o) ==
  LET Labelled(e, wanted, name, allocph) == IF wanted THEN GenerateLabelTree(e, name, allocph) ELSE e
      Fixed(t) == IF d.plugin
                  THEN GenerateLocalFixups(GenerateFixups(t, Lit["__fixups__"]), Lit["__local_fixups__"])
                  ELSE t
      Sorted(t) == IF o.sort THEN SortNodes(t) ELSE t
      all == Labelled(Labelled(d, o.aliases, aliases, FALSE), o.symbols, Lit["__symbols__"], TRUE)
  IN  [all EXCEPT !.t = Sorted(Fixed(@)), !.rsv = IF o.sort THEN SortReserve(@) ELSE @]

\* add_fixup_entry gives up on a ':' in a name.
Colon(t) ==
  \E n \in ToSet(Walk(t, 1)) : \E at \in ToSet(RefsOf(t, n, "ref")) :
    /\ NodeByRef(t, Marker(t, n, at).ref) = 0
    /\ COLON \in ToSet(t[n].path \o t[n].props[at[1]].name)

\* One definition compiled without an error.
Compile(def, o) ==
  LET parsed == [Fresh EXCEPT !.t = FillFullpaths(Plant(<<>>, 0, def)), !.plugin = o.plugin]
  IN  DtToBlob(Generated(AfterChecks(parsed, o).d, o), o)
=============================================================================
