-------------------------------- MODULE MCDtc --------------------------------
(***************************************************************************)
(* Sources for Dtc: two nodes with labels that refer to each other, and    *)
(* definitions that change, delete, revive and rename.  A character is a   *)
(* number, and the numerals of offsets are characters too.                 *)
(***************************************************************************)
EXTENDS Dtc

S == 20   Sharp == 21   Comma == 22   C == 23   AtSign == 24
N == <<1>>   M == <<2>>   K == <<3>>   X == <<4>>   Y == <<5>>   W == <<6, 4>>
A == <<11>>  B == <<12>>  New == <<13>>  Open == <<14>>
Ph == <<31>>   LinuxPh == <<32, Comma, 31>>   Aliases == <<33>>   Reg == <<35, 4>>
Cpu == <<38, AtSign, 1>>

Literals ==
  [name |-> <<34>>, reg |-> Reg, ranges |-> <<35, 36>>, cpus |-> <<37>>, chosen |-> <<39>>,
   device_type |-> <<40>>, model |-> <<41>>, status |-> <<42>>]
  @@ ("#address-cells" :> <<Sharp, 43>>) @@ ("#size-cells" :> <<Sharp, 44>>)
  @@ ("#interrupt-cells" :> <<Sharp, 45>>) @@ ("interrupt-controller" :> <<46>>)
  @@ ("__symbols__" :> <<47>>) @@ ("__fixups__" :> <<48>>) @@ ("__local_fixups__" :> <<49>>)
Numerals == [n \in 0 .. 9 |-> 60 + n]
Named == 1 .. 59 \ {S, C, AtSign}
Plain == Named \ {Sharp}

Prop(n, pieces) == Property(n, PropData(pieces))
Def(name, labels, props, kids) ==
  [name |-> name, labels |-> [i \in DOMAIN labels |-> Label(labels[i])], props |-> props, kids |-> kids, dead |-> FALSE]
NoProp(n) == DeleteProperty(Property(n, EmptyData))
NoNode(name) == [Def(name, <<>>, <<>>, <<>>) EXCEPT !.dead = TRUE]
Item(op, ref, label, def) == [op |-> op, ref |-> ref, label |-> label, def |-> def]
Root(props, kids) == Item("define", <<S>>, <<>>, Def(<<>>, <<>>, props, kids))
At0(ref, props, kids) == Item("define", ref, <<>>, Def(<<>>, <<>>, props, kids))

RootsOf ==
  {\* A path, then a phandle, then a label; below it a reference back.
   Root(<<>>, <<Def(N, <<A>>, <<Prop(X, <<<<"path", B>>, <<"ref", B>>, <<"label", New>>>>)>>,
                    <<Def(K, <<>>, <<Prop(Y, <<<<"bytes", <<1>>>>, <<"ref", A>>>>)>>, <<>>)>>),
                Def(M, <<B>>, <<>>, <<>>)>>),
   \* Given phandles, one of them as a reference to its own node, and an open reference.
   Root(<<Prop(X, <<<<"ref", B>>, <<"ref", A>>, <<"ref", Open>>>>)>>,
        <<Def(N, <<A>>, <<Prop(Ph, <<<<"ref", A>>>>)>>, <<>>),
          Def(M, <<B>>, <<Prop(LinuxPh, <<<<"bytes", Int32(1)>>>>)>>, <<>>)>>),
   \* A boot CPU, cells and a name that is redundant.
   Root(<<Prop(Literals["#size-cells"], <<<<"bytes", Int32(1)>>>>)>>,
        <<Def(Literals["cpus"], <<A>>, <<>>,
              <<Def(Cpu, <<B>>, <<Prop(Reg, <<<<"bytes", Int32(2)>>>>),
                                  Prop(Literals["name"], <<<<"bytes", <<38, 0>>>>>>)>>, <<>>)>>)>>)}

ItemsOf ==
  {At0(<<S>>, <<>>, <<Def(N, <<>>, <<Prop(W, <<<<"bytes", <<1, 2, 3, 1, 2>>>>>>), Prop(<<6>>, <<>>), Prop(<<4>>, <<<<"path", A>>>>),
                                          Prop(Ph, <<<<"bytes", Int32(1)>>>>)>>, <<>>)>>),
   At0(A, <<NoProp(X)>>, <<NoNode(K)>>),
   At0(A, <<>>, <<Def(K, <<New>>, <<Prop(X, <<<<"ref", New>>, <<"ref", Open>>>>)>>, <<>>)>>),
   Item("define", B, Open, Def(<<>>, <<>>, <<Prop(Ph, <<<<"bytes", Int32(1)>>>>)>>, <<>>)),
   Item("delete", A, <<>>, <<>>), Item("delete", <<S>> \o M, <<>>, <<>>)}

Entry(a, s) == [address |-> a, size |-> s]
Reserved == {<<Entry(2, 1), Entry(1, 3)>>}

Base == [plugin |-> FALSE, force |-> FALSE, symbols |-> FALSE, aliases |-> FALSE, sort |-> FALSE,
         version |-> 17, format |-> {"legacy", "epapr"}, cpuid |-> -1, checks |-> <<>>,
         reservenum |-> 0, minsize |-> 0, padsize |-> 0, alignsize |-> 0]
Option(enable, check, level) == [enable |-> enable, check |-> check, level |-> level]

FirstRuns ==
  {Base,
   [Base EXCEPT !.plugin = TRUE, !.symbols = TRUE, !.format = {"epapr"}, !.padsize = 3, !.sort = TRUE],
   [Base EXCEPT !.plugin = TRUE, !.aliases = TRUE, !.version = 16, !.force = TRUE, !.minsize = 20,
                !.alignsize = 8, !.checks = <<Option(TRUE, "always_fail", "error")>>],
   [Base EXCEPT !.version = 3, !.sort = TRUE, !.reservenum = 2, !.format = {"legacy"},
                !.checks = <<Option(FALSE, "explicit_phandles", "error"),
                             Option(TRUE, "property_name_chars_strict", "warn")>>],
   [Base EXCEPT !.version = 1, !.aliases = TRUE, !.force = TRUE, !.cpuid = 1]}
SecondRuns == {[Base EXCEPT !.symbols = TRUE], [Base EXCEPT !.version = 2, !.minsize = 400]}
=============================================================================
