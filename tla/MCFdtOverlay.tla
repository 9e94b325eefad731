----------------------------- MODULE MCFdtOverlay -----------------------------
(***************************************************************************)
(* Instances of FdtOverlay, compiled from their sources by the model of    *)
(* dtc: a base with a label and references, with more and less room behind *)
(* it and with low and high phandles, and plugins that fail in every pass  *)
(* or in none.                                                             *)
(***************************************************************************)
EXTENDS FdtOverlay, TLC

Ph == <<1>>       LinuxPh == <<2>>  OverlayName == <<3>>  Target == <<4>>
TargetPath == <<5>>  Fixups == <<6>>  LocalFixups == <<7>>  Symbols == <<8>>
Label == <<9>>    Ref == <<10>>     N == <<11>>           M == <<12>>
K == <<13>>       F == <<14>>       G == <<15>>           Other == <<16>>
New == <<17>>
DigitValues == 23 :> 0 @@ 24 :> 2
S == 20           C == 21           Zero == 23            Two == 24

DigitOf == 0 :> Zero @@ 1 :> 25 @@ 2 :> Two @@ 3 :> 26
Literals == ("__symbols__" :> Symbols) @@ ("__fixups__" :> Fixups) @@ ("__local_fixups__" :> LocalFixups)
            @@ [x \in {"name", "reg", "ranges", "chosen", "device_type", "model", "status", "cpus",
                       "#address-cells", "#size-cells", "#interrupt-cells", "interrupt-controller"} |-> <<30>>]

\* dtc, as it is called for the base and for plugins.
D == INSTANCE DtcMain WITH phandle <- Ph, linux_phandle <- LinuxPh, compatible <- Other,
                           aliases <- Other, Lit <- Literals, Decimal <- DigitOf, HASH <- 31,
                           COMMA <- 32, NameChars <- 1 .. 19, StrictChars <- 1 .. 19
Options(plugin, symbolic, room) ==
  [plugin |-> plugin, symbols |-> symbolic, aliases |-> FALSE, sort |-> FALSE, version |-> 17,
   format |-> {"legacy", "epapr"}, cpuid |-> -1, checks |-> <<>>, reservenum |-> 0, minsize |-> 0,
   padsize |-> room, alignsize |-> 0]
InBuffer(b) == [b EXCEPT !.mem = [p \in Memory |-> IF p \in DOMAIN @ THEN @[p] ELSE Junk]]
Compiled(def, o) == InBuffer(D!Compile(def, o))

Prop(name, pieces) == D!Property(name, D!PropData(pieces))
Def(labels, name, props, kids) ==
  [name |-> name, labels |-> [i \in DOMAIN labels |-> D!Label(labels[i])], props |-> props, kids |-> kids,
   dead |-> FALSE]
Node(name, props, kids) == Def(<<>>, name, props, kids)
Bytes1(name, v) == Prop(name, <<<<"bytes", v>>>>)
To(label) == <<"ref", label>>
Str(s) == Append(s, 0)

\* n has the label; m refers to n.
Base(ph) ==
  Node(<<>>, <<>>, <<Def(<<Label>>, N, <<Bytes1(Ph, Int32(ph))>>, <<>>),
                     Node(M, <<Prop(Ref, <<<<"bytes", <<7>>>>, To(Label)>>)>>, <<>>)>>)

SevenBases ==
  {Compiled(Base(ph), Options(FALSE, TRUE, spare)) : ph \in {1, 11}, spare \in {2, 14, 60}}
  \cup {Compiled(Base(1), Options(FALSE, FALSE, 60))}

Root(kids) == Node(<<>>, <<>>, kids)
Content(props, kids) == <<Node(OverlayName, props, kids)>>
ToLabel(label) == <<Prop(Target, <<To(label)>>)>>
AtPath(p) == <<Bytes1(TargetPath, Str(p))>>
FixupText(f, end) == Str(<<S>> \o f \o <<C>> \o Target \o end)

Sources ==
  << \* By label: a new node that the old one refers to, and is referred to by.
     Root(<<Node(F, ToLabel(Label),
              Content(<<Prop(Ref, <<To(New), To(Label)>>)>>, <<Def(<<New>>, K, <<>>, <<>>)>>))>>),
     \* By path: a property of an old node changes, and a new one below it refers to its sibling.
     Root(<<Node(G, AtPath(<<S>>),
              Content(<<>>, <<Node(M, <<Bytes1(Other, <<6>>)>>,
                <<Node(F, <<Prop(Ref, <<To(New)>>)>>, <<>>),
                  Def(<<New>>, G, <<Bytes1(Ph, Int32(2))>>, <<>>)>>)>>))>>),
     \* The second fragment has no target unless the first overlay was applied.
     Root(<<Node(F, AtPath(<<S>> \o M), Content(<<Bytes1(Other, <<5, 5, 5>>)>>, <<>>)),
            Node(N, <<>>, <<>>),
            Node(G, AtPath(<<S>> \o N \o <<S>> \o K), Content(<<Bytes1(Other, <<4>>)>>, <<>>))>>),
     \* A label the base does not have.
     Root(<<Node(F, ToLabel(Other), Content(<<>>, <<Node(G, <<>>, <<>>)>>))>>),
     \* A phandle of the wrong size.
     Root(<<Node(F, AtPath(<<S>>), Content(<<Bytes1(Ph, <<1>>)>>, <<>>))>>),
     \* Local references to a place past the value.
     Root(<<Node(F, AtPath(<<S>>), Content(<<Bytes1(Ref, Int32(1))>>, <<>>)),
            Node(LocalFixups, <<>>, <<Node(F, <<>>, <<Node(OverlayName, <<Bytes1(Ref, Int32(1))>>, <<>>)>>)>>)>>),
     \* A fixup without an offset.
     Root(<<Node(F, <<Bytes1(Target, Int32(MinusOne))>>, Content(<<>>, <<Node(G, <<>>, <<>>)>>)),
            Node(Fixups, <<Bytes1(Label, FixupText(F, <<>>))>>, <<>>)>>),
     \* A phandle for a node that has one.
     Root(<<Node(F, ToLabel(Label), Content(<<Bytes1(Ph, Int32(1))>>, <<>>))>>)>>

AllOverlays == [i \in DOMAIN Sources |-> Compiled(Sources[i], Options(TRUE, FALSE, 0))]

SourceReferences ==
  {[from |-> 0, path |-> <<S>> \o M, prop |-> Ref, at |-> 1, to |-> <<S>> \o N],
   [from |-> 1, path |-> <<S>> \o N, prop |-> Ref, at |-> 0, to |-> <<S>> \o N \o <<S>> \o K],
   [from |-> 1, path |-> <<S>> \o N, prop |-> Ref, at |-> 2, to |-> <<S>> \o N],
   [from |-> 2, path |-> <<S>> \o M \o <<S>> \o F, prop |-> Ref, at |-> 0, to |-> <<S>> \o M \o <<S>> \o G]}
=============================================================================
