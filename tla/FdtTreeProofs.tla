---------------------------- MODULE FdtTreeProofs ----------------------------
(***************************************************************************)
(* FdtEdit implements FdtTree, and its structure stays sound.  The         *)
(* invariant TreeInv says that the blob holds one tree (Whole) and that    *)
(* the history variable is what a reader finds.  An edit of the structure  *)
(* replaces a span of cells and moves what lies behind it.  The proof      *)
(* takes the nodes and the properties as sets of cells in order, follows   *)
(* them across such an edit, shows for every call what the decoded tree    *)
(* becomes (the lemmas named ...Does), and concludes that the call is a    *)
(* step of FdtTree (those named ...Steps).                                 *)
(***************************************************************************)
EXTENDS FdtEditProofs

\* Properties across an edit.

Before(S, T) == \A x \in S, y \in T : x < y
Numbers(S) == S \in SUBSET Int /\ IsFiniteSet(S)

OneByOne(S, T, U, F) ==
  InTurn((S \cup T) \cup U, F) = (InTurn(S, F) \o InTurn(T, F)) \o InTurn(U, F)

\* Three sets, one above the other, give three lists in a row.
LEMMA InTurnThree ==
  ASSUME NEW S, NEW T, NEW U, Numbers(S), Numbers(T), Numbers(U),
         Before(S, T), Before(S, U), Before(T, U), NEW F
  PROVE  OneByOne(S, T, U, F)
<1> DEFINE V == S \cup T
<1>1. InTurn(S \cup T, F) = InTurn(S, F) \o InTurn(T, F) /\ IsFiniteSet(S \cup T)
  <2>1. S \in SUBSET Int /\ T \in SUBSET Int /\ IsFiniteSet(S) /\ IsFiniteSet(T)  BY DEF Numbers
  <2>2. \A x \in S, y \in T : x < y  BY DEF Before
  <2> QED BY <2>1, <2>2, InTurnJoin
<1>2. V \in SUBSET Int /\ U \in SUBSET Int /\ IsFiniteSet(V) /\ IsFiniteSet(U)  BY <1>1 DEF Numbers
<1>3. \A x \in V, y \in U : x < y  BY DEF Before
<1>4. InTurn(V \cup U, F) = InTurn(V, F) \o InTurn(U, F)
  <2> HIDE DEF V
  <2> QED BY <1>2, <1>3, InTurnJoin
<1> QED BY <1>1, <1>4 DEF OneByOne

\* A list shifted by d is gone through as before.
LEMMA InTurnShift ==
  ASSUME NEW S, Numbers(S), NEW d \in Int, NEW F, NEW G, \A q \in S : G[q + d] = F[q]
  PROVE  InTurn(Shift(S, d), G) = InTurn(S, F) /\ Numbers(Shift(S, d))
<1> DEFINE T == {q + d : q \in S}
<1>1. S \in SUBSET Int /\ IsFiniteSet(S)  BY DEF Numbers
<1>2. InTurn(T, G) = InTurn(S, F) /\ IsFiniteSet(T)  BY <1>1, InTurnMoved
<1>3. T \in SUBSET Int  BY <1>1
<1>4. T = Shift(S, d)  BY DEF Shift
<1> HIDE DEF T
<1> QED BY <1>2, <1>3, <1>4 DEF Numbers

PropTags(b, a, c) == {q \in a .. c - 1 : At(b, q).tag = "prop"}

\* The pairs of the properties at the cells S of b.
PairsAt(b, S) == InTurn(S, Pairs(b))

\* The properties of the node: those before the edit, in it, and behind it.
Parts3(b, f, a, c, z, o) ==
  /\ PropsOf(b, o) = (PairsAt(b, Left(Properties(b, o), a)) \o PairsAt(b, PropTags(b, a, c)))
                     \o PairsAt(b, Right(Properties(b, o), c))
  /\ PropsOf(f, o) = (PairsAt(b, Left(Properties(b, o), a)) \o PairsAt(f, PropTags(f, a, z)))
                     \o PairsAt(b, Right(Properties(b, o), c))
  /\ Properties(b, o) = (Left(Properties(b, o), a) \cup PropTags(b, a, c)) \cup Right(Properties(b, o), c)
  /\ Properties(b, o) \in SUBSET Int /\ IsFiniteSet(Properties(b, o))

\* The properties of the edited node: those before, in and behind the edit.
LEMMA EditProps ==
  ASSUME NEW b, NEW k \in Nat, NEW e \in Nat, NEW f, NEW k2 \in Nat,
         NEW a \in Nat, NEW c \in Nat, NEW z \in Nat, NEW o, EditIn(b, k, e, f, k2, a, c, z, o)
  PROVE  Parts3(b, f, a, c, z, o)
<1> DEFINE d == z - c
           e2 == e + d
           P == Properties(b, o)
           PL == Left(P, a)
           PM == PropTags(b, a, c)
           PR == Right(P, c)
           PF == PropTags(f, a, z)
           PD == Shift(PR, d)
<1>0. /\ b \in Blobs /\ Holds(b, k, e) /\ f \in Blobs /\ Holds(f, k2, e + (z - c))
      /\ a <= c /\ c <= e /\ a <= z /\ 0 < c /\ e + (z - c) \in Nat
      /\ \A q \in 0 .. a - 1 : At(f, q) = At(b, q)
      /\ \A q \in c .. e : At(f, q + (z - c)) = At(b, q)
      /\ o \in 0 .. a /\ o \in 0 .. c - 1 /\ o \in 0 .. z - 1 /\ o \in 0 .. e - 1 /\ o \in Nat
      /\ At(b, o).tag = "begin" /\ At(f, o).tag = "begin" /\ At(f, 0).tag = At(b, 0).tag
      /\ \A x \in Nodes(b) : x \in 0 .. e - 1 /\ At(b, x).tag = "begin" /\ (x <= o \/ c <= x)
  <2>1. EditInMeans(b, k, e, f, k2, a, c, z, o)  BY EditInFacts
  <2> QED BY <2>1 DEF EditInMeans
<1>1. /\ EditOf(b, k, e, f, k2, a, c, z)
      /\ \A q \in o + 1 .. c - 1 : At(b, q).tag \notin Edges
      /\ \A q \in o + 1 .. z - 1 : At(f, q).tag \notin Edges
  BY DEF EditIn
<1>2. P = {q \in o + 1 .. e - 1 : At(b, q).tag = "prop" /\ \A p \in o + 1 .. q : At(b, p).tag \notin Edges}
      /\ P \in SUBSET Int /\ IsFiniteSet(P)
  <2>1. o \in Int  BY <1>0
  <2> QED BY <1>0, <2>1, NodesAre
<1>3. Properties(f, o) =
        {q \in o + 1 .. e2 - 1 : At(f, q).tag = "prop" /\ \A p \in o + 1 .. q : At(f, p).tag \notin Edges}
  <2>1. Holds(f, k2, e2) /\ e2 \in Nat /\ o \in Int  BY <1>0
  <2> HIDE DEF e2
  <2> QED BY <1>0, <2>1, NodesAre
<1>4. ASSUME NEW q PROVE q \in P <=> q \in (PL \cup PM) \cup PR
  <2>1. ASSUME q \in PM PROVE q \in P
    <3>1. q \in a .. c - 1 /\ At(b, q).tag = "prop"  BY <2>1 DEF PropTags
    <3>2. q # o  BY <1>0, <3>1
    <3>3. q \in o + 1 .. e - 1 /\ \A p \in o + 1 .. q : p \in o + 1 .. c - 1  BY <1>0, <3>1, <3>2
    <3> HIDE DEF P
    <3> QED BY <1>1, <1>2, <3>1, <3>3
  <2>2. q \in P => q \in Int /\ At(b, q).tag = "prop"  BY <1>2
  <2>3. q \in Int => q < a \/ q \in a .. c - 1 \/ c <= q  BY <1>0
  <2> HIDE DEF P
  <2> QED BY <2>1, <2>2, <2>3 DEF Left, Right, PropTags
<1>5. P = (PL \cup PM) \cup PR  BY <1>4
<1>6. ASSUME NEW q PROVE q \in Properties(f, o) <=> q \in (PL \cup PF) \cup PD
  <2>1. ASSUME q \in 0 .. a - 1 PROVE q \in Properties(f, o) <=> q \in PL
    <3>1. \A p \in o + 1 .. q : At(f, p) = At(b, p)
      <4>1. \A p \in o + 1 .. q : p \in 0 .. a - 1  BY <1>0, <2>1
      <4> QED BY <1>0, <4>1
    <3>2. q \in o + 1 .. e - 1 <=> q \in o + 1 .. e2 - 1  BY <1>0, <2>1
    <3>3. q \in o + 1 .. e - 1 => q \in o + 1 .. q  OBVIOUS
    <3>4. q \in Properties(f, o) <=> q \in P
      <4> HIDE DEF e2
      <4> QED BY <1>2, <1>3, <3>1, <3>2, <3>3
    <3>5. q < a  BY <2>1
    <3> QED BY <3>4, <3>5 DEF Left
  <2>2. ASSUME q \in a .. z - 1 PROVE q \in Properties(f, o) <=> q \in PF
    <3>1. ASSUME At(f, q).tag = "prop" PROVE q \in Properties(f, o)
      <4>1. q # o  BY <1>0, <3>1
      <4>2. q \in o + 1 .. e2 - 1 /\ \A p \in o + 1 .. q : p \in o + 1 .. z - 1  BY <1>0, <2>2, <4>1
      <4> QED BY <1>1, <1>3, <3>1, <4>2
    <3>2. q \in Properties(f, o) => At(f, q).tag = "prop"  BY <1>3
    <3> QED BY <2>2, <3>1, <3>2 DEF PropTags
  <2>3. ASSUME q \in z .. e2 - 1 PROVE q \in Properties(f, o) <=> q \in PD
    <3> DEFINE x == q - d
    <3>1. x \in c .. e - 1 /\ x + d = q /\ x \in o + 1 .. e - 1 /\ q \in o + 1 .. e2 - 1  BY <1>0, <2>3
    <3>2. \A y \in Int : y + d = q => y = x  BY <1>0, <2>3
    <3> HIDE DEF x, d, e2
    <3>3. ASSUME NEW p \in c .. x PROVE At(f, p + d) = At(b, p) /\ p + d \in o + 1 .. q
      <4>1. p \in c .. e /\ p + d \in o + 1 .. q  BY <1>0, <3>1 DEF d
      <4> QED BY <1>0, <4>1 DEF d
    <3>4. At(f, q) = At(b, x)
      <4>1. x \in c .. x  BY <3>1
      <4> QED BY <3>1, <3>3, <4>1
    <3>5. ASSUME \A p \in o + 1 .. x : At(b, p).tag \notin Edges, NEW p \in o + 1 .. q
          PROVE  At(f, p).tag \notin Edges
      <4>1. CASE p < z
        <5>1. p \in o + 1 .. z - 1  BY <1>0, <4>1
        <5> QED BY <1>1, <5>1
      <4>2. CASE z <= p
        <5>1. p - d \in c .. x /\ (p - d) + d = p /\ p - d \in o + 1 .. x  BY <1>0, <3>1, <4>2 DEF d
        <5>2. At(f, (p - d) + d) = At(b, p - d)  BY <3>3, <5>1
        <5> QED BY <3>5, <5>1, <5>2
      <4> QED BY <1>0, <4>1, <4>2
    <3>6. ASSUME \A p \in o + 1 .. q : At(f, p).tag \notin Edges, NEW p \in o + 1 .. x
          PROVE  At(b, p).tag \notin Edges
      <4>1. CASE p < c
        <5>1. p \in o + 1 .. c - 1  BY <1>0, <4>1
        <5> QED BY <1>1, <5>1
      <4>2. CASE c <= p
        <5>1. p \in c .. x  BY <1>0, <4>2
        <5> QED BY <3>3, <3>6, <5>1
      <4> QED BY <1>0, <4>1, <4>2
    <3>7. q \in Properties(f, o) <=> x \in P
      <4> HIDE DEF P
      <4> QED BY <1>2, <1>3, <3>1, <3>4, <3>5, <3>6
    <3>8. q \in PD <=> x \in P
      <4>1. c <= x /\ x \in Int  BY <3>1
      <4> HIDE DEF P
      <4> QED BY <1>2, <3>1, <3>2, <4>1 DEF Shift, Right
    <3> QED BY <3>7, <3>8
  <2>4. q \in PL => q \in 0 .. a - 1
    <3>1. \A y \in P : y < a => y \in 0 .. a - 1  BY <1>0, <1>2
    <3> QED BY <3>1 DEF Left
  <2>5. q \in PF => q \in a .. z - 1  BY DEF PropTags
  <2>6. q \in PD => q \in z .. e2 - 1
    <3>1. \A y \in P : c <= y => y + d \in z .. e2 - 1  BY <1>0, <1>2
    <3> HIDE DEF P, d, e2
    <3> QED BY <3>1 DEF Shift, Right
  <2>7. q \in Properties(f, o) => q \in 0 .. a - 1 \/ q \in a .. z - 1 \/ q \in z .. e2 - 1
    BY <1>0, <1>3
  <2> HIDE DEF PL, PF, PD, e2
  <2> QED BY <2>1, <2>2, <2>3, <2>4, <2>5, <2>6, <2>7
<1>7. Properties(f, o) = (PL \cup PF) \cup PD  BY <1>6
<1>8. /\ PL \in SUBSET Int /\ IsFiniteSet(PL) /\ PR \in SUBSET Int /\ IsFiniteSet(PR)
      /\ PM \in SUBSET Int /\ IsFiniteSet(PM) /\ PF \in SUBSET Int /\ IsFiniteSet(PF)
  <2>1. PL \subseteq P /\ PR \subseteq P  BY DEF Left, Right
  <2>2. PM \in SUBSET (a .. c) /\ PF \in SUBSET (a .. z)  BY DEF PropTags
  <2>3. a \in Int /\ c \in Int /\ z \in Int  OBVIOUS
  <2> HIDE DEF PL, PR, PM, PF, P
  <2>4. IsFiniteSet(PL) /\ IsFiniteSet(PR)
    <3>1. PL \in SUBSET P /\ PR \in SUBSET P /\ IsFiniteSet(P)  BY <1>2, <2>1
    <3> QED BY ONLY <3>1, FS_Subset
  <2>5. PL \in SUBSET Int /\ PR \in SUBSET Int  BY <1>2, <2>1
  <2>6. IsFiniteSet(PM)  BY ONLY <2>2, <2>3, FiniteSpan
  <2>7. IsFiniteSet(PF)  BY ONLY <2>2, <2>3, FiniteSpan
  <2>8. PM \in SUBSET Int /\ PF \in SUBSET Int  BY <2>2, <2>3
  <2> QED BY ONLY <2>4, <2>5, <2>6, <2>7, <2>8
<1>9. /\ PD \in SUBSET Int /\ IsFiniteSet(PD) /\ InTurn(PD, Pairs(f)) = InTurn(PR, Pairs(b))
  <2>1. d \in Int  BY <1>0
  <2>2. \A q \in PR : Pairs(f)[q + d] = Pairs(b)[q]
    <3>1. ASSUME NEW q \in PR PROVE Pairs(f)[q + d] = Pairs(b)[q]
      <4>1. q \in P /\ c <= q  BY DEF Right
      <4>2. q \in 0 .. e - 1 /\ At(b, q).tag = "prop" /\ q \in Int /\ q + d \in Int
        <5>1. q \in o + 1 .. e - 1 /\ At(b, q).tag = "prop"  BY <1>2, <4>1
        <5> QED BY <1>0, <2>1, <5>1
      <4>3. At(b, q).tag \in Opens /\ d = By(q, a, c, z)  BY <1>0, <4>1, <4>2 DEF Opens, By
      <4>4. ReadThere(b, e, f, q, d)
        <5> HIDE DEF d, P, PR
        <5> QED BY <1>1, <4>1, <4>2, <4>3, EditReads
      <4>5. PairAt(f, q + d) = PairAt(b, q)  BY <4>2, <4>4 DEF ReadThere
      <4> HIDE DEF d, PR
      <4> QED BY <4>2, <4>5 DEF Pairs
    <3> QED BY <3>1
  <2> DEFINE F == Pairs(b)
             G == Pairs(f)
  <2>3. Numbers(PR)  BY <1>8 DEF Numbers
  <2>4. \A q \in PR : G[q + d] = F[q]  BY <2>2
  <2>5. InTurn(Shift(PR, d), G) = InTurn(PR, F) /\ Numbers(Shift(PR, d))
    <3> HIDE DEF F, G, PR, d
    <3> QED BY <2>1, <2>3, <2>4, InTurnShift
  <2> HIDE DEF PR, d
  <2> QED BY <2>5 DEF Numbers
<1>10. InTurn(PL, Pairs(f)) = InTurn(PL, Pairs(b))
  <2>1. \A q \in PL : Pairs(f)[q] = Pairs(b)[q]
    <3>1. ASSUME NEW q \in PL PROVE Pairs(f)[q] = Pairs(b)[q]
      <4>1. q \in P /\ q < a  BY DEF Left
      <4>2. q \in 0 .. e - 1 /\ At(b, q).tag = "prop" /\ q \in Int /\ q + 0 = q
        <5>1. q \in o + 1 .. e - 1 /\ At(b, q).tag = "prop"  BY <1>2, <4>1
        <5> QED BY <1>0, <5>1
      <4>3. At(b, q).tag \in Opens /\ 0 = By(q, a, c, z)  BY <1>0, <4>1, <4>2 DEF Opens, By
      <4>4. ReadThere(b, e, f, q, 0)
        <5> HIDE DEF d, P, PL
        <5> QED BY <1>1, <4>1, <4>2, <4>3, EditReads
      <4>5. PairAt(f, q) = PairAt(b, q)  BY <4>2, <4>4 DEF ReadThere
      <4> QED BY <4>2, <4>5 DEF Pairs
    <3> QED BY <3>1
  <2> DEFINE F == Pairs(b)
             G == Pairs(f)
  <2>2. \A q \in PL : G[q] = F[q]  BY <2>1
  <2> HIDE DEF PL, F, G
  <2>3. InTurn(PL, G) = InTurn(PL, F)  BY <1>8, <2>2, InTurnSame
  <2> QED BY <2>3 DEF F, G
<1>11. /\ \A x \in PL, y \in PM : x < y
       /\ \A x \in PL \cup PM, y \in PR : x < y
       /\ \A x \in PL, y \in PF : x < y
       /\ \A x \in PL \cup PF, y \in PD : x < y
  <2>1. \A x \in PL : x \in Int /\ x < a  BY <1>2 DEF Left
  <2>2. \A x \in PM : x \in Int /\ a <= x /\ x < c  BY DEF PropTags
  <2>3. \A x \in PR : x \in Int /\ c <= x  BY <1>2 DEF Right
  <2>4. \A x \in PF : x \in Int /\ a <= x /\ x < z  BY DEF PropTags
  <2>5. \A x \in PD : x \in Int /\ z <= x
    <3>1. \A x \in Int : c <= x => x + d \in Int /\ z <= x + d  BY <1>0
    <3> HIDE DEF PR, d
    <3> QED BY <2>3, <3>1 DEF Shift
  <2> HIDE DEF PL, PM, PR, PF, PD
  <2> QED BY <1>0, <2>1, <2>2, <2>3, <2>4, <2>5
<1> HIDE DEF PL, PM, PR, PF, PD, P, d, e2
<1>14. Numbers(PL) /\ Numbers(PM) /\ Numbers(PR) /\ Numbers(PF) /\ Numbers(PD)
  BY <1>8, <1>9 DEF Numbers
<1>15. Before(PL, PM) /\ Before(PL, PR) /\ Before(PM, PR) /\ Before(PL, PF) /\ Before(PL, PD) /\ Before(PF, PD)
  BY <1>11 DEF Before
<1>12. PropsOf(b, o) = (PairsAt(b, PL) \o PairsAt(b, PM)) \o PairsAt(b, PR)
  <2>1. OneByOne(PL, PM, PR, Pairs(b))  BY <1>14, <1>15, InTurnThree
  <2> QED BY <1>5, <2>1 DEF PropsOf, PairsAt, OneByOne, P
<1>13. PropsOf(f, o) = (PairsAt(b, PL) \o PairsAt(f, PF)) \o PairsAt(b, PR)
  <2>1. OneByOne(PL, PF, PD, Pairs(f))  BY <1>14, <1>15, InTurnThree
  <2> QED BY <1>7, <1>9, <1>10, <2>1 DEF PropsOf, PairsAt, OneByOne
<1> QED BY <1>2, <1>5, <1>12, <1>13 DEF Parts3, P, PL, PM, PR, PF

\* The elements of a list joined from two.
LEMMA Concat ==
  ASSUME NEW V, NEW s \in Seq(V), NEW t \in Seq(V)
  PROVE  /\ s \o t \in Seq(V) /\ Len(s \o t) = Len(s) + Len(t) /\ Len(s) \in Nat /\ Len(t) \in Nat
         /\ \A i \in 1 .. Len(s) + Len(t) : (s \o t)[i] = IF i <= Len(s) THEN s[i] ELSE t[i - Len(s)]
OBVIOUS

\* A list with p between s and t: the p taken out, and given another value.
LEMMA PlaceOut ==
  ASSUME NEW V, NEW s \in Seq(V), NEW p \in V, NEW t \in Seq(V)
  PROVE  RemoveAt((s \o <<p>>) \o t, Len(s) + 1) = (s \o <<>>) \o t
<1> DEFINE i == Len(s) + 1
           w == s \o <<p>>
           u == w \o t
<1>1. <<p>> \in Seq(V) /\ Len(<<p>>) = 1  OBVIOUS
<1>2. w \in Seq(V) /\ Len(w) = i /\ i \in Nat  BY <1>1
<1>3. SubSeq(u, i + 1, Len(u)) = t
  <2>1. SubSeq(u, Len(w) + 1, Len(u)) = t
    <3> HIDE DEF w
    <3> QED BY <1>2, JoinCut
  <2> HIDE DEF u, w, i
  <2> QED BY <1>2, <2>1
<1>4. SubSeq(u, 1, i - 1) = s
  <2>1. u = s \o (<<p>> \o t)  BY <1>1
  <2>2. <<p>> \o t \in Seq(V)  BY <1>1
  <2>3. SubSeq(s \o (<<p>> \o t), 1, Len(s)) = s  BY <2>2, JoinCut
  <2>4. i - 1 = Len(s)  OBVIOUS
  <2> HIDE DEF u, i
  <2> QED BY <2>1, <2>3, <2>4
<1>5. s \o <<>> = s  OBVIOUS
<1> HIDE DEF u, w
<1>6. RemoveAt(u, i) = s \o t  BY <1>3, <1>4 DEF RemoveAt
<1> QED BY <1>5, <1>6 DEF u, w

Swapped(s, p, x, t) == ReplaceAt((s \o <<p>>) \o t, Len(s) + 1, x) = (s \o <<x>>) \o t

\* Removing or replacing the element behind s, and putting one in its place.
LEMMA PlaceNew ==
  ASSUME NEW V, NEW s \in Seq(V), NEW p \in V, NEW x \in V, NEW t \in Seq(V)
  PROVE  Swapped(s, p, x, t)
<1> DEFINE i == Len(s) + 1
           u == (s \o <<p>>) \o t
           v == (s \o <<x>>) \o t
           n == Len(s) + 1 + Len(t)
<1>1. u \in Seq(V) /\ Len(u) = n /\ v \in Seq(V) /\ Len(v) = n /\ n \in Nat /\ i \in 1 .. n  OBVIOUS
<1>2. \A j \in 1 .. n : j # i => u[j] = v[j]
  <2>1. ASSUME NEW j \in 1 .. n, j # i PROVE u[j] = v[j]
    <3>1. CASE j <= Len(s)  BY <2>1, <3>1
    <3>2. CASE j > i  BY <2>1, <3>2
    <3> QED BY <2>1, <3>1, <3>2
  <2> QED BY <2>1
<1>3. v[i] = x  OBVIOUS
<1>4. [u EXCEPT ![i] = x] = [j \in 1 .. n |-> IF j = i THEN x ELSE u[j]]
  <2>1. DOMAIN u = 1 .. n /\ u = [j \in DOMAIN u |-> u[j]]
    <3> HIDE DEF u, n, i
    <3> QED BY <1>1
  <2> HIDE DEF u, n, i
  <2> QED BY <2>1
<1>5. v = [j \in 1 .. n |-> v[j]]
  <2> HIDE DEF v, n, i
  <2> QED BY <1>1
<1>6. [j \in 1 .. n |-> IF j = i THEN x ELSE u[j]] = [j \in 1 .. n |-> v[j]]
  <2> HIDE DEF u, v, n, i
  <2> QED BY <1>2, <1>3
<1>7. ReplaceAt(u, i, x) = v
  <2> HIDE DEF u, v, n, i
  <2> QED BY <1>4, <1>5, <1>6 DEF ReplaceAt
<1> QED BY <1>7 DEF Swapped

\* The first pair with a name, as FdtTree says it.
HasIn(ps, name) == \E j \in DOMAIN ps : ps[j][1] = name
PlaceIn(ps, name) == CHOOSE j \in DOMAIN ps : ps[j][1] = name /\ \A l \in 1 .. j - 1 : ps[l][1] # name

\* The first property with a name is where PlaceIn says.
LEMMA PlaceInIs ==
  ASSUME NEW n \in Nat, NEW ps, DOMAIN ps = 1 .. n, NEW name, NEW i \in 1 .. n,
         ps[i][1] = name, \A l \in 1 .. i - 1 : ps[l][1] # name
  PROVE  PlaceIn(ps, name) = i /\ HasIn(ps, name)
<1>1. ASSUME NEW j \in DOMAIN ps, ps[j][1] = name, \A l \in 1 .. j - 1 : ps[l][1] # name PROVE j = i
  <2>1. j \in 1 .. n  OBVIOUS
  <2>2. ~(j < i)
    <3>1. j < i => j \in 1 .. i - 1  BY <2>1
    <3> QED BY <1>1, <3>1
  <2>3. ~(i < j)
    <3>1. i < j => i \in 1 .. j - 1  BY <2>1
    <3> QED BY <1>1, <3>1
  <2> QED BY <2>1, <2>2, <2>3
<1> QED BY <1>1 DEF PlaceIn, HasIn

\* What fdt_get_property finds is the first pair with the name.
FoundAt(b, o, name, q, e) ==
  /\ q \in o + 1 .. e - 1 /\ At(b, q).tag = "prop" /\ q \in Properties(b, o)
  /\ HasIn(PropsOf(b, o), name) /\ PlaceIn(PropsOf(b, o), name) = Cardinality(Left(Properties(b, o), q)) + 1
  /\ PropsOf(b, o)[PlaceIn(PropsOf(b, o), name)] = <<name, Value(b, q)>> /\ PairAt(b, q) = <<name, Value(b, q)>>

\* fdt_get_property finds the first property of the name, or an error.
LEMMA PropPlace ==
  ASSUME NEW b \in Blobs, NEW k \in Nat, NEW e \in Nat, Holds(b, k, e), NEW o \in Nat, NEW name
  PROVE  \/ GetProperty(b, o, name) = BADOFFSET /\ CheckNodeOffset(b, o) < 0
         \/ GetProperty(b, o, name) = NOTFOUND /\ ~(CheckNodeOffset(b, o) < 0) /\ ~HasIn(PropsOf(b, o), name)
         \/ /\ ~(CheckNodeOffset(b, o) < 0) /\ GetProperty(b, o, name) \in Nat
            /\ FoundAt(b, o, name, GetProperty(b, o, name), e)
<1> DEFINE P == Properties(b, o)
           q == GetProperty(b, o, name)
           n == Cardinality(P)
           ps == PropsOf(b, o)
<1>1. P \in SUBSET Int /\ IsFiniteSet(P) /\ o \in Int /\ n \in Nat
  <2>1. P \in SUBSET Int /\ IsFiniteSet(P) /\ o \in Int  BY NodesAre
  <2> HIDE DEF P
  <2> QED BY <2>1, FS_CardinalityType
<1>2. ps = [j \in 1 .. n |-> PairAt(b, InOrder(P)[j])] /\ \A j \in 1 .. n : InOrder(P)[j] \in P
  <2>1. \A j \in 1 .. n : InOrder(P)[j] \in P
    <3>1. Sorted(InOrder(P), n, P)
      <4> HIDE DEF P
      <4> QED BY <1>1, InOrderSorted
    <3> HIDE DEF P, n
    <3> QED BY <3>1 DEF Sorted
  <2>2. \A j \in 1 .. n : Pairs(b)[InOrder(P)[j]] = PairAt(b, InOrder(P)[j])
    <3> HIDE DEF P, n
    <3> QED BY <1>1, <2>1 DEF Pairs
  <2> QED BY <2>1, <2>2 DEF PropsOf, InTurn
<1>3. \A j \in 1 .. n : ps[j][1] = StringAt(b, At(b, InOrder(P)[j]).x)  BY <1>2 DEF PairAt
<1>4. CASE ~(CheckNodeOffset(b, o) < 0) /\ HasIn(ps, name)
  <2>1. PICK j \in 1 .. n : ps[j][1] = name  BY <1>2, <1>4 DEF HasIn
  <2>2. \E p \in P : StringAt(b, At(b, p).x) = name  BY <1>2, <1>3, <2>1
  <2>3. q # NOTFOUND /\ q # BADOFFSET
    <3> DEFINE S == {p \in P : StringAt(b, At(b, p).x) = name}
    <3>1. S \in SUBSET Nat /\ S # {}
      <4>1. \A p \in P : p \in Nat
        <5>1. P = {p \in o + 1 .. e - 1 : At(b, p).tag = "prop" /\ \A y \in o + 1 .. p : At(b, y).tag \notin Edges}
          BY <1>1, NodesAre
        <5> QED BY <5>1
      <4> HIDE DEF P
      <4> QED BY <2>2, <4>1
    <3>2. q = Lowest(S, NOTFOUND)  BY <1>4 DEF GetProperty
    <3>3. q \in Nat
      <4> HIDE DEF S, q
      <4> QED BY <3>1, <3>2, LowestLemma
    <3> QED BY <3>3 DEF NOTFOUND, BADOFFSET
  <2>4. /\ q \in P /\ StringAt(b, At(b, q).x) = name
        /\ \A p \in P : StringAt(b, At(b, p).x) = name => q <= p
        /\ q \in o + 1 .. e - 1 /\ At(b, q).tag = "prop"
    <3> HIDE DEF P, q
    <3> QED BY <2>3, PropertyAt DEF P, q
  <2> DEFINE i == Cardinality(UpTo(P, q))
  <2>5. /\ i \in 1 .. n /\ InOrder(P)[i] = q
        /\ \A l \in 1 .. n : InOrder(P)[l] \in P /\ (InOrder(P)[l] < q <=> l < i)
    <3> HIDE DEF P, q
    <3> QED BY <1>1, <2>4, InOrderAt
  <2>6. ps[i] = PairAt(b, q) /\ ps[i][1] = name
    <3> HIDE DEF P, q, n, i, ps
    <3> QED BY <1>2, <1>3, <2>4, <2>5
  <2>7. ASSUME NEW l \in 1 .. i - 1 PROVE ps[l][1] # name
    <3>1. l \in 1 .. n /\ l < i
      <4> HIDE DEF i, n
      <4> QED BY <1>1, <2>5
    <3>2. InOrder(P)[l] \in P /\ InOrder(P)[l] < q /\ ps[l][1] = StringAt(b, At(b, InOrder(P)[l]).x)
      <4> HIDE DEF P, q, n, i, ps
      <4> QED BY <1>3, <2>5, <3>1
    <3>3. InOrder(P)[l] \in Int /\ q \in Int  BY <1>1, <2>4, <3>2
    <3>4. StringAt(b, At(b, InOrder(P)[l]).x) = name => q <= InOrder(P)[l]
      <4> HIDE DEF P, q, i
      <4> QED BY <2>4, <3>2
    <3> HIDE DEF P, q, n, i, ps
    <3> QED BY <3>2, <3>3, <3>4
  <2>8. PlaceIn(ps, name) = i
    <3>1. DOMAIN ps = 1 .. n  BY <1>2
    <3> HIDE DEF P, q, n, i, ps
    <3> QED BY <1>1, <2>5, <2>6, <2>7, <3>1, PlaceInIs
  <2>9. i = Cardinality(Left(P, q)) + 1
    <3>1. UpTo(P, q) = Left(P, q) \cup {q}
      <4>1. \A x \in P : x <= q <=> x < q \/ x = q  BY <1>1, <2>4
      <4> HIDE DEF P, q
      <4> QED BY <2>4, <4>1 DEF UpTo, Left
    <3>2. IsFiniteSet(Left(P, q)) /\ q \notin Left(P, q)
      <4>1. Left(P, q) \subseteq P  BY DEF Left
      <4>2. IsFiniteSet(Left(P, q))
        <5> HIDE DEF P, q
        <5> QED BY <1>1, <4>1, FS_Subset
      <4>3. q \in Int  BY <1>1, <2>4
      <4> HIDE DEF P, q
      <4> QED BY <4>2, <4>3 DEF Left
    <3> HIDE DEF P, q
    <3> QED BY <3>1, <3>2, FS_AddElement
  <2>10. PairAt(b, q) = <<name, Value(b, q)>>  BY <2>4 DEF PairAt
  <2>11. q \in Nat  BY <2>4
  <2> HIDE DEF P, q, n, i, ps
  <2> QED BY <1>4, <2>4, <2>6, <2>8, <2>9, <2>10, <2>11 DEF FoundAt, P, q, ps
<1>5. CASE ~(CheckNodeOffset(b, o) < 0) /\ ~HasIn(ps, name)
  <2>1. ~ \E p \in P : StringAt(b, At(b, p).x) = name
    <3>1. ASSUME NEW p \in P, StringAt(b, At(b, p).x) = name PROVE FALSE
      <4>1. PICK j \in 1 .. n : InOrder(P)[j] = p
        <5>1. Sorted(InOrder(P), n, P)
          <6> HIDE DEF P
          <6> QED BY <1>1, InOrderSorted
        <5> HIDE DEF P, n
        <5> QED BY <3>1, <5>1 DEF Sorted
      <4>2. ps[j][1] = name
        <5> HIDE DEF P, n, ps
        <5> QED BY <1>3, <3>1, <4>1
      <4>3. j \in DOMAIN ps  BY <1>2
      <4> HIDE DEF ps
      <4> QED BY <1>5, <4>2, <4>3 DEF HasIn
    <3> QED BY <3>1
  <2>2. q = NOTFOUND
    <3>1. {p \in P : StringAt(b, At(b, p).x) = name} = {}  BY <2>1
    <3> QED BY <1>5, <3>1 DEF GetProperty, Lowest
  <2> QED BY <1>5, <2>2
<1>6. CASE CheckNodeOffset(b, o) < 0  BY <1>6 DEF GetProperty
<1> QED BY <1>4, <1>5, <1>6

\* A node is what fdt_check_node_offset_ takes for one.
LEMMA NodeOffset ==
  ASSUME NEW b, NEW k \in Nat, NEW e \in Nat, Whole(b, k, e), NEW o \in Nat
  PROVE  /\ CheckNodeOffset(b, o) < 0 <=> o \notin Nodes(b)
         /\ o \notin Nodes(b) => CheckNodeOffset(b, o) = BADOFFSET
         /\ o \in Nodes(b) => /\ CheckNodeOffset(b, o) = NextTag(b, o)
                              /\ NextTag(b, o) \in o + 1 .. e
                              /\ o \in 0 .. e - 1 /\ At(b, o).tag = "begin"
<1>1. b \in Blobs /\ Holds(b, k, e) /\ InReach(b, e)  BY DEF Whole
<1>2. Nodes(b) = {q \in 0 .. e - 1 : At(b, q).tag = "begin"}  BY <1>1, NodesAre
<1>3. ASSUME o \in Nodes(b)
      PROVE  /\ CheckNodeOffset(b, o) = NextTag(b, o) /\ NextTag(b, o) \in o + 1 .. e
             /\ o \in 0 .. e - 1 /\ At(b, o).tag = "begin" /\ ~(CheckNodeOffset(b, o) < 0)
  <2>1. o \in 0 .. e - 1 /\ At(b, o).tag = "begin"  BY <1>2, <1>3
  <2>2. At(b, o).tag \in Opens  BY <2>1 DEF Opens
  <2>3. NextTag(b, o) \in o + 1 .. e /\ Tag(b, o) = "begin"  BY <1>1, <2>1, <2>2, TagAt
  <2>4. CheckNodeOffset(b, o) = NextTag(b, o)  BY <2>3 DEF CheckNodeOffset, Checked, Else
  <2> QED BY <2>1, <2>3, <2>4
<1>4. ASSUME o \notin Nodes(b) PROVE CheckNodeOffset(b, o) = BADOFFSET
  <2>1. Tag(b, o) # "begin"
    <3>1. ASSUME Tag(b, o) = "begin" PROVE FALSE
      <4>1. o \in 0 .. Size(b) - 1 /\ At(b, o).tag = "begin"  BY <3>1 DEF Tag
      <4>2. o \in 0 .. e - 1  BY <1>1, <4>1 DEF InReach
      <4> QED BY <1>2, <1>4, <4>1, <4>2
    <3> QED BY <3>1
  <2> QED BY <2>1 DEF CheckNodeOffset, Checked
<1>5. o \notin Nodes(b) => CheckNodeOffset(b, o) < 0  BY <1>4 DEF BADOFFSET
<1> QED BY <1>3, <1>4, <1>5

\* An edit of the properties of the node at o, the cells from a to c - 1 being a
\* property or nothing.
PropEdit(b, k, e, g, k2, e2, a, c, z, o) ==
  /\ Whole(b, k, e) /\ b.magic = "FDT" /\ b.version >= 16 /\ o \in Nodes(b) /\ o < a
  /\ Edited(b, k, e, g, k2, e2, a, c, z) /\ InReach(g, e2)
  /\ \A x \in o + 1 .. c - 1 : At(b, x).tag \notin Edges
  /\ \A x \in a .. z - 1 : At(g, x).tag \notin Edges

Node3(b, g, a, c, z, o) ==
  [NodeAs(b, o) EXCEPT !.props =
     (PairsAt(b, Left(Properties(b, o), a)) \o PairsAt(g, PropTags(g, a, z)))
       \o PairsAt(b, Right(Properties(b, o), c))]

\* An edit among the properties of a node changes its properties alone.
LEMMA PropEdited ==
  ASSUME NEW b, NEW k \in Nat, NEW e \in Nat, NEW g, NEW k2 \in Nat, NEW e2 \in Nat,
         NEW a \in Nat, NEW c \in Nat, NEW z \in Nat, NEW o \in Nat,
         PropEdit(b, k, e, g, k2, e2, a, c, z, o)
  PROVE  /\ Becomes(b, g, WithNode(b, NodeNo(b, o), Node3(b, g, a, c, z, o)))
         /\ NodeNo(b, o) \in DOMAIN TreeOf(b) /\ TreeOf(b)[NodeNo(b, o)] = NodeAs(b, o)
         /\ Parts3(b, g, a, c, z, o) /\ Decoded(b).tree = TreeOf(b)
<1>1. /\ Whole(b, k, e) /\ b.magic = "FDT" /\ b.version >= 16 /\ o \in Nodes(b) /\ o < a
      /\ Edited(b, k, e, g, k2, e2, a, c, z) /\ InReach(g, e2)
      /\ \A x \in o + 1 .. c - 1 : At(b, x).tag \notin Edges
      /\ \A x \in a .. z - 1 : At(g, x).tag \notin Edges
  BY DEF PropEdit
<1>2. EditOf(b, k, e, g, k2, a, c, z)  BY <1>1 DEF Edited
<1>3. a <= c /\ a <= z /\ c <= e /\ \A x \in 0 .. a - 1 : At(g, x) = At(b, x)  BY <1>2 DEF EditOf
<1>4. o \in 0 .. e - 1 /\ At(b, o).tag = "begin"  BY <1>1, NodeOffset
<1>5. EditIn(b, k, e, g, k2, a, c, z, o)
  <2>1. At(g, o).tag = "begin"
    <3>1. o \in 0 .. a - 1  BY <1>1
    <3> QED BY <1>3, <1>4, <3>1
  <2>2. ASSUME NEW x \in o + 1 .. z - 1 PROVE At(g, x).tag \notin Edges
    <3>1. CASE x < a
      <4>1. x \in 0 .. a - 1 /\ x \in o + 1 .. c - 1  BY <1>3, <3>1
      <4> QED BY <1>1, <1>3, <4>1
    <3>2. CASE a <= x
      <4>1. x \in a .. z - 1  BY <3>2
      <4> QED BY <1>1, <4>1
    <3> QED BY <3>1, <3>2
  <2>3. o <= a /\ o < c /\ o < z  BY <1>1, <1>3
  <2> QED BY <1>1, <1>2, <2>1, <2>2, <2>3 DEF EditIn
<1>6. /\ Becomes(b, g, WithNode(b, NodeNo(b, o), NodeAs(g, o))) /\ Decoded(b).tree = TreeOf(b)
      /\ NodeNo(b, o) \in DOMAIN TreeOf(b) /\ TreeOf(b)[NodeNo(b, o)] = NodeAs(b, o)
  <2>1. /\ Whole(b, k, e) /\ b.magic = "FDT" /\ b.version >= 16
        /\ Edited(b, k, e, g, k2, e2, a, c, z) /\ InReach(g, e2)
    BY <1>1
  <2>2. NodeEdited(b, k, e, g, k2, e2, a, c, z, o)  BY <2>1, <1>5 DEF NodeEdited
  <2>3. NodeDecoded(b, g, o)
    BY ONLY <2>2, EditInDecoded, k \in Nat, e \in Nat, k2 \in Nat, e2 \in Nat,
            a \in Nat, c \in Nat, z \in Nat
  <2> QED BY <2>3 DEF NodeDecoded
<1>7. Parts3(b, g, a, c, z, o)  BY <1>5, EditProps
<1>8. GetName(g, o) = GetName(b, o)
  <2>1. At(b, o).tag \in Opens /\ 0 = By(o, a, c, z) /\ o + 0 = o  BY <1>1, <1>4 DEF Opens, By
  <2>2. ReadThere(b, e, g, o, 0)  BY <1>1, <1>2, <1>4, <2>1, EditReads
  <2> QED BY <1>4, <2>1, <2>2 DEF ReadThere
<1>9. NodeAs(g, o).depth = NodeAs(b, o).depth
  <2>1. OthersRead(b, g, c, z, o)  BY <1>5, EditInNodes
  <2> QED BY <2>1 DEF OthersRead
<1>10. NodeAs(g, o) = Node3(b, g, a, c, z, o)
  <2> DEFINE ps == (PairsAt(b, Left(Properties(b, o), a)) \o PairsAt(g, PropTags(g, a, z)))
                     \o PairsAt(b, Right(Properties(b, o), c))
             d == NodeAs(b, o).depth
  <2>1. PropsOf(g, o) = ps  BY <1>7 DEF Parts3
  <2>2. Node3(b, g, a, c, z, o) = [NodeAs(b, o) EXCEPT !.props = ps]  BY DEF Node3
  <2>3. Depth(g, 0, o) = Depth(b, 0, o)  BY <1>9 DEF NodeAs
  <2> HIDE DEF ps, d
  <2> QED BY <2>1, <2>2, <2>3, <1>8 DEF NodeAs
<1> QED BY <1>6, <1>7, <1>10

\* The types of the lists in Parts3.
LEMMA PairsType ==
  ASSUME NEW b, NEW S, Numbers(S), NEW V, \A q \in S : PairAt(b, q) \in V
  PROVE  PairsAt(b, S) \in Seq(V) /\ Len(PairsAt(b, S)) = Cardinality(S)
<1>1. S \in SUBSET Int /\ IsFiniteSet(S)  BY DEF Numbers
<1>2. \A q \in S : Pairs(b)[q] \in V  BY <1>1 DEF Pairs
<1> DEFINE F == Pairs(b)
<1>3. \A q \in S : F[q] \in V  BY <1>2
<1> HIDE DEF F
<1>4. InTurn(S, F) \in Seq(V) /\ Len(InTurn(S, F)) = Cardinality(S)  BY <1>1, <1>3, InTurnType
<1> QED BY <1>4 DEF PairsAt, F

\* The pairs of one property, and of none.
LEMMA PairsOne ==
  ASSUME NEW b, NEW q \in Int
  PROVE  PairsAt(b, {q}) = <<PairAt(b, q)>> /\ PairsAt(b, {}) = <<>>
<1> DEFINE F == Pairs(b)
<1>1. F[q] = PairAt(b, q)  BY DEF Pairs
<1> HIDE DEF F
<1>2. InTurn({q}, F) = <<F[q]>> /\ InTurn({}, F) = <<>>  BY InTurnOne, InTurnNone
<1> QED BY <1>1, <1>2 DEF PairsAt, F

Without(b, o, name) ==
  [TreeOf(b) EXCEPT ![NodeNo(b, o)].props = RemoveAt(@, PlaceIn(@, name))]
Changed(b, o, name, v) ==
  [TreeOf(b) EXCEPT ![NodeNo(b, o)].props = ReplaceAt(@, PlaceIn(@, name), <<name, v>>)]
Added(b, o, name, v) ==
  [TreeOf(b) EXCEPT ![NodeNo(b, o)].props = <<<<name, v>>>> \o @]

WithProps(b, o, ps) == WithNode(b, NodeNo(b, o), [NodeAs(b, o) EXCEPT !.props = ps])

\* The three changes of a node's properties as one change of its list.
LEMMA PropsSet ==
  ASSUME NEW b, NEW o, NodeNo(b, o) \in DOMAIN TreeOf(b), TreeOf(b)[NodeNo(b, o)] = NodeAs(b, o),
         NEW name, NEW v
  PROVE  /\ Without(b, o, name) = WithProps(b, o, RemoveAt(PropsOf(b, o), PlaceIn(PropsOf(b, o), name)))
         /\ Changed(b, o, name, v) =
              WithProps(b, o, ReplaceAt(PropsOf(b, o), PlaceIn(PropsOf(b, o), name), <<name, v>>))
         /\ Added(b, o, name, v) = WithProps(b, o, <<<<name, v>>>> \o PropsOf(b, o))
<1>1. TreeOf(b)[NodeNo(b, o)].props = PropsOf(b, o)  BY DEF NodeAs
<1> DEFINE i == NodeNo(b, o)
           t == TreeOf(b)
<1>2. t[i] = NodeAs(b, o) /\ t[i].props = PropsOf(b, o)  BY <1>1
<1>3. Without(b, o, name) = [t EXCEPT ![i] = [t[i] EXCEPT !.props = RemoveAt(t[i].props, PlaceIn(t[i].props, name))]]
  BY DEF Without
<1>4. Changed(b, o, name, v) =
        [t EXCEPT ![i] = [t[i] EXCEPT !.props = ReplaceAt(t[i].props, PlaceIn(t[i].props, name), <<name, v>>)]]
  BY DEF Changed
<1>5. Added(b, o, name, v) = [t EXCEPT ![i] = [t[i] EXCEPT !.props = <<<<name, v>>>> \o t[i].props]]
  BY DEF Added
<1> QED BY <1>2, <1>3, <1>4, <1>5 DEF WithProps, WithNode

\* No property, no pair.
LEMMA PairsNone ==
  ASSUME NEW b
  PROVE  PairsAt(b, {}) = <<>>
<1>1. 0 \in Int  OBVIOUS
<1> QED BY <1>1, PairsOne

\* The lists around a property that is there.
Between(b, o, name, q, c) ==
  LET P == Properties(b, o)
  IN  \E V : /\ PairsAt(b, Left(P, q)) \in Seq(V) /\ PairsAt(b, Right(P, c)) \in Seq(V)
             /\ <<name, Value(b, q)>> \in V
             /\ PropsOf(b, o) = (PairsAt(b, Left(P, q)) \o <<<<name, Value(b, q)>>>>)
                                \o PairsAt(b, Right(P, c))
             /\ PlaceIn(PropsOf(b, o), name) = Len(PairsAt(b, Left(P, q))) + 1

\* The property found splits the list of properties where PlaceIn says.
LEMMA PropBetween ==
  ASSUME NEW b, NEW f, NEW e \in Nat, NEW c \in Nat, NEW z \in Nat, NEW o \in Nat, NEW name,
         NEW q \in Nat, FoundAt(b, o, name, q, e), Parts3(b, f, q, c, z, o), PropTags(b, q, c) = {q}
  PROVE  Between(b, o, name, q, c)
<1> DEFINE P == Properties(b, o)
           V == {PairAt(b, x) : x \in P}
           S == Left(P, q)
           T == Right(P, c)
<1>1. P \in SUBSET Int /\ IsFiniteSet(P)  BY DEF Parts3
<1>2. S \in SUBSET P /\ T \in SUBSET P  BY DEF Left, Right
<1>3. Numbers(S) /\ Numbers(T)  BY <1>1, <1>2, FS_Subset DEF Numbers
<1>4. (\A x \in S : PairAt(b, x) \in V) /\ (\A x \in T : PairAt(b, x) \in V)  BY <1>2
<1>5. PairAt(b, q) = <<name, Value(b, q)>> /\ q \in P
      /\ PlaceIn(PropsOf(b, o), name) = Cardinality(S) + 1
  BY DEF FoundAt
<1>6. PropsOf(b, o) = (PairsAt(b, S) \o PairsAt(b, {q})) \o PairsAt(b, T)  BY DEF Parts3
<1>7. PairsAt(b, {q}) = <<PairAt(b, q)>>  BY PairsOne
<1>8. PairAt(b, q) \in V  BY <1>5
<1> HIDE DEF V, S, T
<1>9. PairsAt(b, S) \in Seq(V) /\ Len(PairsAt(b, S)) = Cardinality(S)  BY <1>3, <1>4, PairsType
<1>10. PairsAt(b, T) \in Seq(V)  BY <1>3, <1>4, PairsType
<1>11. \E W : /\ PairsAt(b, S) \in Seq(W) /\ PairsAt(b, T) \in Seq(W) /\ <<name, Value(b, q)>> \in W
              /\ PropsOf(b, o) = (PairsAt(b, S) \o <<<<name, Value(b, q)>>>>) \o PairsAt(b, T)
              /\ PlaceIn(PropsOf(b, o), name) = Len(PairsAt(b, S)) + 1
  BY <1>5, <1>6, <1>7, <1>8, <1>9, <1>10
<1> QED BY <1>11 DEF Between, S, T

\* An edit that takes the tag of a property away removes it from the tree.
LEMMA PropGone ==
  ASSUME NEW b, NEW k \in Nat, NEW e \in Nat, NEW g, NEW k2 \in Nat, NEW e2 \in Nat,
         NEW q \in Nat, NEW c \in Nat, NEW z \in Nat, NEW o \in Nat, NEW name,
         PropEdit(b, k, e, g, k2, e2, q, c, z, o), FoundAt(b, o, name, q, e),
         PropTags(b, q, c) = {q}, PropTags(g, q, z) = {}
  PROVE  Becomes(b, g, Without(b, o, name))
<1> DEFINE s == PairsAt(b, Left(Properties(b, o), q))
           t == PairsAt(b, Right(Properties(b, o), c))
<1>1. /\ Becomes(b, g, WithNode(b, NodeNo(b, o), Node3(b, g, q, c, z, o)))
      /\ NodeNo(b, o) \in DOMAIN TreeOf(b) /\ TreeOf(b)[NodeNo(b, o)] = NodeAs(b, o)
      /\ Parts3(b, g, q, c, z, o)
  BY PropEdited
<1>2. Between(b, o, name, q, c)  BY <1>1, PropBetween
<1>3. PICK V : /\ s \in Seq(V) /\ t \in Seq(V) /\ <<name, Value(b, q)>> \in V
               /\ PropsOf(b, o) = (s \o <<<<name, Value(b, q)>>>>) \o t
               /\ PlaceIn(PropsOf(b, o), name) = Len(s) + 1
  BY <1>2 DEF Between
<1>4. PairsAt(g, PropTags(g, q, z)) = <<>>  BY PairsNone
<1>5. Node3(b, g, q, c, z, o) = [NodeAs(b, o) EXCEPT !.props = (s \o <<>>) \o t]
  BY <1>4 DEF Node3
<1>6. Without(b, o, name) =
        WithProps(b, o, RemoveAt(PropsOf(b, o), PlaceIn(PropsOf(b, o), name)))
  BY <1>1, PropsSet
<1> HIDE DEF s, t
<1>7. RemoveAt((s \o <<<<name, Value(b, q)>>>>) \o t, Len(s) + 1) = (s \o <<>>) \o t
  BY <1>3, PlaceOut
<1>8. Without(b, o, name) = WithProps(b, o, (s \o <<>>) \o t)  BY <1>3, <1>6, <1>7
<1> QED BY <1>1, <1>5, <1>8 DEF WithProps

\* An edit that leaves the tag with another value changes the value.
LEMMA PropChanged ==
  ASSUME NEW b, NEW k \in Nat, NEW e \in Nat, NEW g, NEW k2 \in Nat, NEW e2 \in Nat,
         NEW q \in Nat, NEW c \in Nat, NEW z \in Nat, NEW o \in Nat, NEW name, NEW v,
         PropEdit(b, k, e, g, k2, e2, q, c, z, o), FoundAt(b, o, name, q, e),
         PropTags(b, q, c) = {q}, PropTags(g, q, z) = {q}, PairAt(g, q) = <<name, v>>
  PROVE  Becomes(b, g, Changed(b, o, name, v))
<1> DEFINE s == PairsAt(b, Left(Properties(b, o), q))
           t == PairsAt(b, Right(Properties(b, o), c))
<1>1. /\ Becomes(b, g, WithNode(b, NodeNo(b, o), Node3(b, g, q, c, z, o)))
      /\ NodeNo(b, o) \in DOMAIN TreeOf(b) /\ TreeOf(b)[NodeNo(b, o)] = NodeAs(b, o)
      /\ Parts3(b, g, q, c, z, o)
  BY PropEdited
<1>2. Between(b, o, name, q, c)  BY <1>1, PropBetween
<1>3. PICK V : /\ s \in Seq(V) /\ t \in Seq(V) /\ <<name, Value(b, q)>> \in V
               /\ PropsOf(b, o) = (s \o <<<<name, Value(b, q)>>>>) \o t
               /\ PlaceIn(PropsOf(b, o), name) = Len(s) + 1
  BY <1>2 DEF Between
<1>4. PairsAt(g, PropTags(g, q, z)) = <<<<name, v>>>>  BY PairsOne
<1>5. Node3(b, g, q, c, z, o) = [NodeAs(b, o) EXCEPT !.props = (s \o <<<<name, v>>>>) \o t]
  BY <1>4 DEF Node3
<1>6. Changed(b, o, name, v) =
        WithProps(b, o, ReplaceAt(PropsOf(b, o), PlaceIn(PropsOf(b, o), name), <<name, v>>))
  BY <1>1, PropsSet
<1> DEFINE W == V \cup {<<name, v>>}
<1> HIDE DEF s, t
<1>7. s \in Seq(W) /\ t \in Seq(W) /\ <<name, Value(b, q)>> \in W /\ <<name, v>> \in W  BY <1>3
<1> HIDE DEF W
<1>8. ReplaceAt((s \o <<<<name, Value(b, q)>>>>) \o t, Len(s) + 1, <<name, v>>) =
        (s \o <<<<name, v>>>>) \o t
  <2> DEFINE p == <<name, Value(b, q)>>
             x == <<name, v>>
  <2>1. p \in W /\ x \in W  BY <1>7
  <2> HIDE DEF p, x
  <2>2. Swapped(s, p, x, t)  BY <1>7, <2>1, PlaceNew
  <2> QED BY <2>2 DEF p, x, Swapped
<1>9. Changed(b, o, name, v) = WithProps(b, o, (s \o <<<<name, v>>>>) \o t)  BY <1>3, <1>6, <1>8
<1> QED BY <1>1, <1>5, <1>9 DEF WithProps

\* An edit that puts a tag before all others adds a first property.
LEMMA PropAdded ==
  ASSUME NEW b, NEW k \in Nat, NEW e \in Nat, NEW g, NEW k2 \in Nat, NEW e2 \in Nat,
         NEW q \in Nat, NEW z \in Nat, NEW o \in Nat, NEW name, NEW v,
         PropEdit(b, k, e, g, k2, e2, q, q, z, o), Left(Properties(b, o), q) = {},
         PropTags(g, q, z) = {q}, PairAt(g, q) = <<name, v>>
  PROVE  Becomes(b, g, Added(b, o, name, v))
<1> DEFINE t == PairsAt(b, Right(Properties(b, o), q))
           P == Properties(b, o)
           V == {PairAt(b, x) : x \in P} \cup {<<name, v>>}
           T == Right(P, q)
<1>1. /\ Becomes(b, g, WithNode(b, NodeNo(b, o), Node3(b, g, q, q, z, o)))
      /\ NodeNo(b, o) \in DOMAIN TreeOf(b) /\ TreeOf(b)[NodeNo(b, o)] = NodeAs(b, o)
      /\ Parts3(b, g, q, q, z, o)
  BY PropEdited
<1>2. PairsAt(g, PropTags(g, q, z)) = <<<<name, v>>>>  BY PairsOne
<1>3. PairsAt(b, Left(P, q)) = <<>>  BY PairsNone
<1>4. PropTags(b, q, q) = {}  BY DEF PropTags
<1>5. PairsAt(b, PropTags(b, q, q)) = <<>>  BY <1>4, PairsNone
<1>6. PropsOf(b, o) = (<<>> \o <<>>) \o t  BY <1>1, <1>3, <1>5 DEF Parts3
<1>7. Numbers(T) /\ \A x \in T : PairAt(b, x) \in V
  <2>1. T \in SUBSET P  BY DEF Right
  <2> QED BY <2>1, <1>1, FS_Subset DEF Parts3, Numbers
<1>8. <<name, v>> \in V  OBVIOUS
<1> HIDE DEF V, T
<1>9. t \in Seq(V)
  <2>1. PairsAt(b, T) \in Seq(V)  BY <1>7, PairsType
  <2> QED BY <2>1 DEF T
<1>10. Node3(b, g, q, q, z, o) = [NodeAs(b, o) EXCEPT !.props = (<<>> \o <<<<name, v>>>>) \o t]
  BY <1>2, <1>3 DEF Node3
<1>11. Added(b, o, name, v) = WithProps(b, o, <<<<name, v>>>> \o PropsOf(b, o))  BY <1>1, PropsSet
<1> HIDE DEF t
<1>12. (<<>> \o <<>>) \o t = t /\ <<>> \o <<<<name, v>>>> = <<<<name, v>>>>  BY <1>8, <1>9
<1>13. Added(b, o, name, v) = WithProps(b, o, (<<>> \o <<<<name, v>>>>) \o t)
  BY <1>6, <1>11, <1>12
<1> QED BY <1>1, <1>10, <1>13 DEF WithProps

-----------------------------------------------------------------------------
\* The calls that remove a property, and those that write in place.

\* A splice of the structure fails only for want of room.
SpliceErr(b, oldlen, newlen, r) ==
  \/ r.err = 0
  \/ r.err = NOSPACE /\ r.fdt = b /\ r.err # 0 /\ newlen > oldlen

\* A splice of the structure fails only for want of room.
LEMMA StructSpliceErr ==
  ASSUME NEW b \in Blobs, NEW k \in Nat, NEW e \in Nat, Holds(b, k, e), RwCheckHeader(b) = 0,
         NEW o \in Nat, NEW oldlen \in Nat, NEW newlen \in Nat, o + oldlen <= e
  PROVE  SpliceErr(b, oldlen, newlen, SpliceStruct(b, o, oldlen, newlen))
<1> DEFINE p == b.off_dt_struct + o
           r == Splice(b, p, oldlen, newlen)
<1>1. /\ b.off_dt_struct + e + 1 <= b.off_dt_strings /\ b.off_dt_strings <= DataSize(b)
      /\ DataSize(b) \in Nat /\ DataSize(b) <= b.totalsize
  BY RsvRoom
<1>2. b.off_dt_struct \in Nat /\ b.off_dt_strings \in Nat /\ b.totalsize \in 0 .. MaxSize /\ MaxSize \in Nat
  BY BlobFields, FdtRwAssumption
<1>3. p \in Nat /\ p + oldlen <= DataSize(b)  BY <1>1, <1>2
<1>4. ~(p + oldlen > DataSize(b)) /\ ~(DataSize(b) - oldlen + newlen < 0)  BY <1>1, <1>3
<1>5. CASE DataSize(b) - oldlen + newlen > b.totalsize
  <2>1. newlen > oldlen  BY <1>1, <1>2, <1>5
  <2>2. r = Fail(NOSPACE, b)  BY <1>4, <1>5 DEF Splice
  <2>3. r.err = NOSPACE /\ r.fdt = b /\ NOSPACE # 0  BY <2>2 DEF Fail, NOSPACE
  <2>4. SpliceStruct(b, o, oldlen, newlen) = r  BY <2>3 DEF SpliceStruct, AndThen
  <2> QED BY <2>1, <2>3, <2>4 DEF SpliceErr
<1>6. CASE ~(DataSize(b) - oldlen + newlen > b.totalsize)
  <2>1. r.err = 0  BY <1>4, <1>6 DEF Splice, Done
  <2>2. SpliceStruct(b, o, oldlen, newlen).err = 0  BY <2>1 DEF SpliceStruct, AndThen, Done
  <2> QED BY <2>2 DEF SpliceErr
<1> QED BY <1>5, <1>6

\* No tag lies within the name or the value of another.
LEMMA ElemInside ==
  ASSUME NEW m, NEW p \in Int, NEW n \in Int, Elem(m, p, n), NEW i \in p + 1 .. n - 1
  PROVE  m[i].tag \notin Opens /\ m[i].tag # "end"
BY DEF Elem

\* The cells of the property at q of the node at o.
Spanned(b, e, o, q, c) ==
  /\ c \in q + 1 .. e /\ NextTag(b, q) = c /\ PropTags(b, q, c) = {q} /\ o < q
  /\ \A x \in o + 1 .. c - 1 : At(b, x).tag \notin Edges
  /\ \A x \in q + 1 .. c - 1 : At(b, x).tag \notin Opens
  /\ Net(b, q, c) = 0 /\ Run(b.mem, b.off_dt_struct, b.off_dt_struct + q)
  /\ NoEnd(b, q, c)

\* The cells of a property found: its tag and its value, within its node.
LEMMA PropSpan ==
  ASSUME NEW b \in Blobs, NEW k \in Nat, NEW e \in Nat, Holds(b, k, e), NEW o \in Nat, NEW name,
         NEW q \in Nat, FoundAt(b, o, name, q, e), NEW c, c = q + 1 + Units(At(b, q).y)
  PROVE  Spanned(b, e, o, q, c)
<1>1. q \in o + 1 .. e - 1 /\ q \in 0 .. e - 1 /\ At(b, q).tag = "prop" /\ q \in Properties(b, o)
  BY DEF FoundAt
<1>2. At(b, q).tag \in Opens  BY <1>1 DEF Opens
<1>3. /\ NextTag(b, q) = c /\ c \in q + 1 .. e
      /\ Elem(b.mem, b.off_dt_struct + q, b.off_dt_struct + c)
      /\ Run(b.mem, b.off_dt_struct, b.off_dt_struct + q)
  BY <1>1, <1>2, TagAt, PropertyEnds
<1>4. \A x \in q + 1 .. c - 1 : At(b, x).tag \notin Opens /\ At(b, x).tag # "end"
  <2>1. ASSUME NEW x \in q + 1 .. c - 1 PROVE At(b, x).tag \notin Opens /\ At(b, x).tag # "end"
    <3>1. b.off_dt_struct \in Nat  BY BlobFields
    <3>2. b.off_dt_struct + x \in b.off_dt_struct + q + 1 .. b.off_dt_struct + c - 1  BY <1>3, <3>1
    <3>3. b.off_dt_struct + q \in Int /\ b.off_dt_struct + c \in Int  BY <1>3, <3>1
    <3>4. b.off_dt_struct + x \in (b.off_dt_struct + q) + 1 .. (b.off_dt_struct + c) - 1  BY <1>3, <3>1
    <3> QED BY <1>3, <3>3, <3>4, ElemInside DEF At
  <2> QED BY <2>1
<1>5. \A x \in o + 1 .. q : At(b, x).tag \notin Edges
  <2>1. o \in Int  OBVIOUS
  <2> QED BY <1>1, <2>1, NodesAre
<1>6. ASSUME NEW x \in o + 1 .. c - 1 PROVE At(b, x).tag \notin Edges
  <2>1. x \in o + 1 .. q \/ x \in q + 1 .. c - 1  BY <1>1, <1>3
  <2> QED BY <1>4, <1>5, <2>1 DEF Edges, Opens
<1>7. PropTags(b, q, c) = {q}
  <2>1. ASSUME NEW x \in q .. c - 1, x # q PROVE At(b, x).tag # "prop"
    <3>1. x \in q + 1 .. c - 1  BY <2>1
    <3> QED BY <1>4, <3>1 DEF Opens
  <2>2. q \in q .. c - 1  BY <1>3
  <2> QED BY <1>1, <2>1, <2>2 DEF PropTags
<1>8. Net(b, q, c) = 0
  <2>1. ASSUME NEW x \in q .. c - 1 PROVE At(b, x).tag \notin {"begin", "end_node"}
    <3>1. x \in o + 1 .. c - 1  BY <1>1
    <3> QED BY <1>6, <3>1 DEF Edges
  <2> QED BY <2>1, NetNone
<1>9. NoEnd(b, q, c)
  <2>1. ASSUME NEW x \in q .. c - 1 PROVE At(b, x).tag # "end"
    <3>1. x = q \/ x \in q + 1 .. c - 1  BY <1>3
    <3> QED BY <1>1, <1>4, <3>1
  <2> QED BY <2>1 DEF NoEnd
<1>10. o < q  BY <1>1
<1> QED BY <1>3, <1>4, <1>6, <1>7, <1>8, <1>9, <1>10 DEF Spanned

\* A call that a blob's header or its node refuses.
NotWritten(b, r) == RwCheckHeader(b) # 0 /\ r = Fail(RwCheckHeader(b), b)
NoNode(b, o, r) == o \notin Nodes(b) /\ r = Fail(BADOFFSET, b)
NoProp(b, o, name, r) == o \in Nodes(b) /\ ~HasIn(PropsOf(b, o), name) /\ r = Fail(NOTFOUND, b)

DelPropOutcome(b, o, name, r) ==
  \/ NotWritten(b, r)
  \/ RwCheckHeader(b) = 0 /\ (NoNode(b, o, r) \/ NoProp(b, o, name, r))
  \/ /\ RwCheckHeader(b) = 0 /\ o \in Nodes(b) /\ HasIn(PropsOf(b, o), name) /\ r.err = 0
     /\ Becomes(b, r.fdt, Without(b, o, name))

\* fdt_delprop removes the property, or fails and changes nothing.
LEMMA DelPropDoes ==
  ASSUME NEW b, NEW k \in Nat, NEW e \in Nat, Whole(b, k, e), b.magic = "FDT", b.version >= 16,
         NEW o \in Nat, NEW name
  PROVE  DelPropOutcome(b, o, name, DelProp(b, o, name))
<1> DEFINE q == GetProperty(b, o, name)
           r == DelProp(b, o, name)
<1>1. b \in Blobs /\ Holds(b, k, e)  BY DEF Whole
<1>2. CASE RwCheckHeader(b) # 0
  BY <1>2 DEF DelProp, Guarded, DelPropOutcome, NotWritten
<1>3. CASE RwCheckHeader(b) = 0 /\ q = BADOFFSET /\ CheckNodeOffset(b, o) < 0
  <2>1. r = Fail(BADOFFSET, b)  BY <1>3 DEF DelProp, Guarded, BADOFFSET
  <2>2. o \notin Nodes(b)  BY <1>3, NodeOffset
  <2> QED BY <1>3, <2>1, <2>2 DEF DelPropOutcome, NoNode
<1>4. CASE RwCheckHeader(b) = 0 /\ q = NOTFOUND /\ ~(CheckNodeOffset(b, o) < 0) /\ ~HasIn(PropsOf(b, o), name)
  <2>1. r = Fail(NOTFOUND, b)  BY <1>4 DEF DelProp, Guarded, NOTFOUND
  <2>2. o \in Nodes(b)  BY <1>4, NodeOffset
  <2> QED BY <1>4, <2>1, <2>2 DEF DelPropOutcome, NoProp
<1>5. CASE RwCheckHeader(b) = 0 /\ ~(CheckNodeOffset(b, o) < 0) /\ q \in Nat /\ FoundAt(b, o, name, q, e)
  <2> DEFINE c == q + 1 + Units(At(b, q).y)
             g == r.fdt
  <2> HIDE DEF q
  <2>1. Spanned(b, e, o, q, c)  BY <1>1, <1>5, PropSpan
  <2>2. c \in q + 1 .. e /\ c \in Nat /\ Run(b.mem, b.off_dt_struct, b.off_dt_struct + q) /\ Net(b, q, c) = 0
    BY <1>5, <2>1 DEF Spanned
  <2>3. At(b, q).y \in Nat
    <3>1. q \in 0 .. e - 1 /\ At(b, q).tag = "prop"  BY <1>5 DEF FoundAt
    <3> QED BY <1>1, <3>1, ValueLemma
  <2>4. c - q = 1 + Units(At(b, q).y) /\ c - q \in Nat /\ Units(At(b, q).y) \in Nat
    <3>1. Units(At(b, q).y) \in Nat  BY <2>3, UnitsLemma
    <3> QED BY <1>5, <3>1
  <2>5. r = SpliceStruct(b, q, c - q, 0)
    <3>1. ~(q < 0)  BY <1>5
    <3>2. r = SpliceStruct(b, q, 1 + Units(At(b, q).y), 0)  BY <1>5, <3>1 DEF DelProp, Guarded, q
    <3> QED BY <2>4, <3>2
  <2>6. r.err = 0
    <3>1. SpliceErr(b, c - q, 0, SpliceStruct(b, q, c - q, 0))
      <4>1. q + (c - q) <= e  BY <1>5, <2>2
      <4> QED BY <1>1, <1>5, <2>4, <4>1, StructSpliceErr
    <3> QED BY <2>4, <2>5, <3>1 DEF SpliceErr
  <2>7. Fine(g)  BY <1>1, DelPropFine
  <2>8. StructLeaves(b, q, c - q, 0, r)
    <3>1. c - q <= b.size_dt_struct  BY <1>1, <1>5, <2>2, RsvRoom
    <3> QED BY <1>1, <1>5, <2>4, <2>5, <3>1, SpliceStructEffect
  <2>9. g \in Blobs /\ g.magic = "FDT" /\ g.version = b.version
    BY <2>6, <2>8 DEF StructLeaves, Resized
  <2>10. PICK k2 \in Nat, e2 \in Nat : Holds(g, k2, e2)  BY <2>7, <2>9 DEF Fine
  <2>11. NoEnd(g, q, q) /\ Net(g, q, q) = Net(b, q, c) /\ PropTags(g, q, q) = {}
    BY <1>5, <2>2, NetEmpty DEF NoEnd, PropTags
  <2>12. Edited(b, k, e, g, k2, e2, q, c, q)
    <3>1. SameHeader(SpliceStruct(b, q, c - q, 0).fdt, g)  BY <2>5 DEF SameHeader
    <3>2. q = q + 0 /\ q <= q /\ q <= c /\ c <= e /\ 0 < c  BY <1>5, <2>2
    <3>3. SpliceStruct(b, q, c - q, 0).err = 0 /\ g = SpliceStruct(b, q, c - q, 0).fdt  BY <2>5, <2>6
    <3>4. SplicedTo(b, g, q, q, c, 0, q)  BY <3>1, <3>2, <3>3 DEF SplicedTo
    <3> HIDE DEF c, g, r
    <3> QED BY <1>1, <1>5, <2>2, <2>9, <2>10, <2>11, <3>2, <3>4, SpliceEdit
  <2>13. InReach(g, e2)
    <3>1. g.version = 17  BY <1>1, <1>5, <2>9, Writable
    <3> QED BY <2>9, <2>10, <3>1, ReachOfSize
  <2>14. o \in Nodes(b)  BY <1>5, NodeOffset
  <2>15. PropEdit(b, k, e, g, k2, e2, q, c, q, o)
    <3>1. \A x \in q .. q - 1 : At(g, x).tag \notin Edges  BY <1>5
    <3>2. o < q /\ \A x \in o + 1 .. c - 1 : At(b, x).tag \notin Edges  BY <2>1 DEF Spanned
    <3> HIDE DEF c, g, r
    <3> QED BY <2>12, <2>13, <2>14, <3>1, <3>2 DEF PropEdit
  <2>16. PropTags(b, q, c) = {q}  BY <2>1 DEF Spanned
  <2>17. Becomes(b, g, Without(b, o, name))
    <3> HIDE DEF c, g, r
    <3> QED BY <1>5, <2>2, <2>10, <2>11, <2>15, <2>16, PropGone
  <2>18. HasIn(PropsOf(b, o), name)  BY <1>5 DEF FoundAt
  <2> QED BY <1>5, <2>6, <2>14, <2>17, <2>18 DEF DelPropOutcome
<1> QED BY <1>1, <1>2, <1>3, <1>4, <1>5, PropPlace

\* Writing between a and c leaves the rest.
Beyond(b, g, a, c) ==
  \A q \in Memory : q < b.off_dt_struct + a \/ q >= b.off_dt_struct + c => g.mem[q] = b.mem[q]

\* No node appears beyond END when cells before it are written.
LEMMA PutReach ==
  ASSUME NEW b \in Blobs, NEW k \in Nat, NEW e \in Nat, Holds(b, k, e), InReach(b, e),
         NEW g \in Blobs, SameHeader(b, g), NEW a \in Nat, NEW c \in Nat, c <= e, Beyond(b, g, a, c)
  PROVE  InReach(g, e)
<1>1. Size(b) \in Int /\ b.off_dt_struct + Size(b) <= b.totalsize  BY EndIs
<1>2. b.off_dt_struct \in Nat /\ b.totalsize \in Nat  BY BlobFields, FdtRwAssumption
<1>3. ASSUME NEW q \in 0 .. Size(b) - 1, At(g, q).tag = "begin"
      PROVE  q \in 0 .. e - 1 \/ At(b, q).tag = "begin"
  <2>1. CASE q < c  BY <1>1, <2>1
  <2>2. CASE ~(q < c)
    <3>1. b.off_dt_struct + q \in Nat /\ b.off_dt_struct + q < b.totalsize  BY <1>1, <1>2
    <3>2. b.off_dt_struct + q \in Memory  BY <3>1, MemoryCells
    <3>3. g.mem[b.off_dt_struct + q] = b.mem[b.off_dt_struct + q]  BY <1>1, <1>2, <2>2, <3>2 DEF Beyond
    <3>4. g.off_dt_struct = b.off_dt_struct  BY DEF SameHeader
    <3> QED BY <1>3, <3>3, <3>4 DEF At
  <2> QED BY <2>1, <2>2
<1> QED BY <1>3, ReachOfSame

\* The edit in place of a property's cells.
Calm(g, a, c) == \A x \in a .. c - 1 : At(g, x).tag \notin Edges /\ At(g, x).tag # "end"

\* Writing over the cells of a property is an edit within its node.
LEMMA PutPropEdit ==
  ASSUME NEW b, NEW k \in Nat, NEW e \in Nat, Whole(b, k, e), b.magic = "FDT", b.version >= 16,
         NEW o \in Nodes(b), NEW q \in Nat, NEW c, Spanned(b, e, o, q, c),
         NEW g \in Blobs, SameHeader(b, g), Fine(g), Beyond(b, g, q, c), Calm(g, q, c)
  PROVE  \E k2, e2 \in Nat : PropEdit(b, k, e, g, k2, e2, q, c, c, o) /\ Holds(g, k2, e2)
<1>1. b \in Blobs /\ Holds(b, k, e) /\ InReach(b, e)  BY DEF Whole
<1>2. g.magic = "FDT"  BY DEF SameHeader
<1>3. PICK k2 \in Nat, e2 \in Nat : Holds(g, k2, e2)  BY <1>2 DEF Fine
<1>4. /\ c \in q + 1 .. e /\ c \in Nat /\ Run(b.mem, b.off_dt_struct, b.off_dt_struct + q)
      /\ Net(b, q, c) = 0 /\ o < q /\ \A x \in o + 1 .. c - 1 : At(b, x).tag \notin Edges
  BY DEF Spanned
<1>5. NoEnd(g, q, c)  BY DEF NoEnd, Calm
<1>6. \A x \in q .. c - 1 : At(g, x).tag \notin Edges  BY DEF Calm
<1>7. Net(g, q, c) = Net(b, q, c)
  <2>1. Net(g, q, c) = 0  BY <1>6, NetNone DEF Edges
  <2> QED BY <1>4, <2>1
<1>8. Edited(b, k, e, g, k2, e2, q, c, c)
  <2>1. q <= c /\ c <= e /\ 0 < c  BY <1>4
  <2>2. \A x \in Memory : x < b.off_dt_struct + q \/ x >= b.off_dt_struct + c => g.mem[x] = b.mem[x]
    BY DEF Beyond
  <2> QED BY <1>1, <1>3, <1>4, <1>5, <1>7, <2>1, <2>2, PutEdit
<1>9. e2 = e  BY <1>4, <1>8 DEF Edited
<1>10. InReach(g, e2)
  <2>1. c <= e  BY <1>4
  <2>2. InReach(g, e)  BY <1>1, <1>4, <2>1, PutReach
  <2> QED BY <1>9, <2>2
<1>11. PropEdit(b, k, e, g, k2, e2, q, c, c, o)
  BY <1>4, <1>6, <1>8, <1>10 DEF PropEdit
<1> QED BY <1>3, <1>11

NopPropOutcome(b, o, name, r) ==
  \/ NoNode(b, o, r) \/ NoProp(b, o, name, r)
  \/ /\ o \in Nodes(b) /\ HasIn(PropsOf(b, o), name) /\ r.err = 0
     /\ Becomes(b, r.fdt, Without(b, o, name))

Nops(len) == [i \in 1 .. len |-> Cell("nop", 0, 0)]

Nopped(b, g, q, c) ==
  /\ g \in Blobs /\ SameHeader(b, g) /\ Beyond(b, g, q, c)
  /\ \A x \in q .. c - 1 : b.off_dt_struct + x \in Memory => At(g, x).tag = "nop"

\* What _fdt_nop_region leaves.
LEMMA NopPut ==
  ASSUME NEW b \in Blobs, NEW q \in Nat, NEW len \in Nat, NEW c, c = q + len
  PROVE  Nopped(b, NopRegion(b, q, len), q, c)
<1> DEFINE g == NopRegion(b, q, len)
           s == Nops(len)
           at == b.off_dt_struct + q
<1>1. s \in Seq(Cells) /\ Len(s) = len /\ \A i \in 1 .. len : s[i].tag = "nop"
  <2>1. Cell("nop", 0, 0) \in Cells /\ Cell("nop", 0, 0).tag = "nop"  BY DEF Cell, Cells, Tags
  <2>2. s \in [1 .. len -> Cells]  BY <2>1 DEF Nops
  <2>3. s \in Seq(Cells) /\ Len(s) = len  BY <2>2, FunSeq
  <2> QED BY <2>1, <2>3 DEF Nops
<1>2. g = Put(b, at, s)  BY DEF NopRegion, Nops
<1>3. b.off_dt_struct \in Nat /\ at \in Nat  BY BlobFields
<1> HIDE DEF g, s
<1>4. /\ g \in Blobs /\ SameHeader(b, g)
      /\ \A p \in Memory : p \in at .. at + len - 1 => g.mem[p] = s[p - at + 1]
      /\ \A p \in Memory : p \notin at .. at + len - 1 => g.mem[p] = b.mem[p]
  <2>1. PutMade(b, at, s, g)  BY <1>1, <1>2, <1>3, PutHeader
  <2> QED BY <1>1, <2>1 DEF PutMade
<1>5. Beyond(b, g, q, c)
  <2>1. ASSUME NEW x \in Memory, x < b.off_dt_struct + q \/ x >= b.off_dt_struct + c
        PROVE  g.mem[x] = b.mem[x]
    <3>1. x \notin at .. at + len - 1  BY <1>3, <2>1
    <3> QED BY <1>4, <3>1
  <2> QED BY <2>1 DEF Beyond
<1>6. ASSUME NEW x \in q .. c - 1, b.off_dt_struct + x \in Memory PROVE At(g, x).tag = "nop"
  <2>1. g.off_dt_struct = b.off_dt_struct  BY <1>4 DEF SameHeader
  <2>2. b.off_dt_struct + x \in at .. at + len - 1 /\ b.off_dt_struct + x - at + 1 \in 1 .. len  BY <1>3
  <2>3. PICK p \in Memory : p = b.off_dt_struct + x  BY <1>6
  <2>4. p \in at .. at + len - 1 /\ p - at + 1 \in 1 .. len  BY <1>3, <2>2, <2>3
  <2> HIDE DEF at
  <2>5. g.mem[p] = s[p - at + 1]  BY <1>4, <2>4
  <2>6. At(g, x) = s[p - at + 1]  BY <2>1, <2>3, <2>5 DEF At
  <2> QED BY <1>1, <2>4, <2>6
<1> QED BY <1>4, <1>5, <1>6 DEF g, Nopped

\* fdt_nop_property removes the property, or fails and changes nothing.
LEMMA NopPropDoes ==
  ASSUME NEW b, NEW k \in Nat, NEW e \in Nat, Whole(b, k, e), b.magic = "FDT", b.version >= 16,
         NEW o \in Nat, NEW name
  PROVE  NopPropOutcome(b, o, name, NopProperty(b, o, name))
<1> DEFINE q == GetProperty(b, o, name)
           r == NopProperty(b, o, name)
<1>1. b \in Blobs /\ Holds(b, k, e)  BY DEF Whole
<1>2. CASE q = BADOFFSET /\ CheckNodeOffset(b, o) < 0
  <2>1. r = Fail(BADOFFSET, b)  BY <1>2 DEF NopProperty, BADOFFSET
  <2>2. o \notin Nodes(b)  BY <1>2, NodeOffset
  <2> QED BY <1>2, <2>1, <2>2 DEF NopPropOutcome, NoNode
<1>3. CASE q = NOTFOUND /\ ~(CheckNodeOffset(b, o) < 0) /\ ~HasIn(PropsOf(b, o), name)
  <2>1. r = Fail(NOTFOUND, b)  BY <1>3 DEF NopProperty, NOTFOUND
  <2>2. o \in Nodes(b)  BY <1>3, NodeOffset
  <2> QED BY <1>3, <2>1, <2>2 DEF NopPropOutcome, NoProp
<1>4. CASE ~(CheckNodeOffset(b, o) < 0) /\ q \in Nat /\ FoundAt(b, o, name, q, e)
  <2> DEFINE c == q + 1 + Units(At(b, q).y)
             g == r.fdt
             len == 1 + Units(At(b, q).y)
  <2>0. r = Done(NopRegion(b, q, len))
    <3>1. ~(q < 0)  BY <1>4
    <3> QED BY <3>1 DEF NopProperty
  <2> HIDE DEF q
  <2>1. Spanned(b, e, o, q, c)  BY <1>1, <1>4, PropSpan
  <2>2. c \in q + 1 .. e /\ PropTags(b, q, c) = {q} /\ c \in Nat  BY <1>4, <2>1 DEF Spanned
  <2>3. len \in Nat /\ c = q + len
    <3>1. q \in 0 .. e - 1 /\ At(b, q).tag = "prop"  BY <1>4 DEF FoundAt
    <3>2. At(b, q).y \in Nat  BY <1>1, <3>1, ValueLemma
    <3>3. Units(At(b, q).y) \in Nat  BY <3>2, UnitsLemma
    <3> QED BY <1>4, <3>3
  <2>4. g = NopRegion(b, q, len) /\ r.err = 0  BY <2>0 DEF Done
  <2> HIDE DEF g, r, c, len
  <2>5. /\ g \in Blobs /\ SameHeader(b, g) /\ Beyond(b, g, q, c)
        /\ \A x \in q .. c - 1 : b.off_dt_struct + x \in Memory => At(g, x).tag = "nop"
    <3>1. Nopped(b, g, q, c)  BY <1>1, <1>4, <2>3, <2>4, NopPut
    <3> QED BY <3>1 DEF Nopped
  <2>6. \A x \in q .. c - 1 : At(g, x).tag = "nop"
    <3>1. b.off_dt_struct \in Nat /\ Size(b) \in Int /\ e + 1 <= Size(b) /\ b.off_dt_struct + Size(b) <= b.totalsize
      BY <1>1, EndIs, BlobFields
    <3>3. b.totalsize \in Nat  BY <1>1, BlobFields, FdtRwAssumption
    <3>2. ASSUME NEW x \in q .. c - 1 PROVE b.off_dt_struct + x \in Memory
      <4>1. b.off_dt_struct + x \in Nat /\ b.off_dt_struct + x < b.totalsize  BY <1>4, <2>2, <3>1, <3>3
      <4> QED BY <1>1, <4>1, MemoryCells
    <3> QED BY <2>5, <3>2
  <2>7. Calm(g, q, c) /\ PropTags(g, q, c) = {}  BY <2>6 DEF Calm, PropTags, Edges
  <2>8. Fine(g)  BY <1>1, NopPropertyFine DEF g, r
  <2>9. o \in Nodes(b)  BY <1>4, NodeOffset
  <2>10. PICK k2 \in Nat, e2 \in Nat : PropEdit(b, k, e, g, k2, e2, q, c, c, o) /\ Holds(g, k2, e2)
    BY <1>4, <2>1, <2>5, <2>7, <2>8, <2>9, PutPropEdit
  <2>11. Becomes(b, g, Without(b, o, name))  BY <1>4, <2>2, <2>7, <2>10, PropGone
  <2>12. HasIn(PropsOf(b, o), name)  BY <1>4 DEF FoundAt
  <2> QED BY <2>4, <2>9, <2>11, <2>12 DEF NopPropOutcome, g, r
<1> QED BY <1>1, <1>2, <1>3, <1>4, PropPlace

\* A property with the value w at q.
ValueHere(g, q, z, x, w) ==
  /\ At(g, q).tag = "prop" /\ At(g, q).x = x /\ At(g, q).y = Len(w)
  /\ z = q + 1 + Units(Len(w)) /\ \A i \in 1 .. Units(Len(w)) : At(g, q + i) = Bytes(w)[i]

ValueMeans(g, q, z, w) ==
  /\ Calm(g, q, z) /\ PropTags(g, q, z) = {q} /\ Value(g, q) = w /\ z \in Nat /\ z > q
  /\ Net(g, q, z) = 0 /\ NoEnd(g, q, z)

\* A property put into cells is read back and opens nothing.
LEMMA ValueHereMeans ==
  ASSUME NEW g, NEW q \in Nat, NEW w \in Seq(Nat), NEW z, NEW x, ValueHere(g, q, z, x, w)
  PROVE  ValueMeans(g, q, z, w)
<1> DEFINE u == Units(Len(w))
<1>1. u \in Nat /\ \A i \in 1 .. u : Bytes(w)[i].tag = "data"  BY BytesLemma
<1>2. At(g, q).tag = "prop" /\ z = q + 1 + u /\ At(g, q).y = Len(w)
      /\ \A i \in 1 .. u : At(g, q + i) = Bytes(w)[i]
  BY DEF ValueHere
<1> HIDE DEF u
<1>3. ASSUME NEW y \in q .. z - 1, y # q PROVE At(g, y).tag = "data"
  <2>1. y - q \in 1 .. u /\ q + (y - q) = y  BY <1>1, <1>2, <1>3
  <2>2. At(g, q + (y - q)) = Bytes(w)[y - q]  BY <1>2, <2>1
  <2> QED BY <1>1, <2>1, <2>2
<1>4. z \in Nat /\ z > q /\ q \in q .. z - 1  BY <1>1, <1>2
<1>5. Calm(g, q, z) /\ NoEnd(g, q, z)  BY <1>2, <1>3 DEF Calm, Edges, NoEnd
<1>6. PropTags(g, q, z) = {q}  BY <1>2, <1>3, <1>4 DEF PropTags
<1>7. Net(g, q, z) = 0
  <2>1. \A y \in q .. z - 1 : At(g, y).tag \notin {"begin", "end_node"}  BY <1>5 DEF Calm, Edges
  <2> QED BY <2>1, NetNone
<1>8. Value(g, q) = w  BY <1>2, ValueIs DEF u
<1> QED BY <1>4, <1>5, <1>6, <1>7, <1>8 DEF ValueMeans

\* Writing a value of the length the property has.
LEMMA PutValueEffect ==
  ASSUME NEW b \in Blobs, NEW k \in Nat, NEW e \in Nat, Holds(b, k, e),
         NEW q \in 0 .. e - 1, At(b, q).tag = "prop", NEW w \in Seq(Nat), Len(w) = At(b, q).y,
         NEW c, c = q + 1 + Units(At(b, q).y),
         NEW g, g = Put(b, b.off_dt_struct + q + 1, Bytes(w))
  PROVE  /\ g \in Blobs /\ SameHeader(b, g) /\ Beyond(b, g, q, c)
         /\ ValueHere(g, q, c, At(b, q).x, w) /\ Fine(g)
<1> DEFINE u == Units(Len(w))
           at == b.off_dt_struct + q + 1
<1>1. /\ Bytes(w) \in Seq(Cells) /\ Len(Bytes(w)) = u /\ u \in Nat
      /\ \A i \in 1 .. u : Bytes(w)[i].tag = "data"
  BY BytesLemma
<1>2. Fine(g)  BY <1>1, PutValueFine
<1>3. b.off_dt_struct \in Nat /\ at \in Nat /\ at = b.off_dt_struct + q + 1  BY BlobFields
<1>4. c = q + 1 + u /\ c <= e  BY PropertyEnds
<1>5. b.off_dt_struct + e + 1 <= b.totalsize /\ b.totalsize \in Nat  BY BlobFields, FdtRwAssumption DEF Holds
<1> HIDE DEF u, at
<1>6. /\ g \in Blobs /\ SameHeader(b, g)
      /\ \A p \in Memory : p \in at .. at + u - 1 => g.mem[p] = Bytes(w)[p - at + 1]
      /\ \A p \in Memory : p \notin at .. at + u - 1 => g.mem[p] = b.mem[p]
  <2> DEFINE cells == Bytes(w)
  <2>1. g = Put(b, at, cells) /\ cells \in Seq(Cells) /\ Len(cells) = u  BY <1>1 DEF at
  <2> HIDE DEF cells
  <2>2. /\ Put(b, at, cells) \in Blobs /\ SameHeader(b, Put(b, at, cells))
        /\ \A p \in Memory : p \in at .. at + Len(cells) - 1 =>
             Put(b, at, cells).mem[p] = cells[p - at + 1]
        /\ \A p \in Memory : p \notin at .. at + Len(cells) - 1 =>
             Put(b, at, cells).mem[p] = b.mem[p]
    <3>1. PutMade(b, at, cells, Put(b, at, cells))  BY <1>3, <2>1, PutHeader
    <3> QED BY <3>1 DEF PutMade
  <2> QED BY <2>1, <2>2 DEF cells
<1>7. Beyond(b, g, q, c)
  <2>1. ASSUME NEW x \in Memory, x < b.off_dt_struct + q \/ x >= b.off_dt_struct + c
        PROVE  g.mem[x] = b.mem[x]
    <3>1. x \in Nat  BY DEF Memory
    <3>2. x \notin at .. at + u - 1  BY <1>1, <1>3, <1>4, <2>1, <3>1
    <3> QED BY <1>6, <3>2
  <2> QED BY <2>1 DEF Beyond
<1>8. g.off_dt_struct = b.off_dt_struct  BY <1>6 DEF SameHeader
<1>9. At(g, q) = At(b, q)
  <2>1. PICK p \in Nat : p = b.off_dt_struct + q  BY <1>3
  <2>2. p \in Memory
    <3>1. p < b.totalsize  BY <1>3, <1>5, <2>1
    <3> QED BY <3>1, MemoryCells
  <2>3. p \notin at .. at + u - 1  BY <1>1, <1>3, <2>1
  <2>4. g.mem[p] = b.mem[p]  BY <1>6, <2>2, <2>3
  <2> QED BY <1>8, <2>1, <2>4 DEF At
<1>10. ASSUME NEW i \in 1 .. u PROVE At(g, q + i) = Bytes(w)[i]
  <2>1. PICK p \in Nat : p = b.off_dt_struct + (q + i)  BY <1>3
  <2>2. p \in Memory
    <3> DEFINE st == b.off_dt_struct
               tot == b.totalsize
    <3>1. /\ st \in Nat /\ q \in Nat /\ i \in Nat /\ i <= u /\ u \in Nat /\ e \in Nat /\ tot \in Nat
          /\ p = st + (q + i) /\ c = q + 1 + u /\ c <= e /\ st + e + 1 <= tot
      BY <1>1, <1>3, <1>4, <1>5, <1>10, <2>1
    <3>2. p < tot
      <4> HIDE DEF st, tot
      <4> QED BY ONLY <3>1
    <3> QED BY <3>2, MemoryCells
  <2>3. p \in at .. at + u - 1 /\ p - at + 1 = i
    <3> DEFINE st == b.off_dt_struct
    <3>1. st \in Nat /\ at = st + q + 1 /\ p = st + (q + i) /\ q \in Nat /\ i \in 1 .. u /\ u \in Nat
      BY <1>1, <1>3, <2>1
    <3> HIDE DEF st
    <3> QED BY <3>1
  <2>4. g.mem[p] = Bytes(w)[p - at + 1]  BY <1>6, <2>2, <2>3
  <2> QED BY <1>8, <2>1, <2>3, <2>4 DEF At
<1>11. ValueHere(g, q, c, At(b, q).x, w)  BY <1>4, <1>9, <1>10 DEF ValueHere, u
<1> QED BY <1>2, <1>6, <1>7, <1>11

\* The value in a list of properties, and that value with v written over it from idx on.
OldIn(ps, name) == ps[PlaceIn(ps, name)][2]
Over(old, idx, v) == [i \in DOMAIN old |-> IF i \in idx + 1 .. idx + Len(v) THEN v[i - idx] ELSE old[i]]

\* Overwriting a part keeps the length; overwriting all gives the new value.
LEMMA OverType ==
  ASSUME NEW old \in Seq(Nat), NEW idx \in Nat, NEW v \in Seq(Nat)
  PROVE  /\ Over(old, idx, v) \in Seq(Nat) /\ Len(Over(old, idx, v)) = Len(old)
         /\ idx = 0 /\ Len(v) = Len(old) => Over(old, idx, v) = v
<1> DEFINE n == Len(old)
           new == Over(old, idx, v)
<1>1. n \in Nat /\ DOMAIN old = 1 .. n /\ \A i \in 1 .. n : old[i] \in Nat  OBVIOUS
<1>2. Len(v) \in Nat /\ \A i \in 1 .. Len(v) : v[i] \in Nat  OBVIOUS
<1>3. \A i \in 1 .. n : IF i \in idx + 1 .. idx + Len(v) THEN i - idx \in 1 .. Len(v) ELSE TRUE
  BY <1>1, <1>2
<1>4. \A i \in 1 .. n : (IF i \in idx + 1 .. idx + Len(v) THEN v[i - idx] ELSE old[i]) \in Nat
  <2> HIDE DEF n
  <2> QED BY <1>1, <1>2, <1>3
<1>5. new = [i \in 1 .. n |-> IF i \in idx + 1 .. idx + Len(v) THEN v[i - idx] ELSE old[i]]
  BY <1>1 DEF Over
<1>6. new \in [1 .. n -> Nat]
  <2> HIDE DEF n, new
  <2> QED BY <1>4, <1>5
<1>7. new \in Seq(Nat) /\ Len(new) = n
  <2> HIDE DEF n, new
  <2> QED BY <1>1, <1>6, FunSeq
<1>8. ASSUME idx = 0, Len(v) = Len(old) PROVE new = v
  <2>1. v = [i \in 1 .. n |-> v[i]]  BY <1>8
  <2>2. \A i \in 1 .. n : (IF i \in idx + 1 .. idx + Len(v) THEN v[i - idx] ELSE old[i]) = v[i]
    BY <1>1, <1>8
  <2> HIDE DEF n, new
  <2> QED BY <1>5, <2>1, <2>2
<1> QED BY <1>7, <1>8

HasNode(b, o, name) == o \in Nodes(b) /\ HasIn(PropsOf(b, o), name)

PartialOutcome(b, o, name, idx, v, r) ==
  \/ NoNode(b, o, r) \/ NoProp(b, o, name, r)
  \/ /\ HasNode(b, o, name) /\ Len(OldIn(PropsOf(b, o), name)) < idx + Len(v)
     /\ r = Fail(NOSPACE, b)
  \/ /\ HasNode(b, o, name) /\ ~(Len(OldIn(PropsOf(b, o), name)) < idx + Len(v)) /\ r.err = 0
     /\ Becomes(b, r.fdt, Changed(b, o, name, Over(OldIn(PropsOf(b, o), name), idx, v)))

\* fdt_setprop_inplace_namelen_partial changes a part of the value, or nothing.
LEMMA PartialDoes ==
  ASSUME NEW b, NEW k \in Nat, NEW e \in Nat, Whole(b, k, e), b.magic = "FDT", b.version >= 16,
         NEW o \in Nat, NEW name, NEW idx \in Nat, NEW v \in Seq(Nat)
  PROVE  PartialOutcome(b, o, name, idx, v, SetpropInplacePartial(b, o, name, idx, v))
<1> DEFINE q == GetProperty(b, o, name)
           r == SetpropInplacePartial(b, o, name, idx, v)
<1>1. b \in Blobs /\ Holds(b, k, e)  BY DEF Whole
<1>2. r = IF q < 0 THEN Fail(q, b)
          ELSE IF At(b, q).y < Len(v) + idx THEN Fail(NOSPACE, b)
          ELSE Done(Put(b, b.off_dt_struct + q + 1, Bytes(Over(Value(b, q), idx, v))))
  BY DEF SetpropInplacePartial, Over
<1> HIDE DEF r
<1>3. CASE q = BADOFFSET /\ CheckNodeOffset(b, o) < 0
  <2>1. r = Fail(BADOFFSET, b)  BY <1>2, <1>3 DEF BADOFFSET
  <2>2. o \notin Nodes(b)  BY <1>3, NodeOffset
  <2> QED BY <1>3, <2>1, <2>2 DEF PartialOutcome, NoNode, r
<1>4. CASE q = NOTFOUND /\ ~(CheckNodeOffset(b, o) < 0) /\ ~HasIn(PropsOf(b, o), name)
  <2>1. r = Fail(NOTFOUND, b)  BY <1>2, <1>4 DEF NOTFOUND
  <2>2. o \in Nodes(b)  BY <1>4, NodeOffset
  <2> QED BY <1>4, <2>1, <2>2 DEF PartialOutcome, NoProp, r
<1>5. CASE ~(CheckNodeOffset(b, o) < 0) /\ q \in Nat /\ FoundAt(b, o, name, q, e)
  <2> DEFINE c == q + 1 + Units(At(b, q).y)
             old == Value(b, q)
             w == Over(old, idx, v)
             g == Put(b, b.off_dt_struct + q + 1, Bytes(w))
  <2> HIDE DEF q
  <2>1. Spanned(b, e, o, q, c)  BY <1>1, <1>5, PropSpan
  <2>2. c \in q + 1 .. e /\ PropTags(b, q, c) = {q} /\ c \in Nat  BY <1>5, <2>1 DEF Spanned
  <2>3. /\ q \in 0 .. e - 1 /\ At(b, q).tag = "prop" /\ HasIn(PropsOf(b, o), name)
        /\ OldIn(PropsOf(b, o), name) = old /\ PairAt(b, q) = <<name, old>>
    <3>1. PropsOf(b, o)[PlaceIn(PropsOf(b, o), name)] = <<name, old>>  BY <1>5 DEF FoundAt
    <3> QED BY <1>5, <3>1 DEF FoundAt, OldIn
  <2>4. old \in Seq(Nat) /\ Len(old) = At(b, q).y /\ At(b, q).y \in Nat  BY <1>1, <2>3, ValueLemma
  <2>5. o \in Nodes(b) /\ HasNode(b, o, name)  BY <1>5, <2>3, NodeOffset DEF HasNode
  <2>6. ~(q < 0)  BY <1>5
  <2>7. Len(v) \in Nat  OBVIOUS
  <2>8. CASE At(b, q).y < Len(v) + idx
    <3>1. r = Fail(NOSPACE, b)  BY <1>2, <2>6, <2>8
    <3>2. Len(old) < idx + Len(v)  BY <2>4, <2>7, <2>8
    <3> QED BY <2>3, <2>5, <3>1, <3>2 DEF PartialOutcome, r
  <2>9. CASE ~(At(b, q).y < Len(v) + idx)
    <3>1. r = Done(g)  BY <1>2, <2>6, <2>9
    <3>2. ~(Len(old) < idx + Len(v))  BY <2>4, <2>7, <2>9
    <3>3. w \in Seq(Nat) /\ Len(w) = At(b, q).y  BY <2>4, OverType
    <3> HIDE DEF g, w, c, old
    <3>4. /\ g \in Blobs /\ SameHeader(b, g) /\ Beyond(b, g, q, c)
          /\ ValueHere(g, q, c, At(b, q).x, w) /\ Fine(g)
      <4>1. g = Put(b, b.off_dt_struct + q + 1, Bytes(w)) /\ c = q + 1 + Units(At(b, q).y)  BY DEF g, c
      <4> QED BY <1>1, <2>3, <3>3, <4>1, PutValueEffect
    <3>5. ValueMeans(g, q, c, w)  BY <1>5, <3>3, <3>4, ValueHereMeans
    <3>6. Calm(g, q, c) /\ PropTags(g, q, c) = {q} /\ Value(g, q) = w  BY <3>5 DEF ValueMeans
    <3>7. PICK k2 \in Nat, e2 \in Nat : PropEdit(b, k, e, g, k2, e2, q, c, c, o) /\ Holds(g, k2, e2)
      BY <1>5, <2>1, <2>5, <3>4, <3>6, PutPropEdit
    <3>8. PairAt(g, q) = <<name, w>>
      <4>1. Keeps(b, g)  BY <3>7 DEF PropEdit, Edited, EditOf
      <4>2. StringAt(g, At(b, q).x) = StringAt(b, At(b, q).x)
        BY <1>1, <2>3, <3>4, <3>7, <4>1, StringSame
      <4>3. StringAt(b, At(b, q).x) = name  BY <2>3 DEF PairAt
      <4>4. At(g, q).x = At(b, q).x  BY <3>4 DEF ValueHere
      <4> QED BY <3>6, <4>2, <4>3, <4>4 DEF PairAt
    <3>9. Becomes(b, g, Changed(b, o, name, w))  BY <1>5, <2>2, <3>6, <3>7, <3>8, PropChanged
    <3>10. r.err = 0 /\ r.fdt = g  BY <3>1 DEF Done
    <3> QED BY <2>3, <2>5, <3>2, <3>9, <3>10 DEF PartialOutcome, r, w
  <2> QED BY <2>8, <2>9
<1> QED BY <1>1, <1>3, <1>4, <1>5, PropPlace

InplaceOutcome(b, o, name, v, r) ==
  \/ NoNode(b, o, r) \/ NoProp(b, o, name, r)
  \/ HasNode(b, o, name) /\ Len(OldIn(PropsOf(b, o), name)) # Len(v) /\ r = Fail(NOSPACE, b)
  \/ /\ HasNode(b, o, name) /\ Len(OldIn(PropsOf(b, o), name)) = Len(v) /\ r.err = 0
     /\ Becomes(b, r.fdt, Changed(b, o, name, v))

\* fdt_setprop_inplace changes the value, or nothing.
LEMMA InplaceDoes ==
  ASSUME NEW b, NEW k \in Nat, NEW e \in Nat, Whole(b, k, e), b.magic = "FDT", b.version >= 16,
         NEW o \in Nat, NEW name, NEW v \in Seq(Nat)
  PROVE  InplaceOutcome(b, o, name, v, SetpropInplace(b, o, name, v))
<1> DEFINE q == GetProperty(b, o, name)
           r == SetpropInplace(b, o, name, v)
           p == SetpropInplacePartial(b, o, name, 0, v)
           old == OldIn(PropsOf(b, o), name)
<1>1. b \in Blobs /\ Holds(b, k, e)  BY DEF Whole
<1>2. r = IF q < 0 \/ At(b, q).y = Len(v) THEN p ELSE Fail(NOSPACE, b)  BY DEF SetpropInplace
<1>3. PartialOutcome(b, o, name, 0, v, p)
  <2>1. 0 \in Nat  OBVIOUS
  <2> QED BY <2>1, PartialDoes
<1>4. (o \notin Nodes(b) \/ ~HasIn(PropsOf(b, o), name)) => q < 0
  <2>1. ASSUME ~(CheckNodeOffset(b, o) < 0) PROVE o \in Nodes(b)  BY <2>1, NodeOffset
  <2> QED BY <1>1, <2>1, PropPlace DEF BADOFFSET, NOTFOUND, FoundAt
<1>5. ASSUME HasNode(b, o, name)
      PROVE ~(q < 0) /\ Len(old) = At(b, q).y /\ old \in Seq(Nat)
  <2>1. o \in Nodes(b) /\ HasIn(PropsOf(b, o), name)  BY <1>5 DEF HasNode
  <2>2. ~(CheckNodeOffset(b, o) < 0)  BY <2>1, NodeOffset
  <2>3. q \in Nat /\ FoundAt(b, o, name, q, e)  BY <1>1, <2>1, <2>2, PropPlace
  <2> HIDE DEF q
  <2>4. q \in 0 .. e - 1 /\ At(b, q).tag = "prop"  BY <2>3 DEF FoundAt
  <2>5. Value(b, q) \in Seq(Nat) /\ Len(Value(b, q)) = At(b, q).y  BY <1>1, <2>4, ValueLemma
  <2>6. PropsOf(b, o)[PlaceIn(PropsOf(b, o), name)] = <<name, Value(b, q)>>  BY <2>3 DEF FoundAt
  <2>7. old = Value(b, q)  BY <2>6 DEF OldIn
  <2> QED BY <2>3, <2>5, <2>7
<1> HIDE DEF q, r, p
<1>6. CASE NoNode(b, o, p) \/ NoProp(b, o, name, p)
  <2>1. q < 0  BY <1>4, <1>6 DEF NoNode, NoProp
  <2>2. r = p  BY <1>2, <2>1
  <2> QED BY <1>6, <2>2 DEF InplaceOutcome, r
<1>7. CASE HasNode(b, o, name)
  <2>1. CASE Len(old) # Len(v)
    <3>1. r = Fail(NOSPACE, b)  BY <1>2, <1>5, <1>7, <2>1
    <3> QED BY <1>7, <2>1, <3>1 DEF InplaceOutcome, r
  <2>2. CASE Len(old) = Len(v)
    <3>1. r = p  BY <1>2, <1>5, <1>7, <2>2
    <3>2. Len(v) \in Nat /\ ~(Len(old) < 0 + Len(v))  BY <2>2
    <3>3. p.err = 0 /\ Becomes(b, p.fdt, Changed(b, o, name, Over(old, 0, v)))
      BY <1>3, <1>7, <3>2 DEF PartialOutcome, NoNode, NoProp, HasNode
    <3>4. Over(old, 0, v) = v
      <4>1. 0 \in Nat  OBVIOUS
      <4> HIDE DEF old
      <4> QED BY <1>5, <1>7, <2>2, <4>1, OverType
    <3> QED BY <1>7, <2>2, <3>1, <3>3, <3>4 DEF InplaceOutcome, r
  <2> QED BY <2>1, <2>2
<1> QED BY <1>3, <1>6, <1>7 DEF PartialOutcome

-----------------------------------------------------------------------------
\* Strings, and the calls that store a value.

\* A blob with the same cells of the structure has the same tree, wherever its
\* blocks are.
SameCells(b, e, g) == \A q \in 0 .. e : At(g, q) = At(b, q)

\* The same cells with the strings kept read as the same tree.
LEMMA CellsSame ==
  ASSUME NEW b, NEW k \in Nat, NEW e \in Nat, Whole(b, k, e),
         NEW g \in Blobs, NEW k2 \in Nat, NEW e2 \in Nat, Holds(g, k2, e2),
         SameCells(b, e, g), Keeps(b, g)
  PROVE  e2 = e /\ Shaped(g, e) /\ TreeOf(g) = TreeOf(b)
<1>1. b \in Blobs /\ Holds(b, k, e) /\ Shaped(b, e)  BY DEF Whole
<1>2. b.off_dt_struct \in Nat /\ Run(b.mem, b.off_dt_struct, b.off_dt_struct + e)
      /\ b.mem[b.off_dt_struct + e].tag = "end"
  BY <1>1, BlobFields DEF Holds
<1>3. At(b, e).tag = "end" /\ \A q \in 0 .. e - 1 : At(b, q).tag # "end"
  <2>1. ASSUME NEW q \in 0 .. e - 1 PROVE At(b, q).tag # "end"
    <3> DEFINE s == b.off_dt_struct
               t == s + e
               p == s + q
    <3>1. p \in s .. t - 1  BY <1>2
    <3> HIDE DEF p, t
    <3>2. b.mem[p].tag # "end"  BY <1>2, <3>1 DEF Run, t
    <3> QED BY <3>2 DEF At, p
  <2> QED BY <1>2, <2>1 DEF At
<1>4. At(g, e).tag = "end" /\ \A q \in 0 .. e - 1 : At(g, q).tag # "end"
  BY <1>3 DEF SameCells
<1>5. e2 = e  BY <1>4, EndMoved
<1>6. CASE e = 0
  <2>1. Net(g, 0, 0) = 0  BY NetEmpty
  <2>2. Shaped(g, e)  BY <1>6, <2>1 DEF Shaped
  <2>3. Nodes(b) = {} /\ Nodes(g) = {}
    <3>1. Nodes(b) = {q \in 0 .. e - 1 : At(b, q).tag = "begin"}  BY <1>1, NodesAre
    <3>2. Nodes(g) = {q \in 0 .. e - 1 : At(g, q).tag = "begin"}  BY <1>5, NodesAre
    <3> QED BY <1>6, <3>1, <3>2
  <2>4. TreeOf(g) = <<>> /\ TreeOf(b) = <<>>  BY <2>3, InTurnNone DEF TreeOf
  <2> QED BY <1>5, <2>2, <2>4
<1>7. CASE e # 0
  <2>0. 0 = e - e /\ e + (e - e) = e /\ 0 < e  BY <1>7
  <2>1. EditOf(b, k, e, g, k2, e, e, e)
    <3>1. \A q \in 0 .. e - 1 : At(g, q) = At(b, q)  BY DEF SameCells
    <3>2. \A q \in e .. e : At(g, q + (e - e)) = At(b, q)  BY DEF SameCells
    <3>3. Net(g, e, e) = 0 /\ Net(b, e, e) = 0  BY NetEmpty
    <3>4. Holds(g, k2, e + (e - e))  BY <1>5, <2>0
    <3> QED BY <1>1, <1>2, <1>7, <3>1, <3>2, <3>3, <3>4 DEF EditOf
  <2>2. Nodes(g) = Nodes(b)
    <3>1. Nodes(b) = {q \in 0 .. e - 1 : At(b, q).tag = "begin"}  BY <1>1, NodesAre
    <3>2. Nodes(g) = {q \in 0 .. e - 1 : At(g, q).tag = "begin"}  BY <1>5, NodesAre
    <3> QED BY <3>1, <3>2 DEF SameCells
  <2>3. ASSUME NEW o \in Nodes(b) PROVE NodeAs(g, o) = NodeAs(b, o)
    <3>1. o \in Int /\ o < e  BY <1>1, <2>3, NodesAre
    <3>2. (\A q \in Properties(b, o) : q < e) /\ (\A q \in Properties(g, o) : q < e)
      BY <1>1, <1>5, <3>1, NodesAre
    <3> QED BY <2>1, <3>1, <3>2, EditLeft
  <2>4. TreeOf(g) = TreeOf(b)
    <3> DEFINE F == NodesAs(b)
               G == NodesAs(g)
               S == Nodes(b)
    <3>1. S \in SUBSET Int /\ IsFiniteSet(S)  BY <1>1, NodesAre
    <3>2. \A q \in S : G[q] = F[q]  BY <2>3, <3>1 DEF NodesAs
    <3> HIDE DEF F, G, S
    <3>3. InTurn(S, G) = InTurn(S, F)  BY <3>1, <3>2, InTurnSame
    <3> QED BY <2>2, <3>3 DEF TreeOf, F, G, S
  <2>5. Shaped(g, e)
    <3>1. \A q \in 0 .. e : Net(g, 0, q) = Net(b, 0, q)
      <4>1. ASSUME NEW q \in 0 .. e PROVE Net(g, 0, q) = Net(b, 0, q)
        <5>1. \A p \in 0 .. q - 1 : At(g, p).tag = At(b, p).tag  BY DEF SameCells
        <5> QED BY <5>1, NetSame
      <4> QED BY <4>1
    <3>2. \A o \in 1 .. e - 1 : At(g, o).tag = "begin" => At(g, 0).tag = "begin" /\ Net(g, 0, o) >= 1
      BY <1>1, <3>1 DEF Shaped, SameCells
    <3>3. ASSUME NEW q \in 0 .. e - 1, At(g, q).tag = "prop" PROVE \E o \in 0 .. q - 1 : Owns(g, o, q)
      <4>1. At(b, q).tag = "prop"  BY <3>3 DEF SameCells
      <4>2. PICK o \in 0 .. q - 1 : Owns(b, o, q)  BY <1>1, <4>1 DEF Shaped
      <4>3. o \in 0 .. e /\ \A p \in o + 1 .. q : p \in 0 .. e  OBVIOUS
      <4>4. Owns(g, o, q)  BY <4>2, <4>3 DEF Owns, SameCells
      <4> QED BY <4>4
    <3>4. 0 \in 0 .. e /\ e \in 0 .. e  OBVIOUS
    <3> QED BY <1>1, <3>1, <3>2, <3>3, <3>4 DEF Shaped
  <2> QED BY <1>5, <2>4, <2>5
<1> QED BY <1>6, <1>7

\* What fdt_find_add_string does to a blob: nothing, or one more string.
StringAdded(b, k, e, name, s) ==
  /\ s.err = 0 \/ (s.err = NOSPACE /\ s.err # 0 /\ s.fdt = b)
  /\ s.fdt \in Blobs /\ Holds(s.fdt, k, e) /\ RwCheckHeader(s.fdt) = 0
  /\ SameCells(b, e, s.fdt) /\ Keeps(b, s.fdt)
  /\ s.fdt.off_dt_struct = b.off_dt_struct /\ s.fdt.magic = b.magic /\ s.fdt.version = 17
  /\ ReservedOf(s.fdt, k) = ReservedOf(b, k)
  /\ s.err = 0 => IsString(s.fdt.mem, s.fdt.off_dt_strings, s.fdt.size_dt_strings, s.at, name)

\* _fdt_find_add_string finds or adds the string, or fails for want of room.
LEMMA AddStringDoes ==
  ASSUME NEW b \in Blobs, NEW k \in Nat, NEW e \in Nat, Holds(b, k, e), RwCheckHeader(b) = 0,
         NEW name \in PropNames
  PROVE  StringAdded(b, k, e, name, FindAddString(b, name))
<1> DEFINE s == FindAddString(b, name)
           w == Len(Chars(name))
           z == DataSize(b)
           r == SpliceString(b, w)
           h == Splice(b, z, 0, w)
           str == b.off_dt_strings
           sl == b.size_dt_strings
<1>1. /\ s.fdt \in Blobs /\ Holds(s.fdt, k, e) /\ RwCheckHeader(s.fdt) = 0
      /\ s.fdt.off_dt_struct = b.off_dt_struct
      /\ \A q \in Nat : q < b.off_dt_strings => s.fdt.mem[q] = b.mem[q]
      /\ s.err = 0 => IsString(s.fdt.mem, s.fdt.off_dt_strings, s.fdt.size_dt_strings, s.at, name)
  BY FindAddStringLemma
<1>2. /\ b.off_mem_rsvmap + k + 1 <= b.off_dt_struct /\ b.off_dt_struct + e + 1 <= str
      /\ z = str + sl /\ z <= b.totalsize /\ str \in Nat /\ sl \in Nat /\ z \in Nat
      /\ b.off_mem_rsvmap \in Nat /\ b.off_dt_struct \in Nat /\ b.totalsize \in Nat
  BY RsvRoom, BlobFields, FdtRwAssumption
<1>3. SameCells(b, e, s.fdt)
  <2>1. ASSUME NEW q \in 0 .. e PROVE At(s.fdt, q) = At(b, q)
    <3>1. b.off_dt_struct + q \in Nat /\ b.off_dt_struct + q < str  BY <1>2
    <3>2. s.fdt.mem[b.off_dt_struct + q] = b.mem[b.off_dt_struct + q]  BY <1>1, <3>1
    <3> HIDE DEF s
    <3> QED BY <1>1, <3>2 DEF At
  <2> QED BY <2>1 DEF SameCells
<1>4. s.fdt.version = 17  BY <1>1, Writable
<1>5. CASE Found(b, name) # {}
  <2>1. s.fdt = b /\ s.err = 0  BY <1>5 DEF FindAddString
  <2> QED BY <1>1, <1>3, <1>4, <2>1 DEF StringAdded, Keeps
<1>6. CASE Found(b, name) = {}
  <2>0. name \in Seq(Nat \ {0})  BY FdtEditAssumption
  <2>1. w = Len(name) + 1 /\ w \in Nat /\ Chars(name) \in Seq(Cells)  BY <2>0, CharsLemma
  <2>2. s = [err |-> r.err, at |-> sl, fdt |-> IF r.err # 0 THEN b ELSE Put(r.fdt, z, Chars(name))]
    BY <1>6, <2>1 DEF FindAddString
  <2>3. r = IF h.err # 0 THEN h ELSE Done([h.fdt EXCEPT !.size_dt_strings = @ + w])
    BY DEF SpliceString, AndThen
  <2>4. h.err = 0 \/ (h.err = NOSPACE /\ h.err # 0 /\ h.fdt = b)
    <3>1. ~(z + 0 > z) /\ ~(z - 0 + w < 0)  BY <1>2, <2>1
    <3> QED BY <3>1 DEF Splice, Done, Fail, NOSPACE
  <2> HIDE DEF w, h, r, s
  <2>5. CASE h.err # 0
    <3>1. r = h  BY <2>3, <2>5
    <3>2. s.err = NOSPACE /\ s.err # 0 /\ s.fdt = b  BY <2>2, <2>4, <2>5, <3>1
    <3> QED BY <1>1, <1>3, <1>4, <3>2 DEF StringAdded, Keeps, s
  <2>6. CASE h.err = 0
    <3> DEFINE f == r.fdt
               g == s.fdt
    <3>1. r.err = 0 /\ f = [h.fdt EXCEPT !.size_dt_strings = @ + w] /\ g = Put(f, z, Chars(name))
          /\ s.err = 0
      BY <2>2, <2>3, <2>6 DEF Done
    <3>2. SpliceLeaves(b, z, 0, w, h)
      <4>1. 0 \in Nat /\ DataSize(b) <= b.totalsize  BY <1>2
      <4> HIDE DEF z
      <4> QED BY <1>2, <2>1, <4>1, SpliceEffect DEF h
    <3>3. PICK m \in [Memory -> Cells] :
            /\ h.fdt = [b EXCEPT !.mem = m]
            /\ \A q \in Memory : q < z + w => m[q] = b.mem[q]
      BY <2>6, <3>2 DEF SpliceLeaves
    <3>4. /\ h.fdt \in Blobs /\ h.fdt.mem = m /\ h.fdt.off_mem_rsvmap = b.off_mem_rsvmap
          /\ h.fdt.off_dt_strings = str /\ h.fdt.size_dt_strings = sl /\ h.fdt.magic = b.magic
      BY <3>3, MemEdit
    <3> HIDE DEF f
    <3>5. f \in Blobs /\ f.mem = m /\ f.off_mem_rsvmap = b.off_mem_rsvmap
          /\ f.off_dt_strings = str /\ f.size_dt_strings = sl + w /\ f.magic = b.magic
      <4> DEFINE v == h.fdt
      <4>1. f = [v EXCEPT !.size_dt_strings = sl + w] /\ sl + w \in Nat  BY <1>2, <2>1, <3>1, <3>4
      <4> HIDE DEF v
      <4> QED BY <3>4, <4>1 DEF Blobs, v
    <3>6. /\ Put(f, z, Chars(name)) \in Blobs /\ SameHeader(f, Put(f, z, Chars(name)))
          /\ \A p \in Memory : p \in z .. z + Len(Chars(name)) - 1 =>
               Put(f, z, Chars(name)).mem[p] = Chars(name)[p - z + 1]
          /\ \A p \in Memory : p \notin z .. z + Len(Chars(name)) - 1 =>
               Put(f, z, Chars(name)).mem[p] = f.mem[p]
      <4> HIDE DEF z
      <4>1. PutMade(f, z, Chars(name), Put(f, z, Chars(name)))  BY <1>2, <2>1, <3>5, PutHeader
      <4> QED BY <4>1 DEF PutMade
    <3>7. \A q \in Memory : q < z => g.mem[q] = b.mem[q]
      <4>1. ASSUME NEW q \in Memory, q < z PROVE g.mem[q] = b.mem[q]
        <5>1. q < z + w /\ q \notin z .. z + Len(Chars(name)) - 1  BY <1>2, <2>1, <4>1 DEF Memory
        <5>2. g.mem[q] = f.mem[q]  BY <3>1, <3>6, <5>1
        <5>3. m[q] = b.mem[q]  BY <3>3, <5>1
        <5> QED BY <3>5, <5>2, <5>3
      <4> QED BY <4>1
    <3>8. /\ g.off_dt_strings = str /\ g.size_dt_strings = sl + w /\ g.off_mem_rsvmap = b.off_mem_rsvmap
          /\ g.magic = b.magic
      BY <3>1, <3>5, <3>6 DEF SameHeader
    <3> HIDE DEF g
    <3>9. Keeps(b, g)
      <4>1. ASSUME NEW x, NEW n \in Seq(Nat \ {0}), IsString(b.mem, str, sl, x, n)
            PROVE  IsString(g.mem, str, sl + w, x, n)
        <5>1. \A q \in str .. str + sl - 1 : g.mem[q] = b.mem[q]
          <6>1. ASSUME NEW q \in str .. str + sl - 1 PROVE g.mem[q] = b.mem[q]
            <7>1. q \in Nat /\ q < z /\ q < b.totalsize
              <8>1. q \in str .. str + sl - 1  OBVIOUS
              <8> HIDE DEF str, sl, z
              <8> QED BY ONLY <1>2, <8>1
            <7> QED BY <3>7, <7>1, MemoryCells
          <6> QED BY <6>1
        <5>2. IsString(g.mem, str, sl, x, n)  BY <1>2, <4>1, <5>1, StringsStay
        <5>3. x \in Nat /\ x + Len(n) + 1 <= sl /\ Len(n) \in Nat  BY <5>2 DEF IsString
        <5>4. x + Len(n) + 1 <= sl + w  BY <1>2, <2>1, <5>3
        <5> QED BY <5>2, <5>4 DEF IsString
      <4> QED BY <3>8, <4>1 DEF Keeps
    <3>10. ReservedOf(g, k) = ReservedOf(b, k)
      <4>1. ASSUME NEW j \in 0 .. k PROVE g.mem[b.off_mem_rsvmap + j] = b.mem[b.off_mem_rsvmap + j]
        <5>1. b.off_mem_rsvmap + j \in Nat /\ b.off_mem_rsvmap + j < str  BY <1>2
        <5> QED BY <1>1, <5>1 DEF g
      <4>2. g \in Blobs /\ Holds(g, k, e)  BY <1>1 DEF g
      <4> QED BY <3>8, <4>1, <4>2, RsvKept
    <3> QED BY <1>1, <1>3, <1>4, <3>1, <3>8, <3>9, <3>10 DEF StringAdded, s, g
  <2> QED BY <2>5, <2>6
<1> QED BY <1>5, <1>6

\* A property written into the room made for it.
Filled(b, k, e, g, a, c, z, x, w) ==
  \E k2, e2 \in Nat : /\ Edited(b, k, e, g, k2, e2, a, c, z) /\ Holds(g, k2, e2) /\ InReach(g, e2)
                      /\ ValueHere(g, a, z, x, w) /\ g \in Blobs

\* Room made for a property and filled with it is an edit of the structure.
LEMMA RoomEdit ==
  ASSUME NEW b \in Blobs, NEW k \in Nat, NEW e \in Nat, Holds(b, k, e), RwCheckHeader(b) = 0,
         b.magic = "FDT", NEW a \in Nat, NEW i \in Nat, NEW c \in Nat, NEW newlen \in Nat,
         a <= i, i <= c, c <= e, 0 < c, NEW w \in Seq(Nat), NEW z \in Nat,
         z = i + newlen, z = a + 1 + Units(Len(w)),
         Run(b.mem, b.off_dt_struct, b.off_dt_struct + a), Net(b, a, c) = 0, NEW x \in Nat,
         NEW r, NEW o, NEW name, RoomIs(b, r, o, name, a, i, c, newlen, x, Len(w)), r.err = 0,
         NEW g, g = Put(r.fdt, ValueStart(r.fdt, o, name), Bytes(w)), Fine(g)
  PROVE  Filled(b, k, e, g, a, c, z, x, w)
<1> DEFINE s == SpliceStruct(b, i, c - i, newlen)
           st == b.off_dt_struct
           u == Units(Len(w))
           cell == Cell("prop", x, Len(w))
           cells == Bytes(w)
           f == r.fdt
           h == s.fdt
           p == st + a
           at == st + a + 1
<1>1. s.err = 0  BY DEF RoomIs
<1>2. f = Put(h, p, <<cell>>) /\ g = Put(f, at, cells)
  <2>1. r = Done(Put(h, p, <<cell>>)) /\ ValueStart(r.fdt, o, name) = at  BY <1>1 DEF RoomIs
  <2> QED BY <2>1 DEF Done
<1>3. /\ u \in Nat /\ cells \in Seq(Cells) /\ Len(cells) = u /\ \A j \in 1 .. u : cells[j].tag = "data"
  BY BytesLemma
<1>4. <<cell>> \in Seq(Cells) /\ Len(<<cell>>) = 1 /\ <<cell>>[1] = cell
  <2>1. cell \in Cells  BY DEF Cell, Cells, Tags
  <2> HIDE DEF cell
  <2> QED BY <2>1
<1>5. /\ st \in Nat /\ st + e + 1 <= b.off_dt_strings /\ b.size_dt_struct = e + 1
      /\ b.off_dt_strings \in Nat /\ b.size_dt_strings \in Nat
      /\ b.totalsize \in Nat /\ b.totalsize <= MaxSize /\ MaxSize \in Nat
  BY RsvRoom, BlobFields, FdtRwAssumption
<1>6. /\ h \in Blobs /\ Resized(b, h, newlen - (c - i)) /\ DataSize(h) <= b.totalsize
  <2> DEFINE l == c - i
  <2>1. l \in Nat /\ l <= b.size_dt_struct  BY <1>5
  <2> HIDE DEF l
  <2>2. StructLeaves(b, i, l, newlen, SpliceStruct(b, i, l, newlen))  BY <2>1, SpliceStructEffect
  <2> QED BY <1>1, <2>2 DEF StructLeaves, l
<1>u. z = a + 1 + u  BY DEF u
<1>v. st \in Nat /\ u \in Nat  BY <1>3, <1>5
<1>w. p = st + a /\ at = st + a + 1  BY DEF p, at
<1> HIDE DEF s, st, u, cell, cells, f, h, p, at
<1>7. p \in Nat /\ at \in Nat /\ p = st + a /\ at = p + 1 /\ z = a + 1 + u /\ at + u = st + z
  BY ONLY <1>u, <1>v, <1>w, a \in Nat, z \in Nat
<1>8. st + z + 1 <= MaxSize /\ MaxSize \in Nat
  <2> DEFINE strs == b.off_dt_strings
             sz == b.size_dt_strings
             tot == b.totalsize
             data == DataSize(h)
  <2>1. data = (strs + (newlen - (c - i))) + sz
    BY <1>6 DEF Resized, DataSize
  <2>2. /\ strs \in Nat /\ sz \in Nat /\ tot \in Nat /\ tot <= MaxSize /\ MaxSize \in Nat
        /\ st + e + 1 <= strs /\ data <= tot
    BY <1>5, <1>6
  <2> HIDE DEF strs, sz, tot, data
  <2>3. z = i + newlen /\ i \in Nat /\ newlen \in Nat /\ c \in Nat /\ c <= e /\ e \in Nat /\ z \in Nat
    OBVIOUS
  <2>4. data = strs + z - c + sz  BY ONLY <2>1, <2>2, <2>3
  <2> QED BY ONLY <1>v, <2>2, <2>3, <2>4
<1>9. /\ f \in Blobs /\ SameHeader(h, f)
      /\ \A q \in Memory : q \in p .. p + 1 - 1 => f.mem[q] = <<cell>>[q - p + 1]
      /\ \A q \in Memory : q \notin p .. p + 1 - 1 => f.mem[q] = h.mem[q]
  <2> DEFINE one == <<cell>>
  <2>1. one \in Seq(Cells) /\ Len(one) = 1  BY <1>4
  <2> HIDE DEF one
  <2>2. /\ Put(h, p, one) \in Blobs /\ SameHeader(h, Put(h, p, one))
        /\ \A q \in Memory : q \in p .. p + Len(one) - 1 => Put(h, p, one).mem[q] = one[q - p + 1]
        /\ \A q \in Memory : q \notin p .. p + Len(one) - 1 => Put(h, p, one).mem[q] = h.mem[q]
    <3>1. PutMade(h, p, one, Put(h, p, one))  BY <1>6, <1>7, <2>1, PutHeader
    <3> QED BY <3>1 DEF PutMade
  <2> QED BY <1>2, <2>1, <2>2 DEF one
<1>10. /\ g \in Blobs /\ SameHeader(f, g)
       /\ \A q \in Memory : q \in at .. at + u - 1 => g.mem[q] = cells[q - at + 1]
       /\ \A q \in Memory : q \notin at .. at + u - 1 => g.mem[q] = f.mem[q]
  <2>2. /\ Put(f, at, cells) \in Blobs /\ SameHeader(f, Put(f, at, cells))
        /\ \A q \in Memory : q \in at .. at + Len(cells) - 1 => Put(f, at, cells).mem[q] = cells[q - at + 1]
        /\ \A q \in Memory : q \notin at .. at + Len(cells) - 1 => Put(f, at, cells).mem[q] = f.mem[q]
    <3>1. PutMade(f, at, cells, Put(f, at, cells))  BY <1>3, <1>7, <1>9, PutHeader
    <3> QED BY <3>1 DEF PutMade
  <2> QED BY <1>2, <1>3, <2>2
<1>11. SameHeader(h, g) /\ g.magic = "FDT" /\ g.off_dt_struct = st /\ g.version = b.version
  BY <1>6, <1>9, <1>10 DEF SameHeader, Resized, st
<1>12. ASSUME NEW q \in Memory, q < p \/ q >= st + z PROVE g.mem[q] = h.mem[q]
  <2>1. q \in Nat  BY DEF Memory
  <2>2. q \notin at .. at + u - 1 /\ q \notin p .. p + 1 - 1
    BY ONLY <1>7, <1>v, <1>12, <2>1, a \in Nat, z \in Nat
  <2> QED BY <1>9, <1>10, <2>2
<1>13. At(g, a) = cell
  <2>1. p \in Memory
    <3>1. p <= 2 * MaxSize - 1  BY ONLY <1>7, <1>8, <1>v, a \in Nat, z \in Nat
    <3> QED BY <1>7, <1>8, <3>1 DEF Memory
  <2>2. p \notin at .. at + u - 1 /\ p \in p .. p + 1 - 1 /\ p - p + 1 = 1
    BY ONLY <1>7, <1>v
  <2>3. g.mem[p] = <<cell>>[p - p + 1]  BY <1>9, <1>10, <2>1, <2>2
  <2> QED BY <1>4, <1>7, <1>11, <2>2, <2>3 DEF At
<1>14. ASSUME NEW j \in 1 .. u PROVE At(g, a + j) = cells[j]
  <2>1. PICK q \in Nat : q = st + (a + j)  BY <1>5
  <2>2. q \in Memory
    <3>1. q <= 2 * MaxSize - 1  BY ONLY <1>7, <1>8, <1>v, <2>1, a \in Nat, z \in Nat, j \in 1 .. u
    <3> QED BY <1>8, <3>1 DEF Memory
  <2>3. q \in at .. at + u - 1 /\ q - at + 1 = j
    BY ONLY <1>7, <1>v, <2>1, a \in Nat, z \in Nat, j \in 1 .. u
  <2>4. g.mem[q] = cells[q - at + 1]  BY <1>10, <2>2, <2>3
  <2> QED BY <1>11, <2>1, <2>3, <2>4 DEF At
<1>15. ValueHere(g, a, z, x, w)
  <2>1. At(g, a).tag = "prop" /\ At(g, a).x = x /\ At(g, a).y = Len(w)  BY <1>13 DEF cell, Cell
  <2> QED BY <1>7, <1>14, <2>1 DEF ValueHere, u, cells
<1>16. ValueMeans(g, a, z, w)  BY <1>15, ValueHereMeans
<1>17. PICK k2 \in Nat, e2 \in Nat : Holds(g, k2, e2)  BY <1>11 DEF Fine
<1>18. Edited(b, k, e, g, k2, e2, a, c, z)
  <2>1. \A q \in Memory : q < b.off_dt_struct + a \/ q >= b.off_dt_struct + z =>
           g.mem[q] = SpliceStruct(b, i, c - i, newlen).fdt.mem[q]
    BY <1>7, <1>12 DEF st, h, s
  <2>2. SpliceStruct(b, i, c - i, newlen).err = 0  BY <1>1 DEF s
  <2>3. SameHeader(SpliceStruct(b, i, c - i, newlen).fdt, g)  BY <1>11 DEF h, s
  <2>4. NoEnd(g, a, z) /\ Net(g, a, z) = Net(b, a, c)  BY <1>16 DEF ValueMeans
  <2>5. /\ b \in Blobs /\ Holds(b, k, e) /\ RwCheckHeader(b) = 0 /\ b.magic = "FDT"
        /\ a <= i /\ i <= c /\ c <= e /\ 0 < c /\ z = i + newlen
        /\ Run(b.mem, b.off_dt_struct, b.off_dt_struct + a)
        /\ g \in Blobs /\ Holds(g, k2, e2)
    BY <1>10, <1>17
  <2>6. SplicedTo(b, g, a, i, c, newlen, z)  BY <2>1, <2>2, <2>3, <2>5 DEF SplicedTo
  <2> QED BY ONLY <2>4, <2>5, <2>6, SpliceEdit, k \in Nat, e \in Nat, a \in Nat, i \in Nat,
              c \in Nat, newlen \in Nat, k2 \in Nat, e2 \in Nat
<1>19. InReach(g, e2)
  <2>1. g.version = 17  BY <1>11, Writable
  <2> QED BY <1>10, <1>17, <2>1, ReachOfSize
<1> QED BY <1>10, <1>15, <1>17, <1>18, <1>19 DEF Filled

\* No node begins or ends behind o up to c.
Plain(b, o, c) == \A q \in o + 1 .. c - 1 : At(b, q).tag \notin Edges
PropFilled(b, k, e, g, a, c, z, o, name, w) ==
  \E k2, e2 \in Nat : /\ PropEdit(b, k, e, g, k2, e2, a, c, z, o)
                      /\ PropTags(g, a, z) = {a} /\ PairAt(g, a) = <<name, w>>

\* Filled among the properties of a node, it is an edit of this node.
LEMMA FilledProp ==
  ASSUME NEW b, NEW k \in Nat, NEW e \in Nat, Whole(b, k, e), b.magic = "FDT", b.version >= 16,
         NEW o \in Nodes(b), NEW a \in Nat, NEW c \in Nat, NEW z \in Nat, NEW x, NEW w \in Seq(Nat),
         NEW g, Filled(b, k, e, g, a, c, z, x, w), o < a, Plain(b, o, c), NEW name,
         name \in Seq(Nat \ {0}), IsString(b.mem, b.off_dt_strings, b.size_dt_strings, x, name)
  PROVE  PropFilled(b, k, e, g, a, c, z, o, name, w)
<1>1. PICK k2 \in Nat, e2 \in Nat :
        /\ Edited(b, k, e, g, k2, e2, a, c, z) /\ Holds(g, k2, e2) /\ InReach(g, e2)
        /\ ValueHere(g, a, z, x, w) /\ g \in Blobs
  BY DEF Filled
<1>2. ValueMeans(g, a, z, w)  BY <1>1, ValueHereMeans
<1>3. Calm(g, a, z) /\ PropTags(g, a, z) = {a} /\ Value(g, a) = w  BY <1>2 DEF ValueMeans
<1>4. PropEdit(b, k, e, g, k2, e2, a, c, z, o)
  BY <1>1, <1>3 DEF PropEdit, Calm, Plain
<1>5. StringAt(g, x) = name
  <2>1. Keeps(b, g)  BY <1>1 DEF Edited, EditOf
  <2>2. IsString(g.mem, g.off_dt_strings, g.size_dt_strings, x, name)  BY <2>1 DEF Keeps
  <2>3. g.off_dt_strings + g.size_dt_strings <= g.totalsize  BY <1>1 DEF Holds
  <2> QED BY <1>1, <2>2, <2>3, StringAtIs
<1>6. PairAt(g, a) = <<name, w>>  BY <1>1, <1>3, <1>5 DEF PairAt, ValueHere
<1> QED BY <1>1, <1>3, <1>4, <1>6 DEF PropFilled

\* A blob reads as its own tree.
LEMMA SelfBecomes ==
  ASSUME NEW b, NEW k \in Nat, NEW e \in Nat, Whole(b, k, e), b.magic = "FDT", b.version >= 16
  PROVE  Becomes(b, b, TreeOf(b))
<1>1. b \in Blobs /\ Holds(b, k, e)  BY DEF Whole
<1>2. Decoded(b).tree = TreeOf(b)  BY <1>1, DecodedIs
<1> QED BY <1>2 DEF Becomes, Good

\* One change after another.
LEMMA BecomesOn ==
  ASSUME NEW b, NEW g, NEW t, Becomes(b, g, t), NEW h, NEW u, Becomes(g, h, u)
  PROVE  Becomes(b, h, u)
BY DEF Becomes

\* A failing call that found a value too long, or no value.
Wants(b, o, name, len) ==
  ~HasIn(PropsOf(b, o), name) \/ len > Len(OldIn(PropsOf(b, o), name))
Written(b, o, name, w) ==
  LET r == Room(b, o, name, Len(w))
  IN  IF r.err # 0 THEN r ELSE Done(Put(r.fdt, ValueStart(r.fdt, o, name), Bytes(w)))
StoreOutcome(b, o, name, w, r) ==
  \/ r.err = NOSPACE /\ Wants(b, o, name, Len(w)) /\ Becomes(b, r.fdt, TreeOf(b))
  \/ r.err = 0 /\ HasIn(PropsOf(b, o), name) /\ Becomes(b, r.fdt, Changed(b, o, name, w))
  \/ r.err = 0 /\ ~HasIn(PropsOf(b, o), name) /\ Becomes(b, r.fdt, Added(b, o, name, w))

\* What _fdt_resize_property and _fdt_add_property leave is well formed.
LEMMA WrittenFine ==
  ASSUME NEW b \in Blobs, NEW k \in Nat, NEW e \in Nat, Holds(b, k, e), RwCheckHeader(b) = 0,
         NEW o \in Nat, NEW name \in PropNames, NEW w \in Seq(Nat)
  PROVE  Fine(Written(b, o, name, w).fdt)
<1> DEFINE len == Len(w)
           r == Room(b, o, name, len)
           cells == Bytes(w)
<1>1. Written(b, o, name, w) =
        IF r.err # 0 THEN r ELSE Done(Put(r.fdt, ValueStart(r.fdt, o, name), cells))
  BY DEF Written
<1>2. RoomLeaves(r, o, name, len)
  <2>1. len \in Nat  OBVIOUS
  <2> HIDE DEF len
  <2> QED BY <2>1, RoomThen
<1>3. cells \in Seq(Cells) /\ Len(cells) = Units(len) /\ \A i \in 1 .. Len(cells) : cells[i].tag = "data"
  BY BytesLemma
<1> HIDE DEF r, cells, len
<1> QED BY <1>1, <1>2, <1>3 DEF RoomLeaves, Done

\* Storing the value of a property the node has.
LEMMA StoreOld ==
  ASSUME NEW b, NEW k \in Nat, NEW e \in Nat, Whole(b, k, e), RwCheckHeader(b) = 0,
         b.magic = "FDT", b.version >= 16, NEW o \in Nodes(b), NEW name \in PropNames,
         NEW w \in Seq(Nat), NEW q \in Nat, q = GetProperty(b, o, name), FoundAt(b, o, name, q, e)
  PROVE  StoreOutcome(b, o, name, w, Written(b, o, name, w))
<1> DEFINE c == q + 1 + Units(At(b, q).y)
           old == Value(b, q)
           len == Len(w)
           r == ResizeProperty(b, q, len)
           t == Written(b, o, name, w)
           x == At(b, q).x
           g == Put(r.fdt, ValueStart(r.fdt, o, name), Bytes(w))
           u == Units(len)
<1>1. b \in Blobs /\ Holds(b, k, e) /\ o \in Nat
  <2>1. b \in Blobs /\ Holds(b, k, e)  BY DEF Whole
  <2> QED BY <2>1, NodesAre
<1>2. Spanned(b, e, o, q, c)  BY <1>1, PropSpan
<1>3. /\ c \in q + 1 .. e /\ PropTags(b, q, c) = {q} /\ c \in Nat /\ o < q /\ q \in Nat
      /\ Net(b, q, c) = 0 /\ Run(b.mem, b.off_dt_struct, b.off_dt_struct + q)
      /\ \A y \in o + 1 .. c - 1 : At(b, y).tag \notin Edges
  BY <1>2 DEF Spanned
<1>4. /\ q \in 0 .. e - 1 /\ q \in o + 1 .. e - 1 /\ At(b, q).tag = "prop" /\ HasIn(PropsOf(b, o), name)
      /\ OldIn(PropsOf(b, o), name) = old /\ PairAt(b, q) = <<name, old>>
  <2>1. PropsOf(b, o)[PlaceIn(PropsOf(b, o), name)] = <<name, old>>  BY DEF FoundAt
  <2> QED BY <1>1, <2>1 DEF FoundAt, OldIn
<1>5. /\ old \in Seq(Nat) /\ Len(old) = At(b, q).y /\ At(b, q).y \in Nat
  BY <1>1, <1>4, ValueLemma
<1>6. len \in Nat /\ u \in Nat /\ Units(At(b, q).y) \in Nat  
  <2>1. len \in Nat  OBVIOUS
  <2>2. Units(At(b, q).y) \in Nat  BY <1>5, UnitsLemma
  <2> HIDE DEF len
  <2> QED BY <2>1, <2>2, UnitsLemma
<1>7. Room(b, o, name, len) = r
  <2>1. q >= 0  OBVIOUS
  <2> QED BY <2>1 DEF Room
<1>8. t = IF r.err # 0 THEN r ELSE Done(g)  BY <1>7 DEF Written
<1>9. RoomIs(b, r, o, name, q, q + 1, c, u, x, len)
  <2> HIDE DEF len
  <2> QED BY <1>1, <1>4, <1>6, ResizeThen
<1> HIDE DEF c, r, t, g, u
<1>10. CASE r.err # 0
  <2>1. r = SpliceStruct(b, q + 1, c - (q + 1), u)
    BY <1>9, <1>10 DEF RoomIs, Done
  <2>2. c - (q + 1) \in Nat /\ (q + 1) + (c - (q + 1)) <= e /\ q + 1 \in Nat  BY <1>3
  <2>3. SpliceErr(b, c - (q + 1), u, SpliceStruct(b, q + 1, c - (q + 1), u))
    BY <1>1, <1>6, <2>2, StructSpliceErr
  <2>4. r.err = NOSPACE /\ r.fdt = b /\ u > c - (q + 1)  BY <1>10, <2>1, <2>3 DEF SpliceErr
  <2>5. c - (q + 1) = Units(At(b, q).y)  BY <1>3, <1>6 DEF c
  <2>6. len > At(b, q).y
    <3> DEFINE y == At(b, q).y
    <3>1. y \in Nat /\ u > Units(y)  BY <1>5, <2>4, <2>5
    <3> HIDE DEF y
    <3>2. len <= y => (len + 1) \div 2 <= (y + 1) \div 2  BY ONLY len \in Nat, <3>1
    <3> QED BY <1>6, <3>1, <3>2 DEF Units, y, u
  <2>7. Wants(b, o, name, len)  BY <1>4, <1>5, <2>6 DEF Wants
  <2>8. Becomes(b, b, TreeOf(b))  BY SelfBecomes
  <2> QED BY <1>8, <1>10, <2>4, <2>7, <2>8 DEF StoreOutcome, t
<1>11. CASE r.err = 0
  <2>1. t = Done(g) /\ t.err = 0 /\ t.fdt = g  BY <1>8, <1>11 DEF Done
  <2>2. Fine(g)  BY <1>1, <2>1, WrittenFine DEF t
  <2>3. PICK z \in Nat : z = (q + 1) + u  BY <1>6
  <2>4. z = q + 1 + Units(Len(w))  BY <1>6, <2>3 DEF u
  <2>5. x \in Nat
    <3>1. b.off_dt_struct + q < b.totalsize /\ b.off_dt_struct + q \in Nat

      <4> DEFINE st == b.off_dt_struct
      <4>1. st \in Nat /\ b.totalsize \in Nat  BY <1>1, BlobFields, FdtRwAssumption
      <4>2. st + e + 1 <= b.totalsize  BY <1>1 DEF Holds
      <4> HIDE DEF st
      <4>3. st + q \in Nat /\ st + q < b.totalsize  BY <1>4, <4>1, <4>2
      <4> QED BY <4>3 DEF st
    <3>2. b.mem[b.off_dt_struct + q] \in [tag : Tags, x : Nat, y : Nat]  BY <1>1, <3>1, MemoryCells
    <3> QED BY <3>2 DEF At
  <2>6. q <= q + 1 /\ q + 1 <= c /\ c <= e /\ 0 < c /\ q + 1 \in Nat  BY <1>3
  <2>7. g = Put(r.fdt, ValueStart(r.fdt, o, name), Bytes(w))  BY DEF g
  <2>8. RoomIs(b, r, o, name, q, q + 1, c, u, x, Len(w))  BY <1>9
  <2>9. Filled(b, k, e, g, q, c, z, x, w)
    <3> HIDE DEF x
    <3> QED BY <1>1, <1>3, <1>6, <1>11, <2>2, <2>3, <2>4, <2>5, <2>6, <2>7, <2>8, RoomEdit
  <2>10. name \in Seq(Nat \ {0}) /\ IsString(b.mem, b.off_dt_strings, b.size_dt_strings, x, name)
    <3>1. PICK n \in PropNames : IsString(b.mem, b.off_dt_strings, b.size_dt_strings, x, n)
      <4>1. Keeps(b, b)  BY DEF Keeps
      <4>2. \E n \in PropNames : IsString(b.mem, b.off_dt_strings, b.size_dt_strings, At(b, q).x, n)
        BY <1>1, <1>4, <4>1, StringSame
      <4> QED BY <4>2
    <3>2. n \in Seq(Nat \ {0}) /\ name \in Seq(Nat \ {0})  BY FdtEditAssumption
    <3>3. b.off_dt_strings + b.size_dt_strings <= b.totalsize  BY <1>1 DEF Holds
    <3>4. StringAt(b, x) = n  BY <1>1, <3>1, <3>2, <3>3, StringAtIs
    <3>5. StringAt(b, x) = name  BY <1>4 DEF PairAt
    <3> QED BY <3>1, <3>2, <3>4, <3>5
  <2>11a. PropFilled(b, k, e, g, q, c, z, o, name, w)
    <3>1. Plain(b, o, c)  BY <1>3 DEF Plain
    <3> HIDE DEF x
    <3> QED BY <1>3, <2>3, <2>9, <2>10, <3>1, FilledProp
  <2>11. PICK k2 \in Nat, e2 \in Nat :
           /\ PropEdit(b, k, e, g, k2, e2, q, c, z, o)
           /\ PropTags(g, q, z) = {q} /\ PairAt(g, q) = <<name, w>>
    BY <2>11a DEF PropFilled
  <2>12. Becomes(b, g, Changed(b, o, name, w))
    BY <1>1, <1>3, <2>3, <2>11, PropChanged
  <2> QED BY <1>4, <2>1, <2>12 DEF StoreOutcome, t
<1>12. r.err = 0 \/ r.err # 0  OBVIOUS
<1> QED BY <1>10, <1>11, <1>12

StringHeld(b, k, e, g) ==
  /\ Whole(g, k, e) /\ g.magic = "FDT" /\ g.version = 17 /\ RwCheckHeader(g) = 0
  /\ TreeOf(g) = TreeOf(b) /\ Nodes(g) = Nodes(b) /\ Becomes(b, g, TreeOf(b))
  /\ SameCells(b, e, g)

\* A blob with one string more reads as the same tree.
LEMMA StringWhole ==
  ASSUME NEW b, NEW k \in Nat, NEW e \in Nat, Whole(b, k, e), RwCheckHeader(b) = 0,
         b.magic = "FDT", NEW name, NEW s, StringAdded(b, k, e, name, s)
  PROVE  StringHeld(b, k, e, s.fdt)
<1> DEFINE g == s.fdt
<1>1. b \in Blobs /\ Holds(b, k, e)  BY DEF Whole
<1>2. /\ g \in Blobs /\ Holds(g, k, e) /\ RwCheckHeader(g) = 0
      /\ SameCells(b, e, g) /\ Keeps(b, g)
      /\ g.magic = "FDT" /\ g.version = 17 /\ ReservedOf(g, k) = ReservedOf(b, k)
  BY DEF StringAdded
<1> HIDE DEF g
<1>3. Shaped(g, e) /\ TreeOf(g) = TreeOf(b)  BY <1>2, CellsSame
<1>4. InReach(g, e)  BY <1>2, ReachOfSize
<1>5. Whole(g, k, e)  BY <1>2, <1>3, <1>4 DEF Whole
<1>6. Nodes(g) = Nodes(b)
  <2>1. /\ Nodes(b) = {q \in 0 .. e - 1 : At(b, q).tag = "begin"}
        /\ Nodes(g) = {q \in 0 .. e - 1 : At(g, q).tag = "begin"}
    BY <1>1, <1>2, NodesAre
  <2>2. \A q \in 0 .. e - 1 : At(g, q) = At(b, q)
    <3>1. \A q \in 0 .. e - 1 : q \in 0 .. e  OBVIOUS
    <3> QED BY <1>2, <3>1 DEF SameCells
  <2> QED BY <2>1, <2>2
<1>7. Becomes(b, g, TreeOf(b))
  <2>1. Decoded(b).reserved = ReservedOf(b, k) /\ Decoded(b).writable = (RwCheckHeader(b) = 0)
    BY <1>1, DecodedIs
  <2>2. /\ Decoded(g).tree = TreeOf(g) /\ Decoded(g).reserved = ReservedOf(g, k)
        /\ Decoded(g).writable = (RwCheckHeader(g) = 0)
    BY <1>2, DecodedIs
  <2>3. Good(g)
    <3>1. g.version >= 16  BY <1>2
    <3> QED BY <1>2, <1>5, <3>1 DEF Good
  <2>4. (RwCheckHeader(g) = 0) = (RwCheckHeader(b) = 0)  BY <1>2
  <2> QED BY <1>2, <1>3, <2>1, <2>2, <2>3, <2>4 DEF Becomes
<1> QED BY <1>2, <1>3, <1>5, <1>6, <1>7 DEF StringHeld, g

\* Storing a property the node has not.
LEMMA StoreNew ==
  ASSUME NEW b, NEW k \in Nat, NEW e \in Nat, Whole(b, k, e), RwCheckHeader(b) = 0,
         b.magic = "FDT", NEW o \in Nodes(b), NEW name \in PropNames,
         NEW w \in Seq(Nat), GetProperty(b, o, name) = NOTFOUND, ~HasIn(PropsOf(b, o), name)
  PROVE  StoreOutcome(b, o, name, w, Written(b, o, name, w))
<1> DEFINE n == NextTag(b, o)
           len == Len(w)
           r == AddProperty(b, o, name, len)
           t == Written(b, o, name, w)
           s == FindAddString(b, name)
           f == s.fdt
           g == Put(r.fdt, ValueStart(r.fdt, o, name), Bytes(w))
           x == s.at
           u == 1 + Units(len)
<1>1. b \in Blobs /\ Holds(b, k, e) /\ o \in Nat
  <2>1. b \in Blobs /\ Holds(b, k, e)  BY DEF Whole
  <2> QED BY <2>1, NodesAre
<1>2. /\ ~(CheckNodeOffset(b, o) < 0) /\ n \in o + 1 .. e /\ o \in 0 .. e - 1 /\ At(b, o).tag = "begin"
      /\ n \in Nat
  BY <1>1, NodeOffset
<1>3. StringAdded(b, k, e, name, s)  BY <1>1, AddStringDoes
<1>4. StringHeld(b, k, e, f)
  <2> HIDE DEF s
  <2> QED BY <1>3, StringWhole
<1>5. /\ Whole(f, k, e) /\ f.magic = "FDT" /\ f.version = 17 /\ RwCheckHeader(f) = 0
      /\ f \in Blobs /\ Holds(f, k, e)
      /\ TreeOf(f) = TreeOf(b) /\ Nodes(f) = Nodes(b) /\ Becomes(b, f, TreeOf(b))
      /\ SameCells(b, e, f) /\ f.version >= 16
  <2> HIDE DEF f
  <2> QED BY <1>4 DEF StringHeld, Whole
<1>6. len \in Nat /\ u \in Nat /\ Units(len) \in Nat
  <2>1. len \in Nat  OBVIOUS
  <2> HIDE DEF len
  <2>2. Units(len) \in Nat  BY <2>1, UnitsLemma
  <2> QED BY <2>1, <2>2
<1>7. t = IF r.err # 0 THEN r ELSE Done(g)
  <2>1. ~(NOTFOUND >= 0)  BY DEF NOTFOUND
  <2>2. Room(b, o, name, len) = r  BY <2>1 DEF Room
  <2> QED BY <2>2 DEF Written
<1>8. IF s.err # 0 THEN r = Fail(s.err, f)
      ELSE RoomIs(f, r, o, name, n, n, n, u, x, len)
  <2> HIDE DEF len
  <2> QED BY <1>1, <1>2, <1>6, AddThen
<1>9. Fine(t.fdt)  BY <1>1, WrittenFine
<1>10. s.err = 0 \/ (s.err = NOSPACE /\ s.err # 0)  BY <1>3 DEF StringAdded
<1>11. Wants(b, o, name, len)  BY DEF Wants
<1>12. \A q \in o + 1 .. n - 1 : At(f, q).tag \notin Opens /\ At(b, q).tag \notin Opens
  <2>1. Elem(b.mem, b.off_dt_struct + o, b.off_dt_struct + n)
    <3>1. At(b, o).tag \in Opens  BY <1>2 DEF Opens
    <3> QED BY <1>1, <1>2, <3>1, TagAt
  <2>2. ASSUME NEW q \in o + 1 .. n - 1 PROVE At(b, q).tag \notin Opens
    <3> DEFINE st == b.off_dt_struct
    <3>1. st \in Nat  BY <1>1, BlobFields
    <3>2. PICK p \in Int, m \in Int, i \in Nat : p = st + o /\ m = st + n /\ i = st + q
      <4>0. q \in Nat  BY <1>1, <1>2
      <4> QED BY <1>1, <1>2, <3>1, <4>0
    <3>3. i \in p + 1 .. m - 1
      <4> HIDE DEF st, n
      <4> QED BY ONLY <1>1, <1>2, <3>1, <3>2, q \in o + 1 .. n - 1
    <3>4. Elem(b.mem, p, m)  BY <2>1, <3>2
    <3>5. b.mem[i].tag \notin Opens  BY <3>3, <3>4, ElemInside
    <3> QED BY <3>2, <3>5 DEF At
  <2>3. ASSUME NEW q \in o + 1 .. n - 1 PROVE At(f, q) = At(b, q)
    <3>1. q \in 0 .. e  BY <1>1, <1>2
    <3> QED BY <1>5, <3>1 DEF SameCells
  <2> QED BY <2>2, <2>3
<1> HIDE DEF n, r, t, g, u, s, f
<1>13. CASE s.err # 0
  <2>1. r.err = NOSPACE /\ r.fdt = f /\ r.err # 0  BY <1>8, <1>10, <1>13 DEF Fail
  <2>2. t = r  BY <1>7, <2>1
  <2> QED BY <1>5, <1>11, <2>1, <2>2 DEF StoreOutcome, t
<1>14. CASE s.err = 0 /\ r.err # 0
  <2>1. RoomIs(f, r, o, name, n, n, n, u, x, len)  BY <1>8, <1>14
  <2>2. r = SpliceStruct(f, n, n - n, u)  BY <1>14, <2>1 DEF RoomIs, Done
  <2>3. n - n \in Nat /\ n + (n - n) <= e /\ n - n = 0  BY <1>2
  <2>4. SpliceErr(f, n - n, u, SpliceStruct(f, n, n - n, u))
    BY <1>2, <1>5, <1>6, <2>3, StructSpliceErr
  <2>5. r.err = NOSPACE /\ r.fdt = f  BY <1>14, <2>2, <2>4 DEF SpliceErr
  <2>6. t = r  BY <1>7, <1>14
  <2> QED BY <1>5, <1>11, <2>5, <2>6 DEF StoreOutcome, t
<1>15. CASE s.err = 0 /\ r.err = 0
  <2>1. RoomIs(f, r, o, name, n, n, n, u, x, len)  BY <1>8, <1>15
  <2>2. t = Done(g) /\ t.err = 0 /\ t.fdt = g  BY <1>7, <1>15 DEF Done
  <2>3. Fine(g)  BY <1>9, <2>2
  <2>4. PICK z \in Nat : z = n + u  BY <1>2, <1>6
  <2>5. z = n + 1 + Units(Len(w))  BY <1>2, <1>6, <2>4 DEF u
  <2>6. IsString(f.mem, f.off_dt_strings, f.size_dt_strings, x, name) /\ x \in Nat
    BY <1>3, <1>15 DEF StringAdded, IsString, f
  <2>7. n <= n /\ n <= e /\ 0 < n /\ o < n  BY <1>1, <1>2
  <2>8. g = Put(r.fdt, ValueStart(r.fdt, o, name), Bytes(w))  BY DEF g
  <2>9. RoomIs(f, r, o, name, n, n, n, u, x, Len(w))  BY <2>1
  <2>10. Run(f.mem, f.off_dt_struct, f.off_dt_struct + n)
    <3>1. n < e => At(f, n).tag \in Opens
      <4>1. At(b, o).tag \in Opens  BY <1>2 DEF Opens
      <4>2. Run(b.mem, b.off_dt_struct + n, b.off_dt_struct + e)
        BY <1>1, <1>2, <4>1, TagAt DEF n
      <4>3. n < e => b.off_dt_struct + n < b.off_dt_struct + e  BY <1>1, <1>2, BlobFields
      <4>4. n < e => At(b, n).tag \in Opens  BY <4>2, <4>3 DEF Run, At
      <4>5. n \in 0 .. e  BY <1>2
      <4> QED BY <1>5, <4>4, <4>5 DEF SameCells
    <3>2. n \in 0 .. e  BY <1>2
    <3> QED BY <1>5, <3>1, <3>2, CutAt
  <2>11. Net(f, n, n) = 0  BY <1>2, NetEmpty
  <2>12. Filled(f, k, e, g, n, n, z, x, w)
    <3> HIDE DEF x
    <3> QED BY <1>2, <1>5, <1>6, <1>15, <2>3, <2>4, <2>5, <2>6, <2>7, <2>8, <2>9, <2>10, <2>11, RoomEdit
  <2>13. Plain(f, o, n)  BY <1>12 DEF Plain, Opens, Edges
  <2>14. o \in Nodes(f) /\ name \in Seq(Nat \ {0})  BY <1>5, FdtEditAssumption
  <2>15. PropFilled(f, k, e, g, n, n, z, o, name, w)
    <3> HIDE DEF x
    <3> QED BY <1>2, <1>5, <2>4, <2>6, <2>7, <2>12, <2>13, <2>14, FilledProp
  <2>16. PICK k2 \in Nat, e2 \in Nat :
           /\ PropEdit(f, k, e, g, k2, e2, n, n, z, o)
           /\ PropTags(g, n, z) = {n} /\ PairAt(g, n) = <<name, w>>
    BY <2>15 DEF PropFilled
  <2>17. Left(Properties(f, o), n) = {}
    <3>1. Properties(f, o) = {q \in o + 1 .. e - 1 : At(f, q).tag = "prop" /\ \A p \in o + 1 .. q : At(f, p).tag \notin Edges}
      BY <1>1, <1>5, NodesAre
    <3>2. ASSUME NEW q \in Properties(f, o), q < n PROVE FALSE
      <4>1. q \in o + 1 .. e - 1 /\ At(f, q).tag = "prop"  BY <3>1
      <4>2. q \in o + 1 .. n - 1  BY <1>1, <1>2, <3>2, <4>1
      <4> QED BY <1>12, <4>1, <4>2 DEF Opens
    <3> QED BY <3>2 DEF Left
  <2>18. Becomes(f, g, Added(f, o, name, w))
    BY <1>1, <1>2, <2>4, <2>16, <2>17, PropAdded
  <2>19. Added(f, o, name, w) = Added(b, o, name, w)  BY <1>5 DEF Added, NodeNo
  <2>20. Becomes(b, g, Added(b, o, name, w))  BY <1>5, <2>18, <2>19, BecomesOn
  <2> QED BY <2>2, <2>20 DEF StoreOutcome, t
<1> QED BY <1>13, <1>14, <1>15

SetOutcome(b, o, name, w, r) ==
  \/ NotWritten(b, r)
  \/ RwCheckHeader(b) = 0 /\ NoNode(b, o, r)
  \/ RwCheckHeader(b) = 0 /\ o \in Nodes(b) /\ StoreOutcome(b, o, name, w, r)

\* Storing either.
LEMMA Storing ==
  ASSUME NEW b, NEW k \in Nat, NEW e \in Nat, Whole(b, k, e), RwCheckHeader(b) = 0,
         b.magic = "FDT", b.version >= 16, NEW o \in Nat, NEW name \in PropNames,
         NEW w \in Seq(Nat), ~(CheckNodeOffset(b, o) < 0)
  PROVE  o \in Nodes(b) /\ StoreOutcome(b, o, name, w, Written(b, o, name, w))
<1> DEFINE q == GetProperty(b, o, name)
<1>1. b \in Blobs /\ Holds(b, k, e) /\ o \in Nodes(b)
  <2>1. b \in Blobs /\ Holds(b, k, e)  BY DEF Whole
  <2> QED BY <2>1, NodeOffset
<1>2. \/ q = NOTFOUND /\ ~HasIn(PropsOf(b, o), name)
      \/ q \in Nat /\ FoundAt(b, o, name, q, e)
  BY <1>1, PropPlace
<1>3. CASE q = NOTFOUND /\ ~HasIn(PropsOf(b, o), name)  BY <1>1, <1>3, StoreNew
<1>4. CASE q \in Nat /\ FoundAt(b, o, name, q, e)
  <2>1. PICK p \in Nat : p = q  BY <1>4
  <2>2. FoundAt(b, o, name, p, e) /\ p = GetProperty(b, o, name)  BY <1>4, <2>1
  <2> HIDE DEF q
  <2> QED BY <1>1, <2>2, StoreOld
<1> QED BY <1>2, <1>3, <1>4

\* fdt_setprop stores the value, or fails and changes nothing that is read.
LEMMA SetDoes ==
  ASSUME NEW b, NEW k \in Nat, NEW e \in Nat, Whole(b, k, e), b.magic = "FDT", b.version >= 16,
         NEW o \in Nat, NEW name \in PropNames, NEW v \in Seq(Nat)
  PROVE  SetOutcome(b, o, name, v, SetProp(b, o, name, v))
<1> DEFINE q == GetProperty(b, o, name)
           t == SetProp(b, o, name, v)
<1>1. b \in Blobs /\ Holds(b, k, e)  BY DEF Whole
<1>2. CASE RwCheckHeader(b) # 0
  <2>1. t = Fail(RwCheckHeader(b), b)  BY <1>2 DEF SetProp, Guarded
  <2> QED BY <1>2, <2>1 DEF SetOutcome, NotWritten
<1>3. CASE RwCheckHeader(b) = 0
  <2>1. t = Written(b, o, name, v)  BY <1>3 DEF SetProp, Guarded, AndThen, Written
  <2>2. CASE CheckNodeOffset(b, o) < 0
    <3>1. q = BADOFFSET  BY <2>2 DEF GetProperty
    <3>2. Room(b, o, name, Len(v)) = Fail(BADOFFSET, b)
      <4> HIDE DEF q
      <4>1. ~(q >= 0) /\ q # NOTFOUND  BY <3>1 DEF BADOFFSET, NOTFOUND
      <4> QED BY <3>1, <4>1 DEF Room, q
    <3>3. t = Fail(BADOFFSET, b)  BY <2>1, <3>2 DEF Written, Fail, BADOFFSET
    <3>4. o \notin Nodes(b)  BY <2>2, NodeOffset
    <3> QED BY <1>3, <3>3, <3>4 DEF SetOutcome, NoNode
  <2>3. CASE ~(CheckNodeOffset(b, o) < 0)
    BY <1>3, <2>1, <2>3, Storing DEF SetOutcome
  <2> QED BY <2>2, <2>3
<1> QED BY <1>2, <1>3

OldOr(ps, name) == IF HasIn(ps, name) THEN OldIn(ps, name) ELSE <<>>

\* fdt_appendprop stores the old value with the new behind it, likewise.
LEMMA AppendDoes ==
  ASSUME NEW b, NEW k \in Nat, NEW e \in Nat, Whole(b, k, e), b.magic = "FDT", b.version >= 16,
         NEW o \in Nat, NEW name \in PropNames, NEW v \in Seq(Nat)
  PROVE  /\ SetOutcome(b, o, name, OldOr(PropsOf(b, o), name) \o v, AppendProp(b, o, name, v))
         /\ RwCheckHeader(b) = 0 /\ o \in Nodes(b) => OldOr(PropsOf(b, o), name) \in Seq(Nat)
<1> DEFINE q == GetProperty(b, o, name)
           old == IF q >= 0 THEN Value(b, q) ELSE <<>>
           t == AppendProp(b, o, name, v)
           was == OldOr(PropsOf(b, o), name)
<1>1. b \in Blobs /\ Holds(b, k, e)  BY DEF Whole
<1>2. CASE RwCheckHeader(b) # 0
  <2>1. t = Fail(RwCheckHeader(b), b)  BY <1>2 DEF AppendProp, Grow, Guarded
  <2> QED BY <1>2, <2>1 DEF SetOutcome, NotWritten
<1>3. CASE RwCheckHeader(b) = 0 /\ CheckNodeOffset(b, o) < 0
  <2>1. q = BADOFFSET  BY <1>3 DEF GetProperty
  <2>2. t = Fail(BADOFFSET, b)
    <3>1. q < 0 /\ q # NOTFOUND
      <4> HIDE DEF q
      <4> QED BY <2>1 DEF BADOFFSET, NOTFOUND
    <3> QED BY <1>3, <2>1, <3>1 DEF AppendProp, Grow, Guarded
  <2>3. o \notin Nodes(b)  BY <1>3, NodeOffset
  <2> QED BY <1>3, <2>2, <2>3 DEF SetOutcome, NoNode
<1>4. CASE RwCheckHeader(b) = 0 /\ ~(CheckNodeOffset(b, o) < 0)
  <2>1. \/ q = NOTFOUND /\ ~HasIn(PropsOf(b, o), name)
        \/ q \in Nat /\ FoundAt(b, o, name, q, e)
    BY <1>1, <1>4, PropPlace
  <2>2. ~(q < 0 /\ q # NOTFOUND)
    <3> HIDE DEF q
    <3> QED BY <2>1
  <2>3. t = Written(b, o, name, old \o v)
    BY <1>4, <2>2 DEF AppendProp, Grow, Guarded, AndThen, Written
  <2>4. old = was /\ old \in Seq(Nat)
    <3> HIDE DEF q
    <3>1. CASE q = NOTFOUND /\ ~HasIn(PropsOf(b, o), name)
      <4>1. ~(q >= 0)  BY <3>1 DEF NOTFOUND
      <4> QED BY <3>1, <4>1 DEF OldOr
    <3>2. CASE q \in Nat /\ FoundAt(b, o, name, q, e)
      <4>1. /\ q \in o + 1 .. e - 1 /\ At(b, q).tag = "prop" /\ HasIn(PropsOf(b, o), name)
            /\ PropsOf(b, o)[PlaceIn(PropsOf(b, o), name)] = <<name, Value(b, q)>>
        BY <3>2 DEF FoundAt
      <4>2. was = Value(b, q)  BY <4>1 DEF OldOr, OldIn
      <4>3. q \in 0 .. e - 1 /\ q >= 0  BY <3>2, <4>1
      <4>4. Value(b, q) \in Seq(Nat)  BY <1>1, <4>1, <4>3, ValueLemma
      <4> QED BY <4>2, <4>3, <4>4
    <3> QED BY <2>1, <3>1, <3>2
  <2>5. PICK w \in Seq(Nat) : w = old \o v
    <3> HIDE DEF old, was
    <3>1. old \o v \in Seq(Nat)  BY <2>4, Concat
    <3> QED BY <3>1
  <2>6. t = Written(b, o, name, w)  BY <2>3, <2>5
  <2>7. o \in Nodes(b) /\ StoreOutcome(b, o, name, w, Written(b, o, name, w))
    BY <1>4, Storing
  <2>8. SetOutcome(b, o, name, w, t)  BY <1>4, <2>6, <2>7 DEF SetOutcome
  <2> HIDE DEF t, old, was
  <2> QED BY <2>4, <2>5, <2>8 DEF was, t
<1>5. ASSUME RwCheckHeader(b) = 0, o \in Nodes(b) PROVE ~(CheckNodeOffset(b, o) < 0)
  BY <1>5, NodeOffset
<1> HIDE DEF was
<1> QED BY <1>2, <1>3, <1>4, <1>5 DEF was

-----------------------------------------------------------------------------
\* Names.

\* Cells written where those from i to c made way for them.
Inserted(b, g, i, c, z, cells) ==
  /\ g \in Blobs /\ g.off_dt_struct = b.off_dt_struct /\ g.version = 17 /\ g.magic = b.magic
  /\ z = i + Len(cells)
  /\ \A a \in 0 .. i : SplicedTo(b, g, a, i, c, Len(cells), z)
  /\ \A q \in 0 .. i - 1 : At(g, q) = At(b, q)
  /\ \A j \in 1 .. Len(cells) : \A q \in Nat : q = i + (j - 1) => At(g, q) = cells[j]

\* A splice whose gap is filled with cells.
LEMMA Inserting ==
  ASSUME NEW b \in Blobs, NEW k \in Nat, NEW e \in Nat, Holds(b, k, e), RwCheckHeader(b) = 0,
         NEW i \in Nat, NEW c \in Nat, i <= c, c <= e, NEW cells \in Seq(Cells),
         NEW l, l = c - i, NEW s, s = SpliceStruct(b, i, l, Len(cells)), s.err = 0,
         NEW at, at = b.off_dt_struct + i, NEW z, z = i + Len(cells)
  PROVE  Inserted(b, Put(s.fdt, at, cells), i, c, z, cells) /\ z \in Nat
<1> DEFINE st == b.off_dt_struct
           u == Len(cells)
           h == s.fdt
           g == Put(h, at, cells)
<1>1. /\ st \in Nat /\ st + e + 1 <= b.off_dt_strings /\ b.size_dt_struct = e + 1
      /\ b.off_dt_strings \in Nat /\ b.size_dt_strings \in Nat
      /\ b.totalsize \in Nat /\ b.totalsize <= MaxSize /\ MaxSize \in Nat
  <2>1. b.off_dt_struct + e + 1 <= b.off_dt_strings /\ b.size_dt_struct = e + 1  BY RsvRoom
  <2>2. /\ st \in Nat /\ b.off_dt_strings \in Nat /\ b.size_dt_strings \in Nat
        /\ b.totalsize \in 0 .. MaxSize
    BY BlobFields
  <2>3. MaxSize \in Nat  BY FdtRwAssumption
  <2> DEFINE tot == b.totalsize
  <2> HIDE DEF tot
  <2>4. tot \in Nat /\ tot <= MaxSize  BY ONLY <2>2, <2>3 DEF tot
  <2> QED BY <2>1, <2>2, <2>3, <2>4 DEF tot
<1>2. l \in Nat /\ l <= b.size_dt_struct /\ u \in Nat  BY <1>1
<1>3. /\ h \in Blobs /\ Resized(b, h, u - l) /\ DataSize(h) <= b.totalsize
      /\ \A q \in Memory : q < st + i + u => h.mem[q] = b.mem[q]
  <2> HIDE DEF u
  <2>1. StructLeaves(b, i, l, u, SpliceStruct(b, i, l, u))  BY <1>2, SpliceStructEffect
  <2> QED BY <2>1 DEF StructLeaves, u
<1>4. at \in Nat /\ at = st + i /\ z = i + u /\ z \in Nat /\ u \in Nat  BY <1>1, <1>2
<1>5. /\ g \in Blobs /\ SameHeader(h, g)
      /\ \A q \in Memory : q \in at .. at + u - 1 => g.mem[q] = cells[q - at + 1]
      /\ \A q \in Memory : q \notin at .. at + u - 1 => g.mem[q] = h.mem[q]
  <2> HIDE DEF h
  <2>1. PutMade(h, at, cells, g)  BY <1>3, <1>4, PutHeader
  <2> QED BY <2>1 DEF PutMade
<1> HIDE DEF st, u, h, g
<1>6. g.off_dt_struct = st /\ g.magic = b.magic /\ g.version = 17
  BY <1>3, <1>5, Writable DEF Resized, SameHeader, st
<1>7. st + z + 1 <= MaxSize /\ MaxSize \in Nat
  <2> DEFINE strs == b.off_dt_strings
             sz == b.size_dt_strings
             tot == b.totalsize
             data == DataSize(h)
  <2>1. data = (strs + (u - l)) + sz
    BY <1>3 DEF Resized, DataSize
  <2>2. /\ strs \in Nat /\ sz \in Nat /\ tot \in Nat /\ tot <= MaxSize /\ MaxSize \in Nat
        /\ st + e + 1 <= strs /\ data <= tot /\ st \in Nat
    BY <1>1, <1>3
  <2> HIDE DEF strs, sz, tot, data
  <2>3. l = c - i /\ i \in Nat /\ c \in Nat /\ c <= e /\ e \in Nat
    OBVIOUS
  <2>4. data = strs + z - c + sz  BY ONLY <1>4, <2>1, <2>2, <2>3
  <2> QED BY ONLY <1>4, <2>2, <2>3, <2>4
<1>8. ASSUME NEW q \in Memory, q < st + i \/ q >= st + z PROVE g.mem[q] = h.mem[q]
  <2>1. q \in Nat  BY DEF Memory
  <2>2. q \notin at .. at + u - 1
    BY ONLY <1>1, <1>4, <1>8, <2>1, i \in Nat
  <2> QED BY <1>5, <2>2
<1>9. ASSUME NEW j \in 1 .. u, NEW q \in Nat, q = i + (j - 1) PROVE At(g, q) = cells[j]
  <2>1. PICK p \in Nat : p = st + q  BY <1>1
  <2>2. p \in Memory
    <3>1. p <= 2 * MaxSize - 1  BY ONLY <1>1, <1>4, <1>7, <1>9, <2>1, i \in Nat, j \in 1 .. u, q \in Nat
    <3> QED BY <1>7, <3>1 DEF Memory
  <2>3. p \in at .. at + u - 1 /\ p - at + 1 = j
    BY ONLY <1>1, <1>4, <1>9, <2>1, i \in Nat, j \in 1 .. u, q \in Nat
  <2>4. g.mem[p] = cells[p - at + 1]  BY <1>5, <2>2, <2>3
  <2> QED BY <1>6, <2>1, <2>3, <2>4 DEF At
<1>10. ASSUME NEW q \in 0 .. i - 1 PROVE At(g, q) = At(b, q)
  <2>1. PICK p \in Nat : p = st + q  BY <1>1
  <2>2. p \in Memory
    <3>1. p <= 2 * MaxSize - 1  BY ONLY <1>1, <1>4, <1>7, <2>1, i \in Nat, q \in 0 .. i - 1
    <3> QED BY <1>7, <3>1 DEF Memory
  <2>3. p < st + i /\ p < st + i + u
    BY ONLY <1>1, <1>4, <2>1, i \in Nat, q \in 0 .. i - 1
  <2>4. g.mem[p] = b.mem[p]  BY <1>3, <1>8, <2>2, <2>3
  <2> QED BY <1>6, <2>1, <2>4 DEF At, st
<1>11. ASSUME NEW a \in 0 .. i PROVE SplicedTo(b, g, a, i, c, u, z)
  <2>1. h = SpliceStruct(b, i, c - i, u).fdt /\ SpliceStruct(b, i, c - i, u).err = 0  BY DEF h, u
  <2>2. \A q \in Memory : q < st + a => q < st + i
    <3>1. Memory \subseteq Int  BY DEF Memory
    <3> QED BY <1>1, <3>1
  <2>3. \A q \in Memory : q < b.off_dt_struct + a \/ q >= b.off_dt_struct + z => g.mem[q] = h.mem[q]
    BY <1>8, <2>2 DEF st
  <2> QED BY <1>4, <1>5, <2>1, <2>3 DEF SplicedTo
<1> QED BY <1>4, <1>5, <1>6, <1>9, <1>10, <1>11 DEF Inserted, g, h, u, st

Renamed(b, o, name) == [TreeOf(b) EXCEPT ![NodeNo(b, o)].name = name]

RenameOutcome(b, o, name, r) ==
  \/ NotWritten(b, r)
  \/ RwCheckHeader(b) = 0 /\ NoNode(b, o, r)
  \/ /\ RwCheckHeader(b) = 0 /\ o \in Nodes(b) /\ r.err = NOSPACE /\ r.fdt = b
     /\ Len(name) > Len(GetName(b, o))
  \/ RwCheckHeader(b) = 0 /\ o \in Nodes(b) /\ r.err = 0 /\ Becomes(b, r.fdt, Renamed(b, o, name))

\* The cells of a name follow o up to z.
NameHere(g, o, z, name) ==
  /\ At(g, o).tag = "begin" /\ z = o + 1 + Len(NameCells(name))
  /\ \A i \in 1 .. Len(NameCells(name)) : At(g, o + i) = NameCells(name)[i]

\* A BEGIN_NODE with its name opens one node and holds no other tag.
LEMMA NameHereMeans ==
  ASSUME NEW g, NEW o \in Nat, NEW name \in Seq(Nat \ {0}), NEW z, NameHere(g, o, z, name)
  PROVE  /\ z \in Nat /\ o + 1 < z /\ Net(g, o, z) = 1 /\ NoEnd(g, o, z) /\ PropTags(g, o, z) = {}
         /\ Plain(g, o, z)
<1> DEFINE cells == NameCells(name)
           w == Len(cells)
<1>1. w \in Nat \ {0} /\ \A i \in 1 .. w : cells[i].tag = "data"  BY NameCellsLemma
<1>2. At(g, o).tag = "begin" /\ z = o + 1 + w /\ \A i \in 1 .. w : At(g, o + i) = cells[i]
  BY DEF NameHere
<1> HIDE DEF w, cells
<1>3. z \in Nat /\ o + 1 < z  BY <1>1, <1>2
<1>4. ASSUME NEW q \in o + 1 .. z - 1 PROVE At(g, q).tag = "data"
  <2>1. PICK j \in 1 .. w : q = o + j
    <3>1. q - o \in 1 .. w /\ q = o + (q - o)  BY <1>1, <1>2
    <3> QED BY <3>1
  <2> QED BY <1>1, <1>2, <2>1
<1>5. Net(g, o, o + 1) = 1  BY <1>2, NetOne
<1>6. Net(g, o + 1, z) = 0  BY <1>4, NetNone
<1>7. Net(g, o, z) = 1
  <2>1. PICK t \in Nat : t = o + 1  OBVIOUS
  <2>2. o <= t /\ t <= z  BY <1>3, <2>1
  <2>3. Net(g, o, z) = Net(g, o, t) + Net(g, t, z)  BY <1>3, <2>2, NetJoin
  <2> QED BY <1>5, <1>6, <2>1, <2>3
<1>8. \A q \in o .. z - 1 : q = o \/ q \in o + 1 .. z - 1  BY <1>3
<1> QED BY <1>2, <1>3, <1>4, <1>7, <1>8 DEF NoEnd, PropTags, Plain, Edges

\* The name put there is read back.
LEMMA NameWithin ==
  ASSUME NEW g \in Blobs, Size(g) \in Int, NEW o \in Nat,
         NEW name \in Seq(Nat \ {0}), NEW z \in Nat, NameHere(g, o, z, name), z <= Size(g)
  PROVE  GetName(g, o) = name /\ NextTag(g, o) = z
<1> DEFINE cells == NameCells(name)
           w == Len(cells)
           st == g.off_dt_struct
<1>1. w \in Nat \ {0}  BY NameCellsLemma
<1>2. At(g, o).tag = "begin" /\ z = o + 1 + w /\ \A i \in 1 .. w : At(g, o + i) = cells[i]
  BY DEF NameHere
<1>3. st \in Nat  BY BlobFields
<1> HIDE DEF w, cells
<1>4. PICK p \in Nat : p = st + o  BY <1>3
<1>5. \A i \in 1 .. w : g.mem[p + i] = cells[i]
  <2>1. \A i \in 1 .. w : p + i = st + (o + i)  BY <1>1, <1>3, <1>4
  <2> QED BY <1>2, <2>1 DEF At
<1>6. g.mem[p].tag = "begin"  BY <1>2, <1>4 DEF At
<1>7. Elem(g.mem, p, p + 1 + Len(NameCells(name)))
  <2>1. \A i \in 1 .. Len(NameCells(name)) : g.mem[p + i] = NameCells(name)[i]  BY <1>5 DEF w, cells
  <2> QED BY <1>6, <2>1, NameElem
<1>8. p + 1 + Len(NameCells(name)) = st + z
  <2>1. p + 1 + w = st + z  BY <1>1, <1>2, <1>3, <1>4
  <2> QED BY <2>1 DEF w, cells
<1>9. Elem(g.mem, g.off_dt_struct + o, g.off_dt_struct + z)  BY <1>4, <1>7, <1>8
<1>10. o < z  BY <1>1, <1>2
<1>11. NextTag(g, o) = z  BY <1>9, <1>10, NextTagAt
<1>12. NextTag(g, o) = o + 1 + Len(NameCells(name))  BY <1>2, <1>11 DEF w, cells
<1>13. \A i \in 1 .. Len(NameCells(name)) : At(g, o + i) = NameCells(name)[i]  BY DEF NameHere
<1> QED BY <1>11, <1>12, <1>13, NameIs

\* The same in a blob in order.
LEMMA NameRead ==
  ASSUME NEW g \in Blobs, NEW k \in Nat, NEW e \in Nat, Holds(g, k, e), NEW o \in Nat,
         NEW name \in Seq(Nat \ {0}), NEW z \in Nat, NameHere(g, o, z, name), z <= e
  PROVE  GetName(g, o) = name /\ NextTag(g, o) = z
<1>1. Size(g) \in Int /\ e + 1 <= Size(g)  BY EndIs
<1>2. z <= Size(g)  BY <1>1
<1> QED BY <1>1, <1>2, NameWithin

\* A name that takes more cells is longer.
LEMMA NameUnits ==
  ASSUME NEW s \in Seq(Nat), NEW t \in Seq(Nat), Len(NameCells(s)) > Len(NameCells(t))
  PROVE  Len(s) > Len(t)
<1>1. ASSUME NEW n \in Seq(Nat)
      PROVE  Len(NameCells(n)) = (Len(n) + 1 + 1) \div 2 /\ Len(n) \in Nat
  <2>1. Append(n, 0) \in Seq(Nat) /\ Len(Append(n, 0)) = Len(n) + 1  OBVIOUS
  <2>2. Len(NameCells(n)) = Units(Len(Append(n, 0)))  BY <2>1, BytesLemma DEF NameCells
  <2> QED BY <2>1, <2>2 DEF Units
<1> DEFINE x == Len(s)
           y == Len(t)
<1>2. x \in Nat /\ y \in Nat /\ (x + 1 + 1) \div 2 > (y + 1 + 1) \div 2  BY <1>1
<1> HIDE DEF x, y
<1>3. x > y  BY ONLY <1>2
<1> QED BY <1>3 DEF x, y

\* fdt_set_name renames the node, or fails and changes nothing.
LEMMA RenameDoes ==
  ASSUME NEW b, NEW k \in Nat, NEW e \in Nat, Whole(b, k, e), b.magic = "FDT", b.version >= 16,
         NEW o \in Nat, NEW name \in Seq(Nat \ {0})
  PROVE  RenameOutcome(b, o, name, SetName(b, o, name))
<1> DEFINE st == b.off_dt_struct
           cells == NameCells(name)
           w == Len(cells)
           n == NextTag(b, o)
           i == o + 1
           s == SpliceStruct(b, i, n - i, w)
           r == SetName(b, o, name)
           g == Put(s.fdt, st + i, cells)
<1>1. b \in Blobs /\ Holds(b, k, e)  BY DEF Whole
<1>2. CASE RwCheckHeader(b) # 0
  <2>1. r = Fail(RwCheckHeader(b), b)  BY <1>2 DEF SetName, Guarded
  <2> QED BY <1>2, <2>1 DEF RenameOutcome, NotWritten
<1>3. CASE RwCheckHeader(b) = 0 /\ CheckNodeOffset(b, o) < 0
  <2>1. r = Fail(BADOFFSET, b)  BY <1>3 DEF SetName, Guarded
  <2>2. o \notin Nodes(b)  BY <1>3, NodeOffset
  <2> QED BY <1>3, <2>1, <2>2 DEF RenameOutcome, NoNode
<1>4. CASE RwCheckHeader(b) = 0 /\ ~(CheckNodeOffset(b, o) < 0)
  <2>1. /\ o \in Nodes(b) /\ o \in 0 .. e - 1 /\ At(b, o).tag = "begin" /\ n \in o + 1 .. e /\ n \in Nat
        /\ i \in Nat /\ i <= n /\ n <= e /\ o < n
    BY <1>1, <1>4, NodeOffset
  <2>2. Elem(b.mem, st + o, st + n) /\ Run(b.mem, st, st + o)
    <3>1. At(b, o).tag \in Opens  BY <2>1 DEF Opens
    <3> QED BY <1>1, <2>1, <3>1, TagAt
  <2>3. Len(NameCells(GetName(b, o))) = n - i
    <3>1. Len(NameCells(GetName(b, o))) = n - o - 1  BY <1>1, <2>1, GetNameLemma
    <3> QED BY <2>1, <3>1
  <2>4. st \in Nat  BY <1>1, BlobFields
  <2>5. r = IF s.err # 0 THEN s ELSE Done(g)
    <3> HIDE DEF st
    <3>1. st + o + 1 = st + i  BY ONLY <2>4, o \in Nat
    <3> HIDE DEF i
    <3>2. r = IF SpliceStruct(b, o + 1, n - i, w).err # 0 THEN SpliceStruct(b, o + 1, n - i, w)
              ELSE Done(Put(SpliceStruct(b, o + 1, n - i, w).fdt, st + o + 1, cells))
      BY <1>4, <2>3 DEF SetName, Guarded, AndThen, st
    <3> QED BY <3>1, <3>2 DEF i
  <2>6. cells \in Seq(Cells) /\ w \in Nat \ {0}  BY NameCellsLemma
  <2>7. n - i \in Nat  BY <2>1
  <2>8. GetName(b, o) \in Seq(Nat)
    BY <1>1, <2>1, GetNameLemma
  <2> HIDE DEF s, r, g, st, n, cells, w
  <2>9. CASE s.err # 0
    <3>1. SpliceErr(b, n - i, w, s)
      <4>1. i + (n - i) <= e  BY <2>1
      <4> HIDE DEF i
      <4> QED BY <1>1, <1>4, <2>1, <2>6, <2>7, <4>1, StructSpliceErr DEF s
    <3>2. s.err = NOSPACE /\ s.fdt = b /\ w > n - i  BY <2>9, <3>1 DEF SpliceErr
    <3>3. Len(name) > Len(GetName(b, o))
      <4>1. Len(NameCells(name)) > Len(NameCells(GetName(b, o)))  BY <2>3, <3>2 DEF w, cells
      <4>2. name \in Seq(Nat)  OBVIOUS
      <4> QED BY <2>8, <4>1, <4>2, NameUnits
    <3> QED BY <1>4, <2>1, <2>5, <2>9, <3>2, <3>3 DEF RenameOutcome, r
  <2>10. CASE s.err = 0
    <3>1. r = Done(g) /\ r.err = 0 /\ r.fdt = g  BY <2>5, <2>10 DEF Done
    <3>2. PICK z \in Nat : z = i + w  BY <2>1, <2>6
    <3>3. Inserted(b, g, i, n, z, cells)
      <4>1. PICK l, at : l = n - i /\ at = st + i  OBVIOUS
      <4>2. s = SpliceStruct(b, i, l, Len(cells)) /\ g = Put(s.fdt, at, cells)  BY <4>1 DEF s, g, w
      <4>3. z = i + Len(cells) /\ at = b.off_dt_struct + i  BY <3>2, <4>1 DEF w, st
      <4> HIDE DEF i
      <4> QED BY <1>1, <1>4, <2>1, <2>6, <2>10, <4>1, <4>2, <4>3, Inserting
    <3>4. NameHere(g, o, z, name)
      <4>1. At(g, o) = At(b, o)
        <5>1. o \in 0 .. i - 1  BY <2>1
        <5> QED BY <3>3, <5>1 DEF Inserted
      <4>2. ASSUME NEW j \in 1 .. w PROVE At(g, o + j) = cells[j]
        <5>1. PICK q \in Nat : q = o + j  BY <2>1, <2>6
        <5>2. q = i + (j - 1)  BY <2>1, <2>6, <5>1
        <5>3. j \in 1 .. Len(cells)  BY DEF w
        <5>4. At(g, q) = cells[j]
          <6> HIDE DEF i
          <6> QED BY <3>3, <5>2, <5>3 DEF Inserted
        <5> QED BY <5>1, <5>4
      <4>3. z = o + 1 + w  BY <3>2
      <4> QED BY <2>1, <4>1, <4>2, <4>3 DEF NameHere, w, cells
    <3>5. z \in Nat /\ o + 1 < z /\ Net(g, o, z) = 1 /\ NoEnd(g, o, z) /\ PropTags(g, o, z) = {} /\ Plain(g, o, z)
      BY <3>4, NameHereMeans
    <3>6. Fine(g)  BY <1>1, <3>1, SetNameFine DEF r
    <3>7. g \in Blobs /\ g.magic = "FDT" /\ g.version = 17  BY <3>3 DEF Inserted
    <3>8. PICK k2 \in Nat, e2 \in Nat : Holds(g, k2, e2)  BY <3>6, <3>7 DEF Fine
    <3>9. ASSUME NEW q \in o + 1 .. n - 1
          PROVE  At(b, q).tag \notin Opens /\ At(b, q).tag # "end"
      <4>1. PICK p \in Int, m \in Int, t \in Nat : p = st + o /\ m = st + n /\ t = st + q
        <5>1. q \in Nat  BY <2>1
        <5> QED BY <2>1, <2>4, <5>1
      <4>2. t \in p + 1 .. m - 1
        BY ONLY <2>1, <2>4, <4>1, q \in o + 1 .. n - 1
      <4>3. Elem(b.mem, p, m)  BY <2>2, <4>1
      <4>4. b.mem[t].tag \notin Opens /\ b.mem[t].tag # "end"  BY <4>2, <4>3, ElemInside
      <4> QED BY <4>1, <4>4 DEF At, st
    <3>10. Net(b, o, n) = 1
      <4>1. Net(b, o, o + 1) = 1  BY <2>1, NetOne
      <4>2. Net(b, o + 1, n) = 0
        <5>1. \A q \in o + 1 .. n - 1 : At(b, q).tag \notin {"begin", "end_node"}  BY <3>9 DEF Opens
        <5> QED BY <5>1, NetNone
      <4>3. PICK t \in Nat : t = o + 1 /\ o <= t /\ t <= n  BY <2>1
      <4>4. Net(b, o, n) = Net(b, o, t) + Net(b, t, n)  BY <2>1, <4>3, NetJoin
      <4> QED BY <4>1, <4>2, <4>3, <4>4
    <3>11. PropTags(b, o, n) = {}
      <4>1. \A q \in o .. n - 1 : q = o \/ q \in o + 1 .. n - 1  BY <2>1
      <4> QED BY <2>1, <3>9, <4>1 DEF PropTags, Opens
    <3>12. Edited(b, k, e, g, k2, e2, o, n, z)
      <4>1. SplicedTo(b, g, o, i, n, w, z)
        <5>1. o \in 0 .. i  BY <2>1
        <5> HIDE DEF i
        <5> QED BY <3>3, <5>1 DEF Inserted, w
      <4>2. o <= i /\ 0 < n  BY <2>1
      <4>3. Run(b.mem, b.off_dt_struct, b.off_dt_struct + o)  BY <2>2 DEF st
      <4>4. Net(g, o, z) = Net(b, o, n)  BY <3>5, <3>10
      <4> HIDE DEF i
      <4> QED BY ONLY <1>1, <1>4, <2>1, <2>6, <3>2, <3>5, <3>7, <3>8, <4>1, <4>2, <4>3, <4>4, SpliceEdit,
                      b.magic = "FDT", k \in Nat, e \in Nat, o \in Nat, k2 \in Nat, e2 \in Nat
    <3>13. EditIn(b, k, e, g, k2, o, n, z, o)
      <4>1. EditOf(b, k, e, g, k2, o, n, z)  BY <3>12 DEF Edited
      <4>2. o <= o /\ o < z  BY <2>1, <3>5
      <4> QED BY <2>1, <3>4, <3>5, <3>9, <4>1, <4>2 DEF EditIn, NameHere, Plain, Opens, Edges
    <3>14. InReach(g, e2)  BY <3>7, <3>8, ReachOfSize
    <3>15. /\ Becomes(b, g, WithNode(b, NodeNo(b, o), NodeAs(g, o)))
           /\ NodeNo(b, o) \in DOMAIN TreeOf(b) /\ TreeOf(b)[NodeNo(b, o)] = NodeAs(b, o)
      <4>1. n \in Nat /\ z \in Nat /\ k2 \in Nat /\ e2 \in Nat  BY <2>1
      <4>2. NodeEdited(b, k, e, g, k2, e2, o, n, z, o)  BY <1>1, <1>4, <3>12, <3>13, <3>14 DEF NodeEdited
      <4>3. NodeDecoded(b, g, o)
        BY ONLY <4>1, <4>2, EditInDecoded, k \in Nat, e \in Nat, o \in Nat
      <4> QED BY <4>3 DEF NodeDecoded
    <3>16. NodeAs(g, o).depth = NodeAs(b, o).depth
      <4>1. n \in Nat /\ z \in Nat /\ k2 \in Nat  BY <2>1
      <4>2. OthersRead(b, g, n, z, o)
        BY ONLY <4>1, <3>13, EditInNodes, k \in Nat, e \in Nat, o \in Nat
      <4> QED BY <4>2 DEF OthersRead
    <3>17. GetName(g, o) = name
      <4>1. z <= e2
        <5>1. e2 = e + (z - n)  BY <3>12 DEF Edited
        <5> QED BY ONLY <2>1, <3>2, <5>1, e \in Nat, e2 \in Nat
      <4> QED BY <3>2, <3>4, <3>7, <3>8, <4>1, NameRead
    <3>18. PropsOf(g, o) = PropsOf(b, o)
      <4>1. Parts3(b, g, o, n, z, o)  BY <2>1, <3>2, <3>13, EditProps
      <4> QED BY <3>5, <3>11, <4>1, PairsNone DEF Parts3
    <3>19. NodeAs(g, o) = [NodeAs(b, o) EXCEPT !.name = name]
      BY <3>16, <3>17, <3>18 DEF NodeAs
    <3>20. WithNode(b, NodeNo(b, o), NodeAs(g, o)) = Renamed(b, o, name)
      BY <3>15, <3>19 DEF WithNode, Renamed
    <3> QED BY <1>4, <2>1, <3>1, <3>15, <3>20 DEF RenameOutcome, r
  <2> QED BY <2>9, <2>10
<1> QED BY <1>2, <1>3, <1>4

-----------------------------------------------------------------------------
\* Subtrees.

\* The END_NODE of the node at o is at q.
Closes(b, e, o, q) ==
  /\ q \in o + 1 .. e - 1 /\ At(b, q).tag = "end_node" /\ Net(b, o + 1, q + 1) = -1
  /\ \A p \in o + 1 .. q : Net(b, o + 1, p) >= 0

\* Every node is closed.
LEMMA CloseExists ==
  ASSUME NEW b, NEW e \in Nat, Shaped(b, e), NEW o \in 0 .. e - 1, At(b, o).tag = "begin"
  PROVE  \E q \in Nat : Closes(b, e, o, q)
<1> DEFINE Q == {q \in o + 1 .. e - 1 : Net(b, o + 1, q + 1) < 0}
<1>1. Net(b, o + 1, e) < 0
  <2>1. Net(b, 0, e) = 0 /\ Net(b, 0, o) >= 0  BY DEF Shaped
  <2>2. Net(b, o, o + 1) = 1  BY NetOne
  <2>3. PICK t \in Int : t = o + 1  OBVIOUS
  <2>4. Net(b, 0, e) = Net(b, 0, o) + Net(b, o, e)  BY NetJoin
  <2>5. Net(b, o, e) = Net(b, o, t) + Net(b, t, e)  BY <2>3, NetJoin
  <2>6. Net(b, t, e) \in Int /\ Net(b, 0, o) \in Int  BY NetType
  <2> QED BY <2>1, <2>2, <2>3, <2>4, <2>5, <2>6
<1>2. Q # {}
  <2>1. o + 1 # e
    <3>1. Net(b, e, e) = 0  BY NetEmpty
    <3> QED BY <1>1, <3>1
  <2>2. e - 1 \in Q  BY <1>1, <2>1
  <2> QED BY <2>2
<1>3. PICK q \in Q : \A p \in Q : q <= p
  <2>1. Q \in SUBSET Nat  OBVIOUS
  <2> HIDE DEF Q
  <2> QED BY <1>2, <2>1, MinLemma
<1>4. ASSUME NEW p \in o + 1 .. q PROVE Net(b, o + 1, p) >= 0
  <2>1. CASE p = o + 1
    <3>1. Net(b, o + 1, o + 1) = 0  BY NetEmpty
    <3> QED BY <2>1, <3>1
  <2>2. CASE p # o + 1
    <3>1. p - 1 \in o + 1 .. e - 1 /\ (p - 1) + 1 = p  BY <2>2
    <3>2. p - 1 \notin Q  BY <1>3
    <3>3. Net(b, o + 1, p) \in Int  BY NetType
    <3> QED BY <3>1, <3>2, <3>3
  <2> QED BY <2>1, <2>2
<1>5. q \in o + 1 .. e - 1 /\ q \in Nat /\ Net(b, o + 1, q + 1) < 0  OBVIOUS
<1> HIDE DEF Q
<1>6. At(b, q).tag = "end_node" /\ Net(b, o + 1, q + 1) = -1
  <2>1. PICK s \in Int, t \in Int : s = o + 1 /\ t = q + 1  BY <1>5
  <2>2. Net(b, s, t) = Net(b, s, q) + Net(b, q, t)  BY <1>5, <2>1, NetJoin
  <2>3. Net(b, q, q + 1) = CASE At(b, q).tag = "begin" -> 1
                             [] At(b, q).tag = "end_node" -> -1
                             [] OTHER -> 0
    BY <1>5, NetOne
  <2>4. Net(b, s, q) \in Int /\ Net(b, s, q) >= 0  BY <1>4, <1>5, <2>1, NetType
  <2> QED BY <1>5, <2>1, <2>2, <2>3, <2>4
<1> QED BY <1>4, <1>5, <1>6 DEF Closes

\* No cell before the closing END_NODE closes the node.
LEMMA CloseOne ==
  ASSUME NEW b, NEW e \in Nat, NEW o \in Nat, NEW q \in Nat, NEW p \in Nat,
         Closes(b, e, o, q), p < q
  PROVE  p + 1 > o => Net(b, o + 1, p + 1) # -1
<1>1. ASSUME p + 1 > o PROVE Net(b, o + 1, p + 1) >= 0
  <2>1. CASE p = o
    <3>1. Net(b, o + 1, o + 1) = 0  BY NetEmpty
    <3> QED BY <2>1, <3>1
  <2>2. CASE p # o
    <3>1. p + 1 \in o + 1 .. q  BY <1>1, <2>2
    <3> QED BY <3>1 DEF Closes
  <2> QED BY <2>1, <2>2
<1> QED BY <1>1

\* _fdt_node_end_offset finds it for every node.
LEMMA NodeCloses ==
  ASSUME NEW b, NEW k \in Nat, NEW e \in Nat, Whole(b, k, e), NEW o \in Nodes(b)
  PROVE  NodeEnd(b, o) \in o + 1 .. e /\ Closes(b, e, o, NodeEnd(b, o) - 1)
<1>1. b \in Blobs /\ Holds(b, k, e) /\ Shaped(b, e)  BY DEF Whole
<1>2. o \in 0 .. e - 1 /\ At(b, o).tag = "begin"  BY <1>1, NodesAre
<1>3. PICK q \in Nat : Closes(b, e, o, q)  BY <1>1, <1>2, CloseExists
<1>4. ~(CheckNodeOffset(b, o) < 0)
  <2>1. o \in Nat  BY <1>2
  <2> QED BY <2>1, NodeOffset
<1>5. End(b) = e  BY <1>1, EndIs
<1> DEFINE E == {p \in Tagged(b, {"end_node"}, o) : Depth(b, o, p) = -1}
           F == {p + 1 : p \in E}
<1>6. E = {p \in o .. e - 1 : At(b, p).tag = "end_node" /\ Net(b, o + 1, p + 1) = -1}
  <2>1. \A p \in Int : Depth(b, o, p) = Net(b, o + 1, p + 1)  BY <1>2, DepthIs
  <2> QED BY <1>5, <2>1 DEF Tagged
<1>7. q \in E /\ q + 1 \in F /\ q + 1 \in o + 1 .. e  BY <1>2, <1>3, <1>6 DEF Closes
<1>8. \A y \in F : q + 1 <= y
  <2>1. ASSUME NEW p \in E PROVE q <= p
    <3>1. p \in Nat /\ p + 1 > o /\ Net(b, o + 1, p + 1) = -1  BY <1>2, <1>6
    <3> HIDE DEF E, F
    <3>2. p < q => Net(b, o + 1, p + 1) # -1  BY <1>2, <1>3, <3>1, CloseOne
    <3> QED BY <3>1, <3>2
  <2>2. \A p \in E : p \in Nat  BY <1>2, <1>6
  <2> HIDE DEF E
  <2> QED BY <2>1, <2>2
<1>9. F \in SUBSET Nat
  <2>1. \A p \in E : p \in Nat  BY <1>2, <1>6
  <2> HIDE DEF E
  <2> QED BY <2>1
<1>10. NodeEnd(b, o) = Lowest(F, NOTFOUND)  BY <1>4 DEF NodeEnd
<1> HIDE DEF E, F
<1>11. NodeEnd(b, o) = q + 1  BY <1>7, <1>8, <1>9, <1>10, LowestIs
<1> QED BY <1>3, <1>7, <1>11

\* In order, the numbers below c are the first ones.
LEMMA SplitAt ==
  ASSUME NEW S \in SUBSET Int, IsFiniteSet(S), NEW c \in Int
  PROVE  /\ Cardinality(Left(S, c)) \in 0 .. Cardinality(S) /\ Cardinality(S) \in Nat
         /\ \A j \in 1 .. Cardinality(S) : InOrder(S)[j] < c <=> j <= Cardinality(Left(S, c))
<1> DEFINE L == Left(S, c)
           f == InOrder(S)
<1>1. L \in SUBSET S /\ L \in SUBSET Int  BY DEF Left
<1>2. /\ IsFiniteSet(L) /\ Cardinality(L) \in Nat /\ Cardinality(S) \in Nat
      /\ Cardinality(L) <= Cardinality(S)
  BY <1>1, FS_Subset, FS_CardinalityType
<1>3. ASSUME NEW j \in 1 .. Cardinality(S)
      PROVE  f[j] < c <=> j <= Cardinality(L)
  <2>1. Sorted(f, Cardinality(S), S)  BY InOrderSorted
  <2>2. f[j] \in S /\ f[j] \in Int  BY <2>1 DEF Sorted
  <2>3. CASE Cardinality(L) = 0
    <3>1. L = {}  BY <1>2, <2>3, FS_EmptySet
    <3>2. ~(f[j] < c)  BY <2>2, <3>1 DEF Left
    <3> QED BY <2>3, <3>2
  <2>4. CASE Cardinality(L) # 0
    <3> DEFINE g == InOrder(L)
               n == Cardinality(L)
    <3>1. Sorted(g, n, L) /\ n \in Nat  BY <1>1, <1>2, InOrderSorted
    <3>2. n \in 1 .. n  BY <1>2, <2>4
    <3>3. PICK l \in L : l = g[n]  BY <3>1, <3>2 DEF Sorted
    <3>4. \A x \in L : x <= l
      <4>1. ASSUME NEW x \in L PROVE x <= l
        <5>1. PICK i \in 1 .. n : g[i] = x  BY <3>1 DEF Sorted
        <5>2. x \in Int /\ l \in Int  BY <1>1, <3>3
        <5>3. CASE i = n  BY <3>3, <5>1, <5>2, <5>3
        <5>4. CASE i # n
          <6>1. i < n  BY <3>1, <5>4
          <6>2. g[i] < g[n]  BY <3>1, <3>2, <6>1 DEF Sorted
          <6> QED BY <3>3, <5>1, <5>2, <6>2
        <5> QED BY <5>3, <5>4
      <4> QED BY <4>1
    <3> HIDE DEF g, n
    <3>5. l \in S /\ l \in Int /\ l < c  BY <1>1, <3>3 DEF Left
    <3>6. UpTo(S, l) = L
      <4>1. \A x \in S : x \in Int  OBVIOUS
      <4>2. \A x \in S : x <= l => x < c  BY <3>5, <4>1
      <4> QED BY <1>1, <3>4, <4>1, <4>2 DEF UpTo, Left
    <3>7. /\ f[j] < l <=> j < Cardinality(UpTo(S, l))
          /\ f[j] = l <=> j = Cardinality(UpTo(S, l))
      BY <3>5, InOrderAt
    <3>8. f[j] < c <=> f[j] <= l
      <4>1. f[j] < c => f[j] \in L  BY <2>2 DEF Left
      <4> HIDE DEF L, f
      <4> QED BY <2>2, <3>4, <3>5, <4>1
    <3>9. j \in Nat  OBVIOUS
    <3> HIDE DEF L, f
    <3> QED BY <1>2, <2>2, <3>5, <3>6, <3>7, <3>8, <3>9
  <2> QED BY <2>3, <2>4
<1> QED BY <1>2, <1>3

\* The nodes of the tree by their numbers.
LEMMA TreeShape ==
  ASSUME NEW b, NEW k \in Nat, NEW e \in Nat, Whole(b, k, e)
  PROVE  /\ Len(TreeOf(b)) = Cardinality(Nodes(b)) /\ Cardinality(Nodes(b)) \in Nat
         /\ DOMAIN TreeOf(b) = 1 .. Cardinality(Nodes(b))
         /\ \A j \in 1 .. Cardinality(Nodes(b)) :
              InOrder(Nodes(b))[j] \in Nodes(b) /\ TreeOf(b)[j] = NodeAs(b, InOrder(Nodes(b))[j])
<1>1. Nodes(b) \in SUBSET Int /\ IsFiniteSet(Nodes(b))  BY NodesAre DEF Whole
<1> DEFINE F == NodesAs(b)
           V == {F[q] : q \in Nodes(b)}
<1>2. \A q \in Nodes(b) : F[q] \in V  OBVIOUS
<1>3. \A q \in Nodes(b) : F[q] = NodeAs(b, q)  BY <1>1 DEF NodesAs
<1> HIDE DEF F, V
<1>4. /\ InTurn(Nodes(b), F) \in Seq(V) /\ Len(InTurn(Nodes(b), F)) = Cardinality(Nodes(b))
      /\ \A j \in 1 .. Cardinality(Nodes(b)) :
           InOrder(Nodes(b))[j] \in Nodes(b) /\ InTurn(Nodes(b), F)[j] = F[InOrder(Nodes(b))[j]]
  BY <1>1, <1>2, InTurnType
<1>5. TreeOf(b) = InTurn(Nodes(b), F)  BY DEF TreeOf, F
<1>6. Cardinality(Nodes(b)) \in Nat  BY <1>1, FS_CardinalityType
<1> QED BY <1>3, <1>4, <1>5, <1>6

\* The depth of a node counted from one before it.
LEMMA DepthFrom ==
  ASSUME NEW b, NEW k \in Nat, NEW e \in Nat, Whole(b, k, e), NEW o \in Nodes(b), NEW x \in Nodes(b),
         o <= x
  PROVE  /\ NodeAs(b, x).depth = NodeAs(b, o).depth + Net(b, o + 1, x + 1)
         /\ NodeAs(b, o).depth \in Int /\ Depth(b, o, x) = Net(b, o + 1, x + 1)
<1>1. o \in 0 .. e - 1 /\ x \in 0 .. e - 1  BY NodesAre DEF Whole
<1>2. /\ Depth(b, 0, o) = Net(b, 0 + 1, o + 1) /\ Depth(b, 0, x) = Net(b, 0 + 1, x + 1)
      /\ Depth(b, o, x) = Net(b, o + 1, x + 1)
  BY <1>1, DepthIs
<1>3. PICK s \in Int, t \in Int : s = o + 1 /\ t = x + 1  BY <1>1
<1>4. 1 <= s /\ s <= t  BY <1>1, <1>3
<1>5. Net(b, 1, t) = Net(b, 1, s) + Net(b, s, t)  BY <1>4, NetJoin
<1>6. Net(b, 1, s) \in Int  BY <1>3, NetType
<1> QED BY <1>2, <1>3, <1>5, <1>6 DEF NodeAs

\* Node x is behind o: below it before o's END_NODE, and not deeper when it is the first
\* one behind it.
LEMMA InsideDeeper ==
  ASSUME NEW b, NEW k \in Nat, NEW e \in Nat, Whole(b, k, e), NEW o \in Nodes(b), NEW x \in Nodes(b),
         o < x
  PROVE  /\ x < NodeEnd(b, o) => NodeAs(b, x).depth > NodeAs(b, o).depth
         /\ ~(x < NodeEnd(b, o)) /\ (\A y \in Nodes(b) : y < x => y < NodeEnd(b, o))
            => ~(NodeAs(b, x).depth > NodeAs(b, o).depth)
<1>1. /\ o \in 0 .. e - 1 /\ x \in 0 .. e - 1 /\ At(b, x).tag = "begin"
      /\ \A y \in 0 .. e - 1 : At(b, y).tag = "begin" => y \in Nodes(b)
  BY NodesAre DEF Whole
<1>2. NodeEnd(b, o) \in o + 1 .. e /\ Closes(b, e, o, NodeEnd(b, o) - 1)  BY NodeCloses
<1>3. PICK c \in Nat : c = NodeEnd(b, o)  BY <1>1, <1>2
<1>4. NodeAs(b, x).depth = NodeAs(b, o).depth + Net(b, o + 1, x + 1) /\ NodeAs(b, o).depth \in Int
  BY <1>1, DepthFrom
<1>5. PICK s \in Int, t \in Int : s = o + 1 /\ t = x + 1  BY <1>1
<1>6. Net(b, s, t) = Net(b, s, x) + 1
  <2>1. s <= x /\ x <= t  BY <1>1, <1>5
  <2>2. Net(b, s, t) = Net(b, s, x) + Net(b, x, t)  BY <1>1, <2>1, NetJoin
  <2>3. Net(b, x, x + 1) = 1  BY <1>1, NetOne
  <2> QED BY <1>5, <2>2, <2>3
<1>7. Net(b, s, x) \in Int  BY <1>1, NetType
<1>8. ASSUME x < c PROVE NodeAs(b, x).depth > NodeAs(b, o).depth
  <2>1. x # c - 1  BY <1>1, <1>2, <1>3 DEF Closes
  <2>2. x \in o + 1 .. c - 1  BY <1>1, <1>8
  <2>3. Net(b, o + 1, x) >= 0  BY <1>2, <1>3, <2>2 DEF Closes
  <2> QED BY <1>4, <1>5, <1>6, <1>7, <2>3
<1>9. ASSUME ~(x < c), \A y \in Nodes(b) : y < x => y < c
      PROVE  ~(NodeAs(b, x).depth > NodeAs(b, o).depth)
  <2>1. s <= c /\ c <= x /\ c <= t  BY <1>1, <1>2, <1>3, <1>5, <1>9
  <2>2. Net(b, s, x) = Net(b, s, c) + Net(b, c, x)  BY <1>1, <2>1, NetJoin
  <2>3. Net(b, s, c) = -1
    <3>1. (c - 1) + 1 = c  OBVIOUS
    <3> QED BY <1>2, <1>3, <1>5, <3>1 DEF Closes
  <2>4. Net(b, c, x) <= 0
    <3>1. \A y \in c .. x - 1 : At(b, y).tag # "begin"
      <4>1. ASSUME NEW y \in c .. x - 1, At(b, y).tag = "begin" PROVE FALSE
        <5>1. y \in 0 .. e - 1 /\ y < x /\ ~(y < c)  BY <1>1
        <5> QED BY <1>1, <1>9, <4>1, <5>1
      <4> QED BY <4>1
    <3>2. Count(b, c, x, "begin") = 0  BY <3>1, CountNone
    <3>3. Count(b, c, x, "end_node") \in Nat  BY <1>1, CountType
    <3> QED BY <3>2, <3>3 DEF Net
  <2>5. Net(b, c, x) \in Int  BY <1>1, NetType
  <2> QED BY <1>4, <1>5, <1>6, <2>2, <2>3, <2>4, <2>5
<1> QED BY <1>3, <1>8, <1>9

\* In a list of nodes with their depths, the nodes below i and its children.
BelowIn(t, i) == {j \in i + 1 .. Len(t) : \A m \in i + 1 .. j : t[m].depth > t[i].depth}
ChildrenIn(t, i) == {j \in BelowIn(t, i) : t[j].depth = t[i].depth + 1}

NodesUpTo(b, c) == Cardinality(Left(Nodes(b), c))

\* The number of a node in the tree counts the nodes up to it.
LEMMA NumberOf ==
  ASSUME NEW b, NEW k \in Nat, NEW e \in Nat, Whole(b, k, e), NEW o \in Nodes(b)
  PROVE  /\ NodeNo(b, o) \in 1 .. Cardinality(Nodes(b)) /\ Cardinality(Nodes(b)) \in Nat
         /\ InOrder(Nodes(b))[NodeNo(b, o)] = o /\ TreeOf(b)[NodeNo(b, o)] = NodeAs(b, o)
         /\ \A j \in 1 .. Cardinality(Nodes(b)) :
              /\ InOrder(Nodes(b))[j] < o <=> j < NodeNo(b, o)
              /\ InOrder(Nodes(b))[j] = o <=> j = NodeNo(b, o)
<1>1. Nodes(b) \in SUBSET Int /\ IsFiniteSet(Nodes(b))  BY NodesAre DEF Whole
<1>2. /\ Cardinality(UpTo(Nodes(b), o)) \in 1 .. Cardinality(Nodes(b)) /\ Cardinality(Nodes(b)) \in Nat
      /\ InOrder(Nodes(b))[Cardinality(UpTo(Nodes(b), o))] = o
      /\ \A j \in 1 .. Cardinality(Nodes(b)) :
           /\ InOrder(Nodes(b))[j] \in Nodes(b)
           /\ InOrder(Nodes(b))[j] < o <=> j < Cardinality(UpTo(Nodes(b), o))
           /\ InOrder(Nodes(b))[j] = o <=> j = Cardinality(UpTo(Nodes(b), o))
  BY <1>1, InOrderAt
<1>3. \A j \in 1 .. Cardinality(Nodes(b)) : TreeOf(b)[j] = NodeAs(b, InOrder(Nodes(b))[j])
  BY TreeShape
<1> QED BY <1>2, <1>3 DEF NodeNo

\* The nodes below a node are those before its END_NODE.
LEMMA BelowIs ==
  ASSUME NEW b, NEW k \in Nat, NEW e \in Nat, Whole(b, k, e), NEW o \in Nodes(b)
  PROVE  /\ BelowIn(TreeOf(b), NodeNo(b, o)) = NodeNo(b, o) + 1 .. NodesUpTo(b, NodeEnd(b, o))
         /\ NodesUpTo(b, NodeEnd(b, o)) \in NodeNo(b, o) .. Cardinality(Nodes(b))
<1> DEFINE f == InOrder(Nodes(b))
<1>1. Nodes(b) \in SUBSET Int /\ IsFiniteSet(Nodes(b))  BY NodesAre DEF Whole
<1>2. /\ NodeNo(b, o) \in 1 .. Cardinality(Nodes(b)) /\ Cardinality(Nodes(b)) \in Nat
      /\ f[NodeNo(b, o)] = o /\ TreeOf(b)[NodeNo(b, o)] = NodeAs(b, o)
      /\ \A j \in 1 .. Cardinality(Nodes(b)) :
           (f[j] < o <=> j < NodeNo(b, o)) /\ (f[j] = o <=> j = NodeNo(b, o))
  BY NumberOf
<1>3. NodeEnd(b, o) \in o + 1 .. e  BY NodeCloses
<1>4. o \in Int /\ NodeEnd(b, o) \in Int /\ o < NodeEnd(b, o)
  <2>1. o \in Int  BY <1>1
  <2> QED BY <1>3, <2>1
<1>5. /\ NodesUpTo(b, NodeEnd(b, o)) \in 0 .. Cardinality(Nodes(b))
      /\ \A j \in 1 .. Cardinality(Nodes(b)) : f[j] < NodeEnd(b, o) <=> j <= NodesUpTo(b, NodeEnd(b, o))
  BY <1>1, <1>4, SplitAt DEF NodesUpTo
<1>6. /\ Len(TreeOf(b)) = Cardinality(Nodes(b))
      /\ \A j \in 1 .. Cardinality(Nodes(b)) : f[j] \in Nodes(b) /\ TreeOf(b)[j] = NodeAs(b, f[j])
  BY TreeShape
<1>7. \A j \in 1 .. Cardinality(Nodes(b)) : f[j] \in Int  BY <1>1, <1>6
<1>8. PICK i \in Nat, n \in Nat, N \in Nat :
        i = NodeNo(b, o) /\ n = NodesUpTo(b, NodeEnd(b, o)) /\ N = Cardinality(Nodes(b))
  BY <1>2, <1>5
<1>9. n \in i .. N
  <2>1. i <= n  BY <1>2, <1>4, <1>5, <1>8
  <2> QED BY <1>5, <1>8, <2>1
<1>10. Sorted(f, N, Nodes(b))  BY <1>1, <1>8, InOrderSorted
<1>11. ASSUME NEW m \in i + 1 .. N
       PROVE  o < f[m] /\ f[m] \in Nodes(b) /\ TreeOf(b)[m] = NodeAs(b, f[m])
  <2>1. m \in 1 .. N /\ ~(m < i) /\ m # i  BY <1>8
  <2>2. f[m] \in Int /\ ~(f[m] < o) /\ f[m] # o  BY <1>2, <1>7, <1>8, <2>1
  <2> QED BY <1>4, <1>6, <1>8, <2>1, <2>2
<1>12. ASSUME NEW m \in i + 1 .. n PROVE TreeOf(b)[m].depth > TreeOf(b)[i].depth
  <2>1. m \in i + 1 .. N /\ m \in 1 .. N /\ m <= n  BY <1>9
  <2>2. f[m] < NodeEnd(b, o)  BY <1>5, <1>8, <2>1
  <2>3. o < f[m] /\ f[m] \in Nodes(b) /\ TreeOf(b)[m] = NodeAs(b, f[m])  BY <1>11, <2>1
  <2> HIDE DEF f
  <2>4. NodeAs(b, f[m]).depth > NodeAs(b, o).depth  BY <2>2, <2>3, InsideDeeper
  <2> QED BY <1>2, <1>8, <2>3, <2>4
<1>13. ASSUME n < N PROVE ~(TreeOf(b)[n + 1].depth > TreeOf(b)[i].depth)
  <2>1. PICK m \in Nat : m = n + 1 /\ m \in i + 1 .. N /\ m \in 1 .. N /\ ~(m <= n)  BY <1>9, <1>13
  <2>2. ~(f[m] < NodeEnd(b, o))  BY <1>5, <1>8, <2>1
  <2>3. o < f[m] /\ f[m] \in Nodes(b) /\ TreeOf(b)[m] = NodeAs(b, f[m])  BY <1>11, <2>1
  <2>4. ASSUME NEW y \in Nodes(b), y < f[m] PROVE y < NodeEnd(b, o)
    <3>1. PICK j \in 1 .. N : f[j] = y  BY <1>10 DEF Sorted
    <3>2. ~(m < j) /\ m # j
      <4>1. m < j => f[m] < f[j]  BY <1>10, <2>1 DEF Sorted
      <4>2. f[m] \in Int /\ f[j] \in Int  BY <1>7, <1>8, <2>1
      <4> HIDE DEF f
      <4> QED BY <2>4, <3>1, <4>1, <4>2
    <3>3. j <= n  BY <2>1, <3>2
    <3> QED BY <1>5, <1>8, <3>1, <3>3
  <2> HIDE DEF f
  <2>5. ~(NodeAs(b, f[m]).depth > NodeAs(b, o).depth)  BY <2>2, <2>3, <2>4, InsideDeeper
  <2> QED BY <1>2, <1>8, <2>1, <2>3, <2>5
<1> DEFINE t == TreeOf(b)
<1>14. BelowIn(t, i) = i + 1 .. n
  <2>1. Len(t) = N  BY <1>6, <1>8
  <2>2. ASSUME NEW j \in BelowIn(t, i) PROVE j \in i + 1 .. n
    <3>1. j \in i + 1 .. N /\ \A m \in i + 1 .. j : t[m].depth > t[i].depth  BY <2>1 DEF BelowIn
    <3>2. ~(n < j)
      <4>1. SUFFICES ASSUME n < j PROVE FALSE  OBVIOUS
      <4>2. n < N /\ n + 1 \in i + 1 .. j  BY <1>9, <3>1, <4>1
      <4> QED BY <1>13, <3>1, <4>2
    <3> QED BY <1>9, <3>1, <3>2
  <2>3. ASSUME NEW j \in i + 1 .. n PROVE j \in BelowIn(t, i)
    <3>1. j \in i + 1 .. N /\ \A m \in i + 1 .. j : m \in i + 1 .. n  BY <1>9
    <3> QED BY <1>12, <2>1, <3>1 DEF BelowIn
  <2> HIDE DEF t
  <2> QED BY <2>2, <2>3
<1> QED BY <1>8, <1>9, <1>14

\* fdt_subnode_offset_namelen finds a subnode where the tree has a child of that name.
LEMMA SubnodesAre ==
  ASSUME NEW b, NEW k \in Nat, NEW e \in Nat, Whole(b, k, e), NEW o \in Nodes(b), NEW name
  PROVE  (\E q \in Subnodes(b, o) : NodenameEq(GetName(b, q), name)) <=>
         \E j \in ChildrenIn(TreeOf(b), NodeNo(b, o)) : NodenameEq(TreeOf(b)[j].name, name)
<1> DEFINE f == InOrder(Nodes(b))
           t == TreeOf(b)
           i == NodeNo(b, o)
           n == NodesUpTo(b, NodeEnd(b, o))
           N == Cardinality(Nodes(b))
<1>1. /\ Nodes(b) \in SUBSET Int /\ IsFiniteSet(Nodes(b))
      /\ Nodes(b) = {q \in 0 .. e - 1 : At(b, q).tag = "begin"}
  BY NodesAre DEF Whole
<1>2. BelowIn(t, i) = i + 1 .. n /\ n \in i .. N  BY BelowIs
<1>3. /\ i \in 1 .. N /\ N \in Nat /\ t[i] = NodeAs(b, o)
      /\ \A j \in 1 .. N : (f[j] < o <=> j < i) /\ (f[j] = o <=> j = i)
  BY NumberOf
<1>4. NodeEnd(b, o) \in Int /\ o \in Nat
  <2>1. NodeEnd(b, o) \in o + 1 .. e  BY NodeCloses
  <2> QED BY <1>1, <2>1
<1>5. \A j \in 1 .. N : f[j] < NodeEnd(b, o) <=> j <= n
  BY <1>1, <1>4, SplitAt DEF NodesUpTo
<1>6. \A j \in 1 .. N : f[j] \in Nodes(b) /\ t[j] = NodeAs(b, f[j])  BY TreeShape
<1>7. Sorted(f, N, Nodes(b))  BY <1>1, InOrderSorted
<1>8. ASSUME NEW q \in Nodes(b), o < q, NEW j \in 1 .. N, f[j] = q
      PROVE  /\ Depth(b, o, q) = 1 <=> t[j].depth = t[i].depth + 1
             /\ t[j].name = GetName(b, q)
  <2>1. o <= q  BY <1>1, <1>4, <1>8
  <2>2. /\ NodeAs(b, q).depth = NodeAs(b, o).depth + Net(b, o + 1, q + 1)
        /\ NodeAs(b, o).depth \in Int /\ Depth(b, o, q) = Net(b, o + 1, q + 1)
    BY <2>1, DepthFrom
  <2>3. t[j] = NodeAs(b, q)  BY <1>6, <1>8
  <2>4. Net(b, o + 1, q + 1) \in Int  BY <1>1, <1>4, NetType
  <2>5. NodeAs(b, q).name = GetName(b, q)  BY DEF NodeAs
  <2> HIDE DEF f, t, i, n, N
  <2> QED BY <1>3, <2>2, <2>3, <2>4, <2>5
<1>9. Subnodes(b, o) = {q \in Nodes(b) : o < q /\ q < NodeEnd(b, o) /\ Depth(b, o, q) = 1}
  <2>1. End(b) = e  BY EndIs DEF Whole
  <2> QED BY <1>1, <1>4, <2>1 DEF Subnodes, Tagged
<1>10. \A q \in Nodes(b) : q \in Int  BY <1>1
<1> HIDE DEF f, t, i, n, N
<1>11. ASSUME NEW q \in Subnodes(b, o), NodenameEq(GetName(b, q), name)
       PROVE  \E j \in ChildrenIn(t, i) : NodenameEq(t[j].name, name)
  <2>1. q \in Nodes(b) /\ o < q /\ q < NodeEnd(b, o) /\ Depth(b, o, q) = 1  BY <1>9
  <2>2. PICK j \in 1 .. N : f[j] = q  BY <1>7, <2>1 DEF Sorted
  <2>3. j <= n /\ ~(j < i) /\ j # i  BY <1>3, <1>4, <1>5, <1>10, <2>1, <2>2
  <2>4. j \in i + 1 .. n  BY <1>2, <1>3, <2>3
  <2>5. t[j].depth = t[i].depth + 1 /\ t[j].name = GetName(b, q)  BY <1>8, <2>1, <2>2
  <2> QED BY <1>2, <1>11, <2>4, <2>5 DEF ChildrenIn
<1>12. ASSUME NEW j \in ChildrenIn(t, i), NodenameEq(t[j].name, name)
       PROVE  \E q \in Subnodes(b, o) : NodenameEq(GetName(b, q), name)
  <2>1. j \in i + 1 .. n /\ t[j].depth = t[i].depth + 1  BY <1>2 DEF ChildrenIn
  <2>2. j \in 1 .. N /\ j <= n /\ ~(j < i) /\ j # i  BY <1>2, <1>3, <2>1
  <2>3. PICK q \in Nodes(b) : q = f[j]  BY <1>6, <2>2
  <2>4. o < q /\ q < NodeEnd(b, o)
    <3>1. ~(q < o) /\ q # o  BY <1>3, <2>2, <2>3
    <3>2. q < NodeEnd(b, o)  BY <1>5, <2>2, <2>3
    <3>3. q \in Int  BY <1>10
    <3> QED BY <1>4, <3>1, <3>2, <3>3
  <2>5. Depth(b, o, q) = 1 /\ t[j].name = GetName(b, q)  BY <1>8, <2>1, <2>2, <2>3, <2>4
  <2> QED BY <1>9, <1>12, <2>4, <2>5
<1> QED BY <1>11, <1>12 DEF t, i

\* The tree falls into the nodes before s and the others.
LEMMA TreeCut ==
  ASSUME NEW b, Numbers(Nodes(b)), NEW s \in Int
  PROVE  /\ SubSeq(TreeOf(b), 1, NodesUpTo(b, s)) = InTurn(Left(Nodes(b), s), NodesAs(b))
         /\ SubSeq(TreeOf(b), NodesUpTo(b, s) + 1, Len(TreeOf(b))) = InTurn(Right(Nodes(b), s), NodesAs(b))
<1> DEFINE L == Left(Nodes(b), s)
           R == Right(Nodes(b), s)
           F == NodesAs(b)
<1>1. Nodes(b) \in SUBSET Int /\ IsFiniteSet(Nodes(b))  BY DEF Numbers
<1>2. L \in SUBSET Nodes(b) /\ R \in SUBSET Nodes(b)  BY DEF Left, Right
<1>3. L \in SUBSET Int /\ IsFiniteSet(L) /\ R \in SUBSET Int /\ IsFiniteSet(R)
  BY <1>1, <1>2, FS_Subset
<1>4. \A x \in L, y \in R : x < y  BY <1>1 DEF Left, Right
<1>5. Nodes(b) = L \cup R
  <2>1. \A x \in Nodes(b) : x < s \/ s <= x  BY <1>1
  <2> QED BY <2>1 DEF Left, Right
<1>6. /\ SubSeq(InTurn(L \cup R, F), 1, Cardinality(L)) = InTurn(L, F)
      /\ SubSeq(InTurn(L \cup R, F), Cardinality(L) + 1, Len(InTurn(L \cup R, F))) = InTurn(R, F)
  <2> HIDE DEF L, R, F
  <2> QED BY <1>3, <1>4, InTurnCut
<1>7. TreeOf(b) = InTurn(L \cup R, F) /\ NodesUpTo(b, s) = Cardinality(L)
  <2>1. TreeOf(b) = InTurn(Nodes(b), F)  BY DEF TreeOf
  <2>2. NodesUpTo(b, s) = Cardinality(L)  BY DEF NodesUpTo
  <2> HIDE DEF L, R, F
  <2> QED BY <1>5, <2>1, <2>2
<1> HIDE DEF L, R, F
<1>8. /\ SubSeq(TreeOf(b), 1, NodesUpTo(b, s)) = InTurn(L, F)
      /\ SubSeq(TreeOf(b), NodesUpTo(b, s) + 1, Len(TreeOf(b))) = InTurn(R, F)
  BY <1>6, <1>7
<1> QED BY <1>8 DEF L, R, F

\* Nodes with those before a unchanged, T between, and those from c on moved by d.
Rejoined(b, f, a, c, d, T) ==
  /\ Nodes(f) = (Left(Nodes(b), a) \cup T) \cup Shift(Right(Nodes(b), c), d)
  /\ Numbers(Nodes(b)) /\ Numbers(T)
  /\ Before(Left(Nodes(b), a), T)
  /\ Before(Left(Nodes(b), a), Shift(Right(Nodes(b), c), d))
  /\ Before(T, Shift(Right(Nodes(b), c), d))
  /\ \A x \in Left(Nodes(b), a) : NodeAs(f, x) = NodeAs(b, x)
  /\ \A x \in Right(Nodes(b), c) : NodeAs(f, x + d) = NodeAs(b, x)

\* The tree is the nodes before a cell and those behind it.
LEMMA TreeJoined ==
  ASSUME NEW b, NEW f, NEW a \in Int, NEW c \in Int, NEW d \in Int, NEW T, Rejoined(b, f, a, c, d, T)
  PROVE  TreeOf(f) = (InTurn(Left(Nodes(b), a), NodesAs(b)) \o InTurn(T, NodesAs(f)))
                     \o InTurn(Right(Nodes(b), c), NodesAs(b))
<1> DEFINE L == Left(Nodes(b), a)
           R == Right(Nodes(b), c)
           U == Shift(R, d)
           F == NodesAs(b)
           G == NodesAs(f)
<1>1. Nodes(b) \in SUBSET Int /\ IsFiniteSet(Nodes(b)) /\ Numbers(T)  BY DEF Rejoined, Numbers
<1>2. L \in SUBSET Nodes(b) /\ R \in SUBSET Nodes(b)  BY DEF Left, Right
<1>3. Numbers(L) /\ Numbers(R)
  <2>1. L \in SUBSET Int /\ IsFiniteSet(L) /\ R \in SUBSET Int /\ IsFiniteSet(R)
    BY <1>1, <1>2, FS_Subset
  <2> QED BY <2>1 DEF Numbers
<1>4. \A q \in L : G[q] = F[q]
  <2>1. \A q \in L : NodeAs(f, q) = NodeAs(b, q) /\ q \in Int  BY <1>1, <1>2 DEF Rejoined
  <2> HIDE DEF L
  <2> QED BY <2>1 DEF NodesAs
<1>5. \A q \in R : G[q + d] = F[q]
  <2>1. \A q \in R : NodeAs(f, q + d) = NodeAs(b, q) /\ q \in Int /\ q + d \in Int
    BY <1>1, <1>2 DEF Rejoined
  <2> HIDE DEF R
  <2> QED BY <2>1 DEF NodesAs
<1>6. Nodes(f) = (L \cup T) \cup U /\ Before(L, T) /\ Before(L, U) /\ Before(T, U)  BY DEF Rejoined
<1>7. TreeOf(f) = InTurn(Nodes(f), G)  BY DEF TreeOf
<1>8. InTurn(U, G) = InTurn(R, F) /\ Numbers(U)
  <2>1. InTurn(Shift(R, d), G) = InTurn(R, F) /\ Numbers(Shift(R, d))
    <3> HIDE DEF R, F, G
    <3> QED BY <1>3, <1>5, InTurnShift
  <2> QED BY <2>1
<1>9. InTurn(L, G) = InTurn(L, F)
  <2>1. L \in SUBSET Int /\ IsFiniteSet(L)  BY <1>3 DEF Numbers
  <2> HIDE DEF L, F, G
  <2> QED BY <1>4, <2>1, InTurnSame
<1> HIDE DEF L, R, U, F, G
<1>10. OneByOne(L, T, U, G)  BY <1>1, <1>3, <1>6, <1>8, InTurnThree
<1>11. TreeOf(f) = (InTurn(L, F) \o InTurn(T, G)) \o InTurn(R, F)
  BY <1>6, <1>7, <1>8, <1>9, <1>10 DEF OneByOne
<1> QED BY <1>11 DEF L, R, F, G

\* A node counts one more than those before it.
LEMMA NodesBefore ==
  ASSUME NEW b, Numbers(Nodes(b)), NEW o \in Nodes(b)
  PROVE  NodeNo(b, o) - 1 = NodesUpTo(b, o) /\ NodesUpTo(b, o) \in Nat
<1> DEFINE L == Left(Nodes(b), o)
<1>1. Nodes(b) \in SUBSET Int /\ IsFiniteSet(Nodes(b))  BY DEF Numbers
<1>2. IsFiniteSet(L)
  <2>1. L \in SUBSET Nodes(b)  BY DEF Left
  <2> QED BY <1>1, <2>1, FS_Subset
<1>3. UpTo(Nodes(b), o) = L \cup {o} /\ o \notin L
  <2>1. o \in Int /\ \A x \in Nodes(b) : x \in Int  BY <1>1
  <2>2. \A x \in Nodes(b) : x <= o <=> x < o \/ x = o  BY <2>1
  <2>3. o \notin L  BY <2>1 DEF Left
  <2>4. \A x : x \in L <=> x \in Nodes(b) /\ x < o  BY DEF Left
  <2>5. \A x : x \in UpTo(Nodes(b), o) <=> x \in Nodes(b) /\ x <= o  BY DEF UpTo
  <2> HIDE DEF L
  <2>6. \A x : x \in UpTo(Nodes(b), o) <=> x \in L \cup {o}  BY <2>2, <2>4, <2>5
  <2> QED BY <2>3, <2>6
<1> HIDE DEF L
<1>4. Cardinality(L \cup {o}) = Cardinality(L) + 1 /\ Cardinality(L) \in Nat
  BY <1>2, <1>3, FS_AddElement, FS_CardinalityType
<1> QED BY <1>3, <1>4 DEF NodeNo, NodesUpTo, L

-----------------------------------------------------------------------------
\* The calls that remove a node.

\* The node at o, which ends before c, is cut out or overwritten by nops.
NodeGone(b, k, e, f, k2, o, c, z) ==
  /\ Whole(b, k, e) /\ EditOf(b, k, e, f, k2, o, c, z) /\ o \in Nodes(b) /\ c = NodeEnd(b, o)
  /\ \A x \in o .. z - 1 : At(f, x).tag = "nop"

\* No node before c has properties from c on, and a root that goes leaves no node.
LEMMA BehindEnd ==
  ASSUME NEW b, NEW k \in Nat, NEW e \in Nat, Whole(b, k, e), NEW o \in Nodes(b),
         NEW c, c = NodeEnd(b, o)
  PROVE  /\ c \in o + 1 .. e /\ Net(b, o, c) = 0 /\ At(b, c - 1).tag = "end_node"
         /\ \A q \in Nat, p \in Nat : Owns(b, p, q) /\ c <= q /\ p < q => c <= p
         /\ o = 0 => Right(Nodes(b), c) = {}
<1>1. b \in Blobs /\ Holds(b, k, e) /\ Shaped(b, e)  BY DEF Whole
<1>2. /\ o \in 0 .. e - 1 /\ At(b, o).tag = "begin"
      /\ \A x \in Nodes(b) : x \in 0 .. e - 1 /\ At(b, x).tag = "begin"
      /\ \A x \in 0 .. e - 1 : At(b, x).tag = "begin" => x \in Nodes(b)
  BY <1>1, NodesAre
<1>3. c \in o + 1 .. e /\ Closes(b, e, o, c - 1)  BY NodeCloses
<1>4. c \in Nat  BY <1>2, <1>3
<1>5. Net(b, o, c) = 0
  <2>1. PICK s \in Int : s = o + 1  BY <1>2
  <2>2. Net(b, o, c) = Net(b, o, s) + Net(b, s, c)  BY <1>2, <1>3, <1>4, <2>1, NetJoin
  <2>3. Net(b, o, s) = 1  BY <1>2, <2>1, NetOne
  <2>4. Net(b, s, c) = -1
    <3>1. (c - 1) + 1 = c  BY <1>4
    <3> QED BY <1>3, <2>1, <3>1 DEF Closes
  <2> QED BY <2>2, <2>3, <2>4
<1>6. At(b, c - 1).tag = "end_node"  BY <1>3 DEF Closes
<1>7. ASSUME NEW q \in Nat, NEW p \in Nat, Owns(b, p, q), c <= q, p < q PROVE c <= p
  <2>1. SUFFICES ASSUME p < c PROVE FALSE  BY <1>4
  <2>2. CASE p = c - 1  BY <1>6, <1>7, <2>2 DEF Owns
  <2>3. CASE p # c - 1
    <3>1. c - 1 \in p + 1 .. q  BY <1>4, <1>7, <2>1, <2>3
    <3> QED BY <1>6, <1>7, <3>1 DEF Owns, Edges
  <2> QED BY <2>2, <2>3
<1>8. ASSUME o = 0 PROVE Right(Nodes(b), c) = {}
  <2> DEFINE R == Right(Nodes(b), c)
  <2>1. SUFFICES ASSUME R # {} PROVE FALSE  OBVIOUS
  <2>2. R \in SUBSET Nat /\ \A x \in R : x \in Nodes(b) /\ c <= x
    <3>1. \A x \in R : x \in Nodes(b) /\ c <= x  BY DEF Right
    <3>2. \A x \in Nodes(b) : x \in Nat  BY <1>2
    <3> HIDE DEF R
    <3> QED BY <3>1, <3>2
  <2>3. PICK x \in R : \A y \in R : x <= y
    <3> HIDE DEF R
    <3> QED BY <2>1, <2>2, MinLemma
  <2>4. x \in Nodes(b) /\ c <= x /\ x \in 0 .. e - 1 /\ x >= 1  BY <1>2, <1>3, <1>4, <2>2
  <2>5. \A y \in c .. x - 1 : At(b, y).tag # "begin"
    <3>1. ASSUME NEW y \in c .. x - 1, At(b, y).tag = "begin" PROVE FALSE
      <4>1. y \in 0 .. e - 1 /\ c <= y /\ ~(x <= y)  BY <1>4, <2>4
      <4>2. y \in R  BY <1>2, <3>1, <4>1 DEF Right
      <4> QED BY <2>3, <4>1, <4>2
    <3> QED BY <3>1
  <2>6. Count(b, c, x, "begin") = 0 /\ Count(b, c, x, "end_node") \in Nat
    BY <1>4, <2>4, <2>5, CountNone, CountType
  <2>7. Net(b, 0, x) = Net(b, 0, c) + Net(b, c, x)  BY <1>4, <2>4, NetJoin
  <2>8. Net(b, 0, x) >= 1
    <3>1. x \in 1 .. e - 1 /\ At(b, x).tag = "begin"  BY <1>2, <2>4
    <3> QED BY <1>1, <3>1 DEF Shaped
  <2>9. Net(b, 0, c) = 0  BY <1>5, <1>8
  <2>10. Net(b, c, x) <= 0 /\ Net(b, c, x) \in Int  BY <2>6 DEF Net
  <2> QED BY <2>7, <2>8, <2>9, <2>10
<1> QED BY <1>3, <1>5, <1>6, <1>7, <1>8

\* Around a node that was taken away.
GoneMeans(b, k, e, f, k2, o, c, z) ==
  /\ b \in Blobs /\ Holds(b, k, e) /\ Shaped(b, e) /\ f \in Blobs /\ Holds(f, k2, e + (z - c))
  /\ e + (z - c) \in Nat /\ z - c \in Int /\ o < c /\ c <= e /\ o <= z
  /\ At(b, o).tag = "begin" /\ At(b, c - 1).tag = "end_node"
  /\ \A x \in 0 .. o - 1 : At(f, x) = At(b, x)
  /\ \A x \in c .. e : At(f, x + (z - c)) = At(b, x)
  /\ \A x \in o .. z - 1 : At(f, x).tag \notin Edges /\ At(f, x).tag # "prop"
  /\ \A x \in Nodes(b) : x \in 0 .. e - 1 /\ At(b, x).tag = "begin"

\* What taking away a node's cells leaves alone.
LEMMA GoneFacts ==
  ASSUME NEW b, NEW k \in Nat, NEW e \in Nat, NEW f, NEW k2 \in Nat, NEW o \in Nat, NEW c \in Nat,
         NEW z \in Nat, NodeGone(b, k, e, f, k2, o, c, z)
  PROVE  GoneMeans(b, k, e, f, k2, o, c, z)
<1>1. Whole(b, k, e) /\ EditOf(b, k, e, f, k2, o, c, z) /\ o \in Nodes(b) /\ c = NodeEnd(b, o)
  BY DEF NodeGone
<1>2. b \in Blobs /\ Holds(b, k, e) /\ Shaped(b, e)  BY <1>1 DEF Whole
<1>3. /\ f \in Blobs /\ Holds(f, k2, e + (z - c)) /\ o <= z /\ c <= e
      /\ \A x \in 0 .. o - 1 : At(f, x) = At(b, x)
      /\ \A x \in c .. e : At(f, x + (z - c)) = At(b, x)
  BY <1>1 DEF EditOf
<1>4. e + (z - c) \in Nat /\ z - c \in Int  BY <1>3
<1>5. c \in o + 1 .. e /\ At(b, c - 1).tag = "end_node"  BY <1>1, BehindEnd
<1>6. \A x \in Nodes(b) : x \in 0 .. e - 1 /\ At(b, x).tag = "begin"  BY <1>2, NodesAre
<1>7. \A x \in o .. z - 1 : At(f, x).tag \notin Edges /\ At(f, x).tag # "prop"
  BY DEF NodeGone, Edges
<1> QED BY <1>1, <1>2, <1>3, <1>4, <1>5, <1>6, <1>7 DEF GoneMeans

\* Without a whole node there is still one tree.
LEMMA GoneShaped ==
  ASSUME NEW b, NEW k \in Nat, NEW e \in Nat, NEW f, NEW k2 \in Nat, NEW o \in Nat, NEW c \in Nat,
         NEW z \in Nat, NodeGone(b, k, e, f, k2, o, c, z)
  PROVE  Shaped(f, e + (z - c))
<1>0. /\ b \in Blobs /\ Holds(b, k, e) /\ Shaped(b, e) /\ f \in Blobs /\ Holds(f, k2, e + (z - c))
      /\ e + (z - c) \in Nat /\ z - c \in Int /\ o < c /\ c <= e /\ o <= z
      /\ At(b, o).tag = "begin" /\ At(b, c - 1).tag = "end_node"
      /\ \A x \in 0 .. o - 1 : At(f, x) = At(b, x)
      /\ \A x \in c .. e : At(f, x + (z - c)) = At(b, x)
      /\ \A x \in o .. z - 1 : At(f, x).tag \notin Edges /\ At(f, x).tag # "prop"
      /\ \A x \in Nodes(b) : x \in 0 .. e - 1 /\ At(b, x).tag = "begin"
  <2>1. GoneMeans(b, k, e, f, k2, o, c, z)  BY GoneFacts
  <2> QED BY <2>1 DEF GoneMeans
<1>1. Whole(b, k, e) /\ EditOf(b, k, e, f, k2, o, c, z) /\ o \in Nodes(b) /\ c = NodeEnd(b, o)
  BY DEF NodeGone
<1>2. ASSUME NEW q \in o .. z PROVE Net(b, 0, o) + Net(f, o, q) >= 0
  <2>1. Net(b, 0, o) >= 0 /\ Net(b, 0, o) \in Int
    <3>1. o \in 0 .. e  BY <1>0
    <3> QED BY <1>0, <3>1, NetType DEF Shaped
  <2>2. Net(f, o, q) = 0
    <3>1. \A x \in o .. q - 1 : At(f, x).tag \notin {"begin", "end_node"}  BY <1>0 DEF Edges
    <3> QED BY <3>1, NetNone
  <2> QED BY <2>1, <2>2
<1>3. \A x \in o .. z - 1 : 0 < x /\ At(f, x).tag = "begin" => Net(b, 0, o) + Net(f, o, x) >= 1
  BY <1>0 DEF Edges
<1>4. ASSUME NEW x \in 1 .. e + (z - c) - 1, At(f, x).tag = "begin" PROVE At(f, 0).tag = "begin"
  <2>1. CASE o = 0
    <3>1. ~(x < z)
      <4>1. x < z => x \in o .. z - 1  BY <2>1
      <4> QED BY <1>0, <1>4, <4>1 DEF Edges
    <3>2. PICK y \in Nat : y = x - (z - c) /\ y \in c .. e - 1 /\ y + (z - c) = x  BY <1>0, <3>1
    <3>3. At(b, y) = At(f, x)
      <4>1. y \in c .. e  BY <3>2
      <4> QED BY <1>0, <3>2, <4>1
    <3>4. y \in Nodes(b)
      <4>1. y \in 0 .. e - 1  BY <1>0, <3>2
      <4> QED BY <1>0, <1>4, <3>3, <4>1, NodesAre
    <3>5. y \in Right(Nodes(b), c)  BY <3>2, <3>4 DEF Right
    <3>6. Right(Nodes(b), c) = {}  BY <1>1, <2>1, BehindEnd
    <3> QED BY <3>5, <3>6
  <2>2. CASE o # 0
    <3>1. o \in 1 .. e - 1 /\ 0 \in 0 .. o - 1  BY <1>0, <2>2
    <3>2. At(b, 0).tag = "begin"  BY <1>0, <3>1 DEF Shaped
    <3> QED BY <1>0, <3>1, <3>2
  <2> QED BY <2>1, <2>2
<1>5. \A q \in o .. z - 1 : At(f, q).tag = "prop" => \E x \in 0 .. q - 1 : Owns(f, x, q)  BY <1>0
<1>6. ASSUME NEW q \in c .. e - 1, At(b, q).tag = "prop", NEW x \in 0 .. c - 1, Owns(b, x, q)
      PROVE  \E p \in 0 .. q + (z - c) - 1 : Owns(f, p, q + (z - c))
  <2>1. q \in Nat /\ x \in Nat /\ c <= q /\ x < q /\ ~(c <= x)  BY <1>0
  <2>2. \A qq \in Nat, p \in Nat : Owns(b, p, qq) /\ c <= qq /\ p < qq => c <= p  BY <1>1, BehindEnd
  <2> QED BY <1>6, <2>1, <2>2
<1> QED BY <1>0, <1>1, <1>2, <1>3, <1>4, <1>5, <1>6, EditShaped

\* The node at o and all below it taken out of the tree.
CutOut(b, o) ==
  SubSeq(TreeOf(b), 1, NodeNo(b, o) - 1)
    \o SubSeq(TreeOf(b), NodesUpTo(b, NodeEnd(b, o)) + 1, Len(TreeOf(b)))

\* The nodes left are the others, moved.
LEMMA GoneNodes ==
  ASSUME NEW b, NEW k \in Nat, NEW e \in Nat, NEW f, NEW k2 \in Nat, NEW o \in Nat, NEW c \in Nat,
         NEW z \in Nat, NodeGone(b, k, e, f, k2, o, c, z), NEW d, d = z - c
  PROVE  Rejoined(b, f, o, c, d, {})
<1>0. /\ b \in Blobs /\ Holds(b, k, e) /\ Shaped(b, e) /\ f \in Blobs /\ Holds(f, k2, e + (z - c))
      /\ e + (z - c) \in Nat /\ z - c \in Int /\ o < c /\ c <= e /\ o <= z
      /\ At(b, o).tag = "begin" /\ At(b, c - 1).tag = "end_node"
      /\ \A x \in 0 .. o - 1 : At(f, x) = At(b, x)
      /\ \A x \in c .. e : At(f, x + (z - c)) = At(b, x)
      /\ \A x \in o .. z - 1 : At(f, x).tag \notin Edges /\ At(f, x).tag # "prop"
      /\ \A x \in Nodes(b) : x \in 0 .. e - 1 /\ At(b, x).tag = "begin"
  <2>1. GoneMeans(b, k, e, f, k2, o, c, z)  BY GoneFacts
  <2> QED BY <2>1 DEF GoneMeans
<1>1. Whole(b, k, e) /\ EditOf(b, k, e, f, k2, o, c, z) /\ o \in Nodes(b) /\ c = NodeEnd(b, o)
  BY DEF NodeGone
<1>2. Nodes(b) \in SUBSET Int /\ IsFiniteSet(Nodes(b))  BY <1>0, NodesAre
<1>3. Nodes(f) = (Left(Nodes(b), o) \cup {}) \cup Shift(Right(Nodes(b), c), d)
  <2>1. Begins(f, o, z) = {}  BY <1>0 DEF Begins, Edges
  <2>2. Nodes(f) = (Left(Nodes(b), o) \cup Begins(f, o, z)) \cup Shift(Right(Nodes(b), c), z - c)
    <3>1. NodesEdited(b, f, o, c, z)  BY <1>1, EditNodes
    <3> QED BY <3>1 DEF NodesEdited
  <2> QED BY <2>1, <2>2
<1>4. ASSUME NEW x \in Nodes(b), x < o PROVE NodeAs(f, x) = NodeAs(b, x)
  <2>1. x \in 0 .. e - 1 /\ x \in Int  BY <1>0
  <2>2. \A q \in Properties(b, x) : q < o
    <3>1. Properties(b, x) =
            {q \in x + 1 .. e - 1 : At(b, q).tag = "prop" /\ \A p \in x + 1 .. q : At(b, p).tag \notin Edges}
      BY <1>0, <2>1, NodesAre
    <3>2. ASSUME NEW q \in Properties(b, x) PROVE q < o
      <4>1. SUFFICES ASSUME ~(q < o) PROVE FALSE  OBVIOUS
      <4>2. o \in x + 1 .. q  BY <1>4, <2>1, <3>1, <4>1
      <4> QED BY <1>0, <3>1, <4>2 DEF Edges
    <3> QED BY <3>2
  <2>3. \A q \in Properties(f, x) : q < o
    <3>1. PICK e2 \in Nat : e2 = e + (z - c)  BY <1>0
    <3>2. Properties(f, x) =
            {q \in x + 1 .. e2 - 1 : At(f, q).tag = "prop" /\ \A p \in x + 1 .. q : At(f, p).tag \notin Edges}
      BY <1>0, <2>1, <3>1, NodesAre
    <3>3. ASSUME NEW q \in Properties(f, x) PROVE q < o
      <4>1. SUFFICES ASSUME ~(q < o) PROVE FALSE  OBVIOUS
      <4>2. q \in x + 1 .. e2 - 1 /\ At(f, q).tag = "prop" /\ q \in Nat  BY <2>1, <3>2
      <4>3. ~(q < z)
        <5>1. q < z => q \in o .. z - 1  BY <4>1, <4>2
        <5> QED BY <1>0, <4>2, <5>1
      <4>4. PICK y \in Nat : y = q - (z - c) /\ y \in c .. e - 1 /\ y + (z - c) = q
        BY <1>0, <3>1, <4>2, <4>3
      <4>5. \A p \in c .. y : At(f, p + (z - c)) = At(b, p)
        <5>1. \A p \in c .. y : p \in c .. e  BY <4>4
        <5> QED BY <1>0, <5>1
      <4>6. At(b, y).tag = "prop"
        <5>1. y \in c .. y  BY <4>4
        <5> QED BY <4>2, <4>4, <4>5, <5>1
      <4>7. PICK p \in 0 .. y - 1 : Owns(b, p, y)
        <5>1. y \in 0 .. e - 1  BY <4>4
        <5> QED BY <1>0, <4>6, <5>1 DEF Shaped
      <4>8. c <= p
        <5>1. p \in Nat /\ c <= y /\ p < y  BY <4>4
        <5>2. \A qq \in Nat, pp \in Nat : Owns(b, pp, qq) /\ c <= qq /\ pp < qq => c <= pp
          BY <1>1, BehindEnd
        <5> QED BY <4>4, <4>7, <5>1, <5>2
      <4>9. p \in c .. y /\ At(b, p).tag = "begin"  BY <4>4, <4>7, <4>8 DEF Owns
      <4>10. PICK pf \in Nat : pf = p + (z - c) /\ pf \in x + 1 .. q
        <5>1. p + (z - c) >= z /\ p + (z - c) <= q  BY <4>4, <4>9
        <5> QED BY <1>0, <1>4, <2>1, <4>2, <4>9, <5>1
      <4>11. At(f, pf).tag = "begin"  BY <4>5, <4>9, <4>10
      <4> QED BY <3>2, <4>10, <4>11 DEF Edges
    <3> QED BY <3>3
  <2> QED BY <1>1, <1>4, <2>2, <2>3, EditLeft
<1>5. ASSUME NEW x \in Nodes(b), c <= x PROVE NodeAs(f, x + d) = NodeAs(b, x)
  <2>1. x \in Right(Nodes(b), c)  BY <1>5 DEF Right
  <2>2. o # 0  BY <1>1, <2>1, BehindEnd
  <2>3. At(f, 0).tag = At(b, 0).tag
    <3>1. 0 \in 0 .. o - 1  BY <2>2
    <3> QED BY <1>0, <3>1
  <2>4. Reread(b, f, x, z - c)  BY <1>1, <1>5, <2>3, EditRight
  <2> QED BY <2>4 DEF Reread
<1>6. Before(Left(Nodes(b), o), Shift(Right(Nodes(b), c), d))
  <2>1. ASSUME NEW x \in Left(Nodes(b), o), NEW y \in Right(Nodes(b), c) PROVE x < y + d
    <3>1. x < o /\ c <= y /\ x \in Int /\ y \in Int  BY <1>2 DEF Left, Right
    <3> QED BY <1>0, <3>1
  <2> QED BY <2>1 DEF Before, Shift
<1>7. /\ Before(Left(Nodes(b), o), {}) /\ Before({}, Shift(Right(Nodes(b), c), d)) /\ Numbers({})
      /\ Numbers(Nodes(b))
  <2>1. IsFiniteSet({})  BY FS_EmptySet
  <2> QED BY <1>2, <2>1 DEF Before, Numbers
<1>8. /\ \A x \in Left(Nodes(b), o) : NodeAs(f, x) = NodeAs(b, x)
      /\ \A x \in Right(Nodes(b), c) : NodeAs(f, x + d) = NodeAs(b, x)
  BY <1>4, <1>5 DEF Left, Right
<1> QED BY <1>3, <1>6, <1>7, <1>8 DEF Rejoined

\* The tree left is the nodes before the node and those behind its last below.
LEMMA GoneTree ==
  ASSUME NEW b, NEW k \in Nat, NEW e \in Nat, NEW f, NEW k2 \in Nat, NEW o \in Nat, NEW c \in Nat,
         NEW z \in Nat, NodeGone(b, k, e, f, k2, o, c, z)
  PROVE  TreeOf(f) = CutOut(b, o)
<1> DEFINE L == InTurn(Left(Nodes(b), o), NodesAs(b))
           R == InTurn(Right(Nodes(b), c), NodesAs(b))
           T == InTurn({}, NodesAs(f))
<1>1. PICK d \in Int : d = z - c  OBVIOUS
<1>2. Rejoined(b, f, o, c, d, {})  BY <1>1, GoneNodes
<1>3. TreeOf(f) = (L \o T) \o R  BY <1>2, TreeJoined
<1>4. Numbers(Nodes(b))  BY <1>2 DEF Rejoined
<1>5. o \in Nodes(b) /\ c = NodeEnd(b, o)  BY DEF NodeGone
<1>6. L = SubSeq(TreeOf(b), 1, NodesUpTo(b, o))  BY <1>4, TreeCut
<1>7. R = SubSeq(TreeOf(b), NodesUpTo(b, c) + 1, Len(TreeOf(b)))  BY <1>4, TreeCut
<1>8. NodeNo(b, o) - 1 = NodesUpTo(b, o)  BY <1>4, <1>5, NodesBefore
<1>9. T = <<>>  BY InTurnNone
<1>10. L \o T = L
  <2> DEFINE S == Left(Nodes(b), o)
             F == NodesAs(b)
             V == {F[q] : q \in S}
  <2>1. S \in SUBSET Int /\ IsFiniteSet(S)
    <3>1. Nodes(b) \in SUBSET Int /\ IsFiniteSet(Nodes(b)) /\ S \in SUBSET Nodes(b)
      BY <1>4 DEF Numbers, Left
    <3> QED BY <3>1, FS_Subset
  <2>2. \A q \in S : F[q] \in V  OBVIOUS
  <2> HIDE DEF S, F, V
  <2>3. InTurn(S, F) \in Seq(V)  BY <2>1, <2>2, InTurnType
  <2>4. L \in Seq(V)  BY <2>3 DEF S, F
  <2> HIDE DEF L, T
  <2> QED BY <1>9, <2>4
<1> HIDE DEF L, R, T
<1> QED BY <1>3, <1>5, <1>6, <1>7, <1>8, <1>10 DEF CutOut

\* So the blob reads as the tree without the node.
LEMMA GoneBecomes ==
  ASSUME NEW b, NEW k \in Nat, NEW e \in Nat, Whole(b, k, e), b.magic = "FDT", b.version >= 16,
         NEW o \in Nodes(b), NEW c \in Nat, c = NodeEnd(b, o), NEW z \in Nat,
         NEW g, NEW k2 \in Nat, NEW e2 \in Nat, Edited(b, k, e, g, k2, e2, o, c, z), InReach(g, e2),
         \A x \in o .. z - 1 : At(g, x).tag = "nop"
  PROVE  Becomes(b, g, CutOut(b, o))
<1>1. o \in Nat  BY NodesAre DEF Whole
<1>2. NodeGone(b, k, e, g, k2, o, c, z)  BY DEF Edited, NodeGone
<1>3. Shaped(g, e2)
  <2>1. Shaped(g, e + (z - c))  BY <1>1, <1>2, GoneShaped
  <2> QED BY <2>1 DEF Edited
<1>4. TreeOf(g) = CutOut(b, o)  BY <1>1, <1>2, GoneTree
<1>5. Becomes(b, g, TreeOf(g))  BY <1>1, <1>3, EditedDecoded
<1> QED BY <1>4, <1>5

\* Where a node begins and ends, for the two functions that remove it.
LEMMA NodeSpan ==
  ASSUME NEW b, NEW k \in Nat, NEW e \in Nat, Whole(b, k, e), NEW o \in Nat
  PROVE  \/ o \notin Nodes(b) /\ NodeEnd(b, o) = BADOFFSET
         \/ /\ o \in Nodes(b) /\ NodeEnd(b, o) \in Nat /\ NodeEnd(b, o) \in o + 1 .. e
            /\ Net(b, o, NodeEnd(b, o)) = 0 /\ Run(b.mem, b.off_dt_struct, b.off_dt_struct + o)
<1>1. CASE o \notin Nodes(b)
  <2>1. CheckNodeOffset(b, o) < 0  BY <1>1, NodeOffset
  <2> QED BY <1>1, <2>1 DEF NodeEnd
<1>2. CASE o \in Nodes(b)
  <2>1. b \in Blobs /\ Holds(b, k, e)  BY DEF Whole
  <2>2. NodeEnd(b, o) \in o + 1 .. e /\ Net(b, o, NodeEnd(b, o)) = 0  BY <1>2, BehindEnd
  <2>3. o \in 0 .. e - 1 /\ At(b, o).tag \in Opens  BY <1>2, <2>1, NodesAre DEF Opens
  <2>4. Run(b.mem, b.off_dt_struct, b.off_dt_struct + o)  BY <2>1, <2>3, TagAt
  <2>5. NodeEnd(b, o) \in Nat  BY <2>2
  <2> QED BY <1>2, <2>2, <2>4, <2>5
<1> QED BY <1>1, <1>2

DelNodeOutcome(b, o, r) ==
  \/ NotWritten(b, r)
  \/ RwCheckHeader(b) = 0 /\ NoNode(b, o, r)
  \/ RwCheckHeader(b) = 0 /\ o \in Nodes(b) /\ r.err = 0 /\ Becomes(b, r.fdt, CutOut(b, o))

\* fdt_del_node removes the node with all below it, or changes nothing.
LEMMA DelNodeDoes ==
  ASSUME NEW b, NEW k \in Nat, NEW e \in Nat, Whole(b, k, e), b.magic = "FDT", b.version >= 16,
         NEW o \in Nat
  PROVE  DelNodeOutcome(b, o, DelNode(b, o))
<1> DEFINE c == NodeEnd(b, o)
           r == DelNode(b, o)
<1>1. b \in Blobs /\ Holds(b, k, e)  BY DEF Whole
<1>2. CASE RwCheckHeader(b) # 0
  BY <1>2 DEF DelNode, Guarded, DelNodeOutcome, NotWritten
<1>3. CASE RwCheckHeader(b) = 0 /\ o \notin Nodes(b) /\ c = BADOFFSET
  <2>1. r = Fail(BADOFFSET, b)  BY <1>3 DEF DelNode, Guarded, BADOFFSET
  <2> QED BY <1>3, <2>1 DEF DelNodeOutcome, NoNode
<1>4. CASE /\ RwCheckHeader(b) = 0 /\ o \in Nodes(b) /\ c \in Nat /\ c \in o + 1 .. e
           /\ Net(b, o, c) = 0 /\ Run(b.mem, b.off_dt_struct, b.off_dt_struct + o)
  <2> DEFINE g == r.fdt
             l == c - o
  <2>1. l \in Nat /\ l = c - o  BY <1>4
  <2>2. r = SpliceStruct(b, o, l, 0)
    <3>1. ~(c < 0)  BY <1>4
    <3> QED BY <1>4, <3>1 DEF DelNode, Guarded
  <2>3. Fine(g)  BY <1>1, DelNodeFine
  <2> HIDE DEF l, g, r
  <2>4. r.err = 0
    <3>1. SpliceErr(b, l, 0, SpliceStruct(b, o, l, 0))
      <4>1. o + l <= e  BY <1>4, <2>1
      <4> QED BY <1>1, <1>4, <2>1, <4>1, StructSpliceErr
    <3> QED BY <2>1, <2>2, <3>1 DEF SpliceErr
  <2>5. StructLeaves(b, o, l, 0, r)
    <3>1. l <= b.size_dt_struct  BY <1>1, <1>4, <2>1, RsvRoom
    <3> QED BY <1>1, <1>4, <2>1, <2>2, <3>1, SpliceStructEffect
  <2>6. g \in Blobs /\ g.magic = "FDT" /\ g.version = b.version
    BY <2>4, <2>5 DEF StructLeaves, Resized, g
  <2>7. PICK k2 \in Nat, e2 \in Nat : Holds(g, k2, e2)  BY <2>3, <2>6 DEF Fine
  <2>8. NoEnd(g, o, o) /\ Net(g, o, o) = Net(b, o, c)
    BY <1>4, NetEmpty DEF NoEnd
  <2>9. Edited(b, k, e, g, k2, e2, o, c, o)
    <3>1. SameHeader(SpliceStruct(b, o, c - o, 0).fdt, g)  BY <2>1, <2>2 DEF SameHeader, g
    <3>2. o = o + 0 /\ o <= o /\ o <= c /\ c <= e /\ 0 < c  BY <1>4
    <3>3. SpliceStruct(b, o, c - o, 0).err = 0 /\ g = SpliceStruct(b, o, c - o, 0).fdt
      BY <2>1, <2>2, <2>4 DEF g
    <3>4. SplicedTo(b, g, o, o, c, 0, o)  BY <3>1, <3>2, <3>3 DEF SplicedTo
    <3> HIDE DEF c
    <3> QED BY <1>1, <1>4, <2>6, <2>7, <2>8, <3>2, <3>4, SpliceEdit
  <2>10. InReach(g, e2)
    <3>1. g.version = 17  BY <1>1, <1>4, <2>6, Writable
    <3> QED BY <2>6, <2>7, <3>1, ReachOfSize
  <2>11. Becomes(b, g, CutOut(b, o))
    <3>1. c = NodeEnd(b, o) /\ \A x \in o .. o - 1 : At(g, x).tag = "nop"  OBVIOUS
    <3> HIDE DEF c
    <3> QED BY <1>4, <2>7, <2>9, <2>10, <3>1, GoneBecomes
  <2> QED BY <1>4, <2>4, <2>11 DEF DelNodeOutcome, g, r
<1> QED BY <1>2, <1>3, <1>4, NodeSpan

NopNodeOutcome(b, o, r) ==
  NoNode(b, o, r) \/ (o \in Nodes(b) /\ r.err = 0 /\ Becomes(b, r.fdt, CutOut(b, o)))

\* fdt_nop_node removes the node with all below it, or changes nothing.
LEMMA NopNodeDoes ==
  ASSUME NEW b, NEW k \in Nat, NEW e \in Nat, Whole(b, k, e), b.magic = "FDT", b.version >= 16,
         NEW o \in Nat
  PROVE  NopNodeOutcome(b, o, NopNode(b, o))
<1> DEFINE c == NodeEnd(b, o)
           r == NopNode(b, o)
<1>1. b \in Blobs /\ Holds(b, k, e) /\ InReach(b, e)  BY DEF Whole
<1>2. CASE o \notin Nodes(b) /\ c = BADOFFSET
  <2>1. r = Fail(BADOFFSET, b)  BY <1>2 DEF NopNode, BADOFFSET
  <2> QED BY <1>2, <2>1 DEF NopNodeOutcome, NoNode
<1>3. CASE /\ o \in Nodes(b) /\ c \in Nat /\ c \in o + 1 .. e
           /\ Net(b, o, c) = 0 /\ Run(b.mem, b.off_dt_struct, b.off_dt_struct + o)
  <2> DEFINE g == r.fdt
             l == c - o
  <2>1. l \in Nat /\ l = c - o /\ c = o + l  BY <1>3
  <2>2. r = Done(NopRegion(b, o, l))
    <3>1. ~(c < 0)  BY <1>3
    <3> QED BY <1>3, <3>1 DEF NopNode
  <2>3. Fine(g)  BY <1>1, NopNodeFine
  <2>4. g = NopRegion(b, o, l) /\ r.err = 0  BY <2>2 DEF Done
  <2> HIDE DEF l, g, r
  <2>5. /\ g \in Blobs /\ SameHeader(b, g) /\ Beyond(b, g, o, c)
        /\ \A x \in o .. c - 1 : b.off_dt_struct + x \in Memory => At(g, x).tag = "nop"
    <3>1. Nopped(b, g, o, c)
      <4> HIDE DEF c
      <4> QED BY <1>1, <2>1, <2>4, NopPut
    <3> QED BY <3>1 DEF Nopped
  <2>6. \A x \in o .. c - 1 : At(g, x).tag = "nop"
    <3>1. b.off_dt_struct \in Nat /\ Size(b) \in Int /\ e + 1 <= Size(b) /\ b.off_dt_struct + Size(b) <= b.totalsize
      BY <1>1, EndIs, BlobFields
    <3>3. b.totalsize \in Nat  BY <1>1, BlobFields, FdtRwAssumption
    <3> HIDE DEF c
    <3>2. ASSUME NEW x \in o .. c - 1 PROVE b.off_dt_struct + x \in Memory
      <4>1. b.off_dt_struct + x \in Nat /\ b.off_dt_struct + x < b.totalsize  BY <1>3, <3>1, <3>3
      <4> QED BY <1>1, <4>1, MemoryCells
    <3> QED BY <2>5, <3>2
  <2>7. g.magic = "FDT"  BY <2>5 DEF SameHeader
  <2>8. PICK k2 \in Nat, e2 \in Nat : Holds(g, k2, e2)  BY <2>3, <2>7 DEF Fine
  <2> HIDE DEF c
  <2>9. NoEnd(g, o, c) /\ Net(g, o, c) = Net(b, o, c)
    <3>1. NoEnd(g, o, c)  BY <2>6 DEF NoEnd
    <3>2. \A x \in o .. c - 1 : At(g, x).tag \notin {"begin", "end_node"}  BY <2>6
    <3>3. Net(g, o, c) = 0  BY <3>2, NetNone
    <3> QED BY <1>3, <3>1, <3>3
  <2>10. Edited(b, k, e, g, k2, e2, o, c, c)
    <3>1. o <= c /\ c <= e /\ 0 < c  BY <1>3
    <3>2. \A x \in Memory : x < b.off_dt_struct + o \/ x >= b.off_dt_struct + c => g.mem[x] = b.mem[x]
      BY <2>5 DEF Beyond
    <3> QED BY <1>1, <1>3, <2>5, <2>8, <2>9, <3>1, <3>2, PutEdit
  <2>11. e2 = e  BY <1>3, <2>10 DEF Edited
  <2>12. InReach(g, e2)
    <3>1. c <= e  BY <1>3
    <3>2. InReach(g, e)  BY <1>1, <1>3, <2>5, <3>1, PutReach
    <3> QED BY <2>11, <3>2
  <2>13. Becomes(b, g, CutOut(b, o))
    <3>1. c = NodeEnd(b, o)  BY DEF c
    <3> QED BY <1>3, <2>6, <2>8, <2>10, <2>12, <3>1, GoneBecomes
  <2> QED BY <1>3, <2>4, <2>13 DEF NopNodeOutcome, g, r
<1> QED BY <1>2, <1>3, NodeSpan

-----------------------------------------------------------------------------
\* The call that adds a node.

\* Where fdt_add_subnode puts a node: behind the properties of the node at o.
BehindProps(b, o) ==
  Min({q \in CheckNodeOffset(b, o) .. Size(b) : Tag(b, q) \in {"begin", "end_node", "end", "none"}})

\* The cell behind the properties of a node, where a subnode goes.
LEMMA BehindIs ==
  ASSUME NEW b, NEW k \in Nat, NEW e \in Nat, Whole(b, k, e), NEW o \in Nodes(b)
  PROVE  /\ BehindProps(b, o) \in o + 1 .. e - 1 /\ At(b, BehindProps(b, o)).tag \in Edges
         /\ Plain(b, o, BehindProps(b, o))
<1>1. b \in Blobs /\ Holds(b, k, e)  BY DEF Whole
<1>2. o \in 0 .. e - 1 /\ At(b, o).tag = "begin"  BY <1>1, NodesAre
<1>3. PICK n \in Nat : n = CheckNodeOffset(b, o) /\ n = NextTag(b, o) /\ n \in o + 1 .. e
  <2>1. CheckNodeOffset(b, o) = NextTag(b, o) /\ NextTag(b, o) \in o + 1 .. e  BY <1>2, NodeOffset
  <2> QED BY <1>2, <2>1
<1>4. Elem(b.mem, b.off_dt_struct + o, b.off_dt_struct + n)
  <2>1. At(b, o).tag \in Opens  BY <1>2 DEF Opens
  <2> QED BY <1>1, <1>2, <1>3, <2>1, TagAt
<1>5. \A x \in o + 1 .. n - 1 : At(b, x).tag \notin Opens
  <2>1. PICK st \in Nat : st = b.off_dt_struct  BY <1>1, BlobFields
  <2>2. ASSUME NEW x \in o + 1 .. n - 1 PROVE At(b, x).tag \notin Opens
    <3>1. PICK p \in Int, m \in Int, t \in Int : p = st + o /\ m = st + n /\ t = st + x
      <4>1. x \in Int  BY <1>2
      <4> QED BY <1>2, <4>1
    <3>2. t \in p + 1 .. m - 1
      <4>1. o \in Nat /\ x \in Nat /\ o + 1 <= x /\ x <= n - 1  BY <1>2
      <4> QED BY ONLY <2>1, <3>1, <4>1, n \in Nat
    <3>3. Elem(b.mem, p, m)  BY <1>4, <2>1, <3>1
    <3>4. b.mem[t].tag \notin Opens  BY <3>2, <3>3, ElemInside
    <3> QED BY <2>1, <3>1, <3>4 DEF At
  <2> QED BY <2>2
<1>6. Size(b) \in Int /\ e + 1 <= Size(b)  BY <1>1, EndIs
<1>7. \A x \in 0 .. e : Tag(b, x) = At(b, x).tag  BY <1>6 DEF Tag
<1>8. PICK c \in Nat : c = NodeEnd(b, o) - 1 /\ c \in o + 1 .. e - 1 /\ At(b, c).tag = "end_node"
  <2>1. NodeEnd(b, o) \in o + 1 .. e /\ Closes(b, e, o, NodeEnd(b, o) - 1)  BY NodeCloses
  <2> QED BY <1>2, <2>1 DEF Closes
<1>9. c \in n .. e - 1
  <2>1. c \notin o + 1 .. n - 1  BY <1>5, <1>8 DEF Opens
  <2> QED BY <1>2, <1>3, <1>8, <2>1
<1> DEFINE S == {q \in n .. Size(b) : Tag(b, q) \in {"begin", "end_node", "end", "none"}}
<1>10. c \in S
  <2>1. c \in n .. Size(b) /\ c \in 0 .. e  BY <1>2, <1>3, <1>6, <1>9
  <2> QED BY <1>7, <1>8, <2>1
<1>11. S \in SUBSET Nat  BY <1>6
<1>12. BehindProps(b, o) = Min(S)  BY <1>3 DEF BehindProps
<1> HIDE DEF S
<1>13. Min(S) \in S /\ \A y \in S : Min(S) <= y  BY <1>10, <1>11, MinLemma
<1>14. PICK q \in Nat : q = BehindProps(b, o) /\ q \in S /\ q <= c /\ \A y \in S : q <= y
  BY <1>10, <1>11, <1>12, <1>13
<1>15. q \in n .. e - 1 /\ q \in o + 1 .. e - 1
  <2>1. n <= q  BY <1>14 DEF S
  <2>2. o \in Nat /\ o + 1 <= n /\ c <= e - 1 /\ q <= c  BY <1>2, <1>3, <1>9, <1>14
  <2> QED BY ONLY <2>1, <2>2, q \in Nat, n \in Nat, c \in Nat, e \in Nat
<1>16. At(b, q).tag \in Edges
  <2>1. q \in 0 .. e  BY <1>15
  <2>2. At(b, q).tag \in {"begin", "end_node", "end", "none"}  BY <1>7, <1>14, <2>1 DEF S
  <2>3. At(b, q).tag # "end"
    <3>1. PICK st \in Nat : st = b.off_dt_struct  BY <1>1, BlobFields
    <3>2. PICK p \in Int, m \in Int : p = st + q /\ m = st + e  OBVIOUS
    <3>3. p \in st .. m - 1  BY <1>15, <3>2
    <3>4. Run(b.mem, st, m)  BY <1>1, <3>1, <3>2 DEF Holds
    <3> QED BY <3>1, <3>2, <3>3, <3>4 DEF Run, At
  <2>4. At(b, q).tag \in Tags
    <3>1. b.off_dt_struct \in Nat /\ b.off_dt_struct + Size(b) <= b.totalsize
      BY <1>1, BlobFields, EndIs
    <3>2. b.totalsize \in Nat  BY <1>1, BlobFields, FdtRwAssumption
    <3>3. PICK p \in Nat : p = b.off_dt_struct + q  BY <3>1
    <3>4. p < b.totalsize  BY <1>6, <1>15, <3>1, <3>2, <3>3
    <3>5. b.mem[p] \in [tag : Tags, x : Nat, y : Nat]  BY <1>1, <3>4, MemoryCells
    <3> QED BY <3>3, <3>5 DEF At
  <2> QED BY <2>2, <2>3, <2>4 DEF Edges, Tags
<1>17. ASSUME NEW x \in o + 1 .. q - 1 PROVE At(b, x).tag \notin Edges
  <2>1. CASE x < n
    <3>1. x \in o + 1 .. n - 1  BY <1>2, <2>1
    <3> QED BY <1>5, <3>1 DEF Edges, Opens
  <2>2. CASE ~(x < n)
    <3>1. x \in n .. Size(b) /\ x \in 0 .. e /\ ~(q <= x)  BY <1>2, <1>6, <1>15, <2>2
    <3>2. x \notin S  BY <1>14, <3>1
    <3> QED BY <1>7, <3>1, <3>2 DEF S, Edges
  <2> QED BY <2>1, <2>2
<1> QED BY <1>14, <1>15, <1>16, <1>17 DEF Plain

\* A node that holds its name only, put behind the properties of the node at o.
NodeNew(b, k, e, f, k2, o, q, n, name) ==
  /\ Whole(b, k, e) /\ EditOf(b, k, e, f, k2, q, q, n + 1) /\ o \in Nodes(b)
  /\ q \in o + 1 .. e - 1 /\ At(b, q).tag \in Edges /\ Plain(b, o, q)
  /\ NameHere(f, q, n, name) /\ At(f, n).tag = "end_node"

NewIs(b, k, e, f, k2, o, q, n) ==
  /\ b \in Blobs /\ Holds(b, k, e) /\ Shaped(b, e) /\ f \in Blobs
  /\ Holds(f, k2, e + (n + 1 - q)) /\ q + 1 < n /\ o < q /\ q < e
  /\ At(b, o).tag = "begin" /\ At(f, q).tag = "begin"
  /\ \A x \in 0 .. q - 1 : At(f, x) = At(b, x)
  /\ \A x \in q + 1 .. n - 1 : At(f, x).tag \notin Edges
  /\ \A x \in q .. n : At(f, x).tag # "prop"

\* Its own depth counts from q on, and is gone behind it.
NewCounts(b, f, q, n) ==
  /\ \A x \in q + 1 .. n : Net(f, q, x) = 1
  /\ Net(f, q, n + 1) = 0 /\ Net(f, q, q) = 0 /\ Net(b, 0, q) >= 1 /\ Net(b, 0, q) \in Int
  /\ Begins(f, q, n + 1) = {q}

\* What putting a new node's cells leaves alone.
LEMMA NewFacts ==
  ASSUME NEW b, NEW k \in Nat, NEW e \in Nat, NEW f, NEW k2 \in Nat, NEW o \in Nat, NEW q \in Nat,
         NEW n \in Nat, NEW name \in Seq(Nat \ {0}), NodeNew(b, k, e, f, k2, o, q, n, name)
  PROVE  NewIs(b, k, e, f, k2, o, q, n)
<1>1. Whole(b, k, e) /\ EditOf(b, k, e, f, k2, q, q, n + 1) /\ o \in Nodes(b) /\ NameHere(f, q, n, name)
  BY DEF NodeNew
<1>2. b \in Blobs /\ Holds(b, k, e) /\ Shaped(b, e)  BY <1>1 DEF Whole
<1>3. f \in Blobs /\ Holds(f, k2, e + (n + 1 - q)) /\ \A x \in 0 .. q - 1 : At(f, x) = At(b, x)
  BY <1>1 DEF EditOf
<1>4. At(b, o).tag = "begin"  BY <1>1, <1>2, NodesAre
<1>5. q + 1 < n /\ PropTags(f, q, n) = {} /\ Plain(f, q, n)  BY <1>1, NameHereMeans
<1>6. o < q /\ q < e  BY DEF NodeNew
<1>7. At(f, q).tag = "begin"  BY <1>1 DEF NameHere
<1>8. \A x \in q .. n : At(f, x).tag # "prop"
  <2>1. ASSUME NEW x \in q .. n PROVE At(f, x).tag # "prop"
    <3>1. CASE x = n  BY <3>1 DEF NodeNew
    <3>2. CASE x # n
      <4>1. x \in q .. n - 1  BY <3>2
      <4> QED BY <1>5, <4>1 DEF PropTags
    <3> QED BY <3>1, <3>2
  <2> QED BY <2>1
<1> QED BY <1>2, <1>3, <1>4, <1>5, <1>6, <1>7, <1>8 DEF Plain, NewIs

\* Nets across the new node.
LEMMA NewNets ==
  ASSUME NEW b, NEW k \in Nat, NEW e \in Nat, NEW f, NEW k2 \in Nat, NEW o \in Nat, NEW q \in Nat,
         NEW n \in Nat, NEW name \in Seq(Nat \ {0}), NodeNew(b, k, e, f, k2, o, q, n, name)
  PROVE  NewCounts(b, f, q, n)
<1>00. NewIs(b, k, e, f, k2, o, q, n)  BY NewFacts
<1>0. /\ b \in Blobs /\ Holds(b, k, e) /\ Shaped(b, e) /\ f \in Blobs
      /\ Holds(f, k2, e + (n + 1 - q)) /\ q + 1 < n /\ o < q /\ q < e
      /\ At(b, o).tag = "begin" /\ At(f, q).tag = "begin"
      /\ \A x \in 0 .. q - 1 : At(f, x) = At(b, x)
      /\ \A x \in q + 1 .. n - 1 : At(f, x).tag \notin Edges
      /\ \A x \in q .. n : At(f, x).tag # "prop"
  BY <1>00 DEF NewIs
<1>1. Plain(b, o, q) /\ At(f, n).tag = "end_node"  BY DEF NodeNew
<1>2. \A x \in q + 1 .. n : Net(f, q, x) = 1
  <2>1. ASSUME NEW x \in q + 1 .. n PROVE Net(f, q, x) = 1
    <3>1. \A y \in q + 1 .. x - 1 : At(f, y).tag \notin {"begin", "end_node"}
      BY <1>0 DEF Edges
    <3>2. Net(f, q + 1, x) = 0  BY <3>1, NetNone
    <3>3. Net(f, q, q + 1) = 1  BY <1>0, NetOne
    <3>4. Net(f, q, x) = Net(f, q, q + 1) + Net(f, q + 1, x)
      <4>1. q \in Int /\ q + 1 \in Int /\ x \in Int /\ q <= q + 1 /\ q + 1 <= x  OBVIOUS
      <4> QED BY <4>1, NetJoin
    <3> QED BY <3>2, <3>3, <3>4
  <2> QED BY <2>1
<1>3. Net(f, q, n + 1) = 0
  <2>1. Net(f, q, n) = 1  BY <1>0, <1>2
  <2>2. Net(f, n, n + 1) = -1  BY <1>1, NetOne
  <2>3. Net(f, q, n + 1) = Net(f, q, n) + Net(f, n, n + 1)  BY <1>0, NetJoin
  <2> QED BY <2>1, <2>2, <2>3
<1>4. Net(f, q, q) = 0  BY NetEmpty
<1>5. Net(b, 0, q) >= 1 /\ Net(b, 0, q) \in Int
  <2>1. Net(b, 0, o) >= 0 /\ Net(b, 0, o) \in Int
    <3>1. o \in 0 .. e  BY <1>0
    <3> QED BY <1>0, <3>1, NetType DEF Shaped
  <2>2. Net(b, o, o + 1) = 1  BY <1>0, NetOne
  <2>3. Net(b, o + 1, q) = 0
    <3>1. \A y \in o + 1 .. q - 1 : At(b, y).tag \notin {"begin", "end_node"}
      BY <1>1 DEF Plain, Edges
    <3> QED BY <3>1, NetNone
  <2>4. Net(b, 0, o + 1) = Net(b, 0, o) + Net(b, o, o + 1)  BY NetJoin
  <2>5. Net(b, 0, q) = Net(b, 0, o + 1) + Net(b, o + 1, q)
    <3>1. 0 \in Int /\ o + 1 \in Int /\ q \in Int /\ 0 <= o + 1 /\ o + 1 <= q  BY <1>0
    <3> QED BY <3>1, NetJoin
  <2> QED BY <2>1, <2>2, <2>3, <2>4, <2>5
<1>6. Begins(f, q, n + 1) = {q}
  <2>1. \A x : x \in Begins(f, q, n + 1) <=> x \in q .. n /\ At(f, x).tag = "begin"  BY DEF Begins
  <2>2. \A x : x \in q .. n => x = q \/ x = n \/ x \in q + 1 .. n - 1  OBVIOUS
  <2>3. q \in q .. n  BY <1>0
  <2>4. \A x : x \in Begins(f, q, n + 1) <=> x = q  BY <1>0, <1>1, <2>1, <2>2, <2>3 DEF Edges
  <2> HIDE DEF Begins
  <2> QED BY <2>4
<1> QED BY <1>2, <1>3, <1>4, <1>5, <1>6 DEF NewCounts

\* With a new node behind the properties of another there is still one tree.
LEMMA NewShaped ==
  ASSUME NEW b, NEW k \in Nat, NEW e \in Nat, NEW f, NEW k2 \in Nat, NEW o \in Nat, NEW q \in Nat,
         NEW n \in Nat, NEW name \in Seq(Nat \ {0}), NodeNew(b, k, e, f, k2, o, q, n, name),
         NEW z \in Nat, z = n + 1
  PROVE  Shaped(f, e + (z - q))
<1>00. NewIs(b, k, e, f, k2, o, q, n)  BY NewFacts
<1>0. /\ b \in Blobs /\ Holds(b, k, e) /\ Shaped(b, e) /\ f \in Blobs
      /\ Holds(f, k2, e + (n + 1 - q)) /\ q + 1 < n /\ o < q /\ q < e
      /\ At(b, o).tag = "begin" /\ At(f, q).tag = "begin"
      /\ \A x \in 0 .. q - 1 : At(f, x) = At(b, x)
      /\ \A x \in q + 1 .. n - 1 : At(f, x).tag \notin Edges
      /\ \A x \in q .. n : At(f, x).tag # "prop"
  BY <1>00 DEF NewIs
<1>01. NewCounts(b, f, q, n)  BY NewNets
<1>1. /\ \A x \in q + 1 .. n : Net(f, q, x) = 1
      /\ Net(f, q, n + 1) = 0 /\ Net(f, q, q) = 0 /\ Net(b, 0, q) >= 1 /\ Net(b, 0, q) \in Int
      /\ Begins(f, q, n + 1) = {q}
  BY <1>01 DEF NewCounts
<1>2. EditOf(b, k, e, f, k2, q, q, z) /\ At(b, q).tag \in Edges /\ At(f, n).tag = "end_node"
  BY DEF NodeNew
<1>3. ASSUME NEW x \in q .. z PROVE Net(b, 0, q) + Net(f, q, x) >= 0
  <2>1. x = q \/ x = n + 1 \/ x \in q + 1 .. n  OBVIOUS
  <2> QED BY <1>1, <2>1
<1>4. ASSUME NEW x \in q .. z - 1, 0 < x, At(f, x).tag = "begin" PROVE Net(b, 0, q) + Net(f, q, x) >= 1
  <2>1. x \in Begins(f, q, n + 1)  BY <1>4 DEF Begins
  <2> QED BY <1>1, <2>1
<1>5. At(f, 0).tag = "begin"
  <2>1. At(f, 0) = At(b, 0)
    <3>1. 0 \in 0 .. q - 1  BY <1>0
    <3> QED BY <1>0, <3>1
  <2>2. CASE o = 0  BY <1>0, <2>1, <2>2
  <2>3. CASE o # 0
    <3>1. o \in 1 .. e - 1  BY <1>0, <2>3
    <3> QED BY <1>0, <2>1, <3>1 DEF Shaped
  <2> QED BY <2>2, <2>3
<1>6. \A x \in q .. z - 1 : At(f, x).tag # "prop"
  <2>1. \A x \in q .. z - 1 : x \in q .. n  OBVIOUS
  <2> QED BY <1>0, <2>1
<1>7. ASSUME NEW x \in q .. e - 1, NEW p \in 0 .. q - 1, Owns(b, p, x) PROVE FALSE
  <2>1. q \in p + 1 .. x  OBVIOUS
  <2> QED BY <1>2, <1>7, <2>1 DEF Owns
<1> QED BY <1>0, <1>2, <1>3, <1>4, <1>5, <1>6, <1>7, EditShaped

\* The node o with a first child that holds its name only.
WithChild(b, o, name) ==
  SubSeq(TreeOf(b), 1, NodeNo(b, o))
    \o <<[depth |-> TreeOf(b)[NodeNo(b, o)].depth + 1, name |-> name, props |-> <<>>]>>
    \o SubSeq(TreeOf(b), NodeNo(b, o) + 1, Len(TreeOf(b)))

\* The nodes are those there were, moved, and the new one.
LEMMA NewNodes ==
  ASSUME NEW b, NEW k \in Nat, NEW e \in Nat, NEW f, NEW k2 \in Nat, NEW o \in Nat, NEW q \in Nat,
         NEW n \in Nat, NEW name \in Seq(Nat \ {0}), NodeNew(b, k, e, f, k2, o, q, n, name),
         NEW z \in Nat, z = n + 1, NEW d, d = z - q
  PROVE  Rejoined(b, f, q, q, d, {q})
<1>00. NewIs(b, k, e, f, k2, o, q, n)  BY NewFacts
<1>0. /\ b \in Blobs /\ Holds(b, k, e) /\ Shaped(b, e) /\ f \in Blobs
      /\ Holds(f, k2, e + (n + 1 - q)) /\ q + 1 < n /\ o < q /\ q < e
      /\ At(b, o).tag = "begin" /\ At(f, q).tag = "begin"
      /\ \A x \in 0 .. q - 1 : At(f, x) = At(b, x)
  BY <1>00 DEF NewIs
<1>1. EditOf(b, k, e, f, k2, q, q, z) /\ At(b, q).tag \in Edges  BY DEF NodeNew
<1>2. Nodes(b) \in SUBSET Int /\ IsFiniteSet(Nodes(b))  BY <1>0, NodesAre
<1>3. Nodes(f) = (Left(Nodes(b), q) \cup {q}) \cup Shift(Right(Nodes(b), q), d)
  <2>1. Begins(f, q, z) = {q}
    <3>1. NewCounts(b, f, q, n)  BY NewNets
    <3> QED BY <3>1 DEF NewCounts
  <2>2. Nodes(f) = (Left(Nodes(b), q) \cup Begins(f, q, z)) \cup Shift(Right(Nodes(b), q), z - q)
    <3>1. NodesEdited(b, f, q, q, z)  BY <1>1, EditNodes
    <3> QED BY <3>1 DEF NodesEdited
  <2> QED BY <2>1, <2>2
<1>4. ASSUME NEW x \in Nodes(b), x < q PROVE NodeAs(f, x) = NodeAs(b, x)
  <2>1. x \in Int  BY <1>2
  <2>2. ASSUME NEW y \in Properties(b, x) PROVE y < q
    <3>1. y \in x + 1 .. e - 1 /\ \A p \in x + 1 .. y : At(b, p).tag \notin Edges
      BY <1>0, <2>1, NodesAre
    <3>2. SUFFICES ASSUME ~(y < q) PROVE FALSE  OBVIOUS
    <3>3. q \in x + 1 .. y  BY <1>4, <2>1, <3>1, <3>2
    <3> QED BY <1>1, <3>1, <3>3
  <2>3. ASSUME NEW y \in Properties(f, x) PROVE y < q
    <3>1. PICK e2 \in Nat : e2 = e + (n + 1 - q)  BY <1>0
    <3>2. y \in x + 1 .. e2 - 1 /\ \A p \in x + 1 .. y : At(f, p).tag \notin Edges
      BY <1>0, <2>1, <3>1, NodesAre
    <3>3. SUFFICES ASSUME ~(y < q) PROVE FALSE  OBVIOUS
    <3>4. q \in x + 1 .. y  BY <1>4, <2>1, <3>2, <3>3
    <3> QED BY <1>0, <3>2, <3>4 DEF Edges
  <2> QED BY <1>1, <1>4, <2>2, <2>3, EditLeft
<1>5. ASSUME NEW x \in Nodes(b), q <= x PROVE NodeAs(f, x + d) = NodeAs(b, x)
  <2>1. At(f, 0).tag = At(b, 0).tag
    <3>1. 0 \in 0 .. q - 1  BY <1>0
    <3> QED BY <1>0, <3>1
  <2>2. Reread(b, f, x, z - q)  BY <1>1, <1>5, <2>1, EditRight
  <2> QED BY <2>2 DEF Reread
<1>6. /\ Before(Left(Nodes(b), q), Shift(Right(Nodes(b), q), d))
      /\ Before(Left(Nodes(b), q), {q}) /\ Before({q}, Shift(Right(Nodes(b), q), d))
  <2>1. d \in Int /\ d > 0  BY <1>0
  <2>2. ASSUME NEW y \in Right(Nodes(b), q) PROVE q < y + d
    <3>1. q <= y /\ y \in Int  BY <1>2 DEF Right
    <3> QED BY <2>1, <3>1
  <2>3. ASSUME NEW x \in Left(Nodes(b), q) PROVE x < q  BY DEF Left
  <2>4. ASSUME NEW x \in Left(Nodes(b), q), NEW y \in Right(Nodes(b), q) PROVE x < y + d
    <3>1. x \in Int /\ y \in Int  BY <1>2 DEF Left, Right
    <3> QED BY <2>1, <2>2, <2>3, <3>1
  <2> QED BY <2>2, <2>3, <2>4 DEF Before, Shift
<1>7. Numbers({q}) /\ Numbers(Nodes(b))
  <2>1. IsFiniteSet({q})  BY FS_EmptySet, FS_AddElement, FS_Singleton
  <2> QED BY <1>2, <2>1 DEF Numbers
<1>8. /\ \A x \in Left(Nodes(b), q) : NodeAs(f, x) = NodeAs(b, x)
      /\ \A x \in Right(Nodes(b), q) : NodeAs(f, x + d) = NodeAs(b, x)
  BY <1>4, <1>5 DEF Left, Right
<1> QED BY <1>3, <1>6, <1>7, <1>8 DEF Rejoined

\* The new node has its name and no properties, one deeper than its parent.
LEMMA NewReads ==
  ASSUME NEW b, NEW k \in Nat, NEW e \in Nat, NEW f, NEW k2 \in Nat, NEW o \in Nat, NEW q \in Nat,
         NEW n \in Nat, NEW name \in Seq(Nat \ {0}), NodeNew(b, k, e, f, k2, o, q, n, name)
  PROVE  NodeAs(f, q) = [depth |-> NodeAs(b, o).depth + 1, name |-> name, props |-> <<>>]
<1>00. NewIs(b, k, e, f, k2, o, q, n)  BY NewFacts
<1>0. /\ b \in Blobs /\ Holds(b, k, e) /\ Shaped(b, e) /\ f \in Blobs
      /\ Holds(f, k2, e + (n + 1 - q)) /\ q + 1 < n /\ o < q /\ q < e
      /\ At(b, o).tag = "begin" /\ At(f, q).tag = "begin"
      /\ \A x \in 0 .. q - 1 : At(f, x) = At(b, x)
      /\ \A x \in q .. n : At(f, x).tag # "prop"
  BY <1>00 DEF NewIs
<1>1. NameHere(f, q, n, name) /\ At(f, n).tag = "end_node" /\ Plain(b, o, q)  BY DEF NodeNew
<1>2. PICK e2 \in Nat : e2 = e + (n + 1 - q) /\ n <= e2  BY <1>0
<1>3. GetName(f, q) = name
  <2>1. Holds(f, k2, e2)  BY <1>0, <1>2
  <2> QED BY <1>0, <1>1, <1>2, <2>1, NameRead
<1>4. Properties(f, q) = {}
  <2>1. SUFFICES ASSUME NEW y \in Properties(f, q) PROVE FALSE  OBVIOUS
  <2>2. /\ y \in q + 1 .. e2 - 1 /\ At(f, y).tag = "prop"
        /\ \A p \in q + 1 .. y : At(f, p).tag \notin Edges
    <3>1. Holds(f, k2, e2)  BY <1>0, <1>2
    <3> QED BY <1>0, <3>1, NodesAre
  <2>3. CASE y <= n
    <3>1. y \in q .. n  BY <2>2, <2>3
    <3> QED BY <1>0, <2>2, <3>1
  <2>4. CASE ~(y <= n)
    <3>1. n \in q + 1 .. y  BY <1>0, <2>2, <2>4
    <3> QED BY <1>1, <2>2, <3>1 DEF Edges
  <2> QED BY <2>3, <2>4
<1>5. PropsOf(f, q) = <<>>  BY <1>4, InTurnNone DEF PropsOf
<1>6. Depth(f, 0, q) = Depth(b, 0, o) + 1
  <2>1. Depth(f, 0, q) = Net(f, 1, q + 1) /\ Depth(b, 0, o) = Net(b, 1, o + 1)
    <3>1. Depth(f, 0, q) = Net(f, 0 + 1, q + 1) /\ Depth(b, 0, o) = Net(b, 0 + 1, o + 1)
      BY DepthIs
    <3> QED BY <3>1
  <2>2. Net(f, 1, q + 1) = Net(f, 1, q) + Net(f, q, q + 1)
    <3>1. 1 \in Int /\ q \in Int /\ q + 1 \in Int /\ 1 <= q /\ q <= q + 1  BY <1>0
    <3> QED BY <3>1, NetJoin
  <2>3. Net(f, q, q + 1) = 1  BY <1>0, NetOne
  <2>4. Net(f, 1, q) = Net(b, 1, q)
    <3>1. \A p \in 1 .. q - 1 : At(f, p).tag = At(b, p).tag
      <4>1. \A p \in 1 .. q - 1 : p \in 0 .. q - 1  OBVIOUS
      <4> QED BY <1>0, <4>1
    <3> QED BY <3>1, NetSame
  <2>5. Net(b, 1, q) = Net(b, 1, o + 1) + Net(b, o + 1, q)
    <3>1. 1 \in Int /\ o + 1 \in Int /\ q \in Int /\ 1 <= o + 1 /\ o + 1 <= q  BY <1>0
    <3> QED BY <3>1, NetJoin
  <2>6. Net(b, o + 1, q) = 0
    <3>1. \A y \in o + 1 .. q - 1 : At(b, y).tag \notin {"begin", "end_node"}
      BY <1>1 DEF Plain, Edges
    <3> QED BY <3>1, NetNone
  <2>7. Net(b, 1, o + 1) \in Int /\ Net(b, 1, q) \in Int  BY NetType
  <2> QED BY <2>1, <2>2, <2>3, <2>4, <2>5, <2>6, <2>7
<1> QED BY <1>3, <1>5, <1>6 DEF NodeAs

\* The tree has the new node right behind its parent.
LEMMA NewTreeIs ==
  ASSUME NEW b, NEW k \in Nat, NEW e \in Nat, NEW f, NEW k2 \in Nat, NEW o \in Nat, NEW q \in Nat,
         NEW n \in Nat, NEW name \in Seq(Nat \ {0}), NodeNew(b, k, e, f, k2, o, q, n, name)
  PROVE  TreeOf(f) = WithChild(b, o, name)
<1>13. PICK U : U = {q}  OBVIOUS
<1> DEFINE L == InTurn(Left(Nodes(b), q), NodesAs(b))
           R == InTurn(Right(Nodes(b), q), NodesAs(b))
           T == InTurn(U, NodesAs(f))
<1>1. PICK z \in Nat : z = n + 1  OBVIOUS
<1>2. PICK d \in Int : d = z - q  OBVIOUS
<1>3. Rejoined(b, f, q, q, d, U)
  <2>1. Rejoined(b, f, q, q, d, {q})  BY <1>1, <1>2, NewNodes
  <2> QED BY <1>13, <2>1
<1>4. TreeOf(f) = (L \o T) \o R  BY <1>3, TreeJoined
<1>5. Numbers(Nodes(b))  BY <1>3 DEF Rejoined
<1>6. Whole(b, k, e) /\ o \in Nodes(b) /\ Plain(b, o, q) /\ o < q  BY DEF NodeNew
<1>7. NodesUpTo(b, q) = NodeNo(b, o)
  <2>1. ASSUME NEW x \in Nodes(b) PROVE x < q <=> x <= o
    <3>1. x \in Int /\ At(b, x).tag = "begin"  BY <1>6, NodesAre DEF Whole
    <3>2. ~(x <= o) /\ x < q => x \in o + 1 .. q - 1  BY <3>1
    <3> QED BY <1>6, <3>1, <3>2 DEF Plain, Edges
  <2>2. Left(Nodes(b), q) = UpTo(Nodes(b), o)  BY <2>1 DEF Left, UpTo
  <2> QED BY <2>2 DEF NodesUpTo, NodeNo
<1>8. L = SubSeq(TreeOf(b), 1, NodesUpTo(b, q))  BY <1>5, TreeCut
<1>9. R = SubSeq(TreeOf(b), NodesUpTo(b, q) + 1, Len(TreeOf(b)))  BY <1>5, TreeCut
<1>10. T = <<NodeAs(f, q)>>
  <2>1. T = <<NodesAs(f)[q]>>
    <3>1. PICK F : F = NodesAs(f)  OBVIOUS
    <3>2. q \in Int  OBVIOUS
    <3>3. InTurn({q}, F) = <<F[q]>>  BY ONLY <3>2, InTurnOne
    <3> QED BY <1>13, <3>1, <3>3
  <2> QED BY <2>1 DEF NodesAs
<1>11. NodeAs(f, q) = [depth |-> TreeOf(b)[NodeNo(b, o)].depth + 1, name |-> name, props |-> <<>>]
  <2>1. NodeAs(f, q) = [depth |-> NodeAs(b, o).depth + 1, name |-> name, props |-> <<>>]  BY NewReads
  <2>2. TreeOf(b)[NodeNo(b, o)] = NodeAs(b, o)  BY <1>6, NumberOf
  <2> QED BY <2>1, <2>2
<1> HIDE DEF L, R, T
<1> QED BY <1>4, <1>7, <1>8, <1>9, <1>10, <1>11 DEF WithChild

ChildNamed(b, o, name) ==
  \E j \in ChildrenIn(TreeOf(b), NodeNo(b, o)) : NodenameEq(TreeOf(b)[j].name, name)

\* What fdt_subnode_offset says of the node at o.
LEMMA SubnodeFound ==
  ASSUME NEW b, NEW k \in Nat, NEW e \in Nat, Whole(b, k, e), RwCheckHeader(b) = 0, NEW o \in Nat,
         NEW name
  PROVE  \/ o \notin Nodes(b) /\ SubnodeOffset(b, o, name) = BADOFFSET
         \/ o \in Nodes(b) /\ ChildNamed(b, o, name) /\ SubnodeOffset(b, o, name) >= 0
         \/ o \in Nodes(b) /\ ~ChildNamed(b, o, name) /\ SubnodeOffset(b, o, name) = NOTFOUND
<1> DEFINE S == {q \in Subnodes(b, o) : NodenameEq(GetName(b, q), name)}
<1>1. ~(CheckHeader(b) < 0)
  BY DEF RwCheckHeader, Unless, CheckHeader, BADVERSION, BADSTATE, BADMAGIC
<1>2. ~(o < 0)  OBVIOUS
<1>3. CASE o \notin Nodes(b)
  <2>1. NodeEnd(b, o) = BADOFFSET  BY <1>3, NodeSpan
  <2> QED BY <1>1, <1>2, <1>3, <2>1 DEF SubnodeOffset, Unless, BADOFFSET
<1>4. CASE o \in Nodes(b)
  <2>1. NodeEnd(b, o) \in Nat  BY <1>4, NodeSpan
  <2>2. SubnodeOffset(b, o, name) = Lowest(S, NOTFOUND)
    <3>1. ~(NodeEnd(b, o) < 0)  BY <2>1
    <3> HIDE DEF S
    <3> QED BY <1>1, <1>2, <3>1 DEF SubnodeOffset, Unless, S
  <2>3. S \in SUBSET Nat  BY DEF Subnodes, Tagged
  <2>4. S # {} <=> ChildNamed(b, o, name)
    <3>1. S # {} <=> \E q \in Subnodes(b, o) : NodenameEq(GetName(b, q), name)  OBVIOUS
    <3> HIDE DEF S
    <3> QED BY <1>4, <3>1, SubnodesAre DEF ChildNamed
  <2> HIDE DEF S
  <2>5. \/ S = {} /\ Lowest(S, NOTFOUND) = NOTFOUND
        \/ S # {} /\ Lowest(S, NOTFOUND) \in S
    BY <2>3, LowestLemma
  <2>6. CASE S = {}
    <3>1. SubnodeOffset(b, o, name) = NOTFOUND  BY <2>2, <2>5, <2>6
    <3>2. ~ChildNamed(b, o, name)  BY <2>4, <2>6
    <3> QED BY <1>4, <3>1, <3>2
  <2>7. CASE S # {}
    <3>1. Lowest(S, NOTFOUND) \in Nat  BY <2>3, <2>5, <2>7
    <3>2. SubnodeOffset(b, o, name) >= 0  BY <2>2, <3>1
    <3> QED BY <1>4, <2>4, <2>7, <3>2
  <2> QED BY <2>6, <2>7
<1> QED BY <1>3, <1>4

AddOutcome(b, o, name, r) ==
  \/ NotWritten(b, r)
  \/ RwCheckHeader(b) = 0 /\ NoNode(b, o, r)
  \/ RwCheckHeader(b) = 0 /\ o \in Nodes(b) /\ ChildNamed(b, o, name) /\ r = Fail(EXISTS, b)
  \/ /\ RwCheckHeader(b) = 0 /\ o \in Nodes(b) /\ ~ChildNamed(b, o, name)
     /\ r.err = NOSPACE /\ r.fdt = b
  \/ /\ RwCheckHeader(b) = 0 /\ o \in Nodes(b) /\ ~ChildNamed(b, o, name)
     /\ r.err = 0 /\ Becomes(b, r.fdt, WithChild(b, o, name))

\* fdt_add_subnode adds the node, or fails and changes nothing.
LEMMA AddDoes ==
  ASSUME NEW b, NEW k \in Nat, NEW e \in Nat, Whole(b, k, e), b.magic = "FDT", b.version >= 16,
         NEW o \in Nat, NEW name \in Seq(Nat \ {0})
  PROVE  AddOutcome(b, o, name, AddSubnode(b, o, name))
<1> DEFINE cells == NewNode(name)
           w == Len(cells)
           found == SubnodeOffset(b, o, name)
           r == AddSubnode(b, o, name)
<1>1. b \in Blobs /\ Holds(b, k, e)  BY DEF Whole
<1>2. CASE RwCheckHeader(b) # 0
  <2>1. r = Fail(RwCheckHeader(b), b)  BY <1>2 DEF AddSubnode, Guarded
  <2> QED BY <1>2, <2>1 DEF AddOutcome, NotWritten
<1>3. CASE RwCheckHeader(b) = 0 /\ o \notin Nodes(b) /\ found = BADOFFSET
  <2>1. r = Fail(BADOFFSET, b)  BY <1>3 DEF AddSubnode, Guarded, BADOFFSET, NOTFOUND
  <2> QED BY <1>3, <2>1 DEF AddOutcome, NoNode
<1>4. CASE RwCheckHeader(b) = 0 /\ o \in Nodes(b) /\ ChildNamed(b, o, name) /\ found >= 0
  <2>1. r = Fail(EXISTS, b)  BY <1>4 DEF AddSubnode, Guarded
  <2> QED BY <1>4, <2>1 DEF AddOutcome
<1>5. CASE RwCheckHeader(b) = 0 /\ o \in Nodes(b) /\ ~ChildNamed(b, o, name) /\ found = NOTFOUND
  <2>1. PICK q \in Nat : q = BehindProps(b, o)
    <3>1. BehindProps(b, o) \in o + 1 .. e - 1  BY <1>5, BehindIs
    <3> QED BY <3>1
  <2>2. q \in o + 1 .. e - 1 /\ At(b, q).tag \in Edges /\ Plain(b, o, q)  BY <1>5, <2>1, BehindIs
  <2> DEFINE st == b.off_dt_struct
             s == SpliceStruct(b, q, 0, w)
             g == Put(s.fdt, st + q, cells)
  <2>3. r = IF s.err # 0 THEN s ELSE Done(g)
    BY <1>5, <2>1 DEF AddSubnode, Guarded, AndThen, NewNode, BehindProps, NOTFOUND
  <2>4. cells \in Seq(Cells) /\ w \in Nat /\ w = Len(NameCells(name)) + 2  BY NewNodeLemma
  <2>5. q <= e /\ 0 < q /\ o < q  BY <1>1, <2>2
  <2> HIDE DEF s, r, g, st, cells, w
  <2>6. CASE s.err # 0
    <3>1. SpliceErr(b, 0, w, s)
      <4>1. q + 0 <= e /\ 0 \in Nat  BY <2>5
      <4> QED BY <1>1, <1>5, <2>4, <4>1, StructSpliceErr DEF s
    <3>2. s.err = NOSPACE /\ s.fdt = b  BY <2>6, <3>1 DEF SpliceErr
    <3> QED BY <1>5, <2>3, <2>6, <3>2 DEF AddOutcome, r
  <2>7. CASE s.err = 0
    <3>1. r = Done(g) /\ r.err = 0 /\ r.fdt = g  BY <2>3, <2>7 DEF Done
    <3>2. PICK z \in Nat : z = q + w  BY <2>4
    <3>3. Inserted(b, g, q, q, z, cells)
      <4>1. PICK l, at : l = q - q /\ at = st + q  OBVIOUS
      <4>2. l = 0  BY <4>1
      <4>3. s = SpliceStruct(b, q, l, Len(cells)) /\ g = Put(s.fdt, at, cells)  BY <4>1, <4>2 DEF s, g, w
      <4>4. z = q + Len(cells) /\ at = b.off_dt_struct + q  BY <3>2, <4>1 DEF w, st
      <4>5. /\ b \in Blobs /\ Holds(b, k, e) /\ RwCheckHeader(b) = 0 /\ q \in Nat /\ z \in Nat
            /\ k \in Nat /\ e \in Nat /\ cells \in Seq(Cells) /\ q <= e /\ 0 < q /\ s.err = 0
        BY <1>1, <1>5, <2>1, <2>4, <2>5, <2>7, <3>2
      <4> QED BY ONLY <4>5, <4>1, <4>3, <4>4, Inserting
    <3>4. PICK n \in Nat : n = q + 1 + Len(NameCells(name)) /\ z = n + 1  BY <2>4, <3>2
    <3>5. ASSUME NEW j \in 1 .. w PROVE At(g, q + (j - 1)) = cells[j]
      <4>1. PICK y \in Nat : y = q + (j - 1)  BY <2>4
      <4>2. j \in 1 .. Len(cells)  BY DEF w
      <4>3. At(g, y) = cells[j]  BY <3>3, <4>1, <4>2 DEF Inserted
      <4> QED BY <4>1, <4>3
    <3>6. NameHere(g, q, n, name)
      <4>1. At(g, q).tag = "begin"
        <5>1. 1 \in 1 .. w /\ q + (1 - 1) = q  BY <2>4
        <5>2. At(g, q) = cells[1]  BY <3>5, <5>1
        <5> QED BY <5>2, NewNodeLemma DEF cells
      <4>2. ASSUME NEW i \in 1 .. Len(NameCells(name)) PROVE At(g, q + i) = NameCells(name)[i]
        <5>1. 1 + i \in 1 .. w /\ q + ((1 + i) - 1) = q + i  BY <2>4
        <5>2. At(g, q + i) = cells[1 + i]  BY <3>5, <5>1
        <5> QED BY <5>2, NewNodeLemma DEF cells
      <4> QED BY <3>4, <4>1, <4>2 DEF NameHere
    <3>7. At(g, n).tag = "end_node"
      <4>1. w \in 1 .. w /\ q + (w - 1) = n  BY <2>4, <3>2, <3>4
      <4>2. At(g, n) = cells[w]  BY <3>5, <4>1
      <4>3. cells[Len(NameCells(name)) + 2].tag = "end_node"  BY NewNodeLemma DEF cells
      <4> QED BY <2>4, <4>2, <4>3
    <3>8. Fine(g)  BY <1>1, <3>1, AddSubnodeFine DEF r
    <3>9. g \in Blobs /\ g.magic = "FDT" /\ g.version = 17  BY <3>3 DEF Inserted
    <3>10. PICK k2 \in Nat, e2 \in Nat : Holds(g, k2, e2)  BY <3>8, <3>9 DEF Fine
    <3>11. q + 1 < n /\ NoEnd(g, q, n) /\ Net(g, q, n) = 1  BY <3>6, NameHereMeans
    <3>12. NoEnd(g, q, z) /\ Net(g, q, z) = Net(b, q, q)
      <4>1. NoEnd(g, q, z)
        <5>1. \A x \in q .. z - 1 : x = n \/ x \in q .. n - 1  BY <3>4
        <5> QED BY <3>7, <3>11, <5>1 DEF NoEnd
      <4>2. Net(g, q, n + 1) = Net(g, q, n) + Net(g, n, n + 1)  BY <3>11, NetJoin
      <4>3. Net(g, n, n + 1) = -1  BY <3>7, NetOne
      <4>4. Net(b, q, q) = 0  BY NetEmpty
      <4> QED BY <3>4, <3>11, <4>1, <4>2, <4>3, <4>4
    <3>13. Edited(b, k, e, g, k2, e2, q, q, z)
      <4>1. SplicedTo(b, g, q, q, q, w, z)
        <5>1. q \in 0 .. q  OBVIOUS
        <5> QED BY <3>3, <5>1 DEF Inserted, w
      <4>2. Run(b.mem, b.off_dt_struct, b.off_dt_struct + q)
        <5>1. q \in 0 .. e - 1 /\ At(b, q).tag \in Opens  BY <2>2 DEF Edges, Opens
        <5> QED BY <1>1, <5>1, TagAt
      <4>3. q <= q  OBVIOUS
      <4> QED BY ONLY <1>1, <1>5, <2>4, <2>5, <3>2, <3>9, <3>10, <3>12, <4>1, <4>2, <4>3, SpliceEdit,
                      b.magic = "FDT", k \in Nat, e \in Nat, q \in Nat, k2 \in Nat, e2 \in Nat
    <3>14. NodeNew(b, k, e, g, k2, o, q, n, name)
      <4>1. EditOf(b, k, e, g, k2, q, q, n + 1)  BY <3>4, <3>13 DEF Edited
      <4> QED BY <1>5, <2>2, <3>6, <3>7, <4>1 DEF NodeNew
    <3>15. Shaped(g, e2)
      <4>1. Shaped(g, e + (z - q))  BY <3>4, <3>10, <3>14, NewShaped
      <4> QED BY <3>13, <4>1 DEF Edited
    <3>16. InReach(g, e2)  BY <3>9, <3>10, ReachOfSize
    <3>17. TreeOf(g) = WithChild(b, o, name)  BY <3>4, <3>10, <3>14, NewTreeIs
    <3>18. Becomes(b, g, TreeOf(g))  BY <3>10, <3>13, <3>15, <3>16, EditedDecoded
    <3> QED BY <1>5, <3>1, <3>17, <3>18 DEF AddOutcome, r
  <2> QED BY <2>6, <2>7
<1> HIDE DEF found
<1>6. \/ o \notin Nodes(b) /\ found = BADOFFSET
      \/ o \in Nodes(b) /\ ChildNamed(b, o, name) /\ found >= 0
      \/ o \in Nodes(b) /\ ~ChildNamed(b, o, name) /\ found = NOTFOUND
      \/ RwCheckHeader(b) # 0
  BY SubnodeFound DEF found
<1> QED BY <1>2, <1>3, <1>4, <1>5, <1>6

-----------------------------------------------------------------------------
\* Blobs moved, repacked and restated.

\* What a call on the whole blob leaves: the same tree, these regions.
Rewritten(b, g, rsv, w) ==
  /\ Good(g) /\ Decoded(g).tree = Decoded(b).tree
  /\ Decoded(g).reserved = rsv /\ Decoded(g).writable = w

\* A blob whose structure and strings lie elsewhere, cell for cell the same, reads as
\* the same tree.
LEMMA MovedReads ==
  ASSUME NEW b, NEW k \in Nat, NEW e \in Nat, Whole(b, k, e), b.magic = "FDT",
         NEW g \in Blobs, NEW k2 \in Nat, Holds(g, k2, e), g.magic = "FDT", g.version = 17,
         SameCells(b, e, g), Keeps(b, g)
  PROVE  Rewritten(b, g, ReservedOf(g, k2), RwCheckHeader(g) = 0)
<1>1. b \in Blobs /\ Holds(b, k, e)  BY DEF Whole
<1>2. Shaped(g, e) /\ TreeOf(g) = TreeOf(b)  BY CellsSame
<1>3. InReach(g, e)  BY ReachOfSize
<1>4. Whole(g, k2, e)  BY <1>2, <1>3 DEF Whole
<1>5. g.version >= 16  OBVIOUS
<1>6. Good(g)  BY <1>4, <1>5 DEF Good
<1>7. Decoded(b).tree = TreeOf(b)  BY <1>1, DecodedIs
<1>8. /\ Decoded(g).tree = TreeOf(g) /\ Decoded(g).reserved = ReservedOf(g, k2)
      /\ Decoded(g).writable = (RwCheckHeader(g) = 0)
  BY DecodedIs
<1> QED BY <1>2, <1>6, <1>7, <1>8 DEF Rewritten

\* Strings that lie elsewhere, byte for byte the same.
SameStrings(b, g, s, t, n) ==
  /\ b.off_dt_strings = s /\ g.off_dt_strings = t
  /\ b.size_dt_strings = n /\ g.size_dt_strings = n
  /\ \A i \in 0 .. n - 1 : g.mem[t + i] = b.mem[s + i]

\* Strings copied cell for cell are kept.
LEMMA StringsKept ==
  ASSUME NEW b, NEW g, NEW s \in Nat, NEW t \in Nat, NEW n \in Nat, SameStrings(b, g, s, t, n)
  PROVE  Keeps(b, g)
<1> SUFFICES ASSUME NEW x, NEW m \in Seq(Nat \ {0}),
                    IsString(b.mem, b.off_dt_strings, b.size_dt_strings, x, m)
             PROVE  IsString(g.mem, g.off_dt_strings, g.size_dt_strings, x, m)
  BY DEF Keeps
<1> PICK d \in Int : d = t - s  OBVIOUS
<1>1. /\ b.off_dt_strings = s /\ g.off_dt_strings = t
      /\ b.size_dt_strings = n /\ g.size_dt_strings = n
      /\ \A i \in 0 .. n - 1 : g.mem[t + i] = b.mem[s + i]
  BY DEF SameStrings
<1>2. ASSUME NEW q \in s .. s + n - 1
      PROVE  g.mem[q + d] = b.mem[q]
  <2> PICK i : i = q - s  OBVIOUS
  <2>1. i \in 0 .. n - 1 /\ t + i = q + d /\ s + i = q  OBVIOUS
  <2>2. g.mem[t + i] = b.mem[s + i]  BY <1>1, <2>1
  <2> QED BY <2>1, <2>2
<1>3. IsString(b.mem, s, n, x, m)  BY <1>1
<1>4. m \in Seq(Nat)
  <2>1. Nat \ {0} \subseteq Nat  OBVIOUS
  <2>2. Len(m) \in Nat /\ m \in [1 .. Len(m) -> Nat \ {0}]  OBVIOUS
  <2>3. m \in [1 .. Len(m) -> Nat]  BY <2>2
  <2> QED BY <2>2, <2>3, SeqDef
<1>5. IsString(g.mem, s + d, n, x, m)  BY <1>2, <1>3, <1>4, IsStringMoved
<1>6. s + d = t  OBVIOUS
<1> QED BY <1>1, <1>5, <1>6

\* Repacked, or restated in place, a blob reads as before and may be written.
LEMMA RepackedReads ==
  ASSUME NEW b, NEW k \in Nat, NEW e \in Nat, Whole(b, k, e), b.magic = "FDT",
         NEW g, Repacked(b, k, e, g)
  PROVE  Rewritten(b, g, ReservedOf(b, k), TRUE)
<1>1. b \in Blobs /\ Holds(b, k, e)  BY DEF Whole
<1>2. /\ g \in Blobs /\ g.magic = "FDT" /\ g.version = 17
      /\ g.off_mem_rsvmap = RsvStart /\ g.off_dt_struct = RsvStart + (k + 1)
      /\ g.size_dt_struct = e + 1 /\ g.off_dt_strings = RsvStart + (k + 1) + (e + 1)
      /\ g.size_dt_strings = b.size_dt_strings
      /\ RsvStart + (k + 1) + (e + 1) + b.size_dt_strings <= g.totalsize
      /\ Copied(b, k, e, g.mem, RsvStart)
  BY DEF Repacked
<1>3. Holds(g, k, e)  BY <1>1, PackedHolds
<1>4. /\ RsvStart \in Nat /\ b.size_dt_strings \in Nat /\ b.off_dt_strings \in Nat
      /\ b.off_dt_struct \in Nat /\ g.totalsize \in Nat
  <2>1. b.size_dt_strings \in Nat /\ b.off_dt_strings \in Nat /\ b.off_dt_struct \in Nat
    BY <1>1, BlobFields
  <2>2. g.totalsize \in 0 .. MaxSize /\ MaxSize \in Nat  BY <1>2, BlobFields, FdtRwAssumption
  <2>3. RsvStart \in Nat  BY FdtRwAssumption
  <2> QED BY <2>1, <2>2, <2>3
<1>5. SameCells(b, e, g)
  <2> SUFFICES ASSUME NEW q \in 0 .. e PROVE At(g, q) = At(b, q)
    BY DEF SameCells
  <2>1. g.mem[RsvStart + k + 1 + q] = b.mem[b.off_dt_struct + q]  BY <1>2 DEF Copied
  <2>2. RsvStart + k + 1 + q = RsvStart + (k + 1) + q  BY <1>4
  <2> QED BY <1>2, <2>1, <2>2 DEF At
<1>6. Keeps(b, g)
  <2> DEFINE t == RsvStart + (k + 1) + (e + 1)
             s == b.off_dt_strings
             n == b.size_dt_strings
  <2>1. t \in Nat /\ s \in Nat /\ n \in Nat  BY <1>4
  <2>2. SameStrings(b, g, s, t, n)
    <3>1. ASSUME NEW i \in 0 .. n - 1
          PROVE  g.mem[t + i] = b.mem[s + i]
      <4>1. g.mem[RsvStart + k + 1 + (e + 1) + i] = b.mem[b.off_dt_strings + i]  BY <1>2 DEF Copied
      <4>2. RsvStart + k + 1 + (e + 1) + i = t + i  BY <1>4
      <4> QED BY <4>1, <4>2
    <3>2. g.off_dt_strings = t /\ g.size_dt_strings = n  BY <1>2
    <3> QED BY <3>1, <3>2 DEF SameStrings
  <2> HIDE DEF s, t, n
  <2> QED BY <2>1, <2>2, StringsKept
<1>7. Rewritten(b, g, ReservedOf(g, k), RwCheckHeader(g) = 0)
  BY <1>2, <1>3, <1>5, <1>6, MovedReads
<1>8. ReservedOf(g, k) = ReservedOf(b, k)
  <2>1. ASSUME NEW i \in 1 .. k
        PROVE  g.mem[g.off_mem_rsvmap + (i - 1)].x = b.mem[b.off_mem_rsvmap + (i - 1)].x
    <3>1. i - 1 \in 0 .. k  OBVIOUS
    <3>2. g.mem[RsvStart + (i - 1)] = b.mem[b.off_mem_rsvmap + (i - 1)]
      BY <1>2, <3>1 DEF Copied
    <3> QED BY <1>2, <3>2
  <2> QED BY <2>1 DEF ReservedOf
<1>9. RwCheckHeader(g) = 0
  <2>1. ~Misordered(g, 1, g.size_dt_struct)
    <3> DEFINE r == RsvStart
               sl == b.size_dt_strings
               ts == g.totalsize
    <3>1. r \in Nat /\ sl \in Nat /\ ts \in Nat /\ r + (k + 1) + (e + 1) + sl <= ts  BY <1>2, <1>4
    <3>2. ~(r < r) /\ ~(r + (k + 1) < r + 1) /\ ~(r + (k + 1) + (e + 1) < r + (k + 1) + (e + 1))
          /\ ~(ts < r + (k + 1) + (e + 1) + sl)
      <4> HIDE DEF r, sl, ts
      <4> QED BY <3>1
    <3> QED BY <1>2, <3>2 DEF Misordered
  <2> QED BY <1>2, <2>1, WritableIf
<1>10. (RwCheckHeader(g) = 0) = TRUE  BY <1>9
<1> QED BY <1>7, <1>8, <1>10

\* A header rewritten around the same blocks reads the same.
LEMMA RestatedReads ==
  ASSUME NEW b, NEW k \in Nat, NEW e \in Nat, Whole(b, k, e), b.magic = "FDT",
         NEW g, Restated(b, k, e, g)
  PROVE  Rewritten(b, g, ReservedOf(b, k), TRUE)
<1>1. b \in Blobs /\ Holds(b, k, e)  BY DEF Whole
<1>2. /\ g \in Blobs /\ Holds(g, k, e) /\ g.magic = "FDT" /\ g.version = 17 /\ g.mem = b.mem
      /\ g.off_mem_rsvmap = b.off_mem_rsvmap /\ g.off_dt_struct = b.off_dt_struct
      /\ g.off_dt_strings = b.off_dt_strings /\ g.size_dt_strings = b.size_dt_strings
      /\ g.size_dt_struct = e + 1 /\ b.totalsize <= g.totalsize /\ ~Misordered(b, k + 1, e + 1)
  BY DEF Restated
<1>3. SameCells(b, e, g)  BY <1>2 DEF SameCells, At
<1>4. Keeps(b, g)  BY <1>2 DEF Keeps
<1>5. Rewritten(b, g, ReservedOf(g, k), RwCheckHeader(g) = 0)
  BY <1>2, <1>3, <1>4, MovedReads
<1>6. ReservedOf(g, k) = ReservedOf(b, k)  BY <1>2 DEF ReservedOf
<1>7. RwCheckHeader(g) = 0
  <2> DEFINE rsv == b.off_mem_rsvmap
             st == b.off_dt_struct
             str == b.off_dt_strings
             sl == b.size_dt_strings
             ts == b.totalsize
             gs == g.totalsize
  <2>1. /\ ~(rsv < RsvStart) /\ ~(st < rsv + (k + 1)) /\ ~(str < st + (e + 1))
        /\ ~(ts < str + sl) /\ ts <= gs
    BY <1>2 DEF Misordered
  <2>2. rsv \in Nat /\ st \in Nat /\ str \in Nat /\ sl \in Nat /\ ts \in Nat /\ gs \in Nat
    <3>1. rsv \in Nat /\ st \in Nat /\ str \in Nat /\ sl \in Nat  BY <1>1, BlobFields
    <3>2. ts \in 0 .. MaxSize /\ gs \in 0 .. MaxSize /\ MaxSize \in Nat
      BY <1>1, <1>2, BlobFields, FdtRwAssumption
    <3> QED BY <3>1, <3>2
  <2>3. ~(st < rsv + 1) /\ ~(gs < str + sl)
    <3> HIDE DEF rsv, st, str, sl, ts, gs
    <3> QED BY <2>1, <2>2
  <2>4. ~Misordered(g, 1, g.size_dt_struct)  BY <1>2, <2>1, <2>3 DEF Misordered
  <2> QED BY <1>2, <2>4, WritableIf
<1>8. (RwCheckHeader(g) = 0) = TRUE  BY <1>7
<1> QED BY <1>5, <1>6, <1>8

\* A splice of the reserve map fails only for want of room.
LEMMA RsvSpliceErr ==
  ASSUME NEW b \in Blobs, NEW k \in Nat, NEW e \in Nat, Holds(b, k, e), RwCheckHeader(b) = 0,
         NEW i \in Nat, NEW oldn \in Nat, NEW newn \in Nat, i + oldn <= k + 1
  PROVE  SpliceErr(b, oldn, newn, SpliceMemRsv(b, b.off_mem_rsvmap + i, oldn, newn))
<1> DEFINE p == b.off_mem_rsvmap + i
           r == Splice(b, p, oldn, newn)
<1>1. /\ b.off_mem_rsvmap + k + 1 <= b.off_dt_struct
      /\ b.off_dt_struct + e + 1 <= b.off_dt_strings /\ b.off_dt_strings <= DataSize(b)
      /\ DataSize(b) \in Nat /\ DataSize(b) <= b.totalsize
  BY RsvRoom
<1>2. /\ b.off_dt_struct \in Nat /\ b.off_dt_strings \in Nat /\ b.off_mem_rsvmap \in Nat
      /\ b.totalsize \in 0 .. MaxSize /\ MaxSize \in Nat
  BY BlobFields, FdtRwAssumption
<1>3. p \in Nat /\ p + oldn <= DataSize(b)  BY <1>1, <1>2
<1>4. ~(p + oldn > DataSize(b)) /\ ~(DataSize(b) - oldn + newn < 0)  BY <1>1, <1>3
<1>5. CASE DataSize(b) - oldn + newn > b.totalsize
  <2>1. newn > oldn  BY <1>1, <1>2, <1>5
  <2>2. r = Fail(NOSPACE, b)  BY <1>4, <1>5 DEF Splice
  <2>3. r.err = NOSPACE /\ r.fdt = b /\ NOSPACE # 0  BY <2>2 DEF Fail, NOSPACE
  <2>4. SpliceMemRsv(b, p, oldn, newn) = r  BY <2>3 DEF SpliceMemRsv, AndThen
  <2> QED BY <2>1, <2>3, <2>4 DEF SpliceErr
<1>6. CASE ~(DataSize(b) - oldn + newn > b.totalsize)
  <2>1. r.err = 0  BY <1>4, <1>6 DEF Splice, Done
  <2>2. SpliceMemRsv(b, p, oldn, newn).err = 0  BY <2>1 DEF SpliceMemRsv, AndThen, Done
  <2> QED BY <2>2 DEF SpliceErr
<1> QED BY <1>5, <1>6

-----------------------------------------------------------------------------
\* The reserve map.

\* Moving the reserve map's end moves structure and strings, and changes neither.
LEMMA RsvEditedReads ==
  ASSUME NEW b, NEW k \in Nat, NEW e \in Nat, Whole(b, k, e), b.magic = "FDT",
         RwCheckHeader(b) = 0, NEW g, NEW d \in Int, RsvEdited(b, k, g, d),
         NEW k2, k2 = k + d
  PROVE  Rewritten(b, g, ReservedOf(g, k2), TRUE)
<1>1. b \in Blobs /\ Holds(b, k, e)  BY DEF Whole
<1>2. /\ g \in Blobs /\ k + d \in Nat /\ g.magic = "FDT"
      /\ g.version = b.version /\ g.totalsize = b.totalsize /\ g.off_mem_rsvmap = b.off_mem_rsvmap
      /\ g.off_dt_struct = b.off_dt_struct + d /\ g.off_dt_strings = b.off_dt_strings + d
      /\ g.size_dt_struct = b.size_dt_struct /\ g.size_dt_strings = b.size_dt_strings
      /\ DataSize(b) + d <= b.totalsize
      /\ RsvMap(g.mem, b.off_mem_rsvmap, k + d)
      /\ \A q \in b.off_mem_rsvmap + k + 1 .. DataSize(b) - 1 : g.mem[q + d] = b.mem[q]
  BY DEF RsvEdited
<1>3. Holds(g, k2, e)  BY <1>1, RsvEdit
<1>4. /\ b.off_mem_rsvmap + k + 1 <= b.off_dt_struct
      /\ b.off_dt_struct + e + 1 <= b.off_dt_strings
      /\ b.size_dt_struct = e + 1 /\ DataSize(b) \in Nat /\ DataSize(b) <= b.totalsize
      /\ b.off_dt_strings <= DataSize(b) /\ DataSize(b) = b.off_dt_strings + b.size_dt_strings
  BY <1>1, RsvRoom
<1>5. /\ b.off_dt_struct \in Nat /\ b.off_dt_strings \in Nat /\ b.off_mem_rsvmap \in Nat
      /\ b.size_dt_strings \in Nat
  BY <1>1, BlobFields
<1>6. b.version = 17 /\ RsvStart <= b.off_mem_rsvmap  BY <1>1, Writable
<1>7. SameCells(b, e, g)
  <2> SUFFICES ASSUME NEW q \in 0 .. e PROVE At(g, q) = At(b, q)
    BY DEF SameCells
  <2> PICK p : p = b.off_dt_struct + q  OBVIOUS
  <2>1. p \in b.off_mem_rsvmap + k + 1 .. DataSize(b) - 1  BY <1>4, <1>5
  <2>2. g.mem[p + d] = b.mem[p]  BY <1>2, <2>1
  <2>3. p + d = g.off_dt_struct + q  BY <1>2, <1>5
  <2> QED BY <2>2, <2>3 DEF At
<1>8. Keeps(b, g)
  <2> DEFINE s == b.off_dt_strings
             t == s + d
             n == b.size_dt_strings
  <2>1. s \in Nat /\ n \in Nat  BY <1>5
  <2>2. t \in Nat
    <3>1. g.off_dt_strings \in Nat  BY <1>2, BlobFields
    <3> QED BY <1>2, <3>1
  <2>3. SameStrings(b, g, s, t, n)
    <3>1. ASSUME NEW i \in 0 .. n - 1
          PROVE  g.mem[t + i] = b.mem[s + i]
      <4> PICK p : p = b.off_dt_strings + i  OBVIOUS
      <4>1. p \in b.off_mem_rsvmap + k + 1 .. DataSize(b) - 1  BY <1>4, <1>5
      <4>2. g.mem[p + d] = b.mem[p]  BY <1>2, <4>1
      <4>3. p + d = t + i  BY <1>5
      <4> QED BY <4>2, <4>3
    <3>2. g.off_dt_strings = t /\ g.size_dt_strings = n  BY <1>2
    <3> QED BY <3>1, <3>2 DEF SameStrings
  <2> HIDE DEF s, t, n
  <2> QED BY <2>1, <2>2, <2>3, StringsKept
<1>9. k2 \in Nat  BY <1>2
<1>10. g.version = 17  BY <1>2, <1>6
<1>11. Rewritten(b, g, ReservedOf(g, k2), RwCheckHeader(g) = 0)
  BY <1>2, <1>3, <1>7, <1>8, <1>9, <1>10, MovedReads
<1>12. RwCheckHeader(g) = 0
  <2> DEFINE rsv == b.off_mem_rsvmap
             st == b.off_dt_struct
             str == b.off_dt_strings
             sl == b.size_dt_strings
             ts == b.totalsize
  <2>1. /\ rsv + k + 1 <= st /\ st + e + 1 <= str /\ RsvStart <= rsv
        /\ (str + sl) + d <= ts
    BY <1>2, <1>4, <1>6
  <2>2. rsv \in Nat /\ st \in Nat /\ str \in Nat /\ sl \in Nat /\ ts \in Nat
    <3>1. ts \in 0 .. MaxSize /\ MaxSize \in Nat  BY <1>1, BlobFields, FdtRwAssumption
    <3> QED BY <1>5, <3>1
  <2>3. ~(rsv < RsvStart) /\ ~(st + d < rsv + 1) /\ ~(str + d < st + d + (e + 1))
        /\ ~(ts < str + d + sl)
    <3>1. k + d \in Nat  BY <1>2
    <3>2. RsvStart \in Nat  BY FdtRwAssumption
    <3> HIDE DEF rsv, st, str, sl, ts
    <3> QED BY <2>1, <2>2, <3>1, <3>2
  <2>4. ~Misordered(g, 1, g.size_dt_struct)  BY <1>2, <1>4, <2>3 DEF Misordered
  <2> QED BY <1>2, <1>10, <2>4, WritableIf
<1>13. (RwCheckHeader(g) = 0) = TRUE  BY <1>12
<1> QED BY <1>11, <1>13

Joined(s, t, n) == [i \in 1 .. n |-> IF i <= Len(s) THEN s[i] ELSE t[i - Len(s)]]
Removed(s, n, k) == [i \in 1 .. k |-> IF i < n + 1 THEN s[i] ELSE s[i + 1]]

\* A list joined, element by element.
LEMMA JoinIs ==
  ASSUME NEW V, NEW s \in Seq(V), NEW t \in Seq(V), NEW n, n = Len(s) + Len(t)
  PROVE  s \o t = Joined(s, t, n)
<1>1. /\ s \o t \in Seq(V) /\ Len(s \o t) = n
      /\ \A i \in 1 .. n : (s \o t)[i] = IF i <= Len(s) THEN s[i] ELSE t[i - Len(s)]
  BY Concat
<1> PICK x : x = s \o t  OBVIOUS
<1>2. x \in Seq(V) /\ Len(x) = n  BY <1>1
<1>3. x = [i \in 1 .. n |-> x[i]]
  <2>1. x \in [1 .. n -> V]  BY <1>2, LenProperties
  <2> QED BY <2>1
<1>4. [i \in 1 .. n |-> x[i]] = [i \in 1 .. n |-> IF i <= Len(s) THEN s[i] ELSE t[i - Len(s)]]
  BY <1>1
<1> QED BY <1>3, <1>4 DEF Joined

\* A list with one element less, element by element.
LEMMA RemoveIs ==
  ASSUME NEW V, NEW s \in Seq(V), NEW n \in Nat, NEW k \in Nat, k = Len(s), n < k,
         NEW k2 \in Nat, k2 = k - 1
  PROVE  RemoveAt(s, n + 1) = Removed(s, n, k2)
<1> PICK v : v = SubSeq(s, 1, n)  OBVIOUS
<1> PICK a \in Int : a = n + 2  OBVIOUS
<1> PICK w : w = SubSeq(s, a, k)  OBVIOUS
<1>0. \A i \in 1 .. k : s[i] \in V  BY ElementOfSeq
<1>1. v \in Seq(V) /\ Len(v) = n /\ \A i \in 1 .. n : v[i] = s[i]
  <2>1. \A i \in 1 .. n : s[i] \in V
    <3>1. \A i \in 1 .. n : i \in 1 .. k  OBVIOUS
    <3> QED BY <1>0, <3>1
  <2>2. 1 \in Int /\ n \in Int  OBVIOUS
  <2>3. /\ SubSeq(s, 1, n) \in Seq(V)
        /\ Len(SubSeq(s, 1, n)) = IF 1 <= n THEN n - 1 + 1 ELSE 0
        /\ \A i \in 1 .. n - 1 + 1 : SubSeq(s, 1, n)[i] = s[1 + i - 1]
    BY <2>1, <2>2, SubSeqProperties
  <2>4. (IF 1 <= n THEN n - 1 + 1 ELSE 0) = n /\ n - 1 + 1 = n  OBVIOUS
  <2>5. \A i \in 1 .. n : 1 + i - 1 = i  OBVIOUS
  <2> QED BY <2>3, <2>4, <2>5
<1>2. w \in Seq(V) /\ Len(w) = k2 - n /\ \A i \in 1 .. k2 - n : w[i] = s[i + (n + 1)]
  <2>1. \A i \in a .. k : s[i] \in V
    <3>1. \A i \in a .. k : i \in 1 .. k  OBVIOUS
    <3> QED BY <1>0, <3>1
  <2>2. k \in Int  OBVIOUS
  <2>3. /\ SubSeq(s, a, k) \in Seq(V)
        /\ Len(SubSeq(s, a, k)) = IF a <= k THEN k - a + 1 ELSE 0
        /\ \A i \in 1 .. k - a + 1 : SubSeq(s, a, k)[i] = s[a + i - 1]
    BY <2>1, <2>2, SubSeqProperties
  <2>4. (IF a <= k THEN k - a + 1 ELSE 0) = k2 - n /\ k - a + 1 = k2 - n  OBVIOUS
  <2>5. \A i \in 1 .. k2 - n : a + i - 1 = i + (n + 1)  OBVIOUS
  <2> QED BY <2>3, <2>4, <2>5
<1>3. RemoveAt(s, n + 1) = v \o w
  <2>1. (n + 1) - 1 = n /\ (n + 1) + 1 = a  OBVIOUS
  <2> QED BY <2>1 DEF RemoveAt
<1>4. v \o w = Joined(v, w, k2)
  <2>0. Len(v) = n /\ Len(w) = k2 - n  BY <1>1, <1>2
  <2>1. n + (k2 - n) = k2  OBVIOUS
  <2>2. k2 = Len(v) + Len(w)  BY <2>0, <2>1
  <2>3. v \in Seq(V) /\ w \in Seq(V)  BY <1>1, <1>2
  <2> QED BY <2>2, <2>3, JoinIs
<1>5. ASSUME NEW i \in 1 .. k2
      PROVE  (IF i <= n THEN v[i] ELSE w[i - n]) = IF i < n + 1 THEN s[i] ELSE s[i + 1]
  <2>1. CASE i <= n
    <3>1. i \in 1 .. n /\ i < n + 1  BY <2>1
    <3> QED BY <1>1, <2>1, <3>1
  <2>2. CASE ~(i <= n)
    <3>1. i - n \in 1 .. k2 - n /\ ~(i < n + 1) /\ (i - n) + (n + 1) = i + 1  BY <2>2
    <3>2. w[i - n] = s[(i - n) + (n + 1)]  BY <1>2, <3>1
    <3> QED BY <2>2, <3>1, <3>2
  <2> QED BY <2>1, <2>2
<1>6. Joined(v, w, k2) = Removed(s, n, k2)
  <2>1. Len(v) = n  BY <1>1
  <2> QED BY <1>5, <2>1 DEF Joined, Removed
<1> QED BY <1>3, <1>4, <1>6

AddRsvOutcome(b, region, r) ==
  \/ NotWritten(b, r)
  \/ RwCheckHeader(b) = 0 /\ r.err = NOSPACE /\ r.fdt = b
  \/ /\ RwCheckHeader(b) = 0 /\ r.err = 0
     /\ Rewritten(b, r.fdt, Decoded(b).reserved \o <<region>>, TRUE)

\* fdt_add_mem_rsv adds the region at the end, or changes nothing.
LEMMA AddRsvDoes ==
  ASSUME NEW b, NEW k \in Nat, NEW e \in Nat, Whole(b, k, e), b.magic = "FDT",
         NEW region \in Nat \ {0}
  PROVE  AddRsvOutcome(b, region, AddMemRsv(b, region))
<1> DEFINE r == AddMemRsv(b, region)
           g == r.fdt
<1>1. b \in Blobs /\ Holds(b, k, e)  BY DEF Whole
<1>2. RsvAdded(b, k, region, r)  BY <1>1, AddMemRsvIs
<1>3. b.off_mem_rsvmap \in Nat  BY <1>1, BlobFields
<1> HIDE DEF r
<1>4. CASE RwCheckHeader(b) # 0
  BY <1>2, <1>4 DEF RsvAdded, AddRsvOutcome, NotWritten, r
<1>5. CASE RwCheckHeader(b) = 0 /\ r.err # 0
  <2>1. r.fdt = b /\ r = SpliceMemRsv(b, b.off_mem_rsvmap + k, 0, 1)
    BY <1>2, <1>5 DEF RsvAdded
  <2>2. SpliceErr(b, 0, 1, SpliceMemRsv(b, b.off_mem_rsvmap + k, 0, 1))
    <3>1. k + 0 <= k + 1 /\ 0 \in Nat /\ 1 \in Nat  OBVIOUS
    <3> QED BY <1>1, <1>5, <3>1, RsvSpliceErr
  <2>3. r.err = NOSPACE  BY <1>5, <2>1, <2>2 DEF SpliceErr
  <2> QED BY <1>5, <2>1, <2>3 DEF AddRsvOutcome, r
<1>6. CASE RwCheckHeader(b) = 0 /\ r.err = 0
  <2>1. /\ RsvEdited(b, k, g, 1)
        /\ \A q \in Nat : q < b.off_mem_rsvmap + k => g.mem[q] = b.mem[q]
        /\ g.mem[b.off_mem_rsvmap + k].x = region
    BY <1>2, <1>6 DEF RsvAdded
  <2> PICK k2 : k2 = k + 1  OBVIOUS
  <2>2. Rewritten(b, g, ReservedOf(g, k2), TRUE)
    <3> HIDE DEF g
    <3>1. 1 \in Int  OBVIOUS
    <3> QED BY <1>6, <2>1, <3>1, RsvEditedReads
  <2>3. g.off_mem_rsvmap = b.off_mem_rsvmap  BY <2>1 DEF RsvEdited
  <2>4. Decoded(b).reserved = ReservedOf(b, k)  BY <1>1, DecodedIs
  <2>5. ReservedOf(g, k2) = ReservedOf(b, k) \o <<region>>
    <3> DEFINE m == b.off_mem_rsvmap
               s == ReservedOf(b, k)
               u == ReservedOf(g, k2)
    <3>1. \A i \in 1 .. k : u[i] = s[i]
      <4> SUFFICES ASSUME NEW i \in 1 .. k PROVE u[i] = s[i]
        OBVIOUS
      <4>1. i \in 1 .. k2 /\ m + (i - 1) \in Nat /\ m + (i - 1) < m + k  BY <1>3
      <4>2. g.mem[m + (i - 1)] = b.mem[m + (i - 1)]  BY <2>1, <4>1
      <4> QED BY <2>3, <4>1, <4>2 DEF ReservedOf
    <3>2. u[k2] = region
      <4>1. k2 \in 1 .. k2 /\ m + (k2 - 1) = m + k  BY <1>3
      <4> QED BY <2>1, <2>3, <4>1 DEF ReservedOf
    <3>3. u = [i \in 1 .. k2 |-> u[i]] /\ DOMAIN s = 1 .. k  BY DEF ReservedOf
    <3>4. s = [i \in 1 .. k |-> s[i]]  BY DEF ReservedOf
    <3> HIDE DEF s, u
    <3>5. Len(s) = k  BY <3>4
    <3>6. s \o <<region>> = [i \in 1 .. k2 |-> u[i]]
      <4>0. k2 = Len(s) + Len(<<region>>)  BY <3>5
      <4>1. s \o <<region>> = Joined(s, <<region>>, k2)
        <5>1. PICK V : V = {s[i] : i \in 1 .. k} \cup {region}  OBVIOUS
        <5>2. s \in [1 .. k -> V]  BY <3>4, <5>1
        <5>3. s \in Seq(V)  BY <5>2, FunSeq
        <5>4. <<region>> \in Seq(V)
          <6>1. region \in V  BY <5>1
          <6> QED BY <6>1
        <5> QED BY <4>0, <5>3, <5>4, JoinIs
      <4>2. Len(<<region>>) = 1  OBVIOUS
      <4>3. ASSUME NEW i \in 1 .. k2
            PROVE  (IF i <= k THEN s[i] ELSE <<region>>[i - k]) = u[i]
        <5>1. CASE i <= k
          <6>1. i \in 1 .. k  BY <5>1
          <6> QED BY <3>1, <5>1, <6>1
        <5>2. CASE ~(i <= k)
          <6>1. i = k2 /\ i - k = 1  BY <5>2
          <6> QED BY <3>2, <5>2, <6>1
        <5> QED BY <5>1, <5>2
      <4> QED BY <3>5, <4>1, <4>3 DEF Joined
    <3> QED BY <3>3, <3>6 DEF s, u
  <2> QED BY <1>6, <2>2, <2>4, <2>5 DEF AddRsvOutcome, r
<1> QED BY <1>4, <1>5, <1>6 DEF r

DelRsvOutcome(b, n, r) ==
  \/ NotWritten(b, r)
  \/ RwCheckHeader(b) = 0 /\ n >= Len(Decoded(b).reserved) /\ r = Fail(NOTFOUND, b)
  \/ /\ RwCheckHeader(b) = 0 /\ n < Len(Decoded(b).reserved) /\ r.err = 0
     /\ Rewritten(b, r.fdt, RemoveAt(Decoded(b).reserved, n + 1), TRUE)

\* fdt_del_mem_rsv removes the region, or changes nothing.
LEMMA DelRsvDoes ==
  ASSUME NEW b, NEW k \in Nat, NEW e \in Nat, Whole(b, k, e), b.magic = "FDT", NEW n \in Nat
  PROVE  DelRsvOutcome(b, n, DelMemRsv(b, n))
<1> DEFINE r == DelMemRsv(b, n)
           g == r.fdt
           s == ReservedOf(b, k)
<1>1. b \in Blobs /\ Holds(b, k, e)  BY DEF Whole
<1>2. RsvDeleted(b, k, n, r)  BY <1>1, DelMemRsvIs
<1>3. b.off_mem_rsvmap \in Nat  BY <1>1, BlobFields
<1>4. Decoded(b).reserved = s  BY <1>1, DecodedIs
<1>5. s = [i \in 1 .. k |-> s[i]] /\ Len(s) = k /\ DOMAIN s = 1 .. k
  <2>1. s = [i \in 1 .. k |-> s[i]] /\ DOMAIN s = 1 .. k  BY DEF ReservedOf
  <2> HIDE DEF s
  <2> QED BY <2>1
<1> HIDE DEF r
<1>6. CASE RwCheckHeader(b) # 0
  BY <1>2, <1>6 DEF RsvDeleted, DelRsvOutcome, NotWritten, r
<1>7. CASE RwCheckHeader(b) = 0 /\ n >= k
  <2>1. ~(n < k)  BY <1>7
  <2>2. r = Fail(NOTFOUND, b)  BY <1>2, <1>7, <2>1 DEF RsvDeleted
  <2> QED BY <1>4, <1>5, <1>7, <2>2 DEF DelRsvOutcome, r
<1>8. CASE RwCheckHeader(b) = 0 /\ n < k /\ r.err # 0
  <2>1. ~(n >= k)  BY <1>8
  <2>2. r = SpliceMemRsv(b, b.off_mem_rsvmap + n, 1, 0)
    BY <1>2, <1>8, <2>1 DEF RsvDeleted
  <2>3. SpliceErr(b, 1, 0, SpliceMemRsv(b, b.off_mem_rsvmap + n, 1, 0))
    <3>1. n + 1 <= k + 1 /\ 0 \in Nat /\ 1 \in Nat  BY <1>8
    <3> QED BY <1>1, <1>8, <3>1, RsvSpliceErr
  <2>4. ~(0 > 1)  OBVIOUS
  <2>5. FALSE  BY <1>8, <2>2, <2>3, <2>4 DEF SpliceErr
  <2> QED BY <2>5
<1>9. CASE RwCheckHeader(b) = 0 /\ n < k /\ r.err = 0
  <2>0. ~(n >= k)  BY <1>9
  <2>1. /\ RsvEdited(b, k, g, -1)
        /\ \A q \in Memory : q < b.off_mem_rsvmap + n => g.mem[q] = b.mem[q]
        /\ \A j \in n + 1 .. k : g.mem[b.off_mem_rsvmap + j - 1] = b.mem[b.off_mem_rsvmap + j]
    BY <1>2, <1>9, <2>0 DEF RsvDeleted
  <2> PICK k2 \in Nat : k2 = k - 1  BY <1>9
  <2>2. Rewritten(b, g, ReservedOf(g, k2), TRUE)
    <3> HIDE DEF g
    <3>1. -1 \in Int /\ k2 = k + (-1)  OBVIOUS
    <3> QED BY <1>9, <2>1, <3>1, RsvEditedReads
  <2>3. g.off_mem_rsvmap = b.off_mem_rsvmap  BY <2>1 DEF RsvEdited
  <2>4. ReservedOf(g, k2) = RemoveAt(s, n + 1)
    <3> DEFINE m == b.off_mem_rsvmap
               u == ReservedOf(g, k2)
    <3>1. \A i \in 1 .. n : u[i] = s[i]
      <4> SUFFICES ASSUME NEW i \in 1 .. n PROVE u[i] = s[i]
        OBVIOUS
      <4>1. i \in 1 .. k2 /\ i \in 1 .. k /\ m + (i - 1) \in Nat /\ m + (i - 1) < m + n
            /\ m + (i - 1) < m + k + 1
        BY <1>3, <1>9
      <4>2. m + (i - 1) \in Memory
        <5>1. m + k + 1 <= b.totalsize  BY <1>1 DEF Holds
        <5>2. b.totalsize \in Nat
          <6>1. b.totalsize \in 0 .. MaxSize /\ MaxSize \in Nat  BY <1>1, BlobFields, FdtRwAssumption
          <6> QED BY <6>1
        <5> PICK q \in Nat : q = m + (i - 1)  BY <4>1
        <5>3. q < b.totalsize  BY <1>3, <4>1, <5>1, <5>2
        <5> QED BY <1>1, <5>3, MemoryCells
      <4>3. g.mem[m + (i - 1)] = b.mem[m + (i - 1)]  BY <2>1, <4>1, <4>2
      <4> QED BY <2>3, <4>1, <4>3 DEF ReservedOf
    <3>2. \A i \in n + 1 .. k2 : u[i] = s[i + 1]
      <4> SUFFICES ASSUME NEW i \in n + 1 .. k2 PROVE u[i] = s[i + 1]
        OBVIOUS
      <4>1. i \in n + 1 .. k /\ i \in 1 .. k2 /\ i + 1 \in 1 .. k  OBVIOUS
      <4>2. g.mem[m + i - 1] = b.mem[m + i]  BY <2>1, <4>1
      <4>3. m + (i - 1) = m + i - 1 /\ m + ((i + 1) - 1) = m + i  BY <1>3
      <4> QED BY <2>3, <4>1, <4>2, <4>3 DEF ReservedOf
    <3>3. u = [i \in 1 .. k2 |-> u[i]]  BY DEF ReservedOf
    <3> HIDE DEF s, u
    <3>4. RemoveAt(s, n + 1) = Removed(s, n, k2)
      <4>1. PICK V : V = {s[i] : i \in 1 .. k}  OBVIOUS
      <4>2. s \in [1 .. k -> V]  BY <1>5, <4>1
      <4>3. s \in Seq(V)  BY <4>2, FunSeq
      <4> QED BY <1>5, <1>9, <4>3, RemoveIs
    <3>5. \A i \in 1 .. k2 : u[i] = IF i < n + 1 THEN s[i] ELSE s[i + 1]
      <4> SUFFICES ASSUME NEW i \in 1 .. k2
                   PROVE  u[i] = IF i < n + 1 THEN s[i] ELSE s[i + 1]
        OBVIOUS
      <4>1. CASE i < n + 1
        <5>1. i \in 1 .. n  BY <4>1
        <5> QED BY <3>1, <4>1, <5>1
      <4>2. CASE ~(i < n + 1)
        <5>1. i \in n + 1 .. k2  BY <4>2
        <5> QED BY <3>2, <4>2, <5>1
      <4> QED BY <4>1, <4>2
    <3>6. u = RemoveAt(s, n + 1)  BY <3>3, <3>4, <3>5 DEF Removed
    <3> QED BY <3>6 DEF s, u
  <2> QED BY <1>4, <1>5, <1>9, <2>2, <2>4 DEF DelRsvOutcome, r
<1> QED BY <1>6, <1>7, <1>8, <1>9 DEF r

-----------------------------------------------------------------------------
\* The calls on the whole blob.

OpenOutcome(b, r) ==
  \/ r.err = NOSPACE /\ r.fdt = b
  \/ r.err = 0 /\ Rewritten(b, r.fdt, Decoded(b).reserved, TRUE)

\* fdt_open_into makes the blob writable and changes nothing that is read.
LEMMA OpenDoes ==
  ASSUME NEW b, NEW k \in Nat, NEW e \in Nat, Whole(b, k, e), b.magic = "FDT", b.version >= 16,
         NEW bufsize \in 1 .. MaxSize, NEW inplace \in BOOLEAN
  PROVE  OpenOutcome(b, OpenInto(b, bufsize, inplace))
<1> DEFINE r == OpenInto(b, bufsize, inplace)
<1>1. b \in Blobs /\ Holds(b, k, e)  BY DEF Whole
<1>2. OpenedOr(b, k, e, r)  BY <1>1, OpenIntoIs
<1> HIDE DEF r
<1>3. CheckHeader(b) = 0
  <2>1. b.version \in {16, 17}  BY <1>1, BlobFields
  <2>2. ~(b.version < 16)  BY <2>1
  <2> QED BY <2>2 DEF CheckHeader
<1>4. Decoded(b).reserved = ReservedOf(b, k)  BY <1>1, DecodedIs
<1>5. CASE r.err = NOSPACE /\ r.fdt = b  BY <1>5 DEF OpenOutcome, r
<1>6. CASE r.err = 0 /\ Restated(b, k, e, r.fdt)
  <2>1. Rewritten(b, r.fdt, ReservedOf(b, k), TRUE)  BY <1>6, RestatedReads
  <2> QED BY <1>4, <1>6, <2>1 DEF OpenOutcome, r
<1>7. CASE r.err = 0 /\ Repacked(b, k, e, r.fdt)
  <2>1. Rewritten(b, r.fdt, ReservedOf(b, k), TRUE)  BY <1>7, RepackedReads
  <2> QED BY <1>4, <1>7, <2>1 DEF OpenOutcome, r
<1> QED BY <1>2, <1>3, <1>5, <1>6, <1>7 DEF OpenedOr

PackOutcome(b, r) ==
  \/ NotWritten(b, r)
  \/ RwCheckHeader(b) = 0 /\ r.err = 0 /\ Rewritten(b, r.fdt, Decoded(b).reserved, TRUE)

\* fdt_pack changes nothing that is read.
LEMMA PackDoes ==
  ASSUME NEW b, NEW k \in Nat, NEW e \in Nat, Whole(b, k, e), b.magic = "FDT"
  PROVE  PackOutcome(b, Pack(b))
<1> DEFINE r == Pack(b)
<1>1. b \in Blobs /\ Holds(b, k, e)  BY DEF Whole
<1>2. PackedOr(b, k, e, r)  BY <1>1, PackIs
<1> HIDE DEF r
<1>3. Decoded(b).reserved = ReservedOf(b, k)  BY <1>1, DecodedIs
<1>4. CASE RwCheckHeader(b) # 0 /\ r = Fail(RwCheckHeader(b), b)
  BY <1>4 DEF PackOutcome, NotWritten, r
<1>5. CASE RwCheckHeader(b) = 0 /\ r.err = 0 /\ Repacked(b, k, e, r.fdt)
  <2>1. Rewritten(b, r.fdt, ReservedOf(b, k), TRUE)  BY <1>5, RepackedReads
  <2> QED BY <1>3, <1>5, <2>1 DEF PackOutcome, r
<1> QED BY <1>2, <1>4, <1>5 DEF PackedOr

RootAlone == <<[depth |-> 0, name |-> <<>>, props |-> <<>>]>>

EmptyOutcome(b, r) ==
  \/ r = Fail(NOSPACE, b)
  \/ /\ r.err = NOSPACE /\ r.fdt \in Blobs /\ r.fdt.magic = "SW" /\ Decoded(r.fdt).reserved = <<>>
     /\ \/ Decoded(r.fdt).tree = <<>> /\ Decoded(r.fdt).writable = FALSE
        \/ Decoded(r.fdt).tree = RootAlone /\ Decoded(r.fdt).writable = TRUE
  \/ /\ r.err = 0 /\ Good(r.fdt) /\ Decoded(r.fdt).tree = RootAlone
     /\ Decoded(r.fdt).reserved = <<>> /\ Decoded(r.fdt).writable = TRUE

\* The blob fdt_create_empty_tree makes reads as a root alone.
LEMMA EmptyReads ==
  ASSUME NEW g, NEW bufsize \in 1 .. MaxSize, EmptyMade(g, bufsize)
  PROVE  /\ Good(g) /\ Decoded(g).tree = RootAlone
         /\ Decoded(g).reserved = <<>> /\ Decoded(g).writable = TRUE
<1>1. /\ g \in Blobs /\ Holds(g, 0, 3) /\ g.magic = "FDT" /\ g.version = 17
      /\ g.totalsize = bufsize /\ RsvStart + 5 <= bufsize /\ g.off_mem_rsvmap = RsvStart
      /\ g.off_dt_struct = RsvStart + 1 /\ g.size_dt_struct = 4
      /\ g.off_dt_strings = RsvStart + 5 /\ g.size_dt_strings = 0
      /\ At(g, 0) = Cell("begin", 0, 0) /\ At(g, 1) = Cell("data", 0, 0)
      /\ At(g, 2) = Cell("end_node", 0, 0) /\ NameCells(<<>>) = <<Cell("data", 0, 0)>>
  BY DEF EmptyMade
<1>2. At(g, 0).tag = "begin" /\ At(g, 1).tag = "data" /\ At(g, 2).tag = "end_node"
  BY <1>1 DEF Cell
<1>3. 0 \in Nat /\ 3 \in Nat /\ 2 \in Nat /\ 1 \in Nat /\ 0 \in Int /\ 2 \in Int /\ 3 \in Int /\ 1 \in Int
  OBVIOUS
<1>4. NameHere(g, 0, 2, <<>>)
  <2>1. Len(NameCells(<<>>)) = 1  BY <1>1
  <2>2. \A i \in 1 .. 1 : i = 1 /\ 0 + i = 1  OBVIOUS
  <2>3. NameCells(<<>>)[1] = Cell("data", 0, 0)  BY <1>1
  <2>4. \A i \in 1 .. 1 : At(g, 0 + i) = NameCells(<<>>)[i]  BY <1>1, <2>2, <2>3
  <2>5. 2 = 0 + 1 + 1  OBVIOUS
  <2> QED BY <1>2, <2>1, <2>4, <2>5 DEF NameHere
<1>5. <<>> \in Seq(Nat \ {0})  OBVIOUS
<1>6. GetName(g, 0) = <<>>
  <2>1. 2 <= 3  OBVIOUS
  <2> QED BY <1>1, <1>3, <1>4, <1>5, <2>1, NameRead
<1>7. /\ Net(g, 0, 0) = 0 /\ Net(g, 0, 1) = 1 /\ Net(g, 0, 2) = 1 /\ Net(g, 0, 3) = 0
      /\ Net(g, 1, 1) = 0
  <2>1. Net(g, 0, 0) = 0 /\ Net(g, 1, 1) = 0  BY <1>3, NetEmpty
  <2>2. Net(g, 0, 0 + 1) = 1  BY <1>2, <1>3, NetOne
  <2>3. Net(g, 2, 2 + 1) = -1  BY <1>2, <1>3, NetOne
  <2>4. Net(g, 0, 2) = 1  BY <1>3, <1>4, <1>5, NameHereMeans
  <2>5. Net(g, 0, 3) = Net(g, 0, 2) + Net(g, 2, 3)
    <3>1. 0 <= 2 /\ 2 <= 3  OBVIOUS
    <3> QED BY <1>3, <3>1, NetJoin
  <2>6. 0 + 1 = 1 /\ 2 + 1 = 3  OBVIOUS
  <2>7. Net(g, 0, 1) = 1 /\ Net(g, 2, 3) = -1  BY <2>2, <2>3, <2>6
  <2>8. Net(g, 0, 3) = 0  BY <2>4, <2>5, <2>7
  <2> QED BY <2>1, <2>4, <2>7, <2>8
<1>8. \A x \in 0 .. 3 - 1 : x = 0 \/ x = 1 \/ x = 2  OBVIOUS
<1>9. Shaped(g, 3)
  <2>1. \A q \in 0 .. 3 : Net(g, 0, q) >= 0
    <3>1. \A q \in 0 .. 3 : q = 0 \/ q = 1 \/ q = 2 \/ q = 3  OBVIOUS
    <3>2. 1 >= 0 /\ 0 >= 0  OBVIOUS
    <3> QED BY <1>7, <3>1, <3>2
  <2>2. \A o \in 1 .. 3 - 1 : At(g, o).tag # "begin"
    <3>1. \A o \in 1 .. 3 - 1 : o = 1 \/ o = 2  OBVIOUS
    <3> QED BY <1>2, <3>1
  <2>3. \A q \in 0 .. 3 - 1 : At(g, q).tag # "prop"  BY <1>2, <1>8
  <2> QED BY <1>7, <2>1, <2>2, <2>3 DEF Shaped
<1>10. InReach(g, 3)  BY <1>1, <1>3, ReachOfSize
<1>11. Whole(g, 0, 3)  BY <1>1, <1>9, <1>10 DEF Whole
<1>12. Good(g)
  <2>1. g.version >= 16  BY <1>1
  <2> QED BY <1>1, <1>3, <1>11, <2>1 DEF Good
<1>13. /\ Nodes(g) = {q \in 0 .. 3 - 1 : At(g, q).tag = "begin"}
       /\ Properties(g, 0) = {q \in 0 + 1 .. 3 - 1 :
                                At(g, q).tag = "prop" /\ \A p \in 0 + 1 .. q : At(g, p).tag \notin Edges}
  BY <1>1, <1>3, NodesAre
<1>14. Nodes(g) = {0}
  <2>1. 0 \in 0 .. 3 - 1  OBVIOUS
  <2>2. \A x : x \in Nodes(g) <=> x = 0  BY <1>2, <1>8, <1>13, <2>1
  <2> QED BY <2>2
<1>15. Properties(g, 0) = {}
  <2>1. \A q \in 0 + 1 .. 3 - 1 : q = 1 \/ q = 2  OBVIOUS
  <2> QED BY <1>2, <1>13, <2>1
<1>16. NodeAs(g, 0) = [depth |-> 0, name |-> <<>>, props |-> <<>>]
  <2>1. PropsOf(g, 0) = <<>>  BY <1>15, InTurnNone DEF PropsOf
  <2>2. Depth(g, 0, 0) = Net(g, 0 + 1, 0 + 1)  BY <1>3, DepthIs
  <2>3. 0 + 1 = 1  OBVIOUS
  <2>4. Depth(g, 0, 0) = 0  BY <1>7, <2>2, <2>3
  <2> QED BY <1>6, <2>1, <2>4 DEF NodeAs
<1>17. TreeOf(g) = RootAlone
  <2>1. InTurn({0}, NodesAs(g)) = <<NodesAs(g)[0]>>  BY <1>3, InTurnOne
  <2>2. NodesAs(g)[0] = NodeAs(g, 0)  BY <1>3 DEF NodesAs
  <2> QED BY <1>14, <1>16, <2>1, <2>2 DEF TreeOf, RootAlone
<1>18. /\ Decoded(g).tree = TreeOf(g) /\ Decoded(g).reserved = ReservedOf(g, 0)
       /\ Decoded(g).writable = (RwCheckHeader(g) = 0)
  BY <1>1, <1>3, DecodedIs
<1>19. ReservedOf(g, 0) = <<>>
  <2>1. 1 .. 0 = {}  OBVIOUS
  <2>2. ReservedOf(g, 0) = [i \in {} |-> g.mem[g.off_mem_rsvmap + (i - 1)].x]  BY <2>1 DEF ReservedOf
  <2> QED BY <2>2
<1>20. RwCheckHeader(g) = 0
  <2>1. RsvStart \in Nat  BY FdtRwAssumption
  <2>2. /\ ~(RsvStart < RsvStart) /\ ~(RsvStart + 1 < RsvStart + 1)
        /\ ~(RsvStart + 5 < RsvStart + 1 + 4) /\ ~(bufsize < RsvStart + 5 + 0)
    BY <1>1, <2>1
  <2>3. ~Misordered(g, 1, g.size_dt_struct)  BY <1>1, <2>2 DEF Misordered
  <2> QED BY <1>1, <2>3, WritableIf
<1>21. (RwCheckHeader(g) = 0) = TRUE  BY <1>20
<1> QED BY <1>12, <1>17, <1>18, <1>19, <1>21

\* Of one number, in order.
LEMMA InOrderOne ==
  ASSUME NEW x \in Int
  PROVE  InOrder({x}) = [j \in 1 .. 1 |-> x] /\ Cardinality({x}) = 1
<1> DEFINE f == [j \in 1 .. 1 |-> x]
<1>1. f \in [1 .. 1 -> {x}] /\ \A i, j \in 1 .. 1 : ~(i < j)  OBVIOUS
<1>2. 1 \in 1 .. 1 /\ f[1] = x  OBVIOUS
<1> HIDE DEF f
<1>3. Sorted(f, 1, {x})  BY <1>1, <1>2 DEF Sorted
<1>4. {x} \in SUBSET Int /\ 1 \in Nat  OBVIOUS
<1> QED BY <1>3, <1>4, InOrderIs DEF f

\* A root that is not ended reads as a root alone.
LEMMA RootLeftReads ==
  ASSUME NEW g \in Blobs, g.magic = "SW", NEW bufsize \in 1 .. MaxSize, RootLeft(g, bufsize)
  PROVE  Decoded(g).tree = RootAlone /\ Decoded(g).reserved = <<>> /\ Decoded(g).writable = TRUE
<1> DEFINE size == g.size_dt_struct
<1>1. /\ g.version = 17 /\ g.totalsize = bufsize /\ RsvStart + 1 + size <= bufsize
      /\ g.off_mem_rsvmap = RsvStart /\ g.off_dt_struct = RsvStart + 1
      /\ g.off_dt_strings = bufsize /\ g.size_dt_strings = 0 /\ g.mem[RsvStart].x = 0
      /\ At(g, 0) = Cell("begin", 0, 0) /\ At(g, 1) = Cell("data", 0, 0)
      /\ size = 2 \/ (size = 3 /\ At(g, 2) = Cell("end_node", 0, 0))
      /\ NameCells(<<>>) = <<Cell("data", 0, 0)>>
  BY DEF RootLeft
<1>2. /\ At(g, 0).tag = "begin" /\ At(g, 1).tag = "data" /\ (size = 3 => At(g, 2).tag = "end_node")
  BY <1>1 DEF Cell
<1>3. size \in {2, 3} /\ Size(g) = size /\ CheckHeader(g) = 0
  <2>1. size \in {2, 3} /\ size # 0  BY <1>1
  <2>2. Size(g) = size  BY <1>1 DEF Size
  <2>3. CheckHeader(g) = 0  BY <2>1 DEF CheckHeader
  <2> QED BY <2>1, <2>2, <2>3
<1> HIDE DEF size
<1>4. \A q \in 0 .. size - 1 : At(g, q).tag # "end" /\ At(g, q).tag # "prop"
  <2>1. \A q \in 0 .. size - 1 : q = 0 \/ q = 1 \/ (q = 2 /\ size = 3)  BY <1>3
  <2> QED BY <1>2, <2>1
<1>5. End(g) = size
  <2>1. {q \in 0 .. Size(g) - 1 : At(g, q).tag = "end"} = {}  BY <1>3, <1>4
  <2> QED BY <1>3, <2>1 DEF End, Lowest
<1>6. Nodes(g) = {0}
  <2>1. \A x \in 0 .. size - 1 : At(g, x).tag = "begin" <=> x = 0
    <3>1. \A q \in 0 .. size - 1 : q = 0 \/ q = 1 \/ (q = 2 /\ size = 3)  BY <1>3
    <3> QED BY <1>2, <3>1
  <2>2. 0 \in 0 .. size - 1  BY <1>3
  <2>3. \A x : x \in Nodes(g) <=> x \in 0 .. size - 1 /\ At(g, x).tag = "begin"
    BY <1>5 DEF Nodes, Tagged
  <2> QED BY <2>1, <2>2, <2>3
<1>7. Properties(g, 0) = {}
  <2>1. 0 + 1 .. size - 1 \subseteq 0 .. size - 1  BY <1>3
  <2> QED BY <1>4, <1>5, <2>1 DEF Properties, Tagged
<1>8. GetName(g, 0) = <<>>
  <2>1. \A i \in 1 .. 1 : i = 1 /\ 0 + i = 1  OBVIOUS
  <2>2. Len(NameCells(<<>>)) = 1 /\ NameCells(<<>>)[1] = Cell("data", 0, 0)  BY <1>1
  <2>3. \A i \in 1 .. 1 : At(g, 0 + i) = NameCells(<<>>)[i]  BY <1>1, <2>1, <2>2
  <2>4. NameHere(g, 0, 2, <<>>)
    <3>1. 2 = 0 + 1 + 1  OBVIOUS
    <3> QED BY <1>2, <2>2, <2>3, <3>1 DEF NameHere
  <2>5. Size(g) \in Int /\ 2 <= Size(g) /\ 0 \in Nat /\ 2 \in Nat  BY <1>3
  <2>6. <<>> \in Seq(Nat \ {0})  OBVIOUS
  <2> QED BY <2>4, <2>5, <2>6, NameWithin
<1>9. Depth(g, 0, 0) = 0
  <2>1. 0 \in Int /\ 0 + 1 = 1 /\ 1 \in Int  OBVIOUS
  <2>2. Depth(g, 0, 0) = Net(g, 0 + 1, 0 + 1)  BY <2>1, DepthIs
  <2> QED BY <2>1, <2>2, NetEmpty
<1>10. NumMemRsv(g) = 0
  <2> DEFINE T == {i \in 0 .. g.totalsize - g.off_mem_rsvmap - 1 : g.mem[g.off_mem_rsvmap + i].x = 0}
  <2>1. RsvStart \in Nat  BY FdtRwAssumption
  <2>2. RsvStart + 0 = RsvStart /\ 0 \in 0 .. bufsize - RsvStart - 1  BY <1>1, <1>3, <2>1
  <2>3. 0 \in T  BY <1>1, <2>2
  <2>4. T \in SUBSET Nat /\ \A y \in T : 0 <= y  OBVIOUS
  <2> HIDE DEF T
  <2>5. Min(T) = 0  BY <2>3, <2>4, LowestIs
  <2> QED BY <2>5 DEF NumMemRsv, T
<1>11. RwCheckHeader(g) = 0
  <2>1. RsvStart \in Nat  BY FdtRwAssumption
  <2>2. /\ ~(RsvStart < RsvStart) /\ ~(RsvStart + 1 < RsvStart + 1)
        /\ ~(bufsize < RsvStart + 1 + size) /\ ~(bufsize < bufsize + 0)
    BY <1>1, <2>1
  <2>3. ~Misordered(g, 1, g.size_dt_struct)  BY <1>1, <2>2 DEF Misordered, size
  <2>4. ~(g.version < 17)  BY <1>1
  <2> QED BY <1>3, <2>3, <2>4 DEF RwCheckHeader, Unless
<1> DEFINE PairsIn(qs) == [i \in DOMAIN qs |-> <<StringAt(g, At(g, qs[i]).x), Value(g, qs[i])>>]
           nodes == InOrder(Nodes(g))
           t == [j \in DOMAIN nodes |->
                   [depth |-> Depth(g, 0, nodes[j]), name |-> GetName(g, nodes[j]),
                    props |-> PairsIn(InOrder(Properties(g, nodes[j])))]]
<1>12. Decoded(g) = [tree |-> t, reserved |-> [i \in 1 .. NumMemRsv(g) |-> GetMemRsv(g, i - 1)],
                     writable |-> RwCheckHeader(g) = 0]
  <2> HIDE DEF t
  <2> QED BY <1>3 DEF Decoded, t
<1>13. nodes = [j \in 1 .. 1 |-> 0]
  <2>1. 0 \in Int  OBVIOUS
  <2>2. InOrder({0}) = [j \in 1 .. 1 |-> 0]  BY <2>1, InOrderOne
  <2> QED BY <1>6, <2>2
<1>14. PairsIn(InOrder({})) = <<>>
  <2>1. Cardinality({}) = 0 /\ 1 .. 0 = {}  BY FS_EmptySet
  <2> DEFINE none == InOrder({})
  <2>2. DOMAIN none = {}  BY <2>1 DEF InOrder
  <2> HIDE DEF none
  <2>3. PairsIn(none) = <<>>  BY <2>2
  <2> QED BY <2>3 DEF none
<1>15. t = RootAlone
  <2>1. DOMAIN nodes = 1 .. 1 /\ \A j \in 1 .. 1 : nodes[j] = 0
    <3> HIDE DEF nodes
    <3> QED BY <1>13
  <2> DEFINE Rec(o) == [depth |-> Depth(g, 0, o), name |-> GetName(g, o),
                        props |-> PairsIn(InOrder(Properties(g, o)))]
  <2>2. Rec(0) = [depth |-> 0, name |-> <<>>, props |-> <<>>]
    <3> HIDE DEF PairsIn
    <3> QED BY <1>7, <1>8, <1>9, <1>14
  <2>3. t = [j \in DOMAIN nodes |-> Rec(nodes[j])]  OBVIOUS
  <2> HIDE DEF t, nodes, Rec
  <2>4. t = [j \in 1 .. 1 |-> Rec(0)]  BY <2>1, <2>3
  <2> QED BY <2>2, <2>4 DEF RootAlone
<1>16. [i \in 1 .. NumMemRsv(g) |-> GetMemRsv(g, i - 1)] = <<>>
  <2>1. 1 .. 0 = {}  OBVIOUS
  <2> QED BY <1>10, <2>1
<1> DEFINE rs == [i \in 1 .. NumMemRsv(g) |-> GetMemRsv(g, i - 1)]
           w == RwCheckHeader(g) = 0
<1>17. Decoded(g) = [tree |-> t, reserved |-> rs, writable |-> w]  BY <1>12
<1>18. w = TRUE /\ rs = <<>>  BY <1>11, <1>16
<1> HIDE DEF t, rs, w
<1>19. Decoded(g).tree = t /\ Decoded(g).reserved = rs /\ Decoded(g).writable = w  BY <1>17
<1> QED BY <1>15, <1>18, <1>19

\* fdt_create_empty_tree makes such a blob, or leaves one with a root or none.
LEMMA EmptyDoes ==
  ASSUME NEW b \in Blobs, NEW bufsize \in 1 .. MaxSize
  PROVE  EmptyOutcome(b, EmptyTree(b, bufsize))
<1> DEFINE r == EmptyTree(b, bufsize)
<1>1. EmptyOr(b, bufsize, r)  BY EmptyTreeIs
<1> HIDE DEF r
<1>2. CASE r = Fail(NOSPACE, b)  BY <1>2 DEF EmptyOutcome, r
<1>3. CASE r.err = NOSPACE /\ EmptyLeft(r.fdt, bufsize)
  <2>1. r.fdt \in Blobs /\ r.fdt.magic = "SW" /\ (r.fdt.size_dt_struct = 0 \/ RootLeft(r.fdt, bufsize))
    BY <1>3 DEF EmptyLeft
  <2>2. CASE r.fdt.size_dt_struct = 0
    <3>1. CheckHeader(r.fdt) = BADSTATE  BY <2>1, <2>2 DEF CheckHeader
    <3>2. CheckHeader(r.fdt) # 0  BY <3>1 DEF BADSTATE
    <3>3. /\ Decoded(r.fdt).tree = <<>> /\ Decoded(r.fdt).reserved = <<>>
          /\ Decoded(r.fdt).writable = FALSE
      BY <3>2 DEF Decoded
    <3> QED BY <1>3, <2>1, <3>3 DEF EmptyOutcome, r
  <2>3. CASE RootLeft(r.fdt, bufsize)
    <3>1. /\ Decoded(r.fdt).tree = RootAlone /\ Decoded(r.fdt).reserved = <<>>
          /\ Decoded(r.fdt).writable = TRUE
      BY <2>1, <2>3, RootLeftReads
    <3> QED BY <1>3, <2>1, <3>1 DEF EmptyOutcome, r
  <2> QED BY <2>1, <2>2, <2>3
<1>4. CASE r.err = 0 /\ EmptyMade(r.fdt, bufsize)
  <2>1. /\ Good(r.fdt) /\ Decoded(r.fdt).tree = RootAlone
        /\ Decoded(r.fdt).reserved = <<>> /\ Decoded(r.fdt).writable = TRUE
    BY <1>4, EmptyReads
  <2> QED BY <1>4, <2>1 DEF EmptyOutcome, r
<1> QED BY <1>1, <1>2, <1>3, <1>4 DEF EmptyOr

-----------------------------------------------------------------------------
\* The tree of FdtTree.

\* The abstract specification brings its own copies of these operators.
LEMMA SameOperators ==
  /\ \A S : Tree!Cardinality(S) = Cardinality(S)
  /\ \A s, i : Tree!RemoveAt(s, i) = RemoveAt(s, i)
  /\ \A s, i, x : Tree!ReplaceAt(s, i, x) = ReplaceAt(s, i, x)
<1>1. \A S : Tree!Cardinality(S) = Cardinality(S)  BY DEF Tree!Cardinality, Cardinality
<1>2. \A s, i : Tree!RemoveAt(s, i) = RemoveAt(s, i)  BY DEF Tree!RemoveAt, RemoveAt
<1>3. \A s, i, x : Tree!ReplaceAt(s, i, x) = ReplaceAt(s, i, x)
  BY DEF Tree!ReplaceAt, ReplaceAt
<1> QED BY <1>1, <1>2, <1>3

\* What the abstract operators say of the tree a blob holds.
Reading(b, t, i, o) ==
  t = TreeOf(b) /\ i = NodeNo(b, o) /\ t[i] = NodeAs(b, o)

\* Whether the node has the property, and which, is what the blob says.
LEMMA HasIs ==
  ASSUME NEW c, NEW o, Reading(fdt, content.tree, c.node, o)
  PROVE  /\ Tree!Has(c) <=> HasIn(PropsOf(fdt, o), c.name)
         /\ Tree!Place(c) = PlaceIn(PropsOf(fdt, o), c.name)
         /\ Tree!Old(c) = OldOr(PropsOf(fdt, o), c.name)
<1>1. content.tree[c.node].props = PropsOf(fdt, o)  BY DEF Reading, NodeAs
<1>2. Tree!Has(c) <=> HasIn(PropsOf(fdt, o), c.name)  BY <1>1 DEF Tree!Has, HasIn
<1>3. Tree!Place(c) = PlaceIn(PropsOf(fdt, o), c.name)  BY <1>1 DEF Tree!Place, PlaceIn
<1> QED BY <1>1, <1>2, <1>3 DEF Tree!Old, OldOr, OldIn

\* Storing a value in the tree is what storing it in the blob does.
LEMMA StoredIs ==
  ASSUME NEW c, NEW o, Reading(fdt, content.tree, c.node, o), NEW v
  PROVE  Tree!Stored(c, v) = IF HasIn(PropsOf(fdt, o), c.name)
                             THEN Changed(fdt, o, c.name, v) ELSE Added(fdt, o, c.name, v)
<1> DEFINE n == c.node
           t == content.tree
           ps == PropsOf(fdt, o)
           p == PlaceIn(ps, c.name)
           h == HasIn(ps, c.name)
<1>1. t[n].props = ps /\ t[n] = NodeAs(fdt, o) /\ t = TreeOf(fdt) /\ n = NodeNo(fdt, o)
  BY DEF Reading, NodeAs
<1>2. (Tree!Has(c) <=> h) /\ Tree!Place(c) = p  BY HasIs
<1>3. CASE h
  <2>1. Tree!Stored(c, v) = [t EXCEPT ![n].props = Tree!ReplaceAt(@, p, <<c.name, v>>)]
    BY <1>2, <1>3 DEF Tree!Stored
  <2>2. \A x : Tree!ReplaceAt(x, p, <<c.name, v>>) = ReplaceAt(x, p, <<c.name, v>>)  BY SameOperators
  <2>3. Tree!Stored(c, v) = [t EXCEPT ![n].props = ReplaceAt(@, p, <<c.name, v>>)]
    BY <2>1, <2>2
  <2> HIDE DEF p
  <2>4. Changed(fdt, o, c.name, v) = [t EXCEPT ![n].props = ReplaceAt(@, p, <<c.name, v>>)]
    BY <1>1 DEF Changed, p
  <2> QED BY <1>3, <2>3, <2>4
<1>4. CASE ~h
  <2>1. Tree!Stored(c, v) = [t EXCEPT ![n].props = <<<<c.name, v>>>> \o @]
    BY <1>2, <1>4 DEF Tree!Stored
  <2> QED BY <1>1, <1>4, <2>1 DEF Added
<1> QED BY <1>3, <1>4

Removing(c) == [content.tree EXCEPT ![c.node].props = Tree!RemoveAt(@, Tree!Place(c))]

\* So is removing a property.
LEMMA WithoutIs ==
  ASSUME NEW c, NEW o, Reading(fdt, content.tree, c.node, o)
  PROVE  Removing(c) = Without(fdt, o, c.name)
<1> DEFINE n == c.node
           t == content.tree
           ps == PropsOf(fdt, o)
           p == PlaceIn(ps, c.name)
<1>1. t[n].props = ps /\ t[n] = NodeAs(fdt, o) /\ t = TreeOf(fdt) /\ n = NodeNo(fdt, o)
  BY DEF Reading, NodeAs
<1>2. Tree!Place(c) = p  BY HasIs
<1>3. \A x : Tree!RemoveAt(x, p) = RemoveAt(x, p)  BY SameOperators
<1>4. [t EXCEPT ![n].props = Tree!RemoveAt(@, Tree!Place(c))] = [t EXCEPT ![n].props = RemoveAt(@, p)]
  <2> HIDE DEF p
  <2> QED BY <1>2, <1>3
<1> QED BY <1>1, <1>4 DEF Without, Removing

\* The nodes below a node in the tree are those below it in the blob.
LEMMA BelowHere ==
  ASSUME NEW i, content.tree = TreeOf(fdt)
  PROVE  /\ Tree!Below(i) = BelowIn(TreeOf(fdt), i)
         /\ Tree!Children(i) = ChildrenIn(TreeOf(fdt), i)
<1>1. Tree!Below(i) = BelowIn(TreeOf(fdt), i)  BY DEF Tree!Below, BelowIn
<1> QED BY <1>1 DEF Tree!Children, ChildrenIn

Cut(i) ==
  SubSeq(content.tree, 1, i - 1) \o SubSeq(content.tree, Tree!LastBelow(i) + 1, Len(content.tree))

\* The tree without a node and all below it.
LEMMA CutIs ==
  ASSUME NEW k \in Nat, NEW e \in Nat, Whole(fdt, k, e), NEW o \in Nodes(fdt),
         NEW i, Reading(fdt, content.tree, i, o)
  PROVE  Cut(i) = CutOut(fdt, o)
<1> DEFINE u == NodesUpTo(fdt, NodeEnd(fdt, o))
<1>1. content.tree = TreeOf(fdt) /\ i = NodeNo(fdt, o)  BY DEF Reading
<1>2. Tree!Below(i) = i + 1 .. u  BY <1>1, BelowHere, BelowIs
<1>3. i \in Nat /\ u \in Nat /\ i <= u
  <2>1. NodeNo(fdt, o) \in 1 .. Cardinality(Nodes(fdt)) /\ Cardinality(Nodes(fdt)) \in Nat
    BY NumberOf
  <2>2. u \in NodeNo(fdt, o) .. Cardinality(Nodes(fdt))  BY BelowIs
  <2> QED BY <1>1, <2>1, <2>2
<1> HIDE DEF u
<1>4. Cardinality(i + 1 .. u) = u - i
  <2> PICK j \in Int : j = i + 1  BY <1>3
  <2>1. Cardinality(j .. u) = IF j > u THEN 0 ELSE u - j + 1
    <3>1. j \in Int /\ u \in Int  BY <1>3
    <3> QED BY <3>1, FS_Interval
  <2>2. (IF j > u THEN 0 ELSE u - j + 1) = u - i  BY <1>3
  <2> QED BY <2>1, <2>2
<1>5. Tree!LastBelow(i) = u
  <2>1. Tree!LastBelow(i) = i + Cardinality(Tree!Below(i))  BY SameOperators DEF Tree!LastBelow
  <2>2. i + (u - i) = u  BY <1>3
  <2> QED BY <1>2, <1>4, <2>1, <2>2
<1> QED BY <1>1, <1>5 DEF CutOut, Cut, u

-----------------------------------------------------------------------------
\* The invariant, and the steps of the tree.

\* The invariant the refinement rests on.
TreeInv ==
  fdt \in Blobs /\ content = Decoded(fdt) /\ (fdt.magic = "FDT" => Good(fdt))

Known(k, e) ==
  Whole(fdt, k, e) /\ fdt.magic = "FDT" /\ fdt.version >= 16 /\ content = Decoded(fdt)

\* What is known of a blob that holds a tree.
LEMMA KnownIs ==
  ASSUME NEW k \in Nat, NEW e \in Nat, Known(k, e)
  PROVE  /\ fdt \in Blobs /\ Holds(fdt, k, e) /\ Good(fdt) /\ fdt.magic = "FDT" /\ fdt.version >= 16
         /\ Whole(fdt, k, e) /\ content = Decoded(fdt)
         /\ content.tree = TreeOf(fdt) /\ content.reserved = ReservedOf(fdt, k)
         /\ content.writable = (RwCheckHeader(fdt) = 0)
<1>1. /\ Whole(fdt, k, e) /\ fdt.magic = "FDT" /\ fdt.version >= 16 /\ content = Decoded(fdt)
  BY DEF Known
<1>2. fdt \in Blobs /\ Holds(fdt, k, e)  BY <1>1 DEF Whole
<1>3. Good(fdt)  BY <1>1 DEF Good
<1>4. /\ Decoded(fdt).tree = TreeOf(fdt) /\ Decoded(fdt).reserved = ReservedOf(fdt, k)
      /\ Decoded(fdt).writable = (RwCheckHeader(fdt) = 0)
  BY <1>1, <1>2, DecodedIs
<1> QED BY <1>1, <1>2, <1>3, <1>4

\* A call after which the blob reads as before.
Unread(r) == r.fdt = fdt \/ Becomes(fdt, r.fdt, TreeOf(fdt))

\* A call that leaves a blob with one tree keeps the invariant.
LEMMA GoodNext ==
  ASSUME NEW c, NEW r, Do(c, r), Good(r.fdt)
  PROVE  TreeInv'
<1>1. r.fdt \in Blobs  BY DEF Good, Whole
<1>2. fdt' = r.fdt /\ content' = Decoded(r.fdt)  BY DEF Do
<1>3. content' = Decoded(fdt')  BY <1>2
<1>4. fdt' \in Blobs /\ Good(fdt')  BY <1>1, <1>2
<1> QED BY <1>3, <1>4 DEF TreeInv

\* A call that leaves what is read alone refuses.
LEMMA Refusing ==
  ASSUME NEW k \in Nat, NEW e \in Nat, Known(k, e), NEW c, NEW r, Do(c, r), Unread(r)
  PROVE  TreeInv' /\ Tree!Refused(r.err) /\ reply'.call = c /\ reply'.err = r.err
<1>1. /\ fdt' = r.fdt /\ content' = Decoded(r.fdt) /\ reply'.call = c /\ reply'.err = r.err
  BY DEF Do
<1>2. Good(fdt) /\ content = Decoded(fdt) /\ content.tree = TreeOf(fdt)  BY KnownIs
<1>3. Good(r.fdt)  BY <1>2 DEF Unread, Becomes
<1>4. /\ content'.tree = content.tree /\ content'.reserved = content.reserved
      /\ content'.writable = content.writable
  BY <1>1, <1>2 DEF Unread, Becomes
<1>5. TreeInv'  BY <1>3, GoodNext
<1> QED BY <1>1, <1>4, <1>5 DEF Tree!Refused

\* A blob that may not be written has an old version or blocks out of order.
LEMMA ErrorKinds ==
  ASSUME NEW b \in Blobs, b.magic = "FDT", b.version >= 16, RwCheckHeader(b) # 0
  PROVE  RwCheckHeader(b) \in {BADVERSION, BADLAYOUT} /\ RwCheckHeader(b) # 0
<1>1. b.version \in {16, 17}  BY BlobFields
<1>2. ~(b.version < 16)  BY <1>1
<1>3. CheckHeader(b) = 0  BY <1>2 DEF CheckHeader
<1> QED BY <1>3 DEF RwCheckHeader, Unless

\* An edit of a blob that may not be written.
LEMMA Unwritten ==
  ASSUME NEW k \in Nat, NEW e \in Nat, Known(k, e), NEW c, c.op \in Tree!Edits,
         NEW r, Do(c, r), NotWritten(fdt, r)
  PROVE  TreeInv' /\ Tree!Next
<1>1. /\ fdt \in Blobs /\ fdt.magic = "FDT" /\ fdt.version >= 16
      /\ content.writable = (RwCheckHeader(fdt) = 0)
  BY KnownIs
<1>2. r.fdt = fdt /\ r.err = RwCheckHeader(fdt) /\ RwCheckHeader(fdt) # 0
  BY DEF NotWritten, Fail
<1>3. r.err \in {BADVERSION, BADLAYOUT}  BY <1>1, <1>2, ErrorKinds
<1>4. TreeInv' /\ Tree!Refused(r.err) /\ reply'.call = c
  BY <1>2, Refusing DEF Unread
<1>5. ~Tree!Allowed(c)  BY <1>1, <1>2 DEF Tree!Allowed
<1>6. Tree!Unwritable(c)  BY <1>3, <1>4, <1>5 DEF Tree!Unwritable
<1> QED BY <1>4, <1>6 DEF Tree!Next

\* The call may be made: the blob may be written, or the call works on any.
May(c) == c.op \in Tree!Edits => RwCheckHeader(fdt) = 0

\* A call the code makes is one the tree allows.
LEMMA MayAllowed ==
  ASSUME NEW k \in Nat, NEW e \in Nat, Known(k, e), NEW c, May(c)
  PROVE  Tree!Allowed(c)
<1>1. content.writable = (RwCheckHeader(fdt) = 0)  BY KnownIs
<1> QED BY <1>1 DEF May, Tree!Allowed

\* A call that fails for a wrong argument.
LEMMA Wrongly ==
  ASSUME NEW k \in Nat, NEW e \in Nat, Known(k, e), NEW c, May(c), NEW r, Do(c, r),
         r.fdt = fdt, r.err # 0, Tree!Error(c) = r.err
  PROVE  TreeInv' /\ Tree!Next
<1>1. TreeInv' /\ Tree!Refused(r.err) /\ reply'.call = c  BY Refusing DEF Unread
<1>2. Tree!Allowed(c)  BY MayAllowed
<1>3. Tree!Wrong(c)  BY <1>1, <1>2 DEF Tree!Wrong
<1> QED BY <1>1, <1>3 DEF Tree!Next

\* A call that fails for want of room.
LEMMA Roomless ==
  ASSUME NEW k \in Nat, NEW e \in Nat, Known(k, e), NEW c, May(c), NEW r, Do(c, r),
         Unread(r), r.err = NOSPACE, Tree!Error(c) = 0, Tree!Grows(c)
  PROVE  TreeInv' /\ Tree!Next
<1>1. TreeInv' /\ Tree!Refused(r.err) /\ reply'.call = c  BY Refusing
<1>2. Tree!Allowed(c)  BY MayAllowed
<1>3. Tree!NoRoom(c)  BY <1>1, <1>2 DEF Tree!NoRoom
<1> QED BY <1>1, <1>3 DEF Tree!Next

\* A call on a node that succeeds.
LEMMA Changing ==
  ASSUME NEW k \in Nat, NEW e \in Nat, Known(k, e), NEW c, May(c), NEW r, Do(c, r),
         r.err = 0, Tree!Error(c) = 0, Becomes(fdt, r.fdt, Tree!NewTree(c)),
         c.op \in Tree!NodeOps
  PROVE  TreeInv' /\ Tree!Next
<1>1. /\ fdt' = r.fdt /\ content' = Decoded(r.fdt) /\ reply'.call = c /\ reply'.err = r.err
  BY DEF Do
<1>2. content = Decoded(fdt) /\ content.writable = (RwCheckHeader(fdt) = 0)  BY KnownIs
<1>3. Tree!NewReserved(c) = content.reserved
  BY DEF Tree!NewReserved, Tree!NodeOps, Tree!InPlace
<1>4. c.op \notin {"open", "empty"}  BY DEF Tree!NodeOps, Tree!InPlace
<1>5. /\ Good(r.fdt) /\ content'.tree = Tree!NewTree(c) /\ content'.reserved = content.reserved
      /\ content'.writable = content.writable
  BY <1>1, <1>2 DEF Becomes
<1>6. content'.writable = (content.writable \/ c.op \in {"open", "empty"})
  BY <1>2, <1>4, <1>5
<1>7. TreeInv'  BY <1>5, GoodNext
<1>8. Tree!Allowed(c)  BY MayAllowed
<1>9. Tree!Succeed(c)  BY <1>1, <1>3, <1>5, <1>6, <1>8 DEF Tree!Succeed
<1> QED BY <1>1, <1>7, <1>9 DEF Tree!Next

\* A call on the whole blob that succeeds.
LEMMA Rewriting ==
  ASSUME NEW k \in Nat, NEW e \in Nat, Known(k, e), NEW c, May(c), NEW r, Do(c, r),
         r.err = 0, Tree!Error(c) = 0, Rewritten(fdt, r.fdt, Tree!NewReserved(c), TRUE),
         Tree!NewTree(c) = content.tree, RwCheckHeader(fdt) = 0 \/ c.op = "open"
  PROVE  TreeInv' /\ Tree!Next
<1>1. /\ fdt' = r.fdt /\ content' = Decoded(r.fdt) /\ reply'.call = c /\ reply'.err = r.err
  BY DEF Do
<1>2. content = Decoded(fdt) /\ content.writable = (RwCheckHeader(fdt) = 0)  BY KnownIs
<1>3. /\ Good(r.fdt) /\ content'.tree = Tree!NewTree(c) /\ content'.reserved = Tree!NewReserved(c)
      /\ content'.writable = TRUE
  BY <1>1, <1>2 DEF Rewritten
<1>4. content'.writable = (content.writable \/ c.op \in {"open", "empty"})
  BY <1>2, <1>3
<1>5. TreeInv'  BY <1>3, GoodNext
<1>6. Tree!Allowed(c)  BY MayAllowed
<1>7. Tree!Succeed(c)  BY <1>1, <1>3, <1>4, <1>6 DEF Tree!Succeed
<1> QED BY <1>1, <1>5, <1>7 DEF Tree!Next

\* What a call records of its node.
LEMMA CallIs ==
  ASSUME NEW k \in Nat, NEW e \in Nat, Known(k, e), NEW o \in Nat,
         NEW op, NEW name, NEW val, NEW c, c = Call(op, o, name, val)
  PROVE  /\ c.op = op /\ c.name = name /\ c.val = val
         /\ o \notin Nodes(fdt) => c.node = 0
         /\ o \in Nodes(fdt) => c.node # 0 /\ Reading(fdt, content.tree, c.node, o)
<1>1. Whole(fdt, k, e) /\ content.tree = TreeOf(fdt)  BY KnownIs
<1>2. c.op = op /\ c.name = name /\ c.val = val /\ c.node = NodeAt(fdt, o)  BY DEF Call
<1>3. /\ CheckNodeOffset(fdt, o) < 0 <=> o \notin Nodes(fdt)
      /\ o \notin Nodes(fdt) => CheckNodeOffset(fdt, o) = BADOFFSET
      /\ o \in Nodes(fdt) => CheckNodeOffset(fdt, o) = NextTag(fdt, o) /\ NextTag(fdt, o) \in o + 1 .. e
  BY <1>1, NodeOffset
<1>4. ASSUME o \notin Nodes(fdt)
      PROVE  c.node = 0
  <2>1. CheckNodeOffset(fdt, o) = BADOFFSET  BY <1>3, <1>4
  <2>2. ~(CheckNodeOffset(fdt, o) >= 0)  BY <2>1 DEF BADOFFSET
  <2> QED BY <1>2, <2>2 DEF NodeAt
<1>5. ASSUME o \in Nodes(fdt)
      PROVE  c.node # 0 /\ Reading(fdt, content.tree, c.node, o)
  <2>1. CheckNodeOffset(fdt, o) \in o + 1 .. e  BY <1>3, <1>5
  <2>2. CheckNodeOffset(fdt, o) >= 0  BY <2>1
  <2>3. c.node = NodeNo(fdt, o)  BY <1>2, <2>2 DEF NodeAt, NodeNo, UpTo
  <2>4. /\ NodeNo(fdt, o) \in 1 .. Cardinality(Nodes(fdt)) /\ Cardinality(Nodes(fdt)) \in Nat
        /\ TreeOf(fdt)[NodeNo(fdt, o)] = NodeAs(fdt, o)
    BY <1>1, <1>5, NumberOf
  <2>5. NodeNo(fdt, o) # 0  BY <2>4
  <2> QED BY <1>1, <2>3, <2>4, <2>5 DEF Reading
<1> QED BY <1>2, <1>4, <1>5

\* A call at an offset where no node is.
LEMMA NoNodeStep ==
  ASSUME NEW k \in Nat, NEW e \in Nat, Known(k, e), NEW o \in Nat, NEW c, May(c),
         c.op \in Tree!NodeOps, o \notin Nodes(fdt) => c.node = 0,
         NEW r, Do(c, r), NoNode(fdt, o, r)
  PROVE  TreeInv' /\ Tree!Next
<1>1. r.fdt = fdt /\ r.err = BADOFFSET /\ c.node = 0  BY DEF NoNode, Fail
<1>2. r.err # 0  BY <1>1 DEF BADOFFSET
<1>3. Tree!Error(c) = BADOFFSET  BY <1>1 DEF Tree!Error, Tree!NodeOps, Tree!InPlace
<1> QED BY <1>1, <1>2, <1>3, Wrongly

\* A call for a property the node has not.
LEMMA NoPropStep ==
  ASSUME NEW k \in Nat, NEW e \in Nat, Known(k, e), NEW o \in Nat, NEW c, May(c),
         c.op \in {"delprop", "nopprop", "inplace", "partial"},
         o \in Nodes(fdt) => c.node # 0 /\ Reading(fdt, content.tree, c.node, o),
         NEW r, Do(c, r), NoProp(fdt, o, c.name, r)
  PROVE  TreeInv' /\ Tree!Next
<1>1. /\ r.fdt = fdt /\ r.err = NOTFOUND /\ o \in Nodes(fdt)
      /\ ~HasIn(PropsOf(fdt, o), c.name)
  BY DEF NoProp, Fail
<1>2. r.err # 0  BY <1>1 DEF NOTFOUND
<1>3. ~Tree!Has(c) /\ c.node # 0  BY <1>1, HasIs
<1>4. Tree!Error(c) = NOTFOUND  BY <1>3 DEF Tree!Error
<1> QED BY <1>1, <1>2, <1>4, Wrongly

-----------------------------------------------------------------------------
\* One call after another.

\* fdt_delprop.
LEMMA DelPropSteps ==
  ASSUME NEW k \in Nat, NEW e \in Nat, Known(k, e), NEW o \in Nat, NEW n,
         NEW c, c = Call("delprop", o, n, <<>>), NEW r, r = DelProp(fdt, o, n), Do(c, r)
  PROVE  TreeInv' /\ Tree!Next
<1>1. Whole(fdt, k, e) /\ fdt.magic = "FDT" /\ fdt.version >= 16  BY KnownIs
<1>2. DelPropOutcome(fdt, o, n, r)  BY <1>1, DelPropDoes
<1>3. /\ c.op = "delprop" /\ c.name = n
      /\ o \notin Nodes(fdt) => c.node = 0
      /\ o \in Nodes(fdt) => c.node # 0 /\ Reading(fdt, content.tree, c.node, o)
  BY CallIs
<1>4. c.op \in Tree!NodeOps /\ c.op \in Tree!Edits
  BY <1>3 DEF Tree!NodeOps, Tree!Edits, Tree!InPlace
<1>5. CASE NotWritten(fdt, r)  BY <1>4, <1>5, Unwritten
<1>6. CASE RwCheckHeader(fdt) = 0 /\ NoNode(fdt, o, r)
  <2>1. May(c)  BY <1>6 DEF May
  <2> QED BY <1>3, <1>4, <1>6, <2>1, NoNodeStep
<1>7. CASE RwCheckHeader(fdt) = 0 /\ NoProp(fdt, o, n, r)
  <2>1. May(c)  BY <1>7 DEF May
  <2>2. NoProp(fdt, o, c.name, r) /\ c.op \in {"delprop", "nopprop", "inplace", "partial"}
    BY <1>3, <1>7
  <2> QED BY <1>3, <2>1, <2>2, NoPropStep
<1>8. CASE /\ RwCheckHeader(fdt) = 0 /\ o \in Nodes(fdt) /\ HasIn(PropsOf(fdt, o), n) /\ r.err = 0
           /\ Becomes(fdt, r.fdt, Without(fdt, o, n))
  <2>1. May(c)  BY <1>8 DEF May
  <2>2. Tree!Has(c) /\ c.node # 0  BY <1>3, <1>8, HasIs
  <2>3. Tree!Error(c) = 0  BY <1>3, <2>2 DEF Tree!Error
  <2>4. Tree!NewTree(c) = Removing(c)  BY <1>3 DEF Tree!NewTree, Removing
  <2>5. Tree!NewTree(c) = Without(fdt, o, n)  BY <1>3, <1>8, <2>4, WithoutIs
  <2>6. Becomes(fdt, r.fdt, Tree!NewTree(c))  BY <1>8, <2>5
  <2> QED BY <1>4, <1>8, <2>1, <2>3, <2>6, Changing
<1> QED BY <1>2, <1>5, <1>6, <1>7, <1>8 DEF DelPropOutcome

\* fdt_nop_property.
LEMMA NopPropSteps ==
  ASSUME NEW k \in Nat, NEW e \in Nat, Known(k, e), NEW o \in Nat, NEW n,
         NEW c, c = Call("nopprop", o, n, <<>>), NEW r, r = NopProperty(fdt, o, n), Do(c, r)
  PROVE  TreeInv' /\ Tree!Next
<1>1. Whole(fdt, k, e) /\ fdt.magic = "FDT" /\ fdt.version >= 16  BY KnownIs
<1>2. NopPropOutcome(fdt, o, n, r)  BY <1>1, NopPropDoes
<1>3. /\ c.op = "nopprop" /\ c.name = n
      /\ o \notin Nodes(fdt) => c.node = 0
      /\ o \in Nodes(fdt) => c.node # 0 /\ Reading(fdt, content.tree, c.node, o)
  BY CallIs
<1>4. c.op \in Tree!NodeOps /\ c.op \notin Tree!Edits
  BY <1>3 DEF Tree!NodeOps, Tree!Edits, Tree!InPlace
<1>5. May(c)  BY <1>4 DEF May
<1>6. CASE NoNode(fdt, o, r)  BY <1>3, <1>4, <1>5, <1>6, NoNodeStep
<1>7. CASE NoProp(fdt, o, n, r)
  <2>1. NoProp(fdt, o, c.name, r) /\ c.op \in {"delprop", "nopprop", "inplace", "partial"}
    BY <1>3, <1>7
  <2> QED BY <1>3, <1>5, <2>1, NoPropStep
<1>8. CASE /\ o \in Nodes(fdt) /\ HasIn(PropsOf(fdt, o), n) /\ r.err = 0
           /\ Becomes(fdt, r.fdt, Without(fdt, o, n))
  <2>1. Tree!Has(c) /\ c.node # 0  BY <1>3, <1>8, HasIs
  <2>2. Tree!Error(c) = 0  BY <1>3, <2>1 DEF Tree!Error
  <2>3. Tree!NewTree(c) = Removing(c)  BY <1>3 DEF Tree!NewTree, Removing
  <2>4. Tree!NewTree(c) = Without(fdt, o, n)  BY <1>3, <1>8, <2>3, WithoutIs
  <2>5. Becomes(fdt, r.fdt, Tree!NewTree(c))  BY <1>8, <2>4
  <2> QED BY <1>4, <1>5, <1>8, <2>2, <2>5, Changing
<1> QED BY <1>2, <1>6, <1>7, <1>8 DEF NopPropOutcome

\* fdt_setprop_inplace.
LEMMA InplaceSteps ==
  ASSUME NEW k \in Nat, NEW e \in Nat, Known(k, e), NEW o \in Nat, NEW n, NEW v \in Seq(Nat),
         NEW c, c = Call("inplace", o, n, v), NEW r, r = SetpropInplace(fdt, o, n, v), Do(c, r)
  PROVE  TreeInv' /\ Tree!Next
<1>1. Whole(fdt, k, e) /\ fdt.magic = "FDT" /\ fdt.version >= 16  BY KnownIs
<1>2. InplaceOutcome(fdt, o, n, v, r)  BY <1>1, InplaceDoes
<1>3. /\ c.op = "inplace" /\ c.name = n /\ c.val = v
      /\ o \notin Nodes(fdt) => c.node = 0
      /\ o \in Nodes(fdt) => c.node # 0 /\ Reading(fdt, content.tree, c.node, o)
  BY CallIs
<1>4. c.op \in Tree!NodeOps /\ c.op \notin Tree!Edits
  BY <1>3 DEF Tree!NodeOps, Tree!Edits, Tree!InPlace
<1>5. May(c)  BY <1>4 DEF May
<1>6. CASE NoNode(fdt, o, r)  BY <1>3, <1>4, <1>5, <1>6, NoNodeStep
<1>7. CASE NoProp(fdt, o, n, r)
  <2>1. NoProp(fdt, o, c.name, r) /\ c.op \in {"delprop", "nopprop", "inplace", "partial"}
    BY <1>3, <1>7
  <2> QED BY <1>3, <1>5, <2>1, NoPropStep
<1>8. ASSUME HasNode(fdt, o, n)
      PROVE  Tree!Has(c) /\ c.node # 0 /\ Tree!Old(c) = OldIn(PropsOf(fdt, o), n)
  <2>1. o \in Nodes(fdt) /\ HasIn(PropsOf(fdt, o), n)  BY <1>8 DEF HasNode
  <2>2. (Tree!Has(c) <=> HasIn(PropsOf(fdt, o), n)) /\ Tree!Old(c) = OldOr(PropsOf(fdt, o), n)
    BY <1>3, <2>1, HasIs
  <2> QED BY <1>3, <2>1, <2>2 DEF OldOr
<1>9. CASE HasNode(fdt, o, n) /\ Len(OldIn(PropsOf(fdt, o), n)) # Len(v) /\ r = Fail(NOSPACE, fdt)
  <2>1. r.fdt = fdt /\ r.err = NOSPACE /\ NOSPACE # 0  BY <1>9 DEF Fail, NOSPACE
  <2>2. Tree!Error(c) = NOSPACE  BY <1>3, <1>8, <1>9 DEF Tree!Error
  <2> QED BY <1>5, <2>1, <2>2, Wrongly
<1>10. CASE /\ HasNode(fdt, o, n) /\ Len(OldIn(PropsOf(fdt, o), n)) = Len(v) /\ r.err = 0
            /\ Becomes(fdt, r.fdt, Changed(fdt, o, n, v))
  <2>1. o \in Nodes(fdt) /\ HasIn(PropsOf(fdt, o), n)  BY <1>10 DEF HasNode
  <2>2. Tree!Error(c) = 0  BY <1>3, <1>8, <1>10 DEF Tree!Error
  <2>3. Tree!NewTree(c) = Tree!Stored(c, v)  BY <1>3 DEF Tree!NewTree
  <2>4. Tree!Stored(c, v) = Changed(fdt, o, n, v)  BY <1>3, <2>1, StoredIs
  <2>5. Becomes(fdt, r.fdt, Tree!NewTree(c))  BY <1>10, <2>3, <2>4
  <2> QED BY <1>4, <1>5, <1>10, <2>2, <2>5, Changing
<1> QED BY <1>2, <1>6, <1>7, <1>9, <1>10 DEF InplaceOutcome

\* fdt_setprop_inplace_namelen_partial.
LEMMA PartialSteps ==
  ASSUME NEW k \in Nat, NEW e \in Nat, Known(k, e), NEW o \in Nat, NEW n,
         NEW idx \in Nat, NEW v \in Seq(Nat), NEW w, w = <<idx>> \o v,
         NEW c, c = Call("partial", o, n, w),
         NEW r, r = SetpropInplacePartial(fdt, o, n, idx, v), Do(c, r)
  PROVE  TreeInv' /\ Tree!Next
<1>1. Whole(fdt, k, e) /\ fdt.magic = "FDT" /\ fdt.version >= 16  BY KnownIs
<1>2. PartialOutcome(fdt, o, n, idx, v, r)  BY <1>1, PartialDoes
<1>3. /\ c.op = "partial" /\ c.name = n /\ c.val = <<idx>> \o v
      /\ o \notin Nodes(fdt) => c.node = 0
      /\ o \in Nodes(fdt) => c.node # 0 /\ Reading(fdt, content.tree, c.node, o)
  <2>2. /\ c.op = "partial" /\ c.name = n /\ c.val = w
        /\ o \notin Nodes(fdt) => c.node = 0
        /\ o \in Nodes(fdt) => c.node # 0 /\ Reading(fdt, content.tree, c.node, o)
    <3>1. Known(k, e) /\ k \in Nat /\ e \in Nat /\ o \in Nat /\ c = Call("partial", o, n, w)
      OBVIOUS
    <3> QED BY ONLY <3>1, CallIs
  <2> QED BY <2>2
<1>4. c.op \in Tree!NodeOps /\ c.op \notin Tree!Edits
  BY <1>3 DEF Tree!NodeOps, Tree!Edits, Tree!InPlace
<1>5. May(c)  BY <1>4 DEF May
<1>6. CASE NoNode(fdt, o, r)  BY <1>3, <1>4, <1>5, <1>6, NoNodeStep
<1>7. CASE NoProp(fdt, o, n, r)
  <2>1. NoProp(fdt, o, c.name, r) /\ c.op \in {"delprop", "nopprop", "inplace", "partial"}
    BY <1>3, <1>7
  <2> QED BY <1>3, <1>5, <2>1, NoPropStep
<1>8. ASSUME HasNode(fdt, o, n)
      PROVE  Tree!Has(c) /\ c.node # 0 /\ Tree!Old(c) = OldIn(PropsOf(fdt, o), n)
  <2>1. o \in Nodes(fdt) /\ HasIn(PropsOf(fdt, o), n)  BY <1>8 DEF HasNode
  <2>2. (Tree!Has(c) <=> HasIn(PropsOf(fdt, o), n)) /\ Tree!Old(c) = OldOr(PropsOf(fdt, o), n)
    BY <1>3, <2>1, HasIs
  <2> QED BY <1>3, <2>1, <2>2 DEF OldOr
<1>9. Head(c.val) = idx /\ Tail(c.val) = v /\ Head(c.val) + Len(c.val) - 1 = idx + Len(v)
  <2>1. Head(<<idx>> \o v) = idx /\ Tail(<<idx>> \o v) = v /\ Len(<<idx>> \o v) = 1 + Len(v)
        /\ Len(v) \in Nat
    OBVIOUS
  <2>2. idx + (1 + Len(v)) - 1 = idx + Len(v)  BY <2>1
  <2> QED BY <1>3, <2>1, <2>2
<1>10. CASE /\ HasNode(fdt, o, n) /\ Len(OldIn(PropsOf(fdt, o), n)) < idx + Len(v)
            /\ r = Fail(NOSPACE, fdt)
  <2>1. r.fdt = fdt /\ r.err = NOSPACE /\ NOSPACE # 0  BY <1>10 DEF Fail, NOSPACE
  <2>2. Len(Tree!Old(c)) < Head(c.val) + Len(c.val) - 1  BY <1>8, <1>9, <1>10
  <2>3. Tree!Error(c) = NOSPACE  BY <1>3, <1>8, <1>10, <2>2 DEF Tree!Error
  <2> QED BY <1>5, <2>1, <2>3, Wrongly
<1>11. CASE /\ HasNode(fdt, o, n) /\ ~(Len(OldIn(PropsOf(fdt, o), n)) < idx + Len(v)) /\ r.err = 0
            /\ Becomes(fdt, r.fdt, Changed(fdt, o, n, Over(OldIn(PropsOf(fdt, o), n), idx, v)))
  <2> PICK u : u = Over(OldIn(PropsOf(fdt, o), n), idx, v)  OBVIOUS
  <2>1. o \in Nodes(fdt) /\ HasIn(PropsOf(fdt, o), n)  BY <1>11 DEF HasNode
  <2>2. ~(Len(Tree!Old(c)) < Head(c.val) + Len(c.val) - 1)  BY <1>8, <1>9, <1>11
  <2>3. Tree!Error(c) = 0  BY <1>3, <1>8, <1>11, <2>2 DEF Tree!Error
  <2>4. Tree!NewTree(c) = Tree!Stored(c, Tree!Overwritten(Tree!Old(c), Head(c.val), Tail(c.val)))
    BY <1>3 DEF Tree!NewTree
  <2>5. Tree!Overwritten(Tree!Old(c), Head(c.val), Tail(c.val)) = u
    BY <1>8, <1>9, <1>11 DEF Tree!Overwritten, Over
  <2>6. Tree!Stored(c, u) = Changed(fdt, o, n, u)  BY <1>3, <2>1, StoredIs
  <2>7. Becomes(fdt, r.fdt, Tree!NewTree(c))  BY <1>11, <2>4, <2>5, <2>6
  <2> QED BY <1>4, <1>5, <1>11, <2>3, <2>7, Changing
<1> QED BY <1>2, <1>6, <1>7, <1>10, <1>11 DEF PartialOutcome

\* Storing a value, by fdt_setprop or fdt_appendprop.
LEMMA StoreSteps ==
  ASSUME NEW k \in Nat, NEW e \in Nat, Known(k, e), NEW o \in Nodes(fdt), NEW n,
         NEW w, NEW c, c.op \in {"set", "append"}, c.name = n,
         c.node # 0, Reading(fdt, content.tree, c.node, o), RwCheckHeader(fdt) = 0,
         Tree!NewTree(c) = Tree!Stored(c, w), Wants(fdt, o, n, Len(w)) => Tree!Grows(c),
         NEW r, Do(c, r), StoreOutcome(fdt, o, n, w, r)
  PROVE  TreeInv' /\ Tree!Next
<1>1. May(c)  BY DEF May
<1>2. Tree!Error(c) = 0  BY DEF Tree!Error
<1>3. c.op \in Tree!NodeOps  BY DEF Tree!NodeOps
<1>4. Tree!Stored(c, w) = IF HasIn(PropsOf(fdt, o), n) THEN Changed(fdt, o, n, w) ELSE Added(fdt, o, n, w)
  BY StoredIs
<1>5. CASE r.err = NOSPACE /\ Wants(fdt, o, n, Len(w)) /\ Becomes(fdt, r.fdt, TreeOf(fdt))
  <2>1. Unread(r)  BY <1>5 DEF Unread
  <2> QED BY <1>1, <1>2, <1>5, <2>1, Roomless
<1>6. CASE r.err = 0 /\ HasIn(PropsOf(fdt, o), n) /\ Becomes(fdt, r.fdt, Changed(fdt, o, n, w))
  <2>1. Becomes(fdt, r.fdt, Tree!NewTree(c))  BY <1>4, <1>6
  <2> QED BY <1>1, <1>2, <1>3, <1>6, <2>1, Changing
<1>7. CASE r.err = 0 /\ ~HasIn(PropsOf(fdt, o), n) /\ Becomes(fdt, r.fdt, Added(fdt, o, n, w))
  <2>1. Becomes(fdt, r.fdt, Tree!NewTree(c))  BY <1>4, <1>7
  <2> QED BY <1>1, <1>2, <1>3, <1>7, <2>1, Changing
<1> QED BY <1>5, <1>6, <1>7 DEF StoreOutcome

\* fdt_setprop.
LEMMA SetSteps ==
  ASSUME NEW k \in Nat, NEW e \in Nat, Known(k, e), NEW o \in Nat, NEW n \in PropNames,
         NEW v \in Seq(Nat),
         NEW c, c = Call("set", o, n, v), NEW r, r = SetProp(fdt, o, n, v), Do(c, r)
  PROVE  TreeInv' /\ Tree!Next
<1>1. Whole(fdt, k, e) /\ fdt.magic = "FDT" /\ fdt.version >= 16  BY KnownIs
<1>2. SetOutcome(fdt, o, n, v, r)  BY <1>1, SetDoes
<1>3. /\ c.op = "set" /\ c.name = n /\ c.val = v
      /\ o \notin Nodes(fdt) => c.node = 0
      /\ o \in Nodes(fdt) => c.node # 0 /\ Reading(fdt, content.tree, c.node, o)
  BY CallIs
<1>4. c.op \in Tree!NodeOps /\ c.op \in Tree!Edits
  BY <1>3 DEF Tree!NodeOps, Tree!Edits, Tree!InPlace
<1>5. CASE NotWritten(fdt, r)  BY <1>4, <1>5, Unwritten
<1>6. CASE RwCheckHeader(fdt) = 0 /\ NoNode(fdt, o, r)
  <2>1. May(c)  BY <1>6 DEF May
  <2> QED BY <1>3, <1>4, <1>6, <2>1, NoNodeStep
<1>7. CASE RwCheckHeader(fdt) = 0 /\ o \in Nodes(fdt) /\ StoreOutcome(fdt, o, n, v, r)
  <2>1. Tree!NewTree(c) = Tree!Stored(c, v)  BY <1>3 DEF Tree!NewTree
  <2>2. /\ Tree!Has(c) <=> HasIn(PropsOf(fdt, o), n)
        /\ Tree!Old(c) = OldOr(PropsOf(fdt, o), n)
    BY <1>3, <1>7, HasIs
  <2>3. ASSUME Wants(fdt, o, n, Len(v))
        PROVE  Tree!Grows(c)
    <3>1. ~HasIn(PropsOf(fdt, o), n) \/ Len(v) > Len(OldIn(PropsOf(fdt, o), n))  BY <2>3 DEF Wants
    <3>2. ~Tree!Has(c) \/ Len(c.val) > Len(Tree!Old(c))  BY <1>3, <2>2, <3>1 DEF OldOr
    <3> QED BY <1>3, <3>2 DEF Tree!Grows
  <2>4. c.op \in {"set", "append"}  BY <1>3
  <2> QED BY <1>3, <1>7, <2>1, <2>3, <2>4, StoreSteps
<1> QED BY <1>2, <1>5, <1>6, <1>7 DEF SetOutcome

\* fdt_appendprop.
LEMMA AppendSteps ==
  ASSUME NEW k \in Nat, NEW e \in Nat, Known(k, e), NEW o \in Nat, NEW n \in PropNames,
         NEW v \in Seq(Nat),
         NEW c, c = Call("append", o, n, v), NEW r, r = AppendProp(fdt, o, n, v), Do(c, r)
  PROVE  TreeInv' /\ Tree!Next
<1> DEFINE old == OldOr(PropsOf(fdt, o), n)
<1>1. Whole(fdt, k, e) /\ fdt.magic = "FDT" /\ fdt.version >= 16  BY KnownIs
<1> PICK w : w = old \o v  OBVIOUS
<1>2. /\ SetOutcome(fdt, o, n, w, r)
      /\ RwCheckHeader(fdt) = 0 /\ o \in Nodes(fdt) => old \in Seq(Nat)
  <2>1. /\ SetOutcome(fdt, o, n, OldOr(PropsOf(fdt, o), n) \o v, AppendProp(fdt, o, n, v))
        /\ RwCheckHeader(fdt) = 0 /\ o \in Nodes(fdt) => OldOr(PropsOf(fdt, o), n) \in Seq(Nat)
    BY <1>1, AppendDoes
  <2> QED BY <2>1
<1>3. /\ c.op = "append" /\ c.name = n /\ c.val = v
      /\ o \notin Nodes(fdt) => c.node = 0
      /\ o \in Nodes(fdt) => c.node # 0 /\ Reading(fdt, content.tree, c.node, o)
  BY CallIs
<1>4. c.op \in Tree!NodeOps /\ c.op \in Tree!Edits
  BY <1>3 DEF Tree!NodeOps, Tree!Edits, Tree!InPlace
<1>5. CASE NotWritten(fdt, r)  BY <1>4, <1>5, Unwritten
<1>6. CASE RwCheckHeader(fdt) = 0 /\ NoNode(fdt, o, r)
  <2>1. May(c)  BY <1>6 DEF May
  <2> QED BY <1>3, <1>4, <1>6, <2>1, NoNodeStep
<1>7. CASE RwCheckHeader(fdt) = 0 /\ o \in Nodes(fdt) /\ StoreOutcome(fdt, o, n, w, r)
  <2>1. /\ Tree!Has(c) <=> HasIn(PropsOf(fdt, o), n)
        /\ Tree!Old(c) = old
    BY <1>3, <1>7, HasIs
  <2>2. Tree!NewTree(c) = Tree!Stored(c, w)  BY <1>3, <2>1 DEF Tree!NewTree
  <2>3. ASSUME Wants(fdt, o, n, Len(w))
        PROVE  Tree!Grows(c)
    <3>1. ~HasIn(PropsOf(fdt, o), n) \/ Len(w) > Len(OldIn(PropsOf(fdt, o), n))  BY <2>3 DEF Wants
    <3>2. CASE ~HasIn(PropsOf(fdt, o), n)  BY <1>3, <2>1, <3>2 DEF Tree!Grows
    <3>3. CASE HasIn(PropsOf(fdt, o), n)
      <4>1. OldIn(PropsOf(fdt, o), n) = old  BY <3>3 DEF OldOr
      <4>2. Len(w) > Len(old)  BY <3>1, <3>3, <4>1
      <4>3. old \in Seq(Nat)  BY <1>2, <1>7
      <4> HIDE DEF old
      <4>4. v # <<>>
        <5> SUFFICES ASSUME v = <<>> PROVE FALSE
          OBVIOUS
        <5>1. w = old  BY <4>3
        <5>2. Len(old) \in Nat  BY <4>3
        <5> QED BY <4>2, <5>1, <5>2
      <4> QED BY <1>3, <4>4 DEF Tree!Grows
    <3> QED BY <3>2, <3>3
  <2>4. c.op \in {"set", "append"}  BY <1>3
  <2> HIDE DEF old
  <2>5. /\ k \in Nat /\ e \in Nat /\ Known(k, e) /\ o \in Nodes(fdt) /\ c.name = n
        /\ c.node # 0 /\ Reading(fdt, content.tree, c.node, o) /\ RwCheckHeader(fdt) = 0
        /\ Do(c, r) /\ StoreOutcome(fdt, o, n, w, r)
    BY <1>3, <1>7
  <2> QED BY ONLY <2>2, <2>3, <2>4, <2>5, StoreSteps
<1> QED BY <1>2, <1>5, <1>6, <1>7 DEF SetOutcome

\* fdt_set_name.
LEMMA RenameSteps ==
  ASSUME NEW k \in Nat, NEW e \in Nat, Known(k, e), NEW o \in Nat, NEW n \in Seq(Nat \ {0}),
         NEW c, c = Call("rename", o, n, <<>>), NEW r, r = SetName(fdt, o, n), Do(c, r)
  PROVE  TreeInv' /\ Tree!Next
<1>1. Whole(fdt, k, e) /\ fdt.magic = "FDT" /\ fdt.version >= 16  BY KnownIs
<1>2. RenameOutcome(fdt, o, n, r)  BY <1>1, RenameDoes
<1>3. /\ c.op = "rename" /\ c.name = n
      /\ o \notin Nodes(fdt) => c.node = 0
      /\ o \in Nodes(fdt) => c.node # 0 /\ Reading(fdt, content.tree, c.node, o)
  BY CallIs
<1>4. c.op \in Tree!NodeOps /\ c.op \in Tree!Edits
  BY <1>3 DEF Tree!NodeOps, Tree!Edits, Tree!InPlace
<1>5. CASE NotWritten(fdt, r)  BY <1>4, <1>5, Unwritten
<1>6. CASE RwCheckHeader(fdt) = 0 /\ NoNode(fdt, o, r)
  <2>1. May(c)  BY <1>6 DEF May
  <2> QED BY <1>3, <1>4, <1>6, <2>1, NoNodeStep
<1>7. CASE /\ RwCheckHeader(fdt) = 0 /\ o \in Nodes(fdt) /\ r.err = NOSPACE /\ r.fdt = fdt
           /\ Len(n) > Len(GetName(fdt, o))
  <2>1. May(c) /\ Unread(r)  BY <1>7 DEF May, Unread
  <2>2. Tree!Error(c) = 0  BY <1>3, <1>7 DEF Tree!Error
  <2>3. content.tree[c.node].name = GetName(fdt, o)  BY <1>3, <1>7 DEF Reading, NodeAs
  <2>4. Tree!Grows(c)  BY <1>3, <1>7, <2>3 DEF Tree!Grows
  <2> QED BY <1>7, <2>1, <2>2, <2>4, Roomless
<1>8. CASE /\ RwCheckHeader(fdt) = 0 /\ o \in Nodes(fdt) /\ r.err = 0
           /\ Becomes(fdt, r.fdt, Renamed(fdt, o, n))
  <2>1. May(c)  BY <1>8 DEF May
  <2>2. Tree!Error(c) = 0  BY <1>3, <1>8 DEF Tree!Error
  <2>3. Tree!NewTree(c) = [content.tree EXCEPT ![c.node].name = n]  BY <1>3 DEF Tree!NewTree
  <2>4. Tree!NewTree(c) = Renamed(fdt, o, n)  BY <1>3, <1>8, <2>3 DEF Renamed, Reading
  <2>5. Becomes(fdt, r.fdt, Tree!NewTree(c))  BY <1>8, <2>4
  <2> QED BY <1>4, <1>8, <2>1, <2>2, <2>5, Changing
<1> QED BY <1>2, <1>5, <1>6, <1>7, <1>8 DEF RenameOutcome

\* fdt_add_subnode.
LEMMA AddSteps ==
  ASSUME NEW k \in Nat, NEW e \in Nat, Known(k, e), NEW o \in Nat, NEW n \in Seq(Nat \ {0}),
         NEW c, c = Call("add", o, n, <<>>), NEW r, r = AddSubnode(fdt, o, n), Do(c, r)
  PROVE  TreeInv' /\ Tree!Next
<1>1. Whole(fdt, k, e) /\ fdt.magic = "FDT" /\ fdt.version >= 16  BY KnownIs
<1>2. AddOutcome(fdt, o, n, r)  BY <1>1, AddDoes
<1>3. /\ c.op = "add" /\ c.name = n
      /\ o \notin Nodes(fdt) => c.node = 0
      /\ o \in Nodes(fdt) => c.node # 0 /\ Reading(fdt, content.tree, c.node, o)
  BY CallIs
<1>4. c.op \in Tree!NodeOps /\ c.op \in Tree!Edits
  BY <1>3 DEF Tree!NodeOps, Tree!Edits, Tree!InPlace
<1>5. ASSUME o \in Nodes(fdt)
      PROVE  (\E j \in Tree!Children(c.node) : NodenameEq(content.tree[j].name, c.name))
             <=> ChildNamed(fdt, o, n)
  <2>1. content.tree = TreeOf(fdt) /\ c.node = NodeNo(fdt, o)  BY <1>3, <1>5 DEF Reading
  <2>2. Tree!Children(c.node) = ChildrenIn(TreeOf(fdt), NodeNo(fdt, o))  BY <2>1, BelowHere
  <2> QED BY <1>3, <2>1, <2>2 DEF ChildNamed
<1>6. CASE NotWritten(fdt, r)  BY <1>4, <1>6, Unwritten
<1>7. CASE RwCheckHeader(fdt) = 0 /\ NoNode(fdt, o, r)
  <2>1. May(c)  BY <1>7 DEF May
  <2> QED BY <1>3, <1>4, <1>7, <2>1, NoNodeStep
<1>8. CASE /\ RwCheckHeader(fdt) = 0 /\ o \in Nodes(fdt) /\ ChildNamed(fdt, o, n)
           /\ r = Fail(EXISTS, fdt)
  <2>1. May(c) /\ r.fdt = fdt /\ r.err = EXISTS /\ EXISTS # 0  BY <1>8 DEF May, Fail, EXISTS
  <2>2. Tree!Error(c) = EXISTS  BY <1>3, <1>5, <1>8 DEF Tree!Error
  <2> QED BY <2>1, <2>2, Wrongly
<1>9. ASSUME o \in Nodes(fdt), ~ChildNamed(fdt, o, n)
      PROVE  Tree!Error(c) = 0
  BY <1>3, <1>5, <1>9 DEF Tree!Error
<1>10. CASE /\ RwCheckHeader(fdt) = 0 /\ o \in Nodes(fdt) /\ ~ChildNamed(fdt, o, n)
            /\ r.err = NOSPACE /\ r.fdt = fdt
  <2>1. May(c) /\ Unread(r)  BY <1>10 DEF May, Unread
  <2>2. Tree!Grows(c)  BY <1>3 DEF Tree!Grows
  <2> QED BY <1>9, <1>10, <2>1, <2>2, Roomless
<1>11. CASE /\ RwCheckHeader(fdt) = 0 /\ o \in Nodes(fdt) /\ ~ChildNamed(fdt, o, n)
            /\ r.err = 0 /\ Becomes(fdt, r.fdt, WithChild(fdt, o, n))
  <2>1. May(c)  BY <1>11 DEF May
  <2>2. content.tree = TreeOf(fdt) /\ c.node = NodeNo(fdt, o)  BY <1>3, <1>11 DEF Reading
  <2>3. Tree!NewTree(c) = SubSeq(content.tree, 1, c.node)
                          \o <<[depth |-> content.tree[c.node].depth + 1, name |-> c.name, props |-> <<>>]>>
                          \o SubSeq(content.tree, c.node + 1, Len(content.tree))
    BY <1>3 DEF Tree!NewTree, Tree!Node
  <2>4. Tree!NewTree(c) = WithChild(fdt, o, n)  BY <1>3, <2>2, <2>3 DEF WithChild
  <2>5. Becomes(fdt, r.fdt, Tree!NewTree(c))  BY <1>11, <2>4
  <2> QED BY <1>4, <1>9, <1>11, <2>1, <2>5, Changing
<1> QED BY <1>2, <1>6, <1>7, <1>8, <1>10, <1>11 DEF AddOutcome

\* fdt_del_node.
LEMMA DelNodeSteps ==
  ASSUME NEW k \in Nat, NEW e \in Nat, Known(k, e), NEW o \in Nat,
         NEW c, c = Call("del", o, <<>>, <<>>), NEW r, r = DelNode(fdt, o), Do(c, r)
  PROVE  TreeInv' /\ Tree!Next
<1>1. Whole(fdt, k, e) /\ fdt.magic = "FDT" /\ fdt.version >= 16  BY KnownIs
<1>2. DelNodeOutcome(fdt, o, r)  BY <1>1, DelNodeDoes
<1>3. /\ c.op = "del"
      /\ o \notin Nodes(fdt) => c.node = 0
      /\ o \in Nodes(fdt) => c.node # 0 /\ Reading(fdt, content.tree, c.node, o)
  BY CallIs
<1>4. c.op \in Tree!NodeOps /\ c.op \in Tree!Edits
  BY <1>3 DEF Tree!NodeOps, Tree!Edits, Tree!InPlace
<1>5. CASE NotWritten(fdt, r)  BY <1>4, <1>5, Unwritten
<1>6. CASE RwCheckHeader(fdt) = 0 /\ NoNode(fdt, o, r)
  <2>1. May(c)  BY <1>6 DEF May
  <2> QED BY <1>3, <1>4, <1>6, <2>1, NoNodeStep
<1>7. CASE RwCheckHeader(fdt) = 0 /\ o \in Nodes(fdt) /\ r.err = 0 /\ Becomes(fdt, r.fdt, CutOut(fdt, o))
  <2>1. May(c)  BY <1>7 DEF May
  <2>2. Tree!Error(c) = 0  BY <1>3, <1>7 DEF Tree!Error
  <2>3. Tree!NewTree(c) = Cut(c.node)  BY <1>3 DEF Tree!NewTree, Cut
  <2>4. Cut(c.node) = CutOut(fdt, o)  BY <1>1, <1>3, <1>7, CutIs
  <2>5. Becomes(fdt, r.fdt, Tree!NewTree(c))  BY <1>7, <2>3, <2>4
  <2> QED BY <1>4, <1>7, <2>1, <2>2, <2>5, Changing
<1> QED BY <1>2, <1>5, <1>6, <1>7 DEF DelNodeOutcome

\* fdt_nop_node.
LEMMA NopNodeSteps ==
  ASSUME NEW k \in Nat, NEW e \in Nat, Known(k, e), NEW o \in Nat,
         NEW c, c = Call("nop", o, <<>>, <<>>), NEW r, r = NopNode(fdt, o), Do(c, r)
  PROVE  TreeInv' /\ Tree!Next
<1>1. Whole(fdt, k, e) /\ fdt.magic = "FDT" /\ fdt.version >= 16  BY KnownIs
<1>2. NopNodeOutcome(fdt, o, r)  BY <1>1, NopNodeDoes
<1>3. /\ c.op = "nop"
      /\ o \notin Nodes(fdt) => c.node = 0
      /\ o \in Nodes(fdt) => c.node # 0 /\ Reading(fdt, content.tree, c.node, o)
  BY CallIs
<1>4. c.op \in Tree!NodeOps /\ c.op \notin Tree!Edits
  BY <1>3 DEF Tree!NodeOps, Tree!Edits, Tree!InPlace
<1>5. May(c)  BY <1>4 DEF May
<1>6. CASE NoNode(fdt, o, r)  BY <1>3, <1>4, <1>5, <1>6, NoNodeStep
<1>7. CASE o \in Nodes(fdt) /\ r.err = 0 /\ Becomes(fdt, r.fdt, CutOut(fdt, o))
  <2>1. Tree!Error(c) = 0  BY <1>3, <1>7 DEF Tree!Error
  <2>2. Tree!NewTree(c) = Cut(c.node)  BY <1>3 DEF Tree!NewTree, Cut
  <2>3. Cut(c.node) = CutOut(fdt, o)  BY <1>1, <1>3, <1>7, CutIs
  <2>4. Becomes(fdt, r.fdt, Tree!NewTree(c))  BY <1>7, <2>2, <2>3
  <2> QED BY <1>4, <1>5, <1>7, <2>1, <2>4, Changing
<1> QED BY <1>2, <1>6, <1>7 DEF NopNodeOutcome

\* The operations on the whole blob name no node.
BlobOps == {"add_rsv", "del_rsv", "open", "pack", "empty"}

\* What the tree says of these operations.
LEMMA BlobOpIs ==
  ASSUME NEW c, c.op \in BlobOps
  PROVE  /\ c.op \notin Tree!NodeOps
         /\ c.op \in Tree!Edits <=> c.op \in {"add_rsv", "del_rsv", "pack"}
         /\ c.op # "empty" => Tree!NewTree(c) = content.tree
         /\ c.op # "del_rsv" => Tree!Error(c) = 0
<1>1. c.op \notin Tree!NodeOps  BY DEF BlobOps, Tree!NodeOps, Tree!InPlace
<1>2. c.op \in Tree!Edits <=> c.op \in {"add_rsv", "del_rsv", "pack"}
  BY DEF BlobOps, Tree!Edits, Tree!NodeOps, Tree!InPlace
<1>3. c.op # "empty" => Tree!NewTree(c) = content.tree  BY DEF BlobOps, Tree!NewTree
<1>4. c.op # "del_rsv" => Tree!Error(c) = 0  BY <1>1 DEF BlobOps, Tree!Error
<1> QED BY <1>1, <1>2, <1>3, <1>4

\* fdt_add_mem_rsv.
LEMMA AddRsvSteps ==
  ASSUME NEW k \in Nat, NEW e \in Nat, Known(k, e), NEW region \in Nat \ {0},
         NEW v, v = <<region>>, NEW c, c = Call("add_rsv", 1, <<>>, v),
         NEW r, r = AddMemRsv(fdt, region), Do(c, r)
  PROVE  TreeInv' /\ Tree!Next
<1>1. Whole(fdt, k, e) /\ fdt.magic = "FDT" /\ content = Decoded(fdt)  BY KnownIs
<1>2. AddRsvOutcome(fdt, region, r)  BY <1>1, AddRsvDoes
<1>3. c.op = "add_rsv" /\ c.val = v  BY DEF Call
<1>4. c.op \in BlobOps  BY <1>3 DEF BlobOps
<1>5. c.op \in Tree!Edits /\ Tree!NewTree(c) = content.tree /\ Tree!Error(c) = 0
  BY <1>3, <1>4, BlobOpIs
<1>6. CASE NotWritten(fdt, r)  BY <1>5, <1>6, Unwritten
<1>7. CASE RwCheckHeader(fdt) = 0 /\ r.err = NOSPACE /\ r.fdt = fdt
  <2>1. May(c) /\ Unread(r)  BY <1>7 DEF May, Unread
  <2>2. Tree!Grows(c)  BY <1>3 DEF Tree!Grows
  <2> QED BY <1>5, <1>7, <2>1, <2>2, Roomless
<1>8. CASE /\ RwCheckHeader(fdt) = 0 /\ r.err = 0
           /\ Rewritten(fdt, r.fdt, Decoded(fdt).reserved \o <<region>>, TRUE)
  <2>1. May(c)  BY <1>8 DEF May
  <2>2. Tree!NewReserved(c) = content.reserved \o v  BY <1>3 DEF Tree!NewReserved
  <2>3. Tree!NewReserved(c) = Decoded(fdt).reserved \o <<region>>  BY <1>1, <2>2
  <2>4. Rewritten(fdt, r.fdt, Tree!NewReserved(c), TRUE)  BY <1>8, <2>3
  <2> QED BY <1>5, <1>8, <2>1, <2>4, Rewriting
<1> QED BY <1>2, <1>6, <1>7, <1>8 DEF AddRsvOutcome

\* fdt_del_mem_rsv.
LEMMA DelRsvSteps ==
  ASSUME NEW k \in Nat, NEW e \in Nat, Known(k, e), NEW n \in Nat,
         NEW v, v = <<n>>, NEW c, c = Call("del_rsv", 1, <<>>, v),
         NEW r, r = DelMemRsv(fdt, n), Do(c, r)
  PROVE  TreeInv' /\ Tree!Next
<1>1. Whole(fdt, k, e) /\ fdt.magic = "FDT" /\ content = Decoded(fdt)  BY KnownIs
<1>2. DelRsvOutcome(fdt, n, r)  BY <1>1, DelRsvDoes
<1>3. c.op = "del_rsv" /\ c.val = v /\ Head(c.val) = n  BY DEF Call
<1>4. c.op \in BlobOps  BY <1>3 DEF BlobOps
<1>5. c.op \notin Tree!NodeOps /\ c.op \in Tree!Edits /\ Tree!NewTree(c) = content.tree
  BY <1>3, <1>4, BlobOpIs
<1>6. CASE NotWritten(fdt, r)  BY <1>5, <1>6, Unwritten
<1>7. CASE RwCheckHeader(fdt) = 0 /\ n >= Len(Decoded(fdt).reserved) /\ r = Fail(NOTFOUND, fdt)
  <2>1. r.fdt = fdt /\ r.err = NOTFOUND /\ NOTFOUND # 0  BY <1>7 DEF Fail, NOTFOUND
  <2>2. May(c)  BY <1>7 DEF May
  <2>3. Head(c.val) >= Len(content.reserved)  BY <1>1, <1>3, <1>7
  <2>4. Tree!Error(c) = NOTFOUND  BY <1>3, <1>5, <2>3 DEF Tree!Error
  <2> QED BY <2>1, <2>2, <2>4, Wrongly
<1>8. CASE /\ RwCheckHeader(fdt) = 0 /\ n < Len(Decoded(fdt).reserved) /\ r.err = 0
           /\ Rewritten(fdt, r.fdt, RemoveAt(Decoded(fdt).reserved, n + 1), TRUE)
  <2>1. May(c)  BY <1>8 DEF May
  <2>2. content.reserved = ReservedOf(fdt, k)  BY KnownIs
  <2>3. Len(content.reserved) \in Nat  BY <2>2 DEF ReservedOf
  <2>4. ~(Head(c.val) >= Len(content.reserved))  BY <1>1, <1>3, <1>8, <2>3
  <2>5. Tree!Error(c) = 0  BY <1>3, <1>5, <2>4 DEF Tree!Error
  <2>6. Tree!NewReserved(c) = Tree!RemoveAt(content.reserved, Head(c.val) + 1)
    BY <1>3 DEF Tree!NewReserved
  <2>7. Tree!RemoveAt(content.reserved, Head(c.val) + 1) = RemoveAt(content.reserved, Head(c.val) + 1)
    BY SameOperators
  <2>8. RemoveAt(content.reserved, Head(c.val) + 1) = RemoveAt(Decoded(fdt).reserved, n + 1)
    BY <1>1, <1>3
  <2>9. Rewritten(fdt, r.fdt, Tree!NewReserved(c), TRUE)  BY <1>8, <2>6, <2>7, <2>8
  <2> QED BY <1>5, <1>8, <2>1, <2>5, <2>9, Rewriting
<1> QED BY <1>2, <1>6, <1>7, <1>8 DEF DelRsvOutcome

\* fdt_open_into.
LEMMA OpenSteps ==
  ASSUME NEW k \in Nat, NEW e \in Nat, Known(k, e), NEW size \in 1 .. MaxSize,
         NEW inplace \in BOOLEAN, NEW c, c = Call("open", 1, <<>>, <<>>),
         NEW r, r = OpenInto(fdt, size, inplace), Do(c, r)
  PROVE  TreeInv' /\ Tree!Next
<1>1. /\ Whole(fdt, k, e) /\ fdt.magic = "FDT" /\ fdt.version >= 16
      /\ content = Decoded(fdt)
  BY KnownIs
<1>2. OpenOutcome(fdt, r)  BY <1>1, OpenDoes
<1>3. c.op = "open"  BY DEF Call
<1>4. c.op \in BlobOps  BY <1>3 DEF BlobOps
<1>5. c.op \notin Tree!Edits /\ Tree!NewTree(c) = content.tree /\ Tree!Error(c) = 0
  BY <1>3, <1>4, BlobOpIs
<1>6. May(c)  BY <1>5 DEF May
<1>7. CASE r.err = NOSPACE /\ r.fdt = fdt
  <2>1. Unread(r)  BY <1>7 DEF Unread
  <2>2. Tree!Grows(c)  BY <1>3 DEF Tree!Grows
  <2> QED BY <1>5, <1>6, <1>7, <2>1, <2>2, Roomless
<1>8. CASE r.err = 0 /\ Rewritten(fdt, r.fdt, Decoded(fdt).reserved, TRUE)
  <2>1. Tree!NewReserved(c) = Decoded(fdt).reserved  BY <1>1, <1>3 DEF Tree!NewReserved
  <2>2. Rewritten(fdt, r.fdt, Tree!NewReserved(c), TRUE)  BY <1>8, <2>1
  <2> QED BY <1>3, <1>5, <1>6, <1>8, <2>2, Rewriting
<1> QED BY <1>2, <1>7, <1>8 DEF OpenOutcome

\* fdt_pack.
LEMMA PackSteps ==
  ASSUME NEW k \in Nat, NEW e \in Nat, Known(k, e), NEW c, c = Call("pack", 1, <<>>, <<>>),
         NEW r, r = Pack(fdt), Do(c, r)
  PROVE  TreeInv' /\ Tree!Next
<1>1. Whole(fdt, k, e) /\ fdt.magic = "FDT" /\ content = Decoded(fdt)  BY KnownIs
<1>2. PackOutcome(fdt, r)  BY <1>1, PackDoes
<1>3. c.op = "pack"  BY DEF Call
<1>4. c.op \in BlobOps  BY <1>3 DEF BlobOps
<1>5. c.op \in Tree!Edits /\ Tree!NewTree(c) = content.tree /\ Tree!Error(c) = 0
  BY <1>3, <1>4, BlobOpIs
<1>6. CASE NotWritten(fdt, r)  BY <1>5, <1>6, Unwritten
<1>7. CASE RwCheckHeader(fdt) = 0 /\ r.err = 0 /\ Rewritten(fdt, r.fdt, Decoded(fdt).reserved, TRUE)
  <2>1. May(c)  BY <1>7 DEF May
  <2>2. Tree!NewReserved(c) = Decoded(fdt).reserved  BY <1>1, <1>3 DEF Tree!NewReserved
  <2>3. Rewritten(fdt, r.fdt, Tree!NewReserved(c), TRUE)  BY <1>7, <2>2
  <2> QED BY <1>5, <1>7, <2>1, <2>3, Rewriting
<1> QED BY <1>2, <1>6, <1>7 DEF PackOutcome

\* A new tree is made over any blob, one that is being written in order too.
LEMMA EmptySteps ==
  ASSUME TreeInv, NEW size \in 1 .. MaxSize, NEW c, c = Call("empty", 1, <<>>, <<>>),
         NEW r, r = EmptyTree(fdt, size), Do(c, r)
  PROVE  TreeInv' /\ Tree!Next
<1>1. fdt \in Blobs /\ content = Decoded(fdt)  BY DEF TreeInv
<1>2. EmptyOutcome(fdt, r)  BY <1>1, EmptyDoes
<1>3. c.op = "empty"  BY DEF Call
<1>4. c.op \in BlobOps  BY <1>3 DEF BlobOps
<1>5. c.op \notin Tree!Edits /\ Tree!Error(c) = 0  BY <1>3, <1>4, BlobOpIs
<1>6. Tree!Allowed(c)  BY <1>5 DEF Tree!Allowed
<1>7. /\ fdt' = r.fdt /\ content' = Decoded(r.fdt) /\ reply'.call = c /\ reply'.err = r.err
  BY DEF Do
<1>8. CASE r = Fail(NOSPACE, fdt)
  <2>1. r.fdt = fdt /\ r.err = NOSPACE  BY <1>8 DEF Fail
  <2>2. fdt' = fdt /\ content' = content  BY <1>1, <1>7, <2>1
  <2>3. TreeInv'  BY <2>2 DEF TreeInv
  <2>4. Tree!Refused(NOSPACE)  BY <1>7, <2>1, <2>2 DEF Tree!Refused
  <2>5. Tree!Grows(c)  BY <1>3 DEF Tree!Grows
  <2>6. Tree!NoRoom(c)  BY <1>5, <1>6, <2>4, <2>5 DEF Tree!NoRoom
  <2> QED BY <1>7, <2>3, <2>6 DEF Tree!Next
<1>9. CASE /\ r.err = NOSPACE /\ r.fdt \in Blobs /\ r.fdt.magic = "SW" /\ Decoded(r.fdt).reserved = <<>>
           /\ \/ Decoded(r.fdt).tree = <<>> /\ Decoded(r.fdt).writable = FALSE
              \/ Decoded(r.fdt).tree = RootAlone /\ Decoded(r.fdt).writable = TRUE
  <2>0. RootAlone # <<>>  BY DEF RootAlone
  <2>1. /\ content'.reserved = <<>> /\ content'.tree \in {<<>>, RootAlone}
        /\ content'.writable = (content'.tree # <<>>)
    <3>1. content' = Decoded(r.fdt) /\ content'.reserved = <<>>  BY <1>7, <1>9
    <3>2. CASE Decoded(r.fdt).tree = <<>> /\ Decoded(r.fdt).writable = FALSE
      BY <3>1, <3>2
    <3>3. CASE Decoded(r.fdt).tree = RootAlone /\ Decoded(r.fdt).writable = TRUE
      BY <2>0, <3>1, <3>3
    <3> QED BY <1>9, <3>2, <3>3
  <2>2. TreeInv'
    <3>1. fdt' \in Blobs /\ fdt'.magic # "FDT"  BY <1>7, <1>9
    <3>2. content' = Decoded(fdt')  BY <1>7
    <3> QED BY <3>1, <3>2 DEF TreeInv
  <2>3. Tree!Emptied(c)  BY <1>3, <1>7, <1>9, <2>1 DEF Tree!Emptied, Tree!Node, RootAlone
  <2> QED BY <1>7, <2>2, <2>3 DEF Tree!Next
<1>10. CASE /\ r.err = 0 /\ Good(r.fdt) /\ Decoded(r.fdt).tree = RootAlone
            /\ Decoded(r.fdt).reserved = <<>> /\ Decoded(r.fdt).writable = TRUE
  <2>1. TreeInv'  BY <1>10, GoodNext
  <2>2. Tree!NewTree(c) = RootAlone  BY <1>3 DEF Tree!NewTree, Tree!Node, RootAlone
  <2>3. Tree!NewReserved(c) = <<>>  BY <1>3 DEF Tree!NewReserved
  <2>4. content'.writable = (content.writable \/ c.op \in {"open", "empty"})
    BY <1>3, <1>7, <1>10
  <2>5. Tree!Succeed(c)  BY <1>5, <1>6, <1>7, <1>10, <2>2, <2>3, <2>4 DEF Tree!Succeed
  <2> QED BY <1>7, <2>1, <2>5 DEF Tree!Next
<1> QED BY <1>2, <1>8, <1>9, <1>10 DEF EmptyOutcome

-----------------------------------------------------------------------------
\* The refinement.

\* One call on the blob, on a node or on a property is a step of the tree.
LEMMA BlobSteps ==
  ASSUME NEW k \in Nat, NEW e \in Nat, Known(k, e), OnBlob
  PROVE  TreeInv' /\ Tree!Next
<1>1. CASE \E r \in Regions : Do(Call("add_rsv", 1, <<>>, <<r>>), AddMemRsv(fdt, r))
  <2>1. PICK r \in Regions : Do(Call("add_rsv", 1, <<>>, <<r>>), AddMemRsv(fdt, r))  BY <1>1
  <2>2. r \in Nat \ {0}  BY FdtEditAssumption
  <2> QED BY <2>1, <2>2, AddRsvSteps
<1>2. CASE \E n \in 0 .. 1 : Do(Call("del_rsv", 1, <<>>, <<n>>), DelMemRsv(fdt, n))
  <2>1. PICK n \in 0 .. 1 : Do(Call("del_rsv", 1, <<>>, <<n>>), DelMemRsv(fdt, n))  BY <1>2
  <2>2. n \in Nat  OBVIOUS
  <2> QED BY <2>1, <2>2, DelRsvSteps
<1>3. CASE \E size \in BufSizes, inplace \in BOOLEAN :
             Do(Call("open", 1, <<>>, <<>>), OpenInto(fdt, size, inplace))
  <2>1. PICK size \in BufSizes, inplace \in BOOLEAN :
               Do(Call("open", 1, <<>>, <<>>), OpenInto(fdt, size, inplace))
    BY <1>3
  <2>2. size \in 1 .. MaxSize  BY FdtEditAssumption
  <2> QED BY <2>1, <2>2, OpenSteps
<1>4. CASE Do(Call("pack", 1, <<>>, <<>>), Pack(fdt))  BY <1>4, PackSteps
<1> QED BY <1>1, <1>2, <1>3, <1>4 DEF OnBlob

\* The calls on a node.
LEMMA NodeSteps ==
  ASSUME NEW k \in Nat, NEW e \in Nat, Known(k, e), NEW o \in Nat, OnNode(o)
  PROVE  TreeInv' /\ Tree!Next
<1>1. CASE \E n \in NodeNames : Do(Call("rename", o, n, <<>>), SetName(fdt, o, n))
  <2>1. PICK n \in NodeNames : Do(Call("rename", o, n, <<>>), SetName(fdt, o, n))  BY <1>1
  <2>2. n \in Seq(Nat \ {0})  BY FdtEditAssumption
  <2> QED BY <2>1, <2>2, RenameSteps
<1>2. CASE \E n \in NodeNames : Do(Call("add", o, n, <<>>), AddSubnode(fdt, o, n))
  <2>1. PICK n \in NodeNames : Do(Call("add", o, n, <<>>), AddSubnode(fdt, o, n))  BY <1>2
  <2>2. n \in Seq(Nat \ {0})  BY FdtEditAssumption
  <2> QED BY <2>1, <2>2, AddSteps
<1>3. CASE Do(Call("del", o, <<>>, <<>>), DelNode(fdt, o))  BY <1>3, DelNodeSteps
<1>4. CASE Do(Call("nop", o, <<>>, <<>>), NopNode(fdt, o))  BY <1>4, NopNodeSteps
<1> QED BY <1>1, <1>2, <1>3, <1>4 DEF OnNode

\* The calls on a property.
LEMMA PropertySteps ==
  ASSUME NEW k \in Nat, NEW e \in Nat, Known(k, e), NEW o \in Nat, NEW n \in PropNames,
         OnProperty(o, n)
  PROVE  TreeInv' /\ Tree!Next
<1>1. CASE Do(Call("delprop", o, n, <<>>), DelProp(fdt, o, n))  BY <1>1, DelPropSteps
<1>2. CASE Do(Call("nopprop", o, n, <<>>), NopProperty(fdt, o, n))  BY <1>2, NopPropSteps
<1>3. ASSUME NEW v \in Values
      PROVE  v \in Seq(Nat)
  BY FdtEditAssumption
<1>4. CASE \E v \in Values : Do(Call("set", o, n, v), SetProp(fdt, o, n, v))
  <2>1. PICK v \in Values : Do(Call("set", o, n, v), SetProp(fdt, o, n, v))  BY <1>4
  <2> QED BY <1>3, <2>1, SetSteps
<1>5. CASE \E v \in Values : Do(Call("append", o, n, v), AppendProp(fdt, o, n, v))
  <2>1. PICK v \in Values : Do(Call("append", o, n, v), AppendProp(fdt, o, n, v))  BY <1>5
  <2> QED BY <1>3, <2>1, AppendSteps
<1>6. CASE \E v \in Values : Do(Call("inplace", o, n, v), SetpropInplace(fdt, o, n, v))
  <2>1. PICK v \in Values : Do(Call("inplace", o, n, v), SetpropInplace(fdt, o, n, v))  BY <1>6
  <2> QED BY <1>3, <2>1, InplaceSteps
<1>7. CASE \E v \in Values, idx \in Indexes :
             Do(Call("partial", o, n, <<idx>> \o v), SetpropInplacePartial(fdt, o, n, idx, v))
  <2>1. PICK v \in Values, idx \in Indexes :
               Do(Call("partial", o, n, <<idx>> \o v), SetpropInplacePartial(fdt, o, n, idx, v))
    BY <1>7
  <2>2. idx \in Nat /\ v \in Seq(Nat)  BY <1>3, FdtEditAssumption
  <2> PICK w : w = <<idx>> \o v  OBVIOUS
  <2>3. Do(Call("partial", o, n, w), SetpropInplacePartial(fdt, o, n, idx, v))  BY <2>1
  <2> QED BY <2>2, <2>3, PartialSteps
<1> QED BY <1>1, <1>2, <1>4, <1>5, <1>6, <1>7 DEF OnProperty

\* Every call is a step of the tree.
LEMMA TreeNext == TreeInv /\ Next => TreeInv' /\ Tree!Next
<1> SUFFICES ASSUME TreeInv, Next PROVE TreeInv' /\ Tree!Next
  OBVIOUS
<1>1. ASSUME fdt.magic = "FDT"
      PROVE  \E k, e \in Nat : Known(k, e)
  <2>1. Good(fdt) /\ content = Decoded(fdt)  BY <1>1 DEF TreeInv
  <2> QED BY <2>1 DEF Good, Known
<1>2. CASE fdt.magic = "FDT" /\ OnBlob
  <2>1. PICK k \in Nat, e \in Nat : Known(k, e)  BY <1>1, <1>2
  <2> QED BY <1>2, <2>1, BlobSteps
<1>3. CASE fdt.magic = "FDT" /\ \E o \in Offsets : OnNode(o) \/ \E n \in PropNames : OnProperty(o, n)
  <2>1. PICK k \in Nat, e \in Nat : Known(k, e)  BY <1>1, <1>3
  <2>2. PICK o \in Offsets : OnNode(o) \/ \E n \in PropNames : OnProperty(o, n)  BY <1>3
  <2>3. o \in Nat  BY FdtRwAssumption DEF Offsets
  <2>4. CASE OnNode(o)  BY <2>1, <2>3, <2>4, NodeSteps
  <2>5. CASE \E n \in PropNames : OnProperty(o, n)
    <3>1. PICK n \in PropNames : OnProperty(o, n)  BY <2>5
    <3> QED BY <2>1, <2>3, <3>1, PropertySteps
  <2> QED BY <2>2, <2>4, <2>5
<1>4. CASE \E size \in BufSizes : Do(Call("empty", 1, <<>>, <<>>), EmptyTree(fdt, size))
  <2>1. PICK size \in BufSizes : Do(Call("empty", 1, <<>>, <<>>), EmptyTree(fdt, size))  BY <1>4
  <2>2. size \in 1 .. MaxSize  BY FdtEditAssumption
  <2> QED BY <2>1, <2>2, EmptySteps
<1> QED BY <1>2, <1>3, <1>4 DEF Next

\* The blobs at the start hold one tree each.
LEMMA TreeStart == Init => TreeInv
<1> SUFFICES ASSUME Init PROVE TreeInv
  OBVIOUS
<1>1. /\ fdt \in Blobs /\ fdt.magic = "FDT" /\ fdt.version >= 16
      /\ Apart(fdt) /\ Sound(fdt) /\ Nested(fdt) /\ content = Decoded(fdt)
  BY SourcesAssumption DEF Init
<1>2. PICK k \in Nat, e \in Nat : Holds(fdt, k, e)  BY <1>1, SoundFine DEF Fine
<1>3. Shaped(fdt, e) /\ InReach(fdt, e)  BY <1>1, <1>2, NestedIs
<1>4. Whole(fdt, k, e)  BY <1>1, <1>2, <1>3 DEF Whole
<1> QED BY <1>1, <1>4 DEF TreeInv, Good

\* A node is no higher than the root.
LEMMA DepthNat ==
  ASSUME NEW b, NEW k \in Nat, NEW e \in Nat, Whole(b, k, e), NEW o \in Nodes(b)
  PROVE  Depth(b, 0, o) \in Nat
<1>1. b \in Blobs /\ Holds(b, k, e) /\ Shaped(b, e)  BY DEF Whole
<1>2. o \in 0 .. e - 1 /\ At(b, o).tag = "begin"  BY <1>1, NodesAre
<1>3. Depth(b, 0, o) = Net(b, 1, o + 1)
  <2>1. 0 \in Int /\ o \in Int /\ 0 + 1 = 1  BY <1>2
  <2> QED BY <2>1, DepthIs
<1>4. Net(b, 1, o + 1) \in Int
  <2>1. 1 \in Int /\ o + 1 \in Int  BY <1>2
  <2> QED BY <2>1, NetType
<1>5. CASE o = 0
  <2>1. Net(b, 1, 1) = 0  BY NetNone
  <2> QED BY <1>3, <1>5, <2>1
<1>6. CASE o > 0
  <2>1. o \in 1 .. e - 1  BY <1>2, <1>6
  <2>2. At(b, 0).tag = "begin" /\ Net(b, 0, o) >= 1  BY <1>1, <1>2, <2>1 DEF Shaped
  <2>3. Net(b, 0, 0 + 1) = 1  BY <2>2, NetOne
  <2>4. Net(b, o, o + 1) = 1  BY <1>2, NetOne
  <2>5. Net(b, 0, o + 1) = Net(b, 0, o) + Net(b, o, o + 1)  BY <1>2, NetJoin
  <2>6. Net(b, 0, o + 1) = Net(b, 0, 1) + Net(b, 1, o + 1)  BY <1>2, NetJoin
  <2>7. Net(b, 0, o) \in Int  BY <1>2, NetType
  <2>8. Net(b, 1, o + 1) >= 0  BY <1>4, <2>2, <2>3, <2>4, <2>5, <2>6, <2>7
  <2> QED BY <1>3, <1>4, <2>8
<1> QED BY <1>2, <1>5, <1>6

Property == Seq(Nat) \X Seq(Nat)
NodeType == [depth : Nat, name : Seq(Nat), props : Seq(Property)]

\* The properties of a node are names with values.
LEMMA PropsType ==
  ASSUME NEW b, NEW k \in Nat, NEW e \in Nat, Whole(b, k, e), NEW o \in Nodes(b)
  PROVE  PropsOf(b, o) \in Seq(Property)
<1>1. b \in Blobs /\ Holds(b, k, e)  BY DEF Whole
<1>2. o \in 0 .. e - 1  BY <1>1, NodesAre
<1>3. /\ Properties(b, o) \in SUBSET Int /\ IsFiniteSet(Properties(b, o))
      /\ \A q \in Properties(b, o) : q \in 0 .. e - 1 /\ At(b, q).tag = "prop"
  BY <1>1, <1>2, NodesAre
<1>4. ASSUME NEW q \in Properties(b, o)
      PROVE  PairAt(b, q) \in Property
  <2>1. q \in 0 .. e - 1 /\ At(b, q).tag = "prop"  BY <1>3
  <2>2. Value(b, q) \in Seq(Nat)  BY <1>1, <2>1, ValueLemma
  <2>3. Keeps(b, b)  BY DEF Keeps
  <2>4. StringAt(b, At(b, q).x) \in Seq(Nat)  BY <1>1, <2>1, <2>3, StringSame
  <2> QED BY <2>2, <2>4 DEF PairAt, Property
<1>5. Numbers(Properties(b, o))  BY <1>3 DEF Numbers
<1>6. PairsAt(b, Properties(b, o)) \in Seq(Property)  BY <1>4, <1>5, PairsType
<1> QED BY <1>6 DEF PropsOf, PairsAt

\* What is read is a tree and a list of regions.
LEMMA TreeType ==
  ASSUME NEW b, NEW k \in Nat, NEW e \in Nat, Whole(b, k, e)
  PROVE  TreeOf(b) \in Seq(NodeType) /\ ReservedOf(b, k) \in Seq(Nat)
<1>1. b \in Blobs /\ Holds(b, k, e)  BY DEF Whole
<1>2. Nodes(b) \in SUBSET Int /\ IsFiniteSet(Nodes(b))  BY <1>1, NodesAre
<1>3. ASSUME NEW o \in Nodes(b)
      PROVE  NodesAs(b)[o] \in NodeType
  <2>1. o \in 0 .. e - 1 /\ At(b, o).tag = "begin"  BY <1>1, NodesAre
  <2>2. GetName(b, o) \in Seq(Nat)  BY <1>1, <2>1, GetNameLemma
  <2>3. Depth(b, 0, o) \in Nat  BY DepthNat
  <2>4. PropsOf(b, o) \in Seq(Property)  BY PropsType
  <2>5. NodeAs(b, o) \in NodeType  BY <2>2, <2>3, <2>4 DEF NodeAs, NodeType
  <2> QED BY <1>2, <2>5 DEF NodesAs
<1> PICK F : F = NodesAs(b)  OBVIOUS
<1>4. \A o \in Nodes(b) : F[o] \in NodeType  BY <1>3
<1>5. InTurn(Nodes(b), F) \in Seq(NodeType)  BY <1>2, <1>4, InTurnType
<1>6. TreeOf(b) \in Seq(NodeType)  BY <1>5 DEF TreeOf
<1>7. ReservedOf(b, k) \in [1 .. k -> Nat]
  <2>1. ASSUME NEW i \in 1 .. k
        PROVE  b.mem[b.off_mem_rsvmap + (i - 1)].x \in Nat
    <3>1. b.off_mem_rsvmap + k + 1 <= b.totalsize  BY <1>1 DEF Holds
    <3>2. b.off_mem_rsvmap \in Nat /\ b.totalsize \in 0 .. MaxSize  BY <1>1, BlobFields
    <3>3. b.off_mem_rsvmap + (i - 1) \in 0 .. 2 * MaxSize - 1  BY <3>1, <3>2, FdtRwAssumption
    <3>4. b.off_mem_rsvmap + (i - 1) \in Memory  BY <3>3 DEF Memory
    <3> QED BY <1>1, <3>4 DEF Blobs
  <2> QED BY <2>1 DEF ReservedOf
<1>8. ReservedOf(b, k) \in Seq(Nat)  BY <1>7
<1> QED BY <1>6, <1>8

\* So the start is one of the tree.
LEMMA AbstractStart == Init => Tree!Init
<1> SUFFICES ASSUME Init PROVE Tree!Init
  OBVIOUS
<1>1. TreeInv /\ fdt.magic = "FDT"  BY TreeStart, SourcesAssumption DEF Init
<1>2. PICK k \in Nat, e \in Nat : Known(k, e)  BY <1>1 DEF TreeInv, Good, Known
<1>3. /\ Whole(fdt, k, e) /\ content.tree = TreeOf(fdt) /\ content.reserved = ReservedOf(fdt, k)
      /\ content.writable = (RwCheckHeader(fdt) = 0)
  BY <1>2, KnownIs
<1>4. content.tree \in Seq(NodeType) /\ content.reserved \in Seq(Nat)  BY <1>3, TreeType
<1>5. content.writable \in BOOLEAN  BY <1>3
<1>6. reply.err = 0  BY DEF Init
<1> QED BY <1>4, <1>5, <1>6 DEF Tree!Init, NodeType, Property

\* The invariant implies the sound structure.
LEMMA TreeMeans == TreeInv => StructureSound
<1> SUFFICES ASSUME TreeInv, fdt.magic = "FDT" PROVE Sound(fdt) /\ Nested(fdt)
  BY DEF StructureSound
<1>1. PICK k \in Nat, e \in Nat : Whole(fdt, k, e)  BY DEF TreeInv, Good
<1>2. fdt \in Blobs /\ Holds(fdt, k, e) /\ Shaped(fdt, e) /\ InReach(fdt, e)  BY <1>1 DEF Whole
<1> QED BY <1>2, HoldsSound, NestedIs

\* A step keeps the invariant and is a step of the tree or none.
LEMMA TreeStays == TreeInv /\ [Next]_vars =>
                     /\ TreeInv'
                     /\ [Tree!Next]_<<content.tree, content.reserved, content.writable, reply>>
<1>1. CASE TreeInv /\ UNCHANGED vars
  <2>1. fdt' = fdt /\ content' = content /\ reply' = reply  BY <1>1 DEF vars
  <2>2. TreeInv'
    <3>1. fdt \in Blobs /\ content = Decoded(fdt) /\ (fdt.magic = "FDT" => Good(fdt))
      BY <1>1 DEF TreeInv
    <3>2. fdt' \in Blobs /\ content' = Decoded(fdt') /\ (fdt'.magic = "FDT" => Good(fdt'))
      BY <2>1, <3>1
    <3> QED BY <3>2 DEF TreeInv
  <2> QED BY <2>1, <2>2
<1> QED BY <1>1, TreeNext

\* However the blob is edited, the structure stays one tree behind a root, its tags
\* follow one another to the END, and every property has a name (fdt_rw.c, fdt_wip.c).
THEOREM StructureSoundHolds == Spec => []StructureSound
<1>1. Spec => []TreeInv  BY TreeStart, TreeStays, PTL DEF Spec
<1> QED BY <1>1, TreeMeans, PTL

\* Every call has the effect on the tree that FdtTree promises, for buffers, blobs,
\* names and values of any size.
THEOREM TreeRefinement == Spec => ImplementsTree
<1>1. ImplementsTree <=> /\ Tree!Init
                         /\ [][Tree!Next]_<<content.tree, content.reserved, content.writable, reply>>
  BY PTL DEF ImplementsTree, Tree!Spec
<1> QED BY <1>1, TreeStart, AbstractStart, TreeStays, PTL DEF Spec
=============================================================================
