----------------------------- MODULE FdtEditProofs -----------------------------
(***************************************************************************)
(* The write functions of libfdt keep a blob in order: proofs that blocks  *)
(* stay apart and tags follow one another to the END, for blobs, buffers,  *)
(* names and values of any size.                                           *)
(*                                                                         *)
(* The structure is a run of elements: a tag with the cells of its name or *)
(* value.  A run can be moved, cut between two elements and joined with    *)
(* another, and every function that writes cuts, joins and moves runs.     *)
(***************************************************************************)
EXTENDS FdtEdit, FiniteSetTheorems, SequenceTheorems, WellFoundedInduction, TLAPS

Opens == {"begin", "prop", "end_node", "nop"}

\* A NUL is one of the two bytes of the cell.
HasNul(c) == 0 \in {c.x, c.y}

\* The cells p to n - 1 of the memory m are a tag and what belongs to it.
Elem(m, p, n) ==
  /\ m[p].tag \in Opens
  /\ \A i \in p + 1 .. n - 1 : m[i].tag \notin Opens /\ m[i].tag # "end"
  /\ m[p].tag = "prop" => Units(m[p].y) = n - p - 1
  /\ m[p].tag = "begin" => /\ p + 1 < n /\ HasNul(m[n - 1])
                           /\ \A i \in p + 1 .. n - 2 : ~HasNul(m[i])
  /\ m[p].tag \in {"end_node", "nop"} => n = p + 1

\* The cells s to e - 1 are elements, one behind the other.
Run(m, s, e) ==
  /\ s < e => m[s].tag \in Opens
  /\ \A p \in s .. e - 1 : m[p].tag # "end"
  /\ \A p \in s .. e - 1 : m[p].tag \in Opens =>
       \E n \in p + 1 .. e : Elem(m, p, n) /\ (n < e => m[n].tag \in Opens)

\* At x among the strings, sl cells from str on, is n with its NUL.
IsString(m, str, sl, x, n) ==
  /\ x \in Nat /\ x + Len(n) + 1 <= sl
  /\ \A i \in 1 .. Len(n) + 1 : m[str + x + i - 1].x = IF i <= Len(n) THEN n[i] ELSE 0

\* The properties among the cells s to e - 1 have names.
Named(m, s, e, str, sl) ==
  \A p \in s .. e - 1 : m[p].tag = "prop" => \E n \in PropNames : IsString(m, str, sl, m[p].x, n)

\* From r on, k entries and the terminator.
RsvMap(m, r, k) == m[r + k].x = 0 /\ \A i \in 0 .. k - 1 : m[r + i].x # 0

Disjoint(s, e, t, f) == e <= t \/ f <= s

\* A blob with k reserved regions and END in cell e of its structure.
Holds(b, k, e) ==
  /\ RsvMap(b.mem, b.off_mem_rsvmap, k)
  /\ Run(b.mem, b.off_dt_struct, b.off_dt_struct + e)
  /\ b.mem[b.off_dt_struct + e].tag = "end"
  /\ Named(b.mem, b.off_dt_struct, b.off_dt_struct + e, b.off_dt_strings, b.size_dt_strings)
  /\ b.version >= 17 => b.size_dt_struct = e + 1
  /\ RsvStart <= b.off_mem_rsvmap /\ b.off_mem_rsvmap + k + 1 <= b.totalsize
  /\ RsvStart <= b.off_dt_struct /\ b.off_dt_struct + e + 1 <= b.totalsize
  /\ RsvStart <= b.off_dt_strings /\ b.off_dt_strings + b.size_dt_strings <= b.totalsize
  /\ Disjoint(b.off_mem_rsvmap, b.off_mem_rsvmap + k + 1, b.off_dt_struct, b.off_dt_struct + e + 1)
  /\ Disjoint(b.off_mem_rsvmap, b.off_mem_rsvmap + k + 1,
              b.off_dt_strings, b.off_dt_strings + b.size_dt_strings)
  /\ Disjoint(b.off_dt_struct, b.off_dt_struct + e + 1,
              b.off_dt_strings, b.off_dt_strings + b.size_dt_strings)

Fine(b) == b \in Blobs /\ (b.magic = "FDT" => \E k, e \in Nat : Holds(b, k, e))

IInv == Fine(fdt)
-----------------------------------------------------------------------------
\* Numbers and sets of numbers.

LEMMA MinLemma ==
  ASSUME NEW S \in SUBSET Nat, S # {}
  PROVE  Min(S) \in S /\ \A y \in S : Min(S) <= y
<1>1. \E x \in S : \A y \in S : ~(<<y, x>> \in OpToRel(<, Nat))
  BY NatLessThanWellFounded, WFMin
<1>2. PICK x \in S : \A y \in S : ~(<<y, x>> \in OpToRel(<, Nat))  BY <1>1
<1>3. ASSUME NEW y \in S PROVE x <= y
  <2>1. <<y, x>> \in Nat \X Nat  OBVIOUS
  <2>2. ~(y < x)  BY <1>2, <2>1 DEF OpToRel
  <2> QED BY <2>2
<1> QED BY <1>3 DEF Min

LEMMA LowestLemma ==
  ASSUME NEW S \in SUBSET Nat, NEW other
  PROVE  \/ S = {} /\ Lowest(S, other) = other
         \/ /\ S # {} /\ Lowest(S, other) \in S
            /\ \A y \in S : Lowest(S, other) <= y
BY MinLemma DEF Lowest

\* A least member is what Min and Lowest give.
LEMMA LowestIs ==
  ASSUME NEW S \in SUBSET Nat, NEW x \in S, \A y \in S : x <= y, NEW other
  PROVE  Min(S) = x /\ Lowest(S, other) = x
<1>1. S # {} OBVIOUS
<1>2. Min(S) \in S /\ \A y \in S : Min(S) <= y
  <2> HIDE DEF Min
  <2> QED BY <1>1, MinLemma
<1>3. Min(S) \in Nat /\ x \in Nat /\ Min(S) <= x /\ x <= Min(S)  BY <1>2
<1>4. Min(S) = x  BY <1>3
<1> QED BY <1>1, <1>4 DEF Lowest

LEMMA UnitsLemma ==
  ASSUME NEW n \in Nat
  PROVE  Units(n) \in Nat /\ 2 * Units(n) >= n /\ 2 * Units(n) <= n + 1
BY DEF Units
-----------------------------------------------------------------------------
\* Runs: joined, cut, moved.

LEMMA RunJoin ==
  ASSUME NEW m, NEW s \in Nat, NEW t \in Nat, NEW e \in Nat, s <= t, t <= e,
         Run(m, s, t), Run(m, t, e)
  PROVE  Run(m, s, e)
<1>1. s < e => m[s].tag \in Opens
  <2>1. CASE s < t  BY <2>1 DEF Run
  <2>2. CASE s = t  BY <2>2 DEF Run
  <2> QED BY <2>1, <2>2
<1>2. ASSUME NEW p \in s .. e - 1 PROVE m[p].tag # "end"
  <2>1. p \in s .. t - 1 \/ p \in t .. e - 1  OBVIOUS
  <2> QED BY <2>1 DEF Run
<1>3. ASSUME NEW p \in s .. e - 1, m[p].tag \in Opens
      PROVE  \E n \in p + 1 .. e : Elem(m, p, n) /\ (n < e => m[n].tag \in Opens)
  <2>1. CASE p \in s .. t - 1
    <3>1. PICK n \in p + 1 .. t : Elem(m, p, n) /\ (n < t => m[n].tag \in Opens)
      BY <1>3, <2>1 DEF Run
    <3>2. n < e => m[n].tag \in Opens
      <4>1. n < t \/ n = t  BY <2>1
      <4> QED BY <3>1, <4>1 DEF Run
    <3>3. n \in p + 1 .. e  BY <2>1
    <3> QED BY <3>1, <3>2, <3>3
  <2>2. CASE p \in t .. e - 1
    BY <1>3, <2>2 DEF Run
  <2> QED BY <2>1, <2>2
<1> QED BY <1>1, <1>2, <1>3 DEF Run

LEMMA RunCut ==
  ASSUME NEW m, NEW s \in Nat, NEW t \in Nat, NEW e \in Nat, s <= t, t <= e,
         Run(m, s, e), t < e => m[t].tag \in Opens
  PROVE  Run(m, s, t) /\ Run(m, t, e)
<1>1. ASSUME NEW p \in s .. t - 1, m[p].tag \in Opens
      PROVE  \E n \in p + 1 .. t : Elem(m, p, n) /\ (n < t => m[n].tag \in Opens)
  <2>0. p \in s .. e - 1  OBVIOUS
  <2>1. PICK n \in p + 1 .. e : Elem(m, p, n) /\ (n < e => m[n].tag \in Opens)
    BY <1>1, <2>0 DEF Run
  <2>2. n <= t
    <3>1. SUFFICES ASSUME t < n PROVE FALSE  OBVIOUS
    <3>2. t \in p + 1 .. n - 1 /\ t < e  BY <3>1
    <3> QED BY <3>2, <2>1 DEF Elem
  <2>3. n \in p + 1 .. t /\ (n < t => n < e)  BY <2>2
  <2> QED BY <2>1, <2>3
<1>2. Run(m, s, t)
  <2>1. s < t => m[s].tag \in Opens  BY DEF Run
  <2>2. \A p \in s .. t - 1 : m[p].tag # "end"  BY DEF Run
  <2> QED BY <1>1, <2>1, <2>2 DEF Run
<1>3. Run(m, t, e)
  <2>1. \A p \in t .. e - 1 : p \in s .. e - 1  OBVIOUS
  <2> QED BY <2>1 DEF Run
<1> QED BY <1>2, <1>3

LEMMA ElemMoved ==
  ASSUME NEW m, NEW m2, NEW p \in Nat, NEW n \in Nat, NEW d \in Int, p < n, p + d \in Nat,
         \A i \in p .. n - 1 : m2[i + d] = m[i],
         Elem(m, p, n)
  PROVE  Elem(m2, p + d, n + d)
<1>1. m2[p + d] = m[p]  OBVIOUS
<1>2. ASSUME NEW i \in p + d + 1 .. n + d - 1
      PROVE  i - d \in p + 1 .. n - 1 /\ m2[i] = m[i - d]
  <2>1. i - d \in p .. n - 1 /\ i - d \in p + 1 .. n - 1 /\ (i - d) + d = i  OBVIOUS
  <2> QED BY <2>1
<1>3. \A i \in p + d + 1 .. n + d - 1 : m2[i].tag \notin Opens /\ m2[i].tag # "end"
  BY <1>2 DEF Elem
<1>4. (n + d) - (p + d) - 1 = n - p - 1  OBVIOUS
<1>5. m2[p + d].tag = "prop" => Units(m2[p + d].y) = (n + d) - (p + d) - 1
  BY <1>1, <1>4 DEF Elem
<1>6. m2[p + d].tag = "begin" => /\ p + d + 1 < n + d /\ HasNul(m2[n + d - 1])
                                 /\ \A i \in p + d + 1 .. n + d - 2 : ~HasNul(m2[i])
  <2> SUFFICES ASSUME m[p].tag = "begin"
      PROVE  /\ p + d + 1 < n + d /\ HasNul(m2[n + d - 1])
             /\ \A i \in p + d + 1 .. n + d - 2 : ~HasNul(m2[i])
    BY <1>1
  <2>1. p + 1 < n /\ HasNul(m[n - 1]) /\ \A i \in p + 1 .. n - 2 : ~HasNul(m[i])  BY DEF Elem
  <2>2. n + d - 1 \in p + d + 1 .. n + d - 1 /\ (n + d - 1) - d = n - 1  BY <2>1
  <2>3. m2[n + d - 1] = m[n - 1]  BY <1>2, <2>2
  <2>4. ASSUME NEW i \in p + d + 1 .. n + d - 2 PROVE ~HasNul(m2[i])
    <3>1. i \in p + d + 1 .. n + d - 1 /\ i - d \in p + 1 .. n - 2  OBVIOUS
    <3> QED BY <1>2, <2>1, <3>1
  <2> QED BY <2>1, <2>3, <2>4
<1>7. m2[p + d].tag \in {"end_node", "nop"} => n + d = p + d + 1
  BY <1>1 DEF Elem
<1>8. m2[p + d].tag \in Opens  BY <1>1 DEF Elem
<1> QED BY <1>3, <1>5, <1>6, <1>7, <1>8 DEF Elem

LEMMA RunMoved ==
  ASSUME NEW m, NEW m2, NEW s \in Nat, NEW e \in Nat, NEW d \in Int, s <= e, s + d \in Nat,
         \A i \in s .. e - 1 : m2[i + d] = m[i],
         Run(m, s, e)
  PROVE  Run(m2, s + d, e + d)
<1>1. ASSUME NEW i \in s + d .. e + d - 1
      PROVE  i - d \in s .. e - 1 /\ m2[i] = m[i - d]
  <2>1. i - d \in s .. e - 1 /\ (i - d) + d = i  OBVIOUS
  <2> QED BY <2>1
<1>2. s + d < e + d => m2[s + d].tag \in Opens
  BY DEF Run
<1>3. \A i \in s + d .. e + d - 1 : m2[i].tag # "end"
  BY <1>1 DEF Run
<1>4. ASSUME NEW p \in s + d .. e + d - 1, m2[p].tag \in Opens
      PROVE  \E n \in p + 1 .. e + d : Elem(m2, p, n) /\ (n < e + d => m2[n].tag \in Opens)
  <2>1. p - d \in s .. e - 1 /\ p - d \in Nat /\ m[p - d].tag \in Opens  BY <1>1, <1>4
  <2>2. PICK n \in (p - d) + 1 .. e : Elem(m, p - d, n) /\ (n < e => m[n].tag \in Opens)
    BY <2>1 DEF Run
  <2>3. \A i \in p - d .. n - 1 : i \in s .. e - 1  BY <2>1
  <2>4. (p - d) + d = p /\ p - d < n /\ n \in Nat /\ p \in Nat  BY <2>1
  <2> DEFINE q == p - d
  <2>5. q \in Nat /\ q < n /\ q + d = p /\ Elem(m, q, n) /\ \A i \in q .. n - 1 : m2[i + d] = m[i]
    BY <2>1, <2>2, <2>3, <2>4
  <2> HIDE DEF q
  <2>6. q + d \in Nat  BY <2>4, <2>5
  <2>7. Elem(m2, q + d, n + d)
    BY <2>4, <2>5, <2>6, ElemMoved
  <2>8. Elem(m2, p, n + d)  BY <2>5, <2>7
  <2>9. n + d < e + d => m2[n + d].tag \in Opens
    <3> SUFFICES ASSUME n + d < e + d PROVE m2[n + d].tag \in Opens  OBVIOUS
    <3>1. n < e /\ n \in s .. e - 1  BY <2>1, <2>4
    <3> QED BY <2>2, <3>1
  <2>10. n + d \in p + 1 .. e + d  BY <2>4
  <2> QED BY <2>8, <2>9, <2>10
<1> QED BY <1>2, <1>3, <1>4 DEF Run

\* An element alone is a run.
LEMMA RunElem ==
  ASSUME NEW m, NEW p \in Nat, NEW n \in Nat, p < n, Elem(m, p, n)
  PROVE  Run(m, p, n)
<1>1. \A i \in p .. n - 1 : i = p \/ i \in p + 1 .. n - 1  OBVIOUS
<1> QED BY <1>1 DEF Elem, Run, Opens

\* The element at a tag in a run, and what it cuts the run into.
LEMMA RunAt ==
  ASSUME NEW m, NEW s \in Nat, NEW e \in Nat, Run(m, s, e),
         NEW p \in s .. e - 1, m[p].tag \in Opens
  PROVE  \E n \in p + 1 .. e : /\ Elem(m, p, n) /\ (n < e => m[n].tag \in Opens)
                              /\ Run(m, s, p) /\ Run(m, p, n) /\ Run(m, n, e)
<1>1. PICK n \in p + 1 .. e : Elem(m, p, n) /\ (n < e => m[n].tag \in Opens)
  BY DEF Run
<1>2. Run(m, s, p) /\ Run(m, p, e)  BY RunCut
<1>3. Run(m, p, n) /\ Run(m, n, e)  BY <1>1, <1>2, RunCut
<1> QED BY <1>1, <1>2, <1>3
-----------------------------------------------------------------------------
\* What fdt_next_tag and the searches among the tags find in a blob.

LEMMA BlobFields ==
  ASSUME NEW b \in Blobs
  PROVE  /\ b.totalsize \in 0 .. MaxSize /\ b.version \in {16, 17} /\ b.magic \in {"FDT", "SW"}
         /\ b.off_mem_rsvmap \in Nat /\ b.off_dt_struct \in Nat /\ b.size_dt_struct \in Nat
         /\ b.off_dt_strings \in Nat /\ b.size_dt_strings \in Nat
         /\ b.mem \in [Memory -> [tag : Tags, x : Nat, y : Nat]]
BY DEF Blobs

LEMMA MemoryCells ==
  ASSUME NEW b \in Blobs, NEW p \in Nat, p < b.totalsize
  PROVE  p \in Memory /\ b.mem[p] \in [tag : Tags, x : Nat, y : Nat]
<1>1. p \in Memory  BY BlobFields, FdtRwAssumption DEF Memory
<1> QED BY <1>1, BlobFields

LEMMA NextTagAt ==
  ASSUME NEW b \in Blobs, NEW q \in Nat, NEW n \in Nat, q < n, n <= Size(b), Size(b) \in Int,
         Elem(b.mem, b.off_dt_struct + q, b.off_dt_struct + n)
  PROVE  NextTag(b, q) = n /\ Tag(b, q) = At(b, q).tag
<1> DEFINE st == b.off_dt_struct
           size == Size(b)
           c == At(b, q)
<1>1. st \in Nat  BY BlobFields
<1>2. c = b.mem[st + q]  BY DEF At
<1>3. Tag(b, q) = c.tag  BY DEF Tag
<1>4. c.tag \in Opens  BY <1>2 DEF Elem
<1>5. Tag(b, q) # "none"  BY <1>3, <1>4 DEF Opens
<1>6. CASE c.tag = "prop"
  <2>1. Units(c.y) = n - q - 1  BY <1>1, <1>2, <1>6 DEF Elem
  <2>2. q + 1 + Units(c.y) = n  BY <2>1
  <2> QED BY <1>3, <1>5, <1>6, <2>2 DEF NextTag
<1>7. CASE c.tag \in {"end_node", "nop"}
  <2>1. st + n = st + q + 1  BY <1>2, <1>7 DEF Elem
  <2>2. q + 1 = n  BY <1>1, <2>1
  <2> QED BY <1>3, <1>5, <1>7, <2>2 DEF NextTag
<1>8. CASE c.tag = "begin"
  <2> DEFINE T == {j \in q + 1 .. Size(b) - 1 : 0 \in {At(b, j).x, At(b, j).y}}
  <2>1. /\ st + q + 1 < st + n /\ HasNul(b.mem[st + n - 1])
        /\ \A i \in st + q + 1 .. st + n - 2 : ~HasNul(b.mem[i])
    <3>1. b.mem[st + q].tag = "begin"  BY <1>2, <1>8
    <3>2. Elem(b.mem, st + q, st + n)  OBVIOUS
    <3> HIDE DEF st
    <3> QED BY <1>1, <3>1, <3>2 DEF Elem
  <2>2. n - 1 \in T
    <3>1. n - 1 \in q + 1 .. Size(b) - 1 /\ st + (n - 1) = st + n - 1  BY <1>1, <2>1
    <3> QED BY <3>1, <2>1 DEF At, HasNul
  <2>3. ASSUME NEW j \in T PROVE n - 1 <= j
    <3>1. SUFFICES ASSUME j < n - 1 PROVE FALSE  OBVIOUS
    <3>2. st + j \in st + q + 1 .. st + n - 2  BY <1>1, <3>1
    <3> QED BY <2>1, <3>2 DEF At, HasNul
  <2>4. T \in SUBSET Nat  OBVIOUS
  <2>5. Lowest(T, Size(b)) = n - 1
    <3> HIDE DEF T
    <3> QED BY <2>2, <2>3, <2>4, LowestIs
  <2>6. Lowest(T, Size(b)) + 1 = n  BY <2>5
  <2> QED BY <1>3, <1>5, <1>8, <2>6 DEF NextTag
<1> QED BY <1>3, <1>4, <1>6, <1>7, <1>8 DEF Opens

\* Where the structure ends, in a blob in order.
LEMMA EndIs ==
  ASSUME NEW b \in Blobs, NEW k \in Nat, NEW e \in Nat, Holds(b, k, e)
  PROVE  /\ End(b) = e /\ Size(b) \in Int /\ e + 1 <= Size(b)
         /\ b.off_dt_struct + Size(b) <= b.totalsize
<1> DEFINE st == b.off_dt_struct
<1>1. st \in Nat /\ b.totalsize \in Nat  BY BlobFields
<1>2. Size(b) \in Int /\ e + 1 <= Size(b) /\ st + Size(b) <= b.totalsize
  <2>1. CASE b.version >= 17
    <3>1. Size(b) = e + 1  BY <2>1 DEF Size, Holds
    <3> QED BY <1>1, <3>1 DEF Holds
  <2>2. CASE ~(b.version >= 17)
    <3>1. Size(b) = b.totalsize - st  BY <2>2 DEF Size
    <3> QED BY <1>1, <3>1 DEF Holds
  <2> QED BY <2>1, <2>2
<1> DEFINE T == {q \in 0 .. Size(b) - 1 : At(b, q).tag = "end"}
<1>3. e \in T  BY <1>2 DEF Holds, At
<1>4. ASSUME NEW q \in T PROVE e <= q
  <2>1. SUFFICES ASSUME q < e PROVE FALSE  BY <1>2
  <2>2. st + q \in st .. st + e - 1  BY <1>1, <2>1
  <2>3. b.mem[st + q].tag # "end"
    <3>1. Run(b.mem, st, st + e)  BY DEF Holds
    <3>2. st \in Nat /\ q \in Nat  BY <1>1, <1>2
    <3> HIDE DEF T, st
    <3> QED BY <2>2, <3>1, <3>2 DEF Run
  <2> QED BY <2>3 DEF At
<1>5. T \in SUBSET Nat  BY <1>2
<1>6. Lowest(T, Size(b)) = e
  <2> HIDE DEF T
  <2> QED BY <1>3, <1>4, <1>5, LowestIs
<1> QED BY <1>2, <1>6 DEF End

\* A tag before END: its element, and the run before and behind it.
LEMMA TagAt ==
  ASSUME NEW b \in Blobs, NEW k \in Nat, NEW e \in Nat, Holds(b, k, e),
         NEW q \in 0 .. e - 1, At(b, q).tag \in Opens
  PROVE  /\ NextTag(b, q) \in q + 1 .. e /\ Tag(b, q) = At(b, q).tag
         /\ Elem(b.mem, b.off_dt_struct + q, b.off_dt_struct + NextTag(b, q))
         /\ Run(b.mem, b.off_dt_struct, b.off_dt_struct + q)
         /\ Run(b.mem, b.off_dt_struct + NextTag(b, q), b.off_dt_struct + e)
<1> DEFINE st == b.off_dt_struct
<1>1. st \in Nat  BY BlobFields
<1>2. st + q \in st .. st + e - 1 /\ b.mem[st + q].tag \in Opens /\ st + e \in Nat
  BY <1>1 DEF At
<1>3. Run(b.mem, st, st + e)  BY DEF Holds
<1>4. PICK m \in st + q + 1 .. st + e :
        /\ Elem(b.mem, st + q, m) /\ Run(b.mem, st, st + q) /\ Run(b.mem, m, st + e)
  <2> DEFINE p == st + q
             t == st + e
  <2>1. st \in Nat /\ t \in Nat /\ p \in st .. t - 1 /\ b.mem[p].tag \in Opens /\ Run(b.mem, st, t)
    BY <1>1, <1>2, <1>3
  <2> HIDE DEF st, p, t
  <2>2. \E n \in p + 1 .. t : Elem(b.mem, p, n) /\ Run(b.mem, st, p) /\ Run(b.mem, n, t)
    BY <2>1, RunAt
  <2> QED BY <2>2 DEF p, t
<1> DEFINE n == m - st
<1>5. n \in q + 1 .. e /\ n \in Nat /\ st + n = m  BY <1>1
<1>6. NextTag(b, q) = n /\ Tag(b, q) = At(b, q).tag
  <2>1. Size(b) \in Int /\ n <= Size(b) /\ q < n  BY <1>5, EndIs
  <2>2. Elem(b.mem, st + q, st + n)  BY <1>4, <1>5
  <2> HIDE DEF n
  <2> QED BY <1>5, <2>1, <2>2, NextTagAt
<1> QED BY <1>4, <1>5, <1>6
-----------------------------------------------------------------------------
\* What gaps, and cells put into them, do to a blob.

Cells == [tag : Tags, x : Nat, y : Nat]

LEMMA Writable ==
  ASSUME NEW b \in Blobs, RwCheckHeader(b) = 0
  PROVE  /\ b.version = 17
         /\ RsvStart <= b.off_mem_rsvmap /\ b.off_mem_rsvmap + 1 <= b.off_dt_struct
         /\ b.off_dt_struct + b.size_dt_struct <= b.off_dt_strings
         /\ DataSize(b) <= b.totalsize
<1>1. CheckHeader(b) >= 0
  BY DEF RwCheckHeader, Unless, CheckHeader, BADVERSION, BADSTATE, BADMAGIC
<1>2. b.version >= 17 /\ ~Misordered(b, 1, b.size_dt_struct)
  BY <1>1, BlobFields DEF RwCheckHeader, Unless, CheckHeader, BADVERSION, BADSTATE, BADMAGIC, BADLAYOUT
<1>3. b.version = 17  BY <1>2, BlobFields
<1> QED BY <1>2, <1>3, BlobFields, FdtRwAssumption DEF Misordered, DataSize

\* What changed only the memory.
LEMMA MemEdit ==
  ASSUME NEW b \in Blobs, NEW m \in [Memory -> Cells]
  PROVE  LET f == [b EXCEPT !.mem = m] IN
         /\ f \in Blobs /\ f.mem = m
         /\ f.magic = b.magic /\ f.version = b.version /\ f.totalsize = b.totalsize
         /\ f.off_mem_rsvmap = b.off_mem_rsvmap /\ f.off_dt_struct = b.off_dt_struct
         /\ f.size_dt_struct = b.size_dt_struct /\ f.off_dt_strings = b.off_dt_strings
         /\ f.size_dt_strings = b.size_dt_strings
BY DEF Blobs, Cells

\* The memory that _fdt_splice leaves.
Spliced(b, p, oldlen, newlen) ==
  [q \in Memory |-> IF q < p + newlen THEN b.mem[q]
                    ELSE IF q < DataSize(b) - oldlen + newlen THEN b.mem[q - newlen + oldlen]
                    ELSE Junk]

LEMMA SpliceMem ==
  ASSUME NEW b \in Blobs, NEW p \in Nat, NEW oldlen \in Nat, NEW newlen \in Nat,
         DataSize(b) <= b.totalsize, p + oldlen <= DataSize(b),
         DataSize(b) - oldlen + newlen <= b.totalsize
  PROVE  LET m == Spliced(b, p, oldlen, newlen) IN
         /\ m \in [Memory -> Cells]
         /\ \A q \in Memory : q < p + newlen => m[q] = b.mem[q]
         /\ \A q \in p + oldlen .. DataSize(b) - 1 : m[q + newlen - oldlen] = b.mem[q]
<1> DEFINE end == DataSize(b)
           m == Spliced(b, p, oldlen, newlen)
<1>1. end \in Nat /\ b.totalsize \in 0 .. MaxSize /\ MaxSize \in Nat /\ b.mem \in [Memory -> Cells]
  BY BlobFields, FdtRwAssumption DEF DataSize, Cells
<1>2. Junk \in Cells  BY DEF Junk, Cell, Cells, Tags
<1>0. m = [q \in Memory |-> IF q < p + newlen THEN b.mem[q]
                          ELSE IF q < end - oldlen + newlen THEN b.mem[q - newlen + oldlen]
                          ELSE Junk]
  BY DEF Spliced
<1> HIDE DEF end, m
<1>3. ASSUME NEW q \in Memory PROVE m[q] \in Cells
  <2>1. CASE q < p + newlen
    BY <1>0, <1>1, <2>1
  <2>2. CASE ~(q < p + newlen) /\ q < end - oldlen + newlen
    <3>1. q - newlen + oldlen \in Memory  BY <1>1, <2>2 DEF Memory, end
    <3> QED BY <1>0, <1>1, <2>2, <3>1
  <2>3. CASE ~(q < p + newlen) /\ ~(q < end - oldlen + newlen)
    BY <1>0, <1>2, <2>3
  <2> QED BY <2>1, <2>2, <2>3
<1>4. ASSUME NEW q \in p + oldlen .. end - 1 PROVE m[q + newlen - oldlen] = b.mem[q]
  <2> DEFINE s == q + newlen - oldlen
  <2>1. /\ s \in Memory /\ ~(s < p + newlen) /\ s < end - oldlen + newlen
        /\ s - newlen + oldlen = q
    BY <1>1 DEF Memory, end
  <2> HIDE DEF s
  <2>2. m[s] = b.mem[s - newlen + oldlen]  BY <1>0, <2>1
  <2> QED BY <2>1, <2>2 DEF s
<1>5. m \in [Memory -> Cells]  BY <1>0, <1>3
<1>6. \A q \in Memory : q < p + newlen => m[q] = b.mem[q]  BY <1>0
<1> QED BY <1>4, <1>5, <1>6 DEF end, m

\* What a splice returns: an error, or the blob with the cells moved.
SpliceLeaves(b, p, oldlen, newlen, r) ==
  \/ r.err # 0 /\ r.err \in Int /\ r.fdt = b
  \/ /\ r.err = 0 /\ p + oldlen <= DataSize(b)
     /\ DataSize(b) - oldlen + newlen <= b.totalsize
     /\ \E m \in [Memory -> Cells] :
          /\ r.fdt = [b EXCEPT !.mem = m]
          /\ \A q \in Memory : q < p + newlen => m[q] = b.mem[q]
          /\ \A q \in p + oldlen .. DataSize(b) - 1 : m[q + newlen - oldlen] = b.mem[q]

LEMMA SpliceEffect ==
  ASSUME NEW b \in Blobs, NEW p \in Nat, NEW oldlen \in Nat, NEW newlen \in Nat,
         DataSize(b) <= b.totalsize
  PROVE  SpliceLeaves(b, p, oldlen, newlen, Splice(b, p, oldlen, newlen))
<1> DEFINE r == Splice(b, p, oldlen, newlen)
           end == DataSize(b)
           m == Spliced(b, p, oldlen, newlen)
<1>1. end \in Nat /\ b.totalsize \in Nat  BY BlobFields DEF DataSize
<1>2. CASE p + oldlen > end \/ end - oldlen + newlen < 0
  BY <1>2 DEF SpliceLeaves, Splice, Fail, BADOFFSET
<1>3. CASE ~(p + oldlen > end \/ end - oldlen + newlen < 0) /\ end - oldlen + newlen > b.totalsize
  BY <1>3 DEF SpliceLeaves, Splice, Fail, NOSPACE
<1>4. CASE ~(p + oldlen > end \/ end - oldlen + newlen < 0) /\ ~(end - oldlen + newlen > b.totalsize)
  <2>1. r = Done([b EXCEPT !.mem = m])  BY <1>4 DEF Splice, Spliced
  <2>2. r.err = 0 /\ r.fdt = [b EXCEPT !.mem = m]  BY <2>1 DEF Done
  <2>3. p + oldlen <= end /\ end - oldlen + newlen <= b.totalsize  BY <1>1, <1>4
  <2>4. /\ m \in [Memory -> Cells]
        /\ \A q \in Memory : q < p + newlen => m[q] = b.mem[q]
        /\ \A q \in p + oldlen .. DataSize(b) - 1 : m[q + newlen - oldlen] = b.mem[q]
    BY <2>3, SpliceMem
  <2> HIDE DEF m, r
  <2> QED BY <2>2, <2>3, <2>4 DEF r, SpliceLeaves
<1> QED BY <1>2, <1>3, <1>4
LEMMA PutEffect ==
  ASSUME NEW b \in Blobs, NEW at \in Nat, NEW cells \in Seq(Cells)
  PROVE  \E m \in [Memory -> Cells] :
           /\ Put(b, at, cells) = [b EXCEPT !.mem = m]
           /\ \A p \in Memory : p \in at .. at + Len(cells) - 1 => m[p] = cells[p - at + 1]
           /\ \A p \in Memory : p \notin at .. at + Len(cells) - 1 => m[p] = b.mem[p]
<1> DEFINE m == [p \in Memory |-> IF p \in at .. at + Len(cells) - 1
                                  THEN cells[p - at + 1] ELSE b.mem[p]]
<1>1. b.mem \in [Memory -> Cells]  BY BlobFields DEF Cells
<1>2. ASSUME NEW p \in Memory, p \in at .. at + Len(cells) - 1 PROVE cells[p - at + 1] \in Cells
  <2>1. p - at + 1 \in 1 .. Len(cells)  BY <1>2 DEF Memory
  <2> QED BY <2>1
<1>3. ASSUME NEW p \in Memory PROVE m[p] \in Cells
  BY <1>1, <1>2
<1>4. m \in [Memory -> Cells]  BY <1>3
<1>5. Put(b, at, cells) = [b EXCEPT !.mem = m]  BY DEF Put
<1>6. \A p \in Memory : p \in at .. at + Len(cells) - 1 => m[p] = cells[p - at + 1]  OBVIOUS
<1>7. \A p \in Memory : p \notin at .. at + Len(cells) - 1 => m[p] = b.mem[p]  OBVIOUS
<1> HIDE DEF m
<1> QED BY <1>4, <1>5, <1>6, <1>7

LEMMA IsStringMoved ==
  ASSUME NEW m, NEW m2, NEW str \in Nat, NEW sl \in Nat, NEW d \in Int, NEW x, NEW n \in Seq(Nat),
         \A q \in str .. str + sl - 1 : m2[q + d] = m[q],
         IsString(m, str, sl, x, n)
  PROVE  IsString(m2, str + d, sl, x, n)
<1>1. x \in Nat /\ x + Len(n) + 1 <= sl /\ Len(n) \in Nat  BY DEF IsString
<1>2. ASSUME NEW i \in 1 .. Len(n) + 1
      PROVE  m2[str + d + x + i - 1].x = IF i <= Len(n) THEN n[i] ELSE 0
  <2> DEFINE q == str + x + i - 1
  <2>1. q \in str .. str + sl - 1 /\ str + d + x + i - 1 = q + d  BY <1>1
  <2>2. m[q].x = IF i <= Len(n) THEN n[i] ELSE 0  BY DEF IsString
  <2>3. m2[q + d] = m[q]
    <3> HIDE DEF q
    <3> QED BY <2>1
  <2>4. m2[str + d + x + i - 1] = m[q]  BY <2>1, <2>3
  <2> QED BY <2>2, <2>4
<1> QED BY <1>1, <1>2 DEF IsString

\* Cells a to c of the structure give way to w others, a run with its names.
LEMMA StructEdit ==
  ASSUME NEW b \in Blobs, NEW f \in Blobs, NEW k \in Nat, NEW e \in Nat, Holds(b, k, e),
         RwCheckHeader(b) = 0,
         NEW a \in Nat, NEW c \in Nat, a <= c, c <= e, NEW w \in Nat,
         Run(b.mem, b.off_dt_struct, b.off_dt_struct + a),
         Run(b.mem, b.off_dt_struct + c, b.off_dt_struct + e),
         f.version = b.version, f.totalsize = b.totalsize,
         f.off_mem_rsvmap = b.off_mem_rsvmap, f.off_dt_struct = b.off_dt_struct,
         f.size_dt_struct = b.size_dt_struct + (w - (c - a)),
         f.off_dt_strings = b.off_dt_strings + (w - (c - a)),
         f.size_dt_strings = b.size_dt_strings,
         DataSize(f) <= b.totalsize,
         \A q \in Memory : q < b.off_dt_struct + a => f.mem[q] = b.mem[q],
         \A q \in b.off_dt_struct + c .. DataSize(b) - 1 : f.mem[q + (w - (c - a))] = b.mem[q],
         Run(f.mem, b.off_dt_struct + a, b.off_dt_struct + a + w),
         Named(f.mem, b.off_dt_struct + a, b.off_dt_struct + a + w,
               f.off_dt_strings, f.size_dt_strings)
  PROVE  Holds(f, k, e + (w - (c - a)))
<1> DEFINE d == w - (c - a)
           st == b.off_dt_struct
           rsv == b.off_mem_rsvmap
           str == b.off_dt_strings
           sl == b.size_dt_strings
<1>1. /\ d \in Int /\ st \in Nat /\ rsv \in Nat /\ str \in Nat /\ sl \in Nat /\ b.totalsize \in Nat
      /\ b.totalsize <= MaxSize /\ MaxSize \in Nat /\ RsvStart \in Nat
  BY BlobFields, FdtRwAssumption
<1>2. /\ b.version = 17 /\ RsvStart <= rsv /\ rsv + 1 <= st /\ st + b.size_dt_struct <= str
      /\ str + sl <= b.totalsize
  BY Writable DEF DataSize
<1>3. b.size_dt_struct = e + 1 /\ rsv + k + 1 <= st /\ c + d = a + w
  BY <1>1, <1>2 DEF Holds, Disjoint
<1>4. RsvMap(f.mem, rsv, k)
  <2>1. \A i \in 0 .. k : rsv + i \in Memory /\ rsv + i < st + a  BY <1>1, <1>2, <1>3 DEF Memory
  <2>2. \A i \in 0 .. k : f.mem[rsv + i] = b.mem[rsv + i]  BY <2>1
  <2>3. RsvMap(b.mem, rsv, k)  BY DEF Holds
  <2> QED BY <2>2, <2>3 DEF RsvMap
<1>5. Run(f.mem, st, st + a)
  <2>1. \A i \in st .. st + a - 1 : f.mem[i + 0] = b.mem[i]
    <3>1. \A i \in st .. st + a - 1 : i \in Memory /\ i + 0 = i /\ i < st + a
      BY <1>1, <1>2, <1>3 DEF Memory
    <3> QED BY <3>1
  <2> DEFINE t == st + a
  <2>2. t \in Nat /\ st <= t /\ st + 0 = st /\ t + 0 = t /\ Run(b.mem, st, t)  BY <1>1
  <2>3. \A i \in st .. t - 1 : f.mem[i + 0] = b.mem[i]  BY <1>1, <2>1
  <2> HIDE DEF st, t
  <2>4. Run(f.mem, st + 0, t + 0)
    <3>1. st \in Nat /\ 0 \in Int  BY <1>1
    <3>2. st + 0 \in Nat  BY <3>1
    <3> QED BY <2>2, <2>3, <3>1, <3>2, RunMoved
  <2> QED BY <2>2, <2>4 DEF t
<1>6. Run(f.mem, st + a + w, st + e + d)
  <2> DEFINE s == st + c
             t == st + e
  <2>1. s \in Nat /\ t \in Nat /\ s <= t /\ s + d = st + a + w /\ s + d \in Nat /\ Run(b.mem, s, t)
    BY <1>1, <1>3
  <2>2. \A i \in s .. t - 1 : f.mem[i + d] = b.mem[i]
    <3>1. \A i \in s .. t - 1 : i \in st + c .. DataSize(b) - 1
      BY <1>1, <1>2, <1>3 DEF DataSize
    <3> QED BY <3>1
  <2> HIDE DEF s, t, d
  <2>3. Run(f.mem, s + d, t + d)  BY <1>1, <2>1, <2>2, RunMoved
  <2> QED BY <2>1, <2>3 DEF t
<1>7. Run(f.mem, st, st + e + d)
  <2> DEFINE p == st + a
             q == st + a + w
             r == st + e + d
  <2>1. p \in Nat /\ q \in Nat /\ r \in Nat /\ st <= p /\ p <= q /\ q <= r  BY <1>1, <1>3
  <2>2. Run(f.mem, st, p) /\ Run(f.mem, p, q) /\ Run(f.mem, q, r)  BY <1>5, <1>6
  <2> HIDE DEF p, q, r, st
  <2>3. Run(f.mem, p, r)  BY <2>1, <2>2, RunJoin
  <2>4. Run(f.mem, st, r)  BY <1>1, <2>1, <2>2, <2>3, RunJoin
  <2> QED BY <2>4 DEF r
<1>8. f.mem[st + e + d].tag = "end"
  <2>1. st + e \in st + c .. DataSize(b) - 1  BY <1>1, <1>2, <1>3 DEF DataSize
  <2>2. f.mem[st + e + d] = b.mem[st + e]  BY <2>1
  <2> QED BY <2>2 DEF Holds
<1>9. ASSUME NEW x, NEW n \in PropNames, IsString(b.mem, str, sl, x, n)
      PROVE  IsString(f.mem, str + d, sl, x, n)
  <2>1. n \in Seq(Nat)  BY FdtEditAssumption
  <2>2. \A q \in str .. str + sl - 1 : f.mem[q + d] = b.mem[q]
    <3>1. \A q \in str .. str + sl - 1 : q \in st + c .. DataSize(b) - 1
      BY <1>1, <1>2, <1>3 DEF DataSize
    <3> QED BY <3>1
  <2> HIDE DEF str, sl, d
  <2> QED BY <1>1, <1>9, <2>1, <2>2, IsStringMoved
<1>10. Named(f.mem, st, st + e + d, str + d, sl)
  <2> SUFFICES ASSUME NEW p \in st .. st + e + d - 1, f.mem[p].tag = "prop"
               PROVE  \E n \in PropNames : IsString(f.mem, str + d, sl, f.mem[p].x, n)
    BY <1>1 DEF Named
  <2>0. Named(b.mem, st, st + e, str, sl)  BY DEF Holds
  <2>1. CASE p < st + a
    <3>1. p \in Memory /\ p \in st .. st + e - 1  BY <1>1, <1>2, <1>3, <2>1 DEF Memory
    <3>2. f.mem[p] = b.mem[p]  BY <2>1, <3>1
    <3>3. PICK n \in PropNames : IsString(b.mem, str, sl, b.mem[p].x, n)
      BY <1>1, <2>0, <3>1, <3>2 DEF Named
    <3> QED BY <1>9, <3>2, <3>3
  <2>2. CASE p \in st + a .. st + a + w - 1
    BY <1>1, <2>2 DEF Named
  <2>3. CASE p >= st + a + w
    <3> DEFINE q == p - d
    <3>1. q \in st + c .. DataSize(b) - 1 /\ q \in st .. st + e - 1 /\ q + d = p
      BY <1>1, <1>2, <1>3, <2>3 DEF DataSize
    <3>2. f.mem[p] = b.mem[q]
      <4> HIDE DEF q
      <4> QED BY <3>1
    <3>3. PICK n \in PropNames : IsString(b.mem, str, sl, b.mem[q].x, n)
      <4> HIDE DEF q
      <4> QED BY <1>1, <2>0, <3>1, <3>2 DEF Named
    <3> QED BY <1>9, <3>2, <3>3
  <2>4. p < st + a \/ p \in st + a .. st + a + w - 1 \/ p >= st + a + w  BY <1>1
  <2> QED BY <2>1, <2>2, <2>3, <2>4
<1>11. /\ f.version >= 17 => f.size_dt_struct = e + d + 1
       /\ RsvStart <= rsv /\ rsv + k + 1 <= f.totalsize
       /\ RsvStart <= st /\ st + (e + d) + 1 <= f.totalsize
       /\ RsvStart <= str + d /\ str + d + sl <= f.totalsize
       /\ rsv + k + 1 <= st /\ rsv + k + 1 <= str + d /\ st + (e + d) + 1 <= str + d
  BY <1>1, <1>2, <1>3 DEF DataSize
<1>12. st + (e + d) = st + e + d  BY <1>1
<1> HIDE DEF d
<1> QED BY <1>4, <1>7, <1>8, <1>10, <1>11, <1>12 DEF Holds, Disjoint, d
-----------------------------------------------------------------------------
\* What the searches return, and what the splices of the structure leave.

LEMMA EndAt ==
  ASSUME NEW b \in Blobs, NEW k \in Nat, NEW e \in Nat, Holds(b, k, e), NEW o \in Nat
  PROVE  \/ NodeEnd(b, o) \in {BADOFFSET, NOTFOUND}
         \/ /\ Tag(b, o) = "begin" /\ o < e /\ At(b, o).tag = "begin"
            /\ NodeEnd(b, o) \in o + 1 .. e /\ At(b, NodeEnd(b, o) - 1).tag = "end_node"
<1> DEFINE T == {q + 1 : q \in {q \in Tagged(b, {"end_node"}, o) : Depth(b, o, q) = -1}}
<1>1. CASE CheckNodeOffset(b, o) < 0
  BY <1>1 DEF NodeEnd
<1>2. CASE ~(CheckNodeOffset(b, o) < 0)
  <2>1. Tag(b, o) = "begin"  BY <1>2 DEF CheckNodeOffset, Checked, BADOFFSET
  <2>2. At(b, o).tag = "begin"  BY <2>1 DEF Tag
  <2>3. End(b) = e  BY EndIs
  <2>4. ASSUME NEW t \in T PROVE t \in o + 1 .. e /\ At(b, t - 1).tag = "end_node"
    <3>1. PICK q \in Tagged(b, {"end_node"}, o) : t = q + 1  OBVIOUS
    <3>2. q \in o .. e - 1 /\ At(b, q).tag = "end_node"  BY <2>3 DEF Tagged
    <3> QED BY <3>1, <3>2
  <2>5. T \in SUBSET Nat  BY <2>4
  <2>6. NodeEnd(b, o) = Lowest(T, NOTFOUND)  BY <1>2 DEF NodeEnd
  <2> HIDE DEF T
  <2>7. NodeEnd(b, o) = NOTFOUND \/ NodeEnd(b, o) \in T  BY <2>5, <2>6, LowestLemma
  <2>8. CASE NodeEnd(b, o) \in T
    <3>1. NodeEnd(b, o) \in o + 1 .. e /\ At(b, NodeEnd(b, o) - 1).tag = "end_node"  BY <2>4, <2>8
    <3> QED BY <2>1, <2>2, <3>1
  <2> QED BY <2>7, <2>8
<1> QED BY <1>1, <1>2

LEMMA PropertyAt ==
  ASSUME NEW b \in Blobs, NEW k \in Nat, NEW e \in Nat, Holds(b, k, e), NEW o \in Nat, NEW name
  PROVE  \/ GetProperty(b, o, name) = BADOFFSET
         \/ GetProperty(b, o, name) = NOTFOUND /\ ~(CheckNodeOffset(b, o) < 0)
         \/ /\ ~(CheckNodeOffset(b, o) < 0)
            /\ GetProperty(b, o, name) \in Properties(b, o)
            /\ StringAt(b, At(b, GetProperty(b, o, name)).x) = name
            /\ \A q \in Properties(b, o) :
                 StringAt(b, At(b, q).x) = name => GetProperty(b, o, name) <= q
            /\ GetProperty(b, o, name) \in o + 1 .. e - 1
            /\ At(b, GetProperty(b, o, name)).tag = "prop"
<1> DEFINE T == {q \in Properties(b, o) : StringAt(b, At(b, q).x) = name}
<1>1. CASE CheckNodeOffset(b, o) < 0
  BY <1>1 DEF GetProperty
<1>2. CASE ~(CheckNodeOffset(b, o) < 0)
  <2>1. GetProperty(b, o, name) = Lowest(T, NOTFOUND)  BY <1>2 DEF GetProperty
  <2>2. End(b) = e  BY EndIs
  <2>3. \A q \in Properties(b, o) : q \in o + 1 .. e - 1 /\ At(b, q).tag = "prop"
    BY <2>2 DEF Properties, Tagged
  <2>4. T \in SUBSET Nat  BY <2>3
  <2>5. \/ Lowest(T, NOTFOUND) = NOTFOUND
        \/ Lowest(T, NOTFOUND) \in T /\ \A q \in T : Lowest(T, NOTFOUND) <= q
    <3> HIDE DEF T
    <3> QED BY <2>4, LowestLemma
  <2> DEFINE g == GetProperty(b, o, name)
  <2>6. CASE g \in T /\ \A q \in T : g <= q
    <3> HIDE DEF g
    <3>1. g \in Properties(b, o) /\ StringAt(b, At(b, g).x) = name  BY <2>6
    <3>2. g \in o + 1 .. e - 1 /\ At(b, g).tag = "prop"  BY <2>3, <3>1
    <3>3. \A q \in Properties(b, o) : StringAt(b, At(b, q).x) = name => g <= q  BY <2>6
    <3> QED BY <1>2, <3>1, <3>2, <3>3 DEF g
  <2> QED BY <1>2, <2>1, <2>5, <2>6
<1> QED BY <1>1, <1>2

\* The header where the structure has d cells more.
Resized(b, f, d) ==
  /\ f.magic = b.magic /\ f.version = b.version /\ f.totalsize = b.totalsize
  /\ f.off_mem_rsvmap = b.off_mem_rsvmap /\ f.off_dt_struct = b.off_dt_struct
  /\ f.size_dt_struct = b.size_dt_struct + d
  /\ f.off_dt_strings = b.off_dt_strings + d /\ f.size_dt_strings = b.size_dt_strings

StructLeaves(b, o, oldlen, newlen, r) ==
  \/ r.err # 0 /\ r.err \in Int /\ r.fdt = b
  \/ /\ r.err = 0 /\ r.fdt \in Blobs
     /\ Resized(b, r.fdt, newlen - oldlen) /\ DataSize(r.fdt) <= b.totalsize
     /\ b.off_dt_struct + o + oldlen <= DataSize(b)
     /\ \A q \in Memory : q < b.off_dt_struct + o + newlen => r.fdt.mem[q] = b.mem[q]
     /\ \A q \in b.off_dt_struct + o + oldlen .. DataSize(b) - 1 :
          r.fdt.mem[q + newlen - oldlen] = b.mem[q]

LEMMA SpliceStructEffect ==
  ASSUME NEW b \in Blobs, RwCheckHeader(b) = 0,
         NEW o \in Nat, NEW oldlen \in Nat, NEW newlen \in Nat, oldlen <= b.size_dt_struct
  PROVE  StructLeaves(b, o, oldlen, newlen, SpliceStruct(b, o, oldlen, newlen))
<1> DEFINE st == b.off_dt_struct
           p == st + o
           s == Splice(b, p, oldlen, newlen)
           r == SpliceStruct(b, o, oldlen, newlen)
<1>1. /\ st \in Nat /\ p \in Nat /\ b.size_dt_struct \in Nat /\ b.off_dt_strings \in Nat
      /\ b.size_dt_strings \in Nat /\ b.totalsize \in Nat
  BY BlobFields
<1>2. st + b.size_dt_struct <= b.off_dt_strings /\ DataSize(b) <= b.totalsize
  BY Writable
<1>3. \/ s.err # 0 /\ s.err \in Int /\ s.fdt = b
      \/ /\ s.err = 0 /\ p + oldlen <= DataSize(b)
         /\ DataSize(b) - oldlen + newlen <= b.totalsize
         /\ \E m \in [Memory -> Cells] :
              /\ s.fdt = [b EXCEPT !.mem = m]
              /\ \A q \in Memory : q < p + newlen => m[q] = b.mem[q]
              /\ \A q \in p + oldlen .. DataSize(b) - 1 : m[q + newlen - oldlen] = b.mem[q]
  <2> HIDE DEF p
  <2>1. SpliceLeaves(b, p, oldlen, newlen, s)  BY <1>1, <1>2, SpliceEffect
  <2> QED BY <2>1 DEF SpliceLeaves
<1>4. CASE s.err # 0 /\ s.err \in Int /\ s.fdt = b
  <2>1. r = s  BY <1>4 DEF SpliceStruct, AndThen
  <2> QED BY <1>4, <2>1 DEF StructLeaves
<1>5. CASE /\ s.err = 0 /\ p + oldlen <= DataSize(b)
           /\ DataSize(b) - oldlen + newlen <= b.totalsize
           /\ \E m \in [Memory -> Cells] :
                /\ s.fdt = [b EXCEPT !.mem = m]
                /\ \A q \in Memory : q < p + newlen => m[q] = b.mem[q]
                /\ \A q \in p + oldlen .. DataSize(b) - 1 : m[q + newlen - oldlen] = b.mem[q]
  <2>1. PICK m \in [Memory -> Cells] :
                /\ s.fdt = [b EXCEPT !.mem = m]
                /\ \A q \in Memory : q < p + newlen => m[q] = b.mem[q]
                /\ \A q \in p + oldlen .. DataSize(b) - 1 : m[q + newlen - oldlen] = b.mem[q]
    BY <1>5
  <2> DEFINE g == [b EXCEPT !.mem = m]
             f == [g EXCEPT !.size_dt_struct = @ + newlen - oldlen,
                            !.off_dt_strings = @ + newlen - oldlen]
  <2>2. r.err = 0 /\ r.fdt = f
    BY <1>5, <2>1 DEF SpliceStruct, AndThen, Done
  <2>3. /\ g \in Blobs /\ g.mem = m
        /\ g.magic = b.magic /\ g.version = b.version /\ g.totalsize = b.totalsize
        /\ g.off_mem_rsvmap = b.off_mem_rsvmap /\ g.off_dt_struct = b.off_dt_struct
        /\ g.size_dt_struct = b.size_dt_struct /\ g.off_dt_strings = b.off_dt_strings
        /\ g.size_dt_strings = b.size_dt_strings
    BY MemEdit
  <2>4. /\ b.size_dt_struct + newlen - oldlen \in Nat /\ b.off_dt_strings + newlen - oldlen \in Nat
        /\ b.size_dt_struct + newlen - oldlen = b.size_dt_struct + (newlen - oldlen)
        /\ b.off_dt_strings + newlen - oldlen = b.off_dt_strings + (newlen - oldlen)
    BY <1>1, <1>2
  <2> HIDE DEF g
  <2>5. f \in Blobs  BY <2>3, <2>4 DEF Blobs
  <2>6. f.mem = m /\ Resized(b, f, newlen - oldlen)
    BY <2>3, <2>4 DEF Blobs, Resized
  <2>7. DataSize(f) <= b.totalsize
    <3>1. DataSize(f) = DataSize(b) - oldlen + newlen  BY <1>1, <2>6 DEF DataSize, Resized
    <3> QED BY <1>5, <3>1
  <2> HIDE DEF f, r
  <2>8. /\ p + oldlen <= DataSize(b)
        /\ \A q \in Memory : q < p + newlen => f.mem[q] = b.mem[q]
        /\ \A q \in p + oldlen .. DataSize(b) - 1 : f.mem[q + newlen - oldlen] = b.mem[q]
    BY <1>5, <2>1, <2>6
  <2> QED BY <2>2, <2>5, <2>6, <2>7, <2>8 DEF r, StructLeaves
<1> HIDE DEF r
<1> QED BY <1>3, <1>4, <1>5 DEF r

\* Whole elements are taken out.
LEMMA DeleteRun ==
  ASSUME NEW b \in Blobs, NEW k \in Nat, NEW e \in Nat, Holds(b, k, e), RwCheckHeader(b) = 0,
         NEW a \in Nat, NEW c \in Nat, a <= c, c <= e,
         Run(b.mem, b.off_dt_struct, b.off_dt_struct + a),
         Run(b.mem, b.off_dt_struct + c, b.off_dt_struct + e)
  PROVE  Fine(SpliceStruct(b, a, c - a, 0).fdt)
<1> DEFINE r == SpliceStruct(b, a, c - a, 0)
           f == r.fdt
           st == b.off_dt_struct
<1>1. /\ b.size_dt_struct = e + 1 /\ st \in Nat /\ c - a \in Nat
  BY Writable, BlobFields DEF Holds
<1>2. \/ r.err # 0 /\ r.err \in Int /\ r.fdt = b
      \/ /\ r.err = 0 /\ r.fdt \in Blobs
         /\ Resized(b, r.fdt, 0 - (c - a)) /\ DataSize(r.fdt) <= b.totalsize
         /\ b.off_dt_struct + a + (c - a) <= DataSize(b)
         /\ \A q \in Memory : q < b.off_dt_struct + a + 0 => r.fdt.mem[q] = b.mem[q]
         /\ \A q \in b.off_dt_struct + a + (c - a) .. DataSize(b) - 1 :
              r.fdt.mem[q + 0 - (c - a)] = b.mem[q]
  <2> DEFINE l == c - a
  <2>1. l \in Nat /\ l <= b.size_dt_struct /\ 0 \in Nat  BY <1>1
  <2> HIDE DEF l
  <2>2. StructLeaves(b, a, l, 0, SpliceStruct(b, a, l, 0))  BY <2>1, SpliceStructEffect
  <2> QED BY <2>2 DEF l, StructLeaves
<1>3. CASE r.fdt = b
  BY <1>3 DEF Fine
<1>4. CASE r.err = 0 /\ ~(r.fdt = b)
  <2> HIDE DEF r
  <2>1. f \in Blobs /\ Resized(b, f, 0 - (c - a)) /\ DataSize(f) <= b.totalsize
    BY <1>2, <1>4
  <2>2. \A q \in Memory : q < st + a => f.mem[q] = b.mem[q]
    BY <1>1, <1>2, <1>4
  <2>3. \A q \in st + c .. DataSize(b) - 1 : f.mem[q + (0 - (c - a))] = b.mem[q]
    <3>1. st + a + (c - a) = st + c  BY <1>1
    <3>2. \A q \in st + c .. DataSize(b) - 1 : q + (0 - (c - a)) = q + 0 - (c - a)  BY <1>1
    <3> QED BY <1>2, <1>4, <3>1, <3>2
  <2>4. Run(f.mem, st + a, st + a + 0)  BY <1>1 DEF Run
  <2>5. Named(f.mem, st + a, st + a + 0, f.off_dt_strings, f.size_dt_strings)  BY <1>1 DEF Named
  <2>6. 0 - (c - a) = 0 - (c - a) /\ 0 \in Nat  OBVIOUS
  <2> HIDE DEF f
  <2>7. Holds(f, k, e + (0 - (c - a)))
    BY <2>1, <2>2, <2>3, <2>4, <2>5, <2>6, StructEdit DEF Resized
  <2>8. e + (0 - (c - a)) \in Nat  OBVIOUS
  <2> QED BY <2>1, <2>7, <2>8 DEF Fine, f, r
<1> QED BY <1>2, <1>3, <1>4
-----------------------------------------------------------------------------
\* Properties and nodes are deleted, nodes are added and renamed.

LEMMA HoldsFine ==
  ASSUME NEW b \in Blobs, NEW k \in Nat, NEW e \in Nat, Holds(b, k, e)
  PROVE  Fine(b)
BY DEF Fine

\* The cells of the property at q.
LEMMA PropertyEnds ==
  ASSUME NEW b \in Blobs, NEW k \in Nat, NEW e \in Nat, Holds(b, k, e),
         NEW q \in 0 .. e - 1, At(b, q).tag = "prop"
  PROVE  /\ NextTag(b, q) = q + 1 + Units(At(b, q).y) /\ Units(At(b, q).y) \in Nat
         /\ q + 1 + Units(At(b, q).y) <= e
<1> DEFINE st == b.off_dt_struct
           n == NextTag(b, q)
<1>1. n \in q + 1 .. e /\ Elem(b.mem, st + q, st + n)
  BY TagAt DEF Opens
<1>2. st \in Nat  BY BlobFields
<1>3. Units(b.mem[st + q].y) = (st + n) - (st + q) - 1
  <2> HIDE DEF n, st
  <2>1. b.mem[st + q].tag = "prop"  BY DEF At, st
  <2> QED BY <1>1, <2>1 DEF Elem
<1>4. Units(At(b, q).y) = n - q - 1
  <2>1. (st + n) - (st + q) - 1 = n - q - 1  BY <1>1, <1>2
  <2> QED BY <1>3, <2>1 DEF At
<1> QED BY <1>1, <1>4

LEMMA DelPropFine ==
  ASSUME NEW b \in Blobs, NEW k \in Nat, NEW e \in Nat, Holds(b, k, e), NEW o \in Nat, NEW name
  PROVE  Fine(DelProp(b, o, name).fdt)
<1> DEFINE q == GetProperty(b, o, name)
           r == SpliceStruct(b, q, 1 + Units(At(b, q).y), 0)
<1>1. CASE RwCheckHeader(b) # 0
  BY <1>1, HoldsFine DEF DelProp, Guarded, Fail
<1>2. CASE RwCheckHeader(b) = 0 /\ q \in {BADOFFSET, NOTFOUND}
  BY <1>2, HoldsFine DEF DelProp, Guarded, Fail, BADOFFSET, NOTFOUND
<1>3. CASE RwCheckHeader(b) = 0 /\ q \in o + 1 .. e - 1 /\ At(b, q).tag = "prop"
  <2>1. q \in 0 .. e - 1 /\ ~(q < 0)  BY <1>3
  <2>2. DelProp(b, o, name) = r  BY <1>3, <2>1 DEF DelProp, Guarded
  <2> DEFINE c == NextTag(b, q)
  <2>3. c = q + 1 + Units(At(b, q).y) /\ c <= e /\ Units(At(b, q).y) \in Nat
    <3> HIDE DEF q
    <3> QED BY <1>3, <2>1, PropertyEnds
  <2>4. Run(b.mem, b.off_dt_struct, b.off_dt_struct + q) /\ Run(b.mem, b.off_dt_struct + c, b.off_dt_struct + e)
    <3> HIDE DEF q
    <3> QED BY <1>3, <2>1, TagAt DEF Opens
  <2>5. c - q = 1 + Units(At(b, q).y) /\ q \in Nat /\ c \in Nat /\ q <= c  BY <2>1, <2>3
  <2> HIDE DEF q, c
  <2>6. Fine(SpliceStruct(b, q, c - q, 0).fdt)  BY <1>3, <2>3, <2>4, <2>5, DeleteRun
  <2> QED BY <2>2, <2>5, <2>6
<1> QED BY <1>1, <1>2, <1>3, PropertyAt

LEMMA DelNodeFine ==
  ASSUME NEW b \in Blobs, NEW k \in Nat, NEW e \in Nat, Holds(b, k, e), NEW o \in Nat
  PROVE  Fine(DelNode(b, o).fdt)
<1> DEFINE end == NodeEnd(b, o)
<1>1. CASE RwCheckHeader(b) # 0
  BY <1>1, HoldsFine DEF DelNode, Guarded, Fail
<1>2. CASE RwCheckHeader(b) = 0 /\ end \in {BADOFFSET, NOTFOUND}
  BY <1>2, HoldsFine DEF DelNode, Guarded, Fail, BADOFFSET, NOTFOUND
<1>3. CASE RwCheckHeader(b) = 0 /\ end \notin {BADOFFSET, NOTFOUND}
  <2>1. /\ o < e /\ At(b, o).tag = "begin"
        /\ end \in o + 1 .. e /\ At(b, end - 1).tag = "end_node"
    BY <1>3, EndAt
  <2>2. DelNode(b, o) = SpliceStruct(b, o, end - o, 0)
    <3>1. ~(end < 0)  BY <2>1
    <3> QED BY <1>3, <3>1 DEF DelNode, Guarded
  <2>3. Run(b.mem, b.off_dt_struct, b.off_dt_struct + o)
    <3>1. o \in 0 .. e - 1 /\ At(b, o).tag \in Opens  BY <2>1 DEF Opens
    <3> QED BY <3>1, TagAt
  <2>4. Run(b.mem, b.off_dt_struct + end, b.off_dt_struct + e)
    <3> DEFINE l == end - 1
    <3>1. l \in 0 .. e - 1 /\ At(b, l).tag \in Opens /\ l + 1 = end  BY <2>1 DEF Opens
    <3> HIDE DEF l, end
    <3>2. /\ NextTag(b, l) \in l + 1 .. e
          /\ Elem(b.mem, b.off_dt_struct + l, b.off_dt_struct + NextTag(b, l))
          /\ Run(b.mem, b.off_dt_struct + NextTag(b, l), b.off_dt_struct + e)
      BY <3>1, TagAt
    <3>3. b.off_dt_struct + NextTag(b, l) = b.off_dt_struct + l + 1
      BY <2>1, <3>2 DEF Elem, At, l
    <3>4. NextTag(b, l) = end  BY <3>1, <3>2, <3>3, BlobFields
    <3> QED BY <3>2, <3>4
  <2>5. end \in Nat /\ o <= end /\ end <= e  BY <2>1
  <2> HIDE DEF end
  <2>6. Fine(SpliceStruct(b, o, end - o, 0).fdt)  BY <1>3, <2>3, <2>4, <2>5, DeleteRun
  <2> QED BY <2>2, <2>6 DEF end
<1> QED BY <1>1, <1>2, <1>3

\* The headers agree.
SameHeader(b, f) ==
  /\ f.magic = b.magic /\ f.version = b.version /\ f.totalsize = b.totalsize
  /\ f.off_mem_rsvmap = b.off_mem_rsvmap /\ f.off_dt_struct = b.off_dt_struct
  /\ f.size_dt_struct = b.size_dt_struct
  /\ f.off_dt_strings = b.off_dt_strings /\ f.size_dt_strings = b.size_dt_strings

\* Overwriting cells changes those cells and nothing else.
PutMade(b, at, cells, f) ==
  /\ f \in Blobs /\ SameHeader(b, f)
  /\ \A p \in Memory : p \in at .. at + Len(cells) - 1 => f.mem[p] = cells[p - at + 1]
  /\ \A p \in Memory : p \notin at .. at + Len(cells) - 1 => f.mem[p] = b.mem[p]

\* fdt_put writes just that.
LEMMA PutHeader ==
  ASSUME NEW b \in Blobs, NEW at \in Nat, NEW cells \in Seq(Cells)
  PROVE  PutMade(b, at, cells, Put(b, at, cells))
<1> DEFINE f == Put(b, at, cells)
<1>1. PICK m \in [Memory -> Cells] :
        /\ f = [b EXCEPT !.mem = m]
        /\ \A p \in Memory : p \in at .. at + Len(cells) - 1 => m[p] = cells[p - at + 1]
        /\ \A p \in Memory : p \notin at .. at + Len(cells) - 1 => m[p] = b.mem[p]
  BY PutEffect
<1> HIDE DEF f
<1>2. f \in Blobs /\ f.mem = m /\ SameHeader(b, f)
  BY <1>1, MemEdit DEF SameHeader
<1> QED BY <1>1, <1>2 DEF f, PutMade

\* Cells i to c of the structure give way to newlen others, and what follows leaves
\* a run from a on: the blob is in order again.
LEMMA SpliceThen ==
  ASSUME NEW b \in Blobs, NEW k \in Nat, NEW e \in Nat, Holds(b, k, e), RwCheckHeader(b) = 0,
         NEW a \in Nat, NEW i \in Nat, NEW c \in Nat, a <= i, i <= c, c <= e, NEW newlen \in Nat,
         Run(b.mem, b.off_dt_struct, b.off_dt_struct + a),
         Run(b.mem, b.off_dt_struct + c, b.off_dt_struct + e),
         SpliceStruct(b, i, c - i, newlen).err = 0,
         NEW g \in Blobs, SameHeader(SpliceStruct(b, i, c - i, newlen).fdt, g),
         \A q \in Memory : q < b.off_dt_struct + a \/ q >= b.off_dt_struct + i + newlen =>
           g.mem[q] = SpliceStruct(b, i, c - i, newlen).fdt.mem[q],
         Run(g.mem, b.off_dt_struct + a, b.off_dt_struct + i + newlen),
         Named(g.mem, b.off_dt_struct + a, b.off_dt_struct + i + newlen,
               g.off_dt_strings, g.size_dt_strings)
  PROVE  Fine(g)
<1> DEFINE st == b.off_dt_struct
           r == SpliceStruct(b, i, c - i, newlen)
           f == r.fdt
           w == (i - a) + newlen
           l == c - i
<1>1. /\ st \in Nat /\ w \in Nat /\ b.size_dt_struct = e + 1 /\ DataSize(b) \in Nat
      /\ b.totalsize <= MaxSize /\ b.totalsize \in Nat /\ MaxSize \in Nat
      /\ DataSize(b) <= b.totalsize /\ l \in Nat /\ l <= b.size_dt_struct
  BY Writable, BlobFields, FdtRwAssumption DEF Holds, DataSize
<1>2. /\ f \in Blobs
      /\ Resized(b, f, newlen - l) /\ DataSize(f) <= b.totalsize
      /\ st + i + l <= DataSize(b)
      /\ \A q \in Memory : q < st + i + newlen => f.mem[q] = b.mem[q]
      /\ \A q \in st + i + l .. DataSize(b) - 1 : f.mem[q + newlen - l] = b.mem[q]
  <2>1. r.err = 0  OBVIOUS
  <2> HIDE DEF l
  <2>2. StructLeaves(b, i, l, newlen, SpliceStruct(b, i, l, newlen))  BY <1>1, SpliceStructEffect
  <2> QED BY <2>1, <2>2 DEF StructLeaves, l
<1>3. newlen - l = w - (c - a) /\ st + i + l = st + c /\ st + i + newlen = st + a + w  BY <1>1
<1>4. Resized(b, g, w - (c - a)) /\ DataSize(g) <= b.totalsize
  <2>1. SameHeader(f, g)  OBVIOUS
  <2> HIDE DEF f, l, w
  <2> QED BY <1>2, <1>3, <2>1 DEF Resized, SameHeader, DataSize
<1>5. \A q \in Memory : q < st + a => g.mem[q] = b.mem[q]
  <2>1. \A q \in Memory : q < st + a => g.mem[q] = f.mem[q]  OBVIOUS
  <2>2. \A q \in Memory : q < st + a => q < st + i + newlen  BY <1>1 DEF Memory
  <2> HIDE DEF f
  <2> QED BY <1>2, <2>1, <2>2
<1>6. ASSUME NEW q \in st + c .. DataSize(b) - 1 PROVE g.mem[q + (w - (c - a))] = b.mem[q]
  <2> DEFINE s == q + (w - (c - a))
  <2>1. s = q + newlen - l /\ q \in st + i + l .. DataSize(b) - 1 /\ s >= st + i + newlen
    BY <1>1, <1>3
  <2>2. s \in Memory
    <3>1. s <= DataSize(b) + (w - (c - a)) - 1  BY <1>1
    <3>2. DataSize(f) = DataSize(b) + (newlen - l)
      <4> HIDE DEF f, l
      <4>1. b.off_dt_strings \in Nat /\ b.size_dt_strings \in Nat  BY BlobFields
      <4>2. newlen - l \in Int  BY <1>1
      <4> QED BY <1>2, <4>1, <4>2 DEF Resized, DataSize
    <3>3. s < MaxSize /\ s \in Nat
      <4> HIDE DEF f
      <4> QED BY <1>1, <1>2, <1>3, <3>1, <3>2, <2>1
    <3> QED BY <1>1, <3>3 DEF Memory
  <2>3. g.mem[s] = f.mem[s]
    <3> HIDE DEF s
    <3> QED BY <2>1, <2>2
  <2>4. f.mem[s] = b.mem[q]
    <3> HIDE DEF s, f, l
    <3> QED BY <1>2, <2>1
  <2> QED BY <2>3, <2>4
<1>7. /\ Run(g.mem, st + a, st + a + w)
      /\ Named(g.mem, st + a, st + a + w, g.off_dt_strings, g.size_dt_strings)
  BY <1>3
<1>8. Holds(g, k, e + (w - (c - a)))
  <2> HIDE DEF w, f, r, l
  <2>1. a <= c  OBVIOUS
  <2>2. \A q \in st + c .. DataSize(b) - 1 : g.mem[q + (w - (c - a))] = b.mem[q]  BY <1>6
  <2> QED BY <1>1, <1>4, <1>5, <1>7, <2>1, <2>2, StructEdit DEF Resized
<1>9. e + (w - (c - a)) \in Nat  BY <1>1
<1> HIDE DEF w
<1> QED BY <1>8, <1>9, HoldsFine
-----------------------------------------------------------------------------
\* The cells of names and values.

LEMMA BytesLemma ==
  ASSUME NEW s \in Seq(Nat)
  PROVE  /\ Bytes(s) \in Seq(Cells) /\ Len(Bytes(s)) = Units(Len(s)) /\ Units(Len(s)) \in Nat
         /\ \A i \in 1 .. Units(Len(s)) :
              Bytes(s)[i] = Cell("data", s[2 * i - 1], IF 2 * i <= Len(s) THEN s[2 * i] ELSE 0)
         /\ \A i \in 1 .. Units(Len(s)) : Bytes(s)[i].tag = "data"
<1> DEFINE u == Units(Len(s))
<1>1. u \in Nat /\ 2 * u <= Len(s) + 1  BY UnitsLemma
<1>2. \A i \in 1 .. u :
        Bytes(s)[i] = Cell("data", s[2 * i - 1], IF 2 * i <= Len(s) THEN s[2 * i] ELSE 0)
  BY DEF Bytes
<1>3. ASSUME NEW i \in 1 .. u PROVE Bytes(s)[i] \in Cells /\ Bytes(s)[i].tag = "data"
  <2>1. 2 * i - 1 \in 1 .. Len(s)  BY <1>1
  <2>2. s[2 * i - 1] \in Nat  BY <2>1
  <2>3. (IF 2 * i <= Len(s) THEN s[2 * i] ELSE 0) \in Nat
    <3>1. 2 * i <= Len(s) => 2 * i \in 1 .. Len(s)  BY <1>1
    <3> QED BY <3>1
  <2>4. "data" \in Tags  BY DEF Tags
  <2> DEFINE x == s[2 * i - 1]
             y == IF 2 * i <= Len(s) THEN s[2 * i] ELSE 0
  <2>5. Bytes(s)[i] = Cell("data", x, y)  BY <1>2
  <2>6. x \in Nat /\ y \in Nat  BY <2>2, <2>3
  <2> HIDE DEF x, y
  <2> QED BY <2>4, <2>5, <2>6 DEF Cell, Cells
<1>4. Bytes(s) = [i \in 1 .. u |-> Bytes(s)[i]]  BY DEF Bytes
<1>5. Bytes(s) \in [1 .. u -> Cells]  
  <2> HIDE DEF u
  <2> QED BY <1>3, <1>4
<1>6. Bytes(s) \in Seq(Cells) /\ Len(Bytes(s)) = u
  <2> HIDE DEF u
  <2> QED BY <1>1, <1>5
<1> QED BY <1>1, <1>2, <1>3, <1>6

LEMMA NameCellsLemma ==
  ASSUME NEW name \in Seq(Nat \ {0})
  PROVE  /\ NameCells(name) \in Seq(Cells) /\ Len(NameCells(name)) \in Nat \ {0}
         /\ \A i \in 1 .. Len(NameCells(name)) : NameCells(name)[i].tag = "data"
         /\ HasNul(NameCells(name)[Len(NameCells(name))])
         /\ \A i \in 1 .. Len(NameCells(name)) - 1 : ~HasNul(NameCells(name)[i])
<1> DEFINE s == Append(name, 0)
           L == Len(name) + 1
           u == Units(L)
           cells == NameCells(name)
<1>1. s \in Seq(Nat) /\ Len(s) = L /\ Len(name) \in Nat /\ s[L] = 0
      /\ \A i \in 1 .. Len(name) : s[i] = name[i] /\ s[i] # 0
  OBVIOUS
<1>2. L \in Nat /\ L >= 1 /\ u \in Nat /\ 2 * u >= L /\ 2 * u <= L + 1
  <2>1. L \in Nat /\ L >= 1  BY <1>1
  <2> HIDE DEF L
  <2> QED BY <2>1, UnitsLemma
<1>3. cells = Bytes(s)  BY DEF NameCells
<1> HIDE DEF s, cells
<1>4. /\ cells \in Seq(Cells) /\ Len(cells) = u
      /\ \A i \in 1 .. u :
           cells[i] = Cell("data", s[2 * i - 1], IF 2 * i <= L THEN s[2 * i] ELSE 0)
      /\ \A i \in 1 .. u : cells[i].tag = "data"
  BY <1>1, <1>3, BytesLemma
<1> HIDE DEF u
<1>5. HasNul(cells[u])
  <2>1. u \in 1 .. u  BY <1>2
  <2>2. cells[u].x = s[2 * u - 1] /\ cells[u].y = IF 2 * u <= L THEN s[2 * u] ELSE 0
    BY <1>4, <2>1 DEF Cell
  <2>3. CASE 2 * u = L  BY <1>1, <2>2, <2>3 DEF HasNul
  <2>4. CASE 2 * u = L + 1
    <3>1. 2 * u - 1 = L  BY <1>2, <2>4
    <3> QED BY <1>1, <2>2, <3>1 DEF HasNul
  <2> QED BY <1>2, <2>3, <2>4
<1>6. ASSUME NEW i \in 1 .. u - 1 PROVE ~HasNul(cells[i])
  <2>1. i \in 1 .. u /\ 2 * i <= L - 1 /\ 2 * i - 1 \in 1 .. Len(name) /\ 2 * i \in 1 .. Len(name)
    BY <1>1, <1>2
  <2>2. cells[i].x = s[2 * i - 1] /\ cells[i].y = s[2 * i]
    <3>1. 2 * i <= L  BY <1>2, <2>1
    <3> QED BY <1>4, <2>1, <3>1 DEF Cell
  <2> QED BY <1>1, <2>1, <2>2 DEF HasNul
<1>7. u # 0  BY <1>2
<1> QED BY <1>2, <1>4, <1>5, <1>6, <1>7 DEF cells

\* A name behind its tag is an element.
LEMMA NameElem ==
  ASSUME NEW m, NEW p \in Nat, NEW name \in Seq(Nat \ {0}), m[p].tag = "begin",
         \A i \in 1 .. Len(NameCells(name)) : m[p + i] = NameCells(name)[i]
  PROVE  Elem(m, p, p + 1 + Len(NameCells(name)))
<1> DEFINE u == Len(NameCells(name))
           n == p + 1 + u
<1>1. /\ u \in Nat \ {0} /\ \A i \in 1 .. u : NameCells(name)[i].tag = "data"
      /\ HasNul(NameCells(name)[u]) /\ \A i \in 1 .. u - 1 : ~HasNul(NameCells(name)[i])
  BY NameCellsLemma
<1> HIDE DEF u
<1>2. ASSUME NEW j \in p + 1 .. n - 1 PROVE j - p \in 1 .. u /\ m[j] = NameCells(name)[j - p]
  <2>1. j - p \in 1 .. u /\ p + (j - p) = j  BY <1>1
  <2> QED BY <2>1 DEF u
<1>3. \A j \in p + 1 .. n - 1 : m[j].tag \notin Opens /\ m[j].tag # "end"
  BY <1>1, <1>2 DEF Opens
<1>4. p + 1 < n /\ HasNul(m[n - 1])
  <2>1. n - 1 \in p + 1 .. n - 1 /\ (n - 1) - p = u /\ p + 1 < n  BY <1>1
  <2>2. m[n - 1] = NameCells(name)[u]  BY <1>2, <2>1
  <2> QED BY <1>1, <2>1, <2>2
<1>5. \A j \in p + 1 .. n - 2 : ~HasNul(m[j])
  <2>1. \A j \in p + 1 .. n - 2 : j \in p + 1 .. n - 1 /\ j - p \in 1 .. u - 1  BY <1>1
  <2> QED BY <1>1, <1>2, <2>1
<1> HIDE DEF n
<1>6. Elem(m, p, n)  BY <1>3, <1>4, <1>5 DEF Elem, Opens
<1> QED BY <1>6 DEF n, u
-----------------------------------------------------------------------------
\* In front of a tag, or of END, the structure can be cut.
LEMMA CutAt ==
  ASSUME NEW b \in Blobs, NEW k \in Nat, NEW e \in Nat, Holds(b, k, e),
         NEW q \in 0 .. e, q < e => At(b, q).tag \in Opens
  PROVE  /\ Run(b.mem, b.off_dt_struct, b.off_dt_struct + q)
         /\ Run(b.mem, b.off_dt_struct + q, b.off_dt_struct + e)
<1> DEFINE s == b.off_dt_struct
           t == s + q
           r == s + e
<1>1. s \in Nat /\ t \in Nat /\ r \in Nat /\ s <= t /\ t <= r  BY BlobFields
<1>2. Run(b.mem, s, r) /\ (t < r => b.mem[t].tag \in Opens)
  <2>1. t < r => q < e  BY <1>1
  <2> QED BY <2>1 DEF Holds, At
<1> HIDE DEF s, t, r
<1>3. Run(b.mem, s, t) /\ Run(b.mem, t, r)  BY <1>1, <1>2, RunCut
<1> QED BY <1>3 DEF s, t, r

\* A node of a blob that can be written lies before END.
LEMMA NodeLemma ==
  ASSUME NEW b \in Blobs, NEW k \in Nat, NEW e \in Nat, Holds(b, k, e), RwCheckHeader(b) = 0,
         NEW o \in Nat, ~(CheckNodeOffset(b, o) < 0)
  PROVE  /\ o \in 0 .. e - 1 /\ At(b, o).tag = "begin"
         /\ CheckNodeOffset(b, o) = NextTag(b, o) /\ NextTag(b, o) \in o + 1 .. e
         /\ Elem(b.mem, b.off_dt_struct + o, b.off_dt_struct + NextTag(b, o))
         /\ Run(b.mem, b.off_dt_struct, b.off_dt_struct + o)
         /\ Run(b.mem, b.off_dt_struct, b.off_dt_struct + NextTag(b, o))
         /\ Run(b.mem, b.off_dt_struct + NextTag(b, o), b.off_dt_struct + e)
<1>1. Tag(b, o) = "begin"  BY DEF CheckNodeOffset, Checked, BADOFFSET
<1>2. At(b, o).tag = "begin" /\ o \in 0 .. Size(b) - 1  BY <1>1 DEF Tag
<1>3. Size(b) = e + 1
  <2>1. b.version >= 17  BY Writable
  <2> QED BY <2>1 DEF Size, Holds
<1>4. At(b, e).tag = "end"  BY DEF Holds, At
<1>5. o \in 0 .. e - 1  BY <1>2, <1>3, <1>4
<1>6. /\ NextTag(b, o) \in o + 1 .. e
      /\ Elem(b.mem, b.off_dt_struct + o, b.off_dt_struct + NextTag(b, o))
      /\ Run(b.mem, b.off_dt_struct, b.off_dt_struct + o)
      /\ Run(b.mem, b.off_dt_struct + NextTag(b, o), b.off_dt_struct + e)
  BY <1>2, <1>5, TagAt DEF Opens
<1>7. CheckNodeOffset(b, o) = NextTag(b, o)
  <2>1. ~(NextTag(b, o) < 0)  BY <1>5, <1>6
  <2> QED BY <1>1, <2>1 DEF CheckNodeOffset, Checked, Else
<1>8. Run(b.mem, b.off_dt_struct, b.off_dt_struct + NextTag(b, o))
  <2> DEFINE s == b.off_dt_struct
             p == s + o
             n == s + NextTag(b, o)
  <2>1. s \in Nat /\ p \in Nat /\ n \in Nat /\ s <= p /\ p < n  BY <1>5, <1>6, BlobFields
  <2>2. Run(b.mem, s, p) /\ Elem(b.mem, p, n)  BY <1>6
  <2> HIDE DEF s, p, n
  <2>3. Run(b.mem, p, n)  BY <2>1, <2>2, RunElem
  <2>4. Run(b.mem, s, n)  BY <2>1, <2>2, <2>3, RunJoin
  <2> QED BY <2>4 DEF s, n
<1> QED BY <1>2, <1>5, <1>6, <1>7, <1>8

\* A run of cells is one wherever it is put.
LEMMA RunPlaced ==
  ASSUME NEW m, NEW cells, NEW w \in Nat, NEW at \in Nat, Run(cells, 1, w + 1),
         \A p \in at .. at + w - 1 : m[p] = cells[p - at + 1]
  PROVE  Run(m, at, at + w)
<1> DEFINE d == at - 1
           t == w + 1
<1>1. d \in Int /\ t \in Nat /\ 1 <= t /\ 1 + d = at /\ t + d = at + w /\ Run(cells, 1, t)
  OBVIOUS
<1>2. ASSUME NEW i \in 1 .. t - 1 PROVE m[i + d] = cells[i]
  <2>1. i + d \in at .. at + w - 1 /\ (i + d) - at + 1 = i  OBVIOUS
  <2> HIDE DEF d
  <2> QED BY <2>1
<1> HIDE DEF d, t
<1>3. Run(m, 1 + d, t + d)
  <2>1. 1 \in Nat /\ 1 + d \in Nat  BY <1>1
  <2> QED BY <1>1, <1>2, <2>1, RunMoved
<1> QED BY <1>1, <1>3

LEMMA NoProperties ==
  ASSUME NEW m, NEW cells, NEW w \in Nat, NEW at \in Nat,
         \A i \in 1 .. w : cells[i].tag # "prop",
         \A p \in at .. at + w - 1 : m[p] = cells[p - at + 1],
         NEW str, NEW sl
  PROVE  Named(m, at, at + w, str, sl)
<1>1. \A p \in at .. at + w - 1 : p - at + 1 \in 1 .. w  OBVIOUS
<1>2. \A p \in at .. at + w - 1 : m[p].tag # "prop"  BY <1>1
<1> QED BY <1>2 DEF Named

\* Elements without properties are put in.
LEMMA InsertRun ==
  ASSUME NEW b \in Blobs, NEW k \in Nat, NEW e \in Nat, Holds(b, k, e), RwCheckHeader(b) = 0,
         NEW q \in 0 .. e, q < e => At(b, q).tag \in Opens,
         NEW cells \in Seq(Cells), Run(cells, 1, Len(cells) + 1),
         \A i \in 1 .. Len(cells) : cells[i].tag # "prop",
         SpliceStruct(b, q, 0, Len(cells)).err = 0
  PROVE  Fine(Put(SpliceStruct(b, q, 0, Len(cells)).fdt, b.off_dt_struct + q, cells))
<1> DEFINE w == Len(cells)
           r == SpliceStruct(b, q, 0, w)
           at == b.off_dt_struct + q
           g == Put(r.fdt, at, cells)
<1>1. /\ w \in Nat /\ at \in Nat /\ q \in Nat /\ b.off_dt_struct \in Nat
      /\ Run(cells, 1, w + 1) /\ at = b.off_dt_struct + q
  BY BlobFields
<1>2. /\ Run(b.mem, b.off_dt_struct, b.off_dt_struct + q)
      /\ Run(b.mem, b.off_dt_struct + q, b.off_dt_struct + e)
  BY CutAt
<1>3. /\ r.fdt \in Blobs /\ DataSize(r.fdt) <= b.totalsize /\ Resized(b, r.fdt, w)
      /\ b.off_dt_struct + q <= DataSize(b)
  <2>1. 0 <= b.size_dt_struct /\ 0 \in Nat  BY BlobFields
  <2>2. StructLeaves(b, q, 0, w, r)
    <3> HIDE DEF w
    <3> QED BY <1>1, <2>1, SpliceStructEffect
  <2> HIDE DEF r
  <2>3. w - 0 = w /\ b.off_dt_struct + q + 0 = b.off_dt_struct + q  BY <1>1
  <2> QED BY <2>2, <2>3 DEF StructLeaves, r
<1>4. /\ g \in Blobs /\ SameHeader(r.fdt, g)
      /\ \A p \in Memory : p \in at .. at + w - 1 => g.mem[p] = cells[p - at + 1]
      /\ \A p \in Memory : p \notin at .. at + w - 1 => g.mem[p] = r.fdt.mem[p]
  <2> DEFINE f == r.fdt
  <2>1. f \in Blobs  BY <1>3
  <2> HIDE DEF f, at
  <2>2. /\ Put(f, at, cells) \in Blobs /\ SameHeader(f, Put(f, at, cells))
        /\ \A p \in Memory : p \in at .. at + Len(cells) - 1 =>
             Put(f, at, cells).mem[p] = cells[p - at + 1]
        /\ \A p \in Memory : p \notin at .. at + Len(cells) - 1 =>
             Put(f, at, cells).mem[p] = f.mem[p]
    <3>1. PutMade(f, at, cells, Put(f, at, cells))  BY <1>1, <2>1, PutHeader
    <3> QED BY <3>1 DEF PutMade
  <2> QED BY <2>2 DEF f
<1>5. \A p \in at .. at + w - 1 : p \in Memory
  <2>1. DataSize(r.fdt) = DataSize(b) + w
    <3> HIDE DEF r, w
    <3>1. b.off_dt_strings \in Nat /\ b.size_dt_strings \in Nat  BY BlobFields
    <3> QED BY <1>1, <1>3, <3>1 DEF Resized, DataSize
  <2>2. b.totalsize <= MaxSize /\ MaxSize \in Nat /\ DataSize(b) \in Nat /\ b.totalsize \in Nat
    BY BlobFields, FdtRwAssumption DEF DataSize
  <2> HIDE DEF r, w
  <2>3. at + w <= MaxSize  BY SMTT(40), <1>1, <1>3, <2>1, <2>2
  <2> QED BY SMTT(40), <1>1, <2>2, <2>3 DEF Memory
<1>6. r.err = 0 /\ SpliceStruct(b, q, q - q, w) = r
  <2>1. q - q = 0  BY <1>1
  <2> QED BY <2>1
<1> HIDE DEF g, r, w, at
<1>7. \A p \in at .. at + w - 1 : g.mem[p] = cells[p - at + 1]  BY <1>4, <1>5
<1>8. /\ Run(g.mem, at, at + w)
      /\ Named(g.mem, at, at + w, g.off_dt_strings, g.size_dt_strings)
  <2>1. \A i \in 1 .. w : cells[i].tag # "prop"  BY DEF w
  <2>2. Run(g.mem, at, at + w)  BY ZenonT(60), <1>1, <1>7, <2>1, RunPlaced
  <2>3. Named(g.mem, at, at + w, g.off_dt_strings, g.size_dt_strings)
    BY ZenonT(60), <1>1, <1>7, <2>1, NoProperties
  <2> QED BY <2>2, <2>3
<1>9. \A p \in Memory : p < at \/ p >= at + w => g.mem[p] = r.fdt.mem[p]
  <2>1. \A p \in Memory : p < at \/ p >= at + w => p \notin at .. at + w - 1
    BY SMTT(40), <1>1 DEF Memory
  <2> QED BY <1>4, <2>1
<1>10. Fine(g)
  <2>1. q <= q /\ q <= e  OBVIOUS
  <2>2. /\ Run(g.mem, b.off_dt_struct + q, b.off_dt_struct + q + w)
        /\ Named(g.mem, b.off_dt_struct + q, b.off_dt_struct + q + w,
                 g.off_dt_strings, g.size_dt_strings)
        /\ \A p \in Memory : p < b.off_dt_struct + q \/ p >= b.off_dt_struct + q + w =>
             g.mem[p] = SpliceStruct(b, q, q - q, w).fdt.mem[p]
    BY <1>1, <1>6, <1>8, <1>9
  <2>3. SpliceStruct(b, q, q - q, w).err = 0 /\ SameHeader(SpliceStruct(b, q, q - q, w).fdt, g)
    BY <1>4, <1>6
  <2>4. q \in Nat /\ w \in Nat /\ g \in Blobs  BY <1>1, <1>4
  <2> QED BY SMTT(40), <1>2, <2>1, <2>2, <2>3, <2>4, SpliceThen
<1> QED BY <1>10 DEF g, r, w, at
-----------------------------------------------------------------------------
\* The cells of a new node.
NewNode(name) == <<Cell("begin", 0, 0)>> \o NameCells(name) \o <<Cell("end_node", 0, 0)>>

LEMMA NewNodeLemma ==
  ASSUME NEW name \in Seq(Nat \ {0})
  PROVE  /\ NewNode(name) \in Seq(Cells)
         /\ Run(NewNode(name), 1, Len(NewNode(name)) + 1)
         /\ \A i \in 1 .. Len(NewNode(name)) : NewNode(name)[i].tag # "prop"
         /\ Len(NewNode(name)) = Len(NameCells(name)) + 2 /\ NewNode(name)[1].tag = "begin"
         /\ NewNode(name)[Len(NameCells(name)) + 2].tag = "end_node"
         /\ \A i \in 1 .. Len(NameCells(name)) : NewNode(name)[1 + i] = NameCells(name)[i]
<1> DEFINE n == NameCells(name)
           u == Len(n)
           b == Cell("begin", 0, 0)
           z == Cell("end_node", 0, 0)
           cells == NewNode(name)
<1>1. /\ n \in Seq(Cells) /\ u \in Nat \ {0} /\ \A i \in 1 .. u : n[i].tag = "data"
  BY NameCellsLemma
<1>2. b \in Cells /\ z \in Cells /\ b.tag = "begin" /\ z.tag = "end_node"
  BY DEF Cell, Cells, Tags
<1>3. cells = <<b>> \o n \o <<z>>  BY DEF NewNode
<1> HIDE DEF n, b, z, cells
<1>4. /\ cells \in Seq(Cells) /\ Len(cells) = u + 2
      /\ cells[1] = b /\ cells[u + 2] = z /\ \A i \in 1 .. u : cells[1 + i] = n[i]
  <2>1. <<b>> \in Seq(Cells) /\ <<z>> \in Seq(Cells) /\ Len(<<b>>) = 1 /\ Len(<<z>>) = 1
    BY <1>2
  <2> DEFINE h == <<b>> \o n
  <2>2. h \in Seq(Cells) /\ Len(h) = u + 1 /\ h[1] = b /\ \A i \in 1 .. u : h[1 + i] = n[i]
    BY <1>1, <1>2
  <2>3. cells = h \o <<z>>  BY <1>3
  <2> HIDE DEF h
  <2>4. cells \in Seq(Cells) /\ Len(cells) = u + 2 /\ \A i \in 1 .. u + 1 : cells[i] = h[i]
    BY <1>1, <1>2, <2>2, <2>3
  <2>5. cells[u + 2] = z  BY <1>1, <1>2, <2>2, <2>3
  <2>6. cells[1] = b  BY <1>1, <2>2, <2>4
  <2>7. ASSUME NEW i \in 1 .. u PROVE cells[1 + i] = n[i]
    <3>1. 1 + i \in 1 .. u + 1  BY <1>1
    <3> QED BY <2>2, <2>4, <3>1
  <2> QED BY <2>4, <2>5, <2>6, <2>7
<1> HIDE DEF u
<1>5. Elem(cells, 1, u + 2)
  <2>1. cells[1].tag = "begin"  BY <1>2, <1>4
  <2>2. \A i \in 1 .. Len(NameCells(name)) : cells[1 + i] = NameCells(name)[i]  BY <1>4 DEF n, u
  <2>3. Elem(cells, 1, 1 + 1 + Len(NameCells(name)))
    <3>1. 1 \in Nat  OBVIOUS
    <3> QED BY <2>1, <2>2, <3>1, NameElem
  <2>4. 1 + 1 + u = u + 2  BY <1>1
  <2> QED BY <2>3, <2>4 DEF n, u
<1>6. Elem(cells, u + 2, u + 3)
  <2>1. u + 3 = (u + 2) + 1 /\ \A i \in u + 2 + 1 .. u + 3 - 1 : FALSE  BY <1>1
  <2> QED BY <1>2, <1>4, <2>1 DEF Elem, Opens
<1>7. Run(cells, 1, u + 3)
  <2> DEFINE p == u + 2
             q == u + 3
  <2>1. p \in Nat /\ q \in Nat /\ 1 < p /\ p < q /\ 1 \in Nat /\ 1 <= p /\ p <= q  BY <1>1
  <2>2. Elem(cells, 1, p) /\ Elem(cells, p, q)  BY <1>5, <1>6
  <2> HIDE DEF p, q
  <2>3. Run(cells, 1, p) /\ Run(cells, p, q)  BY <2>1, <2>2, RunElem
  <2>4. Run(cells, 1, q)  BY <2>1, <2>3, RunJoin
  <2> QED BY <2>4 DEF q
<1>8. ASSUME NEW i \in 1 .. u + 2 PROVE cells[i].tag # "prop"
  <2>1. CASE i = 1  BY <1>2, <1>4, <2>1
  <2>2. CASE i = u + 2  BY <1>2, <1>4, <2>2
  <2>3. CASE i \in 2 .. u + 1
    <3>1. i - 1 \in 1 .. u /\ 1 + (i - 1) = i  BY <1>1, <2>3
    <3>2. cells[i] = n[i - 1]  BY <1>4, <3>1
    <3> QED BY <1>1, <3>1, <3>2
  <2> QED BY <1>1, <2>1, <2>2, <2>3
<1>9. u + 2 + 1 = u + 3  BY <1>1
<1>10. /\ Len(NewNode(name)) = Len(NameCells(name)) + 2 /\ NewNode(name)[1].tag = "begin"
       /\ NewNode(name)[Len(NameCells(name)) + 2].tag = "end_node"
       /\ \A i \in 1 .. Len(NameCells(name)) : NewNode(name)[1 + i] = NameCells(name)[i]
  BY <1>2, <1>4 DEF cells, u, n
<1> QED BY <1>4, <1>7, <1>8, <1>9, <1>10 DEF cells

LEMMA AddSubnodeFine ==
  ASSUME NEW b \in Blobs, NEW k \in Nat, NEW e \in Nat, Holds(b, k, e), NEW o \in Nat,
         NEW name \in Seq(Nat \ {0})
  PROVE  Fine(AddSubnode(b, o, name).fdt)
<1> DEFINE cells == NewNode(name)
           w == Len(cells)
           found == SubnodeOffset(b, o, name)
           p == CheckNodeOffset(b, o)
           S == {q \in p .. Size(b) : Tag(b, q) \in {"begin", "end_node", "end", "none"}}
           q == Min(S)
           r == SpliceStruct(b, q, 0, w)
<1>1. CASE RwCheckHeader(b) # 0
  BY <1>1, HoldsFine DEF AddSubnode, Guarded, Fail
<1>2. CASE RwCheckHeader(b) = 0 /\ found # NOTFOUND
  BY <1>2, HoldsFine DEF AddSubnode, Guarded, Fail
<1>3. CASE RwCheckHeader(b) = 0 /\ found = NOTFOUND
  <2>1. ~(p < 0)
    <3>1. SUFFICES ASSUME p < 0 PROVE FALSE  OBVIOUS
    <3>2. NodeEnd(b, o) = BADOFFSET  BY <3>1 DEF NodeEnd
    <3>3. ~(CheckHeader(b) < 0)
      BY <1>3 DEF RwCheckHeader, Unless, CheckHeader, BADVERSION, BADSTATE, BADMAGIC
    <3>4. found = BADOFFSET  BY <3>2, <3>3 DEF SubnodeOffset, Unless, BADOFFSET
    <3> QED BY <1>3, <3>4 DEF NOTFOUND, BADOFFSET
  <2>2. p \in o + 1 .. e
    <3> HIDE DEF p
    <3>1. CheckNodeOffset(b, o) \in o + 1 .. e  BY <1>3, <2>1, NodeLemma DEF p
    <3> QED BY <3>1 DEF p
  <2>3. Size(b) \in Int /\ e + 1 <= Size(b)  BY EndIs
  <2>4. e \in S
    <3>1. Tag(b, e) = "end"  BY <2>3 DEF Tag, Holds, At
    <3> HIDE DEF p
    <3> QED BY <2>2, <2>3, <3>1
  <2>5. q \in S /\ q <= e
    <3>1. S \in SUBSET Nat /\ S # {}
      <4>1. S # {}  BY <2>4
      <4> HIDE DEF p
      <4>2. S \in SUBSET Nat  BY <2>2, <2>3
      <4> QED BY <4>1, <4>2
    <3> HIDE DEF S
    <3> QED BY <2>4, <3>1, MinLemma
  <2>6. q \in 0 .. e /\ (q < e => At(b, q).tag \in Opens)
    <3>1. q \in p .. Size(b) /\ Tag(b, q) \in {"begin", "end_node", "end", "none"}  BY <2>5
    <3> HIDE DEF q, p
    <3>2. q \in 0 .. e  BY <2>2, <2>5, <3>1
    <3>3. ASSUME q < e PROVE At(b, q).tag \in Opens
      <4>1. q \in 0 .. Size(b) - 1  BY <2>3, <3>2
      <4>2. Tag(b, q) = At(b, q).tag  BY <4>1 DEF Tag
      <4>3. At(b, q).tag # "end"
        <5> DEFINE st == b.off_dt_struct
        <5>1. st \in Nat /\ st + q \in st .. st + e - 1  BY <3>2, <3>3, BlobFields
        <5>2. Run(b.mem, st, st + e)  BY DEF Holds
        <5>3. b.mem[st + q].tag # "end"
          <6> HIDE DEF st
          <6> QED BY <5>1, <5>2 DEF Run
        <5> QED BY <5>3 DEF At
      <4>4. At(b, q).tag # "none"
        <5>1. b.off_dt_struct + q < b.totalsize /\ b.off_dt_struct + q \in Nat
          BY SMTT(40), <3>2, BlobFields DEF Holds
        <5>2. At(b, q) \in Cells  BY <5>1, MemoryCells DEF At, Cells
        <5> QED BY <5>2 DEF Cells, Tags
      <4> QED BY <3>1, <4>2, <4>3, <4>4 DEF Opens
    <3> QED BY <3>2, <3>3
  <2>7. AddSubnode(b, o, name) =
          IF r.err # 0 THEN r ELSE Done(Put(r.fdt, b.off_dt_struct + q, cells))
    BY <1>3 DEF AddSubnode, Guarded, AndThen, NewNode, NOTFOUND
  <2>8. cells \in Seq(Cells) /\ Run(cells, 1, w + 1) /\ \A i \in 1 .. w : cells[i].tag # "prop"
    BY NewNodeLemma
  <2> HIDE DEF q, cells
  <2>9. CASE r.err # 0
    <3>1. StructLeaves(b, q, 0, w, r)
      <4>1. q \in Nat /\ w \in Nat /\ 0 \in Nat /\ 0 <= b.size_dt_struct  BY <2>6, <2>8, BlobFields
      <4> HIDE DEF w
      <4> QED BY <1>3, <4>1, SpliceStructEffect
    <3>2. r.fdt = b  BY <2>9, <3>1 DEF StructLeaves
    <3>3. AddSubnode(b, o, name).fdt = b  BY <2>7, <2>9, <3>2
    <3> QED BY <3>3, HoldsFine
  <2>10. CASE r.err = 0
    <3>1. Fine(Put(r.fdt, b.off_dt_struct + q, cells))
      BY <1>3, <2>6, <2>8, <2>10, InsertRun
    <3>2. AddSubnode(b, o, name).fdt = Put(r.fdt, b.off_dt_struct + q, cells)
      BY <2>7, <2>10 DEF Done
    <3> QED BY <3>1, <3>2
  <2> QED BY <2>9, <2>10
<1> QED BY <1>1, <1>2, <1>3
-----------------------------------------------------------------------------
LEMMA TextLemma ==
  ASSUME NEW v \in Seq(Nat), NEW j \in 1 .. Len(v), v[j] = 0, \A i \in 1 .. j - 1 : v[i] # 0
  PROVE  Text(v) \in Seq(Nat) /\ Len(Text(v)) = j - 1
<1> DEFINE T == {i \in DOMAIN v : v[i] = 0}
<1>1. j \in T /\ T \in SUBSET Nat  OBVIOUS
<1>2. ASSUME NEW i \in T PROVE j <= i
  <2>1. SUFFICES ASSUME i < j PROVE FALSE  OBVIOUS
  <2>2. i \in 1 .. j - 1 /\ v[i] = 0  BY <2>1
  <2> QED BY <2>2
<1>3. Lowest(T, Len(v) + 1) = j
  <2> HIDE DEF T
  <2> QED BY <1>1, <1>2, LowestIs
<1>4. Text(v) = SubSeq(v, 1, j - 1)  BY <1>3 DEF Text
<1>5. SubSeq(v, 1, j - 1) \in Seq(Nat) /\ Len(SubSeq(v, 1, j - 1)) = j - 1
  <2>1. j - 1 \in 0 .. Len(v)  OBVIOUS
  <2> QED BY <2>1
<1> QED BY <1>4, <1>5

LEMMA BytesAtLemma ==
  ASSUME NEW b \in Blobs, NEW o \in Nat, NEW len \in Nat,
         \A i \in 0 .. Units(len) - 1 : b.off_dt_struct + o + i < b.totalsize
  PROVE  /\ BytesAt(b, o, len) \in Seq(Nat) /\ Len(BytesAt(b, o, len)) = len
         /\ \A i \in 1 .. len :
              BytesAt(b, o, len)[i] = IF i % 2 = 1 THEN At(b, o + (i - 1) \div 2).x
                                                   ELSE At(b, o + (i - 1) \div 2).y
<1> DEFINE v == BytesAt(b, o, len)
<1>1. \A i \in 1 .. len : v[i] = IF i % 2 = 1 THEN At(b, o + (i - 1) \div 2).x
                                                ELSE At(b, o + (i - 1) \div 2).y
  BY DEF BytesAt
<1>2. ASSUME NEW i \in 1 .. len PROVE v[i] \in Nat
  <2> DEFINE h == (i - 1) \div 2
             p == b.off_dt_struct + (o + h)
  <2>1. h \in 0 .. Units(len) - 1  BY DEF Units
  <2>2. p \in Nat /\ p < b.totalsize
    <3> HIDE DEF h
    <3>1. h \in Nat /\ b.off_dt_struct \in Nat  BY <2>1, BlobFields
    <3>2. p = b.off_dt_struct + o + h /\ p \in Nat  BY <3>1
    <3> QED BY <2>1, <3>2
  <2> HIDE DEF p
  <2>3. b.mem[p] \in [tag : Tags, x : Nat, y : Nat]  BY <2>2, MemoryCells
  <2> HIDE DEF h
  <2>4. At(b, o + h).x \in Nat /\ At(b, o + h).y \in Nat  BY <2>3 DEF At, p
  <2>5. v[i] = IF i % 2 = 1 THEN At(b, o + h).x ELSE At(b, o + h).y  BY <1>1 DEF h
  <2> QED BY <2>4, <2>5
<1>3. v = [i \in 1 .. len |-> v[i]]  BY DEF BytesAt
<1> HIDE DEF v
<1>4. v \in [1 .. len -> Nat]  BY <1>2, <1>3
<1>5. v \in Seq(Nat) /\ Len(v) = len  BY <1>4
<1> QED BY <1>1, <1>5 DEF v

\* The cells of a node's name are those up to the next tag.
LEMMA GetNameLemma ==
  ASSUME NEW b \in Blobs, NEW k \in Nat, NEW e \in Nat, Holds(b, k, e),
         NEW o \in 0 .. e - 1, At(b, o).tag = "begin"
  PROVE  Len(NameCells(GetName(b, o))) = NextTag(b, o) - o - 1 /\ GetName(b, o) \in Seq(Nat)
<1> DEFINE st == b.off_dt_struct
           n == NextTag(b, o)
           l == n - o - 1
           v == BytesAt(b, o + 1, 2 * l)
<1>1. st \in Nat /\ b.totalsize \in Nat /\ st + e + 1 <= b.totalsize
  BY BlobFields DEF Holds
<1>2. n \in o + 1 .. e /\ Elem(b.mem, st + o, st + n)
  BY TagAt DEF Opens
<1> HIDE DEF n
<1>3. /\ st + o + 1 < st + n /\ HasNul(b.mem[st + n - 1])
      /\ \A i \in st + o + 1 .. st + n - 2 : ~HasNul(b.mem[i])
  <2>1. b.mem[st + o].tag = "begin"  BY DEF At
  <2> HIDE DEF st
  <2> QED BY <1>1, <1>2, <2>1 DEF Elem
<1>4. l \in Nat /\ l >= 1 /\ n = o + 1 + l  BY <1>1, <1>2, <1>3
<1>5. v \in Seq(Nat) /\ Len(v) = 2 * l
      /\ \A i \in 1 .. 2 * l : v[i] = IF i % 2 = 1 THEN At(b, o + 1 + (i - 1) \div 2).x
                                                   ELSE At(b, o + 1 + (i - 1) \div 2).y
  <2> DEFINE len == 2 * l
             p == o + 1
  <2>1. len \in Nat /\ p \in Nat /\ Units(len) = l  BY <1>4 DEF Units
  <2>2. \A i \in 0 .. Units(len) - 1 : st + p + i < b.totalsize
    BY <1>1, <1>2, <1>4, <2>1
  <2> HIDE DEF len, p
  <2>3. /\ BytesAt(b, p, len) \in Seq(Nat) /\ Len(BytesAt(b, p, len)) = len
        /\ \A i \in 1 .. len :
              BytesAt(b, p, len)[i] = IF i % 2 = 1 THEN At(b, p + (i - 1) \div 2).x
                                                   ELSE At(b, p + (i - 1) \div 2).y
    BY <2>1, <2>2, BytesAtLemma
  <2> QED BY <2>3 DEF len, p
<1> HIDE DEF v, l
<1>6. v[2 * l - 1] = At(b, n - 1).x /\ v[2 * l] = At(b, n - 1).y
  <2>1. 2 * l - 1 \in 1 .. 2 * l /\ 2 * l \in 1 .. 2 * l  BY <1>4
  <2>2. (2 * l - 1) % 2 = 1 /\ (2 * l) % 2 # 1  BY <1>4
  <2>3. o + 1 + ((2 * l - 1) - 1) \div 2 = n - 1 /\ o + 1 + (2 * l - 1) \div 2 = n - 1  BY <1>4
  <2> QED BY <1>5, <2>1, <2>2, <2>3
<1>7. v[2 * l - 1] = 0 \/ v[2 * l] = 0
  <2>1. st + (n - 1) = st + n - 1  BY <1>1, <1>2
  <2> QED BY <1>3, <1>6, <2>1 DEF At, HasNul
<1>8. ASSUME NEW i \in 1 .. 2 * l - 2 PROVE v[i] # 0
  <2> DEFINE h == o + 1 + (i - 1) \div 2
  <2>1. st + h \in st + o + 1 .. st + n - 2  BY <1>1, <1>4
  <2>2. ~HasNul(At(b, h))
    <3> HIDE DEF h
    <3> QED BY <1>3, <2>1 DEF At
  <2>3. i \in 1 .. 2 * l  BY <1>4
  <2>4. v[i] = At(b, h).x \/ v[i] = At(b, h).y  BY <1>5, <2>3
  <2> HIDE DEF h
  <2> QED BY <2>2, <2>4 DEF HasNul
<1> DEFINE j == IF v[2 * l - 1] = 0 THEN 2 * l - 1 ELSE 2 * l
<1>9. /\ j \in 1 .. 2 * l /\ v[j] = 0 /\ Units(j) = l
      /\ \A i \in 1 .. j - 1 : v[i] # 0
  <2>1. CASE v[2 * l - 1] = 0
    <3>1. j = 2 * l - 1  BY <2>1
    <3> HIDE DEF j
    <3> QED BY <1>4, <1>8, <2>1, <3>1 DEF Units
  <2>2. CASE v[2 * l - 1] # 0
    <3>1. j = 2 * l  BY <2>2
    <3>2. v[j] = 0  BY <1>7, <2>2
    <3>3. \A i \in 1 .. j - 1 : i \in 1 .. 2 * l - 2 \/ i = 2 * l - 1  BY <1>4, <3>1
    <3>4. \A i \in 1 .. j - 1 : v[i] # 0  BY <1>8, <2>2, <3>3
    <3> HIDE DEF j
    <3> QED BY <1>4, <3>1, <3>2, <3>4 DEF Units
  <2> QED BY <2>1, <2>2
<1> HIDE DEF j
<1>10. Text(v) \in Seq(Nat) /\ Len(Text(v)) = j - 1  BY <1>5, <1>9, TextLemma
<1>11. GetName(b, o) = Text(v)  BY DEF GetName, v, l, n
<1> DEFINE s == Append(Text(v), 0)
<1>12. s \in Seq(Nat) /\ Len(s) = j  BY <1>9, <1>10
<1>13. Len(Bytes(s)) = l
  <2> HIDE DEF s
  <2> QED BY <1>9, <1>12, BytesLemma
<1> QED BY <1>10, <1>11, <1>13 DEF NameCells, l, n
-----------------------------------------------------------------------------
LEMMA NameNamed ==
  ASSUME NEW m, NEW p \in Nat, NEW name \in Seq(Nat \ {0}), m[p].tag = "begin",
         \A i \in 1 .. Len(NameCells(name)) : m[p + i] = NameCells(name)[i],
         NEW str, NEW sl
  PROVE  Named(m, p, p + 1 + Len(NameCells(name)), str, sl)
<1> DEFINE u == Len(NameCells(name))
<1>1. u \in Nat /\ \A i \in 1 .. u : NameCells(name)[i].tag = "data"  BY NameCellsLemma
<1>2. ASSUME NEW q \in p .. p + 1 + u - 1 PROVE m[q].tag # "prop"
  <2>1. CASE q = p  BY <2>1
  <2>2. CASE q # p
    <3>1. q - p \in 1 .. u /\ p + (q - p) = q  BY <1>1, <2>2
    <3> QED BY <1>1, <3>1
  <2> QED BY <2>1, <2>2
<1> HIDE DEF u
<1>3. Named(m, p, p + 1 + u, str, sl)  BY <1>1, <1>2 DEF Named
<1> QED BY <1>3 DEF u

LEMMA SetNameFine ==
  ASSUME NEW b \in Blobs, NEW k \in Nat, NEW e \in Nat, Holds(b, k, e), NEW o \in Nat,
         NEW name \in Seq(Nat \ {0})
  PROVE  Fine(SetName(b, o, name).fdt)
<1> DEFINE st == b.off_dt_struct
           cells == NameCells(name)
           w == Len(cells)
           n == NextTag(b, o)
           i == o + 1
           r == SpliceStruct(b, i, n - i, w)
           at == st + o + 1
           g == Put(r.fdt, at, cells)
<1>1. CASE RwCheckHeader(b) # 0
  BY <1>1, HoldsFine DEF SetName, Guarded, Fail
<1>2. CASE RwCheckHeader(b) = 0 /\ CheckNodeOffset(b, o) < 0
  BY <1>2, HoldsFine DEF SetName, Guarded, Fail
<1>3. CASE RwCheckHeader(b) = 0 /\ ~(CheckNodeOffset(b, o) < 0)
  <2>1. /\ o \in 0 .. e - 1 /\ At(b, o).tag = "begin" /\ n \in o + 1 .. e
        /\ Run(b.mem, st, st + o) /\ Run(b.mem, st + n, st + e)
    BY <1>3, NodeLemma
  <2>2. Len(NameCells(GetName(b, o))) = n - i
    <3>1. Len(NameCells(GetName(b, o))) = n - o - 1  BY <2>1, GetNameLemma
    <3> QED BY <2>1, <3>1
  <2>3. SetName(b, o, name) =
          IF r.err # 0 THEN r ELSE Done(Put(r.fdt, at, cells))
    BY <1>3, <2>2 DEF SetName, Guarded, AndThen
  <2>4. cells \in Seq(Cells) /\ w \in Nat \ {0} /\ \A j \in 1 .. w : cells[j].tag = "data"
    BY NameCellsLemma
  <2>5. st \in Nat /\ b.size_dt_struct = e + 1 /\ at = st + i /\ at \in Nat /\ i \in Nat
        /\ b.totalsize <= MaxSize /\ MaxSize \in Nat /\ b.totalsize \in Nat
    <3>1. b.off_dt_struct \in Nat /\ b.totalsize \in 0 .. MaxSize  BY BlobFields
    <3>2. b.size_dt_struct = e + 1  BY <1>3, Writable DEF Holds
    <3> QED BY <3>1, <3>2, FdtRwAssumption
  <2> HIDE DEF n, cells, g, st
  <2>6. StructLeaves(b, i, n - i, w, r)
    <3> DEFINE l == n - i
    <3>1. l \in Nat /\ l <= b.size_dt_struct /\ w \in Nat  BY <2>1, <2>4, <2>5
    <3> HIDE DEF l, w, i
    <3>2. StructLeaves(b, i, l, w, SpliceStruct(b, i, l, w))
      BY <1>3, <2>5, <3>1, SpliceStructEffect
    <3> QED BY <3>2 DEF l
  <2>7. CASE r.err # 0
    <3>1. r.fdt = b  BY <2>6, <2>7 DEF StructLeaves
    <3>2. SetName(b, o, name).fdt = b  BY <2>3, <2>7, <3>1
    <3> QED BY <3>2, HoldsFine
  <2>8. CASE r.err = 0
    <3> HIDE DEF i, w, at, r
    <3> DEFINE f == r.fdt
    <3>1. /\ f \in Blobs /\ Resized(b, f, w - (n - i)) /\ DataSize(f) <= b.totalsize
          /\ \A q \in Memory : q < st + i + w => f.mem[q] = b.mem[q]
      BY <2>6, <2>8 DEF StructLeaves, st
    <3> HIDE DEF f
    <3>2. /\ g \in Blobs /\ SameHeader(f, g)
          /\ \A p \in Memory : p \in at .. at + w - 1 => g.mem[p] = cells[p - at + 1]
          /\ \A p \in Memory : p \notin at .. at + w - 1 => g.mem[p] = f.mem[p]
      <4>1. f \in Blobs /\ at \in Nat /\ cells \in Seq(Cells)  BY <2>4, <2>5, <3>1
      <4>2. /\ Put(f, at, cells) \in Blobs /\ SameHeader(f, Put(f, at, cells))
            /\ \A p \in Memory : p \in at .. at + Len(cells) - 1 =>
                 Put(f, at, cells).mem[p] = cells[p - at + 1]
            /\ \A p \in Memory : p \notin at .. at + Len(cells) - 1 =>
                 Put(f, at, cells).mem[p] = f.mem[p]
        <5>1. PutMade(f, at, cells, Put(f, at, cells))  BY <4>1, PutHeader
        <5> QED BY <5>1 DEF PutMade
      <4> QED BY <4>2 DEF g, w, f
    <3>3. at + w <= MaxSize
      <4>1. DataSize(f) = DataSize(b) + (w - (n - i))
        <5>1. b.off_dt_strings \in Nat /\ b.size_dt_strings \in Nat /\ w - (n - i) \in Int
          BY <2>1, <2>4, <2>5, BlobFields
        <5> QED BY <3>1, <5>1 DEF Resized, DataSize
      <4>2. st + e + 1 <= DataSize(b)
        <5>1. b.size_dt_strings \in Nat /\ b.off_dt_strings \in Nat  BY BlobFields
        <5> QED BY SMTT(40), <1>3, <2>5, <5>1, Writable DEF DataSize, st
      <4>3. DataSize(b) \in Nat  BY BlobFields DEF DataSize
      <4> QED BY <2>1, <2>4, <2>5, <3>1, <4>1, <4>2, <4>3
    <3>4. \A p \in Nat : p < at + w => p \in Memory
      BY <2>4, <2>5, <3>3 DEF Memory
    <3>5. g.mem[st + o].tag = "begin"
      <4> DEFINE p == st + o
      <4>1. p \in Nat /\ p < at /\ p < st + i + w /\ p \notin at .. at + w - 1 /\ p < at + w
        BY <2>1, <2>4, <2>5 DEF at
      <4>2. b.mem[p].tag = "begin"  BY <2>1 DEF At, st
      <4> HIDE DEF p
      <4> QED BY <3>1, <3>2, <3>4, <4>1, <4>2 DEF p
    <3>6. \A j \in 1 .. w : g.mem[st + o + j] = cells[j]
      <4>1. \A j \in 1 .. w : /\ st + o + j \in at .. at + w - 1 /\ st + o + j \in Nat
                              /\ st + o + j < at + w /\ (st + o + j) - at + 1 = j
        BY <2>1, <2>4, <2>5 DEF at
      <4> QED BY <3>2, <3>4, <4>1
    <3>7. Elem(g.mem, st + o, st + i + w)
      <4> DEFINE p == st + o
      <4>1. p \in Nat /\ st + i + w = p + 1 + w  BY <2>1, <2>4, <2>5 DEF i
      <4>2. g.mem[p].tag = "begin" /\ \A j \in 1 .. Len(NameCells(name)) : g.mem[p + j] = NameCells(name)[j]
        BY <3>5, <3>6 DEF w, cells
      <4> HIDE DEF p
      <4>3. Elem(g.mem, p, p + 1 + Len(NameCells(name)))  BY <4>1, <4>2, NameElem
      <4> QED BY <4>1, <4>3 DEF p, w, cells
    <3>8. Run(g.mem, st + o, st + i + w)
      <4> DEFINE p == st + o
                 t == st + i + w
      <4>1. p \in Nat /\ t \in Nat /\ p < t /\ Elem(g.mem, p, t)
        BY <2>1, <2>4, <2>5, <3>7 DEF i
      <4> HIDE DEF p, t
      <4>2. Run(g.mem, p, t)  BY <4>1, RunElem
      <4> QED BY <4>2 DEF p, t
    <3>9. Named(g.mem, st + o, st + i + w, g.off_dt_strings, g.size_dt_strings)
      <4> DEFINE p == st + o
      <4>1. p \in Nat /\ st + i + w = p + 1 + w  BY <2>1, <2>4, <2>5 DEF i
      <4>2. g.mem[p].tag = "begin" /\ \A j \in 1 .. Len(NameCells(name)) : g.mem[p + j] = NameCells(name)[j]
        BY <3>5, <3>6 DEF w, cells
      <4> HIDE DEF p
      <4>3. Named(g.mem, p, p + 1 + Len(NameCells(name)), g.off_dt_strings, g.size_dt_strings)
        BY <4>1, <4>2, NameNamed
      <4> QED BY <4>1, <4>3 DEF p, w, cells
    <3>10. \A p \in Memory : p < st + o \/ p >= st + i + w => g.mem[p] = f.mem[p]
      <4>1. \A p \in Memory : p < st + o \/ p >= st + i + w => p \notin at .. at + w - 1
        BY <2>1, <2>4, <2>5 DEF Memory, i
      <4> QED BY <3>2, <4>1
    <3>11. Fine(g)
      <4>1. /\ o \in Nat /\ i \in Nat /\ n \in Nat /\ o <= i /\ i <= n /\ n <= e /\ w \in Nat
        BY SMTT(40), <2>1, <2>4, <2>5 DEF i
      <4>2. SpliceStruct(b, i, n - i, w) = r  BY DEF r
      <4>3. /\ SpliceStruct(b, i, n - i, w).err = 0
            /\ SameHeader(SpliceStruct(b, i, n - i, w).fdt, g)
            /\ \A p \in Memory : p < b.off_dt_struct + o \/ p >= b.off_dt_struct + i + w =>
                 g.mem[p] = SpliceStruct(b, i, n - i, w).fdt.mem[p]
        BY <2>8, <3>2, <3>10, <4>2 DEF f, st
      <4>4. /\ Run(b.mem, b.off_dt_struct, b.off_dt_struct + o)
            /\ Run(b.mem, b.off_dt_struct + n, b.off_dt_struct + e)
            /\ Run(g.mem, b.off_dt_struct + o, b.off_dt_struct + i + w)
            /\ Named(g.mem, b.off_dt_struct + o, b.off_dt_struct + i + w,
                     g.off_dt_strings, g.size_dt_strings)
        BY <2>1, <3>8, <3>9 DEF st
      <4>5. g \in Blobs /\ RwCheckHeader(b) = 0  BY <1>3, <3>2
      <4> HIDE DEF g
      <4> QED BY <4>1, <4>3, <4>4, <4>5, SpliceThen
    <3>12. SetName(b, o, name).fdt = g
      <4> DEFINE h == Put(r.fdt, at, cells)
      <4>1. SetName(b, o, name) = Done(h)  BY <2>3, <2>8
      <4> QED BY <4>1 DEF Done, g
    <3> QED BY <3>11, <3>12
  <2> QED BY <2>7, <2>8
<1> QED BY <1>1, <1>2, <1>3
-----------------------------------------------------------------------------
\* Changes in place.

\* The strings stay where the cells of their block do.
LEMMA StringsStay ==
  ASSUME NEW m, NEW m2, NEW str \in Nat, NEW sl \in Nat, NEW x, NEW n \in Seq(Nat \ {0}),
         \A q \in str .. str + sl - 1 : m2[q] = m[q],
         IsString(m, str, sl, x, n)
  PROVE  IsString(m2, str, sl, x, n)
<1>1. n \in Seq(Nat)  OBVIOUS
<1>2. \A q \in str .. str + sl - 1 : m2[q + 0] = m[q]  OBVIOUS
<1>3. IsString(m2, str + 0, sl, x, n)
  <2>1. 0 \in Int  OBVIOUS
  <2> QED BY <1>1, <1>2, <2>1, IsStringMoved
<1>4. str + 0 = str  OBVIOUS
<1> QED BY <1>3, <1>4

LEMMA NamesStay ==
  ASSUME NEW m, NEW m2, NEW str \in Nat, NEW sl \in Nat, NEW s \in Int, NEW e \in Int,
         \A q \in str .. str + sl - 1 : m2[q] = m[q],
         \A q \in s .. e - 1 : m2[q] = m[q],
         Named(m, s, e, str, sl)
  PROVE  Named(m2, s, e, str, sl)
<1>1. ASSUME NEW q \in s .. e - 1, m2[q].tag = "prop"
      PROVE  \E n \in PropNames : IsString(m2, str, sl, m2[q].x, n)
  <2>1. m[q].tag = "prop" /\ m2[q].x = m[q].x  BY <1>1
  <2>2. PICK n \in PropNames : IsString(m, str, sl, m[q].x, n)  BY <2>1 DEF Named
  <2>3. n \in Seq(Nat \ {0})  BY FdtEditAssumption
  <2>4. IsString(m2, str, sl, m[q].x, n)  BY <2>2, <2>3, StringsStay
  <2> QED BY <2>1, <2>4
<1> QED BY <1>1 DEF Named

\* Named of two ranges, one behind the other.
LEMMA NamedJoin ==
  ASSUME NEW m, NEW s \in Int, NEW t \in Int, NEW e \in Int, NEW str, NEW sl,
         Named(m, s, t, str, sl), Named(m, t, e, str, sl)
  PROVE  Named(m, s, e, str, sl)
<1>1. \A p \in s .. e - 1 : p \in s .. t - 1 \/ p \in t .. e - 1  OBVIOUS
<1> QED BY <1>1 DEF Named

LEMMA NamedPart ==
  ASSUME NEW m, NEW s \in Int, NEW e \in Int, NEW s2 \in Int, NEW e2 \in Int,
         s <= s2, e2 <= e, NEW str, NEW sl, Named(m, s, e, str, sl)
  PROVE  Named(m, s2, e2, str, sl)
<1>1. \A p \in s2 .. e2 - 1 : p \in s .. e - 1  OBVIOUS
<1> QED BY <1>1 DEF Named

\* Cells a to c of the structure are written again, a run with its names.
LEMMA InPlace ==
  ASSUME NEW b \in Blobs, NEW k \in Nat, NEW e \in Nat, Holds(b, k, e),
         NEW g \in Blobs, SameHeader(b, g),
         NEW a \in Nat, NEW c \in Nat, a <= c, c <= e,
         Run(b.mem, b.off_dt_struct, b.off_dt_struct + a),
         Run(b.mem, b.off_dt_struct + c, b.off_dt_struct + e),
         \A q \in Memory : q < b.off_dt_struct + a \/ q >= b.off_dt_struct + c => g.mem[q] = b.mem[q],
         Run(g.mem, b.off_dt_struct + a, b.off_dt_struct + c),
         Named(g.mem, b.off_dt_struct + a, b.off_dt_struct + c, b.off_dt_strings, b.size_dt_strings)
  PROVE  Fine(g)
<1> DEFINE st == b.off_dt_struct
           rsv == b.off_mem_rsvmap
           str == b.off_dt_strings
           sl == b.size_dt_strings
           t == st + a
           u == st + c
           v == st + e
<1>1. /\ st \in Nat /\ rsv \in Nat /\ str \in Nat /\ sl \in Nat /\ b.totalsize \in Nat
      /\ b.totalsize <= MaxSize /\ MaxSize \in Nat /\ t \in Nat /\ u \in Nat /\ v \in Nat
      /\ st <= t /\ t <= u /\ u <= v /\ v = st + e
  BY BlobFields, FdtRwAssumption
<1>2. /\ RsvMap(b.mem, rsv, k) /\ b.mem[v].tag = "end"
      /\ Named(b.mem, st, v, str, sl) /\ rsv + k + 1 <= b.totalsize
      /\ st + e + 1 <= b.totalsize /\ str + sl <= b.totalsize
      /\ Disjoint(rsv, rsv + k + 1, st, st + e + 1)
      /\ Disjoint(st, st + e + 1, str, str + sl)
  BY DEF Holds
<1>3. /\ Run(b.mem, st, t) /\ Run(b.mem, u, v) /\ Run(g.mem, t, u) /\ Named(g.mem, t, u, str, sl)
      /\ \A q \in Memory : q < t \/ q >= u => g.mem[q] = b.mem[q]
  OBVIOUS
<1> HIDE DEF t, u, v, st, rsv, str, sl
<1>4. \A q \in Nat : q < b.totalsize => q \in Memory  BY <1>1 DEF Memory
<1>5. \A q \in rsv .. rsv + k : g.mem[q] = b.mem[q]
  <2>1. \A q \in rsv .. rsv + k : q \in Nat /\ q < b.totalsize /\ (q < t \/ q >= u)
    BY <1>1, <1>2 DEF Disjoint
  <2> QED BY <1>3, <1>4, <2>1
<1>6. RsvMap(g.mem, rsv, k)
  <2>1. rsv + k \in rsv .. rsv + k /\ \A i \in 0 .. k - 1 : rsv + i \in rsv .. rsv + k  BY <1>1
  <2> QED BY <1>2, <1>5, <2>1 DEF RsvMap
<1>7. \A q \in str .. str + sl - 1 : g.mem[q] = b.mem[q]
  <2>1. \A q \in str .. str + sl - 1 : q \in Nat /\ q < b.totalsize /\ (q < t \/ q >= u)
    BY <1>1, <1>2 DEF Disjoint
  <2> QED BY <1>3, <1>4, <2>1
<1>8. /\ \A q \in st .. t - 1 : g.mem[q] = b.mem[q]
      /\ \A q \in u .. v - 1 : g.mem[q] = b.mem[q]
      /\ g.mem[v].tag = "end"
  <2>1. \A q \in st .. t - 1 : q \in Nat /\ q < b.totalsize /\ q < t  BY <1>1, <1>2
  <2>2. \A q \in u .. v : q \in Nat /\ q < b.totalsize /\ q >= u  BY <1>1, <1>2
  <2>3. v \in u .. v /\ \A q \in u .. v - 1 : q \in u .. v  BY <1>1
  <2> QED BY <1>2, <1>3, <1>4, <2>1, <2>2, <2>3
<1>9. Run(g.mem, st, v)
  <2>1. Run(g.mem, st, t)
    <3>1. 0 \in Int /\ st + 0 = st /\ t + 0 = t /\ st + 0 \in Nat  BY <1>1
    <3>2. \A q \in st .. t - 1 : g.mem[q + 0] = b.mem[q]  BY <1>1, <1>8
    <3>3. Run(g.mem, st + 0, t + 0)  BY <1>1, <1>3, <3>1, <3>2, RunMoved
    <3> QED BY <3>1, <3>3
  <2>2. Run(g.mem, u, v)
    <3>1. 0 \in Int /\ u + 0 = u /\ v + 0 = v /\ u + 0 \in Nat  BY <1>1
    <3>2. \A q \in u .. v - 1 : g.mem[q + 0] = b.mem[q]  BY <1>1, <1>8
    <3>3. Run(g.mem, u + 0, v + 0)  BY <1>1, <1>3, <3>1, <3>2, RunMoved
    <3> QED BY <3>1, <3>3
  <2>3. Run(g.mem, st, u)  BY <1>1, <1>3, <2>1, RunJoin
  <2>4. st <= u  BY <1>1
  <2> QED BY <1>1, <2>2, <2>3, <2>4, RunJoin
<1>10. Named(g.mem, st, v, str, sl)
  <2>0. st \in Int /\ t \in Int /\ u \in Int /\ v \in Int  BY <1>1
  <2>1. Named(b.mem, st, t, str, sl) /\ Named(b.mem, u, v, str, sl)
    <3>1. st <= st /\ t <= v /\ st <= u /\ v <= v  BY <1>1
    <3> QED BY <1>2, <2>0, <3>1, NamedPart
  <2>2. Named(g.mem, st, t, str, sl)  BY <1>1, <1>7, <1>8, <2>0, <2>1, NamesStay
  <2>3. Named(g.mem, u, v, str, sl)  BY <1>1, <1>7, <1>8, <2>0, <2>1, NamesStay
  <2>4. Named(g.mem, st, u, str, sl)  BY <1>3, <2>0, <2>2, NamedJoin
  <2> QED BY <2>0, <2>3, <2>4, NamedJoin
<1>11. Holds(g, k, e)
  BY <1>1, <1>6, <1>8, <1>9, <1>10 DEF Holds, SameHeader, st, rsv, str, sl, v
<1> QED BY <1>11, HoldsFine
-----------------------------------------------------------------------------
LEMMA NopRun ==
  ASSUME NEW m, NEW s \in Nat, NEW e \in Nat, \A q \in s .. e - 1 : m[q].tag = "nop"
  PROVE  Run(m, s, e) /\ \A str, sl : Named(m, s, e, str, sl)
<1>1. s < e => m[s].tag \in Opens  BY DEF Opens
<1>2. ASSUME NEW p \in s .. e - 1
      PROVE  \E n \in p + 1 .. e : Elem(m, p, n) /\ (n < e => m[n].tag \in Opens)
  <2>1. p + 1 \in p + 1 .. e /\ \A i \in p + 1 .. p + 1 - 1 : FALSE  OBVIOUS
  <2>2. Elem(m, p, p + 1)  BY <2>1 DEF Elem, Opens
  <2>3. p + 1 < e => m[p + 1].tag \in Opens
    <3>1. p + 1 < e => p + 1 \in s .. e - 1  OBVIOUS
    <3> QED BY <3>1 DEF Opens
  <2> QED BY <2>1, <2>2, <2>3
<1> QED BY <1>1, <1>2 DEF Run, Named

LEMMA NopRegionFine ==
  ASSUME NEW b \in Blobs, NEW k \in Nat, NEW e \in Nat, Holds(b, k, e),
         NEW a \in Nat, NEW c \in Nat, a <= c, c <= e,
         Run(b.mem, b.off_dt_struct, b.off_dt_struct + a),
         Run(b.mem, b.off_dt_struct + c, b.off_dt_struct + e)
  PROVE  Fine(NopRegion(b, a, c - a))
<1> DEFINE w == c - a
           nop == Cell("nop", 0, 0)
           cells == [i \in 1 .. w |-> nop]
           at == b.off_dt_struct + a
           g == Put(b, at, cells)
           u == b.off_dt_struct + c
<1>1. /\ w \in Nat /\ at \in Nat /\ u = at + w /\ u \in Nat /\ at <= u
      /\ u <= b.totalsize /\ b.totalsize <= MaxSize /\ MaxSize \in Nat
      /\ b.totalsize \in Nat
  BY BlobFields, FdtRwAssumption DEF Holds
<1> HIDE DEF at, u, w
<1>2. nop \in Cells /\ nop.tag = "nop"  BY DEF Cell, Cells, Tags
<1> HIDE DEF nop
<1>3. cells \in Seq(Cells) /\ Len(cells) = w /\ \A i \in 1 .. w : cells[i] = nop
  BY <1>1, <1>2
<1> HIDE DEF cells, g
<1>4. /\ g \in Blobs /\ SameHeader(b, g)
      /\ \A p \in Memory : p \in at .. at + Len(cells) - 1 => g.mem[p] = cells[p - at + 1]
      /\ \A p \in Memory : p \notin at .. at + Len(cells) - 1 => g.mem[p] = b.mem[p]
  <2>1. PutMade(b, at, cells, g)  BY <1>1, <1>3, PutHeader DEF g
  <2> QED BY <2>1 DEF PutMade
<1>5. ASSUME NEW q \in at .. u - 1 PROVE g.mem[q].tag = "nop"
  <2>1. q \in Memory /\ q \in at .. at + w - 1 /\ q - at + 1 \in 1 .. w  BY <1>1 DEF Memory
  <2> QED BY <1>2, <1>3, <1>4, <2>1
<1>6. Run(g.mem, at, u) /\ Named(g.mem, at, u, b.off_dt_strings, b.size_dt_strings)
  BY <1>1, <1>5, NopRun
<1>7. \A q \in Memory : q < at \/ q >= u => g.mem[q] = b.mem[q]
  <2>1. \A q \in Memory : q < at \/ q >= u => q \notin at .. at + w - 1  BY <1>1 DEF Memory
  <2> QED BY <1>3, <1>4, <2>1
<1>8. Fine(g)
  BY <1>4, <1>6, <1>7, InPlace DEF at, u
<1> QED BY <1>8 DEF NopRegion, g, at, w, cells, nop

LEMMA NopPropertyFine ==
  ASSUME NEW b \in Blobs, NEW k \in Nat, NEW e \in Nat, Holds(b, k, e), NEW o \in Nat, NEW name
  PROVE  Fine(NopProperty(b, o, name).fdt)
<1> DEFINE q == GetProperty(b, o, name)
           c == q + 1 + Units(At(b, q).y)
<1>1. CASE q \in {BADOFFSET, NOTFOUND}
  BY <1>1, HoldsFine DEF NopProperty, Fail, BADOFFSET, NOTFOUND
<1>2. CASE q \in o + 1 .. e - 1 /\ At(b, q).tag = "prop"
  <2> HIDE DEF q
  <2>1. q \in 0 .. e - 1 /\ q \in Nat /\ ~(q < 0)  BY <1>2
  <2>2. NextTag(b, q) = c /\ Units(At(b, q).y) \in Nat /\ c <= e  BY <1>2, <2>1, PropertyEnds
  <2>3. /\ Run(b.mem, b.off_dt_struct, b.off_dt_struct + q)
        /\ Run(b.mem, b.off_dt_struct + NextTag(b, q), b.off_dt_struct + e)
    BY <1>2, <2>1, TagAt DEF Opens
  <2>4. c \in Nat /\ q <= c /\ c - q = 1 + Units(At(b, q).y)  BY <2>1, <2>2
  <2>5. NopProperty(b, o, name) = Done(NopRegion(b, q, c - q))
    BY <2>1, <2>4 DEF NopProperty, q
  <2> HIDE DEF c
  <2>6. Fine(NopRegion(b, q, c - q))
    <3>1. Run(b.mem, b.off_dt_struct + c, b.off_dt_struct + e)  BY <2>2, <2>3
    <3> QED BY <2>1, <2>2, <2>3, <2>4, <3>1, NopRegionFine
  <2> QED BY <2>5, <2>6 DEF Done
<1> QED BY <1>1, <1>2, PropertyAt

LEMMA NopNodeFine ==
  ASSUME NEW b \in Blobs, NEW k \in Nat, NEW e \in Nat, Holds(b, k, e), NEW o \in Nat
  PROVE  Fine(NopNode(b, o).fdt)
<1> DEFINE end == NodeEnd(b, o)
<1>1. CASE end \in {BADOFFSET, NOTFOUND}
  BY <1>1, HoldsFine DEF NopNode, Fail, BADOFFSET, NOTFOUND
<1>2. CASE end \notin {BADOFFSET, NOTFOUND}
  <2>1. /\ o < e /\ At(b, o).tag = "begin"
        /\ end \in o + 1 .. e /\ At(b, end - 1).tag = "end_node"
    BY <1>2, EndAt
  <2> HIDE DEF end
  <2>2. o \in 0 .. e - 1 /\ end \in Nat /\ ~(end < 0) /\ o <= end /\ end <= e  BY <2>1
  <2>3. Run(b.mem, b.off_dt_struct, b.off_dt_struct + o)
    BY <2>1, <2>2, TagAt DEF Opens
  <2>4. Run(b.mem, b.off_dt_struct + end, b.off_dt_struct + e)
    <3> DEFINE l == end - 1
    <3>1. l \in 0 .. e - 1 /\ At(b, l).tag \in Opens /\ end = l + 1 /\ l \in Nat
      BY <2>1, <2>2 DEF Opens
    <3> HIDE DEF l
    <3>2. /\ NextTag(b, l) \in l + 1 .. e
          /\ Elem(b.mem, b.off_dt_struct + l, b.off_dt_struct + NextTag(b, l))
          /\ Run(b.mem, b.off_dt_struct + NextTag(b, l), b.off_dt_struct + e)
      BY <3>1, TagAt
    <3>3. NextTag(b, l) = end
      <4>1. b.mem[b.off_dt_struct + l].tag = "end_node"  BY <2>1 DEF At, l
      <4>2. b.off_dt_struct + NextTag(b, l) = b.off_dt_struct + l + 1  BY <3>2, <4>1 DEF Elem
      <4>3. b.off_dt_struct \in Nat  BY BlobFields
      <4> QED BY <3>1, <3>2, <4>2, <4>3
    <3> QED BY <3>2, <3>3
  <2>5. NopNode(b, o) = Done(NopRegion(b, o, end - o))  BY <2>2 DEF NopNode, end
  <2>6. Fine(NopRegion(b, o, end - o))  BY <2>2, <2>3, <2>4, NopRegionFine
  <2> QED BY <2>5, <2>6 DEF Done
<1> QED BY <1>1, <1>2
-----------------------------------------------------------------------------
\* A property's header with its data.
LEMMA PropElem ==
  ASSUME NEW m, NEW p \in Nat, NEW u \in Nat, m[p].tag = "prop", Units(m[p].y) = u,
         \A i \in p + 1 .. p + u : m[i].tag = "data"
  PROVE  Elem(m, p, p + 1 + u) /\ Run(m, p, p + 1 + u)
<1> DEFINE n == p + 1 + u
<1>1. n \in Nat /\ p < n /\ n - p - 1 = u /\ \A i \in p + 1 .. n - 1 : i \in p + 1 .. p + u
  OBVIOUS
<1>2. \A i \in p + 1 .. n - 1 : m[i].tag \notin Opens /\ m[i].tag # "end"
  BY <1>1 DEF Opens
<1> HIDE DEF n
<1>3. Elem(m, p, n)  BY <1>1, <1>2 DEF Elem, Opens
<1>4. Run(m, p, n)  BY <1>1, <1>3, RunElem
<1> QED BY <1>3, <1>4 DEF n

LEMMA PropNamed ==
  ASSUME NEW m, NEW p \in Nat, NEW u \in Nat,
         \A i \in p + 1 .. p + u : m[i].tag = "data",
         NEW str, NEW sl, NEW n \in PropNames, IsString(m, str, sl, m[p].x, n)
  PROVE  Named(m, p, p + 1 + u, str, sl)
<1>1. \A i \in p .. p + 1 + u - 1 : i = p \/ i \in p + 1 .. p + u  OBVIOUS
<1>2. \A i \in p .. p + 1 + u - 1 : m[i].tag = "prop" => i = p  BY <1>1
<1> QED BY <1>2 DEF Named
-----------------------------------------------------------------------------
\* The value of the property at q.
LEMMA ValueLemma ==
  ASSUME NEW b \in Blobs, NEW k \in Nat, NEW e \in Nat, Holds(b, k, e),
         NEW q \in 0 .. e - 1, At(b, q).tag = "prop"
  PROVE  /\ At(b, q).x \in Nat /\ At(b, q).y \in Nat
         /\ Value(b, q) \in Seq(Nat) /\ Len(Value(b, q)) = At(b, q).y
<1> DEFINE st == b.off_dt_struct
           y == At(b, q).y
           o == q + 1
           v == BytesAt(b, o, y)
<1>1. st \in Nat /\ b.totalsize \in Nat /\ st + e + 1 <= b.totalsize
  BY BlobFields DEF Holds
<1>2. At(b, q).x \in Nat /\ y \in Nat
  <2>1. st + q \in Nat /\ st + q < b.totalsize  BY <1>1
  <2>2. b.mem[st + q] \in [tag : Tags, x : Nat, y : Nat]  BY <2>1, MemoryCells
  <2> QED BY <2>2 DEF At
<1>3. q + 1 + Units(y) <= e /\ Units(y) \in Nat  BY PropertyEnds
<1>4. o \in Nat /\ \A i \in 0 .. Units(y) - 1 : st + o + i < b.totalsize
  BY <1>1, <1>3
<1> HIDE DEF y, o
<1>5. v \in Seq(Nat) /\ Len(v) = y  BY <1>2, <1>4, BytesAtLemma
<1> QED BY <1>2, <1>5 DEF Value, v, o, y

\* Another value as long is written over the one of the property at q.
LEMMA PutValueFine ==
  ASSUME NEW b \in Blobs, NEW k \in Nat, NEW e \in Nat, Holds(b, k, e),
         NEW q \in 0 .. e - 1, At(b, q).tag = "prop",
         NEW cells \in Seq(Cells), Len(cells) = Units(At(b, q).y),
         \A i \in 1 .. Len(cells) : cells[i].tag = "data"
  PROVE  Fine(Put(b, b.off_dt_struct + q + 1, cells))
<1> DEFINE u == Units(At(b, q).y)
           c == q + 1 + u
           p == b.off_dt_struct + q
           t == b.off_dt_struct + c
           at == p + 1
           g == Put(b, at, cells)
           str == b.off_dt_strings
           sl == b.size_dt_strings
<1>1. /\ NextTag(b, q) = c /\ u \in Nat /\ c <= e  BY PropertyEnds
<1>2. /\ Run(b.mem, b.off_dt_struct, p) /\ Run(b.mem, t, b.off_dt_struct + e)
  BY <1>1, TagAt DEF Opens
<1>3. /\ p \in Nat /\ at \in Nat /\ t = p + 1 + u /\ q <= c /\ q \in Nat /\ c \in Nat
      /\ t <= b.totalsize /\ b.totalsize <= MaxSize /\ MaxSize \in Nat /\ b.totalsize \in Nat
      /\ str \in Nat /\ sl \in Nat /\ str + sl <= b.totalsize /\ at = p + 1
      /\ (t <= str \/ str + sl <= p)
  <2>1. b.off_dt_struct \in Nat /\ b.totalsize \in 0 .. MaxSize /\ str \in Nat /\ sl \in Nat
    BY BlobFields
  <2>2. /\ b.off_dt_struct + e + 1 <= b.totalsize /\ str + sl <= b.totalsize
        /\ Disjoint(b.off_dt_struct, b.off_dt_struct + e + 1, str, str + sl)
    BY DEF Holds
  <2> DEFINE st == b.off_dt_struct
  <2>3. /\ u \in Nat /\ q + 1 + u <= e /\ q \in Nat /\ e \in Nat /\ st \in Nat /\ MaxSize \in Nat
        /\ b.totalsize \in 0 .. MaxSize
    BY <1>1, <2>1, FdtRwAssumption
  <2> HIDE DEF str, sl, u, st
  <2>4. /\ st + e + 1 <= b.totalsize
        /\ (st + e + 1 <= str \/ str + sl <= st)  BY <2>2 DEF Disjoint, st
  <2>5. /\ st + q \in Nat /\ st + q + 1 \in Nat /\ st + (q + 1 + u) = st + q + 1 + u
        /\ q <= q + 1 + u /\ q + 1 + u \in Nat /\ st + (q + 1 + u) <= b.totalsize
        /\ (st + (q + 1 + u) <= str \/ str + sl <= st + q)
    BY <2>1, <2>3, <2>4
  <2> QED BY SMTT(40), <2>1, <2>2, <2>3, <2>5 DEF st
<1>4. \E n \in PropNames : IsString(b.mem, str, sl, b.mem[p].x, n)
  <2>1. Named(b.mem, b.off_dt_struct, b.off_dt_struct + e, str, sl)  BY DEF Holds
  <2> DEFINE s == b.off_dt_struct
             f == s + e
  <2>2. s \in Nat /\ f \in Nat /\ p \in s .. f - 1  BY BlobFields
  <2>3. b.mem[p].tag = "prop"  BY DEF At
  <2> HIDE DEF str, sl, p, s, f
  <2>4. Named(b.mem, s, f, str, sl)  BY <2>1 DEF s, f
  <2> QED BY <2>2, <2>3, <2>4 DEF Named
<1> HIDE DEF u, c, p, t, at, g, str, sl
<1>5. /\ g \in Blobs /\ SameHeader(b, g)
      /\ \A i \in Memory : i \in at .. at + u - 1 => g.mem[i] = cells[i - at + 1]
      /\ \A i \in Memory : i \notin at .. at + u - 1 => g.mem[i] = b.mem[i]
  <2>1. /\ g \in Blobs /\ SameHeader(b, g)
        /\ \A i \in Memory : i \in at .. at + Len(cells) - 1 => g.mem[i] = cells[i - at + 1]
        /\ \A i \in Memory : i \notin at .. at + Len(cells) - 1 => g.mem[i] = b.mem[i]
    <3>1. PutMade(b, at, cells, g)  BY <1>3, PutHeader DEF g
    <3> QED BY <3>1 DEF PutMade
  <2> QED BY <2>1 DEF u
<1>6. \A i \in p + 1 .. p + u : g.mem[i].tag = "data"
  <2>1. \A i \in p + 1 .. p + u : i \in Memory /\ i \in at .. at + u - 1 /\ i - at + 1 \in 1 .. u
    BY <1>1, <1>3 DEF Memory
  <2>2. \A i \in 1 .. u : cells[i].tag = "data"  BY DEF u
  <2> QED BY <1>5, <2>1, <2>2
<1>7. g.mem[p] = b.mem[p]
  <2>1. p \in Memory /\ p \notin at .. at + u - 1  BY <1>1, <1>3 DEF Memory
  <2> QED BY <1>5, <2>1
<1>8. Run(g.mem, p, t)
  <2>1. g.mem[p].tag = "prop" /\ Units(g.mem[p].y) = u  BY <1>7 DEF p, u, At
  <2> QED BY <1>1, <1>3, <1>6, <2>1, PropElem
<1>9. Named(g.mem, p, t, str, sl)
  <2>1. PICK n \in PropNames : IsString(b.mem, str, sl, b.mem[p].x, n)  BY <1>4
  <2>2. \A i \in str .. str + sl - 1 : g.mem[i] = b.mem[i]
    <3>1. \A i \in str .. str + sl - 1 : i \in Memory /\ i \notin at .. at + u - 1
      BY <1>1, <1>3 DEF Memory
    <3> QED BY <1>5, <3>1
  <2>3. n \in Seq(Nat \ {0})  BY FdtEditAssumption
  <2>4. IsString(g.mem, str, sl, g.mem[p].x, n)  BY <1>3, <1>7, <2>1, <2>2, <2>3, StringsStay
  <2>5. Named(g.mem, p, p + 1 + u, str, sl)  BY <1>1, <1>3, <1>6, <2>4, PropNamed
  <2> QED BY <1>3, <2>5
<1>10. \A i \in Memory : i < p \/ i >= t => g.mem[i] = b.mem[i]
  <2>1. \A i \in Memory : i < p \/ i >= t => i \notin at .. at + u - 1
    BY <1>1, <1>3 DEF Memory
  <2> QED BY <1>5, <2>1
<1>11. Fine(g)
  <2>1. /\ Run(b.mem, b.off_dt_struct, b.off_dt_struct + q)
        /\ Run(b.mem, b.off_dt_struct + c, b.off_dt_struct + e)
        /\ Run(g.mem, b.off_dt_struct + q, b.off_dt_struct + c)
        /\ Named(g.mem, b.off_dt_struct + q, b.off_dt_struct + c, b.off_dt_strings, b.size_dt_strings)
        /\ \A i \in Memory : i < b.off_dt_struct + q \/ i >= b.off_dt_struct + c =>
             g.mem[i] = b.mem[i]
    BY <1>2, <1>8, <1>9, <1>10 DEF p, t, str, sl
  <2> QED BY <1>1, <1>3, <1>5, <2>1, InPlace
<1> QED BY <1>11 DEF g, at, p

LEMMA SetpropInplacePartialFine ==
  ASSUME NEW b \in Blobs, NEW k \in Nat, NEW e \in Nat, Holds(b, k, e), NEW o \in Nat, NEW name,
         NEW idx \in Nat, NEW val \in Seq(Nat)
  PROVE  Fine(SetpropInplacePartial(b, o, name, idx, val).fdt)
<1> DEFINE q == GetProperty(b, o, name)
           old == Value(b, q)
           new == [i \in DOMAIN old |-> IF i \in idx + 1 .. idx + Len(val) THEN val[i - idx] ELSE old[i]]
           r == SetpropInplacePartial(b, o, name, idx, val)
<1>0. r = IF q < 0 THEN Fail(q, b)
          ELSE IF At(b, q).y < Len(val) + idx THEN Fail(NOSPACE, b)
          ELSE Done(Put(b, b.off_dt_struct + q + 1, Bytes(new)))
  BY DEF SetpropInplacePartial
<1> HIDE DEF r
<1>1. CASE q \in {BADOFFSET, NOTFOUND}
  <2>1. q < 0  BY <1>1 DEF BADOFFSET, NOTFOUND
  <2>2. r.fdt = b  BY <1>0, <2>1 DEF Fail
  <2> QED BY <2>2, HoldsFine DEF r
<1>2. CASE q \in o + 1 .. e - 1 /\ At(b, q).tag = "prop"
  <2> HIDE DEF q
  <2>1. q \in 0 .. e - 1 /\ ~(q < 0)  BY <1>2
  <2>2. old \in Seq(Nat) /\ Len(old) = At(b, q).y /\ At(b, q).y \in Nat
    BY <1>2, <2>1, ValueLemma
  <2> HIDE DEF old
  <2>3. new \in Seq(Nat) /\ Len(new) = At(b, q).y
    <3>1. \A i \in 1 .. Len(old) : new[i] \in Nat
      <4>1. \A i \in idx + 1 .. idx + Len(val) : i - idx \in 1 .. Len(val)  OBVIOUS
      <4>2. \A i \in 1 .. Len(val) : val[i] \in Nat  OBVIOUS
      <4>3. \A i \in 1 .. Len(old) : old[i] \in Nat  BY <2>2
      <4>4. \A i \in 1 .. Len(old) :
              new[i] = IF i \in idx + 1 .. idx + Len(val) THEN val[i - idx] ELSE old[i]
        BY <2>2
      <4> HIDE DEF new
      <4> QED BY <4>1, <4>2, <4>3, <4>4
    <3>2. new = [i \in 1 .. Len(old) |-> new[i]]  BY <2>2
    <3> HIDE DEF new
    <3>3. new \in [1 .. Len(old) -> Nat]  BY <3>1, <3>2
    <3>4. new \in Seq(Nat) /\ Len(new) = Len(old)
      <4> DEFINE len == Len(old)
      <4>1. len \in Nat /\ new \in [1 .. len -> Nat]  BY <2>2, <3>3
      <4> HIDE DEF len
      <4>2. new \in Seq(Nat) /\ Len(new) = len  BY <4>1
      <4> QED BY <4>2 DEF len
    <3> QED BY <2>2, <3>4
  <2> HIDE DEF new
  <2>4. /\ Bytes(new) \in Seq(Cells) /\ Len(Bytes(new)) = Units(At(b, q).y)
        /\ \A i \in 1 .. Len(Bytes(new)) : Bytes(new)[i].tag = "data"
    BY <2>3, BytesLemma
  <2>5. Fine(Put(b, b.off_dt_struct + q + 1, Bytes(new)))
    BY <1>2, <2>1, <2>4, PutValueFine
  <2>6. CASE At(b, q).y < Len(val) + idx
    <3>1. r.fdt = b  BY <1>0, <2>1, <2>6 DEF Fail
    <3> QED BY <3>1, HoldsFine DEF r
  <2>7. CASE ~(At(b, q).y < Len(val) + idx)
    <3>1. r.fdt = Put(b, b.off_dt_struct + q + 1, Bytes(new))  BY <1>0, <2>1, <2>7 DEF Done
    <3> QED BY <2>5, <3>1 DEF r
  <2> QED BY <2>6, <2>7
<1> QED BY <1>1, <1>2, PropertyAt

LEMMA SetpropInplaceFine ==
  ASSUME NEW b \in Blobs, NEW k \in Nat, NEW e \in Nat, Holds(b, k, e), NEW o \in Nat, NEW name,
         NEW val \in Seq(Nat)
  PROVE  Fine(SetpropInplace(b, o, name, val).fdt)
<1>1. Fine(SetpropInplacePartial(b, o, name, 0, val).fdt)
  <2>1. 0 \in Nat  OBVIOUS
  <2> QED BY <2>1, SetpropInplacePartialFine
<1>2. Fine(b)  BY HoldsFine
<1> QED BY <1>1, <1>2 DEF SetpropInplace, Fail
-----------------------------------------------------------------------------
\* The reserve map.

LEMMA RsvCount ==
  ASSUME NEW b \in Blobs, NEW k \in Nat, NEW e \in Nat, Holds(b, k, e)
  PROVE  NumMemRsv(b) = k
<1> DEFINE rsv == b.off_mem_rsvmap
           T == {i \in 0 .. b.totalsize - rsv - 1 : b.mem[rsv + i].x = 0}
<1>1. rsv \in Nat /\ b.totalsize \in Nat  BY BlobFields
<1>2. RsvMap(b.mem, rsv, k) /\ rsv + k + 1 <= b.totalsize  BY DEF Holds
<1> HIDE DEF rsv
<1>3. k \in T  BY <1>1, <1>2 DEF RsvMap
<1>4. ASSUME NEW i \in T PROVE k <= i
  <2>1. SUFFICES ASSUME i < k PROVE FALSE  BY <1>1
  <2>2. i \in 0 .. k - 1  BY <1>1, <2>1
  <2> QED BY <1>2, <2>2 DEF RsvMap
<1>5. T \in SUBSET Nat  BY <1>1
<1> HIDE DEF T
<1>6. Min(T) = k  BY <1>3, <1>4, <1>5, LowestIs
<1> QED BY <1>6 DEF NumMemRsv, T, rsv

\* What a splice of the reserve map leaves.
RsvLeaves(b, p, oldn, newn, r) ==
  \/ r.err # 0 /\ r.err \in Int /\ r.fdt = b
  \/ /\ r.err = 0 /\ r.fdt \in Blobs
     /\ r.fdt.magic = b.magic /\ r.fdt.version = b.version /\ r.fdt.totalsize = b.totalsize
     /\ r.fdt.off_mem_rsvmap = b.off_mem_rsvmap
     /\ r.fdt.off_dt_struct = b.off_dt_struct + newn - oldn
     /\ r.fdt.off_dt_strings = b.off_dt_strings + newn - oldn
     /\ r.fdt.size_dt_struct = b.size_dt_struct /\ r.fdt.size_dt_strings = b.size_dt_strings
     /\ DataSize(b) - oldn + newn <= b.totalsize
     /\ \A q \in Memory : q < p + newn => r.fdt.mem[q] = b.mem[q]
     /\ \A q \in p + oldn .. DataSize(b) - 1 : r.fdt.mem[q + newn - oldn] = b.mem[q]

LEMMA SpliceMemRsvEffect ==
  ASSUME NEW b \in Blobs, RwCheckHeader(b) = 0,
         NEW p \in Nat, NEW oldn \in Nat, NEW newn \in Nat, oldn <= b.off_dt_struct
  PROVE  RsvLeaves(b, p, oldn, newn, SpliceMemRsv(b, p, oldn, newn))
<1> DEFINE s == Splice(b, p, oldn, newn)
           r == SpliceMemRsv(b, p, oldn, newn)
<1>1. /\ b.off_dt_struct \in Nat /\ b.off_dt_strings \in Nat /\ b.size_dt_struct \in Nat
      /\ b.size_dt_strings \in Nat /\ b.totalsize \in Nat
  BY BlobFields
<1>2. b.off_dt_struct + b.size_dt_struct <= b.off_dt_strings /\ DataSize(b) <= b.totalsize
  BY Writable
<1>3. SpliceLeaves(b, p, oldn, newn, s)  BY <1>2, SpliceEffect
<1>4. r = IF s.err # 0 THEN s
          ELSE Done([s.fdt EXCEPT !.off_dt_struct = @ + newn - oldn,
                                  !.off_dt_strings = @ + newn - oldn])
  BY DEF SpliceMemRsv, AndThen
<1> HIDE DEF s, r
<1>5. CASE s.err # 0
  <2>1. r.err # 0 /\ r.err \in Int /\ r.fdt = b  BY <1>3, <1>4, <1>5 DEF SpliceLeaves
  <2> QED BY <2>1 DEF RsvLeaves, r
<1>6. CASE s.err = 0
  <2>1. PICK m \in [Memory -> Cells] :
          /\ s.fdt = [b EXCEPT !.mem = m]
          /\ \A q \in Memory : q < p + newn => m[q] = b.mem[q]
          /\ \A q \in p + oldn .. DataSize(b) - 1 : m[q + newn - oldn] = b.mem[q]
    BY <1>3, <1>6 DEF SpliceLeaves
  <2> DEFINE g == s.fdt
             f == [g EXCEPT !.off_dt_struct = @ + newn - oldn, !.off_dt_strings = @ + newn - oldn]
  <2>2. /\ g \in Blobs /\ g.mem = m
        /\ g.magic = b.magic /\ g.version = b.version /\ g.totalsize = b.totalsize
        /\ g.off_mem_rsvmap = b.off_mem_rsvmap /\ g.off_dt_struct = b.off_dt_struct
        /\ g.size_dt_struct = b.size_dt_struct /\ g.off_dt_strings = b.off_dt_strings
        /\ g.size_dt_strings = b.size_dt_strings
    BY <2>1, MemEdit
  <2>3. r.err = 0 /\ r.fdt = f  BY <1>4, <1>6 DEF Done
  <2> HIDE DEF g
  <2>4. b.off_dt_struct + newn - oldn \in Nat /\ b.off_dt_strings + newn - oldn \in Nat
    BY <1>1, <1>2
  <2>5. /\ f \in Blobs /\ f.mem = m
        /\ f.magic = b.magic /\ f.version = b.version /\ f.totalsize = b.totalsize
        /\ f.off_mem_rsvmap = b.off_mem_rsvmap
        /\ f.off_dt_struct = b.off_dt_struct + newn - oldn
        /\ f.off_dt_strings = b.off_dt_strings + newn - oldn
        /\ f.size_dt_struct = b.size_dt_struct /\ f.size_dt_strings = b.size_dt_strings
    BY <2>2, <2>4 DEF Blobs
  <2>6. DataSize(b) - oldn + newn <= b.totalsize  BY <1>3, <1>6 DEF SpliceLeaves
  <2> HIDE DEF f
  <2>7. RsvLeaves(b, p, oldn, newn, r)  BY <2>1, <2>3, <2>5, <2>6 DEF RsvLeaves
  <2> QED BY <2>7 DEF r
<1> QED BY <1>5, <1>6

\* What lies behind the reserve map moves along with d entries more.
RsvEdited(b, k, g, d) ==
  /\ g \in Blobs /\ k + d \in Nat /\ g.magic = b.magic
  /\ g.version = b.version /\ g.totalsize = b.totalsize /\ g.off_mem_rsvmap = b.off_mem_rsvmap
  /\ g.off_dt_struct = b.off_dt_struct + d /\ g.off_dt_strings = b.off_dt_strings + d
  /\ g.size_dt_struct = b.size_dt_struct /\ g.size_dt_strings = b.size_dt_strings
  /\ DataSize(b) + d <= b.totalsize
  /\ RsvMap(g.mem, b.off_mem_rsvmap, k + d)
  /\ \A q \in b.off_mem_rsvmap + k + 1 .. DataSize(b) - 1 : g.mem[q + d] = b.mem[q]

LEMMA RsvEdit ==
  ASSUME NEW b \in Blobs, NEW k \in Nat, NEW e \in Nat, Holds(b, k, e), RwCheckHeader(b) = 0,
         NEW g, NEW d \in Int, RsvEdited(b, k, g, d)
  PROVE  Holds(g, k + d, e)
<1>0. /\ g \in Blobs /\ k + d \in Nat /\ g.magic = b.magic
      /\ g.version = b.version /\ g.totalsize = b.totalsize /\ g.off_mem_rsvmap = b.off_mem_rsvmap
      /\ g.off_dt_struct = b.off_dt_struct + d /\ g.off_dt_strings = b.off_dt_strings + d
      /\ g.size_dt_struct = b.size_dt_struct /\ g.size_dt_strings = b.size_dt_strings
      /\ DataSize(b) + d <= b.totalsize
      /\ RsvMap(g.mem, b.off_mem_rsvmap, k + d)
      /\ \A q \in b.off_mem_rsvmap + k + 1 .. DataSize(b) - 1 : g.mem[q + d] = b.mem[q]
  BY DEF RsvEdited
<1> DEFINE st == b.off_dt_struct
           rsv == b.off_mem_rsvmap
           str == b.off_dt_strings
           sl == b.size_dt_strings
           v == st + e
<1>1. /\ st \in Nat /\ rsv \in Nat /\ str \in Nat /\ sl \in Nat /\ b.totalsize \in Nat
      /\ RsvStart \in Nat /\ v \in Nat /\ st <= v /\ v = st + e
  BY BlobFields, FdtRwAssumption
<1>2. /\ Run(b.mem, st, v) /\ b.mem[v].tag = "end"
      /\ Named(b.mem, st, v, str, sl)
      /\ Disjoint(rsv, rsv + k + 1, st, st + e + 1)
  BY DEF Holds
<1>3. /\ b.version = 17 /\ RsvStart <= rsv /\ rsv + 1 <= st /\ st + b.size_dt_struct <= str
      /\ str + sl <= b.totalsize /\ DataSize(b) = str + sl
  BY Writable DEF DataSize
<1>4. b.size_dt_struct = e + 1  BY <1>3 DEF Holds
<1>5. rsv + k + 1 <= st  BY <1>1, <1>2, <1>3 DEF Disjoint
<1>6. \A q \in rsv + k + 1 .. str + sl - 1 : g.mem[q + d] = b.mem[q]
  <2> DEFINE z == DataSize(b)
  <2>1. \A q \in rsv + k + 1 .. z - 1 : g.mem[q + d] = b.mem[q]  BY <1>0
  <2>2. z = str + sl  BY <1>3
  <2> HIDE DEF z, rsv, str, sl
  <2> QED BY <1>1, <2>1, <2>2
<1> HIDE DEF v, st, rsv, str, sl
<1>7. st + d \in Nat /\ str + d \in Nat /\ v + d \in Nat  BY <1>0, <1>1, <1>5, <1>3, <1>4
<1>8. /\ \A q \in st .. v - 1 : g.mem[q + d] = b.mem[q]
      /\ \A q \in str .. str + sl - 1 : g.mem[q + d] = b.mem[q]
      /\ g.mem[v + d] = b.mem[v]
  <2>1. /\ \A q \in st .. v : q \in rsv + k + 1 .. str + sl - 1
        /\ \A q \in str .. str + sl - 1 : q \in rsv + k + 1 .. str + sl - 1
        /\ v \in st .. v /\ \A q \in st .. v - 1 : q \in st .. v
    BY <1>1, <1>3, <1>4, <1>5
  <2> QED BY <1>6, <2>1
<1>9. Run(g.mem, st + d, v + d)  BY <1>1, <1>2, <1>7, <1>8, RunMoved
<1>10. Named(g.mem, st + d, v + d, str + d, sl)
  <2>1. ASSUME NEW q \in st + d .. v + d - 1, g.mem[q].tag = "prop"
        PROVE  \E n \in PropNames : IsString(g.mem, str + d, sl, g.mem[q].x, n)
    <3>1. q - d \in st .. v - 1 /\ (q - d) + d = q  BY <1>1, <1>7
    <3>2. g.mem[q] = b.mem[q - d]  BY <1>8, <3>1
    <3>3. PICK n \in PropNames : IsString(b.mem, str, sl, b.mem[q - d].x, n)
      BY <1>2, <2>1, <3>1, <3>2 DEF Named
    <3>4. n \in Seq(Nat)  BY FdtEditAssumption
    <3>5. IsString(g.mem, str + d, sl, b.mem[q - d].x, n)
      <4> DEFINE x == b.mem[q - d].x
      <4>1. IsString(b.mem, str, sl, x, n)  BY <3>3
      <4> HIDE DEF x
      <4>2. IsString(g.mem, str + d, sl, x, n)  BY <1>1, <1>8, <3>4, <4>1, IsStringMoved
      <4> QED BY <4>2 DEF x
    <3> QED BY <3>2, <3>5
  <2> DEFINE s == st + d
             f == v + d
  <2>2. s \in Nat /\ f \in Nat  BY <1>7
  <2>3. \A q \in s .. f - 1 : g.mem[q].tag = "prop" =>
          \E n \in PropNames : IsString(g.mem, str + d, sl, g.mem[q].x, n)
    <3>1. ASSUME NEW q \in s .. f - 1, g.mem[q].tag = "prop"
          PROVE  \E n \in PropNames : IsString(g.mem, str + d, sl, g.mem[q].x, n)
      <4>1. q \in st + d .. v + d - 1  BY <1>1, <1>7
      <4> HIDE DEF s, f
      <4> QED BY <2>1, <3>1, <4>1
    <3> QED BY <3>1
  <2> HIDE DEF s, f
  <2>4. Named(g.mem, s, f, str + d, sl)  BY <2>3 DEF Named
  <2> QED BY <2>4 DEF s, f
<1>11. /\ rsv + (k + d) + 1 <= b.totalsize /\ RsvStart <= st + d
       /\ (st + d) + e + 1 <= b.totalsize /\ RsvStart <= str + d /\ (str + d) + sl <= b.totalsize
       /\ rsv + (k + d) + 1 <= st + d /\ rsv + (k + d) + 1 <= str + d
       /\ (st + d) + e + 1 <= str + d /\ v + d = (st + d) + e
  BY <1>0, <1>1, <1>3, <1>4, <1>5
<1>12. Holds(g, k + d, e)
  <2>1. /\ RsvMap(g.mem, rsv, k + d)
        /\ Run(g.mem, st + d, (st + d) + e)
        /\ g.mem[(st + d) + e].tag = "end"
        /\ Named(g.mem, st + d, (st + d) + e, str + d, sl)
    BY <1>0, <1>2, <1>8, <1>9, <1>10, <1>11 DEF rsv
  <2>2. g.off_dt_struct = st + d /\ g.off_dt_strings = str + d /\ g.off_mem_rsvmap = rsv
        /\ g.size_dt_strings = sl
    BY <1>0 DEF st, str, rsv, sl
  <2> QED BY <1>0, <1>3, <1>4, <1>11, <2>1, <2>2 DEF Holds, Disjoint
<1> QED BY <1>12

LEMMA RsvRoom ==
  ASSUME NEW b \in Blobs, NEW k \in Nat, NEW e \in Nat, Holds(b, k, e), RwCheckHeader(b) = 0
  PROVE  /\ b.off_mem_rsvmap + k + 1 <= b.off_dt_struct
         /\ b.off_dt_struct + e + 1 <= b.off_dt_strings
         /\ b.size_dt_struct = e + 1 /\ DataSize(b) \in Nat /\ DataSize(b) <= b.totalsize
         /\ b.off_dt_strings <= DataSize(b) /\ DataSize(b) = b.off_dt_strings + b.size_dt_strings
         /\ DataSize(b) <= MaxSize /\ MaxSize \in Nat
         /\ \A q \in Nat : q < DataSize(b) + 1 => q \in Memory \/ q = DataSize(b)
<1>1. /\ b.off_mem_rsvmap \in Nat /\ b.off_dt_struct \in Nat /\ b.off_dt_strings \in Nat
      /\ b.size_dt_strings \in Nat /\ b.totalsize \in 0 .. MaxSize /\ MaxSize \in Nat
  BY BlobFields, FdtRwAssumption
<1>2. /\ b.version = 17 /\ b.off_mem_rsvmap + 1 <= b.off_dt_struct
      /\ b.off_dt_struct + b.size_dt_struct <= b.off_dt_strings
      /\ DataSize(b) <= b.totalsize
  BY Writable
<1>3. b.size_dt_struct = e + 1  BY <1>2 DEF Holds
<1>4. b.off_mem_rsvmap + k + 1 <= b.off_dt_struct
  <2>1. Disjoint(b.off_mem_rsvmap, b.off_mem_rsvmap + k + 1, b.off_dt_struct, b.off_dt_struct + e + 1)
    BY DEF Holds
  <2> QED BY <1>1, <1>2, <2>1 DEF Disjoint
<1> QED BY <1>1, <1>2, <1>3, <1>4 DEF DataSize, Memory

RsvAdded(b, k, region, r) ==
  \/ RwCheckHeader(b) # 0 /\ r = Fail(RwCheckHeader(b), b)
  \/ /\ RwCheckHeader(b) = 0 /\ r.err # 0 /\ r.fdt = b
     /\ r = SpliceMemRsv(b, b.off_mem_rsvmap + k, 0, 1)
  \/ /\ RwCheckHeader(b) = 0 /\ r.err = 0 /\ RsvEdited(b, k, r.fdt, 1)
     /\ \A q \in Nat : q < b.off_mem_rsvmap + k => r.fdt.mem[q] = b.mem[q]
     /\ r.fdt.mem[b.off_mem_rsvmap + k].x = region

LEMMA AddMemRsvIs ==
  ASSUME NEW b \in Blobs, NEW k \in Nat, NEW e \in Nat, Holds(b, k, e), NEW region \in Nat \ {0}
  PROVE  RsvAdded(b, k, region, AddMemRsv(b, region))
<1> DEFINE rsv == b.off_mem_rsvmap
           p == rsv + k
           r == SpliceMemRsv(b, p, 0, 1)
           cells == <<Cell("entry", region, 0)>>
           g == Put(r.fdt, p, cells)
<1>1. CASE RwCheckHeader(b) # 0
  BY <1>1 DEF AddMemRsv, Guarded, RsvAdded
<1>2. CASE RwCheckHeader(b) = 0
  <2>1. AddMemRsv(b, region) = IF r.err # 0 THEN r ELSE Done(g)
    BY <1>2, RsvCount DEF AddMemRsv, Guarded, AndThen
  <2>2. /\ rsv \in Nat /\ p \in Nat /\ rsv + k + 1 <= b.off_dt_struct
        /\ b.off_dt_struct <= DataSize(b) /\ p = rsv + k /\ b.off_dt_struct \in Nat
        /\ b.off_dt_strings \in Nat
        /\ DataSize(b) <= MaxSize /\ MaxSize \in Nat /\ DataSize(b) \in Nat
    <3>1. rsv \in Nat /\ b.off_dt_struct \in Nat /\ b.off_dt_strings \in Nat  BY BlobFields
    <3> QED BY <1>2, <3>1, RsvRoom
  <2>3. RsvLeaves(b, p, 0, 1, r)
    <3>1. 0 \in Nat /\ 1 \in Nat /\ 0 <= b.off_dt_struct  BY <2>2
    <3> HIDE DEF p
    <3> QED BY <1>2, <2>2, <3>1, SpliceMemRsvEffect
  <2>4. cells \in Seq(Cells) /\ Len(cells) = 1 /\ cells[1].x = region
    BY DEF Cells, Cell, Tags
  <2> HIDE DEF r, cells, p, rsv
  <2>5. CASE r.err # 0
    <3>1. r.fdt = b  BY <2>3, <2>5 DEF RsvLeaves
    <3> QED BY <1>2, <2>1, <2>5, <3>1 DEF RsvAdded, r, p, rsv
  <2>6. CASE r.err = 0
    <3> DEFINE f == r.fdt
    <3>1. /\ f \in Blobs /\ f.version = b.version /\ f.totalsize = b.totalsize
          /\ f.off_mem_rsvmap = b.off_mem_rsvmap /\ f.magic = b.magic
          /\ f.off_dt_struct = b.off_dt_struct + 1 /\ f.off_dt_strings = b.off_dt_strings + 1
          /\ f.size_dt_struct = b.size_dt_struct /\ f.size_dt_strings = b.size_dt_strings
          /\ DataSize(b) + 1 <= b.totalsize
      <4>1. /\ f \in Blobs /\ f.version = b.version /\ f.totalsize = b.totalsize
            /\ f.off_mem_rsvmap = b.off_mem_rsvmap /\ f.magic = b.magic
            /\ f.off_dt_struct = b.off_dt_struct + 1 - 0
            /\ f.off_dt_strings = b.off_dt_strings + 1 - 0
            /\ f.size_dt_struct = b.size_dt_struct /\ f.size_dt_strings = b.size_dt_strings
            /\ DataSize(b) - 0 + 1 <= b.totalsize
        BY <2>3, <2>6 DEF RsvLeaves
      <4> HIDE DEF f
      <4> QED BY <2>2, <4>1
    <3>2. /\ \A q \in Memory : q < p + 1 => f.mem[q] = b.mem[q]
          /\ \A q \in p .. DataSize(b) - 1 : f.mem[q + 1] = b.mem[q]
      <4>1. /\ \A q \in Memory : q < p + 1 => f.mem[q] = b.mem[q]
            /\ \A q \in p + 0 .. DataSize(b) - 1 : f.mem[q + 1 - 0] = b.mem[q]
        BY <2>3, <2>6 DEF RsvLeaves
      <4> HIDE DEF f
      <4>2. p + 0 = p /\ \A q \in p .. DataSize(b) - 1 : q + 1 - 0 = q + 1  BY <2>2
      <4> QED BY <4>1, <4>2
    <3>3. /\ g \in Blobs /\ SameHeader(f, g)
          /\ \A q \in Memory : q \in p .. p + 1 - 1 => g.mem[q] = cells[q - p + 1]
          /\ \A q \in Memory : q \notin p .. p + 1 - 1 => g.mem[q] = f.mem[q]
      <4> HIDE DEF f
      <4>1. /\ Put(f, p, cells) \in Blobs /\ SameHeader(f, Put(f, p, cells))
            /\ \A q \in Memory : q \in p .. p + Len(cells) - 1 =>
                 Put(f, p, cells).mem[q] = cells[q - p + 1]
            /\ \A q \in Memory : q \notin p .. p + Len(cells) - 1 =>
                 Put(f, p, cells).mem[q] = f.mem[q]
        <5>1. PutMade(f, p, cells, Put(f, p, cells))  BY <2>2, <2>4, <3>1, PutHeader
        <5> QED BY <5>1 DEF PutMade
      <4> QED BY <2>4, <4>1 DEF f
    <3> HIDE DEF f, g
    <3>4. \A q \in Nat : q <= DataSize(b) => q \in Memory
      <4>1. DataSize(b) < 2 * MaxSize
        <5>1. b.totalsize \in 0 .. MaxSize  BY BlobFields
        <5> QED BY <2>2, <3>1, <5>1
      <4> QED BY <2>2, <4>1 DEF Memory
    <3>5. g.mem[p].x = region
      <4>1. p \in Memory /\ p \in p .. p + 1 - 1 /\ p - p + 1 = 1  BY <2>2, <3>4
      <4> QED BY <2>4, <3>3, <4>1
    <3>6. \A q \in p .. DataSize(b) - 1 : g.mem[q + 1] = b.mem[q]
      <4>1. \A q \in p .. DataSize(b) - 1 : q + 1 \in Memory /\ q + 1 \notin p .. p + 1 - 1
        BY <2>2, <3>4
      <4> QED BY <3>2, <3>3, <4>1
    <3>7. \A q \in Nat : q < p => g.mem[q] = b.mem[q]
      <4>1. \A q \in Nat : q < p => q \in Memory /\ q \notin p .. p + 1 - 1 /\ q < p + 1
        BY <2>2, <3>4
      <4> QED BY <3>2, <3>3, <4>1
    <3>8. RsvMap(g.mem, rsv, k + 1)
      <4>1. RsvMap(b.mem, rsv, k)  BY DEF Holds, rsv
      <4>2. g.mem[rsv + (k + 1)].x = 0
        <5>1. rsv + (k + 1) = p + 1 /\ p \in p .. DataSize(b) - 1  BY <2>2
        <5> QED BY <2>2, <3>6, <4>1, <5>1 DEF RsvMap
      <4>3. ASSUME NEW i \in 0 .. k + 1 - 1 PROVE g.mem[rsv + i].x # 0
        <5>1. CASE i = k  BY <2>2, <3>5, <5>1
        <5>2. CASE i # k
          <6>1. i \in 0 .. k - 1 /\ rsv + i \in Nat /\ rsv + i < p  BY <2>2, <5>2
          <6> QED BY <3>7, <4>1, <6>1 DEF RsvMap
        <5> QED BY <5>1, <5>2
      <4> QED BY <4>2, <4>3 DEF RsvMap
    <3>9. \A q \in b.off_mem_rsvmap + k + 1 .. DataSize(b) - 1 : g.mem[q + 1] = b.mem[q]
      <4>1. \A q \in b.off_mem_rsvmap + k + 1 .. DataSize(b) - 1 : q \in p .. DataSize(b) - 1
        BY <2>2 DEF rsv
      <4> QED BY <3>6, <4>1
    <3>10. RsvEdited(b, k, g, 1)
      <4>1. k + 1 \in Nat  OBVIOUS
      <4>2. RsvMap(g.mem, b.off_mem_rsvmap, k + 1)  BY <3>8 DEF rsv
      <4>3. /\ g.version = b.version /\ g.totalsize = b.totalsize
            /\ g.off_mem_rsvmap = b.off_mem_rsvmap
            /\ g.off_dt_struct = b.off_dt_struct + 1 /\ g.off_dt_strings = b.off_dt_strings + 1
            /\ g.size_dt_struct = b.size_dt_struct /\ g.size_dt_strings = b.size_dt_strings
            /\ g \in Blobs /\ g.magic = b.magic
        BY <3>1, <3>3 DEF SameHeader
      <4> QED BY <3>1, <3>9, <4>1, <4>2, <4>3 DEF RsvEdited
    <3>11. AddMemRsv(b, region).fdt = g /\ AddMemRsv(b, region).err = 0  BY <2>1, <2>6 DEF Done, g
    <3> QED BY <1>2, <3>5, <3>7, <3>10, <3>11 DEF RsvAdded, p, rsv
  <2> QED BY <2>5, <2>6
<1> QED BY <1>1, <1>2

LEMMA AddMemRsvFine ==
  ASSUME NEW b \in Blobs, NEW k \in Nat, NEW e \in Nat, Holds(b, k, e), NEW region \in Nat \ {0}
  PROVE  Fine(AddMemRsv(b, region).fdt)
<1> DEFINE r == AddMemRsv(b, region)
<1>1. RsvAdded(b, k, region, r)  BY AddMemRsvIs
<1> HIDE DEF r
<1>2. CASE r.fdt = b  BY <1>2, HoldsFine DEF r
<1>3. CASE RwCheckHeader(b) = 0 /\ RsvEdited(b, k, r.fdt, 1)
  <2>1. 1 \in Int /\ r.fdt \in Blobs /\ k + 1 \in Nat  BY <1>3 DEF RsvEdited
  <2>2. Holds(r.fdt, k + 1, e)  BY <1>3, <2>1, RsvEdit
  <2> QED BY <2>1, <2>2, HoldsFine DEF r
<1> QED BY <1>1, <1>2, <1>3 DEF RsvAdded, Fail, r

RsvDeleted(b, k, n, r) ==
  \/ RwCheckHeader(b) # 0 /\ r = Fail(RwCheckHeader(b), b)
  \/ RwCheckHeader(b) = 0 /\ n >= k /\ r = Fail(NOTFOUND, b)
  \/ /\ RwCheckHeader(b) = 0 /\ n < k /\ r.err # 0 /\ r.fdt = b
     /\ r = SpliceMemRsv(b, b.off_mem_rsvmap + n, 1, 0)
  \/ /\ RwCheckHeader(b) = 0 /\ n < k /\ r.err = 0 /\ RsvEdited(b, k, r.fdt, -1)
     /\ \A q \in Memory : q < b.off_mem_rsvmap + n => r.fdt.mem[q] = b.mem[q]
     /\ \A j \in n + 1 .. k : r.fdt.mem[b.off_mem_rsvmap + j - 1] = b.mem[b.off_mem_rsvmap + j]

LEMMA DelMemRsvIs ==
  ASSUME NEW b \in Blobs, NEW k \in Nat, NEW e \in Nat, Holds(b, k, e), NEW n \in Nat
  PROVE  RsvDeleted(b, k, n, DelMemRsv(b, n))
<1> DEFINE rsv == b.off_mem_rsvmap
           p == rsv + n
           r == SpliceMemRsv(b, p, 1, 0)
<1>1. CASE RwCheckHeader(b) # 0 \/ n >= k
  BY <1>1, RsvCount DEF DelMemRsv, Guarded, RsvDeleted
<1>2. CASE RwCheckHeader(b) = 0 /\ ~(n >= k)
  <2>1. DelMemRsv(b, n) = r
    BY <1>2, RsvCount DEF DelMemRsv, Guarded
  <2>2. /\ rsv \in Nat /\ p \in Nat /\ rsv + k + 1 <= b.off_dt_struct
        /\ b.off_dt_struct <= DataSize(b) /\ p = rsv + n /\ b.off_dt_struct \in Nat
        /\ b.off_dt_strings \in Nat /\ n < k
        /\ DataSize(b) <= MaxSize /\ MaxSize \in Nat /\ DataSize(b) \in Nat
    <3>1. rsv \in Nat /\ b.off_dt_struct \in Nat /\ b.off_dt_strings \in Nat  BY BlobFields
    <3> QED BY <1>2, <3>1, RsvRoom
  <2>3. RsvLeaves(b, p, 1, 0, r)
    <3>1. 0 \in Nat /\ 1 \in Nat /\ 1 <= b.off_dt_struct  BY <2>2
    <3> HIDE DEF p
    <3> QED BY <1>2, <2>2, <3>1, SpliceMemRsvEffect
  <2> HIDE DEF r, p, rsv
  <2>5. CASE r.err # 0
    <3>1. r.fdt = b  BY <2>3, <2>5 DEF RsvLeaves
    <3> QED BY <1>2, <2>1, <2>2, <2>5, <3>1 DEF RsvDeleted, r, p, rsv
  <2>6. CASE r.err = 0
    <3> DEFINE g == r.fdt
               d == -1
    <3>1. /\ g \in Blobs /\ g.version = b.version /\ g.totalsize = b.totalsize
          /\ g.off_mem_rsvmap = b.off_mem_rsvmap /\ g.magic = b.magic
          /\ g.off_dt_struct = b.off_dt_struct + d /\ g.off_dt_strings = b.off_dt_strings + d
          /\ g.size_dt_struct = b.size_dt_struct /\ g.size_dt_strings = b.size_dt_strings
          /\ DataSize(b) + d <= b.totalsize
      <4>1. /\ g \in Blobs /\ g.version = b.version /\ g.totalsize = b.totalsize
            /\ g.off_mem_rsvmap = b.off_mem_rsvmap /\ g.magic = b.magic
            /\ g.off_dt_struct = b.off_dt_struct + 0 - 1
            /\ g.off_dt_strings = b.off_dt_strings + 0 - 1
            /\ g.size_dt_struct = b.size_dt_struct /\ g.size_dt_strings = b.size_dt_strings
            /\ DataSize(b) - 1 + 0 <= b.totalsize
        BY <2>3, <2>6 DEF RsvLeaves
      <4> HIDE DEF g
      <4> QED BY <2>2, <4>1
    <3>2. /\ \A q \in Memory : q < p => g.mem[q] = b.mem[q]
          /\ \A q \in p + 1 .. DataSize(b) - 1 : g.mem[q + d] = b.mem[q]
      <4>1. /\ \A q \in Memory : q < p + 0 => g.mem[q] = b.mem[q]
            /\ \A q \in p + 1 .. DataSize(b) - 1 : g.mem[q + 0 - 1] = b.mem[q]
        BY <2>3, <2>6 DEF RsvLeaves
      <4> HIDE DEF g
      <4>2. p + 0 = p /\ \A q \in p + 1 .. DataSize(b) - 1 : q + 0 - 1 = q + d  BY <2>2
      <4> QED BY <4>1, <4>2
    <3> HIDE DEF g
    <3>7. \A j \in n + 1 .. k : g.mem[rsv + j - 1] = b.mem[rsv + j]
      <4>1. \A j \in n + 1 .. k : rsv + j \in p + 1 .. DataSize(b) - 1 /\ (rsv + j) + d = rsv + j - 1
        BY <2>2
      <4> QED BY <3>2, <4>1
    <3>8. RsvMap(g.mem, rsv, k + d)
      <4>1. RsvMap(b.mem, rsv, k)  BY DEF Holds, rsv
      <4>2. \A j \in n + 1 .. k : g.mem[rsv + j - 1] = b.mem[rsv + j]  BY <3>7
      <4>3. g.mem[rsv + (k + d)].x = 0
        <5>1. rsv + (k + d) = rsv + k - 1 /\ k \in n + 1 .. k  BY <2>2
        <5> QED BY <4>1, <4>2, <5>1 DEF RsvMap
      <4>4. ASSUME NEW i \in 0 .. k + d - 1 PROVE g.mem[rsv + i].x # 0
        <5>1. CASE i < n
          <6>1. i \in 0 .. k - 1 /\ rsv + i \in Memory /\ rsv + i < p  BY <2>2, <5>1 DEF Memory
          <6> QED BY <3>2, <4>1, <6>1 DEF RsvMap
        <5>2. CASE ~(i < n)
          <6>1. i + 1 \in n + 1 .. k /\ rsv + (i + 1) - 1 = rsv + i /\ i + 1 \in 0 .. k - 1
            BY <2>2, <5>2
          <6> QED BY <4>1, <4>2, <6>1 DEF RsvMap
        <5> QED BY <5>1, <5>2
      <4> QED BY <4>3, <4>4 DEF RsvMap
    <3>9. \A q \in b.off_mem_rsvmap + k + 1 .. DataSize(b) - 1 : g.mem[q + d] = b.mem[q]
      <4>1. \A q \in b.off_mem_rsvmap + k + 1 .. DataSize(b) - 1 : q \in p + 1 .. DataSize(b) - 1
        BY <2>2 DEF rsv
      <4> QED BY <3>2, <4>1
    <3>10. RsvEdited(b, k, g, -1)
      <4>1. k + d \in Nat  BY <2>2
      <4>2. RsvMap(g.mem, b.off_mem_rsvmap, k + d)  BY <3>8 DEF rsv
      <4> HIDE DEF d
      <4>3. RsvEdited(b, k, g, d)  BY <3>1, <3>9, <4>1, <4>2 DEF RsvEdited
      <4> QED BY <4>3 DEF d
    <3> QED BY <1>2, <2>1, <2>2, <2>6, <3>2, <3>7, <3>10 DEF RsvDeleted, g, p, rsv
  <2> QED BY <2>5, <2>6
<1> QED BY <1>1, <1>2

LEMMA DelMemRsvFine ==
  ASSUME NEW b \in Blobs, NEW k \in Nat, NEW e \in Nat, Holds(b, k, e), NEW n \in Nat
  PROVE  Fine(DelMemRsv(b, n).fdt)
<1> DEFINE r == DelMemRsv(b, n)
<1>1. RsvDeleted(b, k, n, r)  BY DelMemRsvIs
<1> HIDE DEF r
<1>2. CASE r.fdt = b  BY <1>2, HoldsFine DEF r
<1>3. CASE RwCheckHeader(b) = 0 /\ RsvEdited(b, k, r.fdt, -1)
  <2>1. -1 \in Int /\ r.fdt \in Blobs /\ k + (-1) \in Nat  BY <1>3 DEF RsvEdited
  <2>2. Holds(r.fdt, k + (-1), e)  BY <1>3, <2>1, RsvEdit
  <2> QED BY <2>1, <2>2, HoldsFine DEF r
<1> QED BY <1>1, <1>2, <1>3 DEF RsvDeleted, Fail, r
-----------------------------------------------------------------------------
\* Strings: found, read and added.

LEMMA CharsLemma ==
  ASSUME NEW n \in Seq(Nat \ {0})
  PROVE  /\ Chars(n) \in Seq(Cells) /\ Len(Chars(n)) = Len(n) + 1
         /\ \A i \in 1 .. Len(n) + 1 : Chars(n)[i].x = IF i <= Len(n) THEN n[i] ELSE 0
<1> DEFINE l == Len(n) + 1
           c == Chars(n)
<1>1. l \in Nat /\ Len(n) \in Nat  OBVIOUS
<1>2. c = [i \in 1 .. l |-> Cell("chr", IF i <= Len(n) THEN n[i] ELSE 0, 0)]  BY DEF Chars
<1>3. ASSUME NEW i \in 1 .. l PROVE c[i] \in Cells /\ c[i].x = IF i <= Len(n) THEN n[i] ELSE 0
  <2> DEFINE x == IF i <= Len(n) THEN n[i] ELSE 0
  <2>1. x \in Nat
    <3>1. i <= Len(n) => i \in 1 .. Len(n)  BY <1>1
    <3>2. \A j \in 1 .. Len(n) : n[j] \in Nat  OBVIOUS
    <3> HIDE DEF l
    <3> QED BY <3>1, <3>2
  <2>2. c[i] = Cell("chr", x, 0)  BY <1>2
  <2> HIDE DEF x, c
  <2>3. c[i] \in Cells /\ c[i].x = x  BY <2>1, <2>2 DEF Cell, Cells, Tags
  <2> QED BY <2>3 DEF x
<1> HIDE DEF l
<1>4. c \in [1 .. l -> Cells]
  <2>1. c = [i \in 1 .. l |-> c[i]]  BY <1>2
  <2> HIDE DEF c
  <2> QED BY <1>3, <2>1
<1> HIDE DEF c
<1>5. c \in Seq(Cells) /\ Len(c) = l  BY <1>1, <1>4
<1> QED BY <1>3, <1>5 DEF c, l

\* What _fdt_find_string looks for is such a string.
LEMMA FoundIs ==
  ASSUME NEW b \in Blobs, NEW n \in Seq(Nat \ {0}), NEW x
  PROVE  x \in Found(b, n) <=> IsString(b.mem, b.off_dt_strings, b.size_dt_strings, x, n)
<1> DEFINE str == b.off_dt_strings
           sl == b.size_dt_strings
           l == Len(n)
<1>1. str \in Nat /\ sl \in Nat /\ l \in Nat  BY BlobFields
<1>2. \A i \in 1 .. l + 1 : Chars(n)[i].x = IF i <= l THEN n[i] ELSE 0  BY CharsLemma
<1>3. x \in Found(b, n) <=>
        /\ x \in 0 .. sl - l - 1
        /\ \A i \in 1 .. l + 1 : b.mem[str + x + i - 1].x = Chars(n)[i].x
  BY DEF Found
<1>4. x \in 0 .. sl - l - 1 <=> x \in Nat /\ x + l + 1 <= sl
  <2> HIDE DEF sl, l
  <2> QED BY <1>1
<1>5. IsString(b.mem, str, sl, x, n) <=>
        /\ x \in Nat /\ x + l + 1 <= sl
        /\ \A i \in 1 .. l + 1 : b.mem[str + x + i - 1].x = IF i <= l THEN n[i] ELSE 0
  BY DEF IsString
<1> HIDE DEF str, sl, l
<1>6. x \in Found(b, n) <=> IsString(b.mem, str, sl, x, n)
  BY <1>2, <1>3, <1>4, <1>5
<1> QED BY <1>6 DEF str, sl

LEMMA StringAtIs ==
  ASSUME NEW b \in Blobs, NEW n \in Seq(Nat \ {0}), NEW x,
         b.off_dt_strings + b.size_dt_strings <= b.totalsize,
         IsString(b.mem, b.off_dt_strings, b.size_dt_strings, x, n)
  PROVE  StringAt(b, x) = n
<1> DEFINE at == b.off_dt_strings + x
           l == Len(n)
           S == {p \in at .. b.totalsize - 1 : b.mem[p].x = 0}
           z == at + l
<1>1. /\ x \in Nat /\ at \in Nat /\ l \in Nat /\ z \in Nat /\ b.totalsize \in Nat
      /\ z < b.totalsize /\ z = at + l
  <2>1. /\ b.off_dt_strings \in Nat /\ b.size_dt_strings \in Nat /\ b.totalsize \in Nat
        /\ x \in Nat /\ x + Len(n) + 1 <= b.size_dt_strings /\ Len(n) \in Nat
    BY BlobFields DEF IsString
  <2> QED BY <2>1
<1>2. \A i \in 1 .. l + 1 : b.mem[at + i - 1].x = IF i <= l THEN n[i] ELSE 0
  BY DEF IsString
<1> HIDE DEF at, l, z
<1>3. z \in S
  <2>1. l + 1 \in 1 .. l + 1 /\ at + (l + 1) - 1 = z /\ ~(l + 1 <= l)  BY <1>1
  <2>2. b.mem[z].x = 0  BY <1>2, <2>1
  <2> QED BY <1>1, <2>2
<1>4. ASSUME NEW p \in S PROVE z <= p
  <2>1. SUFFICES ASSUME p < z PROVE FALSE  BY <1>1
  <2> DEFINE i == p - at + 1
  <2>2. i \in 1 .. l + 1 /\ i <= l /\ at + i - 1 = p /\ i \in 1 .. l  BY <1>1, <2>1
  <2> HIDE DEF i
  <2>3. b.mem[p].x = n[i]  BY <1>2, <2>2
  <2>4. n[i] # 0  BY <2>2 DEF l
  <2> QED BY <2>3, <2>4
<1>5. S \in SUBSET Nat  BY <1>1
<1> HIDE DEF S
<1>6. Lowest(S, b.totalsize) = z  BY <1>3, <1>4, <1>5, LowestIs
<1>7. StringAt(b, x) = [i \in 1 .. z - at |-> b.mem[at + i - 1].x]
  BY <1>6 DEF StringAt, at, S
<1>8. z - at = l  BY <1>1
<1>9. \A i \in 1 .. l : b.mem[at + i - 1].x = n[i]
  <2>1. \A i \in 1 .. l : i \in 1 .. l + 1 /\ i <= l  BY <1>1
  <2> QED BY <1>2, <2>1
<1>10. StringAt(b, x) = [i \in 1 .. l |-> n[i]]  BY <1>7, <1>8, <1>9
<1>11. n = [i \in 1 .. l |-> n[i]]  BY DEF l
<1> QED BY <1>10, <1>11

\* The header checks look at these fields alone.
LEMMA StillWritable ==
  ASSUME NEW b \in Blobs, RwCheckHeader(b) = 0, NEW g \in Blobs,
         g.magic = b.magic, g.version = b.version, g.totalsize = b.totalsize,
         g.off_mem_rsvmap = b.off_mem_rsvmap, g.off_dt_struct = b.off_dt_struct,
         g.size_dt_struct = b.size_dt_struct, g.off_dt_strings = b.off_dt_strings,
         DataSize(g) <= g.totalsize
  PROVE  RwCheckHeader(g) = 0
<1>1. CheckHeader(g) = CheckHeader(b)  BY DEF CheckHeader
<1>2. CheckHeader(b) >= 0 /\ CheckHeader(b) = 0
  BY DEF RwCheckHeader, Unless, CheckHeader, BADVERSION, BADSTATE, BADMAGIC
<1>3. ~Misordered(b, 1, b.size_dt_struct)
  BY <1>2 DEF RwCheckHeader, Unless, BADVERSION, BADLAYOUT
<1>4. ~Misordered(g, 1, g.size_dt_struct)
  <2>1. ~(g.totalsize < g.off_dt_strings + g.size_dt_strings)
    BY BlobFields DEF DataSize
  <2> QED BY <1>3, <2>1 DEF Misordered
<1>5. b.version = 17  BY Writable
<1> QED BY <1>1, <1>2, <1>4, <1>5 DEF RwCheckHeader, Unless

\* Strings are added behind the others.
LEMMA FindAddStringLemma ==
  ASSUME NEW b \in Blobs, NEW k \in Nat, NEW e \in Nat, Holds(b, k, e), RwCheckHeader(b) = 0,
         NEW name \in PropNames
  PROVE  LET s == FindAddString(b, name) IN
         /\ s.fdt \in Blobs /\ Holds(s.fdt, k, e) /\ RwCheckHeader(s.fdt) = 0
         /\ s.fdt.off_dt_struct = b.off_dt_struct
         /\ \A q \in Nat : q < b.off_dt_strings => s.fdt.mem[q] = b.mem[q]
         /\ s.err = 0 =>
              IsString(s.fdt.mem, s.fdt.off_dt_strings, s.fdt.size_dt_strings, s.at, name)
<1> DEFINE s == FindAddString(b, name)
           chars == Chars(name)
           w == Len(chars)
           z == DataSize(b)
           r == SpliceString(b, w)
           h == Splice(b, z, 0, w)
           g == Put(r.fdt, z, chars)
           str == b.off_dt_strings
           sl == b.size_dt_strings
<1>0. name \in Seq(Nat \ {0})  BY FdtEditAssumption
<1>1. CASE Found(b, name) # {}
  <2>1. s = [err |-> 0, fdt |-> b, at |-> Min(Found(b, name))]  BY <1>1 DEF FindAddString
  <2>2. Found(b, name) \in SUBSET Nat
    <3>1. \A x \in Found(b, name) : x \in Nat  BY <1>0, FoundIs DEF IsString
    <3> QED BY <3>1
  <2>3. Min(Found(b, name)) \in Found(b, name)  BY <1>1, <2>2, MinLemma
  <2>4. IsString(b.mem, b.off_dt_strings, b.size_dt_strings, Min(Found(b, name)), name)
    BY <1>0, <2>3, FoundIs
  <2> QED BY <2>1, <2>4
<1>2. CASE Found(b, name) = {}
  <2>1. /\ str \in Nat /\ sl \in Nat /\ z = str + sl /\ z <= b.totalsize /\ z <= MaxSize
        /\ MaxSize \in Nat /\ z \in Nat /\ b.totalsize \in 0 .. MaxSize
        /\ b.off_mem_rsvmap \in Nat /\ b.off_dt_struct \in Nat
        /\ b.off_mem_rsvmap + k + 1 <= b.off_dt_struct
        /\ b.off_dt_struct + e + 1 <= str
    <3>1. str \in Nat /\ sl \in Nat /\ b.totalsize \in 0 .. MaxSize
          /\ b.off_mem_rsvmap \in Nat /\ b.off_dt_struct \in Nat
      BY BlobFields
    <3> QED BY <3>1, RsvRoom
  <2>2. chars \in Seq(Cells) /\ w = Len(name) + 1 /\ w \in Nat /\ Len(name) \in Nat
        /\ \A i \in 1 .. w : chars[i].x = IF i <= Len(name) THEN name[i] ELSE 0
    BY <1>0, CharsLemma
  <2>3. s = [err |-> r.err, at |-> sl, fdt |-> IF r.err # 0 THEN b ELSE g]
    BY <1>2, <2>2 DEF FindAddString
  <2>4. r = IF h.err # 0 THEN h ELSE Done([h.fdt EXCEPT !.size_dt_strings = @ + w])
    BY DEF SpliceString, AndThen
  <2> HIDE DEF chars, w
  <2>5. SpliceLeaves(b, z, 0, w, h)
    <3>1. 0 \in Nat  OBVIOUS
    <3> HIDE DEF z
    <3> QED BY <2>1, <2>2, <3>1, SpliceEffect DEF z
  <2> HIDE DEF h, s, z, g
  <2>6. CASE r.err # 0
    <3>1. s.fdt = b /\ s.err # 0  BY <2>3, <2>6
    <3> QED BY <3>1 DEF s
  <2>7. CASE r.err = 0
    <3>1. h.err = 0  BY <2>4, <2>7
    <3>2. z + 0 <= DataSize(b) /\ DataSize(b) - 0 + w <= b.totalsize
      BY <2>5, <3>1 DEF SpliceLeaves
    <3>3. z + w <= b.totalsize  BY <2>1, <2>2, <3>2 DEF z
    <3>4. PICK m \in [Memory -> Cells] :
            /\ h.fdt = [b EXCEPT !.mem = m]
            /\ \A q \in Memory : q < z + w => m[q] = b.mem[q]
      BY <2>5, <3>1 DEF SpliceLeaves
    <3> DEFINE f == r.fdt
    <3>5. /\ f \in Blobs /\ f.mem = m
          /\ f.magic = b.magic /\ f.version = b.version /\ f.totalsize = b.totalsize
          /\ f.off_mem_rsvmap = b.off_mem_rsvmap /\ f.off_dt_struct = b.off_dt_struct
          /\ f.size_dt_struct = b.size_dt_struct /\ f.off_dt_strings = b.off_dt_strings
          /\ f.size_dt_strings = sl + w
      <4> DEFINE v == h.fdt
      <4>1. /\ v \in Blobs /\ v.mem = m
            /\ v.magic = b.magic /\ v.version = b.version /\ v.totalsize = b.totalsize
            /\ v.off_mem_rsvmap = b.off_mem_rsvmap /\ v.off_dt_struct = b.off_dt_struct
            /\ v.size_dt_struct = b.size_dt_struct /\ v.off_dt_strings = b.off_dt_strings
            /\ v.size_dt_strings = b.size_dt_strings
        BY <3>4, MemEdit
      <4>2. f = [v EXCEPT !.size_dt_strings = @ + w]  BY <2>4, <3>1 DEF Done
      <4> HIDE DEF v, f
      <4>3. sl + w \in Nat  BY SMTT(40), <2>1, <2>2
      <4>4. v.size_dt_strings + w = sl + w  BY <4>1
      <4> QED BY <4>1, <4>2, <4>3, <4>4 DEF Blobs
    <3> HIDE DEF f
    <3>6. /\ g \in Blobs /\ SameHeader(f, g)
          /\ \A q \in Memory : q \in z .. z + w - 1 => g.mem[q] = chars[q - z + 1]
          /\ \A q \in Memory : q \notin z .. z + w - 1 => g.mem[q] = f.mem[q]
      <4>1. /\ Put(f, z, chars) \in Blobs /\ SameHeader(f, Put(f, z, chars))
            /\ \A q \in Memory : q \in z .. z + Len(chars) - 1 =>
                 Put(f, z, chars).mem[q] = chars[q - z + 1]
            /\ \A q \in Memory : q \notin z .. z + Len(chars) - 1 =>
                 Put(f, z, chars).mem[q] = f.mem[q]
        <5>1. PutMade(f, z, chars, Put(f, z, chars))  BY <2>1, <2>2, <3>5, PutHeader
        <5> QED BY <5>1 DEF PutMade
      <4> QED BY <4>1 DEF g, f, w
    <3>7. \A q \in Nat : q < z => g.mem[q] = b.mem[q]
      <4>1. \A q \in Nat : q < z => q \in Memory /\ q < z + w /\ q \notin z .. z + w - 1
        BY SMTT(40), <2>1, <2>2 DEF Memory
      <4> QED BY <3>4, <3>5, <3>6, <4>1
    <3>8. \A i \in 1 .. w : g.mem[z + i - 1] = chars[i]
      <4>0. z \in Nat /\ w \in Nat /\ z + w <= 2 * MaxSize /\ MaxSize \in Nat
        BY SMTT(40), <2>1, <2>2, <3>3
      <4>1. \A i \in 1 .. w : z + i - 1 \in Memory /\ z + i - 1 \in z .. z + w - 1
                              /\ (z + i - 1) - z + 1 = i
        BY <4>0 DEF Memory
      <4> QED BY <3>6, <4>1
    <3>9. IsString(g.mem, str, sl + w, sl, name)
      <4>1. \A i \in 1 .. Len(name) + 1 : str + sl + i - 1 = z + i - 1 /\ i \in 1 .. w  BY <2>1, <2>2
      <4>2. \A i \in 1 .. Len(name) + 1 :
              g.mem[str + sl + i - 1].x = IF i <= Len(name) THEN name[i] ELSE 0
        BY <2>2, <3>8, <4>1
      <4>3. sl \in Nat /\ sl + Len(name) + 1 <= sl + w  BY SMTT(40), <2>1, <2>2
      <4> QED BY <4>2, <4>3 DEF IsString
    <3> DEFINE st == b.off_dt_struct
               v == st + e
               rsv == b.off_mem_rsvmap
    <3>10. Named(g.mem, st, v, str, sl + w)
      <4>1. Named(b.mem, st, v, str, sl)  BY DEF Holds
      <4>2. st \in Nat /\ v \in Nat /\ v <= str  BY <2>1
      <4> HIDE DEF st, v, str, sl
      <4>3. ASSUME NEW q \in st .. v - 1, g.mem[q].tag = "prop"
            PROVE  \E n \in PropNames : IsString(g.mem, str, sl + w, g.mem[q].x, n)
        <5>1. q \in Nat /\ q < z  BY <2>1, <4>2
        <5>2. g.mem[q] = b.mem[q]  BY <3>7, <5>1
        <5>3. PICK n \in PropNames : IsString(b.mem, str, sl, b.mem[q].x, n)
          BY <4>1, <4>3, <5>2 DEF Named
        <5>4. n \in Seq(Nat \ {0})  BY FdtEditAssumption
        <5>5. \A i \in str .. str + sl - 1 : g.mem[i] = b.mem[i]
          <6>1. \A i \in str .. str + sl - 1 : i \in Nat /\ i < z  BY <2>1
          <6> QED BY <3>7, <6>1
        <5>6. IsString(g.mem, str, sl, g.mem[q].x, n)
          <6> DEFINE x == b.mem[q].x
          <6>1. IsString(b.mem, str, sl, x, n)  BY <5>3
          <6> HIDE DEF x
          <6>2. IsString(g.mem, str, sl, x, n)  BY <2>1, <5>4, <5>5, <6>1, StringsStay
          <6> QED BY <5>2, <6>2 DEF x
        <5>7. IsString(g.mem, str, sl + w, g.mem[q].x, n)
          <6>1. g.mem[q].x + Len(n) + 1 <= sl + w
            <7>1. g.mem[q].x \in Nat /\ g.mem[q].x + Len(n) + 1 <= sl  BY <5>6 DEF IsString
            <7>2. Len(n) \in Nat  BY <5>4
            <7> QED BY SMTT(40), <2>1, <2>2, <7>1, <7>2
          <6> QED BY <5>6, <6>1 DEF IsString
        <5> QED BY <5>7
      <4> QED BY <4>3 DEF Named
    <3>11. Run(g.mem, st, v)
      <4>1. Run(b.mem, st, v)  BY DEF Holds
      <4>2. st \in Nat /\ v \in Nat /\ st <= v /\ 0 \in Int /\ st + 0 = st /\ v + 0 = v
            /\ \A q \in st .. v - 1 : q + 0 = q /\ q \in Nat /\ q < z
        BY <2>1
      <4> HIDE DEF st, v
      <4>3. \A q \in st .. v - 1 : g.mem[q + 0] = b.mem[q]  BY <3>7, <4>2
      <4>4. st + 0 \in Nat  BY <4>2
      <4>5. Run(g.mem, st + 0, v + 0)  BY <4>1, <4>2, <4>3, <4>4, RunMoved
      <4> QED BY <4>2, <4>5
    <3>12. RsvMap(g.mem, rsv, k) /\ g.mem[v].tag = "end"
      <4>1. RsvMap(b.mem, rsv, k) /\ b.mem[v].tag = "end"  BY DEF Holds
      <4>2. /\ v \in Nat /\ v < z /\ rsv + k \in Nat /\ rsv + k < z
            /\ \A i \in 0 .. k - 1 : rsv + i \in Nat /\ rsv + i < z
        BY <2>1
      <4> HIDE DEF v, rsv
      <4> QED BY <3>7, <4>1, <4>2 DEF RsvMap
    <3>13. /\ g.magic = b.magic /\ g.version = b.version /\ g.totalsize = b.totalsize
           /\ g.off_mem_rsvmap = rsv /\ g.off_dt_struct = st
           /\ g.size_dt_struct = b.size_dt_struct /\ g.off_dt_strings = str
           /\ g.size_dt_strings = sl + w
      BY <3>5, <3>6 DEF SameHeader
    <3>14. /\ b.version >= 17 => b.size_dt_struct = e + 1
           /\ RsvStart <= rsv /\ RsvStart <= st /\ RsvStart <= str
      BY DEF Holds
    <3> HIDE DEF st, v, rsv, str, sl
    <3>15. Holds(g, k, e)
      <4>1. /\ rsv + k + 1 <= b.totalsize /\ st + e + 1 <= b.totalsize
            /\ str + (sl + w) <= b.totalsize /\ rsv + k + 1 <= st /\ rsv + k + 1 <= str
            /\ st + e + 1 <= str
        <5>1. /\ rsv \in Nat /\ st \in Nat /\ rsv + k + 1 <= st /\ st + e + 1 <= str
          BY <2>1 DEF rsv, st
        <5>2. /\ str \in Nat /\ sl \in Nat /\ w \in Nat /\ (str + sl) + w <= b.totalsize
              /\ b.totalsize \in Nat
          BY <2>1, <2>2, <3>3
        <5> QED BY <5>1, <5>2
      <4> QED BY <3>10, <3>11, <3>12, <3>13, <3>14, <4>1 DEF Holds, Disjoint, v
    <3>16. RwCheckHeader(g) = 0
      <4>1. DataSize(g) <= g.totalsize  BY <2>1, <2>2, <3>3, <3>13 DEF DataSize
      <4> QED BY <3>6, <3>13, <4>1, StillWritable DEF rsv, st, str
    <3>17. s.fdt = g /\ s.at = sl  BY <2>3, <2>7
    <3>18. \A q \in Nat : q < str => g.mem[q] = b.mem[q]
      <4>1. \A q \in Nat : q < str => q < z  BY <2>1
      <4> QED BY <3>7, <4>1
    <3> QED BY <3>6, <3>9, <3>13, <3>15, <3>16, <3>17, <3>18 DEF s, st, str
  <2> QED BY <2>6, <2>7
<1> QED BY <1>1, <1>2
-----------------------------------------------------------------------------
\* The blob f is b with a gap behind the header of a property, cell a of the
\* structure, whose value has len bytes: what is still in it, and that the value's
\* cells put it in order.
Opened(b, a, x, len, f) ==
  /\ f \in Blobs /\ f.off_dt_struct = b.off_dt_struct
  /\ f.version = 17 /\ a < f.size_dt_struct
  /\ b.off_dt_struct + f.size_dt_struct <= f.off_dt_strings
  /\ f.off_dt_strings + f.size_dt_strings <= f.totalsize
  /\ f.mem[b.off_dt_struct + a] = Cell("prop", x, len)
  /\ \A q \in Nat : q < b.off_dt_struct + a => f.mem[q] = b.mem[q]
  /\ \A y : \A m \in Seq(Nat \ {0}) :
       IsString(b.mem, b.off_dt_strings, b.size_dt_strings, y, m) =>
         IsString(f.mem, f.off_dt_strings, f.size_dt_strings, y, m)
  /\ \A cells \in Seq(Cells) :
       Len(cells) = Units(len) /\ (\A i \in 1 .. Len(cells) : cells[i].tag = "data") =>
         Fine(Put(f, b.off_dt_struct + a + 1, cells))

LEMMA Opening ==
  ASSUME NEW b \in Blobs, NEW k \in Nat, NEW e \in Nat, Holds(b, k, e), RwCheckHeader(b) = 0,
         NEW a \in Nat, NEW i \in Nat, NEW c \in Nat, a <= i, i <= c, c <= e,
         NEW newlen \in Nat, NEW len \in Nat, i + newlen = a + 1 + Units(len),
         Run(b.mem, b.off_dt_struct, b.off_dt_struct + a),
         Run(b.mem, b.off_dt_struct + c, b.off_dt_struct + e),
         NEW x \in Nat, NEW n \in PropNames,
         IsString(b.mem, b.off_dt_strings, b.size_dt_strings, x, n),
         SpliceStruct(b, i, c - i, newlen).err = 0
  PROVE  Opened(b, a, x, len, Put(SpliceStruct(b, i, c - i, newlen).fdt,
                                  b.off_dt_struct + a, <<Cell("prop", x, len)>>))
<1> DEFINE st == b.off_dt_struct
           p == st + a
           at == p + 1
           u == Units(len)
           d == newlen - (c - i)
           r == SpliceStruct(b, i, c - i, newlen)
           h == r.fdt
           hdr == <<Cell("prop", x, len)>>
           f == Put(h, p, hdr)
           str == b.off_dt_strings
           sl == b.size_dt_strings
<1>1. /\ st \in Nat /\ str \in Nat /\ sl \in Nat /\ b.totalsize \in Nat
      /\ b.size_dt_struct = e + 1 /\ DataSize(b) = str + sl /\ st + e + 1 <= str
      /\ DataSize(b) \in Nat /\ b.totalsize <= MaxSize /\ MaxSize \in Nat
  <2>1. /\ st \in Nat /\ str \in Nat /\ sl \in Nat /\ b.totalsize \in 0 .. MaxSize
    BY BlobFields
  <2> QED BY <2>1, RsvRoom
<1>2. u \in Nat /\ p \in Nat /\ at = p + 1 /\ d \in Int /\ i + newlen = a + 1 + u
      /\ st + i + newlen = at + u /\ p = st + a
  <2>1. u \in Nat  BY UnitsLemma
  <2> HIDE DEF u
  <2>2. i + newlen = a + 1 + u  BY DEF u
  <2> QED BY <1>1, <2>1, <2>2
<1>3. StructLeaves(b, i, c - i, newlen, r)
  <2> DEFINE l == c - i
  <2>1. l \in Nat /\ l <= b.size_dt_struct  BY <1>1
  <2> HIDE DEF l
  <2>2. StructLeaves(b, i, l, newlen, SpliceStruct(b, i, l, newlen))  BY <2>1, SpliceStructEffect
  <2> QED BY <2>2 DEF l
<1> HIDE DEF d, h, f, r, p, at, u
<1>4. /\ h \in Blobs /\ Resized(b, h, d) /\ DataSize(h) <= b.totalsize
      /\ \A q \in Memory : q < at + u => h.mem[q] = b.mem[q]
      /\ \A q \in st + c .. DataSize(b) - 1 : h.mem[q + d] = b.mem[q]
  <2>1. r.err = 0  BY DEF r
  <2>2. /\ h \in Blobs /\ Resized(b, h, newlen - (c - i)) /\ DataSize(h) <= b.totalsize
        /\ \A q \in Memory : q < st + i + newlen => h.mem[q] = b.mem[q]
        /\ \A q \in st + i + (c - i) .. DataSize(b) - 1 : h.mem[q + newlen - (c - i)] = b.mem[q]
    BY <1>3, <2>1 DEF StructLeaves, h
  <2>3. \A q \in Memory : q < at + u => h.mem[q] = b.mem[q]  BY <1>2, <2>2
  <2>4. ASSUME NEW q \in st + c .. DataSize(b) - 1 PROVE h.mem[q + d] = b.mem[q]
    <3>1. q \in st + i + (c - i) .. DataSize(b) - 1 /\ q + newlen - (c - i) = q + d
      BY <1>1 DEF d
    <3>2. h.mem[q + newlen - (c - i)] = b.mem[q]  BY <2>2, <3>1
    <3> QED BY <3>1, <3>2
  <2> QED BY <2>2, <2>3, <2>4 DEF d
<1>5. hdr \in Seq(Cells) /\ Len(hdr) = 1 /\ hdr[1] = Cell("prop", x, len)
  BY DEF Cells, Cell, Tags
<1> HIDE DEF hdr
<1>6. /\ f \in Blobs /\ SameHeader(h, f)
      /\ \A q \in Memory : q \in p .. p + 1 - 1 => f.mem[q] = hdr[q - p + 1]
      /\ \A q \in Memory : q \notin p .. p + 1 - 1 => f.mem[q] = h.mem[q]
  <2>1. /\ Put(h, p, hdr) \in Blobs /\ SameHeader(h, Put(h, p, hdr))
        /\ \A q \in Memory : q \in p .. p + Len(hdr) - 1 => Put(h, p, hdr).mem[q] = hdr[q - p + 1]
        /\ \A q \in Memory : q \notin p .. p + Len(hdr) - 1 => Put(h, p, hdr).mem[q] = h.mem[q]
    <3>1. PutMade(h, p, hdr, Put(h, p, hdr))  BY <1>2, <1>4, <1>5, PutHeader
    <3> QED BY <3>1 DEF PutMade
  <2> QED BY <1>5, <2>1 DEF f
<1>7. /\ f.off_dt_struct = st /\ f.version = b.version
      /\ f.size_dt_struct = b.size_dt_struct + d /\ f.off_dt_strings = str + d
      /\ f.size_dt_strings = sl /\ f.totalsize = b.totalsize
  BY <1>4, <1>6 DEF SameHeader, Resized
<1>8. /\ b.version = 17 /\ at + u <= st + f.size_dt_struct /\ a < f.size_dt_struct
      /\ st + f.size_dt_struct <= str + d /\ (str + d) + sl <= b.totalsize
      /\ at + u <= str + d
  <2>1. b.version = 17  BY Writable
  <2>2. f.size_dt_struct = (e - c) + 1 + (a + 1 + u)
    <3>1. d = (a + 1 + u) - c  BY <1>2 DEF d
    <3> HIDE DEF d
    <3> QED BY <1>1, <1>7, <3>1, <1>2
  <2>3. (str + d) + sl <= b.totalsize
    <3>1. h.off_dt_strings = str + d /\ h.size_dt_strings = sl  BY <1>4 DEF Resized
    <3> QED BY <1>4, <3>1 DEF DataSize
  <2>4. f.size_dt_struct = e + 1 + d  BY <1>1, <1>7
  <2>5. d \in Int /\ f.size_dt_struct \in Int  BY <1>1, <1>2, <2>4
  <2>6. st + f.size_dt_struct <= str + d  BY <1>1, <2>4, <2>5
  <2>7. at + u <= st + f.size_dt_struct /\ a < f.size_dt_struct
    <3>1. at = st + a + 1  BY <1>2
    <3> QED BY <1>1, <1>2, <2>2, <3>1
  <2>8. at + u <= str + d
    <3>1. at + u \in Int /\ str + d \in Int /\ st + f.size_dt_struct \in Int  BY <1>1, <1>2, <2>5
    <3> QED BY <2>6, <2>7, <3>1
  <2> QED BY <2>1, <2>3, <2>6, <2>7, <2>8
<1>9. \A q \in Nat : q < at + u => q \in Memory
  <2>1. at + u <= MaxSize  BY <1>1, <1>2, <1>8
  <2> QED BY <1>1, <1>2, <2>1 DEF Memory
<1>10. f.mem[p] = Cell("prop", x, len)
  <2>1. p \in Memory /\ p \in p .. p + 1 - 1 /\ p - p + 1 = 1  BY <1>2, <1>9
  <2> QED BY <1>5, <1>6, <2>1
<1>11. \A q \in Nat : q < p => f.mem[q] = b.mem[q]
  <2>1. \A q \in Nat : q < p => q \in Memory /\ q \notin p .. p + 1 - 1 /\ q < at + u  BY <1>2, <1>9
  <2> QED BY <1>4, <1>6, <2>1
<1>12. \A q \in str .. str + sl - 1 : f.mem[q + d] = b.mem[q]
  <2>1. ASSUME NEW q \in str .. str + sl - 1
        PROVE  /\ q \in st + c .. DataSize(b) - 1 /\ q + d \in Memory
               /\ q + d \notin p .. p + 1 - 1
    <3>1. q + d >= at + u /\ q + d < b.totalsize /\ q + d \in Nat  BY <1>1, <1>2, <1>8
    <3>2. q \in st + c .. DataSize(b) - 1  BY <1>1
    <3>3. q + d \in Memory  BY <1>1, <3>1 DEF Memory
    <3>4. q + d \notin p .. p + 1 - 1  BY <1>2, <3>1
    <3> QED BY <3>2, <3>3, <3>4
  <2> QED BY <1>4, <1>6, <2>1
<1>13. ASSUME NEW y, NEW m \in Seq(Nat \ {0}), IsString(b.mem, str, sl, y, m)
       PROVE  IsString(f.mem, str + d, sl, y, m)
  <2>1. m \in Seq(Nat)  OBVIOUS
  <2> HIDE DEF str, sl
  <2> QED BY <1>1, <1>2, <1>12, <1>13, <2>1, IsStringMoved
<1>14. \A q \in p + 1 .. p + u : q \in Memory /\ q \in at .. at + u - 1 /\ q - at + 1 \in 1 .. u
  BY <1>2, <1>9
<1>15. p \in Memory /\ p \notin at .. at + u - 1  BY <1>2, <1>9
<1>16. \A q \in Memory : q < p \/ q >= p + 1 + u => q \notin at .. at + u - 1 /\ q \notin p .. p + 1 - 1
  BY <1>2 DEF Memory
<1>17. ASSUME NEW q \in str .. str + sl - 1
       PROVE  q + d \in Memory /\ q + d \notin at .. at + u - 1
  <2>1. q + d >= at + u /\ q + d < b.totalsize /\ q + d \in Nat  BY <1>1, <1>2, <1>8
  <2>2. q + d \in Memory  BY <1>1, <2>1 DEF Memory
  <2>3. q + d \notin at .. at + u - 1  BY <1>2, <2>1
  <2> QED BY <2>2, <2>3
<1>17a. ASSUME NEW g \in Blobs, SameHeader(SpliceStruct(b, i, c - i, newlen).fdt, g),
               \A q \in Memory : q < b.off_dt_struct + a \/ q >= b.off_dt_struct + i + newlen =>
                 g.mem[q] = SpliceStruct(b, i, c - i, newlen).fdt.mem[q],
               Run(g.mem, b.off_dt_struct + a, b.off_dt_struct + i + newlen),
               Named(g.mem, b.off_dt_struct + a, b.off_dt_struct + i + newlen,
                     g.off_dt_strings, g.size_dt_strings)
        PROVE  Fine(g)
  <2> HIDE DEF st, str, sl
  <2> QED BY <1>17a, SpliceThen
<1>18. ASSUME NEW cells \in Seq(Cells), Len(cells) = u,
              \A j \in 1 .. Len(cells) : cells[j].tag = "data"
       PROVE  Fine(Put(f, at, cells))
  <2> DEFINE g == Put(f, at, cells)
  <2>1. /\ g \in Blobs /\ SameHeader(f, g)
        /\ \A q \in Memory : q \in at .. at + u - 1 => g.mem[q] = cells[q - at + 1]
        /\ \A q \in Memory : q \notin at .. at + u - 1 => g.mem[q] = f.mem[q]
    <3>1. at \in Nat  BY SMTT(40), <1>2
    <3>2. /\ Put(f, at, cells) \in Blobs /\ SameHeader(f, Put(f, at, cells))
          /\ \A q \in Memory : q \in at .. at + Len(cells) - 1 =>
               Put(f, at, cells).mem[q] = cells[q - at + 1]
          /\ \A q \in Memory : q \notin at .. at + Len(cells) - 1 =>
               Put(f, at, cells).mem[q] = f.mem[q]
      <4>1. PutMade(f, at, cells, Put(f, at, cells))  BY <1>6, <3>1, PutHeader
      <4> QED BY <4>1 DEF PutMade
    <3> QED BY <1>18, <3>2
  <2> HIDE DEF g
  <2>2. SameHeader(h, g)  BY <1>6, <2>1 DEF SameHeader
  <2>3. \A q \in p + 1 .. p + u : g.mem[q].tag = "data"
    <3> QED BY <1>18, <1>14, <2>1
  <2>4. g.mem[p] = Cell("prop", x, len)
    <3> QED BY <1>10, <1>15, <2>1
  <2>5. g.mem[p].tag = "prop" /\ g.mem[p].x = x /\ Units(g.mem[p].y) = u
    BY <2>4 DEF Cell, u
  <2>6. Run(g.mem, p, p + 1 + u)  BY <1>2, <2>3, <2>5, PropElem
  <2>7. \A q \in Memory : q < p \/ q >= p + 1 + u => g.mem[q] = h.mem[q]
    <3> QED BY <1>6, <1>16, <2>1
  <2>8. Named(g.mem, p, p + 1 + u, str + d, sl)
    <3>1. \A q \in str .. str + sl - 1 : g.mem[q + d] = b.mem[q]
      <4> QED BY <1>12, <1>17, <2>1
    <3>2. n \in Seq(Nat)  BY FdtEditAssumption
    <3> HIDE DEF str, sl
    <3>3. IsString(b.mem, str, sl, x, n)  BY DEF str, sl
    <3>4. IsString(g.mem, str + d, sl, x, n)  BY <1>1, <1>2, <3>1, <3>2, <3>3, IsStringMoved
    <3>5. IsString(g.mem, str + d, sl, g.mem[p].x, n)  BY <2>5, <3>4
    <3> QED BY <1>2, <2>3, <3>5, PropNamed
  <2>9. g.off_dt_strings = str + d /\ g.size_dt_strings = sl  BY <1>7, <2>1 DEF SameHeader
  <2>10. st + i + newlen = p + 1 + u /\ st + a = p  BY <1>2
  <2>11. /\ Run(g.mem, st + a, st + i + newlen)
         /\ Named(g.mem, st + a, st + i + newlen, g.off_dt_strings, g.size_dt_strings)
         /\ \A q \in Memory : q < st + a \/ q >= st + i + newlen => g.mem[q] = h.mem[q]
    BY <2>6, <2>7, <2>8, <2>9, <2>10
  <2>12. SpliceStruct(b, i, c - i, newlen).fdt = h  BY DEF h, r
  <2>13. Fine(g)
    <3>1. g \in Blobs  BY <2>1
    <3>2. /\ SameHeader(SpliceStruct(b, i, c - i, newlen).fdt, g)
          /\ \A q \in Memory : q < b.off_dt_struct + a \/ q >= b.off_dt_struct + i + newlen =>
               g.mem[q] = SpliceStruct(b, i, c - i, newlen).fdt.mem[q]
      BY <2>2, <2>11, <2>12
    <3>3. /\ Run(g.mem, b.off_dt_struct + a, b.off_dt_struct + i + newlen)
          /\ Named(g.mem, b.off_dt_struct + a, b.off_dt_struct + i + newlen,
                   g.off_dt_strings, g.size_dt_strings)
      BY <2>11
    <3> QED BY <3>1, <3>2, <3>3, <1>17a
  <2> QED BY <2>13 DEF g
<1>19. /\ f \in Blobs /\ f.version = 17 /\ st + f.size_dt_struct <= f.off_dt_strings
       /\ f.off_dt_strings + f.size_dt_strings <= f.totalsize
  BY <1>6, <1>7, <1>8
<1>20. \A y : \A m \in Seq(Nat \ {0}) :
         IsString(b.mem, str, sl, y, m) => IsString(f.mem, f.off_dt_strings, f.size_dt_strings, y, m)
  BY <1>7, <1>13
<1>21. \A cells \in Seq(Cells) :
         Len(cells) = Units(len) /\ (\A j \in 1 .. Len(cells) : cells[j].tag = "data") =>
           Fine(Put(f, st + a + 1, cells))
  BY <1>18 DEF u, at, p
<1>22. Opened(b, a, x, len, f)
  BY <1>7, <1>8, <1>10, <1>11, <1>19, <1>20, <1>21 DEF Opened, p
<1> QED BY <1>22 DEF f, h, r, p, hdr
-----------------------------------------------------------------------------
\* The first property behind the node at o with that name is the one found.
LEMMA PropertyFound ==
  ASSUME NEW f \in Blobs, f.version = 17,
         NEW o \in Nat, NEW n \in Nat, NEW q \in Nat, o < n, n <= q, q < f.size_dt_struct,
         At(f, o).tag = "begin", Elem(f.mem, f.off_dt_struct + o, f.off_dt_struct + n),
         \A p \in 0 .. q : At(f, p).tag # "end",
         \A p \in o + 1 .. q : At(f, p).tag \notin {"begin", "end_node"},
         At(f, q).tag = "prop", NEW name, StringAt(f, At(f, q).x) = name,
         \A p \in o + 1 .. q - 1 : At(f, p).tag = "prop" => StringAt(f, At(f, p).x) # name
  PROVE  GetProperty(f, o, name) = q
<1> DEFINE size == f.size_dt_struct
           E == {p \in 0 .. size - 1 : At(f, p).tag = "end"}
           end == Lowest(E, size)
           T == {p \in Properties(f, o) : StringAt(f, At(f, p).x) = name}
<1>1. Size(f) = size /\ size \in Nat  BY BlobFields DEF Size
<1>2. End(f) = end  BY <1>1 DEF End
<1>3. end \in Nat /\ q < end
  <2>1. E \in SUBSET Nat  OBVIOUS
  <2>2. \A p \in E : p \in 0 .. size - 1 /\ At(f, p).tag = "end"  OBVIOUS
  <2> HIDE DEF E
  <2>3. CASE E = {}
    <3>1. end = size  BY <2>3 DEF Lowest
    <3> QED BY <1>1, <3>1
  <2>4. CASE E # {}
    <3>1. end \in E  BY <2>1, <2>4, LowestLemma
    <3> HIDE DEF end
    <3>2. end \in Nat /\ end \notin 0 .. q  BY <1>1, <2>2, <3>1
    <3> QED BY <3>2
  <2> QED BY <2>3, <2>4
<1>4. ~(CheckNodeOffset(f, o) < 0)
  <2>1. NextTag(f, o) = n /\ Tag(f, o) = At(f, o).tag
    <3>1. n <= Size(f) /\ Size(f) \in Int  BY <1>1
    <3> QED BY <3>1, NextTagAt
  <2> QED BY <2>1 DEF CheckNodeOffset, Checked, Else
<1> HIDE DEF end
<1>5. q \in T
  <2>1. q \in o + 1 .. End(f) - 1  BY <1>2, <1>3
  <2> QED BY <2>1 DEF Properties, Tagged
<1>6. ASSUME NEW p \in T PROVE q <= p
  <2>1. p \in o + 1 .. End(f) - 1 /\ At(f, p).tag = "prop" /\ StringAt(f, At(f, p).x) = name
    BY DEF Properties, Tagged
  <2>2. p \in Nat /\ p >= o + 1  BY <1>2, <1>3, <2>1
  <2>3. ~(p \in o + 1 .. q - 1)  BY <2>1
  <2> QED BY <2>2, <2>3
<1>7. T \in SUBSET Nat
  <2>1. \A p \in Properties(f, o) : p \in o + 1 .. End(f) - 1  BY DEF Properties, Tagged
  <2> QED BY <1>2, <1>3, <2>1
<1> HIDE DEF T
<1>8. Lowest(T, NOTFOUND) = q  BY <1>5, <1>6, <1>7, LowestIs
<1> QED BY <1>4, <1>8 DEF GetProperty, T

\* Room for a value leaves an error and a blob in order, or the blob in which the
\* value's cells are put behind the property that is found.
RoomLeaves(r, o, name, len) ==
  IF r.err # 0 THEN Fine(r.fdt)
  ELSE \A cells \in Seq(Cells) :
         Len(cells) = Units(len) /\ (\A i \in 1 .. Len(cells) : cells[i].tag = "data") =>
           Fine(Put(r.fdt, ValueStart(r.fdt, o, name), cells))

\* The same room, as the splice that makes it.
RoomIs(b, r, o, name, a, i, c, newlen, x, len) ==
  LET s == SpliceStruct(b, i, c - i, newlen) IN
  IF s.err # 0 THEN r = s
  ELSE /\ r = Done(Put(s.fdt, b.off_dt_struct + a, <<Cell("prop", x, len)>>))
       /\ ValueStart(r.fdt, o, name) = b.off_dt_struct + a + 1

LEMMA ResizeThen ==
  ASSUME NEW b \in Blobs, NEW k \in Nat, NEW e \in Nat, Holds(b, k, e), RwCheckHeader(b) = 0,
         NEW o \in Nat, NEW name \in PropNames, NEW len \in Nat,
         NEW q, q = GetProperty(b, o, name), q \in o + 1 .. e - 1
  PROVE  /\ RoomLeaves(ResizeProperty(b, q, len), o, name, len)
         /\ RoomIs(b, ResizeProperty(b, q, len), o, name, q, q + 1, q + 1 + Units(At(b, q).y),
                   Units(len), At(b, q).x, len)
<1> DEFINE st == b.off_dt_struct
           x == At(b, q).x
           y == At(b, q).y
           i == q + 1
           c == i + Units(y)
           n == NextTag(b, o)
           r == SpliceStruct(b, i, c - i, Units(len))
           f == Put(r.fdt, st + q, <<Cell("prop", x, len)>>)
<1>1. /\ ~(CheckNodeOffset(b, o) < 0) /\ q \in Properties(b, o)
      /\ StringAt(b, x) = name /\ At(b, q).tag = "prop"
      /\ \A p \in Properties(b, o) : StringAt(b, At(b, p).x) = name => q <= p
  <2>1. q # BADOFFSET /\ q # NOTFOUND  BY DEF BADOFFSET, NOTFOUND
  <2>2. \/ q = BADOFFSET \/ q = NOTFOUND
        \/ /\ ~(CheckNodeOffset(b, o) < 0)
           /\ q \in Properties(b, o) /\ StringAt(b, At(b, q).x) = name
           /\ \A p \in Properties(b, o) : StringAt(b, At(b, p).x) = name => q <= p
           /\ At(b, q).tag = "prop"
    BY PropertyAt
  <2> QED BY <2>1, <2>2
<1>2. q \in 0 .. e - 1 /\ q \in Nat /\ st \in Nat  BY BlobFields
<1>3. NextTag(b, q) = c /\ Units(y) \in Nat /\ c <= e
  <2>1. NextTag(b, q) = q + 1 + Units(y) /\ Units(y) \in Nat /\ q + 1 + Units(y) <= e
    BY <1>1, <1>2, PropertyEnds
  <2> QED BY <2>1
<1>4. x \in Nat /\ Units(len) \in Nat
  BY <1>1, <1>2, ValueLemma, UnitsLemma
<1>5. Run(b.mem, st, st + q) /\ Run(b.mem, st + c, st + e)
  <2>1. /\ Run(b.mem, st, st + q) /\ Run(b.mem, st + NextTag(b, q), st + e)
    BY <1>1, <1>2, TagAt DEF Opens
  <2> QED BY <1>3, <2>1
<1>6. c - i = Units(y) /\ c \in Nat /\ i \in Nat /\ q <= i /\ i <= c /\ i + Units(len) = q + 1 + Units(len)
  BY <1>2, <1>3
<1>7. ResizeProperty(b, q, len) = IF r.err # 0 THEN r ELSE Done(f)
  BY <1>6 DEF ResizeProperty, AndThen
\* Each property's string, as it is in memory and as it is read.
<1>8. ASSUME NEW p \in 0 .. e - 1, At(b, p).tag = "prop"
      PROVE  \E m \in PropNames :
               /\ IsString(b.mem, b.off_dt_strings, b.size_dt_strings, At(b, p).x, m)
               /\ StringAt(b, At(b, p).x) = m
  <2> DEFINE s == st + p
             t == st + e
             z == At(b, p).x
  <2>1. s \in st .. t - 1 /\ b.mem[s] = At(b, p)  BY <1>2 DEF At
  <2>2. Named(b.mem, st, t, b.off_dt_strings, b.size_dt_strings)  BY DEF Holds
  <2>3. b.mem[s].tag = "prop"  BY <1>8, <2>1
  <2> HIDE DEF s, t, st
  <2>4. PICK m \in PropNames :
          IsString(b.mem, b.off_dt_strings, b.size_dt_strings, b.mem[s].x, m)
    BY <2>1, <2>2, <2>3 DEF Named
  <2>5. IsString(b.mem, b.off_dt_strings, b.size_dt_strings, z, m)  BY <2>1, <2>4
  <2>6. m \in Seq(Nat \ {0})  BY FdtEditAssumption
  <2>7. b.off_dt_strings + b.size_dt_strings <= b.totalsize  BY DEF Holds
  <2> HIDE DEF z
  <2>8. StringAt(b, z) = m  BY <2>5, <2>6, <2>7, StringAtIs
  <2> QED BY <2>5, <2>8 DEF z
<1>9. IsString(b.mem, b.off_dt_strings, b.size_dt_strings, x, name)
  BY <1>1, <1>2, <1>8
<1> HIDE DEF r, f, c, i, x, y, n, st
<1>10. CASE r.err # 0
  <2>1. StructLeaves(b, i, c - i, Units(len), r)
    <3> DEFINE l == c - i
               w == Units(len)
    <3>1. l \in Nat /\ l <= b.size_dt_struct /\ w \in Nat
      <4>1. b.size_dt_struct = e + 1  BY RsvRoom
      <4> QED BY <1>3, <1>4, <1>6, <4>1
    <3> HIDE DEF l, w
    <3>2. StructLeaves(b, i, l, w, SpliceStruct(b, i, l, w))  BY <1>6, <3>1, SpliceStructEffect
    <3> QED BY <3>2 DEF l, w, r
  <2>2. r.fdt = b  BY <1>10, <2>1 DEF StructLeaves
  <2>3. ResizeProperty(b, q, len) = r  BY <1>7, <1>10
  <2>4. RoomIs(b, ResizeProperty(b, q, len), o, name, q, i, c, Units(len), x, len)
    BY <1>10, <2>3 DEF RoomIs, r
  <2>5. RoomLeaves(ResizeProperty(b, q, len), o, name, len)
    BY <1>10, <2>2, <2>3, HoldsFine DEF RoomLeaves
  <2> QED BY <2>4, <2>5 DEF i, c, x, y
<1>11. CASE r.err = 0
  <2>1. Opened(b, q, x, len, f)
    <3> DEFINE w == Units(len)
    <3>1. w \in Nat /\ i + w = q + 1 + Units(len) /\ SpliceStruct(b, i, c - i, w).err = 0
      BY <1>4, <1>6, <1>11 DEF r
    <3> HIDE DEF w
    <3>2. Opened(b, q, x, len, Put(SpliceStruct(b, i, c - i, w).fdt,
                                   b.off_dt_struct + q, <<Cell("prop", x, len)>>))
      BY <1>2, <1>3, <1>4, <1>5, <1>6, <1>9, <3>1, Opening DEF st
    <3> QED BY <3>2 DEF f, r, st, w
  <2>2. /\ f \in Blobs /\ f.off_dt_struct = st /\ f.version = 17 /\ q < f.size_dt_struct
        /\ f.off_dt_strings + f.size_dt_strings <= f.totalsize
        /\ f.mem[st + q] = Cell("prop", x, len)
        /\ \A p \in Nat : p < st + q => f.mem[p] = b.mem[p]
    BY <2>1 DEF Opened, st
  <2>3. At(f, q) = Cell("prop", x, len)  BY <2>2 DEF At
  <2>4. ASSUME NEW p \in Nat, p < q PROVE At(f, p) = At(b, p)
    <3>1. st + p \in Nat /\ st + p < st + q  BY <1>2, <2>4
    <3> QED BY <2>2, <3>1 DEF At, st
  <2>5. /\ o \in 0 .. e - 1 /\ At(b, o).tag = "begin" /\ n \in o + 1 .. e
        /\ Elem(b.mem, st + o, st + n)
    BY <1>1, NodeLemma DEF n, st
  <2>6. n <= q
    <3>1. SUFFICES ASSUME q < n PROVE FALSE  BY <1>2, <2>5
    <3>0. n \in Nat /\ o + 1 <= q  BY <1>2, <2>5
    <3>2. st + q \in st + o + 1 .. st + n - 1  BY <1>2, <3>0, <3>1
    <3>3. b.mem[st + q].tag \notin Opens
      <4> DEFINE v == st + o
                 t == st + n
                 h == st + q
      <4>1. Elem(b.mem, v, t) /\ h \in v + 1 .. t - 1  BY <1>2, <2>5, <3>0, <3>2
      <4> HIDE DEF v, t, h
      <4>2. b.mem[h].tag \notin Opens  BY <4>1 DEF Elem
      <4> QED BY <4>2 DEF h
    <3> QED BY <1>1, <3>3 DEF Opens, At, st
  <2>7. Elem(f.mem, st + o, st + n)
    <3> DEFINE s == st + o
               t == st + n
    <3>1. s \in Nat /\ t \in Nat /\ 0 \in Int /\ s < t /\ s + 0 = s /\ t + 0 = t
          /\ \A p \in s .. t - 1 : p + 0 = p /\ p \in Nat /\ p < st + q
      BY <1>2, <2>5, <2>6
    <3>2. Elem(b.mem, s, t)  BY <2>5
    <3> HIDE DEF s, t
    <3>3. \A p \in s .. t - 1 : f.mem[p + 0] = b.mem[p]  BY <2>2, <3>1
    <3>4. s + 0 \in Nat  BY <3>1
    <3>5. Elem(f.mem, s + 0, t + 0)  BY <3>1, <3>2, <3>3, <3>4, ElemMoved
    <3> QED BY <3>1, <3>5 DEF s, t
  <2>8. \A p \in 0 .. q : At(f, p).tag # "end"
    <3>1. ASSUME NEW p \in 0 .. q PROVE At(f, p).tag # "end"
      <4>1. CASE p = q  BY <2>3, <4>1 DEF Cell
      <4>2. CASE p # q
        <5>1. p \in Nat /\ p < q  BY <1>2, <4>2
        <5> DEFINE s == st + p
                   t == st + e
        <5>2. s \in st .. t - 1  BY <1>2, <5>1
        <5>3. Run(b.mem, st, t)  BY DEF Holds, st
        <5> HIDE DEF s, t
        <5>4. b.mem[s].tag # "end"  BY <5>2, <5>3 DEF Run
        <5> QED BY <2>4, <5>1, <5>4 DEF At, s, st
      <4> QED BY <4>1, <4>2
    <3> QED BY <3>1
  <2>9. \A p \in o + 1 .. q : At(b, p).tag \notin {"begin", "end_node"}
    BY <1>1 DEF Properties
  <2>10. \A p \in o + 1 .. q : At(f, p).tag \notin {"begin", "end_node"}
    <3>1. ASSUME NEW p \in o + 1 .. q PROVE At(f, p).tag \notin {"begin", "end_node"}
      <4>1. CASE p = q  BY <2>3, <4>1 DEF Cell
      <4>2. CASE p # q
        <5>1. p \in Nat /\ p < q  BY <1>2, <4>2
        <5> QED BY <2>4, <2>9, <5>1
      <4> QED BY <4>1, <4>2
    <3> QED BY <3>1
  <2>11. ASSUME NEW p \in 0 .. e - 1, At(b, p).tag = "prop"
         PROVE  StringAt(f, At(b, p).x) = StringAt(b, At(b, p).x)
    <3> DEFINE z == At(b, p).x
    <3>1. PICK m \in PropNames :
            /\ IsString(b.mem, b.off_dt_strings, b.size_dt_strings, z, m)
            /\ StringAt(b, z) = m
      BY <1>8, <2>11
    <3>2. m \in Seq(Nat \ {0})  BY FdtEditAssumption
    <3> HIDE DEF z
    <3>3. IsString(f.mem, f.off_dt_strings, f.size_dt_strings, z, m)
      BY <2>1, <3>1, <3>2 DEF Opened
    <3>4. StringAt(f, z) = m  BY <2>2, <3>2, <3>3, StringAtIs
    <3> QED BY <3>1, <3>4 DEF z
  <2>12. StringAt(f, At(f, q).x) = name
    <3>1. At(f, q).x = x  BY <2>3 DEF Cell
    <3>2. StringAt(f, x) = StringAt(b, x)  BY <1>1, <1>2, <2>11 DEF x
    <3> QED BY <1>1, <3>1, <3>2
  <2>13. ASSUME NEW p \in o + 1 .. q - 1, At(f, p).tag = "prop"
         PROVE  StringAt(f, At(f, p).x) # name
    <3>1. p \in Nat /\ p < q /\ p \in 0 .. e - 1  BY <1>2
    <3>2. At(f, p) = At(b, p) /\ At(b, p).tag = "prop"  BY <2>4, <2>13, <3>1
    <3>3. p \in Properties(b, o)
      <4>1. p \in o + 1 .. End(b) - 1
        <5>1. End(b) = e  BY EndIs
        <5> QED BY <1>2, <5>1
      <4>2. \A j \in o + 1 .. p : j \in o + 1 .. q  BY <1>2
      <4> QED BY <2>9, <3>2, <4>1, <4>2 DEF Properties, Tagged
    <3>4. StringAt(b, At(b, p).x) # name
      <4>1. ~(q <= p)  BY <1>2, <3>1
      <4> QED BY <1>1, <3>3, <4>1
    <3> QED BY <2>11, <3>1, <3>2, <3>4
  <2>14. GetProperty(f, o, name) = q
    <3>1. /\ o < n /\ n \in Nat /\ q \in Nat  BY <1>2, <2>5
    <3>2. At(f, o).tag = "begin"
      <4>1. o < q  BY <1>2
      <4> QED BY <2>4, <2>5, <4>1
    <3>3. At(f, q).tag = "prop"  BY <2>3 DEF Cell
    <3>4. Elem(f.mem, f.off_dt_struct + o, f.off_dt_struct + n)  BY <2>2, <2>7
    <3>5. \A p \in o + 1 .. q - 1 : At(f, p).tag = "prop" => StringAt(f, At(f, p).x) # name
      BY <2>13
    <3>6. f \in Blobs /\ f.version = 17 /\ q < f.size_dt_struct  BY <2>2
    <3> QED BY <2>6, <2>8, <2>10, <2>12, <3>1, <3>2, <3>3, <3>4, <3>5, <3>6, PropertyFound
  <2>15. ValueStart(f, o, name) = b.off_dt_struct + q + 1
    BY <2>2, <2>14 DEF ValueStart, st
  <2>16. ResizeProperty(b, q, len) = Done(f)  BY <1>7, <1>11
  <2>17. \A cells \in Seq(Cells) :
           Len(cells) = Units(len) /\ (\A j \in 1 .. Len(cells) : cells[j].tag = "data") =>
             Fine(Put(f, b.off_dt_struct + q + 1, cells))
    BY <2>1 DEF Opened
  <2>18. RoomLeaves(ResizeProperty(b, q, len), o, name, len)
    BY <2>15, <2>16, <2>17 DEF RoomLeaves, Done
  <2>19. RoomIs(b, ResizeProperty(b, q, len), o, name, q, i, c, Units(len), x, len)
    <3>1. ResizeProperty(b, q, len) = Done(Put(r.fdt, b.off_dt_struct + q, <<Cell("prop", x, len)>>))
      BY <2>16 DEF f, st
    <3>2. ValueStart(ResizeProperty(b, q, len).fdt, o, name) = b.off_dt_struct + q + 1
      BY <2>15, <2>16 DEF Done
    <3> QED BY <1>11, <3>1, <3>2 DEF RoomIs, r
  <2> QED BY <2>18, <2>19 DEF i, c, x, y
<1> QED BY <1>10, <1>11

LEMMA AddThen ==
  ASSUME NEW b \in Blobs, NEW k \in Nat, NEW e \in Nat, Holds(b, k, e), RwCheckHeader(b) = 0,
         NEW o \in Nat, NEW name \in PropNames, NEW len \in Nat,
         ~(CheckNodeOffset(b, o) < 0)
  PROVE  /\ RoomLeaves(AddProperty(b, o, name, len), o, name, len)
         /\ LET s == FindAddString(b, name)
                n == NextTag(b, o)
            IN  IF s.err # 0 THEN AddProperty(b, o, name, len) = Fail(s.err, s.fdt)
                ELSE RoomIs(s.fdt, AddProperty(b, o, name, len), o, name, n, n, n, 1 + Units(len), s.at, len)
<1> DEFINE s == FindAddString(b, name)
           b2 == s.fdt
           st == b.off_dt_struct
           n == NextTag(b, o)
           w == 1 + Units(len)
           r == SpliceStruct(b2, n, 0, w)
           f == Put(r.fdt, st + n, <<Cell("prop", s.at, len)>>)
<1>1. /\ o \in 0 .. e - 1 /\ At(b, o).tag = "begin" /\ CheckNodeOffset(b, o) = n
      /\ n \in o + 1 .. e /\ Elem(b.mem, st + o, st + n)
      /\ Run(b.mem, st + n, st + e)
  BY NodeLemma
<1>2. AddProperty(b, o, name, len) =
        IF s.err # 0 THEN Fail(s.err, b2) ELSE IF r.err # 0 THEN r ELSE Done(f)
  BY <1>1 DEF AddProperty, AndThen
<1>3. /\ b2 \in Blobs /\ Holds(b2, k, e) /\ RwCheckHeader(b2) = 0
      /\ b2.off_dt_struct = st
      /\ \A q \in Nat : q < b.off_dt_strings => b2.mem[q] = b.mem[q]
      /\ s.err = 0 => IsString(b2.mem, b2.off_dt_strings, b2.size_dt_strings, s.at, name)
  BY FindAddStringLemma
<1>4. w \in Nat /\ n + w = n + 1 + Units(len)
  <2>1. Units(len) \in Nat  BY UnitsLemma
  <2>2. n \in Nat  BY <1>1
  <2> HIDE DEF n
  <2> QED BY <2>1, <2>2
<1>5. st \in Nat /\ n \in Nat /\ o < n /\ n <= e  BY <1>1, BlobFields
<1> HIDE DEF s, b2, r, f, n, w, st
<1>6. CASE s.err # 0
  <2>1. Fine(b2)  BY <1>3, HoldsFine
  <2>2. AddProperty(b, o, name, len) = Fail(s.err, b2)  BY <1>2, <1>6
  <2>3. RoomLeaves(AddProperty(b, o, name, len), o, name, len)
    BY <1>6, <2>1, <2>2 DEF RoomLeaves, Fail
  <2> QED BY <1>6, <2>2, <2>3 DEF s, b2
<1>7. CASE s.err = 0 /\ r.err # 0
  <2>1. StructLeaves(b2, n, 0, w, r)
    <3>1. 0 \in Nat /\ 0 <= b2.size_dt_struct  BY <1>3, BlobFields
    <3> QED BY <1>3, <1>4, <1>5, <3>1, SpliceStructEffect DEF r
  <2>2. r.fdt = b2  BY <1>7, <2>1 DEF StructLeaves
  <2>3. AddProperty(b, o, name, len) = r  BY <1>2, <1>7
  <2>4. Fine(b2)  BY <1>3, HoldsFine
  <2>5. RoomLeaves(AddProperty(b, o, name, len), o, name, len)
    BY <1>7, <2>2, <2>3, <2>4 DEF RoomLeaves
  <2>6. RoomIs(b2, AddProperty(b, o, name, len), o, name, n, n, n, w, s.at, len)
    <3>1. n - n = 0  BY <1>5
    <3>2. SpliceStruct(b2, n, n - n, w) = r  BY <3>1 DEF r
    <3> QED BY <1>7, <2>3, <3>2 DEF RoomIs
  <2> QED BY <1>7, <2>5, <2>6 DEF s, b2, n, w
<1>8. CASE s.err = 0 /\ r.err = 0
  <2> DEFINE x == s.at
  <2>1. x \in Nat /\ IsString(b2.mem, b2.off_dt_strings, b2.size_dt_strings, x, name)
    BY <1>3, <1>8 DEF IsString
  <2> HIDE DEF x
  <2>2. \A q \in Nat : q < st + e + 1 => b2.mem[q] = b.mem[q]
    <3>1. st + e + 1 <= b.off_dt_strings  BY RsvRoom DEF st
    <3>2. b.off_dt_strings \in Nat  BY BlobFields
    <3>3. \A q \in Nat : q < st + e + 1 => q < b.off_dt_strings  BY <1>5, <3>1, <3>2
    <3> QED BY <1>3, <3>3
  <2>3. n < e => At(b2, n).tag \in Opens
    <3>1. n < e => st + n < st + e  BY <1>5
    <3>2. n < e => b.mem[st + n].tag \in Opens  BY <1>1, <3>1 DEF Run
    <3>3. st + n \in Nat /\ st + n < st + e + 1  BY <1>5
    <3> QED BY <1>3, <2>2, <3>2, <3>3 DEF At
  <2>4. Run(b2.mem, st, st + n) /\ Run(b2.mem, st + n, st + e)
    <3>1. n \in 0 .. e  BY <1>5
    <3>2. /\ Run(b2.mem, b2.off_dt_struct, b2.off_dt_struct + n)
          /\ Run(b2.mem, b2.off_dt_struct + n, b2.off_dt_struct + e)
      BY <1>3, <2>3, <3>1, CutAt
    <3> QED BY <1>3, <3>2
  <2>5. Opened(b2, n, x, len, f)
    <3>1. n - n = 0 /\ n <= n  BY <1>5
    <3>2. SpliceStruct(b2, n, n - n, w).err = 0  BY <1>8, <3>1 DEF r
    <3>3. /\ Run(b2.mem, b2.off_dt_struct, b2.off_dt_struct + n)
          /\ Run(b2.mem, b2.off_dt_struct + n, b2.off_dt_struct + e)
      BY <1>3, <2>4
    <3>4. Opened(b2, n, x, len, Put(SpliceStruct(b2, n, n - n, w).fdt,
                                    b2.off_dt_struct + n, <<Cell("prop", x, len)>>))
      BY <1>3, <1>4, <1>5, <2>1, <3>1, <3>2, <3>3, Opening
    <3>5. f = Put(SpliceStruct(b2, n, n - n, w).fdt, b2.off_dt_struct + n, <<Cell("prop", x, len)>>)
      BY <1>3, <3>1 DEF f, r, x
    <3> QED BY <3>4, <3>5
  <2>6. /\ f \in Blobs /\ f.off_dt_struct = st /\ f.version = 17 /\ n < f.size_dt_struct
        /\ f.off_dt_strings + f.size_dt_strings <= f.totalsize
        /\ f.mem[st + n] = Cell("prop", x, len)
        /\ \A p \in Nat : p < st + n => f.mem[p] = b2.mem[p]
    BY <1>3, <2>5 DEF Opened
  <2>7. At(f, n) = Cell("prop", x, len)  BY <2>6 DEF At
  <2>8. ASSUME NEW p \in Nat, p < n PROVE At(f, p) = b.mem[st + p]
    <3>1. st + p \in Nat /\ st + p < st + n /\ st + p < st + e + 1  BY <1>5, <2>8
    <3> QED BY <2>2, <2>6, <3>1 DEF At
  <2>9. Elem(f.mem, st + o, st + n)
    <3> DEFINE v == st + o
               t == st + n
    <3>1. v \in Nat /\ t \in Nat /\ 0 \in Int /\ v < t /\ v + 0 = v /\ t + 0 = t
          /\ \A p \in v .. t - 1 : p + 0 = p /\ p \in Nat /\ p < st + n /\ p < st + e + 1
      BY <1>5
    <3>2. Elem(b.mem, v, t)  BY <1>1
    <3> HIDE DEF v, t
    <3>3. \A p \in v .. t - 1 : f.mem[p + 0] = b.mem[p]  BY <2>2, <2>6, <3>1
    <3>4. v + 0 \in Nat  BY <3>1
    <3>5. Elem(f.mem, v + 0, t + 0)  BY <3>1, <3>2, <3>3, <3>4, ElemMoved
    <3> QED BY <3>1, <3>5 DEF v, t
  <2>10. \A p \in 0 .. n : At(f, p).tag # "end"
    <3>1. ASSUME NEW p \in 0 .. n PROVE At(f, p).tag # "end"
      <4>1. CASE p = n  BY <2>7, <4>1 DEF Cell
      <4>2. CASE p # n
        <5>1. p \in Nat /\ p < n  BY <1>5, <4>2
        <5> DEFINE v == st + p
                   t == st + e
        <5>2. v \in st .. t - 1  BY <1>5, <5>1
        <5>3. Run(b.mem, st, t)  BY DEF Holds, st
        <5> HIDE DEF v, t
        <5>4. b.mem[v].tag # "end"  BY <5>2, <5>3 DEF Run
        <5> QED BY <2>8, <5>1, <5>4 DEF v
      <4> QED BY <4>1, <4>2
    <3> QED BY <3>1
  <2>11. ASSUME NEW p \in o + 1 .. n - 1 PROVE At(f, p).tag \notin Opens
    <3>1. p \in Nat /\ p < n /\ st + p \in st + o + 1 .. st + n - 1  BY <1>5
    <3>2. b.mem[st + p].tag \notin Opens
      <4> DEFINE v == st + o
                 t == st + n
                 h == st + p
      <4>1. Elem(b.mem, v, t) /\ h \in v + 1 .. t - 1  BY <1>1, <1>5, <3>1
      <4> HIDE DEF v, t, h
      <4>2. b.mem[h].tag \notin Opens  BY <4>1 DEF Elem
      <4> QED BY <4>2 DEF h
    <3> QED BY <2>8, <3>1, <3>2
  <2>12. \A p \in o + 1 .. n : At(f, p).tag \notin {"begin", "end_node"}
    <3>1. \A p \in o + 1 .. n : p = n \/ p \in o + 1 .. n - 1  BY <1>5
    <3>2. At(f, n).tag \notin {"begin", "end_node"}  BY <2>7 DEF Cell
    <3> QED BY <2>11, <3>1, <3>2 DEF Opens
  <2>13. StringAt(f, At(f, n).x) = name
    <3>1. At(f, n).x = x  BY <2>7 DEF Cell
    <3>2. name \in Seq(Nat \ {0})  BY FdtEditAssumption
    <3>3. IsString(f.mem, f.off_dt_strings, f.size_dt_strings, x, name)
      BY <2>1, <2>5, <3>2 DEF Opened
    <3>4. StringAt(f, x) = name  BY <2>6, <3>2, <3>3, StringAtIs
    <3> QED BY <3>1, <3>4
  <2>14. GetProperty(f, o, name) = n
    <3>1. At(f, o).tag = "begin"
      <4>1. At(f, o) = b.mem[st + o]  BY <1>5, <2>8
      <4> QED BY <1>1, <4>1 DEF At, st
    <3>2. At(f, n).tag = "prop"  BY <2>7 DEF Cell
    <3>3. Elem(f.mem, f.off_dt_struct + o, f.off_dt_struct + n)  BY <2>6, <2>9
    <3>4. \A p \in o + 1 .. n - 1 : At(f, p).tag = "prop" => StringAt(f, At(f, p).x) # name
      BY <2>11 DEF Opens
    <3>5. f \in Blobs /\ f.version = 17 /\ n < f.size_dt_struct /\ n <= n  BY <1>5, <2>6
    <3> QED BY <1>5, <2>10, <2>12, <2>13, <3>1, <3>2, <3>3, <3>4, <3>5, PropertyFound
  <2>15. ValueStart(f, o, name) = b2.off_dt_struct + n + 1
    BY <1>3, <2>6, <2>14 DEF ValueStart
  <2>16. AddProperty(b, o, name, len) = Done(f)  BY <1>2, <1>8
  <2>17. \A cells \in Seq(Cells) :
           Len(cells) = Units(len) /\ (\A j \in 1 .. Len(cells) : cells[j].tag = "data") =>
             Fine(Put(f, b2.off_dt_struct + n + 1, cells))
    BY <2>5 DEF Opened
  <2>18. RoomLeaves(AddProperty(b, o, name, len), o, name, len)
    BY <2>15, <2>16, <2>17 DEF RoomLeaves, Done
  <2>19. RoomIs(b2, AddProperty(b, o, name, len), o, name, n, n, n, w, x, len)
    <3>1. n - n = 0  BY <1>5
    <3>2. SpliceStruct(b2, n, n - n, w) = r  BY <3>1 DEF r
    <3>3. AddProperty(b, o, name, len) = Done(Put(r.fdt, b2.off_dt_struct + n, <<Cell("prop", x, len)>>))
      BY <1>3, <2>16 DEF f, x
    <3>4. ValueStart(AddProperty(b, o, name, len).fdt, o, name) = b2.off_dt_struct + n + 1
      BY <2>15, <2>16 DEF Done
    <3> QED BY <1>8, <3>2, <3>3, <3>4 DEF RoomIs
  <2> QED BY <1>8, <2>18, <2>19 DEF s, b2, n, w, x
<1> QED BY <1>6, <1>7, <1>8

LEMMA RoomThen ==
  ASSUME NEW b \in Blobs, NEW k \in Nat, NEW e \in Nat, Holds(b, k, e), RwCheckHeader(b) = 0,
         NEW o \in Nat, NEW name \in PropNames, NEW len \in Nat
  PROVE  RoomLeaves(Room(b, o, name, len), o, name, len)
<1> DEFINE q == GetProperty(b, o, name)
<1>0. Room(b, o, name, len) = IF q >= 0 THEN ResizeProperty(b, q, len)
                              ELSE IF q = NOTFOUND THEN AddProperty(b, o, name, len) ELSE Fail(q, b)
  BY DEF Room
<1>1. \/ q = BADOFFSET
      \/ q = NOTFOUND /\ ~(CheckNodeOffset(b, o) < 0)
      \/ q \in o + 1 .. e - 1
  BY PropertyAt
<1>2. CASE q = BADOFFSET
  <2>1. Room(b, o, name, len) = Fail(q, b) /\ q # 0
    <3> HIDE DEF q
    <3> QED BY <1>0, <1>2 DEF BADOFFSET, NOTFOUND
  <2>2. Fine(b)  BY HoldsFine
  <2> HIDE DEF q
  <2> QED BY <2>1, <2>2 DEF RoomLeaves, Fail
<1>3. CASE q = NOTFOUND /\ ~(CheckNodeOffset(b, o) < 0)
  <2>1. Room(b, o, name, len) = AddProperty(b, o, name, len)
    <3> HIDE DEF q
    <3> QED BY <1>0, <1>3 DEF NOTFOUND
  <2> QED BY <1>3, <2>1, AddThen
<1>4. CASE q \in o + 1 .. e - 1
  <2>1. Room(b, o, name, len) = ResizeProperty(b, q, len)
    <3> HIDE DEF q
    <3>1. q >= 0  BY <1>4
    <3> QED BY <1>0, <3>1
  <2>2. RoomLeaves(ResizeProperty(b, q, len), o, name, len)  BY <1>4, ResizeThen
  <2> HIDE DEF q
  <2> QED BY <2>1, <2>2
<1> QED BY <1>1, <1>2, <1>3, <1>4

LEMMA SetPropFine ==
  ASSUME NEW b \in Blobs, NEW k \in Nat, NEW e \in Nat, Holds(b, k, e),
         NEW o \in Nat, NEW name \in PropNames, NEW val \in Seq(Nat)
  PROVE  Fine(SetProp(b, o, name, val).fdt)
<1> DEFINE len == Len(val)
           r == Room(b, o, name, len)
           cells == Bytes(val)
<1>1. CASE RwCheckHeader(b) # 0
  BY <1>1, HoldsFine DEF SetProp, Guarded, Fail
<1>2. CASE RwCheckHeader(b) = 0
  <2>1. SetProp(b, o, name, val) =
          IF r.err # 0 THEN r ELSE Done(Put(r.fdt, ValueStart(r.fdt, o, name), cells))
    BY <1>2 DEF SetProp, Guarded, AndThen
  <2>2. RoomLeaves(r, o, name, len)
    <3>1. len \in Nat  OBVIOUS
    <3> HIDE DEF len
    <3> QED BY <1>2, <3>1, RoomThen
  <2>3. cells \in Seq(Cells) /\ Len(cells) = Units(len) /\ \A i \in 1 .. Len(cells) : cells[i].tag = "data"
    BY BytesLemma
  <2> HIDE DEF r, cells, len
  <2> QED BY <2>1, <2>2, <2>3 DEF RoomLeaves, Done
<1> QED BY <1>1, <1>2

LEMMA AppendPropFine ==
  ASSUME NEW b \in Blobs, NEW k \in Nat, NEW e \in Nat, Holds(b, k, e),
         NEW o \in Nat, NEW name \in PropNames, NEW val \in Seq(Nat)
  PROVE  Fine(AppendProp(b, o, name, val).fdt)
<1> DEFINE q == GetProperty(b, o, name)
           old == IF q >= 0 THEN Value(b, q) ELSE <<>>
           new == old \o val
           len == Len(new)
           r == Room(b, o, name, len)
           cells == Bytes(new)
<1>1. CASE RwCheckHeader(b) # 0
  BY <1>1, HoldsFine DEF AppendProp, Grow, Guarded, Fail
<1>2. CASE RwCheckHeader(b) = 0 /\ q = BADOFFSET
  <2>1. AppendProp(b, o, name, val) = Fail(q, b)
    <3>1. q < 0 /\ q # NOTFOUND  BY <1>2 DEF BADOFFSET, NOTFOUND
    <3> QED BY <1>2, <3>1 DEF AppendProp, Grow, Guarded
  <2> QED BY <2>1, HoldsFine DEF Fail
<1>3. CASE RwCheckHeader(b) = 0 /\ q # BADOFFSET
  <2>1. q = NOTFOUND \/ (q \in o + 1 .. e - 1 /\ At(b, q).tag = "prop")
    <3>1. \/ q = BADOFFSET
          \/ q = NOTFOUND /\ ~(CheckNodeOffset(b, o) < 0)
          \/ q \in o + 1 .. e - 1 /\ At(b, q).tag = "prop"
      BY PropertyAt
    <3>2. q # BADOFFSET  BY <1>3
    <3> HIDE DEF q
    <3> QED BY <3>1, <3>2
  <2>2. ~(q < 0 /\ q # NOTFOUND)
    <3> HIDE DEF q
    <3> QED BY <2>1
  <2>3. AppendProp(b, o, name, val) =
          IF r.err # 0 THEN r ELSE Done(Put(r.fdt, ValueStart(r.fdt, o, name), cells))
    BY <1>3, <2>2 DEF AppendProp, Grow, Guarded, AndThen
  <2>4. old \in Seq(Nat)
    <3> HIDE DEF q
    <3>1. CASE q = NOTFOUND  BY <3>1 DEF NOTFOUND
    <3>2. CASE q \in o + 1 .. e - 1 /\ At(b, q).tag = "prop"
      <4>1. q \in 0 .. e - 1 /\ q >= 0  BY <3>2
      <4>2. Value(b, q) \in Seq(Nat)  BY <3>2, <4>1, ValueLemma
      <4> QED BY <4>1, <4>2
    <3> QED BY <2>1, <3>1, <3>2
  <2> HIDE DEF old
  <2>5. new \in Seq(Nat) /\ len \in Nat  BY <2>4
  <2> HIDE DEF new
  <2>6. cells \in Seq(Cells) /\ Len(cells) = Units(len) /\ \A i \in 1 .. Len(cells) : cells[i].tag = "data"
    BY <2>5, BytesLemma
  <2>7. RoomLeaves(r, o, name, len)
    <3> HIDE DEF len
    <3> QED BY <1>3, <2>5, RoomThen
  <2> HIDE DEF r, cells, len
  <2> QED BY <2>3, <2>6, <2>7 DEF RoomLeaves, Done
<1> QED BY <1>1, <1>2, <1>3
-----------------------------------------------------------------------------
\* Blocks moved: fdt_open_into and fdt_pack.

\* The memory f is m with n cells from cell "from" on moved to cell "to".
MoveOf(m, f, from, to, n) ==
  /\ f \in [Memory -> Cells]
  /\ \A i \in 0 .. n - 1 : f[to + i] = m[from + i]
  /\ \A q \in Nat : (q < to \/ (q >= to + n /\ q < 2 * MaxSize)) => (q \in Memory => f[q] = m[q])

LEMMA MovedLemma ==
  ASSUME NEW m \in [Memory -> Cells], NEW from \in Nat, NEW to \in Nat, NEW n \in Nat,
         from + n <= 2 * MaxSize, to + n <= 2 * MaxSize
  PROVE  MoveOf(m, Moved(m, from, to, n), from, to, n)
<1> DEFINE f == Moved(m, from, to, n)
<1>0. f = [p \in Memory |-> IF p \in to .. to + n - 1 THEN m[p - to + from] ELSE m[p]]
  BY DEF Moved
<1>1. MaxSize \in Nat  BY FdtRwAssumption
<1> HIDE DEF f
<1>2. ASSUME NEW p \in Memory PROVE f[p] \in Cells
  <2>1. CASE p \in to .. to + n - 1
    <3>1. p - to + from \in Memory  BY <1>1, <2>1 DEF Memory
    <3> QED BY <1>0, <2>1, <3>1
  <2>2. CASE p \notin to .. to + n - 1
    BY <1>0, <2>2
  <2> QED BY <2>1, <2>2
<1>3. f \in [Memory -> Cells]  BY <1>0, <1>2
<1>4. ASSUME NEW i \in 0 .. n - 1 PROVE f[to + i] = m[from + i]
  <2>1. to + i \in Memory /\ to + i \in to .. to + n - 1 /\ (to + i) - to + from = from + i
    BY <1>1 DEF Memory
  <2> QED BY <1>0, <2>1
<1>5. ASSUME NEW q \in Memory, q < to \/ q >= to + n PROVE f[q] = m[q]
  <2>1. q \notin to .. to + n - 1  BY <1>1, <1>5 DEF Memory
  <2> QED BY <1>0, <2>1
<1>6. \A q \in Nat : (q < to \/ (q >= to + n /\ q < 2 * MaxSize)) => (q \in Memory => f[q] = m[q])
  BY <1>5
<1> QED BY <1>3, <1>4, <1>6 DEF f, MoveOf

LEMMA BlankLemma ==
  ASSUME NEW m \in [Memory -> Cells], NEW from \in Nat
  PROVE  /\ Blank(m, from) \in [Memory -> Cells]
         /\ \A q \in Memory : q < from => Blank(m, from)[q] = m[q]
<1> DEFINE f == Blank(m, from)
<1>0. f = [p \in Memory |-> IF p >= from THEN Junk ELSE m[p]]  BY DEF Blank
<1>1. Junk \in Cells  BY DEF Junk, Cell, Cells, Tags
<1> HIDE DEF f
<1>2. f \in [Memory -> Cells]
  <2>1. \A p \in Memory : f[p] \in Cells  BY <1>0, <1>1
  <2> QED BY <1>0, <2>1
<1>3. ASSUME NEW q \in Memory, q < from PROVE f[q] = m[q]
  <2>1. q \in Int  BY FdtRwAssumption DEF Memory
  <2>2. ~(q >= from)  BY <1>3, <2>1
  <2> QED BY <1>0, <2>2
<1> QED BY <1>2, <1>3 DEF f

\* The cells of the blocks of b, one block behind the other from cell at of m.
Copied(b, k, e, m, at) ==
  /\ \A i \in 0 .. k : m[at + i] = b.mem[b.off_mem_rsvmap + i]
  /\ \A i \in 0 .. e : m[at + k + 1 + i] = b.mem[b.off_dt_struct + i]
  /\ \A i \in 0 .. b.size_dt_strings - 1 :
       m[at + k + 1 + (e + 1) + i] = b.mem[b.off_dt_strings + i]

\* Blocks that are packed hold what they held.
Repacked(b, k, e, g) ==
  /\ g \in Blobs /\ g.magic = b.magic
  /\ g.version = 17 /\ g.off_mem_rsvmap = RsvStart /\ g.off_dt_struct = RsvStart + (k + 1)
  /\ g.size_dt_struct = e + 1 /\ g.off_dt_strings = RsvStart + (k + 1) + (e + 1)
  /\ g.size_dt_strings = b.size_dt_strings
  /\ RsvStart + (k + 1) + (e + 1) + b.size_dt_strings <= g.totalsize
  /\ Copied(b, k, e, g.mem, RsvStart)

LEMMA PackedHolds ==
  ASSUME NEW b \in Blobs, NEW k \in Nat, NEW e \in Nat, Holds(b, k, e), NEW g, Repacked(b, k, e, g)
  PROVE  Holds(g, k, e)
<1>0. /\ g \in Blobs
      /\ g.version = 17 /\ g.off_mem_rsvmap = RsvStart /\ g.off_dt_struct = RsvStart + (k + 1)
      /\ g.size_dt_struct = e + 1 /\ g.off_dt_strings = RsvStart + (k + 1) + (e + 1)
      /\ g.size_dt_strings = b.size_dt_strings
      /\ RsvStart + (k + 1) + (e + 1) + b.size_dt_strings <= g.totalsize
      /\ Copied(b, k, e, g.mem, RsvStart)
  BY DEF Repacked
<1> DEFINE rsv == b.off_mem_rsvmap
           st == b.off_dt_struct
           str == b.off_dt_strings
           sl == b.size_dt_strings
           v == st + e
           at == RsvStart + (k + 1)
           end == at + e
           to == RsvStart + (k + 1) + (e + 1)
           d == at - st
           c == to - str
<1>1. /\ rsv \in Nat /\ st \in Nat /\ str \in Nat /\ sl \in Nat /\ v \in Nat /\ RsvStart \in Nat
      /\ at \in Nat /\ end \in Nat /\ to \in Nat /\ d \in Int /\ c \in Int
      /\ v = st + e /\ end = at + e /\ at = RsvStart + k + 1 /\ to = end + 1
      /\ st + d = at /\ v + d = end /\ str + c = to /\ st <= v
  <2>1. rsv \in Nat /\ st \in Nat /\ str \in Nat /\ sl \in Nat  BY BlobFields
  <2> HIDE DEF rsv, st, str, sl
  <2> QED BY <2>1, FdtRwAssumption
<1>2. /\ RsvMap(b.mem, rsv, k) /\ Run(b.mem, st, v) /\ b.mem[v].tag = "end"
      /\ Named(b.mem, st, v, str, sl)
  BY DEF Holds
<1>3. /\ \A i \in 0 .. k : g.mem[RsvStart + i] = b.mem[rsv + i]
      /\ \A i \in 0 .. e : g.mem[at + i] = b.mem[st + i]
      /\ \A i \in 0 .. sl - 1 : g.mem[to + i] = b.mem[str + i]
  <2>1. RsvStart + k + 1 + (e + 1) = to  BY <1>1
  <2> HIDE DEF to
  <2>2. RsvStart + k + 1 = at  BY <1>1
  <2> HIDE DEF at, rsv, st, str, sl
  <2> QED BY <1>0, <2>1, <2>2 DEF Copied, rsv, st, str, sl
<1> HIDE DEF rsv, st, str, sl, v, at, end, to, d, c
<1>4. RsvMap(g.mem, RsvStart, k)
  <2>1. k \in 0 .. k /\ \A i \in 0 .. k - 1 : i \in 0 .. k  OBVIOUS
  <2> QED BY <1>2, <1>3, <2>1 DEF RsvMap
<1>5. \A q \in st .. v : g.mem[q + d] = b.mem[q]
  <2>1. ASSUME NEW q \in st .. v PROVE g.mem[q + d] = b.mem[q]
    <3>1. q - st \in 0 .. e /\ at + (q - st) = q + d /\ st + (q - st) = q  BY <1>1
    <3>2. g.mem[at + (q - st)] = b.mem[st + (q - st)]  BY <1>3, <3>1
    <3> QED BY <3>1, <3>2
  <2> QED BY <2>1
<1>6. \A q \in str .. str + sl - 1 : g.mem[q + c] = b.mem[q]
  <2>1. ASSUME NEW q \in str .. str + sl - 1 PROVE g.mem[q + c] = b.mem[q]
    <3>1. q - str \in 0 .. sl - 1 /\ to + (q - str) = q + c /\ str + (q - str) = q  BY <1>1
    <3>2. g.mem[to + (q - str)] = b.mem[str + (q - str)]  BY <1>3, <3>1
    <3> QED BY <3>1, <3>2
  <2> QED BY <2>1
<1>7. Run(g.mem, at, end) /\ g.mem[end].tag = "end"
  <2>1. v \in st .. v /\ \A q \in st .. v - 1 : q \in st .. v  BY <1>1
  <2>2. \A q \in st .. v - 1 : g.mem[q + d] = b.mem[q]  BY <1>5, <2>1
  <2>3. st + d \in Nat  BY <1>1
  <2>4. Run(g.mem, st + d, v + d)  BY <1>1, <1>2, <2>2, <2>3, RunMoved
  <2> QED BY <1>1, <1>2, <1>5, <2>1, <2>4
<1>8. Named(g.mem, at, end, to, sl)
  <2>1. ASSUME NEW q \in at .. end - 1, g.mem[q].tag = "prop"
        PROVE  \E n \in PropNames : IsString(g.mem, to, sl, g.mem[q].x, n)
    <3>1. q - d \in st .. v - 1 /\ q - d \in st .. v /\ (q - d) + d = q  BY <1>1
    <3>2. g.mem[q] = b.mem[q - d]  BY <1>5, <3>1
    <3>3. PICK n \in PropNames : IsString(b.mem, str, sl, b.mem[q - d].x, n)
      BY <1>2, <2>1, <3>1, <3>2 DEF Named
    <3>4. n \in Seq(Nat)  BY FdtEditAssumption
    <3> DEFINE x == b.mem[q - d].x
    <3>5. IsString(b.mem, str, sl, x, n)  BY <3>3
    <3> HIDE DEF x
    <3>6. IsString(g.mem, str + c, sl, x, n)  BY <1>1, <1>6, <3>4, <3>5, IsStringMoved
    <3>7. IsString(g.mem, to, sl, x, n)  BY <1>1, <3>6
    <3> QED BY <3>2, <3>7 DEF x
  <2> QED BY <2>1 DEF Named
<1>9. Holds(g, k, e)
  <2>1. g.off_mem_rsvmap = RsvStart /\ g.off_dt_struct = at /\ g.off_dt_strings = to
        /\ g.size_dt_strings = sl
    BY <1>0 DEF at, to, sl
  <2>2. to + sl <= g.totalsize  BY <1>0 DEF to, sl
  <2>3. g.totalsize \in Nat  BY <1>0, BlobFields
  <2>4. /\ RsvStart + k + 1 <= at /\ RsvStart <= at /\ RsvStart <= to /\ at + e + 1 <= to
        /\ RsvStart + k + 1 <= to /\ RsvStart + k + 1 <= g.totalsize /\ at + e + 1 <= g.totalsize
    BY <1>1, <2>2, <2>3
  <2>5. Run(g.mem, at, at + e) /\ g.mem[at + e].tag = "end" /\ Named(g.mem, at, at + e, to, sl)
    BY <1>1, <1>7, <1>8
  <2>6. RsvStart <= RsvStart  BY <1>1
  <2> QED BY <1>0, <1>4, <2>1, <2>2, <2>4, <2>5, <2>6 DEF Holds, Disjoint
<1> QED BY <1>9

\* The memory that _fdt_packblocks leaves: no block moves over one still to be moved.
LEMMA PackBlocksLemma ==
  ASSUME NEW b \in Blobs, NEW k \in Nat, NEW e \in Nat, Holds(b, k, e), NEW base \in Nat,
         base + RsvStart + (k + 1) + (e + 1) + b.size_dt_strings <= 2 * MaxSize,
         \/ /\ base + RsvStart + (k + 1) <= b.off_dt_struct
            /\ base + RsvStart + (k + 1) + (e + 1) <= b.off_dt_strings
         \/ b.totalsize <= base + RsvStart
  PROVE  \E m \in [Memory -> Cells] :
           /\ PackBlocks(b, base, k + 1, e + 1) =
                [b EXCEPT !.mem = m, !.off_mem_rsvmap = RsvStart,
                          !.off_dt_struct = RsvStart + (k + 1), !.size_dt_struct = e + 1,
                          !.off_dt_strings = RsvStart + (k + 1) + (e + 1)]
           /\ Copied(b, k, e, m, base + RsvStart)
<1> DEFINE at == base + RsvStart
           rsv == b.off_mem_rsvmap
           st == b.off_dt_struct
           str == b.off_dt_strings
           sl == b.size_dt_strings
           n1 == k + 1
           n2 == e + 1
           t2 == at + n1
           t3 == t2 + n2
           m1 == Moved(b.mem, rsv, at, n1)
           m2 == Moved(m1, st, t2, n2)
           m3 == Moved(m2, str, t3, sl)
           top == 2 * MaxSize
<1>1. /\ rsv \in Nat /\ st \in Nat /\ str \in Nat /\ sl \in Nat /\ at \in Nat /\ top \in Nat
      /\ b.totalsize \in Nat /\ b.totalsize <= top /\ b.mem \in [Memory -> Cells]
  <2>1. /\ rsv \in Nat /\ st \in Nat /\ str \in Nat /\ sl \in Nat /\ b.totalsize \in 0 .. MaxSize
        /\ b.mem \in [Memory -> Cells]
    BY BlobFields DEF Cells
  <2> QED BY <2>1, FdtRwAssumption
<1>2. /\ rsv + n1 <= b.totalsize /\ st + n2 <= b.totalsize /\ str + sl <= b.totalsize
  BY <1>1 DEF Holds
<1>3. /\ t2 \in Nat /\ t3 \in Nat /\ n1 \in Nat /\ n2 \in Nat /\ t2 = at + n1 /\ t3 = t2 + n2
      /\ t3 + sl <= top /\ n1 = k + 1 /\ n2 = e + 1
  BY <1>1
<1>4. (t2 <= st /\ t3 <= str) \/ b.totalsize <= at
  BY <1>1
<1>5. Memory = 0 .. top - 1  BY DEF Memory
<1>6. PackBlocks(b, base, k + 1, e + 1) =
        [b EXCEPT !.mem = m3, !.off_mem_rsvmap = RsvStart,
                  !.off_dt_struct = RsvStart + (k + 1), !.size_dt_struct = e + 1,
                  !.off_dt_strings = RsvStart + (k + 1) + (e + 1)]
  BY DEF PackBlocks
<1> HIDE DEF at, rsv, st, str, sl, n1, n2, t2, t3, m1, m2, m3, top
<1>7. /\ m1 \in [Memory -> Cells]
      /\ \A i \in 0 .. n1 - 1 : m1[at + i] = b.mem[rsv + i]
      /\ \A q \in Nat : (q < at \/ (q >= at + n1 /\ q < top)) => (q \in Memory => m1[q] = b.mem[q])
  <2>1. rsv + n1 <= top /\ at + n1 <= top  BY <1>1, <1>2, <1>3
  <2>2. rsv + n1 <= 2 * MaxSize /\ at + n1 <= 2 * MaxSize  BY <2>1 DEF top
  <2>3. MoveOf(b.mem, Moved(b.mem, rsv, at, n1), rsv, at, n1)  BY <1>1, <1>3, <2>2, MovedLemma
  <2> QED BY <2>3 DEF m1, top, MoveOf
<1>8. /\ m2 \in [Memory -> Cells]
      /\ \A i \in 0 .. n2 - 1 : m2[t2 + i] = m1[st + i]
      /\ \A q \in Nat : (q < t2 \/ (q >= t2 + n2 /\ q < top)) => (q \in Memory => m2[q] = m1[q])
  <2>1. st + n2 <= top /\ t2 + n2 <= top  BY <1>1, <1>2, <1>3
  <2>2. st + n2 <= 2 * MaxSize /\ t2 + n2 <= 2 * MaxSize  BY <2>1 DEF top
  <2>3. MoveOf(m1, Moved(m1, st, t2, n2), st, t2, n2)  BY <1>1, <1>3, <1>7, <2>2, MovedLemma
  <2> QED BY <2>3 DEF m2, top, MoveOf
<1>9. /\ m3 \in [Memory -> Cells]
      /\ \A i \in 0 .. sl - 1 : m3[t3 + i] = m2[str + i]
      /\ \A q \in Nat : (q < t3 \/ (q >= t3 + sl /\ q < top)) => (q \in Memory => m3[q] = m2[q])
  <2>1. str + sl <= top /\ t3 + sl <= top  BY <1>1, <1>2, <1>3
  <2>2. str + sl <= 2 * MaxSize /\ t3 + sl <= 2 * MaxSize  BY <2>1 DEF top
  <2>3. MoveOf(m2, Moved(m2, str, t3, sl), str, t3, sl)  BY <1>1, <1>3, <1>8, <2>2, MovedLemma
  <2> QED BY <2>3 DEF m3, top, MoveOf
<1>10. ASSUME NEW i \in 0 .. k PROVE m3[at + i] = b.mem[rsv + i]
  <2>1. at + i \in Nat /\ at + i < t2 /\ at + i < t3 /\ at + i < top /\ i \in 0 .. n1 - 1
    BY <1>1, <1>3
  <2>2. at + i \in Memory  BY <1>1, <1>5, <2>1
  <2> QED BY <1>7, <1>8, <1>9, <2>1, <2>2
<1>11. ASSUME NEW i \in 0 .. e PROVE m3[t2 + i] = b.mem[st + i]
  <2>1. /\ t2 + i \in Nat /\ t2 + i < t3 /\ t2 + i < top /\ i \in 0 .. n2 - 1
        /\ st + i \in Nat /\ st + i < top
    BY <1>1, <1>2, <1>3
  <2>2. t2 + i \in Memory /\ st + i \in Memory  BY <1>1, <1>5, <2>1
  <2>3. st + i < at \/ (st + i >= at + n1 /\ st + i < top)  BY <1>1, <1>2, <1>3, <1>4
  <2> QED BY <1>7, <1>8, <1>9, <2>1, <2>2, <2>3
<1>12. ASSUME NEW i \in 0 .. sl - 1 PROVE m3[t3 + i] = b.mem[str + i]
  <2>1. str + i \in Nat /\ str + i < top  BY <1>1, <1>2
  <2>4. str + i \in Memory  BY <1>1, <1>5, <2>1
  <2>2. str + i < t2 \/ (str + i >= t2 + n2 /\ str + i < top)  BY <1>1, <1>2, <1>3, <1>4
  <2>3. str + i < at \/ (str + i >= at + n1 /\ str + i < top)  BY <1>1, <1>2, <1>3, <1>4
  <2> QED BY <1>7, <1>8, <1>9, <2>1, <2>2, <2>3, <2>4
<1>13. Copied(b, k, e, m3, at)
  <2>1. at + k + 1 = t2 /\ at + k + 1 + (e + 1) = t3  BY <1>1, <1>3
  <2> QED BY <1>10, <1>11, <1>12, <2>1 DEF Copied, rsv, st, str, sl
<1> QED BY <1>6, <1>9, <1>13 DEF at
\* Where the packed blocks end.
Needed(b, k, e) == RsvStart + (k + 1) + (e + 1) + b.size_dt_strings

\* The blob that fdt_pack and the second half of fdt_open_into leave.
PackedAs(b, k, e, m, size) ==
  [b EXCEPT !.mem = m, !.version = 17, !.totalsize = size, !.off_mem_rsvmap = RsvStart,
            !.off_dt_struct = RsvStart + (k + 1), !.size_dt_struct = e + 1,
            !.off_dt_strings = RsvStart + (k + 1) + (e + 1)]

LEMMA PackedAsIs ==
  ASSUME NEW b \in Blobs, NEW k \in Nat, NEW e \in Nat, Holds(b, k, e),
         NEW m \in [Memory -> Cells], NEW size \in 0 .. MaxSize, Needed(b, k, e) <= size,
         Copied(b, k, e, m, RsvStart)
  PROVE  Repacked(b, k, e, PackedAs(b, k, e, m, size))
<1> DEFINE g == PackedAs(b, k, e, m, size)
<1>1. b.size_dt_strings \in Nat /\ RsvStart \in Nat  BY BlobFields, FdtRwAssumption
<1>2. /\ RsvStart + (k + 1) \in Nat /\ e + 1 \in Nat /\ RsvStart + (k + 1) + (e + 1) \in Nat
  BY <1>1
<1>3. g \in Blobs  BY <1>1, <1>2 DEF PackedAs, Blobs, Cells
<1>4. /\ g.version = 17 /\ g.off_mem_rsvmap = RsvStart /\ g.off_dt_struct = RsvStart + (k + 1)
      /\ g.size_dt_struct = e + 1 /\ g.off_dt_strings = RsvStart + (k + 1) + (e + 1)
      /\ g.size_dt_strings = b.size_dt_strings /\ g.totalsize = size /\ g.mem = m
      /\ g.magic = b.magic
  BY DEF PackedAs, Blobs
<1> HIDE DEF g
<1>5. RsvStart + (k + 1) + (e + 1) + b.size_dt_strings <= g.totalsize  BY <1>4 DEF Needed
<1>6. Copied(b, k, e, g.mem, RsvStart)  BY <1>4
<1>7. Repacked(b, k, e, g)  BY <1>3, <1>4, <1>5, <1>6 DEF Repacked
<1> QED BY <1>7 DEF g

\* What is copied from a place to another is what was copied there.
LEMMA CopiedOn ==
  ASSUME NEW b \in Blobs, NEW k \in Nat, NEW e \in Nat, NEW m, NEW m2,
         NEW from \in Nat, NEW to \in Nat, Copied(b, k, e, m, from),
         \A i \in 0 .. k + (e + 1) + b.size_dt_strings : m2[to + i] = m[from + i]
  PROVE  Copied(b, k, e, m2, to)
<1> DEFINE sl == b.size_dt_strings
<1>1. sl \in Nat  BY BlobFields
<1>2. \A i \in 0 .. k + (e + 1) + sl : m2[to + i] = m[from + i]  OBVIOUS
<1> HIDE DEF sl
<1>3. ASSUME NEW i \in 0 .. k PROVE m2[to + i] = m[from + i]
  <2>1. i \in 0 .. k + (e + 1) + sl  BY <1>1
  <2> QED BY <1>2, <2>1
<1>4. ASSUME NEW i \in 0 .. e PROVE m2[to + k + 1 + i] = m[from + k + 1 + i]
  <2> DEFINE j == k + 1 + i
  <2>1. j \in 0 .. k + (e + 1) + sl /\ to + j = to + k + 1 + i /\ from + j = from + k + 1 + i
    BY <1>1
  <2> HIDE DEF j
  <2>2. m2[to + j] = m[from + j]  BY <1>2, <2>1
  <2> QED BY <2>1, <2>2
<1>5. ASSUME NEW i \in 0 .. sl - 1
      PROVE m2[to + k + 1 + (e + 1) + i] = m[from + k + 1 + (e + 1) + i]
  <2> DEFINE j == k + 1 + (e + 1) + i
  <2>1. /\ j \in 0 .. k + (e + 1) + sl /\ to + j = to + k + 1 + (e + 1) + i
        /\ from + j = from + k + 1 + (e + 1) + i
    BY <1>1
  <2> HIDE DEF j
  <2>2. m2[to + j] = m[from + j]  BY <1>2, <2>1
  <2> QED BY <2>1, <2>2
<1> QED BY <1>3, <1>4, <1>5 DEF Copied, sl

PackedOr(b, k, e, r) ==
  \/ RwCheckHeader(b) # 0 /\ r = Fail(RwCheckHeader(b), b)
  \/ RwCheckHeader(b) = 0 /\ r.err = 0 /\ Repacked(b, k, e, r.fdt)

LEMMA PackIs ==
  ASSUME NEW b \in Blobs, NEW k \in Nat, NEW e \in Nat, Holds(b, k, e)
  PROVE  PackedOr(b, k, e, Pack(b))
<1>1. CASE RwCheckHeader(b) # 0
  BY <1>1 DEF Pack, Guarded, PackedOr
<1>2. CASE RwCheckHeader(b) = 0
  <2> DEFINE size == Needed(b, k, e)
             p == PackBlocks(b, 0, k + 1, e + 1)
  <2>1. /\ b.version = 17 /\ RsvStart <= b.off_mem_rsvmap /\ b.size_dt_struct = e + 1
        /\ b.off_mem_rsvmap + k + 1 <= b.off_dt_struct
        /\ b.off_dt_struct + e + 1 <= b.off_dt_strings
        /\ b.off_dt_strings + b.size_dt_strings <= b.totalsize
    BY <1>2, Writable, RsvRoom
  <2>2. /\ b.off_mem_rsvmap \in Nat /\ b.off_dt_struct \in Nat /\ b.off_dt_strings \in Nat
        /\ b.size_dt_strings \in Nat /\ b.totalsize \in 0 .. MaxSize /\ RsvStart \in Nat
        /\ MaxSize \in Nat
    BY BlobFields, FdtRwAssumption
  <2>3. size \in 0 .. MaxSize
    BY <2>1, <2>2 DEF Needed
  <2>4. /\ Pack(b).fdt = [p EXCEPT !.totalsize = DataSize(p), !.mem = Blank(@, DataSize(p))]
        /\ Pack(b).err = 0
    BY <1>2, <2>1, RsvCount DEF Pack, Guarded, Done
  <2>5. /\ 0 + RsvStart + (k + 1) + (e + 1) + b.size_dt_strings <= 2 * MaxSize
        /\ 0 + RsvStart + (k + 1) <= b.off_dt_struct
        /\ 0 + RsvStart + (k + 1) + (e + 1) <= b.off_dt_strings
    BY <2>1, <2>2
  <2> HIDE DEF size, p
  <2>6. PICK m \in [Memory -> Cells] :
          /\ p = [b EXCEPT !.mem = m, !.off_mem_rsvmap = RsvStart,
                           !.off_dt_struct = RsvStart + (k + 1), !.size_dt_struct = e + 1,
                           !.off_dt_strings = RsvStart + (k + 1) + (e + 1)]
          /\ Copied(b, k, e, m, 0 + RsvStart)
    <3>1. 0 \in Nat  OBVIOUS
    <3> QED BY <2>5, <3>1, PackBlocksLemma DEF p
  <2>7. DataSize(p) = size
    BY <2>6 DEF DataSize, size, Needed, Blobs
  <2> DEFINE m2 == Blank(m, size)
  <2> DEFINE g == [p EXCEPT !.totalsize = size, !.mem = m2]
  <2>8. Pack(b).fdt = g
    <3>1. p.mem = m  BY <2>6 DEF Blobs
    <3> QED BY <2>4, <2>7, <3>1
  <2>9. m2 \in [Memory -> Cells] /\ \A q \in Memory : q < size => m2[q] = m[q]
    BY <2>3, BlankLemma
  <2> HIDE DEF m2
  <2>10. ASSUME NEW i \in 0 .. k + (e + 1) + b.size_dt_strings PROVE m2[RsvStart + i] = m[RsvStart + i]
    <3>1. RsvStart + i \in Nat /\ RsvStart + i < size  BY <2>2 DEF size, Needed
    <3>2. RsvStart + i \in Memory  BY <2>2, <2>3, <3>1 DEF Memory
    <3> QED BY <2>9, <3>1, <3>2
  <2>11. Copied(b, k, e, m, RsvStart)  BY <2>2, <2>6
  <2>12. Copied(b, k, e, m2, RsvStart)  BY <2>2, <2>10, <2>11, CopiedOn
  <2>13. /\ RsvStart + (k + 1) \in Nat /\ e + 1 \in Nat /\ RsvStart + (k + 1) + (e + 1) \in Nat
    BY <2>2
  <2>14. g \in Blobs
    <3> DEFINE rs == RsvStart + (k + 1)
               ss == RsvStart + (k + 1) + (e + 1)
    <3>1. rs \in Nat /\ ss \in Nat /\ e + 1 \in Nat /\ RsvStart \in Nat  BY <2>2, <2>13
    <3>2. p = [b EXCEPT !.mem = m, !.off_mem_rsvmap = RsvStart, !.off_dt_struct = rs,
                        !.size_dt_struct = e + 1, !.off_dt_strings = ss]
      BY <2>6
    <3> HIDE DEF rs, ss
    <3>3. p \in Blobs  BY <3>1, <3>2 DEF Blobs, Cells
    <3> QED BY <2>3, <2>9, <3>3 DEF Blobs, Cells
  <2>15. /\ g.version = 17 /\ g.off_mem_rsvmap = RsvStart /\ g.off_dt_struct = RsvStart + (k + 1)
         /\ g.size_dt_struct = e + 1 /\ g.off_dt_strings = RsvStart + (k + 1) + (e + 1)
         /\ g.size_dt_strings = b.size_dt_strings /\ g.totalsize = size /\ g.mem = m2
         /\ g.magic = b.magic
    BY <2>1, <2>6 DEF Blobs
  <2>16. RsvStart + (k + 1) + (e + 1) + b.size_dt_strings <= g.totalsize
    BY <2>3, <2>15 DEF size, Needed
  <2> HIDE DEF g
  <2>17. Copied(b, k, e, g.mem, RsvStart)  BY <2>12, <2>15
  <2>18. Repacked(b, k, e, g)  BY <2>14, <2>15, <2>16, <2>17 DEF Repacked
  <2> QED BY <1>2, <2>4, <2>8, <2>18 DEF PackedOr
<1> QED BY <1>1, <1>2

LEMMA PackFine ==
  ASSUME NEW b \in Blobs, NEW k \in Nat, NEW e \in Nat, Holds(b, k, e)
  PROVE  Fine(Pack(b).fdt)
<1> DEFINE r == Pack(b)
<1>1. PackedOr(b, k, e, r)  BY PackIs
<1> HIDE DEF r
<1>2. CASE r.fdt = b  BY <1>2, HoldsFine DEF r
<1>3. CASE Repacked(b, k, e, r.fdt)
  <2>1. r.fdt \in Blobs  BY <1>3 DEF Repacked
  <2>2. Holds(r.fdt, k, e)  BY <1>3, PackedHolds
  <2> QED BY <2>1, <2>2, HoldsFine DEF r
<1> QED BY <1>1, <1>2, <1>3 DEF PackedOr, Fail

\* A blob whose blocks lie in order stays where it is, in a buffer that may be larger.
Restated(b, k, e, g) ==
  /\ g \in Blobs /\ Holds(g, k, e) /\ g.magic = b.magic /\ g.version = 17 /\ g.mem = b.mem
  /\ g.off_mem_rsvmap = b.off_mem_rsvmap /\ g.off_dt_struct = b.off_dt_struct
  /\ g.off_dt_strings = b.off_dt_strings /\ g.size_dt_strings = b.size_dt_strings
  /\ g.size_dt_struct = e + 1 /\ b.totalsize <= g.totalsize /\ ~Misordered(b, k + 1, e + 1)

OpenedOr(b, k, e, r) ==
  \/ CheckHeader(b) # 0 /\ r.fdt = b
  \/ r.err = NOSPACE /\ r.fdt = b
  \/ r.err = 0 /\ Restated(b, k, e, r.fdt)
  \/ r.err = 0 /\ Repacked(b, k, e, r.fdt)

LEMMA OpenIntoIs ==
  ASSUME NEW b \in Blobs, NEW k \in Nat, NEW e \in Nat, Holds(b, k, e),
         NEW bufsize \in 1 .. MaxSize, NEW inplace \in BOOLEAN
  PROVE  OpenedOr(b, k, e, OpenInto(b, bufsize, inplace))
<1> DEFINE r == OpenInto(b, bufsize, inplace)
           size == Needed(b, k, e)
           base == b.totalsize
           p == PackBlocks(b, base, k + 1, e + 1)
           opened == [b EXCEPT !.version = 17, !.size_dt_struct = e + 1, !.totalsize = bufsize]
           moved == [p EXCEPT !.mem = Blank(Moved(p.mem, base, 0, size), size),
                              !.totalsize = bufsize, !.version = 17]
<1>1. NumMemRsv(b) + 1 = k + 1  BY RsvCount
<1>2. (IF b.version >= 17 THEN b.size_dt_struct ELSE End(b) + 1) = e + 1
  <2>1. End(b) = e  BY EndIs
  <2> QED BY <2>1 DEF Holds
<1>3. \/ CheckHeader(b) # 0 /\ r.fdt = b
      \/ r.err = NOSPACE /\ r.fdt = b
      \/ /\ ~Misordered(b, k + 1, e + 1) /\ ~(b.totalsize > bufsize)
         /\ r.err = 0 /\ r.fdt = opened
      \/ /\ ~(bufsize < size) /\ r.err = 0 /\ r.fdt = moved
  BY <1>1, <1>2 DEF OpenInto, Fail, Done, Needed
<1>4. /\ base \in 0 .. MaxSize /\ MaxSize \in Nat /\ RsvStart \in Nat /\ b.size_dt_strings \in Nat
      /\ b.mem \in [Memory -> Cells] /\ b.off_mem_rsvmap \in Nat /\ b.off_dt_struct \in Nat
      /\ b.off_dt_strings \in Nat
  BY BlobFields, FdtRwAssumption DEF Cells
<1>5. CASE r.fdt = b /\ (CheckHeader(b) # 0 \/ r.err = NOSPACE)
  BY <1>5 DEF OpenedOr
<1>6. CASE ~Misordered(b, k + 1, e + 1) /\ ~(b.totalsize > bufsize) /\ r.err = 0 /\ r.fdt = opened
  <2>1. opened \in Blobs
    <3>1. bufsize \in 0 .. MaxSize /\ e + 1 \in Nat  BY <1>4
    <3> QED BY <3>1 DEF Blobs
  <2>2. /\ opened.mem = b.mem /\ opened.off_mem_rsvmap = b.off_mem_rsvmap
        /\ opened.off_dt_struct = b.off_dt_struct /\ opened.off_dt_strings = b.off_dt_strings
        /\ opened.size_dt_strings = b.size_dt_strings /\ opened.totalsize = bufsize
        /\ opened.size_dt_struct = e + 1 /\ opened.version = 17 /\ opened.magic = b.magic
    BY DEF Blobs
  <2> HIDE DEF opened
  <2>3. /\ b.off_mem_rsvmap + k + 1 <= bufsize /\ b.off_dt_struct + e + 1 <= bufsize
        /\ b.off_dt_strings + b.size_dt_strings <= bufsize
    BY <1>4, <1>6 DEF Holds
  <2>4. Holds(opened, k, e)
    BY <2>2, <2>3 DEF Holds
  <2>5. b.totalsize <= opened.totalsize  BY <1>4, <1>6, <2>2
  <2>6. Restated(b, k, e, opened)  BY <1>6, <2>1, <2>2, <2>4, <2>5 DEF Restated
  <2> QED BY <1>6, <2>6 DEF OpenedOr
<1>7. CASE ~(bufsize < size) /\ r.err = 0 /\ r.fdt = moved
  <2>1. size \in Nat /\ size <= bufsize /\ size \in 0 .. MaxSize /\ bufsize \in 0 .. MaxSize
    BY <1>4, <1>7 DEF Needed
  <2>2. /\ base + RsvStart + (k + 1) + (e + 1) + b.size_dt_strings <= 2 * MaxSize
        /\ b.totalsize <= base + RsvStart /\ base \in Nat
    BY <1>4, <2>1 DEF Needed
  <2> HIDE DEF size, base, p, opened
  <2>3. PICK m \in [Memory -> Cells] :
          /\ p = [b EXCEPT !.mem = m, !.off_mem_rsvmap = RsvStart,
                           !.off_dt_struct = RsvStart + (k + 1), !.size_dt_struct = e + 1,
                           !.off_dt_strings = RsvStart + (k + 1) + (e + 1)]
          /\ Copied(b, k, e, m, base + RsvStart)
    BY <2>2, PackBlocksLemma DEF p
  <2> DEFINE m2 == Moved(m, base, 0, size)
             m3 == Blank(m2, size)
  <2>4. moved = PackedAs(b, k, e, m3, bufsize)
    BY <2>3 DEF PackedAs, Blobs
  <2>5. MoveOf(m, m2, base, 0, size)
    <3>1. base + size <= 2 * MaxSize /\ 0 + size <= 2 * MaxSize /\ 0 \in Nat  BY <1>4, <2>1, <2>2
    <3> QED BY <2>1, <2>2, <3>1, MovedLemma
  <2> HIDE DEF m2
  <2>6. m2 \in [Memory -> Cells]  BY <2>5 DEF MoveOf
  <2>7. m3 \in [Memory -> Cells] /\ \A q \in Memory : q < size => m3[q] = m2[q]
    BY <2>1, <2>6, BlankLemma
  <2> HIDE DEF m3, moved
  <2>8. ASSUME NEW i \in 0 .. k + (e + 1) + b.size_dt_strings
        PROVE  m3[RsvStart + i] = m[(base + RsvStart) + i]
    <3>1. /\ RsvStart + i \in Nat /\ RsvStart + i < size /\ RsvStart + i \in 0 .. size - 1
          /\ base + (RsvStart + i) = (base + RsvStart) + i /\ 0 + (RsvStart + i) = RsvStart + i
      BY SMTT(40), <1>4, <2>1, <2>2 DEF size, Needed
    <3>2. RsvStart + i \in Memory  BY SMTT(40), <1>4, <2>1, <3>1 DEF Memory
    <3>3. m2[0 + (RsvStart + i)] = m[base + (RsvStart + i)]  BY <2>5, <3>1 DEF MoveOf
    <3> QED BY <2>7, <3>1, <3>2, <3>3
  <2>9. Copied(b, k, e, m3, RsvStart)
    <3>1. base + RsvStart \in Nat  BY <1>4, <2>2
    <3> QED BY <1>4, <2>3, <2>8, <3>1, CopiedOn
  <2>10. Needed(b, k, e) <= bufsize  BY <2>1 DEF size
  <2>11. Repacked(b, k, e, PackedAs(b, k, e, m3, bufsize))
    BY <2>1, <2>7, <2>9, <2>10, PackedAsIs
  <2> QED BY <1>7, <2>4, <2>11 DEF OpenedOr
<1> QED BY <1>3, <1>5, <1>6, <1>7

LEMMA OpenIntoFine ==
  ASSUME NEW b \in Blobs, NEW k \in Nat, NEW e \in Nat, Holds(b, k, e),
         NEW bufsize \in 1 .. MaxSize, NEW inplace \in BOOLEAN
  PROVE  Fine(OpenInto(b, bufsize, inplace).fdt)
<1> DEFINE r == OpenInto(b, bufsize, inplace)
<1>1. OpenedOr(b, k, e, r)  BY OpenIntoIs
<1> HIDE DEF r
<1>2. CASE r.fdt = b  BY <1>2, HoldsFine DEF r
<1>3. CASE Repacked(b, k, e, r.fdt)
  <2>1. r.fdt \in Blobs  BY <1>3 DEF Repacked
  <2>2. Holds(r.fdt, k, e)  BY <1>3, PackedHolds
  <2> QED BY <2>1, <2>2, HoldsFine DEF r
<1>4. CASE Restated(b, k, e, r.fdt)
  BY <1>4, HoldsFine DEF Restated, r
<1> QED BY <1>1, <1>2, <1>3, <1>4 DEF OpenedOr

LEMMA CellsJoined ==
  ASSUME NEW s \in Seq(Cells), NEW t \in Seq(Cells)
  PROVE  /\ s \o t \in Seq(Cells) /\ Len(s \o t) = Len(s) + Len(t)
         /\ \A i \in 1 .. Len(s) : (s \o t)[i] = s[i]
         /\ \A i \in 1 .. Len(t) : (s \o t)[Len(s) + i] = t[i]
OBVIOUS

\* What fdt_create_empty_tree leaves: the root alone, or, where there is no room for it,
\* the blob as it was, or a header, or a root that is not ended or not even closed.
EmptyMade(g, bufsize) ==
  /\ g \in Blobs /\ Holds(g, 0, 3) /\ g.magic = "FDT" /\ g.version = 17
  /\ g.totalsize = bufsize /\ RsvStart + 5 <= bufsize /\ g.off_mem_rsvmap = RsvStart
  /\ g.off_dt_struct = RsvStart + 1 /\ g.size_dt_struct = 4
  /\ g.off_dt_strings = RsvStart + 5 /\ g.size_dt_strings = 0
  /\ At(g, 0) = Cell("begin", 0, 0) /\ At(g, 1) = Cell("data", 0, 0)
  /\ At(g, 2) = Cell("end_node", 0, 0) /\ NameCells(<<>>) = <<Cell("data", 0, 0)>>

RootLeft(g, bufsize) ==
  /\ g.version = 17 /\ g.totalsize = bufsize /\ RsvStart + 1 + g.size_dt_struct <= bufsize
  /\ g.off_mem_rsvmap = RsvStart /\ g.off_dt_struct = RsvStart + 1
  /\ g.off_dt_strings = bufsize /\ g.size_dt_strings = 0 /\ g.mem[RsvStart].x = 0
  /\ At(g, 0) = Cell("begin", 0, 0) /\ At(g, 1) = Cell("data", 0, 0)
  /\ g.size_dt_struct = 2 \/ (g.size_dt_struct = 3 /\ At(g, 2) = Cell("end_node", 0, 0))
  /\ NameCells(<<>>) = <<Cell("data", 0, 0)>>

EmptyLeft(g, bufsize) ==
  g \in Blobs /\ g.magic = "SW" /\ (g.size_dt_struct = 0 \/ RootLeft(g, bufsize))

EmptyOr(b, bufsize, r) ==
  \/ r = Fail(NOSPACE, b)
  \/ r.err = NOSPACE /\ EmptyLeft(r.fdt, bufsize)
  \/ r.err = 0 /\ EmptyMade(r.fdt, bufsize)

\* A blob made over another: its header, and the cells from the reserve map on.
MadeOver(f, magic, bufsize, rsv, size, strings, cells) ==
  /\ f \in Blobs
  /\ f.magic = magic /\ f.version = 17 /\ f.totalsize = bufsize /\ f.off_mem_rsvmap = RsvStart
  /\ f.off_dt_struct = RsvStart + rsv /\ f.size_dt_struct = size
  /\ f.off_dt_strings = strings /\ f.size_dt_strings = 0
  /\ \A i \in 1 .. Len(cells) : f.mem[RsvStart + (i - 1)] = cells[i]

Cleared(b, magic, bufsize, rsv, size, strings) ==
  [b EXCEPT !.magic = magic, !.version = 17, !.totalsize = bufsize,
            !.off_mem_rsvmap = RsvStart, !.off_dt_struct = RsvStart + rsv,
            !.size_dt_struct = size, !.off_dt_strings = strings,
            !.size_dt_strings = 0, !.mem = [p \in Memory |-> Junk]]

\* The head of a sequence of cells.
LEMMA HeadCells ==
  ASSUME NEW s \in Seq(Cells), NEW n \in 0 .. Len(s)
  PROVE  /\ SubSeq(s, 1, n) \in Seq(Cells) /\ Len(SubSeq(s, 1, n)) = n
         /\ \A i \in 1 .. n : SubSeq(s, 1, n)[i] = s[i]
OBVIOUS

\* Cells put into a blank buffer.
LEMMA MakeOver ==
  ASSUME NEW b \in Blobs, NEW magic \in {"FDT", "SW"}, NEW bufsize \in 1 .. MaxSize,
         NEW rsv \in Nat, NEW size \in Nat, NEW strings \in Nat, NEW cells \in Seq(Cells),
         RsvStart + Len(cells) <= bufsize
  PROVE  MadeOver(Put(Cleared(b, magic, bufsize, rsv, size, strings), RsvStart, cells),
                  magic, bufsize, rsv, size, strings, cells)
<1>1. RsvStart \in Nat /\ MaxSize \in Nat  BY FdtRwAssumption
<1> DEFINE m == [p \in Memory |-> Junk]
<1>2. m \in [Memory -> [tag : Tags, x : Nat, y : Nat]]
  <2>1. Junk \in [tag : Tags, x : Nat, y : Nat]  BY DEF Junk, Cell, Tags
  <2> QED BY <2>1
<1> HIDE DEF m
<1> DEFINE new == [b EXCEPT !.magic = magic, !.version = 17, !.totalsize = bufsize,
                            !.off_mem_rsvmap = RsvStart, !.off_dt_struct = RsvStart + rsv,
                            !.size_dt_struct = size, !.off_dt_strings = strings,
                            !.size_dt_strings = 0, !.mem = m]
           f == Put(new, RsvStart, cells)
<1>3. new \in Blobs
  <2>1. /\ bufsize \in 0 .. MaxSize /\ RsvStart + rsv \in Nat /\ RsvStart \in Nat
        /\ size \in Nat /\ strings \in Nat /\ 0 \in Nat
    BY <1>1
  <2> DEFINE head == [b EXCEPT !.magic = magic, !.version = 17, !.totalsize = bufsize,
                               !.off_mem_rsvmap = RsvStart]
             blocks == [head EXCEPT !.off_dt_struct = RsvStart + rsv, !.size_dt_struct = size,
                                    !.off_dt_strings = strings, !.size_dt_strings = 0]
  <2>2. head \in Blobs  BY <2>1 DEF Blobs
  <2> HIDE DEF head
  <2>3. blocks \in Blobs  BY <2>1, <2>2 DEF Blobs
  <2> HIDE DEF blocks
  <2>4. [blocks EXCEPT !.mem = m] \in Blobs  BY <1>2, <2>3 DEF Blobs
  <2> QED BY <2>4 DEF blocks, head
<1>4. /\ new.magic = magic /\ new.version = 17 /\ new.totalsize = bufsize /\ new.off_mem_rsvmap = RsvStart
      /\ new.off_dt_struct = RsvStart + rsv /\ new.size_dt_struct = size
      /\ new.off_dt_strings = strings /\ new.size_dt_strings = 0
  BY DEF Blobs
<1> HIDE DEF new
<1>5. PutMade(new, RsvStart, cells, f)  BY <1>1, <1>3, PutHeader
<1> HIDE DEF f
<1>6. /\ f \in Blobs /\ SameHeader(new, f)
      /\ \A p \in Memory : p \in RsvStart .. RsvStart + Len(cells) - 1 =>
           f.mem[p] = cells[p - RsvStart + 1]
  BY <1>5 DEF PutMade
<1>7. ASSUME NEW i \in 1 .. Len(cells) PROVE f.mem[RsvStart + (i - 1)] = cells[i]
  <2>1. /\ RsvStart + (i - 1) \in Memory /\ RsvStart + (i - 1) \in RsvStart .. RsvStart + Len(cells) - 1
        /\ (RsvStart + (i - 1)) - RsvStart + 1 = i
    BY <1>1 DEF Memory
  <2> QED BY <1>6, <2>1
<1>8. MadeOver(f, magic, bufsize, rsv, size, strings, cells)
  BY <1>4, <1>6, <1>7 DEF MadeOver, SameHeader
<1> QED BY <1>8 DEF f, new, m, Cleared

LEMMA EmptyTreeIs ==
  ASSUME NEW b \in Blobs, NEW bufsize \in 1 .. MaxSize
  PROVE  EmptyOr(b, bufsize, EmptyTree(b, bufsize))
<1> DEFINE name == NameCells(<<>>)
           c1 == Cell("entry", 0, 0)
           c2 == Cell("begin", 0, 0)
           c3 == Cell("data", 0, 0)
           c4 == Cell("end_node", 0, 0)
           c5 == Cell("end", 0, 0)
           cells == <<c1, c2>> \o name \o <<c4, c5>>
           room == bufsize - RsvStart
           rsv == IF room > 0 THEN 1 ELSE 0
           size == CASE room < 3 -> 0 [] room = 3 -> 2 [] room = 4 -> 3 [] OTHER -> 4
           part == SubSeq(cells, 1, rsv + size)
           Made(magic, strings) ==
             Put(Cleared(b, magic, bufsize, rsv, size, strings), RsvStart, part)
           r == EmptyTree(b, bufsize)
<1>1. RsvStart \in Nat /\ MaxSize \in Nat  BY FdtRwAssumption
<1>2. name = <<c3>>
  <2>1. Append(<<>>, 0) = <<0>>  OBVIOUS
  <2>2. Len(<<0>>) = 1 /\ Units(1) = 1  BY DEF Units
  <2>3. name = [i \in 1 .. 1 |-> Cell("data", <<0>>[2 * i - 1], IF 2 * i <= 1 THEN <<0>>[2 * i] ELSE 0)]
    BY <2>1, <2>2 DEF NameCells, Bytes
  <2>4. \A i \in 1 .. 1 : i = 1 /\ 2 * i - 1 = 1 /\ ~(2 * i <= 1)  OBVIOUS
  <2>5. name = [i \in 1 .. 1 |-> c3]  BY <2>3, <2>4
  <2> QED BY <2>5
<1>3. {c1, c2, c3, c4, c5, Junk} \subseteq Cells  BY DEF Junk, Cell, Cells, Tags
<1>4. /\ c1.x = 0 /\ c2.tag = "begin" /\ c3.tag = "data" /\ c3.x = 0 /\ c4.tag = "end_node"
      /\ c5.tag = "end"
  BY DEF Cell
<1> HIDE DEF c1, c2, c3, c4, c5, name
<1>5. cells = <<c1, c2>> \o <<c3>> \o <<c4, c5>>  BY <1>2
<1> HIDE DEF cells
<1>6. /\ cells \in Seq(Cells) /\ Len(cells) = 5
      /\ cells[1] = c1 /\ cells[2] = c2 /\ cells[3] = c3 /\ cells[4] = c4 /\ cells[5] = c5
  <2> DEFINE h == <<c1, c2>>
             h3 == h \o <<c3>>
             t == <<c4, c5>>
  <2>1. h \in Seq(Cells) /\ Len(h) = 2 /\ h[1] = c1 /\ h[2] = c2  BY <1>3
  <2>2. t \in Seq(Cells) /\ Len(t) = 2 /\ t[1] = c4 /\ t[2] = c5  BY <1>3
  <2>3. cells = h3 \o t  BY <1>5
  <2> HIDE DEF h, t
  <2>4. <<c3>> \in Seq(Cells) /\ Len(<<c3>>) = 1 /\ <<c3>>[1] = c3  BY <1>3
  <2>5. 1 \in 1 .. 2 /\ 2 \in 1 .. 2 /\ 1 \in 1 .. 1 /\ 1 \in 1 .. 3 /\ 2 \in 1 .. 3 /\ 3 \in 1 .. 3
    OBVIOUS
  <2>6. h3 \in Seq(Cells) /\ Len(h3) = 3 /\ h3[1] = c1 /\ h3[2] = c2 /\ h3[2 + 1] = c3
    <3>1. /\ h \o <<c3>> \in Seq(Cells) /\ Len(h \o <<c3>>) = Len(h) + Len(<<c3>>)
          /\ \A i \in 1 .. Len(h) : (h \o <<c3>>)[i] = h[i]
          /\ \A i \in 1 .. Len(<<c3>>) : (h \o <<c3>>)[Len(h) + i] = <<c3>>[i]
      BY <2>1, <2>4, CellsJoined
    <3>2. /\ h3 \in Seq(Cells) /\ Len(h3) = 2 + 1
          /\ \A i \in 1 .. 2 : h3[i] = h[i]
          /\ \A i \in 1 .. 1 : h3[2 + i] = <<c3>>[i]
      BY <2>1, <2>4, <3>1
    <3> HIDE DEF h3
    <3> QED BY <2>1, <2>4, <2>5, <3>2
  <2> HIDE DEF h3
  <2>7. /\ cells \in Seq(Cells) /\ Len(cells) = 5 /\ cells[1] = c1 /\ cells[2] = c2
        /\ cells[3] = h3[3] /\ cells[3 + 1] = c4 /\ cells[3 + 2] = c5
    <3>1. /\ h3 \o t \in Seq(Cells) /\ Len(h3 \o t) = Len(h3) + Len(t)
          /\ \A i \in 1 .. Len(h3) : (h3 \o t)[i] = h3[i]
          /\ \A i \in 1 .. Len(t) : (h3 \o t)[Len(h3) + i] = t[i]
      BY <2>2, <2>6, CellsJoined
    <3>2. /\ cells \in Seq(Cells) /\ Len(cells) = 3 + 2
          /\ \A i \in 1 .. 3 : cells[i] = h3[i]
          /\ \A i \in 1 .. 2 : cells[3 + i] = t[i]
      BY <2>2, <2>3, <2>6, <3>1
    <3> QED BY <2>2, <2>5, <2>6, <3>2
  <2> QED BY <2>6, <2>7
<1>7. r = IF room < 0 THEN Fail(NOSPACE, b)
          ELSE IF size < 4 THEN Fail(NOSPACE, Made("SW", bufsize))
          ELSE Done(Made("FDT", RsvStart + 5))
  BY DEF EmptyTree, Cleared, cells, name, c1, c2, c4, c5
<1> HIDE DEF r
<1>8. room \in Int /\ RsvStart + room = bufsize  BY <1>1
<1> HIDE DEF room
<1>9. ASSUME room >= 0
      PROVE  /\ rsv \in {0, 1} /\ size \in {0, 2, 3, 4} /\ rsv + size <= room /\ rsv + size <= 5
             /\ size > 0 => rsv = 1
  BY <1>8, <1>9
<1>10. ASSUME room >= 0, NEW magic \in {"FDT", "SW"}, NEW strings \in Nat
       PROVE  MadeOver(Made(magic, strings), magic, bufsize, rsv, size, strings, part)
              /\ part \in Seq(Cells) /\ Len(part) = rsv + size
              /\ \A i \in 1 .. rsv + size : part[i] = cells[i]
  <2> DEFINE n == rsv + size
  <2>1. rsv \in Nat /\ size \in Nat /\ n \in 0 .. 5 /\ n <= room  BY <1>9, <1>10
  <2> HIDE DEF rsv, size, n
  <2>2. SubSeq(cells, 1, n) \in Seq(Cells) /\ Len(SubSeq(cells, 1, n)) = n
        /\ \A i \in 1 .. n : SubSeq(cells, 1, n)[i] = cells[i]
    <3>1. n \in 0 .. Len(cells)  BY <1>6, <2>1
    <3> QED BY <1>6, <3>1, HeadCells
  <2>3. part \in Seq(Cells) /\ Len(part) = n /\ \A i \in 1 .. n : part[i] = cells[i]  BY <2>2 DEF n
  <2> HIDE DEF part
  <2>4. RsvStart + Len(part) <= bufsize  BY <1>1, <1>8, <2>1, <2>3
  <2>5. MadeOver(Made(magic, strings), magic, bufsize, rsv, size, strings, part)
    BY <2>1, <2>3, <2>4, MakeOver
  <2> QED BY <2>3, <2>5 DEF n
<1> HIDE DEF part, Made
<1>11. CASE room < 0
  BY <1>7, <1>11 DEF EmptyOr, r
<1>12. CASE room >= 0 /\ size < 4
  <2> DEFINE g == Made("SW", bufsize)
  <2>1. bufsize \in Nat /\ "SW" \in {"FDT", "SW"}  OBVIOUS
  <2>2. /\ MadeOver(g, "SW", bufsize, rsv, size, bufsize, part)
        /\ Len(part) = rsv + size /\ \A i \in 1 .. rsv + size : part[i] = cells[i]
    BY <1>10, <1>12, <2>1
  <2>3. r.err = NOSPACE /\ r.fdt = g
    <3>1. ~(room < 0)  BY <1>8, <1>12
    <3> HIDE DEF size
    <3> QED BY <1>7, <1>12, <3>1 DEF Fail
  <2> HIDE DEF g
  <2>4. /\ g \in Blobs /\ g.magic = "SW" /\ g.version = 17 /\ g.totalsize = bufsize
        /\ g.off_mem_rsvmap = RsvStart /\ g.off_dt_struct = RsvStart + rsv
        /\ g.size_dt_struct = size /\ g.off_dt_strings = bufsize /\ g.size_dt_strings = 0
        /\ \A i \in 1 .. rsv + size : g.mem[RsvStart + (i - 1)] = cells[i]
    BY <2>2 DEF MadeOver
  <2>5. rsv \in {0, 1} /\ size \in {0, 2, 3} /\ rsv + size <= room /\ (size > 0 => rsv = 1)
    BY <1>9, <1>12
  <2> HIDE DEF rsv, size
  <2>6. ASSUME size # 0 PROVE RootLeft(g, bufsize)
    <3>1. rsv = 1 /\ size \in {2, 3}  BY <2>5, <2>6
    <3>2. /\ 1 \in 1 .. rsv + size /\ 2 \in 1 .. rsv + size /\ 3 \in 1 .. rsv + size
          /\ size = 3 => 4 \in 1 .. rsv + size
      BY <3>1
    <3>3. /\ g.mem[RsvStart + (1 - 1)] = c1 /\ g.mem[RsvStart + (2 - 1)] = c2
          /\ g.mem[RsvStart + (3 - 1)] = c3 /\ (size = 3 => g.mem[RsvStart + (4 - 1)] = c4)
      BY <1>6, <2>4, <3>2
    <3>4. /\ RsvStart + (1 - 1) = RsvStart /\ RsvStart + (2 - 1) = RsvStart + 1 + 0
          /\ RsvStart + (3 - 1) = RsvStart + 1 + 1 /\ RsvStart + (4 - 1) = RsvStart + 1 + 2
      BY <1>1
    <3>5. g.off_dt_struct = RsvStart + 1  BY <2>4, <3>1
    <3>6. /\ g.mem[RsvStart] = c1 /\ At(g, 0) = c2 /\ At(g, 1) = c3 /\ (size = 3 => At(g, 2) = c4)
      BY <3>3, <3>4, <3>5 DEF At
    <3>7. RsvStart + 1 + size <= bufsize  BY <1>1, <1>8, <2>5, <3>1
    <3>8. g.mem[RsvStart].x = 0  BY <1>4, <3>6
    <3>9. NameCells(<<>>) = <<Cell("data", 0, 0)>>  BY <1>2 DEF name, c3
    <3>10. At(g, 0) = Cell("begin", 0, 0) /\ At(g, 1) = Cell("data", 0, 0)  BY <3>6 DEF c2, c3
    <3>11. g.size_dt_struct = 2 \/ (g.size_dt_struct = 3 /\ At(g, 2) = Cell("end_node", 0, 0))
      <4>1. g.size_dt_struct = size  BY <2>4
      <4>2. CASE size = 2  BY <4>1, <4>2
      <4>3. CASE size = 3  BY <3>6, <4>1, <4>3 DEF c4
      <4> QED BY <3>1, <4>2, <4>3
    <3>12. /\ g.version = 17 /\ g.totalsize = bufsize /\ RsvStart + 1 + g.size_dt_struct <= bufsize
           /\ g.off_mem_rsvmap = RsvStart /\ g.off_dt_strings = bufsize /\ g.size_dt_strings = 0
      BY <2>4, <3>7
    <3> QED BY <3>5, <3>8, <3>9, <3>10, <3>11, <3>12 DEF RootLeft
  <2>7. EmptyLeft(g, bufsize)  BY <2>4, <2>6 DEF EmptyLeft
  <2> QED BY <2>3, <2>7 DEF EmptyOr, r
<1>13. CASE room >= 0 /\ ~(size < 4)
  <2> DEFINE f == Made("FDT", RsvStart + 5)
             m == f.mem
             st == RsvStart + 1
             end == RsvStart + 4
  <2>0. /\ RsvStart + 5 \in Nat /\ "FDT" \in {"FDT", "SW"} /\ size = 4 /\ rsv = 1
        /\ RsvStart + 5 <= bufsize
    BY <1>1, <1>8, <1>9, <1>13
  <2>1. /\ MadeOver(f, "FDT", bufsize, 1, 4, RsvStart + 5, part)
        /\ Len(part) = 5 /\ \A i \in 1 .. 5 : part[i] = cells[i]
    <3>1. /\ MadeOver(f, "FDT", bufsize, rsv, size, RsvStart + 5, part)
          /\ Len(part) = rsv + size /\ \A i \in 1 .. rsv + size : part[i] = cells[i]
      BY <1>10, <1>13, <2>0
    <3> HIDE DEF rsv, size, f
    <3> QED BY <2>0, <3>1
  <2>16. r.err = 0 /\ r.fdt = f
    <3>1. ~(room < 0)  BY <1>8, <1>13
    <3> HIDE DEF size
    <3> QED BY <1>7, <1>13, <3>1 DEF Done
  <2> HIDE DEF f
  <2>2. /\ f \in Blobs /\ f.magic = "FDT" /\ f.version = 17 /\ f.totalsize = bufsize
        /\ f.off_mem_rsvmap = RsvStart /\ f.off_dt_struct = RsvStart + 1 /\ f.size_dt_struct = 4
        /\ f.off_dt_strings = RsvStart + 5 /\ f.size_dt_strings = 0
        /\ \A i \in 1 .. 5 : f.mem[RsvStart + (i - 1)] = cells[i]
    BY <2>1 DEF MadeOver
  <2>3. ASSUME NEW i \in 0 .. 4 PROVE m[RsvStart + i] = cells[i + 1]
    <3>1. i + 1 \in 1 .. 5 /\ (i + 1) - 1 = i  OBVIOUS
    <3> QED BY <2>2, <3>1
  <2>4. /\ m[RsvStart + 0] = c1 /\ m[RsvStart + 1] = c2 /\ m[RsvStart + 2] = c3
        /\ m[RsvStart + 3] = c4 /\ m[RsvStart + 4] = c5
    <3>1. 0 \in 0 .. 4 /\ 1 \in 0 .. 4 /\ 2 \in 0 .. 4 /\ 3 \in 0 .. 4 /\ 4 \in 0 .. 4  OBVIOUS
    <3>2. /\ cells[0 + 1] = c1 /\ cells[1 + 1] = c2 /\ cells[2 + 1] = c3 /\ cells[3 + 1] = c4
          /\ cells[4 + 1] = c5
      BY <1>6
    <3> QED BY <2>3, <3>1, <3>2
  <2>5. /\ st \in Nat /\ end \in Nat /\ st + 1 = RsvStart + 2 /\ st + 2 = RsvStart + 3
        /\ st + 3 = end /\ RsvStart + 0 = RsvStart
    BY <1>1
  <2>6. m[st] = c2 /\ m[st + 1] = c3 /\ m[st + 2] = c4 /\ m[end] = c5 /\ m[RsvStart + 0] = c1
    BY <2>4, <2>5
  <2> HIDE DEF st, end, m
  <2>7. Elem(m, st, st + 2)
    <3> DEFINE u == st + 2
    <3>1. u - 1 = st + 1 /\ u - 2 = st /\ u \in Nat /\ st + 1 < u  BY <2>5
    <3>2. m[st].tag = "begin" /\ m[st + 1].tag = "data" /\ m[st + 1].x = 0  BY <1>4, <2>6
    <3> HIDE DEF u
    <3>3. \A i \in st + 1 .. u - 1 : i = st + 1  BY <2>5, <3>1
    <3>4. \A i \in st + 1 .. u - 1 : m[i].tag \notin Opens /\ m[i].tag # "end"
      BY <3>2, <3>3 DEF Opens
    <3>5. HasNul(m[u - 1])  BY <3>1, <3>2 DEF HasNul
    <3>6. \A i \in st + 1 .. u - 2 : ~HasNul(m[i])  BY <2>5, <3>1
    <3>7. m[st].tag \in Opens /\ m[st].tag # "prop" /\ m[st].tag \notin {"end_node", "nop"}
      BY <3>2 DEF Opens
    <3>8. Elem(m, st, u)  BY <3>1, <3>4, <3>5, <3>6, <3>7 DEF Elem
    <3> QED BY <3>8 DEF u
  <2>8. Elem(m, st + 2, end)
    <3>1. \A i \in st + 2 + 1 .. end - 1 : FALSE  BY <2>5
    <3>2. end = st + 2 + 1  BY <2>5
    <3> QED BY <1>4, <2>6, <3>1, <3>2 DEF Elem, Opens
  <2>9. Run(m, st, end)
    <3>1. st + 2 \in Nat /\ st < st + 2 /\ st + 2 < end /\ st <= st + 2 /\ st + 2 <= end  BY <2>5
    <3>2. Run(m, st, st + 2)  BY <2>5, <2>7, <3>1, RunElem
    <3>3. Run(m, st + 2, end)  BY <2>5, <2>8, <3>1, RunElem
    <3> QED BY <2>5, <3>1, <3>2, <3>3, RunJoin
  <2>10. Named(m, st, end, RsvStart + 5, 0)
    <3>1. \A q \in st .. end - 1 : q = st \/ q = st + 1 \/ q = st + 2  BY <2>5
    <3>2. \A q \in st .. end - 1 : m[q].tag # "prop"  BY <1>4, <2>6, <3>1
    <3> QED BY <3>2 DEF Named
  <2>11. RsvMap(m, RsvStart, 0)  BY <1>4, <2>6 DEF RsvMap
  <2>12. Holds(f, 0, 3)
    <3>1. /\ RsvStart + 0 + 1 <= st /\ RsvStart + 0 + 1 <= bufsize /\ RsvStart <= RsvStart
          /\ RsvStart <= st /\ st + 3 + 1 <= bufsize /\ RsvStart <= RsvStart + 5
          /\ RsvStart + 5 + 0 <= bufsize /\ RsvStart + 0 + 1 <= RsvStart + 5
          /\ st + 3 + 1 <= RsvStart + 5 /\ 3 + 1 = 4
      BY <1>1, <2>0, <2>5 DEF st
    <3>2. f.off_dt_struct = st /\ f.mem = m  BY <2>2 DEF st, m
    <3>3. RsvMap(f.mem, f.off_mem_rsvmap, 0)  BY <2>2, <2>11, <3>2
    <3>4. Run(f.mem, f.off_dt_struct, f.off_dt_struct + 3)  BY <2>5, <2>9, <3>2
    <3>5. f.mem[f.off_dt_struct + 3].tag = "end"  BY <1>4, <2>5, <2>6, <3>2
    <3>6. Named(f.mem, f.off_dt_struct, f.off_dt_struct + 3, f.off_dt_strings, f.size_dt_strings)
      BY <2>2, <2>5, <2>10, <3>2
    <3> QED BY <2>2, <3>1, <3>2, <3>3, <3>4, <3>5, <3>6 DEF Holds, Disjoint
  <2>13. At(f, 0) = c2 /\ At(f, 1) = c3 /\ At(f, 2) = c4
    <3>1. f.off_dt_struct = st /\ f.mem = m  BY <2>2 DEF st, m
    <3>2. st + 0 = st  BY <2>5
    <3> QED BY <2>6, <3>1, <3>2 DEF At
  <2>15. EmptyMade(f, bufsize)
    BY <1>2, <2>0, <2>2, <2>12, <2>13 DEF EmptyMade, c2, c3, c4, name
  <2> QED BY <2>15, <2>16 DEF EmptyOr, r
<1> QED BY <1>8, <1>11, <1>12, <1>13

LEMMA EmptyTreeFine ==
  ASSUME NEW b \in Blobs, Fine(b), NEW bufsize \in 1 .. MaxSize
  PROVE  Fine(EmptyTree(b, bufsize).fdt)
<1> DEFINE r == EmptyTree(b, bufsize)
<1>1. EmptyOr(b, bufsize, r)  BY EmptyTreeIs
<1> HIDE DEF r
<1>2. CASE r = Fail(NOSPACE, b)  BY <1>2 DEF Fail, r
<1>3. CASE EmptyLeft(r.fdt, bufsize)
  <2>1. Fine(r.fdt)  BY <1>3 DEF EmptyLeft, Fine
  <2> QED BY <2>1 DEF r
<1>4. CASE EmptyMade(r.fdt, bufsize)
  <2>1. 0 \in Nat /\ 3 \in Nat /\ r.fdt \in Blobs /\ Holds(r.fdt, 0, 3)  BY <1>4 DEF EmptyMade
  <2>2. Fine(r.fdt)  BY <2>1 DEF Fine
  <2> QED BY <2>2 DEF r
<1> QED BY <1>1, <1>2, <1>3, <1>4 DEF EmptyOr

-----------------------------------------------------------------------------
\* Runs of elements, and what StructureSound and BlocksApart say of a blob.

Marks == {"begin", "end_node", "prop", "nop", "end"}
Marked(b) == {q \in 0 .. End(b) : Tag(b, q) \in Marks}

LEMMA SoundIs ==
  ASSUME NEW b
  PROVE  Sound(b) <=>
         /\ 0 \in Marked(b) /\ Tag(b, End(b)) = "end"
         /\ b.version >= 17 => b.size_dt_struct = End(b) + 1
         /\ \A q \in Marked(b) \ {End(b)} : NextTag(b, q) = Min({p \in Marked(b) : p > q})
         /\ \A q \in Marked(b) : Tag(b, q) = "prop" => \E n \in PropNames : At(b, q).x \in Found(b, n)
         /\ \E i \in 0 .. b.totalsize - b.off_mem_rsvmap - 1 : b.mem[b.off_mem_rsvmap + i].x = 0
BY DEF Sound, Marked, Marks

LEMMA ApartIs ==
  ASSUME NEW b
  PROVE  LET rsv == b.off_mem_rsvmap
             rsvend == b.off_mem_rsvmap + NumMemRsv(b) + 1
             st == b.off_dt_struct
             stend == b.off_dt_struct + End(b) + 1
             str == b.off_dt_strings
             strend == b.off_dt_strings + b.size_dt_strings
         IN  Apart(b) <=> /\ RsvStart <= rsv /\ rsvend <= b.totalsize
                          /\ RsvStart <= st /\ stend <= b.totalsize
                          /\ RsvStart <= str /\ strend <= b.totalsize
                          /\ Disjoint(rsv, rsvend, st, stend)
                          /\ Disjoint(rsv, rsvend, str, strend)
                          /\ Disjoint(st, stend, str, strend)
<1> DEFINE rsv == b.off_mem_rsvmap
           rsvend == b.off_mem_rsvmap + NumMemRsv(b) + 1
           st == b.off_dt_struct
           stend == b.off_dt_struct + End(b) + 1
           str == b.off_dt_strings
           strend == b.off_dt_strings + b.size_dt_strings
           end == [rsv |-> rsvend, struct |-> stend, strings |-> strend]
           start == [rsv |-> rsv, struct |-> st, strings |-> str]
<1>1. Apart(b) <=> \A p \in DOMAIN end :
                     /\ RsvStart <= start[p] /\ end[p] <= b.totalsize
                     /\ \A q \in DOMAIN end \ {p} : end[p] <= start[q] \/ end[q] <= start[p]
  BY DEF Apart
<1> HIDE DEF rsv, rsvend, st, stend, str, strend
<1>2. DOMAIN end = {"rsv", "struct", "strings"}  OBVIOUS
<1>3. /\ end["rsv"] = rsvend /\ end["struct"] = stend /\ end["strings"] = strend
      /\ start["rsv"] = rsv /\ start["struct"] = st /\ start["strings"] = str
  OBVIOUS
<1> HIDE DEF end, start
<1>4. Apart(b) <=> /\ RsvStart <= rsv /\ rsvend <= b.totalsize
                   /\ RsvStart <= st /\ stend <= b.totalsize
                   /\ RsvStart <= str /\ strend <= b.totalsize
                   /\ Disjoint(rsv, rsvend, st, stend)
                   /\ Disjoint(rsv, rsvend, str, strend)
                   /\ Disjoint(st, stend, str, strend)
  BY <1>1, <1>2, <1>3 DEF Disjoint
<1> QED BY <1>4 DEF rsv, rsvend, st, stend, str, strend

\* The element at a tag whose successor fdt_next_tag finds.
LEMMA ElemAt ==
  ASSUME NEW b \in Blobs, NEW q \in Nat, NEW n \in Nat, Size(b) \in Int, q < n, n < Size(b),
         NextTag(b, q) = n, At(b, q).tag \in Opens, At(b, q) \in Cells,
         \A i \in q + 1 .. n - 1 : At(b, i).tag \notin Marks
  PROVE  Elem(b.mem, b.off_dt_struct + q, b.off_dt_struct + n)
<1> DEFINE st == b.off_dt_struct
           c == At(b, q)
           T == {j \in q + 1 .. Size(b) - 1 : 0 \in {At(b, j).x, At(b, j).y}}
           p == st + q
           r == st + n
           m == b.mem
<1>0. c.tag \in Opens  OBVIOUS
<1>1. st \in Nat  BY BlobFields
<1>2. Tag(b, q) = c.tag  BY DEF Tag
<1>3. c = m[p]  BY DEF At
<1>4. Tag(b, q) # "none"  BY <1>2 DEF Opens
<1>5. p \in Nat /\ r \in Nat /\ p < r /\ r - p - 1 = n - q - 1  BY <1>1
<1>6. ASSUME NEW i \in p + 1 .. r - 1 PROVE i - st \in q + 1 .. n - 1 /\ m[i] = At(b, i - st)
  <2>1. i - st \in q + 1 .. n - 1 /\ st + (i - st) = i  BY <1>1
  <2> QED BY <2>1 DEF At
<1>7. \A i \in p + 1 .. r - 1 : m[i].tag \notin Opens /\ m[i].tag # "end"
  <2>1. \A i \in p + 1 .. r - 1 : m[i].tag \notin Marks  BY <1>6
  <2> QED BY <2>1 DEF Marks, Opens
<1>8. BADSTRUCTURE < 0  BY DEF BADSTRUCTURE
<1>9. c.tag = "prop" => Units(m[p].y) = r - p - 1
  <2> SUFFICES ASSUME c.tag = "prop" PROVE Units(c.y) = n - q - 1  BY <1>3, <1>5
  <2>1. NextTag(b, q) = LET end == q + 1 + Units(c.y) IN IF end > Size(b) THEN BADSTRUCTURE ELSE end
    BY <1>4 DEF NextTag
  <2>2. q + 1 + Units(c.y) = n  BY <1>8, <2>1
  <2>3. Units(c.y) \in Nat
    <3>1. c.y \in Nat  BY DEF Cells
    <3> QED BY <3>1, UnitsLemma
  <2> QED BY <2>2, <2>3
<1>10. c.tag \in {"end_node", "nop"} => r = p + 1
  <2> SUFFICES ASSUME c.tag \in {"end_node", "nop"} PROVE n = q + 1  BY <1>1
  <2>1. NextTag(b, q) = LET end == q + 1 IN IF end > Size(b) THEN BADSTRUCTURE ELSE end
    BY <1>4 DEF NextTag
  <2> QED BY <1>8, <2>1
<1>11. c.tag = "begin" => /\ p + 1 < r /\ HasNul(m[r - 1])
                          /\ \A i \in p + 1 .. r - 2 : ~HasNul(m[i])
  <2> SUFFICES ASSUME c.tag = "begin"
               PROVE /\ p + 1 < r /\ HasNul(m[r - 1]) /\ \A i \in p + 1 .. r - 2 : ~HasNul(m[i])
    OBVIOUS
  <2> DEFINE low == Lowest(T, Size(b))
  <2>1. NextTag(b, q) = LET end == low + 1 IN IF end > Size(b) THEN BADSTRUCTURE ELSE end
    BY <1>4 DEF NextTag
  <2>2. T \in SUBSET Nat  OBVIOUS
  <2> HIDE DEF T
  <2>3. \/ T = {} /\ low = Size(b)
        \/ T # {} /\ low \in T /\ \A y \in T : low <= y
    BY <2>2, LowestLemma
  <2> HIDE DEF low
  <2>4. low \in T /\ \A y \in T : low <= y  BY <1>8, <2>1, <2>3
  <2>5. low \in Nat /\ low + 1 = n  BY <1>8, <2>1, <2>2, <2>4
  <2>6. low \in q + 1 .. Size(b) - 1 /\ 0 \in {At(b, low).x, At(b, low).y}  BY <2>4 DEF T
  <2>7. p + 1 < r /\ st + low = r - 1  BY <1>1, <2>5, <2>6
  <2>8. HasNul(m[r - 1])  BY <2>6, <2>7 DEF At, HasNul
  <2>9. ASSUME NEW i \in p + 1 .. r - 2, HasNul(m[i]) PROVE FALSE
    <3>1. i \in p + 1 .. r - 1 /\ i - st < low /\ i - st \in Int  BY <1>1, <2>5
    <3>2. i - st \in q + 1 .. n - 1 /\ m[i] = At(b, i - st)  BY <1>6, <3>1
    <3>3. i - st \in q + 1 .. Size(b) - 1  BY <3>2
    <3>4. i - st \in T  BY <2>9, <3>2, <3>3 DEF T, HasNul
    <3> QED BY <2>4, <2>5, <3>1, <3>4
  <2> QED BY <2>7, <2>8, <2>9
<1> HIDE DEF st, p, r, m, c
<1>12. Elem(m, p, r)  BY <1>0, <1>3, <1>7, <1>9, <1>10, <1>11 DEF Elem
<1> QED BY <1>12 DEF st, p, r, m

\* Behind the element at q of a structure with END at e comes another or END.
Followed(b, e, q) ==
  \E n \in q + 1 .. e :
          Elem(b.mem, b.off_dt_struct + q, b.off_dt_struct + n) /\ (n < e => At(b, n).tag \in Opens)

\* The blobs of a caller are in order.
LEMMA SoundFine ==
  ASSUME NEW b \in Blobs, Apart(b), Sound(b)
  PROVE  Fine(b)
<1> DEFINE st == b.off_dt_struct
           e == End(b)
           size == Size(b)
           k == NumMemRsv(b)
           str == b.off_dt_strings
           sl == b.size_dt_strings
<1>1. /\ st \in Nat /\ b.totalsize \in Nat /\ size \in Int /\ b.off_mem_rsvmap \in Nat
      /\ b.mem \in [Memory -> Cells] /\ str \in Nat /\ sl \in Nat
  <2>1. st \in Nat /\ b.totalsize \in Nat /\ b.size_dt_struct \in Nat  BY BlobFields
  <2>2. size \in Int  BY <2>1 DEF Size
  <2> QED BY <2>1, <2>2, BlobFields DEF Cells
<1>2. /\ 0 \in Marked(b) /\ Tag(b, e) = "end" /\ (b.version >= 17 => b.size_dt_struct = e + 1)
      /\ \A q \in Marked(b) \ {e} : NextTag(b, q) = Min({p \in Marked(b) : p > q})
      /\ \A q \in Marked(b) : Tag(b, q) = "prop" => \E n \in PropNames : At(b, q).x \in Found(b, n)
      /\ \E i \in 0 .. b.totalsize - b.off_mem_rsvmap - 1 : b.mem[b.off_mem_rsvmap + i].x = 0
  BY SoundIs
<1>3. e \in 0 .. size - 1 /\ At(b, e).tag = "end"
  BY <1>2 DEF Tag
<1>4. ASSUME NEW q \in 0 .. e PROVE Tag(b, q) = At(b, q).tag
  <2>1. q \in 0 .. size - 1  BY <1>1, <1>3
  <2> QED BY <2>1 DEF Tag
<1>5. ASSUME NEW q \in 0 .. e - 1 PROVE At(b, q).tag # "end"
  <2> DEFINE T == {j \in 0 .. Size(b) - 1 : At(b, j).tag = "end"}
  <2>1. SUFFICES ASSUME At(b, q).tag = "end" PROVE FALSE  OBVIOUS
  <2>2. q \in T  BY <1>1, <1>3, <2>1
  <2>3. End(b) = Lowest(T, Size(b))  BY DEF End
  <2>4. T \in SUBSET Nat  OBVIOUS
  <2> HIDE DEF T
  <2>5. Lowest(T, Size(b)) <= q  BY <2>2, <2>4, LowestLemma
  <2> QED BY <1>1, <1>3, <2>3, <2>5
<1>6. k \in Nat /\ RsvMap(b.mem, b.off_mem_rsvmap, k)
  <2> DEFINE r == b.off_mem_rsvmap
             T == {i \in 0 .. b.totalsize - r - 1 : b.mem[r + i].x = 0}
  <2>1. T # {} /\ T \in SUBSET Nat  BY <1>2
  <2>2. k = Min(T)  BY DEF NumMemRsv
  <2> HIDE DEF T
  <2>3. k \in T /\ \A y \in T : k <= y  BY <2>1, <2>2, MinLemma
  <2> HIDE DEF k
  <2>4. k \in 0 .. b.totalsize - r - 1 /\ b.mem[r + k].x = 0  BY <2>3 DEF T
  <2>5. ASSUME NEW i \in 0 .. k - 1, b.mem[r + i].x = 0 PROVE FALSE
    <3>1. i \in T  BY <1>1, <2>4, <2>5 DEF T
    <3> QED BY <2>3, <2>4, <3>1
  <2> QED BY <2>4, <2>5 DEF RsvMap
<1>7. /\ RsvStart <= b.off_mem_rsvmap /\ b.off_mem_rsvmap + k + 1 <= b.totalsize
      /\ RsvStart <= st /\ st + e + 1 <= b.totalsize
      /\ RsvStart <= str /\ str + sl <= b.totalsize
      /\ Disjoint(b.off_mem_rsvmap, b.off_mem_rsvmap + k + 1, st, st + e + 1)
      /\ Disjoint(b.off_mem_rsvmap, b.off_mem_rsvmap + k + 1, str, str + sl)
      /\ Disjoint(st, st + e + 1, str, str + sl)
  BY ApartIs
<1> HIDE DEF k, e, size, st, str, sl
<1>8. ASSUME NEW q \in 0 .. e - 1, At(b, q).tag \in Opens
      PROVE  Followed(b, e, q)
  <2> DEFINE R == {p \in Marked(b) : p > q}
  <2>1. Marked(b) = {p \in 0 .. e : Tag(b, p) \in Marks}  BY DEF Marked, e
  <2>2. e \in Nat /\ q \in Nat  BY <1>1, <1>3
  <2>3. q \in Marked(b) \ {e}  BY <1>4, <1>8, <2>1, <2>2 DEF Opens, Marks
  <2>4. e \in R  BY <1>2, <2>1, <2>2 DEF Marks
  <2>5. R \in SUBSET Nat /\ R # {}  BY <2>1, <2>4
  <2> DEFINE n == NextTag(b, q)
  <2>6. n = Min(R)  BY <1>2, <2>3
  <2> HIDE DEF R
  <2>7. n \in R /\ \A y \in R : n <= y  BY <2>5, <2>6, MinLemma
  <2> HIDE DEF n
  <2>8. n \in q + 1 .. e /\ n \in 0 .. e /\ Tag(b, n) \in Marks  BY <2>1, <2>2, <2>7 DEF R
  <2>9. ASSUME NEW i \in q + 1 .. n - 1 PROVE At(b, i).tag \notin Marks
    <3>1. SUFFICES ASSUME At(b, i).tag \in Marks PROVE FALSE  OBVIOUS
    <3>2. i \in 0 .. e /\ i > q  BY <2>2, <2>8
    <3>3. i \in R  BY <1>4, <2>1, <3>1, <3>2 DEF R
    <3> QED BY <2>2, <2>7, <2>8, <3>3
  <2>10. n < e => At(b, n).tag \in Opens
    <3> SUFFICES ASSUME n < e PROVE At(b, n).tag \in Opens  OBVIOUS
    <3>1. n \in 0 .. e - 1  BY <2>2, <2>8
    <3>2. At(b, n).tag # "end" /\ At(b, n).tag \in Marks  BY <1>4, <1>5, <2>8, <3>1
    <3> QED BY <3>2 DEF Marks, Opens
  <2>11. At(b, q) \in Cells
    <3>1. st + q \in Nat /\ st + q < b.totalsize  BY <1>1, <1>7, <2>2
    <3>2. b.mem[st + q] \in Cells  BY <3>1, MemoryCells DEF Cells
    <3> QED BY <3>2 DEF At, st
  <2>12. Elem(b.mem, b.off_dt_struct + q, b.off_dt_struct + n)
    <3>1. n \in Nat /\ q < n  BY <2>2, <2>8
    <3>2. n < Size(b) /\ Size(b) \in Int  BY <1>1, <1>3, <2>2, <2>8 DEF size
    <3>3. NextTag(b, q) = n  BY DEF n
    <3> QED BY <1>8, <2>2, <2>9, <2>11, <3>1, <3>2, <3>3, ElemAt
  <2> QED BY <2>8, <2>10, <2>12 DEF Followed
<1>9. Run(b.mem, st, st + e)
  <2>0. e \in Nat /\ st \in Nat  BY <1>1, <1>3
  <2>1. ASSUME NEW p \in st .. st + e - 1
        PROVE  p - st \in 0 .. e - 1 /\ b.mem[p] = At(b, p - st) /\ st + (p - st) = p
    <3>1. p - st \in 0 .. e - 1 /\ st + (p - st) = p  BY <2>0
    <3> QED BY <3>1 DEF At, st
  <2>2. st < st + e => b.mem[st].tag \in Opens
    <3> SUFFICES ASSUME 0 < e PROVE b.mem[st].tag \in Opens  BY <2>0
    <3>1. 0 \in 0 .. e - 1 /\ 0 \in 0 .. e /\ st + 0 = st  BY <2>0
    <3>2. At(b, 0).tag # "end" /\ At(b, 0).tag \in Marks
      BY <1>2, <1>4, <1>5, <3>1 DEF Marked
    <3>3. At(b, 0) = b.mem[st]  BY <3>1 DEF At, st
    <3> QED BY <3>2, <3>3 DEF Marks, Opens
  <2>3. \A p \in st .. st + e - 1 : b.mem[p].tag # "end"  BY <1>5, <2>1
  <2>4. \A n \in Nat : At(b, n) = b.mem[st + n]  BY DEF At, st
  <2>5. ASSUME NEW q \in 0 .. e - 1, At(b, q).tag \in Opens
        PROVE  \E r \in (st + q) + 1 .. st + e :
                 Elem(b.mem, st + q, r) /\ (r < st + e => b.mem[r].tag \in Opens)
    <3>1. Followed(b, e, q)  BY <1>8, <2>5
    <3>2. PICK n \in q + 1 .. e :
          Elem(b.mem, st + q, st + n) /\ (n < e => At(b, n).tag \in Opens)
      BY <3>1 DEF Followed, st
    <3>3. /\ n \in Nat /\ st + n \in (st + q) + 1 .. st + e
          /\ (st + n < st + e => n < e)
      BY <2>0
    <3>4. st + n < st + e => b.mem[st + n].tag \in Opens  BY <2>4, <3>2, <3>3
    <3>5. Elem(b.mem, st + q, st + n)  BY <3>2
    <3> QED BY <3>3, <3>4, <3>5
  <2>6. ASSUME NEW p \in st .. st + e - 1, b.mem[p].tag \in Opens
        PROVE  \E r \in p + 1 .. st + e : Elem(b.mem, p, r) /\ (r < st + e => b.mem[r].tag \in Opens)
    <3>1. PICK q \in 0 .. e - 1 : At(b, q).tag \in Opens /\ st + q = p  BY <2>1, <2>6
    <3>2. \E r \in (st + q) + 1 .. st + e :
            Elem(b.mem, st + q, r) /\ (r < st + e => b.mem[r].tag \in Opens)
      BY <2>5, <3>1
    <3> QED BY <3>1, <3>2
  <2> QED BY <2>0, <2>2, <2>3, <2>6 DEF Run
<1>10. Named(b.mem, st, st + e, str, sl)
  <2>0. e \in Nat /\ st \in Nat  BY <1>1, <1>3
  <2>1. ASSUME NEW p \in st .. st + e - 1, b.mem[p].tag = "prop"
        PROVE  \E n \in PropNames : IsString(b.mem, str, sl, b.mem[p].x, n)
    <3> DEFINE q == p - st
    <3>1. q \in 0 .. e /\ st + q = p  BY <2>0
    <3> HIDE DEF q
    <3>2. At(b, q) = b.mem[p]  BY <3>1 DEF At, st
    <3>3. q \in Marked(b) /\ Tag(b, q) = "prop"  BY <1>4, <2>1, <3>1, <3>2 DEF Marked, Marks, e
    <3>4. PICK n \in PropNames : At(b, q).x \in Found(b, n)  BY <1>2, <3>3
    <3>5. n \in Seq(Nat \ {0})  BY FdtEditAssumption
    <3>6. IsString(b.mem, str, sl, b.mem[p].x, n)  BY <3>2, <3>4, <3>5, FoundIs DEF str, sl
    <3> QED BY <3>6
  <2> QED BY <2>0, <2>1 DEF Named
<1>11. Holds(b, k, e)
  <2>1. b.mem[st + e].tag = "end"  BY <1>3 DEF At, st
  <2> QED BY <1>2, <1>6, <1>7, <1>9, <1>10, <2>1 DEF Holds, st, str, sl
<1>12. e \in Nat  BY <1>1, <1>3
<1> QED BY <1>6, <1>11, <1>12, HoldsFine

\* A blob in order is as the properties say.
LEMMA HoldsSound ==
  ASSUME NEW b \in Blobs, NEW k \in Nat, NEW e \in Nat, Holds(b, k, e)
  PROVE  Apart(b) /\ Sound(b)
<1> DEFINE st == b.off_dt_struct
           rsv == b.off_mem_rsvmap
<1>1. st \in Nat /\ b.totalsize \in Nat /\ rsv \in Nat  BY BlobFields
<1>2. /\ End(b) = e /\ Size(b) \in Int /\ e + 1 <= Size(b)
  BY EndIs
<1>3. NumMemRsv(b) = k  BY RsvCount
<1>4. Apart(b)
  BY <1>2, <1>3, ApartIs DEF Holds
<1>5. ASSUME NEW q \in 0 .. e PROVE Tag(b, q) = At(b, q).tag
  <2>1. q \in 0 .. Size(b) - 1  BY <1>2
  <2> QED BY <2>1 DEF Tag
<1>6. Marked(b) = {q \in 0 .. e : Tag(b, q) \in Marks}  BY <1>2 DEF Marked
<1>7. At(b, e).tag = "end" /\ Tag(b, e) = "end" /\ e \in Marked(b)
  <2>1. At(b, e).tag = "end"  BY DEF Holds, At
  <2>2. e \in 0 .. e  OBVIOUS
  <2> QED BY <1>5, <1>6, <2>1, <2>2 DEF Marks
<1>8. Run(b.mem, st, st + e)  BY DEF Holds
<1>9. 0 \in Marked(b)
  <2>1. CASE e = 0  BY <1>7, <2>1
  <2>2. CASE e > 0
    <3>1. st + e \in Nat /\ st < st + e /\ st + 0 = st /\ 0 \in 0 .. e  BY <1>1, <2>2
    <3> HIDE DEF st
    <3>2. b.mem[st].tag \in Opens  BY <1>8, <3>1 DEF Run
    <3>3. At(b, 0).tag \in Opens  BY <3>1, <3>2 DEF At, st
    <3> QED BY <1>5, <1>6, <3>1, <3>3 DEF Opens, Marks
  <2> QED BY <2>1, <2>2
<1>10. ASSUME NEW q \in Marked(b) \ {e}
       PROVE  q \in 0 .. e - 1 /\ At(b, q).tag \in Opens
  <2>1. q \in 0 .. e /\ q # e /\ Tag(b, q) \in Marks  BY <1>6
  <2>2. q \in 0 .. e - 1  BY <2>1
  <2>3. st + q \in st .. st + e - 1 /\ st + q \in Nat  BY <1>1, <2>2
  <2>4. b.mem[st + q].tag # "end"
    <3> HIDE DEF st
    <3> QED BY <1>1, <1>8, <2>3 DEF Run
  <2>5. At(b, q).tag # "end" /\ At(b, q).tag \in Marks  BY <1>5, <2>1, <2>4 DEF At
  <2> QED BY <2>2, <2>5 DEF Marks, Opens
<1>11. ASSUME NEW q \in Marked(b) \ {e}
       PROVE  NextTag(b, q) = Min({p \in Marked(b) : p > q})
  <2> DEFINE R == {p \in Marked(b) : p > q}
             n == NextTag(b, q)
  <2>1. q \in 0 .. e - 1 /\ At(b, q).tag \in Opens  BY <1>10
  <2>2. n \in q + 1 .. e /\ Elem(b.mem, st + q, st + n) /\ Run(b.mem, st + n, st + e)
    BY <2>1, TagAt
  <2>3. R \in SUBSET Nat
    <3>1. \A p \in Marked(b) : p \in Nat  BY <1>6
    <3> QED BY <3>1
  <2> HIDE DEF n, st
  <2>4. n \in R
    <3>1. n \in 0 .. e /\ n > q  BY <2>1, <2>2
    <3>2. CASE n = e  BY <1>7, <3>1, <3>2
    <3>3. CASE n # e
      <4>1. st + n < st + e /\ st + n \in Nat /\ st + e \in Nat  BY <1>1, <2>1, <2>2, <3>3
      <4> DEFINE s == st + n
                 t == st + e
      <4>2. s < t /\ Run(b.mem, s, t)  BY <2>2, <4>1
      <4> HIDE DEF s, t
      <4>3. b.mem[s].tag \in Opens  BY <4>2 DEF Run
      <4>4. At(b, n).tag \in Opens  BY <4>3 DEF s, st, At
      <4>5. n \in Marked(b)  BY <1>5, <1>6, <3>1, <4>4 DEF Opens, Marks
      <4> QED BY <3>1, <4>5
    <3> QED BY <3>2, <3>3
  <2>5. ASSUME NEW p \in R PROVE n <= p
    <3>1. SUFFICES ASSUME p < n PROVE FALSE  BY <2>1, <2>2, <2>3
    <3>2. p \in 0 .. e /\ p > q /\ Tag(b, p) \in Marks  BY <1>6
    <3>3. st + p \in st + q + 1 .. st + n - 1  BY <1>1, <2>1, <2>2, <3>1, <3>2
    <3> DEFINE s == st + q
               t == st + n
               i == st + p
    <3>4. i \in s + 1 .. t - 1 /\ Elem(b.mem, s, t) /\ s \in Nat /\ t \in Nat
      BY <1>1, <2>1, <2>2, <3>3
    <3> HIDE DEF s, t, i
    <3>5. b.mem[i].tag \notin Opens /\ b.mem[i].tag # "end"  BY <3>4 DEF Elem
    <3>6. At(b, p).tag \notin Opens /\ At(b, p).tag # "end"  BY <3>5 DEF i, st, At
    <3>7. At(b, p).tag \in Marks  BY <1>5, <3>2
    <3> QED BY <3>6, <3>7 DEF Marks, Opens
  <2> HIDE DEF R
  <2>6. Min(R) = n  BY <2>3, <2>4, <2>5, LowestIs
  <2> QED BY <2>6 DEF R, n
<1>12. ASSUME NEW q \in Marked(b), Tag(b, q) = "prop"
       PROVE  \E n \in PropNames : At(b, q).x \in Found(b, n)
  <2>1. q # e  BY <1>7, <1>12
  <2>2. q \in 0 .. e - 1 /\ q \in 0 .. e  BY <1>6, <1>10, <2>1
  <2>3. b.mem[st + q].tag = "prop" /\ At(b, q) = b.mem[st + q]  BY <1>5, <1>12, <2>2 DEF At
  <2>4. st + q \in st .. st + e - 1  BY <1>1, <2>2
  <2>5. PICK n \in PropNames :
          IsString(b.mem, b.off_dt_strings, b.size_dt_strings, b.mem[st + q].x, n)
    <3>1. Named(b.mem, st, st + e, b.off_dt_strings, b.size_dt_strings)  BY DEF Holds
    <3>2. st \in Nat /\ st + e \in Nat  BY <1>1
    <3> HIDE DEF st
    <3> QED BY <2>3, <2>4, <3>1, <3>2 DEF Named
  <2>6. n \in Seq(Nat \ {0})  BY FdtEditAssumption
  <2>7. At(b, q).x \in Found(b, n)  BY <2>3, <2>5, <2>6, FoundIs
  <2> QED BY <2>7
<1>13. \E i \in 0 .. b.totalsize - rsv - 1 : b.mem[rsv + i].x = 0
  <2>1. rsv + k + 1 <= b.totalsize /\ b.mem[rsv + k].x = 0  BY DEF Holds, RsvMap
  <2>2. k \in 0 .. b.totalsize - rsv - 1  BY <1>1, <2>1
  <2> QED BY <2>1, <2>2
<1>14. b.version >= 17 => b.size_dt_struct = e + 1  BY DEF Holds
<1>15. Sound(b)
  BY <1>2, <1>7, <1>9, <1>11, <1>12, <1>13, <1>14, SoundIs
<1> QED BY <1>4, <1>15

-----------------------------------------------------------------------------
\* The blob stays in order.

LEMMA InitFine == Init => IInv
<1> SUFFICES ASSUME Init PROVE Fine(fdt)  BY DEF IInv
<1> QED BY SourcesAssumption, SoundFine DEF Init

\* A call leaves a blob in order.
LEMMA DoFine ==
  ASSUME NEW call, NEW r, Do(call, r), Fine(r.fdt)
  PROVE  IInv'
BY DEF Do, IInv, Fine, Holds

LEMMA BlobCalls ==
  ASSUME NEW k \in Nat, NEW e \in Nat, fdt \in Blobs, Holds(fdt, k, e), OnBlob
  PROVE  IInv'
<1>1. CASE \E r \in Regions : Do(Call("add_rsv", 1, <<>>, <<r>>), AddMemRsv(fdt, r))
  <2>1. PICK r \in Regions : Do(Call("add_rsv", 1, <<>>, <<r>>), AddMemRsv(fdt, r))  BY <1>1
  <2>2. r \in Nat \ {0}  BY FdtEditAssumption
  <2>3. Fine(AddMemRsv(fdt, r).fdt)  BY <2>2, AddMemRsvFine
  <2> QED BY <2>1, <2>3, DoFine
<1>2. CASE \E n \in 0 .. 1 : Do(Call("del_rsv", 1, <<>>, <<n>>), DelMemRsv(fdt, n))
  <2>1. PICK n \in 0 .. 1 : Do(Call("del_rsv", 1, <<>>, <<n>>), DelMemRsv(fdt, n))  BY <1>2
  <2>2. Fine(DelMemRsv(fdt, n).fdt)  BY DelMemRsvFine
  <2> QED BY <2>1, <2>2, DoFine
<1>3. CASE \E size \in BufSizes, inplace \in BOOLEAN :
             Do(Call("open", 1, <<>>, <<>>), OpenInto(fdt, size, inplace))
  <2>1. PICK size \in BufSizes, inplace \in BOOLEAN :
          Do(Call("open", 1, <<>>, <<>>), OpenInto(fdt, size, inplace))
    BY <1>3
  <2>2. size \in 1 .. MaxSize  BY FdtEditAssumption
  <2>3. Fine(OpenInto(fdt, size, inplace).fdt)  BY <2>2, OpenIntoFine
  <2> QED BY <2>1, <2>3, DoFine
<1>4. CASE Do(Call("pack", 1, <<>>, <<>>), Pack(fdt))
  <2>1. Fine(Pack(fdt).fdt)  BY PackFine
  <2> QED BY <1>4, <2>1, DoFine
<1> QED BY <1>1, <1>2, <1>3, <1>4 DEF OnBlob

LEMMA NodeCalls ==
  ASSUME NEW k \in Nat, NEW e \in Nat, fdt \in Blobs, Holds(fdt, k, e), NEW o \in Nat, OnNode(o)
  PROVE  IInv'
<1>1. CASE \E n \in NodeNames : Do(Call("rename", o, n, <<>>), SetName(fdt, o, n))
  <2>1. PICK n \in NodeNames : Do(Call("rename", o, n, <<>>), SetName(fdt, o, n))  BY <1>1
  <2>2. n \in Seq(Nat \ {0})  BY FdtEditAssumption
  <2>3. Fine(SetName(fdt, o, n).fdt)  BY <2>2, SetNameFine
  <2> QED BY <2>1, <2>3, DoFine
<1>2. CASE \E n \in NodeNames : Do(Call("add", o, n, <<>>), AddSubnode(fdt, o, n))
  <2>1. PICK n \in NodeNames : Do(Call("add", o, n, <<>>), AddSubnode(fdt, o, n))  BY <1>2
  <2>2. n \in Seq(Nat \ {0})  BY FdtEditAssumption
  <2>3. Fine(AddSubnode(fdt, o, n).fdt)  BY <2>2, AddSubnodeFine
  <2> QED BY <2>1, <2>3, DoFine
<1>3. CASE Do(Call("del", o, <<>>, <<>>), DelNode(fdt, o))
  <2>1. Fine(DelNode(fdt, o).fdt)  BY DelNodeFine
  <2> QED BY <1>3, <2>1, DoFine
<1>4. CASE Do(Call("nop", o, <<>>, <<>>), NopNode(fdt, o))
  <2>1. Fine(NopNode(fdt, o).fdt)  BY NopNodeFine
  <2> QED BY <1>4, <2>1, DoFine
<1> QED BY <1>1, <1>2, <1>3, <1>4 DEF OnNode

LEMMA PropertyCalls ==
  ASSUME NEW k \in Nat, NEW e \in Nat, fdt \in Blobs, Holds(fdt, k, e), NEW o \in Nat,
         NEW n \in PropNames, OnProperty(o, n)
  PROVE  IInv'
<1>1. CASE Do(Call("delprop", o, n, <<>>), DelProp(fdt, o, n))
  <2>1. Fine(DelProp(fdt, o, n).fdt)  BY DelPropFine
  <2> QED BY <1>1, <2>1, DoFine
<1>2. CASE Do(Call("nopprop", o, n, <<>>), NopProperty(fdt, o, n))
  <2>1. Fine(NopProperty(fdt, o, n).fdt)  BY NopPropertyFine
  <2> QED BY <1>2, <2>1, DoFine
<1>3. ASSUME NEW v \in Values, Do(Call("set", o, n, v), SetProp(fdt, o, n, v))
      PROVE  IInv'
  <2>1. v \in Seq(Nat)  BY FdtEditAssumption
  <2>2. Fine(SetProp(fdt, o, n, v).fdt)  BY <2>1, SetPropFine
  <2> QED BY <1>3, <2>2, DoFine
<1>4. ASSUME NEW v \in Values, Do(Call("append", o, n, v), AppendProp(fdt, o, n, v))
      PROVE  IInv'
  <2>1. v \in Seq(Nat)  BY FdtEditAssumption
  <2>2. Fine(AppendProp(fdt, o, n, v).fdt)  BY <2>1, AppendPropFine
  <2> QED BY <1>4, <2>2, DoFine
<1>5. ASSUME NEW v \in Values, Do(Call("inplace", o, n, v), SetpropInplace(fdt, o, n, v))
      PROVE  IInv'
  <2>1. v \in Seq(Nat)  BY FdtEditAssumption
  <2>2. Fine(SetpropInplace(fdt, o, n, v).fdt)  BY <2>1, SetpropInplaceFine
  <2> QED BY <1>5, <2>2, DoFine
<1>6. ASSUME NEW v \in Values, NEW idx \in Indexes,
             Do(Call("partial", o, n, <<idx>> \o v), SetpropInplacePartial(fdt, o, n, idx, v))
      PROVE  IInv'
  <2>1. v \in Seq(Nat) /\ idx \in Nat  BY FdtEditAssumption
  <2>2. Fine(SetpropInplacePartial(fdt, o, n, idx, v).fdt)  BY <2>1, SetpropInplacePartialFine
  <2> QED BY <1>6, <2>2, DoFine
<1> QED BY <1>1, <1>2, <1>3, <1>4, <1>5, <1>6 DEF OnProperty

LEMMA NextFine == IInv /\ [Next]_vars => IInv'
<1> SUFFICES ASSUME IInv, [Next]_vars PROVE IInv'
  OBVIOUS
<1>1. fdt \in Blobs  BY DEF IInv, Fine
<1>2. fdt.magic = "FDT" => \E k, e \in Nat : Holds(fdt, k, e)  BY DEF IInv, Fine
<1>3. CASE fdt.magic = "FDT" /\ OnBlob
  BY <1>1, <1>2, <1>3, BlobCalls
<1>4. CASE fdt.magic = "FDT" /\ \E o \in Offsets : OnNode(o) \/ \E n \in PropNames : OnProperty(o, n)
  <2>1. PICK o \in Offsets : OnNode(o) \/ \E n \in PropNames : OnProperty(o, n)  BY <1>4
  <2>2. o \in Nat  BY FdtRwAssumption DEF Offsets
  <2>3. PICK k \in Nat, e \in Nat : Holds(fdt, k, e)  BY <1>2, <1>4
  <2>4. CASE OnNode(o)  BY <1>1, <2>2, <2>3, <2>4, NodeCalls
  <2>5. CASE \E n \in PropNames : OnProperty(o, n)
    <3>1. PICK n \in PropNames : OnProperty(o, n)  BY <2>5
    <3> QED BY <1>1, <2>2, <2>3, <3>1, PropertyCalls
  <2> QED BY <2>1, <2>4, <2>5
<1>5. CASE \E size \in BufSizes : Do(Call("empty", 1, <<>>, <<>>), EmptyTree(fdt, size))
  <2>1. PICK size \in BufSizes : Do(Call("empty", 1, <<>>, <<>>), EmptyTree(fdt, size))  BY <1>5
  <2>2. size \in 1 .. MaxSize  BY FdtEditAssumption
  <2>3. Fine(EmptyTree(fdt, size).fdt)  BY <1>1, <2>2, EmptyTreeFine DEF IInv
  <2> QED BY <2>1, <2>3, DoFine
<1>6. CASE UNCHANGED vars
  BY <1>6 DEF vars, IInv, Fine, Holds
<1> QED BY <1>3, <1>4, <1>5, <1>6 DEF Next

LEMMA FineMeans == IInv => TypeOK /\ BlocksApart
<1> SUFFICES ASSUME IInv PROVE TypeOK /\ BlocksApart
  OBVIOUS
<1>1. fdt \in Blobs  BY DEF IInv, Fine
<1>2. ASSUME fdt.magic = "FDT" PROVE Apart(fdt) /\ Sound(fdt)
  <2>1. PICK k \in Nat, e \in Nat : Holds(fdt, k, e)  BY <1>2 DEF IInv, Fine
  <2> QED BY <1>1, <2>1, HoldsSound
<1> QED BY <1>1, <1>2 DEF TypeOK, BlocksApart

THEOREM Invariance == Spec => []IInv
BY InitFine, NextFine, PTL DEF Spec

\* Whatever the calls and the errors between them, the blob is a header with its
\* fields and a memory of cells (fdt_rw.c, fdt_wip.c, fdt_empty_tree.c).
THEOREM TypeCorrect == Spec => []TypeOK
BY Invariance, FineMeans, PTL

\* The reserve map, the structure and the strings of the blob stay inside its buffer
\* and apart, for buffers, blobs, names and values of any size: _fdt_splice moves all
\* that lies behind a gap and no more, and _fdt_packblocks never moves one block
\* over another that is still to be moved (fdt_rw.c).
THEOREM BlocksApartHolds == Spec => []BlocksApart
BY Invariance, FineMeans, PTL
-----------------------------------------------------------------------------
(***************************************************************************)
(* The rest is about what a reader finds, and what an edit of the          *)
(* structure does to it; FdtTreeProofs builds on it.                       *)
(***************************************************************************)

\* Sets of numbers in order, and the values along them.

\* The numbers of S up to o.
UpTo(S, o) == {q \in S : q <= o}

Sorted(f, n, S) ==
  /\ f \in [1 .. n -> S]
  /\ \A i, j \in 1 .. n : i < j => f[i] < f[j]
  /\ \A x \in S : \E i \in 1 .. n : f[i] = x

\* A sequence that goes up and names all of S is S in order.
LEMMA SortedCount ==
  ASSUME NEW S \in SUBSET Int, NEW n \in Nat, NEW f, Sorted(f, n, S), NEW k \in 1 .. n
  PROVE  Cardinality(UpTo(S, f[k])) = k
<1> DEFINE T == UpTo(S, f[k])
           g == [i \in 1 .. k |-> f[i]]
<1>1. f \in [1 .. n -> S] /\ f[k] \in Int  BY DEF Sorted
<1>2. ASSUME NEW i \in 1 .. k PROVE f[i] \in T
  <2>1. i \in 1 .. n /\ (i < k \/ i = k)  OBVIOUS
  <2>2. f[i] \in S /\ (i < k => f[i] < f[k])  BY <1>1, <2>1 DEF Sorted
  <2>3. f[i] \in Int  BY <2>2
  <2>4. f[i] <= f[k]  BY <1>1, <2>1, <2>2, <2>3
  <2> QED BY <2>2, <2>4 DEF UpTo
<1>3. g \in [1 .. k -> T]  BY <1>2
<1>4. ASSUME NEW i \in 1 .. k, NEW j \in 1 .. k, g[i] = g[j] PROVE i = j
  <2>0. i \in 1 .. n /\ j \in 1 .. n /\ f[i] = f[j]  BY <1>4
  <2>1. f[i] \in Int /\ f[j] \in Int  BY <1>1, <2>0
  <2>2. ~(i < j) /\ ~(j < i)  BY <2>0, <2>1 DEF Sorted
  <2> QED BY <2>2
<1>5. ASSUME NEW x \in T PROVE \E i \in 1 .. k : g[i] = x
  <2>1. x \in S /\ x <= f[k]  BY DEF UpTo
  <2>2. PICK i \in 1 .. n : f[i] = x  BY <2>1 DEF Sorted
  <2>3. ~(k < i)  BY <1>1, <2>1, <2>2 DEF Sorted
  <2>4. i \in 1 .. k  BY <2>3
  <2> QED BY <2>2, <2>4
<1>6. g \in Bijection(1 .. k, T)
  <2> HIDE DEF g, T
  <2> QED BY <1>3, <1>4, <1>5 DEF Bijection, Injection, Surjection, IsInjective
<1>7. ExistsBijection(1 .. k, T)  BY <1>6 DEF ExistsBijection
<1> HIDE DEF T
<1> QED BY <1>7, FS_CountingElements DEF T

\* A sequence that goes up and names all of S lists S in order.
LEMMA InOrderIs ==
  ASSUME NEW S \in SUBSET Int, NEW n \in Nat, NEW f, Sorted(f, n, S)
  PROVE  IsFiniteSet(S) /\ Cardinality(S) = n /\ InOrder(S) = f
<1>1. f \in [1 .. n -> S]  BY DEF Sorted
<1>2. ASSUME NEW i \in 1 .. n, NEW j \in 1 .. n, f[i] = f[j] PROVE i = j
  <2>1. f[i] \in Int /\ f[j] \in Int  BY <1>1
  <2>2. ~(i < j) /\ ~(j < i)  BY <1>2, <2>1 DEF Sorted
  <2> QED BY <2>2
<1>3. f \in Bijection(1 .. n, S)
  BY <1>1, <1>2 DEF Sorted, Bijection, Injection, Surjection, IsInjective
<1>4. ExistsBijection(1 .. n, S)  BY <1>3 DEF ExistsBijection
<1>5. IsFiniteSet(S) /\ Cardinality(S) = n  BY <1>4, FS_CountingElements, FS_NatBijection
<1>6. ASSUME NEW k \in 1 .. n
      PROVE  (CHOOSE o \in S : Cardinality({q \in S : q <= o}) = k) = f[k]
  <2>1. f[k] \in S /\ Cardinality({q \in S : q <= f[k]}) = k  BY <1>1, SortedCount DEF UpTo
  <2>2. ASSUME NEW o \in S, Cardinality({q \in S : q <= o}) = k PROVE o = f[k]
    <3>1. PICK i \in 1 .. n : f[i] = o  BY DEF Sorted
    <3>2. Cardinality({q \in S : q <= o}) = i  BY <3>1, SortedCount DEF UpTo
    <3> QED BY <2>2, <3>1, <3>2
  <2> QED BY <2>1, <2>2
<1>7. InOrder(S) = [k \in 1 .. n |-> f[k]]  BY <1>5, <1>6 DEF InOrder
<1> QED BY <1>1, <1>5, <1>7

\* Conversely, a finite set of numbers in order goes up and names each once.
LEMMA InOrderSorted ==
  ASSUME NEW S \in SUBSET Int, IsFiniteSet(S)
  PROVE  Sorted(InOrder(S), Cardinality(S), S) /\ Cardinality(S) \in Nat
<1> DEFINE n == Cardinality(S)
           g == [o \in S |-> Cardinality(UpTo(S, o))]
<1>1. n \in Nat  BY FS_CardinalityType
<1>2. ASSUME NEW o \in S PROVE IsFiniteSet(UpTo(S, o)) /\ g[o] \in 1 .. n
  <2>1. UpTo(S, o) \in SUBSET S /\ o \in UpTo(S, o)  BY DEF UpTo
  <2>2. IsFiniteSet(UpTo(S, o)) /\ Cardinality(UpTo(S, o)) <= n  BY <2>1, FS_Subset
  <2>3. Cardinality(UpTo(S, o)) \in Nat /\ Cardinality(UpTo(S, o)) # 0
    BY <2>1, <2>2, FS_CardinalityType, FS_EmptySet
  <2> QED BY <1>1, <2>2, <2>3
<1>3. ASSUME NEW o \in S, NEW p \in S, o < p PROVE g[o] < g[p]
  <2>0. o \in Int /\ p \in Int /\ p <= p /\ ~(p <= o) /\ \A q \in S : q <= o => q <= p
    BY <1>3
  <2>1. UpTo(S, o) \in SUBSET UpTo(S, p) /\ p \in UpTo(S, p) /\ p \notin UpTo(S, o)
    BY <2>0 DEF UpTo
  <2>2. /\ Cardinality(UpTo(S, o)) <= Cardinality(UpTo(S, p))
        /\ Cardinality(UpTo(S, o)) # Cardinality(UpTo(S, p))
    BY <1>2, <2>1, FS_Subset
  <2> QED BY <1>1, <1>2, <2>2
<1>4. g \in Injection(S, 1 .. n)
  <2>1. g \in [S -> 1 .. n]  BY <1>2
  <2>2. ASSUME NEW o \in S, NEW p \in S, g[o] = g[p] PROVE o = p
    <3>1. ~(o < p) /\ ~(p < o)  BY <1>1, <1>2, <1>3, <2>2
    <3> QED BY <3>1
  <2> HIDE DEF g
  <2> QED BY <2>1, <2>2 DEF Injection, IsInjective
<1>5. IsFiniteSet(1 .. n) /\ Cardinality(1 .. n) = n  BY <1>1, FS_Interval
<1>6. g \in Surjection(S, 1 .. n)  BY <1>4, <1>5, FS_Injection
<1> DEFINE f == InOrder(S)
<1>7. ASSUME NEW k \in 1 .. n PROVE f[k] \in S /\ g[f[k]] = k
  <2>1. PICK o \in S : g[o] = k
    <3> HIDE DEF g
    <3> QED BY <1>6 DEF Surjection
  <2>2. Cardinality({q \in S : q <= o}) = k  BY <2>1 DEF UpTo
  <2>3. f[k] = CHOOSE x \in S : Cardinality({q \in S : q <= x}) = k  BY DEF InOrder
  <2>4. f[k] \in S /\ Cardinality({q \in S : q <= f[k]}) = k
    <3> HIDE DEF f
    <3> QED BY <2>2, <2>3
  <2> QED BY <2>4 DEF UpTo
<1>8. f \in [1 .. n -> S]
  <2>1. f = [k \in 1 .. n |-> CHOOSE x \in S : Cardinality({q \in S : q <= x}) = k]  BY DEF InOrder
  <2> HIDE DEF f, n
  <2> QED BY <1>7, <2>1
<1>9. ASSUME NEW i \in 1 .. n, NEW j \in 1 .. n, i < j PROVE f[i] < f[j]
  <2>1. f[i] \in S /\ f[j] \in S /\ g[f[i]] = i /\ g[f[j]] = j  BY <1>7
  <2>2. f[i] \in Int /\ f[j] \in Int
    <3> HIDE DEF f, g
    <3> QED BY <2>1
  <2> HIDE DEF f, g, n
  <2>3. ~(f[j] < f[i])
    <3>1. SUFFICES ASSUME f[j] < f[i] PROVE FALSE  OBVIOUS
    <3>2. g[f[j]] < g[f[i]]  BY <1>3, <2>1, <3>1
    <3> QED BY <1>9, <2>1, <2>2, <3>2
  <2>4. f[i] # f[j]  BY <1>9, <2>1, <2>2
  <2> QED BY <2>2, <2>3, <2>4
<1>10. ASSUME NEW x \in S PROVE \E i \in 1 .. n : f[i] = x
  <2>1. g[x] \in 1 .. n  BY <1>2
  <2>2. f[g[x]] \in S /\ g[f[g[x]]] = g[x]  BY <1>7, <2>1
  <2>3. f[g[x]] = x
    <3> HIDE DEF f, g, n
    <3> QED BY <1>4, <2>2 DEF Injection, IsInjective
  <2> QED BY <2>1, <2>3
<1> HIDE DEF f, n
<1> QED BY <1>1, <1>8, <1>9, <1>10 DEF Sorted, f, n

\* What F gives for the numbers of S, from the least on.
InTurn(S, F) == [k \in 1 .. Cardinality(S) |-> F[InOrder(S)[k]]]

\* A function on 1 .. n is a sequence.
LEMMA FunSeq ==
  ASSUME NEW n \in Nat, NEW V, NEW s \in [1 .. n -> V]
  PROVE  s \in Seq(V) /\ Len(s) = n
OBVIOUS

\* The values of F along S are as many as S has members, in the order of S.
LEMMA InTurnType ==
  ASSUME NEW S \in SUBSET Int, IsFiniteSet(S), NEW F, NEW V, \A q \in S : F[q] \in V
  PROVE  /\ InTurn(S, F) \in Seq(V) /\ Len(InTurn(S, F)) = Cardinality(S)
         /\ \A k \in 1 .. Cardinality(S) : InOrder(S)[k] \in S /\ InTurn(S, F)[k] = F[InOrder(S)[k]]
<1> DEFINE n == Cardinality(S)
           f == InOrder(S)
<1>1. n \in Nat /\ f \in [1 .. n -> S]  BY InOrderSorted DEF Sorted
<1>2. InTurn(S, F) = [k \in 1 .. n |-> F[f[k]]]  BY DEF InTurn
<1> HIDE DEF n, f
<1>3. \A k \in 1 .. n : F[f[k]] \in V  BY <1>1
<1>4. InTurn(S, F) \in [1 .. n -> V]  BY <1>2, <1>3
<1>5. InTurn(S, F) \in Seq(V) /\ Len(InTurn(S, F)) = n  BY <1>1, <1>4
<1> QED BY <1>1, <1>2, <1>5 DEF n, f

\* Two sets, one below the other, give one list after the other.
LEMMA InTurnJoin ==
  ASSUME NEW S \in SUBSET Int, NEW T \in SUBSET Int, IsFiniteSet(S), IsFiniteSet(T),
         \A x \in S, y \in T : x < y, NEW F
  PROVE  /\ InTurn(S \cup T, F) = InTurn(S, F) \o InTurn(T, F)
         /\ IsFiniteSet(S \cup T) /\ Cardinality(S \cup T) = Cardinality(S) + Cardinality(T)
<1> DEFINE m == Cardinality(S)
           n == Cardinality(T)
           f == InOrder(S)
           g == InOrder(T)
           h == [k \in 1 .. m + n |-> IF k <= m THEN f[k] ELSE g[k - m]]
           V == {F[q] : q \in S \cup T}
<1>1. m \in Nat /\ n \in Nat /\ Sorted(f, m, S) /\ Sorted(g, n, T)  BY InOrderSorted
<1>2. f \in [1 .. m -> S] /\ g \in [1 .. n -> T]  BY <1>1 DEF Sorted
<1> HIDE DEF m, n, f, g
<1>3. ASSUME NEW k \in 1 .. m + n
      PROVE  \/ k \in 1 .. m /\ h[k] = f[k] /\ h[k] \in S
             \/ k - m \in 1 .. n /\ ~(k <= m) /\ h[k] = g[k - m] /\ h[k] \in T
  <2>1. CASE k <= m
    <3>1. k \in 1 .. m  BY <2>1
    <3> QED BY <1>2, <2>1, <3>1
  <2>2. CASE ~(k <= m)
    <3>1. k - m \in 1 .. n  BY <1>1, <2>2
    <3> QED BY <1>2, <2>2, <3>1
  <2> QED BY <2>1, <2>2
<1>4. h \in [1 .. m + n -> S \cup T]
  <2>1. \A k \in 1 .. m + n : h[k] \in S \cup T  BY <1>3
  <2> QED BY <2>1
<1>5. ASSUME NEW i \in 1 .. m + n, NEW j \in 1 .. m + n, i < j PROVE h[i] < h[j]
  <2> HIDE DEF h
  <2>1. CASE i \in 1 .. m /\ j \in 1 .. m
    <3>1. h[i] = f[i] /\ h[j] = f[j]  BY <1>1, <1>3, <2>1
    <3>2. f[i] < f[j]  BY <1>1, <1>5, <2>1 DEF Sorted
    <3>3. h[i] < h[j]
      <4> HIDE DEF h
      <4> QED BY <3>1, <3>2
    <3> QED BY <3>3
  <2>2. CASE i \in 1 .. m /\ j \notin 1 .. m
    <3>1. h[i] \in S  BY <1>1, <1>3, <2>2
    <3>2. h[j] \in T  BY <1>1, <1>3, <2>2
    <3> QED BY <3>1, <3>2
  <2>3. CASE i \notin 1 .. m
    <3>1. i - m \in 1 .. n /\ j - m \in 1 .. n /\ i - m < j - m  BY <1>1, <1>5, <2>3
    <3>2. h[i] = g[i - m] /\ h[j] = g[j - m]  BY <1>1, <1>3, <1>5, <2>3
    <3> QED BY <1>1, <3>1, <3>2 DEF Sorted
  <2> QED BY <2>1, <2>2, <2>3
<1>6. ASSUME NEW x \in S \cup T PROVE \E k \in 1 .. m + n : h[k] = x
  <2>1. CASE x \in S
    <3>1. PICK k \in 1 .. m : f[k] = x  BY <1>1, <2>1 DEF Sorted
    <3>2. k \in 1 .. m + n /\ k <= m  BY <1>1
    <3> QED BY <3>1, <3>2
  <2>2. CASE x \in T
    <3>1. PICK k \in 1 .. n : g[k] = x  BY <1>1, <2>2 DEF Sorted
    <3>2. k + m \in 1 .. m + n /\ ~(k + m <= m) /\ (k + m) - m = k  BY <1>1
    <3>3. h[k + m] = x  BY <3>1, <3>2
    <3> QED BY <3>2, <3>3
  <2> QED BY <2>1, <2>2
<1>7. Sorted(h, m + n, S \cup T)
  <2> HIDE DEF h
  <2> QED BY <1>4, <1>5, <1>6 DEF Sorted
<1>8. S \cup T \in SUBSET Int /\ m + n \in Nat  BY <1>1
<1>9. /\ InTurn(S \cup T, F) = [k \in 1 .. m + n |-> F[h[k]]]
      /\ IsFiniteSet(S \cup T) /\ Cardinality(S \cup T) = m + n
  <2> HIDE DEF h, V
  <2>1. Cardinality(S \cup T) = m + n /\ InOrder(S \cup T) = h  BY <1>7, <1>8, InOrderIs
  <2>3. InTurn(S \cup T, F) = [k \in 1 .. m + n |-> F[h[k]]]  BY <2>1 DEF InTurn
  <2>2. IsFiniteSet(S \cup T) /\ Cardinality(S \cup T) = m + n  BY <1>7, <1>8, InOrderIs
  <2> QED BY <2>2, <2>3
<1>10. /\ InTurn(S, F) \in Seq(V) /\ Len(InTurn(S, F)) = m
       /\ \A k \in 1 .. m : InTurn(S, F)[k] = F[f[k]]
  <2>1. \A q \in S : F[q] \in V  OBVIOUS
  <2> HIDE DEF V
  <2> QED BY <2>1, InTurnType DEF m, f
<1>11. /\ InTurn(T, F) \in Seq(V) /\ Len(InTurn(T, F)) = n
       /\ \A k \in 1 .. n : InTurn(T, F)[k] = F[g[k]]
  <2>1. \A q \in T : F[q] \in V  OBVIOUS
  <2> HIDE DEF V
  <2> QED BY <2>1, InTurnType DEF n, g
<1>12. /\ InTurn(S \cup T, F) \in Seq(V) /\ Len(InTurn(S \cup T, F)) = m + n
       /\ \A k \in 1 .. m + n : InTurn(S \cup T, F)[k] = F[h[k]]
  <2>1. \A k \in 1 .. m + n : F[h[k]] \in V
    <3> HIDE DEF h
    <3> QED BY <1>4
  <2> HIDE DEF V, h
  <2>2. InTurn(S \cup T, F) \in [1 .. m + n -> V]  BY <1>9, <2>1
  <2>3. m + n \in Nat  BY <1>1
  <2>5. m + n \in Nat  BY <1>1
  <2>4. InTurn(S \cup T, F) \in Seq(V) /\ Len(InTurn(S \cup T, F)) = m + n
    BY <2>2, <2>5, FunSeq
  <2> QED BY <1>9, <2>4
<1> HIDE DEF V
<1>13. /\ InTurn(S, F) \o InTurn(T, F) \in Seq(V) /\ Len(InTurn(S, F) \o InTurn(T, F)) = m + n
       /\ \A k \in 1 .. m + n : (InTurn(S, F) \o InTurn(T, F))[k] =
                                  IF k <= m THEN InTurn(S, F)[k] ELSE InTurn(T, F)[k - m]
  <2>1. /\ InTurn(S, F) \o InTurn(T, F) \in Seq(V)
        /\ Len(InTurn(S, F) \o InTurn(T, F)) = Len(InTurn(S, F)) + Len(InTurn(T, F))
        /\ \A i \in 1 .. Len(InTurn(S, F)) + Len(InTurn(T, F)) : (InTurn(S, F) \o InTurn(T, F))[i] =
             IF i <= Len(InTurn(S, F)) THEN InTurn(S, F)[i] ELSE InTurn(T, F)[i - Len(InTurn(S, F))]
    BY <1>10, <1>11, ConcatProperties
  <2> QED BY <1>10, <1>11, <2>1
<1>14. ASSUME NEW k \in 1 .. m + n
       PROVE  InTurn(S \cup T, F)[k] = (InTurn(S, F) \o InTurn(T, F))[k]
  <2>1. CASE k \in 1 .. m
    <3>1. h[k] = f[k] /\ k <= m  BY <2>1
    <3> QED BY <1>10, <1>12, <1>13, <2>1, <3>1
  <2>2. CASE k \notin 1 .. m
    <3>1. h[k] = g[k - m] /\ ~(k <= m) /\ k - m \in 1 .. n  BY <1>1, <2>2
    <3> HIDE DEF h
    <3> QED BY <1>11, <1>12, <1>13, <3>1
  <2> QED BY <2>1, <2>2
<1>15. InTurn(S \cup T, F) = InTurn(S, F) \o InTurn(T, F)
  BY <1>12, <1>13, <1>14, SeqEqual
<1> QED BY <1>9, <1>15 DEF m, n

\* The same in turn, d further on.
LEMMA InTurnMoved ==
  ASSUME NEW S \in SUBSET Int, IsFiniteSet(S), NEW d \in Int, NEW F, NEW G,
         \A q \in S : G[q + d] = F[q]
  PROVE  LET T == {q + d : q \in S} IN
         /\ InTurn(T, G) = InTurn(S, F) /\ IsFiniteSet(T) /\ Cardinality(T) = Cardinality(S)
<1> DEFINE n == Cardinality(S)
           f == InOrder(S)
           T == {q + d : q \in S}
           g == [k \in 1 .. n |-> f[k] + d]
<1>1. n \in Nat /\ Sorted(f, n, S)  BY InOrderSorted
<1>2. f \in [1 .. n -> S]  BY <1>1 DEF Sorted
<1> HIDE DEF n, f
<1>3. g \in [1 .. n -> T]
  <2>1. \A k \in 1 .. n : g[k] \in T  BY <1>2
  <2> QED BY <2>1
<1>4. ASSUME NEW i \in 1 .. n, NEW j \in 1 .. n, i < j PROVE g[i] < g[j]
  <2>1. f[i] < f[j] /\ f[i] \in S /\ f[j] \in S  BY <1>1, <1>2, <1>4 DEF Sorted
  <2>2. f[i] \in Int /\ f[j] \in Int  BY <2>1
  <2> QED BY <2>1, <2>2
<1>5. ASSUME NEW x \in T PROVE \E k \in 1 .. n : g[k] = x
  <2>1. PICK q \in S : x = q + d  OBVIOUS
  <2>2. PICK k \in 1 .. n : f[k] = q  BY <1>1 DEF Sorted
  <2> QED BY <2>1, <2>2
<1>6. Sorted(g, n, T)
  <2> HIDE DEF g, T
  <2> QED BY <1>3, <1>4, <1>5 DEF Sorted
<1>7. T \in SUBSET Int  OBVIOUS
<1>8. InTurn(T, G) = [k \in 1 .. n |-> G[g[k]]] /\ IsFiniteSet(T) /\ Cardinality(T) = n
  <2> HIDE DEF g, T
  <2>3. InOrder(T) = g /\ Cardinality(T) = n  BY <1>1, <1>6, <1>7, InOrderIs
  <2>1. InTurn(T, G) = [k \in 1 .. n |-> G[g[k]]]  BY <2>3 DEF InTurn
  <2>2. IsFiniteSet(T) /\ Cardinality(T) = n  BY <1>1, <1>6, <1>7, InOrderIs
  <2> QED BY <2>1, <2>2
<1>9. \A k \in 1 .. n : G[g[k]] = F[f[k]]  BY <1>2
<1>10. InTurn(S, F) = [k \in 1 .. n |-> F[f[k]]]  BY DEF InTurn, n, f
<1>11. InTurn(T, G) = InTurn(S, F)
  <2> HIDE DEF g, T
  <2> QED BY <1>8, <1>9, <1>10
<1> QED BY <1>8, <1>11 DEF n

\* Only the values on S matter.
LEMMA InTurnSame ==
  ASSUME NEW S, NEW F, NEW G, S \in SUBSET Int, IsFiniteSet(S), \A q \in S : G[q] = F[q]
  PROVE  InTurn(S, G) = InTurn(S, F)
<1>1. \A k \in 1 .. Cardinality(S) : InOrder(S)[k] \in S  BY InOrderSorted DEF Sorted
<1> QED BY <1>1 DEF InTurn

\* One member, one value.
LEMMA InTurnOne ==
  ASSUME NEW x \in Int, NEW F
  PROVE  InTurn({x}, F) = <<F[x]>> /\ IsFiniteSet({x}) /\ Cardinality({x}) = 1
<1> DEFINE f == [k \in 1 .. 1 |-> x]
<1>1. Sorted(f, 1, {x})
  <2>1. f \in [1 .. 1 -> {x}]  OBVIOUS
  <2>2. \A i, j \in 1 .. 1 : ~(i < j)  OBVIOUS
  <2>3. 1 \in 1 .. 1 /\ f[1] = x  OBVIOUS
  <2> HIDE DEF f
  <2> QED BY <2>1, <2>2, <2>3 DEF Sorted
<1>2. InTurn({x}, F) = [k \in 1 .. 1 |-> F[f[k]]]
  <2>1. {x} \in SUBSET Int /\ 1 \in Nat  OBVIOUS
  <2> HIDE DEF f
  <2>2. Cardinality({x}) = 1 /\ InOrder({x}) = f  BY <1>1, <2>1, InOrderIs
  <2> QED BY <2>2 DEF InTurn
<1>3. [k \in 1 .. 1 |-> F[f[k]]] = <<F[x]>>  OBVIOUS
<1> QED BY <1>2, <1>3, FS_Singleton

\* No member, no value.
LEMMA InTurnNone == ASSUME NEW F PROVE InTurn({}, F) = <<>>
BY FS_EmptySet DEF InTurn

-----------------------------------------------------------------------------
\* Tags counted over spans of the structure.

\* How many of the cells s to t - 1 of the structure have the tag; nodes opened less
\* nodes closed among them.
Tagging(b, s, t, tag) == {p \in s .. t - 1 : At(b, p).tag = tag}
Count(b, s, t, tag) == Cardinality(Tagging(b, s, t, tag))
Net(b, s, t) == Count(b, s, t, "begin") - Count(b, s, t, "end_node")

\* The cells between two numbers are finitely many.
LEMMA FiniteSpan ==
  ASSUME NEW s \in Int, NEW t \in Int, NEW S \in SUBSET (s .. t)
  PROVE  S \in SUBSET Int /\ IsFiniteSet(S) /\ Cardinality(S) \in Nat
<1>1. IsFiniteSet(s .. t)  BY FS_Interval
<1>2. IsFiniteSet(S)  BY <1>1, FS_Subset
<1>3. S \in SUBSET Int  OBVIOUS
<1> QED BY <1>2, <1>3, FS_CardinalityType

\* A count is a number.
LEMMA CountType ==
  ASSUME NEW b, NEW s \in Int, NEW t \in Int, NEW tag
  PROVE  IsFiniteSet(Tagging(b, s, t, tag)) /\ Count(b, s, t, tag) \in Nat
<1>1. Tagging(b, s, t, tag) \in SUBSET (s .. t - 1)  BY DEF Tagging
<1>2. t - 1 \in Int  OBVIOUS
<1> QED BY <1>1, <1>2, FiniteSpan DEF Count

\* Counts of adjacent spans add up.
LEMMA CountJoin ==
  ASSUME NEW b, NEW s \in Int, NEW t \in Int, NEW u \in Int, s <= t, t <= u, NEW tag
  PROVE  Count(b, s, u, tag) = Count(b, s, t, tag) + Count(b, t, u, tag)
<1>1. Tagging(b, s, u, tag) = Tagging(b, s, t, tag) \cup Tagging(b, t, u, tag)
  BY DEF Tagging
<1>2. Tagging(b, s, t, tag) \cap Tagging(b, t, u, tag) = {}
  BY DEF Tagging
<1> DEFINE S == Tagging(b, s, t, tag)
           T == Tagging(b, t, u, tag)
<1>3. IsFiniteSet(S) /\ IsFiniteSet(T)  BY CountType
<1>4. Cardinality(S \cup T) = Cardinality(S) + Cardinality(T) - Cardinality(S \cap T)
  <2> HIDE DEF S, T
  <2> QED BY <1>3, FS_Union
<1>5. Cardinality(S \cap T) = 0  BY <1>2, FS_EmptySet
<1>6. Cardinality(S) \in Nat /\ Cardinality(T) \in Nat  BY CountType DEF Count
<1> QED BY <1>1, <1>4, <1>5, <1>6 DEF Count

\* A span counts the same wherever it is moved.
LEMMA CountMoved ==
  ASSUME NEW b, NEW f, NEW s \in Int, NEW t \in Int, NEW d \in Int, NEW tag,
         \A p \in s .. t - 1 : At(f, p + d).tag = At(b, p).tag
  PROVE  Count(f, s + d, t + d, tag) = Count(b, s, t, tag)
<1> DEFINE S == Tagging(b, s, t, tag)
           T == Tagging(f, s + d, t + d, tag)
           g == [p \in S |-> p + d]
<1>1. g \in [S -> T]
  <2>1. ASSUME NEW p \in S PROVE p + d \in T
    <3>1. p \in s .. t - 1 /\ At(b, p).tag = tag  BY DEF Tagging
    <3>2. At(f, p + d).tag = tag /\ p + d \in s + d .. (t + d) - 1  BY <3>1
    <3> QED BY <3>2 DEF Tagging
  <2> QED BY <2>1
<1>2. ASSUME NEW p \in S, NEW q \in S, g[p] = g[q] PROVE p = q
  <2>1. p \in Int /\ q \in Int  BY DEF Tagging
  <2> QED BY <1>2, <2>1
<1>3. ASSUME NEW r \in T PROVE \E p \in S : g[p] = r
  <2>1. r \in s + d .. (t + d) - 1 /\ At(f, r).tag = tag  BY DEF Tagging
  <2>2. r - d \in s .. t - 1 /\ (r - d) + d = r  BY <2>1
  <2>3. At(b, r - d).tag = tag  BY <2>1, <2>2
  <2>4. r - d \in S  BY <2>2, <2>3 DEF Tagging
  <2> QED BY <2>2, <2>4
<1>4. g \in Bijection(S, T)
  <2> HIDE DEF g, S, T
  <2> QED BY <1>1, <1>2, <1>3 DEF Bijection, Injection, Surjection, IsInjective
<1>5. IsFiniteSet(S)  BY CountType
<1>6. Cardinality(S) = Cardinality(T)
  <2> HIDE DEF S, T, g
  <2>1. ExistsBijection(S, T)  BY <1>4 DEF ExistsBijection
  <2> QED BY <1>5, <2>1, FS_Bijection
<1> QED BY <1>6 DEF Count

\* A span without the tag counts none.
LEMMA CountNone ==
  ASSUME NEW b, NEW s, NEW t, NEW tag, \A p \in s .. t - 1 : At(b, p).tag # tag
  PROVE  Count(b, s, t, tag) = 0
BY FS_EmptySet DEF Count, Tagging

\* One cell counts one or none.
LEMMA CountOne ==
  ASSUME NEW b, NEW p \in Int, NEW tag
  PROVE  Count(b, p, p + 1, tag) = IF At(b, p).tag = tag THEN 1 ELSE 0
<1>1. p .. (p + 1) - 1 = {p}  OBVIOUS
<1>2. Tagging(b, p, p + 1, tag) = IF At(b, p).tag = tag THEN {p} ELSE {}  BY <1>1 DEF Tagging
<1> QED BY <1>2, FS_Singleton, FS_EmptySet DEF Count

\* The net of a span is a number.
LEMMA NetType ==
  ASSUME NEW b, NEW s \in Int, NEW t \in Int
  PROVE  Net(b, s, t) \in Int
BY CountType DEF Net

\* Nets of adjacent spans add up.
LEMMA NetJoin ==
  ASSUME NEW b, NEW s \in Int, NEW t \in Int, NEW u \in Int, s <= t, t <= u
  PROVE  Net(b, s, u) = Net(b, s, t) + Net(b, t, u)
<1>1. \A tag : Count(b, s, u, tag) = Count(b, s, t, tag) + Count(b, t, u, tag)  BY CountJoin
<1>2. \A tag : Count(b, s, t, tag) \in Nat /\ Count(b, t, u, tag) \in Nat  BY CountType
<1>3. /\ Count(b, s, u, "begin") = Count(b, s, t, "begin") + Count(b, t, u, "begin")
      /\ Count(b, s, u, "end_node") = Count(b, s, t, "end_node") + Count(b, t, u, "end_node")
      /\ Count(b, s, t, "begin") \in Nat /\ Count(b, t, u, "begin") \in Nat
      /\ Count(b, s, t, "end_node") \in Nat /\ Count(b, t, u, "end_node") \in Nat
  BY <1>1, <1>2
<1> QED BY <1>3 DEF Net

\* A span moved has the same net.
LEMMA NetMoved ==
  ASSUME NEW b, NEW f, NEW s \in Int, NEW t \in Int, NEW d \in Int,
         \A p \in s .. t - 1 : At(f, p + d).tag = At(b, p).tag
  PROVE  Net(f, s + d, t + d) = Net(b, s, t)
<1>1. \A tag : Count(f, s + d, t + d, tag) = Count(b, s, t, tag)  BY CountMoved
<1>2. /\ Count(f, s + d, t + d, "begin") = Count(b, s, t, "begin")
      /\ Count(f, s + d, t + d, "end_node") = Count(b, s, t, "end_node")
  BY <1>1
<1> QED BY <1>2 DEF Net

\* Spans with the same tags have the same net.
LEMMA NetSame ==
  ASSUME NEW b, NEW f, NEW s \in Int, NEW t \in Int,
         \A p \in s .. t - 1 : At(f, p).tag = At(b, p).tag
  PROVE  Net(f, s, t) = Net(b, s, t)
<1>1. \A tag : Tagging(f, s, t, tag) = Tagging(b, s, t, tag)  BY DEF Tagging
<1>2. /\ Count(f, s, t, "begin") = Count(b, s, t, "begin")
      /\ Count(f, s, t, "end_node") = Count(b, s, t, "end_node")
  BY <1>1 DEF Count
<1> QED BY <1>2 DEF Net

\* A span without BEGIN_NODE and END_NODE has net 0.
LEMMA NetNone ==
  ASSUME NEW b, NEW s, NEW t, \A p \in s .. t - 1 : At(b, p).tag \notin {"begin", "end_node"}
  PROVE  Net(b, s, t) = 0
<1>1. Count(b, s, t, "begin") = 0 /\ Count(b, s, t, "end_node") = 0  BY CountNone
<1> QED BY <1>1 DEF Net

\* The net of one cell.
LEMMA NetOne ==
  ASSUME NEW b, NEW p \in Int
  PROVE  Net(b, p, p + 1) = CASE At(b, p).tag = "begin" -> 1
                              [] At(b, p).tag = "end_node" -> -1
                              [] OTHER -> 0
<1>1. /\ Count(b, p, p + 1, "begin") = IF At(b, p).tag = "begin" THEN 1 ELSE 0
      /\ Count(b, p, p + 1, "end_node") = IF At(b, p).tag = "end_node" THEN 1 ELSE 0
  BY CountOne
<1> QED BY <1>1 DEF Net

\* The net of no cell.
LEMMA NetEmpty ==
  ASSUME NEW b, NEW s \in Int
  PROVE  Net(b, s, s) = 0
BY NetNone

\* The depth the code counts is the net of the cells behind the first node.
LEMMA DepthIs ==
  ASSUME NEW b, NEW o \in Int, NEW q \in Int
  PROVE  Depth(b, o, q) = Net(b, o + 1, q + 1)
<1>1. (q + 1) - 1 = q  OBVIOUS
<1> QED BY <1>1 DEF Depth, Net, Count, Tagging

-----------------------------------------------------------------------------
\* A blob with one tree: the depth is never negative, and every node but the root
\* lies under it.

Edges == {"begin", "end_node"}

\* The property at q comes before the subnodes of a node.
Owns(b, o, q) ==
  At(b, o).tag = "begin" /\ \A p \in o + 1 .. q : At(b, p).tag \notin Edges

\* The cells before END make one tree.
Shaped(b, e) ==
  /\ Net(b, 0, e) = 0 /\ \A q \in 0 .. e : Net(b, 0, q) >= 0
  /\ \A o \in 1 .. e - 1 : At(b, o).tag = "begin" => At(b, 0).tag = "begin" /\ Net(b, 0, o) >= 1
  /\ \A q \in 0 .. e - 1 : At(b, q).tag = "prop" => \E o \in 0 .. q - 1 : Owns(b, o, q)

InReach(b, e) == \A q \in 0 .. Size(b) - 1 : At(b, q).tag = "begin" => q \in 0 .. e - 1

\* A blob with k reserved regions and END in cell e, and one tree before it.
Whole(b, k, e) == b \in Blobs /\ Holds(b, k, e) /\ Shaped(b, e) /\ InReach(b, e)

\* The nodes of a blob, and the properties of one: the tags before the next edge.
LEMMA NodesAre ==
  ASSUME NEW b \in Blobs, NEW k \in Nat, NEW e \in Nat, Holds(b, k, e)
  PROVE  /\ Nodes(b) = {q \in 0 .. e - 1 : At(b, q).tag = "begin"}
         /\ \A o \in Int : Properties(b, o) =
              {q \in o + 1 .. e - 1 : At(b, q).tag = "prop" /\ \A p \in o + 1 .. q : At(b, p).tag \notin Edges}
         /\ Nodes(b) \in SUBSET Int /\ IsFiniteSet(Nodes(b))
         /\ \A o \in Int : Properties(b, o) \in SUBSET Int /\ IsFiniteSet(Properties(b, o))
<1>1. End(b) = e  BY EndIs
<1>2. Nodes(b) = {q \in 0 .. e - 1 : At(b, q).tag = "begin"}  BY <1>1 DEF Nodes, Tagged
<1>3. \A o \in Int : Properties(b, o) =
        {q \in o + 1 .. e - 1 : At(b, q).tag = "prop" /\ \A p \in o + 1 .. q : At(b, p).tag \notin Edges}
  BY <1>1 DEF Properties, Tagged, Edges
<1>4. Nodes(b) \in SUBSET Int /\ IsFiniteSet(Nodes(b))
  <2>1. Nodes(b) \in SUBSET (0 .. e - 1)  BY <1>2
  <2>2. IsFiniteSet(0 .. e - 1)
    <3>1. 0 \in Int /\ e - 1 \in Int  OBVIOUS
    <3> QED BY <3>1, FS_Interval
  <2>3. IsFiniteSet(Nodes(b))  BY <2>1, <2>2, FS_Subset
  <2>4. Nodes(b) \in SUBSET Int  BY <2>1
  <2> QED BY <2>3, <2>4
<1>5. ASSUME NEW o \in Int PROVE Properties(b, o) \in SUBSET Int /\ IsFiniteSet(Properties(b, o))
  <2>1. Properties(b, o) \in SUBSET (o + 1 .. e - 1)  BY <1>3
  <2>2. IsFiniteSet(o + 1 .. e - 1)
    <3>1. o + 1 \in Int /\ e - 1 \in Int  OBVIOUS
    <3> QED BY <3>1, FS_Interval
  <2>3. IsFiniteSet(Properties(b, o))  BY <2>1, <2>2, FS_Subset
  <2>4. Properties(b, o) \in SUBSET Int  BY <2>1
  <2> QED BY <2>3, <2>4
<1> QED BY <1>2, <1>3, <1>4, <1>5

\* What Nested of FdtEdit says, by the cell of END.
LEMMA NestedIs ==
  ASSUME NEW b \in Blobs, NEW k \in Nat, NEW e \in Nat, Holds(b, k, e)
  PROVE  Nested(b) <=> Shaped(b, e) /\ InReach(b, e)
<1>1. End(b) = e /\ Nodes(b) = {q \in 0 .. e - 1 : At(b, q).tag = "begin"}  BY EndIs, NodesAre
<1>2. At(b, e).tag = "end"  BY DEF Holds, At
<1>3. \A q \in Int : Depth(b, -1, q) = Net(b, 0, q + 1)
  <2>1. -1 \in Int /\ (-1) + 1 = 0  OBVIOUS
  <2> QED BY <2>1, DepthIs
<1>4. Net(b, 0, e + 1) = Net(b, 0, e) + 0
  <2>1. Net(b, e, e + 1) = 0  BY <1>2, NetOne
  <2>2. 0 \in Int /\ e \in Int /\ e + 1 \in Int /\ 0 <= e /\ e <= e + 1  OBVIOUS
  <2> QED BY <2>1, <2>2, NetJoin
<1>5. \A q \in 0 .. e : Net(b, 0, q) \in Int /\ Net(b, 0, q + 1) \in Int  BY NetType
<1>6. Net(b, 0, 0) = 0  BY NetEmpty
<1>7. Depth(b, -1, e) = 0 <=> Net(b, 0, e) = 0
  <2>1. e \in 0 .. e /\ e \in Int  OBVIOUS
  <2> QED BY <1>3, <1>4, <1>5, <2>1
<1>8. (\A q \in 0 .. e : Depth(b, -1, q) >= 0) <=> (\A q \in 0 .. e : Net(b, 0, q) >= 0)
  <2>1. ASSUME \A q \in 0 .. e : Depth(b, -1, q) >= 0, NEW q \in 0 .. e PROVE Net(b, 0, q) >= 0
    <3>1. CASE q = 0  BY <1>6, <3>1
    <3>2. CASE q # 0
      <4>1. q - 1 \in 0 .. e /\ q - 1 \in Int /\ (q - 1) + 1 = q  BY <3>2
      <4>2. Depth(b, -1, q - 1) = Net(b, 0, (q - 1) + 1)  BY <1>3, <4>1
      <4>3. Depth(b, -1, q - 1) >= 0  BY <2>1, <4>1
      <4> QED BY <4>1, <4>2, <4>3
    <3> QED BY <3>1, <3>2
  <2>2. ASSUME \A q \in 0 .. e : Net(b, 0, q) >= 0, NEW q \in 0 .. e PROVE Depth(b, -1, q) >= 0
    <3>1. CASE q = e
      <4>1. e \in 0 .. e /\ e \in Int  OBVIOUS
      <4> QED BY <1>3, <1>4, <1>5, <2>2, <3>1, <4>1
    <3>2. CASE q # e
      <4>1. q + 1 \in 0 .. e /\ q \in Int  BY <3>2
      <4> QED BY <1>3, <2>2, <4>1
    <3> QED BY <3>1, <3>2
  <2> QED BY <2>1, <2>2
<1>9. ASSUME NEW o \in 1 .. e - 1, At(b, o).tag = "begin"
      PROVE  Depth(b, -1, o) > 1 <=> Net(b, 0, o) >= 1
  <2>1. o \in Int /\ 0 <= o /\ o <= o + 1 /\ o + 1 \in Int /\ 0 \in Int /\ o \in 0 .. e  OBVIOUS
  <2>2. Net(b, o, o + 1) = 1  BY <1>9, <2>1, NetOne
  <2>3. Net(b, 0, o + 1) = Net(b, 0, o) + 1  BY <2>1, <2>2, NetJoin
  <2>4. Depth(b, -1, o) = Net(b, 0, o + 1)  BY <1>3, <2>1
  <2> QED BY <1>5, <2>1, <2>3, <2>4
<1>10. (\A o \in Nodes(b) \ {0} : 0 \in Nodes(b) /\ Depth(b, -1, o) > 1) <=>
         \A o \in 1 .. e - 1 : At(b, o).tag = "begin" => At(b, 0).tag = "begin" /\ Net(b, 0, o) >= 1
  <2>1. \A o : o \in Nodes(b) \ {0} <=> o \in 1 .. e - 1 /\ At(b, o).tag = "begin"  BY <1>1
  <2>2. \A o \in 1 .. e - 1 : 0 \in Nodes(b) <=> At(b, 0).tag = "begin"
    <3>1. \A o \in 1 .. e - 1 : 0 \in 0 .. e - 1  OBVIOUS
    <3> QED BY <1>1, <3>1
  <2> QED BY <1>9, <2>1, <2>2
<1>11. (\A q \in Tagged(b, {"prop"}, 0) : \E o \in Nodes(b) : q \in Properties(b, o)) <=>
         \A q \in 0 .. e - 1 : At(b, q).tag = "prop" => \E o \in 0 .. q - 1 : Owns(b, o, q)
  <2>1. Tagged(b, {"prop"}, 0) = {q \in 0 .. e - 1 : At(b, q).tag = "prop"}  BY <1>1 DEF Tagged
  <2>2. ASSUME NEW q \in 0 .. e - 1, At(b, q).tag = "prop"
        PROVE  \A o : (o \in Nodes(b) /\ q \in Properties(b, o)) <=> (o \in 0 .. q - 1 /\ Owns(b, o, q))
    <3>1. \A o \in Int : q \in Properties(b, o) <=>
            q \in o + 1 .. e - 1 /\ \A p \in o + 1 .. q : At(b, p).tag \notin Edges
      BY <2>2, NodesAre
    <3>2. \A o : o \in Nodes(b) <=> o \in 0 .. e - 1 /\ At(b, o).tag = "begin"  BY <1>1
    <3>3. ASSUME NEW o, o \in Nodes(b), q \in Properties(b, o) PROVE o \in 0 .. q - 1 /\ Owns(b, o, q)
      BY <3>1, <3>2, <3>3 DEF Owns
    <3>4. ASSUME NEW o, o \in 0 .. q - 1, Owns(b, o, q) PROVE o \in Nodes(b) /\ q \in Properties(b, o)
      BY <3>1, <3>2, <3>4 DEF Owns
    <3> QED BY <3>3, <3>4
  <2>3. ASSUME NEW q \in 0 .. e - 1, At(b, q).tag = "prop"
        PROVE  (\E o \in Nodes(b) : q \in Properties(b, o)) <=> \E o \in 0 .. q - 1 : Owns(b, o, q)
    BY <2>2, <2>3
  <2> QED BY <2>1, <2>3
<1>12. (\A q \in 0 .. Size(b) - 1 : At(b, q).tag = "begin" => q \in Nodes(b)) <=> InReach(b, e)
  BY <1>1 DEF InReach
<1> QED BY <1>1, <1>7, <1>8, <1>10, <1>11, <1>12 DEF Nested, Shaped

-----------------------------------------------------------------------------
\* Lists joined and cut.

\* A list that is gone through in the same order elsewhere.
LEMMA InOrderThrough ==
  ASSUME NEW S \in SUBSET Int, IsFiniteSet(S), NEW h \in [S -> Int],
         \A x, y \in S : x < y => h[x] < h[y],
         NEW T, T = {h[x] : x \in S}
  PROVE  /\ IsFiniteSet(T) /\ T \in SUBSET Int /\ Cardinality(T) = Cardinality(S)
         /\ InOrder(T) = [k \in 1 .. Cardinality(S) |-> h[InOrder(S)[k]]]
<1> DEFINE n == Cardinality(S)
           f == InOrder(S)
           g == [k \in 1 .. n |-> h[f[k]]]
<1>1. n \in Nat /\ Sorted(f, n, S)  BY InOrderSorted
<1>2. f \in [1 .. n -> S]  BY <1>1 DEF Sorted
<1> HIDE DEF n, f
<1>3. T \in SUBSET Int  OBVIOUS
<1>4. g \in [1 .. n -> T]
  <2>1. \A k \in 1 .. n : h[f[k]] \in T  BY <1>2
  <2> QED BY <2>1
<1>5. \A i, j \in 1 .. n : i < j => g[i] < g[j]
  <2>1. ASSUME NEW i \in 1 .. n, NEW j \in 1 .. n, i < j PROVE g[i] < g[j]
    <3>1. f[i] < f[j] /\ f[i] \in S /\ f[j] \in S  BY <1>1, <1>2, <2>1 DEF Sorted
    <3> QED BY <3>1
  <2> QED BY <2>1
<1>6. \A x \in T : \E k \in 1 .. n : g[k] = x
  <2>1. ASSUME NEW x \in T PROVE \E k \in 1 .. n : g[k] = x
    <3>1. PICK y \in S : x = h[y]  OBVIOUS
    <3>2. PICK k \in 1 .. n : f[k] = y  BY <1>1 DEF Sorted
    <3> QED BY <3>1, <3>2
  <2> QED BY <2>1
<1>7. Sorted(g, n, T)
  <2> HIDE DEF g
  <2> QED BY <1>4, <1>5, <1>6 DEF Sorted
<1>8. IsFiniteSet(T) /\ Cardinality(T) = n /\ InOrder(T) = g
  <2> HIDE DEF g
  <2> QED BY <1>1, <1>3, <1>7, InOrderIs
<1> QED BY <1>3, <1>8 DEF n, f

\* The place of a number in the order.
LEMMA InOrderAt ==
  ASSUME NEW S \in SUBSET Int, IsFiniteSet(S), NEW o \in S
  PROVE  /\ Cardinality(UpTo(S, o)) \in 1 .. Cardinality(S) /\ Cardinality(S) \in Nat
         /\ InOrder(S)[Cardinality(UpTo(S, o))] = o
         /\ \A k \in 1 .. Cardinality(S) :
              /\ InOrder(S)[k] \in S
              /\ InOrder(S)[k] < o <=> k < Cardinality(UpTo(S, o))
              /\ InOrder(S)[k] = o <=> k = Cardinality(UpTo(S, o))
<1> DEFINE n == Cardinality(S)
           f == InOrder(S)
<1>1. n \in Nat /\ Sorted(f, n, S)  BY InOrderSorted
<1> HIDE DEF n, f
<1>2. f \in [1 .. n -> S] /\ \A i, j \in 1 .. n : i < j => f[i] < f[j]  BY <1>1 DEF Sorted
<1>3. PICK i \in 1 .. n : f[i] = o  BY <1>1 DEF Sorted
<1>4. Cardinality(UpTo(S, o)) = i  BY <1>1, <1>3, SortedCount
<1>5. ASSUME NEW k \in 1 .. n
      PROVE  f[k] \in S /\ (f[k] < o <=> k < i) /\ (f[k] = o <=> k = i)
  <2>1. f[k] \in S /\ f[k] \in Int /\ o \in Int  BY <1>2
  <2>2. CASE k < i
    <3>1. f[k] < f[i]  BY <1>2, <2>2
    <3> QED BY <1>3, <2>1, <2>2, <3>1
  <2>3. CASE i < k
    <3>1. f[i] < f[k]  BY <1>2, <2>3
    <3> QED BY <1>3, <2>1, <2>3, <3>1
  <2>4. CASE i = k  BY <1>3, <2>1, <2>4
  <2> QED BY <1>1, <2>2, <2>3, <2>4
<1> QED BY <1>1, <1>3, <1>4, <1>5 DEF n, f

\* A list joined and cut again.
LEMMA JoinCut ==
  ASSUME NEW V, NEW s \in Seq(V), NEW t \in Seq(V)
  PROVE  /\ SubSeq(s \o t, 1, Len(s)) = s
         /\ SubSeq(s \o t, Len(s) + 1, Len(s \o t)) = t
<1> DEFINE u == s \o t
<1>1. /\ u \in Seq(V) /\ Len(u) = Len(s) + Len(t)
      /\ \A i \in 1 .. Len(s) + Len(t) : u[i] = IF i <= Len(s) THEN s[i] ELSE t[i - Len(s)]
  BY ConcatProperties
<1>2. Len(s) \in Nat /\ Len(t) \in Nat  OBVIOUS
<1> HIDE DEF u
<1>3. SubSeq(u, 1, Len(s)) = s
  <2>1. \A i \in 1 .. Len(s) : u[i] = s[i] /\ u[i] \in V  BY <1>1, <1>2
  <2>2. /\ SubSeq(u, 1, Len(s)) \in Seq(V)
        /\ Len(SubSeq(u, 1, Len(s))) = IF 1 <= Len(s) THEN Len(s) - 1 + 1 ELSE 0
        /\ \A i \in 1 .. Len(s) - 1 + 1 : SubSeq(u, 1, Len(s))[i] = u[1 + i - 1]
    <3>1. 1 \in Int /\ Len(s) \in Int  BY <1>2
    <3> QED BY <2>1, <3>1, SubSeqProperties
  <2>3. Len(SubSeq(u, 1, Len(s))) = Len(s)  BY <1>2, <2>2
  <2>4. \A i \in 1 .. Len(SubSeq(u, 1, Len(s))) : SubSeq(u, 1, Len(s))[i] = s[i]
    BY <1>2, <2>1, <2>2, <2>3
  <2> QED BY <2>2, <2>3, <2>4, SeqEqual
<1>4. SubSeq(u, Len(s) + 1, Len(u)) = t
  <2>1. \A i \in Len(s) + 1 .. Len(u) : u[i] = t[i - Len(s)] /\ u[i] \in V
    <3>1. ASSUME NEW i \in Len(s) + 1 .. Len(u) PROVE u[i] = t[i - Len(s)] /\ u[i] \in V
      <4>1. i \in 1 .. Len(s) + Len(t) /\ ~(i <= Len(s)) /\ i - Len(s) \in 1 .. Len(t)  BY <1>1, <1>2
      <4>2. u[i] = t[i - Len(s)]  BY <1>1, <4>1
      <4>3. t[i - Len(s)] \in V  BY <4>1
      <4> QED BY <4>2, <4>3
    <3> QED BY <3>1
  <2>2. /\ SubSeq(u, Len(s) + 1, Len(u)) \in Seq(V)
        /\ Len(SubSeq(u, Len(s) + 1, Len(u))) =
             IF Len(s) + 1 <= Len(u) THEN Len(u) - (Len(s) + 1) + 1 ELSE 0
        /\ \A i \in 1 .. Len(u) - (Len(s) + 1) + 1 :
             SubSeq(u, Len(s) + 1, Len(u))[i] = u[(Len(s) + 1) + i - 1]
    <3>1. Len(s) + 1 \in Int /\ Len(u) \in Int  BY <1>1, <1>2
    <3> QED BY <2>1, <3>1, SubSeqProperties
  <2>3. Len(SubSeq(u, Len(s) + 1, Len(u))) = Len(t)  BY <1>1, <1>2, <2>2
  <2>4. ASSUME NEW i \in 1 .. Len(t) PROVE SubSeq(u, Len(s) + 1, Len(u))[i] = t[i]
    <3>1. i \in 1 .. Len(u) - (Len(s) + 1) + 1 /\ (Len(s) + 1) + i - 1 = i + Len(s)
      BY <1>1, <1>2
    <3>2. SubSeq(u, Len(s) + 1, Len(u))[i] = u[(Len(s) + 1) + i - 1]  BY <2>2, <3>1
    <3>3. i + Len(s) \in Len(s) + 1 .. Len(u) /\ (i + Len(s)) - Len(s) = i  BY <1>1, <1>2
    <3>4. u[i + Len(s)] = t[(i + Len(s)) - Len(s)]  BY <2>1, <3>3
    <3> QED BY <3>1, <3>2, <3>3, <3>4
  <2> QED BY <2>2, <2>3, <2>4, SeqEqual
<1> QED BY <1>3, <1>4 DEF u

\* The list of two sets, cut where the second begins.
LEMMA InTurnCut ==
  ASSUME NEW S \in SUBSET Int, NEW T \in SUBSET Int, IsFiniteSet(S), IsFiniteSet(T),
         \A x \in S, y \in T : x < y, NEW F
  PROVE  /\ SubSeq(InTurn(S \cup T, F), 1, Cardinality(S)) = InTurn(S, F)
         /\ SubSeq(InTurn(S \cup T, F), Cardinality(S) + 1, Len(InTurn(S \cup T, F))) = InTurn(T, F)
<1> DEFINE V == {F[q] : q \in S \cup T}
<1>1. InTurn(S, F) \in Seq(V) /\ Len(InTurn(S, F)) = Cardinality(S)
  <2>1. \A q \in S : F[q] \in V  OBVIOUS
  <2> HIDE DEF V
  <2> QED BY <2>1, InTurnType
<1>2. InTurn(T, F) \in Seq(V)
  <2>1. \A q \in T : F[q] \in V  OBVIOUS
  <2> HIDE DEF V
  <2> QED BY <2>1, InTurnType
<1>3. InTurn(S \cup T, F) = InTurn(S, F) \o InTurn(T, F)  BY InTurnJoin
<1> HIDE DEF V
<1> QED BY <1>1, <1>2, <1>3, JoinCut

-----------------------------------------------------------------------------
\* What is read at one tag.

\* What is read from cells that are the same is the same.
LEMMA BytesSame ==
  ASSUME NEW b, NEW f, NEW o \in Int, NEW d \in Int, NEW len \in Nat,
         \A i \in 0 .. Units(len) - 1 : At(f, o + d + i) = At(b, o + i)
  PROVE  BytesAt(f, o + d, len) = BytesAt(b, o, len)
<1>1. ASSUME NEW i \in 1 .. len
      PROVE  At(f, o + d + (i - 1) \div 2) = At(b, o + (i - 1) \div 2)
  <2>1. (i - 1) \div 2 \in 0 .. Units(len) - 1  BY DEF Units
  <2> QED BY <2>1
<1> QED BY <1>1 DEF BytesAt

\* The first len bytes of s and of NULs.
Padded(s, len) == [i \in 1 .. len |-> IF i <= Len(s) THEN s[i] ELSE 0]

\* Bytes put into cells are read back, padded.
LEMMA BytesBack ==
  ASSUME NEW b, NEW o \in Int, NEW s \in Seq(Nat), NEW len \in Nat, len <= 2 * Units(Len(s)),
         \A i \in 1 .. Units(Len(s)) : At(b, o + i - 1) = Bytes(s)[i]
  PROVE  BytesAt(b, o, len) = Padded(s, len)
<1> DEFINE u == Units(Len(s))
<1>1. u \in Nat /\ 2 * u >= Len(s) /\ 2 * u <= Len(s) + 1 /\ Len(s) \in Nat  BY UnitsLemma
<1>2. \A i \in 1 .. u : Bytes(s)[i] = Cell("data", s[2 * i - 1], IF 2 * i <= Len(s) THEN s[2 * i] ELSE 0)
  BY BytesLemma
<1> HIDE DEF u
<1>3. ASSUME NEW i \in 1 .. len
      PROVE  (LET c == At(b, o + (i - 1) \div 2) IN IF i % 2 = 1 THEN c.x ELSE c.y)
               = IF i <= Len(s) THEN s[i] ELSE 0
  <2> DEFINE h == (i - 1) \div 2 + 1
             c == At(b, o + (i - 1) \div 2)
  <2>1. h \in 1 .. u /\ o + h - 1 = o + (i - 1) \div 2  BY <1>1 DEF u
  <2>2. (i % 2 = 1 => i = 2 * h - 1) /\ (i % 2 # 1 => i = 2 * h)  OBVIOUS
  <2> HIDE DEF h
  <2>3. c = Bytes(s)[h]
    <3>1. At(b, o + h - 1) = Bytes(s)[h]  BY <2>1 DEF u
    <3> QED BY <2>1, <3>1
  <2>4. c = Cell("data", s[2 * h - 1], IF 2 * h <= Len(s) THEN s[2 * h] ELSE 0)  BY <1>2, <2>1, <2>3
  <2>5. c.x = s[2 * h - 1] /\ c.y = IF 2 * h <= Len(s) THEN s[2 * h] ELSE 0  BY <2>4 DEF Cell
  <2> HIDE DEF c
  <2>6. CASE i % 2 = 1
    <3>1. i <= Len(s)  BY <1>1, <2>1, <2>2, <2>6
    <3> QED BY <2>2, <2>5, <2>6, <3>1 DEF c
  <2>7. CASE i % 2 # 1  BY <2>2, <2>5, <2>7 DEF c
  <2> QED BY <2>6, <2>7
<1> QED BY <1>3 DEF BytesAt, Padded

\* The value that was written.
LEMMA ValueIs ==
  ASSUME NEW b, NEW q \in Int, NEW v \in Seq(Nat), At(b, q).y = Len(v),
         \A i \in 1 .. Units(Len(v)) : At(b, q + i) = Bytes(v)[i]
  PROVE  Value(b, q) = v
<1>1. Len(v) \in Nat /\ Len(v) <= 2 * Units(Len(v)) /\ q + 1 \in Int
  <2>1. Len(v) \in Nat  OBVIOUS
  <2> QED BY <2>1, UnitsLemma
<1>2. \A i \in 1 .. Units(Len(v)) : At(b, (q + 1) + i - 1) = Bytes(v)[i]
  <2>1. \A i \in 1 .. Units(Len(v)) : (q + 1) + i - 1 = q + i  OBVIOUS
  <2> QED BY <2>1
<1> DEFINE o == q + 1
<1>3. Value(b, q) = BytesAt(b, o, Len(v))  BY DEF Value
<1> HIDE DEF o
<1>4. BytesAt(b, o, Len(v)) = Padded(v, Len(v))
  <2>1. o \in Int /\ \A i \in 1 .. Units(Len(v)) : At(b, o + i - 1) = Bytes(v)[i]
    BY <1>1, <1>2 DEF o
  <2> QED BY <1>1, <2>1, BytesBack
<1>5. Padded(v, Len(v)) = [i \in 1 .. Len(v) |-> v[i]]  BY DEF Padded
<1>6. v = [i \in 1 .. Len(v) |-> v[i]]  OBVIOUS
<1> QED BY <1>3, <1>4, <1>5, <1>6

\* The name that was written.
LEMMA NameIs ==
  ASSUME NEW b, NEW o \in Int, NEW name \in Seq(Nat \ {0}),
         NextTag(b, o) = o + 1 + Len(NameCells(name)),
         \A i \in 1 .. Len(NameCells(name)) : At(b, o + i) = NameCells(name)[i]
  PROVE  GetName(b, o) = name
<1> DEFINE s == Append(name, 0)
           l == Len(NameCells(name))
           p == o + 1
           v == BytesAt(b, p, 2 * l)
<1>1. s \in Seq(Nat) /\ Len(s) = Len(name) + 1 /\ Len(name) \in Nat /\ s[Len(name) + 1] = 0
      /\ \A i \in 1 .. Len(name) : s[i] = name[i] /\ s[i] # 0
  OBVIOUS
<1>2. NameCells(name) = Bytes(s)  BY DEF NameCells
<1> HIDE DEF s
<1>3. l = Units(Len(s)) /\ l \in Nat /\ Len(s) <= 2 * l
  <2>1. Len(Bytes(s)) = Units(Len(s))  BY <1>1, BytesLemma
  <2>2. Len(s) \in Nat  BY <1>1
  <2>3. Units(Len(s)) \in Nat /\ Len(s) <= 2 * Units(Len(s))  BY <2>2, UnitsLemma
  <2> QED BY <1>2, <2>1, <2>3
<1>4. GetName(b, o) = Text(v)
  <2>1. NextTag(b, o) - o - 1 = l
    <3>1. NextTag(b, o) = o + 1 + l  OBVIOUS
    <3> HIDE DEF l
    <3> QED BY <1>3, <3>1
  <2> QED BY <2>1 DEF GetName
<1>5. v = Padded(s, 2 * l)
  <2>1. \A i \in 1 .. Units(Len(s)) : At(b, p + i - 1) = Bytes(s)[i]
    <3>1. ASSUME NEW i \in 1 .. Units(Len(s)) PROVE At(b, p + i - 1) = Bytes(s)[i]
      <4>1. i \in 1 .. l /\ p + i - 1 = o + i  BY <1>3
      <4> QED BY <1>2, <4>1
    <3> QED BY <3>1
  <2>2. p \in Int  OBVIOUS
  <2> HIDE DEF p
  <2>3. 2 * l \in Nat /\ 2 * l <= 2 * Units(Len(s))  BY <1>3
  <2> QED BY <1>1, <2>1, <2>2, <2>3, BytesBack
<1> HIDE DEF v, l
<1>6. v \in Seq(Nat) /\ Len(v) = 2 * l
  <2>1. \A i \in 1 .. 2 * l : (IF i <= Len(s) THEN s[i] ELSE 0) \in Nat
    <3>1. \A i \in 1 .. 2 * l : i <= Len(s) => i \in 1 .. Len(s)  BY <1>1
    <3> QED BY <1>1, <3>1
  <2>2. 2 * l \in Nat  BY <1>3
  <2>3. v \in [1 .. 2 * l -> Nat]  BY <1>5, <2>1 DEF Padded
  <2> QED BY <2>2, <2>3, FunSeq
<1> DEFINE j == Len(name) + 1
           T == {i \in DOMAIN v : v[i] = 0}
<1>7. j \in 1 .. 2 * l /\ v[j] = 0 /\ \A i \in 1 .. j - 1 : v[i] = name[i] /\ v[i] # 0
  <2>1. j \in 1 .. 2 * l /\ j <= Len(s)  BY <1>1, <1>3
  <2>2. \A i \in 1 .. j - 1 : i \in 1 .. 2 * l /\ i <= Len(s) /\ i \in 1 .. Len(name)
    <3>1. j - 1 = Len(name) /\ Len(s) = j  BY <1>1
    <3>2. j \in Nat  BY <1>1
    <3> HIDE DEF j
    <3> QED BY <1>3, <2>1, <3>1, <3>2
  <2>3. \A i \in 1 .. 2 * l : v[i] = IF i <= Len(s) THEN s[i] ELSE 0  BY <1>5 DEF Padded
  <2> QED BY <1>1, <2>1, <2>2, <2>3
<1>8. DOMAIN v = 1 .. 2 * l  BY <1>6
<1>9. j \in T /\ T \in SUBSET Nat /\ \A i \in T : j <= i
  <2>1. ASSUME NEW i \in T PROVE j <= i
    <3>1. SUFFICES ASSUME i < j PROVE FALSE  BY <1>1, <1>8
    <3>2. i \in 1 .. j - 1 /\ v[i] = 0  BY <1>8, <3>1
    <3> QED BY <1>7, <3>2
  <2> QED BY <1>7, <1>8, <2>1
<1>10. Lowest(T, Len(v) + 1) = j
  <2> HIDE DEF T, j
  <2> QED BY <1>9, LowestIs
<1>11. Text(v) = SubSeq(v, 1, j - 1)  BY <1>10 DEF Text
<1>12. SubSeq(v, 1, j - 1) = name
  <2>1. j - 1 = Len(name)  BY <1>1
  <2>2. \A i \in 1 .. Len(name) : v[i] = name[i] /\ v[i] \in Nat  BY <1>7, <2>1
  <2>3. SubSeq(v, 1, Len(name)) \in Seq(Nat) /\ Len(SubSeq(v, 1, Len(name))) = Len(name)
        /\ \A i \in 1 .. Len(name) : SubSeq(v, 1, Len(name))[i] = v[i]
    <3>1. Len(name) \in 0 .. Len(v)  BY <1>1, <1>6, <1>7
    <3> QED BY <1>6, <3>1
  <2>4. name \in Seq(Nat)  OBVIOUS
  <2>5. SubSeq(v, 1, Len(name)) = name  BY <2>2, <2>3, <2>4, SeqEqual
  <2> QED BY <2>1, <2>5
<1> QED BY <1>4, <1>11, <1>12

-----------------------------------------------------------------------------
\* The tree a blob holds.

\* What Decoded makes of a property, of a node and of all of them.
PairAt(b, q) == <<StringAt(b, At(b, q).x), Value(b, q)>>
Pairs(b) == [q \in Int |-> PairAt(b, q)]
PropsOf(b, o) == InTurn(Properties(b, o), Pairs(b))
NodeAs(b, o) == [depth |-> Depth(b, 0, o), name |-> GetName(b, o), props |-> PropsOf(b, o)]
NodesAs(b) == [o \in Int |-> NodeAs(b, o)]
TreeOf(b) == InTurn(Nodes(b), NodesAs(b))
ReservedOf(b, k) == [i \in 1 .. k |-> b.mem[b.off_mem_rsvmap + (i - 1)].x]

\* What a reader finds, for a blob whose END and reserve map are known.
LEMMA DecodedIs ==
  ASSUME NEW b \in Blobs, NEW k \in Nat, NEW e \in Nat, Holds(b, k, e), b.magic = "FDT"
  PROVE  /\ Decoded(b).tree = TreeOf(b) /\ Decoded(b).reserved = ReservedOf(b, k)
         /\ Decoded(b).writable = (RwCheckHeader(b) = 0)
<1> DEFINE nodes == InOrder(Nodes(b))
           PairsIn(qs) == [i \in DOMAIN qs |-> <<StringAt(b, At(b, qs[i]).x), Value(b, qs[i])>>]
           Rec(o) == [depth |-> Depth(b, 0, o), name |-> GetName(b, o),
                      props |-> PairsIn(InOrder(Properties(b, o)))]
           t == [i \in DOMAIN nodes |-> Rec(nodes[i])]
<1>1. Decoded(b) = [tree |-> t, reserved |-> [i \in 1 .. NumMemRsv(b) |-> GetMemRsv(b, i - 1)],
                    writable |-> RwCheckHeader(b) = 0]
  <2>1. CheckHeader(b) = 0
    <3>1. b.version \in {16, 17}  BY BlobFields
    <3>2. ~(b.version < 16)  BY <3>1
    <3> QED BY <3>2 DEF CheckHeader
  <2> HIDE DEF t
  <2> QED BY <2>1 DEF Decoded, t
<1>2. DOMAIN nodes = 1 .. Cardinality(Nodes(b)) /\ \A i \in DOMAIN nodes : nodes[i] \in Int
  <2>1. Nodes(b) \in SUBSET Int /\ IsFiniteSet(Nodes(b))  BY NodesAre
  <2>2. nodes \in [1 .. Cardinality(Nodes(b)) -> Nodes(b)]  BY <2>1, InOrderSorted DEF Sorted
  <2> HIDE DEF nodes
  <2> QED BY <2>1, <2>2
<1>3. ASSUME NEW o \in Int PROVE Rec(o) = NodeAs(b, o)
  <2> DEFINE S == Properties(b, o)
             qs == InOrder(S)
  <2>1. S \in SUBSET Int /\ IsFiniteSet(S)  BY NodesAre
  <2>2. qs \in [1 .. Cardinality(S) -> S]
    <3> HIDE DEF S
    <3> QED BY <2>1, InOrderSorted DEF Sorted
  <2>3. DOMAIN qs = 1 .. Cardinality(S) /\ \A i \in DOMAIN qs : qs[i] \in Int
    <3> HIDE DEF qs, S
    <3> QED BY <2>1, <2>2
  <2>4. \A i \in DOMAIN qs : Pairs(b)[qs[i]] = <<StringAt(b, At(b, qs[i]).x), Value(b, qs[i])>>
    <3> HIDE DEF qs, S
    <3> QED BY <2>3 DEF Pairs, PairAt
  <2>5. PropsOf(b, o) = [i \in 1 .. Cardinality(S) |-> Pairs(b)[qs[i]]]  BY DEF PropsOf, InTurn
  <2>6. PairsIn(qs) = PropsOf(b, o)
    <3> HIDE DEF qs, S
    <3> QED BY <2>3, <2>4, <2>5
  <2> HIDE DEF PairsIn
  <2> QED BY <2>6 DEF NodeAs
<1>4. TreeOf(b) = [i \in 1 .. Cardinality(Nodes(b)) |-> NodesAs(b)[nodes[i]]]  BY DEF TreeOf, InTurn
<1>5. t = TreeOf(b)
  <2>1. \A i \in DOMAIN nodes : NodesAs(b)[nodes[i]] = Rec(nodes[i])
    <3> HIDE DEF nodes, Rec
    <3> QED BY <1>2, <1>3 DEF NodesAs
  <2> HIDE DEF nodes, Rec
  <2> QED BY <1>2, <1>4, <2>1
<1>6. [i \in 1 .. NumMemRsv(b) |-> GetMemRsv(b, i - 1)] = ReservedOf(b, k)
  BY RsvCount DEF ReservedOf, GetMemRsv
<1> HIDE DEF t
<1> QED BY <1>1, <1>5, <1>6

\* The strings that b has at some offset f has there too.
Keeps(b, f) ==
  \A x : \A n \in Seq(Nat \ {0}) :
    IsString(b.mem, b.off_dt_strings, b.size_dt_strings, x, n) =>
      IsString(f.mem, f.off_dt_strings, f.size_dt_strings, x, n)

\* A property's name is the same where the strings were kept, and is a name.
LEMMA StringSame ==
  ASSUME NEW b \in Blobs, NEW k \in Nat, NEW e \in Nat, Holds(b, k, e),
         NEW f \in Blobs, NEW k2 \in Nat, NEW e2 \in Nat, Holds(f, k2, e2), Keeps(b, f),
         NEW q \in 0 .. e - 1, At(b, q).tag = "prop"
  PROVE  /\ StringAt(f, At(b, q).x) = StringAt(b, At(b, q).x)
         /\ StringAt(b, At(b, q).x) \in Seq(Nat)
         /\ \E n \in PropNames : IsString(b.mem, b.off_dt_strings, b.size_dt_strings, At(b, q).x, n)
<1> DEFINE x == At(b, q).x
           st == b.off_dt_struct
<1>1. PICK n \in PropNames : IsString(b.mem, b.off_dt_strings, b.size_dt_strings, x, n)
  <2>1. Named(b.mem, st, st + e, b.off_dt_strings, b.size_dt_strings)  BY DEF Holds
  <2>2. st \in Nat  BY BlobFields
  <2>3. st + q \in st .. st + e - 1 /\ b.mem[st + q].tag = "prop"
    <3>1. b.mem[st + q].tag = "prop"  BY DEF At
    <3> HIDE DEF st
    <3> QED BY <2>2, <3>1
  <2>4. b.mem[st + q].x = x  BY DEF At
  <2> DEFINE p == st + q
             str == b.off_dt_strings
             sl == b.size_dt_strings
             s == st
             t == st + e
             m == b.mem
  <2>5. /\ p \in s .. t - 1
        /\ m[p].tag = "prop"
        /\ m[p].x = x
        /\ Named(m, s, t, str, sl)
    <3>1. p \in s .. t - 1  BY <2>2
    <3>2. m[p].tag = "prop"  BY <2>3
    <3>3. m[p].x = x  BY <2>4
    <3>4. Named(m, s, t, str, sl)  BY <2>1
    <3> QED BY <3>1, <3>2, <3>3, <3>4
  <2> HIDE DEF p, str, sl, s, t, m, x
  <2>6. \E n \in PropNames : IsString(m, str, sl, m[p].x, n)  BY <2>5 DEF Named
  <2> QED BY <2>5, <2>6 DEF m, str, sl
<1>2. n \in Seq(Nat \ {0}) /\ n \in Seq(Nat)  BY FdtEditAssumption
<1> HIDE DEF x
<1>3. IsString(f.mem, f.off_dt_strings, f.size_dt_strings, x, n)  BY <1>1, <1>2 DEF Keeps
<1>4. /\ b.off_dt_strings + b.size_dt_strings <= b.totalsize
      /\ f.off_dt_strings + f.size_dt_strings <= f.totalsize
  BY DEF Holds
<1>5. StringAt(b, x) = n  BY <1>1, <1>2, <1>4, StringAtIs
<1>6. StringAt(f, x) = n  BY <1>2, <1>3, <1>4, StringAtIs
<1> QED BY <1>1, <1>2, <1>5, <1>6 DEF x

\* A tag and what belongs to it, the same d cells further on.
LEMMA ReadMoved ==
  ASSUME NEW b \in Blobs, NEW k \in Nat, NEW e \in Nat, Holds(b, k, e),
         NEW f \in Blobs, NEW k2 \in Nat, NEW e2 \in Nat, Holds(f, k2, e2),
         NEW q \in 0 .. e - 1, At(b, q).tag \in Opens, NEW d \in Int,
         q + d \in Nat, NextTag(b, q) + d <= e2,
         \A p \in q .. NextTag(b, q) - 1 : At(f, p + d) = At(b, p)
  PROVE  /\ NextTag(f, q + d) = NextTag(b, q) + d
         /\ At(b, q).tag = "begin" => GetName(f, q + d) = GetName(b, q)
         /\ At(b, q).tag = "prop" => Value(f, q + d) = Value(b, q)
<1> DEFINE n == NextTag(b, q)
           sb == b.off_dt_struct
           sf == f.off_dt_struct
<1>1. n \in q + 1 .. e /\ Elem(b.mem, sb + q, sb + n)  BY TagAt
<1>2. sb \in Nat /\ sf \in Nat  BY BlobFields
<1>3. Size(f) \in Int /\ e2 + 1 <= Size(f)  BY EndIs
<1> HIDE DEF n
<1>4. Elem(f.mem, sf + (q + d), sf + (n + d))
  <2> DEFINE h == sf + d - sb
             p == sb + q
             t == sb + n
  <2>1. h \in Int /\ p \in Nat /\ t \in Nat /\ p < t /\ p + h = sf + (q + d) /\ t + h = sf + (n + d)
    BY <1>1, <1>2
  <2>2. p + h \in Nat  BY <1>2, <2>1
  <2>3. ASSUME NEW i \in p .. t - 1 PROVE f.mem[i + h] = b.mem[i]
    <3>1. i - sb \in q .. n - 1 /\ sf + ((i - sb) + d) = i + h /\ sb + (i - sb) = i
      BY <1>1, <1>2, <2>1
    <3>2. At(f, (i - sb) + d) = At(b, i - sb)  BY <3>1 DEF n
    <3> QED BY <3>1, <3>2 DEF At
  <2>4. Elem(b.mem, p, t)  BY <1>1
  <2>5. Elem(f.mem, p + h, t + h)
    <3> HIDE DEF h, p, t
    <3> QED BY <2>1, <2>2, <2>3, <2>4, ElemMoved
  <2> QED BY <2>1, <2>5
<1>5. NextTag(f, q + d) = n + d
  <2> DEFINE q2 == q + d
             n2 == n + d
  <2>1. q2 \in Nat /\ n2 \in Nat /\ q2 < n2 /\ n2 <= Size(f)  BY <1>1, <1>3 DEF n
  <2>2. Elem(f.mem, sf + q2, sf + n2)  BY <1>4
  <2> HIDE DEF q2, n2
  <2>3. NextTag(f, q2) = n2  BY <1>3, <2>1, <2>2, NextTagAt
  <2> QED BY <2>3 DEF q2, n2
<1>6. ASSUME At(b, q).tag = "begin" PROVE GetName(f, q + d) = GetName(b, q)
  <2> DEFINE len == 2 * (n - q - 1)
             o == q + 1
  <2>1. len \in Nat /\ Units(len) = n - q - 1 /\ o \in Int  BY <1>1 DEF Units
  <2>2. \A i \in 0 .. Units(len) - 1 : At(f, o + d + i) = At(b, o + i)
    <3>1. ASSUME NEW i \in 0 .. Units(len) - 1 PROVE At(f, o + d + i) = At(b, o + i)
      <4>1. o + i \in q .. n - 1 /\ (o + i) + d = o + d + i  BY <1>1, <2>1
      <4> HIDE DEF o
      <4> QED BY <4>1 DEF n
    <3> QED BY <3>1
  <2>3. BytesAt(f, o + d, len) = BytesAt(b, o, len)
    <3> HIDE DEF o, len
    <3> QED BY <2>1, <2>2, BytesSame
  <2>4. GetName(b, q) = Text(BytesAt(b, o, len))  BY DEF GetName, n
  <2>5. GetName(f, q + d) = Text(BytesAt(f, o + d, len))
    <3>1. (q + d) + 1 = o + d /\ 2 * ((n + d) - (q + d) - 1) = len  BY <1>1
    <3> HIDE DEF o, len
    <3> QED BY <1>5, <3>1 DEF GetName
  <2> QED BY <2>3, <2>4, <2>5
<1>7. ASSUME At(b, q).tag = "prop" PROVE Value(f, q + d) = Value(b, q)
  <2> DEFINE len == At(b, q).y
             o == q + 1
  <2>1. len \in Nat /\ n = q + 1 + Units(len) /\ Units(len) \in Nat /\ o \in Int
    <3>1. len \in Nat  BY <1>7, ValueLemma
    <3>2. n = q + 1 + Units(len) /\ Units(len) \in Nat  BY <1>7, PropertyEnds DEF n
    <3> QED BY <3>1, <3>2
  <2>2. \A i \in 0 .. Units(len) - 1 : At(f, o + d + i) = At(b, o + i)
    <3>1. ASSUME NEW i \in 0 .. Units(len) - 1 PROVE At(f, o + d + i) = At(b, o + i)
      <4> HIDE DEF len
      <4>1. o + i \in q .. n - 1 /\ (o + i) + d = o + d + i  BY <1>1, <2>1
      <4> HIDE DEF o
      <4> QED BY <4>1 DEF n
    <3> QED BY <3>1
  <2>3. BytesAt(f, o + d, len) = BytesAt(b, o, len)
    <3> HIDE DEF o, len
    <3> QED BY <2>1, <2>2, BytesSame
  <2>4. At(f, q + d).y = len
    <3>1. q \in q .. n - 1  BY <1>1
    <3> QED BY <3>1 DEF n
  <2>5. (q + d) + 1 = o + d  OBVIOUS
  <2> HIDE DEF o, len
  <2> QED BY <2>3, <2>4, <2>5 DEF Value, o, len
<1> QED BY <1>5, <1>6, <1>7 DEF n

-----------------------------------------------------------------------------
\* An edit of the structure: the cells a .. c - 1 give way to a .. z - 1.

\* The cells a to c - 1 of the structure of b, tags with what belongs to them, give way
\* to the cells a to z - 1 of f; what lies before and behind them stays, and so does
\* every string.
EditOf(b, k, e, f, k2, a, c, z) ==
  /\ b \in Blobs /\ Holds(b, k, e) /\ f \in Blobs /\ Holds(f, k2, e + (z - c))
  /\ a <= c /\ c <= e /\ 0 < c /\ a <= z
  /\ Run(b.mem, b.off_dt_struct, b.off_dt_struct + a)
  /\ \A q \in 0 .. a - 1 : At(f, q) = At(b, q)
  /\ \A q \in c .. e : At(f, q + (z - c)) = At(b, q)
  /\ Net(f, a, z) = Net(b, a, c)
  /\ Keeps(b, f)

\* The tag behind one of the first cells lies no farther than these cells do.
LEMMA NextWithin ==
  ASSUME NEW b \in Blobs, NEW k \in Nat, NEW e \in Nat, Holds(b, k, e),
         NEW a \in 0 .. e, Run(b.mem, b.off_dt_struct, b.off_dt_struct + a),
         NEW q \in 0 .. a - 1, At(b, q).tag \in Opens
  PROVE  NextTag(b, q) \in q + 1 .. a
<1> DEFINE st == b.off_dt_struct
           p == st + q
           t == st + a
<1>1. st \in Nat /\ p \in st .. t - 1 /\ t \in Nat /\ p \in Nat  BY BlobFields
<1>2. PICK n \in p + 1 .. t : Elem(b.mem, p, n)
  <2>1. b.mem[p].tag \in Opens  BY DEF At
  <2>2. Run(b.mem, st, t)  OBVIOUS
  <2> HIDE DEF p, t, st
  <2> QED BY <1>1, <2>1, <2>2 DEF Run
<1>3. Size(b) \in Int /\ e + 1 <= Size(b)  BY EndIs
<1> DEFINE m == n - st
<1>4. m \in q + 1 .. a /\ st + m = n  BY <1>1
<1> HIDE DEF m
<1>5. q \in Nat /\ m \in Nat /\ q < m /\ m <= Size(b)  BY <1>3, <1>4
<1>6. Elem(b.mem, b.off_dt_struct + q, b.off_dt_struct + m)  BY <1>2, <1>4
<1>7. NextTag(b, q) = m  BY <1>3, <1>5, <1>6, NextTagAt
<1> QED BY <1>4, <1>7

\* The END is where the cells before it are none.
LEMMA EndMoved ==
  ASSUME NEW f \in Blobs, NEW k \in Nat, NEW e \in Nat, Holds(f, k, e),
         NEW x \in Nat, At(f, x).tag = "end", \A q \in 0 .. x - 1 : At(f, q).tag # "end"
  PROVE  e = x
<1>1. At(f, e).tag = "end"  BY DEF Holds, At
<1>2. ASSUME NEW q \in 0 .. e - 1 PROVE At(f, q).tag # "end"
  <2> DEFINE st == f.off_dt_struct
  <2>1. st \in Nat /\ Run(f.mem, st, st + e)  BY BlobFields DEF Holds
  <2>2. st + q \in st .. st + e - 1  BY <2>1
  <2>3. f.mem[st + q].tag # "end"
    <3> HIDE DEF st
    <3> QED BY <2>1, <2>2 DEF Run
  <2> QED BY <2>3 DEF At
<1>3. ~(x < e)
  <2>1. x < e => x \in 0 .. e - 1  OBVIOUS
  <2> QED BY <1>2, <2>1
<1>4. ~(e < x)
  <2>1. e < x => e \in 0 .. x - 1  OBVIOUS
  <2> QED BY <1>1, <2>1
<1> QED BY <1>3, <1>4

\* How deep the cells of f are.
EditNets(b, e, f, a, c, z) ==
  /\ \A q \in 0 .. a : Net(f, 0, q) = Net(b, 0, q)
  /\ \A q \in a .. z : Net(f, 0, q) = Net(b, 0, a) + Net(f, a, q)
  /\ \A q \in c .. e : Net(f, 0, q + (z - c)) = Net(b, 0, q)

\* Nets across an edit: the cells before it and behind it keep theirs.
LEMMA EditNet ==
  ASSUME NEW b, NEW k \in Nat, NEW e \in Nat, NEW f, NEW k2 \in Nat,
         NEW a \in Nat, NEW c \in Nat, NEW z \in Nat, EditOf(b, k, e, f, k2, a, c, z)
  PROVE  EditNets(b, e, f, a, c, z)
<1>0. a <= c /\ c <= e /\ a <= z  BY DEF EditOf
<1>1. ASSUME NEW q \in 0 .. a PROVE Net(f, 0, q) = Net(b, 0, q)
  <2>1. \A p \in 0 .. q - 1 : At(f, p).tag = At(b, p).tag
    <3>1. \A p \in 0 .. q - 1 : p \in 0 .. a - 1  OBVIOUS
    <3> QED BY <3>1 DEF EditOf
  <2>2. q \in Int /\ 0 \in Int  OBVIOUS
  <2> QED BY <2>1, <2>2, NetSame
<1>2. ASSUME NEW q \in a .. z PROVE Net(f, 0, q) = Net(b, 0, a) + Net(f, a, q)
  <2>1. Net(f, 0, q) = Net(f, 0, a) + Net(f, a, q)
    <3>1. 0 \in Int /\ a \in Int /\ q \in Int /\ 0 <= a /\ a <= q  OBVIOUS
    <3> QED BY <3>1, NetJoin
  <2>2. Net(f, 0, a) = Net(b, 0, a)
    <3>1. a \in 0 .. a  OBVIOUS
    <3> QED BY <1>1, <3>1
  <2> QED BY <2>1, <2>2
<1>3. ASSUME NEW q \in c .. e PROVE Net(f, 0, q + (z - c)) = Net(b, 0, q)
  <2> DEFINE d == z - c
  <2>0. d \in Int /\ c + d = z /\ q \in Int /\ c \in Int /\ z \in Int /\ z <= q + d /\ q + d \in Int
    BY <1>0
  <2>1. Net(f, c + d, q + d) = Net(b, c, q)
    <3>1. \A p \in c .. q - 1 : At(f, p + d).tag = At(b, p).tag
      <4>1. \A p \in c .. q - 1 : p \in c .. e  OBVIOUS
      <4> QED BY <4>1 DEF EditOf
    <3> HIDE DEF d
    <3> QED BY <2>0, <3>1, NetMoved
  <2>2. Net(f, 0, q + d) = Net(f, 0, z) + Net(f, z, q + d)
    <3>1. 0 \in Int /\ 0 <= z  OBVIOUS
    <3> HIDE DEF d
    <3> QED BY <2>0, <3>1, NetJoin
  <2>3. Net(b, 0, q) = Net(b, 0, c) + Net(b, c, q)
    <3>1. 0 \in Int /\ 0 <= c /\ c <= q  OBVIOUS
    <3> QED BY <2>0, <3>1, NetJoin
  <2>4. Net(b, 0, c) = Net(b, 0, a) + Net(b, a, c)
    <3>1. 0 \in Int /\ a \in Int /\ 0 <= a /\ a <= c  BY <1>0
    <3> QED BY <2>0, <3>1, NetJoin
  <2>5. Net(f, 0, z) = Net(b, 0, a) + Net(f, a, z)
    <3>1. z \in a .. z  BY <1>0
    <3> QED BY <1>2, <3>1
  <2>6. Net(f, a, z) = Net(b, a, c)  BY DEF EditOf
  <2> HIDE DEF d
  <2>7. Net(f, 0, q + d) = Net(b, 0, q)  BY <2>0, <2>1, <2>2, <2>3, <2>4, <2>5, <2>6
  <2> QED BY <2>7 DEF d
<1> QED BY <1>1, <1>2, <1>3 DEF EditNets

\* The tree stays one: the new cells close what they open, a property among them or
\* behind them has its node.
LEMMA EditShaped ==
  ASSUME NEW b, NEW k \in Nat, NEW e \in Nat, NEW f, NEW k2 \in Nat,
         NEW a \in Nat, NEW c \in Nat, NEW z \in Nat, EditOf(b, k, e, f, k2, a, c, z), Shaped(b, e),
         \A q \in a .. z : Net(b, 0, a) + Net(f, a, q) >= 0,
         \A o \in a .. z - 1 : 0 < o /\ At(f, o).tag = "begin" => Net(b, 0, a) + Net(f, a, o) >= 1,
         \A o \in 1 .. e + (z - c) - 1 : At(f, o).tag = "begin" => At(f, 0).tag = "begin",
         \A q \in a .. z - 1 : At(f, q).tag = "prop" => \E o \in 0 .. q - 1 : Owns(f, o, q),
         \A q \in c .. e - 1 : At(b, q).tag = "prop" =>
           \A o \in 0 .. c - 1 : Owns(b, o, q) => \E p \in 0 .. q + (z - c) - 1 : Owns(f, p, q + (z - c))
  PROVE  Shaped(f, e + (z - c))
<1> DEFINE d == z - c
           e2 == e + d
<1>0. a <= c /\ c <= e /\ a <= z /\ 0 < c /\ d \in Int /\ e2 \in Int  BY DEF EditOf
<1>1. ASSUME NEW q \in 0 .. e2
      PROVE  \/ q \in 0 .. a - 1
             \/ q \in a .. z - 1
             \/ q - d \in c .. e /\ (q - d) + d = q
  BY <1>0
<1>2. /\ \A q \in 0 .. a : Net(f, 0, q) = Net(b, 0, q)
      /\ \A q \in a .. z : Net(f, 0, q) = Net(b, 0, a) + Net(f, a, q)
      /\ \A q \in c .. e : Net(f, 0, q + d) = Net(b, 0, q)
  <2>1. EditNets(b, e, f, a, c, z)
    <3> HIDE DEF d, e2
    <3> QED BY EditNet
  <2> QED BY <2>1 DEF EditNets
<1>3. Net(f, 0, e2) = 0
  <2>1. e \in c .. e  BY <1>0
  <2> QED BY <1>2, <2>1 DEF Shaped
<1>4. ASSUME NEW q \in 0 .. e2 PROVE Net(f, 0, q) >= 0
  <2>1. CASE q \in 0 .. a - 1
    <3>1. q \in 0 .. a /\ q \in 0 .. e  BY <1>0, <2>1
    <3> QED BY <1>2, <3>1 DEF Shaped
  <2>2. CASE q \in a .. z - 1
    <3>1. q \in a .. z  BY <2>2
    <3> QED BY <1>2, <3>1
  <2>3. CASE q - d \in c .. e /\ (q - d) + d = q
    <3>1. Net(f, 0, (q - d) + d) = Net(b, 0, q - d)  BY <1>2, <2>3
    <3>2. q - d \in 0 .. e  BY <1>0, <2>3
    <3> QED BY <2>3, <3>1, <3>2 DEF Shaped
  <2> QED BY <1>1, <2>1, <2>2, <2>3
<1>5. ASSUME NEW o \in 1 .. e2 - 1, At(f, o).tag = "begin"
      PROVE  At(f, 0).tag = "begin" /\ Net(f, 0, o) >= 1
  <2>0. At(f, 0).tag = "begin"  BY <1>5
  <2>1. CASE o \in 0 .. a - 1
    <3>1. o \in 0 .. a /\ o \in 1 .. e - 1  BY <1>0, <2>1
    <3>2. At(b, o).tag = "begin"  BY <1>5, <2>1 DEF EditOf
    <3> QED BY <1>2, <2>0, <3>1, <3>2 DEF Shaped
  <2>2. CASE o \in a .. z - 1
    <3>1. o \in a .. z /\ 0 < o  BY <2>2
    <3> QED BY <1>2, <1>5, <2>0, <2>2, <3>1
  <2>3. CASE o - d \in c .. e /\ (o - d) + d = o
    <3> DEFINE x == o - d
    <3>1. x \in c .. e /\ x + d = o /\ x \in 1 .. e - 1  BY <1>0, <2>3
    <3> HIDE DEF x
    <3>2. At(b, x).tag = "begin"
      <4>1. At(f, x + d) = At(b, x)  BY <3>1 DEF EditOf
      <4> QED BY <1>5, <3>1, <4>1
    <3>3. Net(b, 0, x) >= 1  BY <3>1, <3>2 DEF Shaped
    <3>4. Net(f, 0, x + d) = Net(b, 0, x)  BY <1>2, <3>1
    <3> QED BY <2>0, <3>1, <3>3, <3>4
  <2>4. o \in 0 .. e2  OBVIOUS
  <2> HIDE DEF d, e2
  <2> QED BY <1>1, <2>1, <2>2, <2>3, <2>4
<1>6. ASSUME NEW q \in 0 .. e2 - 1, At(f, q).tag = "prop"
      PROVE  \E o \in 0 .. q - 1 : Owns(f, o, q)
  <2>1. CASE q \in 0 .. a - 1
    <3>1. At(b, q).tag = "prop" /\ q \in 0 .. e - 1  BY <1>0, <1>6, <2>1 DEF EditOf
    <3>2. PICK o \in 0 .. q - 1 : Owns(b, o, q)  BY <3>1 DEF Shaped
    <3>3. \A p \in o .. q : At(f, p) = At(b, p)
      <4>1. \A p \in o .. q : p \in 0 .. a - 1  BY <2>1
      <4> QED BY <4>1 DEF EditOf
    <3>4. Owns(f, o, q)
      <4>1. o \in o .. q /\ \A p \in o + 1 .. q : p \in o .. q  OBVIOUS
      <4> QED BY <3>2, <3>3, <4>1 DEF Owns
    <3> QED BY <3>4
  <2>2. CASE q \in a .. z - 1  BY <1>6, <2>2
  <2>3. CASE q - d \in c .. e /\ (q - d) + d = q
    <3> DEFINE x == q - d
    <3>1. x \in c .. e /\ x + d = q /\ x \in 0 .. e - 1 /\ x \in c .. e - 1  BY <1>0, <2>3
    <3> HIDE DEF x
    <3>2. At(b, x).tag = "prop"
      <4>1. At(f, x + d) = At(b, x)  BY <3>1 DEF EditOf
      <4> QED BY <1>6, <3>1, <4>1
    <3>3. PICK o \in 0 .. x - 1 : Owns(b, o, x)  BY <3>1, <3>2 DEF Shaped
    <3>4. CASE o \in 0 .. c - 1
      <4>1. \E p \in 0 .. x + d - 1 : Owns(f, p, x + d)  BY <3>1, <3>2, <3>3, <3>4
      <4> QED BY <3>1, <4>1
    <3>5. CASE o \in c .. x - 1
      <4>1. \A p \in o .. x : At(f, p + d) = At(b, p)
        <5>1. \A p \in o .. x : p \in c .. e  BY <3>1, <3>5
        <5> QED BY <5>1 DEF EditOf
      <4>2. At(f, o + d).tag = "begin"
        <5>1. o \in o .. x  BY <3>1, <3>5
        <5> QED BY <3>3, <4>1, <5>1 DEF Owns
      <4>3. ASSUME NEW p \in (o + d) + 1 .. q PROVE At(f, p).tag \notin Edges
        <5>1. p - d \in o + 1 .. x /\ p - d \in o .. x /\ (p - d) + d = p  BY <1>0, <3>1
        <5>2. At(f, (p - d) + d) = At(b, p - d)  BY <4>1, <5>1
        <5>3. At(b, p - d).tag \notin Edges  BY <3>3, <5>1 DEF Owns
        <5> QED BY <5>1, <5>2, <5>3
      <4>4. o + d \in 0 .. q - 1  BY <1>0, <3>1, <3>5
      <4> QED BY <4>2, <4>3, <4>4 DEF Owns
    <3> QED BY <3>3, <3>4, <3>5
  <2>4. q \in 0 .. e2  OBVIOUS
  <2> HIDE DEF d, e2
  <2> QED BY <1>1, <2>1, <2>2, <2>3, <2>4
<1> HIDE DEF e2
<1> QED BY <1>3, <1>4, <1>5, <1>6 DEF Shaped, e2

\* By how much the cell q of b, which is not among those that go, lies elsewhere in f.
By(q, a, c, z) == IF q < a THEN 0 ELSE z - c

\* What is read at such a cell.
ReadThere(b, e, f, q, dd) ==
  /\ dd \in Int /\ At(f, q + dd) = At(b, q)
  /\ NextTag(f, q + dd) = NextTag(b, q) + dd /\ NextTag(b, q) \in q + 1 .. e
  /\ At(b, q).tag = "begin" => GetName(f, q + dd) = GetName(b, q)
  /\ At(b, q).tag = "prop" => PairAt(f, q + dd) = PairAt(b, q)

\* What is read at a tag outside the edited cells is read there after the edit.
LEMMA EditReads ==
  ASSUME NEW b, NEW k \in Nat, NEW e \in Nat, NEW f, NEW k2 \in Nat,
         NEW a \in Nat, NEW c \in Nat, NEW z \in Nat, EditOf(b, k, e, f, k2, a, c, z),
         NEW q \in 0 .. e - 1, At(b, q).tag \in Opens, q < a \/ c <= q,
         NEW dd, dd = By(q, a, c, z)
  PROVE  ReadThere(b, e, f, q, dd) /\ q + dd \in 0 .. e + (z - c) - 1 /\ (q < a => NextTag(b, q) <= a)
<1>0. /\ b \in Blobs /\ Holds(b, k, e) /\ f \in Blobs /\ Holds(f, k2, e + (z - c))
      /\ a <= c /\ c <= e /\ a <= z /\ Keeps(b, f)
      /\ Run(b.mem, b.off_dt_struct, b.off_dt_struct + a)
      /\ \A p \in 0 .. a - 1 : At(f, p) = At(b, p)
      /\ \A p \in c .. e : At(f, p + (z - c)) = At(b, p)
  BY DEF EditOf
<1>1. NextTag(b, q) \in q + 1 .. e  BY <1>0, TagAt
<1>2. q < a => NextTag(b, q) <= a
  <2> SUFFICES ASSUME q < a PROVE NextTag(b, q) <= a  OBVIOUS
  <2>1. a \in 0 .. e /\ q \in 0 .. a - 1  BY <1>0
  <2>2. NextTag(b, q) \in q + 1 .. a  BY <1>0, <2>1, NextWithin
  <2> QED BY <2>1, <2>2
<1> DEFINE n == NextTag(b, q)
           e2 == e + (z - c)
<1>3. e2 \in Nat  BY <1>0
<1>4. dd \in Int /\ q + dd \in Nat /\ n + dd <= e2 /\ q + dd < e2
  <2> HIDE DEF n
  <2>1. n \in q + 1 .. e /\ (q < a => n <= a)  BY <1>1, <1>2 DEF n
  <2> QED BY <1>0, <2>1 DEF By
<1>5. ASSUME NEW p \in q .. n - 1 PROVE At(f, p + dd) = At(b, p)
  <2> HIDE DEF n
  <2>1. n \in q + 1 .. e /\ (q < a => n <= a)  BY <1>1, <1>2 DEF n
  <2>2. CASE q < a
    <3>1. p \in 0 .. a - 1 /\ dd = 0 /\ p + 0 = p  BY <2>1, <2>2 DEF By
    <3> QED BY <1>0, <3>1
  <2>3. CASE c <= q
    <3>1. p \in c .. e /\ dd = z - c  BY <1>0, <2>1, <2>3 DEF By
    <3> QED BY <1>0, <3>1
  <2> QED BY <2>2, <2>3
<1>6. /\ NextTag(f, q + dd) = n + dd
      /\ At(b, q).tag = "begin" => GetName(f, q + dd) = GetName(b, q)
      /\ At(b, q).tag = "prop" => Value(f, q + dd) = Value(b, q)
  <2>1. \A p \in q .. NextTag(b, q) - 1 : At(f, p + dd) = At(b, p)  BY <1>5
  <2>2. Holds(f, k2, e2)  BY <1>0
  <2>3. NextTag(b, q) + dd <= e2  BY <1>4
  <2> HIDE DEF n, e2
  <2> QED BY <1>0, <1>3, <1>4, <2>1, <2>2, <2>3, ReadMoved DEF n
<1>7. At(f, q + dd) = At(b, q)
  <2>1. q \in q .. n - 1
    <3> HIDE DEF n
    <3>1. n \in q + 1 .. e  BY <1>1 DEF n
    <3> QED BY <3>1
  <2> QED BY <1>5, <2>1
<1>8. At(b, q).tag = "prop" => StringAt(f, At(b, q).x) = StringAt(b, At(b, q).x)
  <2>1. Holds(f, k2, e2)  BY <1>0
  <2> HIDE DEF e2
  <2> QED BY <1>0, <1>3, <2>1, StringSame
<1>9. At(b, q).tag = "prop" => PairAt(f, q + dd) = PairAt(b, q)
  BY <1>6, <1>7, <1>8 DEF PairAt
<1>10. q + dd \in 0 .. e2 - 1  BY <1>3, <1>4
<1> QED BY <1>1, <1>2, <1>4, <1>6, <1>7, <1>9, <1>10 DEF ReadThere

Left(S, a) == {x \in S : x < a}
Right(S, c) == {x \in S : c <= x}
Shift(S, d) == {x + d : x \in S}
Begins(b, a, c) == {x \in a .. c - 1 : At(b, x).tag = "begin"}

\* The nodes around an edit and in it.
NodesEdited(b, f, a, c, z) ==
  /\ Nodes(f) = (Left(Nodes(b), a) \cup Begins(f, a, z)) \cup Shift(Right(Nodes(b), c), z - c)
  /\ Nodes(b) = (Left(Nodes(b), a) \cup Begins(b, a, c)) \cup Right(Nodes(b), c)

\* The nodes outside the edited cells are the same, moved.
LEMMA EditNodes ==
  ASSUME NEW b, NEW k \in Nat, NEW e \in Nat, NEW f, NEW k2 \in Nat,
         NEW a \in Nat, NEW c \in Nat, NEW z \in Nat, EditOf(b, k, e, f, k2, a, c, z)
  PROVE  NodesEdited(b, f, a, c, z)
<1> DEFINE e2 == e + (z - c)
<1>0. /\ b \in Blobs /\ Holds(b, k, e) /\ f \in Blobs /\ Holds(f, k2, e + (z - c))
      /\ a <= c /\ c <= e /\ a <= z
      /\ \A p \in 0 .. a - 1 : At(f, p) = At(b, p)
      /\ \A p \in c .. e : At(f, p + (z - c)) = At(b, p)
  BY DEF EditOf
<1>1. e2 \in Nat  BY <1>0
<1>2. Nodes(b) = {q \in 0 .. e - 1 : At(b, q).tag = "begin"}  BY <1>0, NodesAre
<1>3. Nodes(f) = {q \in 0 .. e2 - 1 : At(f, q).tag = "begin"}
  <2>1. Holds(f, k2, e2)  BY <1>0
  <2> HIDE DEF e2
  <2> QED BY <1>0, <1>1, <2>1, NodesAre
<1>4. ASSUME NEW x
      PROVE  x \in Nodes(f) <=> \/ x \in Left(Nodes(b), a)
                                \/ x \in Begins(f, a, z)
                                \/ x \in Shift(Right(Nodes(b), c), z - c)
  <2>1. ASSUME x \in 0 .. a - 1 PROVE x \in Nodes(f) <=> x \in Left(Nodes(b), a)
    <3>1. At(f, x) = At(b, x) /\ x \in 0 .. e - 1 /\ x \in 0 .. e2 - 1  BY <1>0, <2>1
    <3> QED BY <1>2, <1>3, <2>1, <3>1 DEF Left
  <2>2. ASSUME x \in a .. z - 1 PROVE x \in Nodes(f) <=> x \in Begins(f, a, z)
    <3>1. x \in 0 .. e2 - 1  BY <1>0, <2>2
    <3> QED BY <1>3, <2>2, <3>1 DEF Begins
  <2>3. ASSUME x \in z .. e2 - 1 PROVE x \in Nodes(f) <=> x \in Shift(Right(Nodes(b), c), z - c)
    <3> DEFINE y == x - (z - c)
    <3>1. y \in c .. e - 1 /\ y + (z - c) = x  BY <1>0, <2>3
    <3>2. \A w \in Int : w + (z - c) = x => w = y  BY <1>0, <2>3
    <3> HIDE DEF y
    <3>3. At(f, x) = At(b, y)
      <4>1. y \in c .. e  BY <3>1
      <4>2. At(f, y + (z - c)) = At(b, y)  BY <1>0, <4>1
      <4> QED BY <3>1, <4>2
    <3>4. x \in Nodes(f) <=> y \in Right(Nodes(b), c)
      <4>1. x \in 0 .. e2 - 1 /\ y \in 0 .. e - 1 /\ c <= y  BY <2>3, <3>1
      <4> QED BY <1>2, <1>3, <3>3, <4>1 DEF Right
    <3>5. y \in Right(Nodes(b), c) <=> x \in Shift(Right(Nodes(b), c), z - c)
      <4>1. \A w \in Right(Nodes(b), c) : w \in Int  BY <1>2 DEF Right
      <4> QED BY <3>1, <3>2, <4>1 DEF Shift
    <3> QED BY <3>4, <3>5
  <2>4. x \in Left(Nodes(b), a) => x \in 0 .. a - 1  BY <1>2 DEF Left
  <2>5. x \in Begins(f, a, z) => x \in a .. z - 1  BY DEF Begins
  <2>6. x \in Shift(Right(Nodes(b), c), z - c) => x \in z .. e2 - 1
    <3>1. \A w \in Right(Nodes(b), c) : w \in c .. e - 1  BY <1>2 DEF Right
    <3>2. \A w \in c .. e - 1 : w + (z - c) \in z .. e2 - 1  BY <1>0
    <3> QED BY <3>1, <3>2 DEF Shift
  <2>7. x \in Nodes(f) => x \in 0 .. a - 1 \/ x \in a .. z - 1 \/ x \in z .. e2 - 1
    BY <1>0, <1>3
  <2> QED BY <2>1, <2>2, <2>3, <2>4, <2>5, <2>6, <2>7
<1>5. ASSUME NEW x
      PROVE  x \in Nodes(b) <=> \/ x \in Left(Nodes(b), a)
                                \/ x \in Begins(b, a, c)
                                \/ x \in Right(Nodes(b), c)
  BY <1>0, <1>2 DEF Left, Right, Begins
<1> QED BY <1>4, <1>5 DEF NodesEdited

\* The node at o is read d cells further on.
Reread(b, f, o, d) == NodeAs(f, o + d) = NodeAs(b, o)

\* What an edit leaves alone of the nodes behind it: all.
LEMMA EditRight ==
  ASSUME NEW b, NEW k \in Nat, NEW e \in Nat, NEW f, NEW k2 \in Nat,
         NEW a \in Nat, NEW c \in Nat, NEW z \in Nat, EditOf(b, k, e, f, k2, a, c, z),
         At(f, 0).tag = At(b, 0).tag, NEW o \in Nodes(b), c <= o
  PROVE  Reread(b, f, o, z - c)
<1> DEFINE d == z - c
           e2 == e + d
           y == o + d
<1>0. /\ b \in Blobs /\ Holds(b, k, e) /\ f \in Blobs /\ Holds(f, k2, e + (z - c))
      /\ a <= c /\ c <= e /\ a <= z /\ 0 < c
      /\ \A p \in c .. e : At(f, p + (z - c)) = At(b, p)
  BY DEF EditOf
<1>1. d \in Int /\ e2 \in Nat /\ o \in c .. e - 1 /\ o \in 0 .. e - 1 /\ At(b, o).tag = "begin"
      /\ y \in Int /\ y \in Nat
  <2>1. o \in 0 .. e - 1 /\ At(b, o).tag = "begin"  BY <1>0, NodesAre
  <2> QED BY <1>0, <2>1
<1>2. Depth(f, 0, y) = Depth(b, 0, o)
  <2>1. Depth(f, 0, y) = Net(f, 1, y + 1) /\ Depth(b, 0, o) = Net(b, 1, o + 1)
    <3>1. 0 \in Int /\ 0 + 1 = 1 /\ o \in Int  BY <1>1
    <3> HIDE DEF y
    <3> QED BY <1>1, <3>1, DepthIs
  <2>2. Net(f, 0, (o + 1) + (z - c)) = Net(b, 0, o + 1)
    <3>1. EditNets(b, e, f, a, c, z)  BY EditNet
    <3>2. o + 1 \in c .. e  BY <1>1
    <3> QED BY <3>1, <3>2 DEF EditNets
  <2>3. Net(f, 0, 1) = Net(b, 0, 1)
    <3>1. \A p \in 0 .. 1 - 1 : At(f, p).tag = At(b, p).tag  OBVIOUS
    <3>2. 0 \in Int /\ 1 \in Int  OBVIOUS
    <3> QED BY <3>1, <3>2, NetSame
  <2>4. Net(f, 0, y + 1) = Net(f, 0, 1) + Net(f, 1, y + 1)
    <3>1. 0 \in Int /\ 1 \in Int /\ y + 1 \in Int /\ 0 <= 1 /\ 1 <= y + 1  BY <1>1
    <3> HIDE DEF y
    <3> QED BY <3>1, NetJoin
  <2>5. Net(b, 0, o + 1) = Net(b, 0, 1) + Net(b, 1, o + 1)
    <3>1. 0 \in Int /\ 1 \in Int /\ o + 1 \in Int /\ 0 <= 1 /\ 1 <= o + 1  BY <1>1
    <3> QED BY <3>1, NetJoin
  <2>6. Net(b, 0, 1) \in Int /\ Net(b, 1, o + 1) \in Int /\ Net(f, 1, y + 1) \in Int
    <3>1. 0 \in Int /\ 1 \in Int /\ o + 1 \in Int /\ y + 1 \in Int  BY <1>1
    <3> HIDE DEF y
    <3> QED BY <3>1, NetType
  <2>7. (o + 1) + (z - c) = y + 1  BY <1>1
  <2> HIDE DEF y
  <2> QED BY <2>1, <2>2, <2>3, <2>4, <2>5, <2>6, <2>7
<1>3. ASSUME NEW q \in c .. e - 1, At(b, q).tag \in Opens
      PROVE  /\ At(b, q).tag = "begin" => GetName(f, q + d) = GetName(b, q)
             /\ At(b, q).tag = "prop" => PairAt(f, q + d) = PairAt(b, q)
  <2>1. q \in 0 .. e - 1 /\ c <= q /\ d = By(q, a, c, z)  BY <1>0 DEF By
  <2>2. ReadThere(b, e, f, q, d)
    <3> HIDE DEF d
    <3> QED BY <1>3, <2>1, EditReads
  <2> QED BY <2>2 DEF ReadThere
<1>4. GetName(f, y) = GetName(b, o)
  <2>1. At(b, o).tag \in Opens  BY <1>1 DEF Opens
  <2> HIDE DEF d
  <2> QED BY <1>1, <1>3, <2>1
<1>5. Properties(b, o) =
        {q \in o + 1 .. e - 1 : At(b, q).tag = "prop" /\ \A p \in o + 1 .. q : At(b, p).tag \notin Edges}
  BY <1>0, <1>1, NodesAre
<1>6. Properties(f, y) =
        {q \in y + 1 .. e2 - 1 : At(f, q).tag = "prop" /\ \A p \in y + 1 .. q : At(f, p).tag \notin Edges}
  <2>1. Holds(f, k2, e2)  BY <1>0
  <2> HIDE DEF e2, y
  <2> QED BY <1>0, <1>1, <2>1, NodesAre
<1>7. ASSUME NEW q \in o + 1 .. e - 1 PROVE q \in Properties(b, o) <=> q + d \in Properties(f, y)
  <2>1. \A p \in o + 1 .. q : At(f, p + d) = At(b, p)
    <3>1. \A p \in o + 1 .. q : p \in c .. e  BY <1>1
    <3> QED BY <1>0, <3>1
  <2>2. q \in o + 1 .. q /\ q + d \in y + 1 .. e2 - 1  BY <1>1
  <2>3. (\A p \in o + 1 .. q : At(b, p).tag \notin Edges) <=>
          \A p \in y + 1 .. q + d : At(f, p).tag \notin Edges
    <3>1. \A p \in o + 1 .. q : p + d \in y + 1 .. q + d  BY <1>1
    <3>2. \A p \in y + 1 .. q + d : p - d \in o + 1 .. q /\ (p - d) + d = p  BY <1>1
    <3> HIDE DEF d, y
    <3>3. ASSUME \A p \in o + 1 .. q : At(b, p).tag \notin Edges, NEW p \in y + 1 .. q + d
          PROVE  At(f, p).tag \notin Edges
      <4>1. p - d \in o + 1 .. q /\ (p - d) + d = p  BY <3>2
      <4>2. At(f, (p - d) + d) = At(b, p - d)  BY <2>1, <4>1
      <4> QED BY <3>3, <4>1, <4>2
    <3>4. ASSUME \A p \in y + 1 .. q + d : At(f, p).tag \notin Edges, NEW p \in o + 1 .. q
          PROVE  At(b, p).tag \notin Edges
      <4>1. p + d \in y + 1 .. q + d /\ At(f, p + d) = At(b, p)  BY <2>1, <3>1
      <4> QED BY <3>4, <4>1
    <3> QED BY <3>3, <3>4
  <2>4. At(f, q + d) = At(b, q)  BY <2>1, <2>2
  <2> HIDE DEF d, y, e2
  <2> QED BY <1>5, <1>6, <2>2, <2>3, <2>4
<1>8. Properties(f, y) = {q + d : q \in Properties(b, o)}
  <2>1. ASSUME NEW x \in Properties(f, y) PROVE \E q \in Properties(b, o) : x = q + d
    <3>1. x \in y + 1 .. e2 - 1  BY <1>6
    <3>2. x - d \in o + 1 .. e - 1 /\ (x - d) + d = x  BY <1>1, <3>1
    <3> HIDE DEF d, y, e2
    <3>3. x - d \in Properties(b, o)  BY <1>7, <2>1, <3>2
    <3> QED BY <3>2, <3>3
  <2>2. ASSUME NEW q \in Properties(b, o) PROVE q + d \in Properties(f, y)
    <3>1. q \in o + 1 .. e - 1  BY <1>5
    <3> QED BY <1>7, <3>1
  <2> HIDE DEF d, y
  <2> QED BY <2>1, <2>2
<1>9. PropsOf(f, y) = PropsOf(b, o)
  <2> DEFINE S == Properties(b, o)
             F == Pairs(b)
             G == Pairs(f)
  <2>1. S \in SUBSET Int /\ IsFiniteSet(S)
    <3>1. o \in Int  BY <1>1
    <3> QED BY <1>0, <3>1, NodesAre
  <2>2. \A q \in S : G[q + d] = F[q]
    <3>1. ASSUME NEW q \in S PROVE G[q + d] = F[q]
      <4>1. q \in c .. e - 1 /\ q + d \in Int /\ q \in Int /\ At(b, q).tag = "prop"
        <5>1. q \in o + 1 .. e - 1 /\ At(b, q).tag = "prop"  BY <1>5
        <5> QED BY <1>1, <5>1
      <4>2. At(b, q).tag \in Opens  BY <4>1 DEF Opens
      <4>3. PairAt(f, q + d) = PairAt(b, q)  BY <1>3, <4>1, <4>2
      <4> HIDE DEF d
      <4> QED BY <4>1, <4>3 DEF Pairs
    <3> QED BY <3>1
  <2> HIDE DEF S, F, G, d, y
  <2>3. InTurn({q + d : q \in S}, G) = InTurn(S, F)  BY <1>1, <2>1, <2>2, InTurnMoved
  <2> QED BY <1>8, <2>3 DEF PropsOf, S, F, G
<1> QED BY <1>2, <1>4, <1>9 DEF NodeAs, Reread

\* And of one before it: all, when its properties end before it.
LEMMA EditLeft ==
  ASSUME NEW b, NEW k \in Nat, NEW e \in Nat, NEW f, NEW k2 \in Nat,
         NEW a \in Nat, NEW c \in Nat, NEW z \in Nat, EditOf(b, k, e, f, k2, a, c, z),
         NEW o \in Nodes(b), o < a,
         \A q \in Properties(b, o) : q < a, \A q \in Properties(f, o) : q < a
  PROVE  NodeAs(f, o) = NodeAs(b, o)
<1> DEFINE e2 == e + (z - c)
<1>0. /\ b \in Blobs /\ Holds(b, k, e) /\ f \in Blobs /\ Holds(f, k2, e + (z - c))
      /\ a <= c /\ c <= e /\ a <= z /\ 0 < c
      /\ \A p \in 0 .. a - 1 : At(f, p) = At(b, p)
  BY DEF EditOf
<1>1. e2 \in Nat /\ a <= e2 /\ o \in 0 .. a - 1 /\ o \in 0 .. e - 1 /\ At(b, o).tag = "begin" /\ o \in Int
  <2>1. o \in 0 .. e - 1 /\ At(b, o).tag = "begin"  BY <1>0, NodesAre
  <2> QED BY <1>0, <2>1
<1>2. Depth(f, 0, o) = Depth(b, 0, o)
  <2>1. \A p \in 0 + 1 .. o : At(f, p) = At(b, p)
    <3>1. \A p \in 0 + 1 .. o : p \in 0 .. a - 1  BY <1>1
    <3> QED BY <1>0, <3>1
  <2>2. {p \in 0 + 1 .. o : At(f, p).tag = "begin"} = {p \in 0 + 1 .. o : At(b, p).tag = "begin"}  BY <2>1
  <2>3. {p \in 0 + 1 .. o : At(f, p).tag = "end_node"} = {p \in 0 + 1 .. o : At(b, p).tag = "end_node"}  BY <2>1
  <2> QED BY <2>2, <2>3 DEF Depth
<1>3. ASSUME NEW q \in 0 .. a - 1, At(b, q).tag \in Opens
      PROVE  /\ At(b, q).tag = "begin" => GetName(f, q) = GetName(b, q)
             /\ At(b, q).tag = "prop" => PairAt(f, q) = PairAt(b, q)
  <2>1. q \in 0 .. e - 1 /\ q < a /\ 0 = By(q, a, c, z) /\ q + 0 = q  BY <1>0 DEF By
  <2>2. ReadThere(b, e, f, q, 0)  BY <1>3, <2>1, EditReads
  <2> QED BY <2>1, <2>2 DEF ReadThere
<1>4. GetName(f, o) = GetName(b, o)
  <2>1. At(b, o).tag \in Opens  BY <1>1 DEF Opens
  <2> QED BY <1>1, <1>3, <2>1
<1>5. Properties(b, o) =
        {q \in o + 1 .. e - 1 : At(b, q).tag = "prop" /\ \A p \in o + 1 .. q : At(b, p).tag \notin Edges}
  BY <1>0, <1>1, NodesAre
<1>6. Properties(f, o) =
        {q \in o + 1 .. e2 - 1 : At(f, q).tag = "prop" /\ \A p \in o + 1 .. q : At(f, p).tag \notin Edges}
  <2>1. Holds(f, k2, e2)  BY <1>0
  <2> HIDE DEF e2
  <2> QED BY <1>0, <1>1, <2>1, NodesAre
<1>7. ASSUME NEW q \in o + 1 .. a - 1 PROVE q \in Properties(f, o) <=> q \in Properties(b, o)
  <2>1. \A p \in o + 1 .. q : At(f, p) = At(b, p)
    <3>1. \A p \in o + 1 .. q : p \in 0 .. a - 1  BY <1>1
    <3> QED BY <1>0, <3>1
  <2>2. q \in o + 1 .. q /\ q \in o + 1 .. e2 - 1 /\ q \in o + 1 .. e - 1  BY <1>0, <1>1
  <2> QED BY <1>5, <1>6, <2>1, <2>2
<1>8. Properties(f, o) = Properties(b, o)
  <2>1. \A q \in Properties(f, o) : q \in o + 1 .. a - 1  BY <1>1, <1>6
  <2>2. \A q \in Properties(b, o) : q \in o + 1 .. a - 1  BY <1>1, <1>5
  <2> QED BY <1>7, <2>1, <2>2
<1>9. PropsOf(f, o) = PropsOf(b, o)
  <2>1. Properties(b, o) \in SUBSET Int /\ IsFiniteSet(Properties(b, o))  BY <1>0, <1>1, NodesAre
  <2>2. \A q \in Properties(b, o) : Pairs(f)[q] = Pairs(b)[q]
    <3>1. ASSUME NEW q \in Properties(b, o) PROVE Pairs(f)[q] = Pairs(b)[q]
      <4>1. q \in o + 1 .. e - 1 /\ At(b, q).tag = "prop" /\ q < a  BY <1>5
      <4>2. q \in 0 .. a - 1 /\ q \in Int /\ At(b, q).tag \in Opens  BY <1>1, <4>1 DEF Opens
      <4> QED BY <1>3, <4>1, <4>2 DEF Pairs
    <3> QED BY <3>1
  <2> QED BY <1>8, <2>1, <2>2, InTurnSame DEF PropsOf
<1> QED BY <1>2, <1>4, <1>9 DEF NodeAs

-----------------------------------------------------------------------------
\* An edit within one node.

\* The tree of b with another node at place i.
WithNode(b, i, node) == [TreeOf(b) EXCEPT ![i] = node]
NodeNo(b, o) == Cardinality(UpTo(Nodes(b), o))

\* An edit among the name and the properties of the node at o, or from it on.
EditIn(b, k, e, f, k2, a, c, z, o) ==
  /\ EditOf(b, k, e, f, k2, a, c, z) /\ o \in Nodes(b) /\ o <= a /\ o < c /\ o < z
  /\ At(f, o).tag = "begin"
  /\ \A q \in o + 1 .. c - 1 : At(b, q).tag \notin Edges
  /\ \A q \in o + 1 .. z - 1 : At(f, q).tag \notin Edges

\* Around an edit within one node.
EditInMeans(b, k, e, f, k2, a, c, z, o) ==
  /\ b \in Blobs /\ Holds(b, k, e) /\ f \in Blobs /\ Holds(f, k2, e + (z - c))
  /\ a <= c /\ c <= e /\ a <= z /\ 0 < c /\ e + (z - c) \in Nat
  /\ \A q \in 0 .. a - 1 : At(f, q) = At(b, q)
  /\ \A q \in c .. e : At(f, q + (z - c)) = At(b, q)
  /\ o \in 0 .. a /\ o \in 0 .. c - 1 /\ o \in 0 .. z - 1 /\ o \in 0 .. e - 1 /\ o \in Nat
  /\ At(b, o).tag = "begin" /\ At(f, o).tag = "begin" /\ At(f, 0).tag = At(b, 0).tag
  /\ \A x \in Nodes(b) : x \in 0 .. e - 1 /\ At(b, x).tag = "begin" /\ (x <= o \/ c <= x)

\* What an edit within one node leaves alone.
LEMMA EditInFacts ==
  ASSUME NEW b, NEW k \in Nat, NEW e \in Nat, NEW f, NEW k2 \in Nat,
         NEW a \in Nat, NEW c \in Nat, NEW z \in Nat, NEW o, EditIn(b, k, e, f, k2, a, c, z, o)
  PROVE  EditInMeans(b, k, e, f, k2, a, c, z, o)
<1>1. /\ EditOf(b, k, e, f, k2, a, c, z) /\ o \in Nodes(b) /\ o <= a /\ o < c /\ o < z
      /\ At(f, o).tag = "begin"
  BY DEF EditIn
<1>2. /\ b \in Blobs /\ Holds(b, k, e) /\ f \in Blobs /\ Holds(f, k2, e + (z - c))
      /\ a <= c /\ c <= e /\ a <= z /\ 0 < c
      /\ \A q \in 0 .. a - 1 : At(f, q) = At(b, q)
      /\ \A q \in c .. e : At(f, q + (z - c)) = At(b, q)
  BY <1>1 DEF EditOf
<1>3. Nodes(b) = {q \in 0 .. e - 1 : At(b, q).tag = "begin"}  BY <1>2, NodesAre
<1>4. /\ o \in 0 .. a /\ o \in 0 .. c - 1 /\ o \in 0 .. z - 1 /\ o \in 0 .. e - 1 /\ o \in Nat
      /\ At(b, o).tag = "begin" /\ e + (z - c) \in Nat
  <2>1. o \in 0 .. e - 1 /\ At(b, o).tag = "begin"  BY <1>1, <1>3
  <2> QED BY <1>1, <1>2, <2>1
<1>6. At(f, 0).tag = At(b, 0).tag
  <2>1. CASE a = 0
    <3>1. o = 0  BY <1>4, <2>1
    <3> QED BY <1>1, <1>4, <3>1
  <2>2. CASE a # 0
    <3>1. 0 \in 0 .. a - 1  BY <2>2
    <3> QED BY <1>2, <3>1
  <2> QED BY <2>1, <2>2
<1>5. ASSUME NEW x \in Nodes(b) PROVE x \in 0 .. e - 1 /\ At(b, x).tag = "begin" /\ (x <= o \/ c <= x)
  <2>1. x \in 0 .. e - 1 /\ At(b, x).tag = "begin"  BY <1>3
  <2>2. ~(x \in o + 1 .. c - 1)  BY <2>1 DEF EditIn, Edges
  <2> QED BY <1>2, <1>4, <2>1, <2>2
<1> QED BY <1>1, <1>2, <1>4, <1>5, <1>6 DEF EditInMeans

\* What an edit in o's region leaves of the nodes: o's depth, and all of the others.
OthersRead(b, f, c, z, o) ==
  /\ \A x \in Nodes(b) : x # o => Reread(b, f, x, IF x < o THEN 0 ELSE z - c)
  /\ NodeAs(f, o).depth = NodeAs(b, o).depth

\* Every other node reads the same, in the same order.
LEMMA EditInNodes ==
  ASSUME NEW b, NEW k \in Nat, NEW e \in Nat, NEW f, NEW k2 \in Nat,
         NEW a \in Nat, NEW c \in Nat, NEW z \in Nat, NEW o, EditIn(b, k, e, f, k2, a, c, z, o)
  PROVE  OthersRead(b, f, c, z, o)
<1> DEFINE e2 == e + (z - c)
<1>0. /\ b \in Blobs /\ Holds(b, k, e) /\ f \in Blobs /\ Holds(f, k2, e + (z - c))
      /\ a <= c /\ c <= e /\ a <= z /\ 0 < c /\ e + (z - c) \in Nat
      /\ \A q \in 0 .. a - 1 : At(f, q) = At(b, q)
      /\ \A q \in c .. e : At(f, q + (z - c)) = At(b, q)
      /\ o \in 0 .. a /\ o \in 0 .. c - 1 /\ o \in 0 .. z - 1 /\ o \in 0 .. e - 1 /\ o \in Nat
      /\ At(b, o).tag = "begin" /\ At(f, o).tag = "begin" /\ At(f, 0).tag = At(b, 0).tag
      /\ \A x \in Nodes(b) : x \in 0 .. e - 1 /\ At(b, x).tag = "begin" /\ (x <= o \/ c <= x)
  <2>1. EditInMeans(b, k, e, f, k2, a, c, z, o)  BY EditInFacts
  <2> QED BY <2>1 DEF EditInMeans
<1>1. EditOf(b, k, e, f, k2, a, c, z) /\ o \in Nodes(b)  BY DEF EditIn
<1>2. ASSUME NEW x \in Nodes(b), x < o PROVE Reread(b, f, x, 0)
  <2>1. x \in 0 .. e - 1 /\ x \in Int /\ x < a /\ x + 0 = x  BY <1>0, <1>2
  <2>2. Properties(b, x) =
          {q \in x + 1 .. e - 1 : At(b, q).tag = "prop" /\ \A p \in x + 1 .. q : At(b, p).tag \notin Edges}
    BY <1>0, <2>1, NodesAre
  <2>3. Properties(f, x) =
          {q \in x + 1 .. e2 - 1 : At(f, q).tag = "prop" /\ \A p \in x + 1 .. q : At(f, p).tag \notin Edges}
    <3>1. Holds(f, k2, e2) /\ e2 \in Nat  BY <1>0
    <3> HIDE DEF e2
    <3> QED BY <1>0, <2>1, <3>1, NodesAre
  <2>4. ASSUME NEW q, q \in Properties(b, x) PROVE q < a
    <3>1. q \in x + 1 .. e - 1 /\ \A p \in x + 1 .. q : At(b, p).tag \notin Edges  BY <2>2, <2>4
    <3>2. ~(o <= q)
      <4>1. o <= q => o \in x + 1 .. q  BY <1>0, <1>2, <2>1, <3>1
      <4> QED BY <1>0, <3>1, <4>1 DEF Edges
    <3> QED BY <1>0, <3>1, <3>2
  <2>5. ASSUME NEW q, q \in Properties(f, x) PROVE q < a
    <3>1. q \in x + 1 .. e2 - 1 /\ \A p \in x + 1 .. q : At(f, p).tag \notin Edges  BY <2>3, <2>5
    <3>2. ~(o <= q)
      <4>1. o <= q => o \in x + 1 .. q  BY <1>0, <1>2, <2>1, <3>1
      <4> QED BY <1>0, <3>1, <4>1 DEF Edges
    <3> QED BY <1>0, <3>1, <3>2
  <2>6. NodeAs(f, x) = NodeAs(b, x)  BY <1>1, <1>2, <2>1, <2>4, <2>5, EditLeft
  <2> QED BY <2>1, <2>6 DEF Reread
<1>3. ASSUME NEW x \in Nodes(b), o < x PROVE Reread(b, f, x, z - c)
  <2>1. c <= x  BY <1>0, <1>3
  <2>2. At(f, 0).tag = At(b, 0).tag  BY <1>0
  <2> QED BY <1>1, <2>1, <2>2, EditRight
<1>4. NodeAs(f, o).depth = NodeAs(b, o).depth
  <2>1. \A p \in 0 + 1 .. o : At(f, p).tag = At(b, p).tag
    <3>1. \A p \in 0 + 1 .. o : p \in 0 .. a - 1 \/ p = o  BY <1>0
    <3> QED BY <1>0, <3>1
  <2>2. {p \in 0 + 1 .. o : At(f, p).tag = "begin"} = {p \in 0 + 1 .. o : At(b, p).tag = "begin"}  BY <2>1
  <2>3. {p \in 0 + 1 .. o : At(f, p).tag = "end_node"} = {p \in 0 + 1 .. o : At(b, p).tag = "end_node"}  BY <2>1
  <2> QED BY <2>2, <2>3 DEF Depth, NodeAs
<1>5. \A x \in Nodes(b) : x \in Int /\ o \in Int  BY <1>0
<1>6. ASSUME NEW x \in Nodes(b), x # o PROVE Reread(b, f, x, IF x < o THEN 0 ELSE z - c)
  <2>1. x < o \/ (o < x /\ ~(x < o))  BY <1>5, <1>6
  <2> QED BY <1>2, <1>3, <2>1
<1> QED BY <1>4, <1>6 DEF OthersRead

\* The node at o is the one that is different in f.
OtherNode(b, f, o) ==
  /\ TreeOf(f) = WithNode(b, NodeNo(b, o), NodeAs(f, o))
  /\ NodeNo(b, o) \in DOMAIN TreeOf(b) /\ TreeOf(b)[NodeNo(b, o)] = NodeAs(b, o)

\* Such an edit changes one node of the tree.
LEMMA EditInTree ==
  ASSUME NEW b, NEW k \in Nat, NEW e \in Nat, NEW f, NEW k2 \in Nat,
         NEW a \in Nat, NEW c \in Nat, NEW z \in Nat, NEW o, EditIn(b, k, e, f, k2, a, c, z, o)
  PROVE  OtherNode(b, f, o)
<1> DEFINE S == Nodes(b)
           T == Nodes(f)
           n == Cardinality(S)
           d == z - c
           h == [x \in S |-> IF x <= o THEN x ELSE x + d]
<1>0. /\ b \in Blobs /\ Holds(b, k, e) /\ f \in Blobs /\ Holds(f, k2, e + (z - c))
      /\ a <= c /\ c <= e /\ a <= z /\ 0 < c /\ e + (z - c) \in Nat
      /\ \A q \in 0 .. a - 1 : At(f, q) = At(b, q)
      /\ \A q \in c .. e : At(f, q + (z - c)) = At(b, q)
      /\ o \in 0 .. a /\ o \in 0 .. c - 1 /\ o \in 0 .. z - 1 /\ o \in 0 .. e - 1 /\ o \in Nat
      /\ At(b, o).tag = "begin" /\ At(f, o).tag = "begin" /\ At(f, 0).tag = At(b, 0).tag
      /\ \A x \in Nodes(b) : x \in 0 .. e - 1 /\ At(b, x).tag = "begin" /\ (x <= o \/ c <= x)
  <2>1. EditInMeans(b, k, e, f, k2, a, c, z, o)  BY EditInFacts
  <2> QED BY <2>1 DEF EditInMeans
<1>1. EditOf(b, k, e, f, k2, a, c, z) /\ o \in S  BY DEF EditIn
<1>2. S \in SUBSET Int /\ IsFiniteSet(S)  BY <1>0, NodesAre
<1>3. h \in [S -> Int] /\ \A x \in S : h[x] = IF x <= o THEN x ELSE x + d
  <2>1. d \in Int /\ o \in Int  BY <1>0
  <2> HIDE DEF S, d
  <2> QED BY <1>2, <2>1
<1>4. \A x, y \in S : x < y => h[x] < h[y]
  <2>1. ASSUME NEW x \in S, NEW y \in S, x < y PROVE h[x] < h[y]
    <3>1. x \in Int /\ y \in Int /\ (x <= o \/ c <= x) /\ (y <= o \/ c <= y)  BY <1>0
    <3>2. h[x] = (IF x <= o THEN x ELSE x + d) /\ h[y] = (IF y <= o THEN y ELSE y + d)  BY <1>3
    <3>3. o < z /\ o \in Int  BY <1>0
    <3> HIDE DEF h
    <3> QED BY <2>1, <3>1, <3>2, <3>3
  <2> QED BY <2>1
<1>5. T = {h[x] : x \in S}
  <2>1. T = (Left(S, a) \cup Begins(f, a, z)) \cup Shift(Right(S, c), d)
    <3>1. NodesEdited(b, f, a, c, z)  BY <1>1, EditNodes
    <3> QED BY <3>1 DEF NodesEdited
  <2>2. \A x : x \in Begins(f, a, z) <=> x = o /\ o = a
    <3>1. ASSUME NEW x, x \in Begins(f, a, z) PROVE x = o /\ o = a
      <4>1. x \in a .. z - 1 /\ At(f, x).tag = "begin"  BY <3>1 DEF Begins
      <4>2. ~(x \in o + 1 .. z - 1)  BY <4>1 DEF EditIn, Edges
      <4> QED BY <1>0, <4>1, <4>2
    <3>2. o = a => o \in Begins(f, a, z)  BY <1>0 DEF Begins
    <3> QED BY <3>1, <3>2
  <2>3. \A x : (x \in Left(S, a) \/ (x = o /\ o = a)) <=> x \in {y \in S : y <= o}
    <3>1. \A x \in S : x < a <=> x <= o /\ ~(x = o /\ o = a)  BY <1>0
    <3>2. o <= o /\ o \in S  BY <1>0, <1>1
    <3> HIDE DEF S, T, h
    <3> QED BY <3>1, <3>2 DEF Left
  <2>4. Right(S, c) = {x \in S : ~(x <= o)}
    <3>1. \A x \in S : c <= x <=> ~(x <= o)  BY <1>0
    <3> QED BY <3>1 DEF Right
  <2> HIDE DEF S, T, d, h
  <2> QED BY <1>3, <2>1, <2>2, <2>3, <2>4 DEF Shift
<1>6. /\ IsFiniteSet(T) /\ Cardinality(T) = n
      /\ InOrder(T) = [j \in 1 .. n |-> h[InOrder(S)[j]]]
  <2> HIDE DEF S, T, h
  <2> QED BY <1>2, <1>3, <1>4, <1>5, InOrderThrough
<1> DEFINE i == NodeNo(b, o)
<1>7. /\ i \in 1 .. n /\ n \in Nat /\ InOrder(S)[i] = o
      /\ \A j \in 1 .. n : InOrder(S)[j] \in S /\ (InOrder(S)[j] = o <=> j = i)
  <2> HIDE DEF S
  <2> QED BY <1>1, <1>2, InOrderAt DEF NodeNo, S
<1>8. TreeOf(b) = [j \in 1 .. n |-> NodeAs(b, InOrder(S)[j])]
  <2>1. \A j \in 1 .. n : NodesAs(b)[InOrder(S)[j]] = NodeAs(b, InOrder(S)[j])  BY <1>2, <1>7 DEF NodesAs
  <2> QED BY <2>1 DEF TreeOf, InTurn
<1>9. TreeOf(f) = [j \in 1 .. n |-> NodeAs(f, h[InOrder(S)[j]])]
  <2>1. \A j \in 1 .. n : InOrder(T)[j] = h[InOrder(S)[j]] /\ h[InOrder(S)[j]] \in Int
    <3> HIDE DEF h, S, T
    <3> QED BY <1>3, <1>6, <1>7
  <2>2. \A j \in 1 .. n : NodesAs(f)[InOrder(T)[j]] = NodeAs(f, h[InOrder(S)[j]])
    <3> HIDE DEF h, S, T
    <3> QED BY <2>1 DEF NodesAs
  <2> HIDE DEF h, S
  <2> QED BY <1>6, <2>2 DEF TreeOf, InTurn
<1>10. ASSUME NEW j \in 1 .. n, j # i
       PROVE  NodeAs(f, h[InOrder(S)[j]]) = NodeAs(b, InOrder(S)[j])
  <2>1. InOrder(S)[j] \in S /\ InOrder(S)[j] # o  BY <1>7, <1>10
  <2>2. \A x \in Nodes(b) : x # o => Reread(b, f, x, IF x < o THEN 0 ELSE z - c)
    <3>1. OthersRead(b, f, c, z, o)  BY EditInNodes
    <3> QED BY <3>1 DEF OthersRead
  <2> DEFINE x == InOrder(S)[j]
  <2>3. x \in S /\ x # o /\ h[x] = x + (IF x < o THEN 0 ELSE z - c)
    <3>1. x \in Int /\ o \in Int  BY <1>0, <2>1
    <3>2. h[x] = IF x <= o THEN x ELSE x + d  BY <1>3, <2>1
    <3> HIDE DEF x, h
    <3> QED BY <2>1, <3>1, <3>2 DEF x
  <2>4. Reread(b, f, x, IF x < o THEN 0 ELSE z - c)  BY <2>2, <2>3
  <2> HIDE DEF x, h, S
  <2> QED BY <2>3, <2>4 DEF Reread, x
<1>11. h[o] = o  BY <1>0, <1>1, <1>3
<1> HIDE DEF i, n, h, S, T
<1>12. TreeOf(f) = [TreeOf(b) EXCEPT ![i] = NodeAs(f, o)]
  BY <1>7, <1>8, <1>9, <1>10, <1>11
<1>13. i \in DOMAIN TreeOf(b) /\ TreeOf(b)[i] = NodeAs(b, o)  BY <1>7, <1>8
<1> QED BY <1>12, <1>13 DEF OtherNode, WithNode, i

-----------------------------------------------------------------------------
\* Header and reserve map across an edit.

\* An edit within a node that opens and closes no node keeps one tree.
LEMMA EditInShaped ==
  ASSUME NEW b, NEW k \in Nat, NEW e \in Nat, NEW f, NEW k2 \in Nat,
         NEW a \in Nat, NEW c \in Nat, NEW z \in Nat, NEW o, EditIn(b, k, e, f, k2, a, c, z, o),
         Shaped(b, e)
  PROVE  Shaped(f, e + (z - c))
<1> DEFINE d == z - c
           e2 == e + d
<1>0. /\ b \in Blobs /\ Holds(b, k, e) /\ f \in Blobs /\ Holds(f, k2, e + (z - c))
      /\ a <= c /\ c <= e /\ a <= z /\ 0 < c /\ e + (z - c) \in Nat
      /\ \A q \in 0 .. a - 1 : At(f, q) = At(b, q)
      /\ \A q \in c .. e : At(f, q + (z - c)) = At(b, q)
      /\ o \in 0 .. a /\ o \in 0 .. c - 1 /\ o \in 0 .. z - 1 /\ o \in 0 .. e - 1 /\ o \in Nat
      /\ At(b, o).tag = "begin" /\ At(f, o).tag = "begin" /\ At(f, 0).tag = At(b, 0).tag
      /\ \A x \in Nodes(b) : x \in 0 .. e - 1 /\ At(b, x).tag = "begin" /\ (x <= o \/ c <= x)
  <2>1. EditInMeans(b, k, e, f, k2, a, c, z, o)  BY EditInFacts
  <2> QED BY <2>1 DEF EditInMeans
<1>1. /\ EditOf(b, k, e, f, k2, a, c, z)
      /\ \A q \in o + 1 .. c - 1 : At(b, q).tag \notin Edges
      /\ \A q \in o + 1 .. z - 1 : At(f, q).tag \notin Edges
  BY DEF EditIn
<1>2. \A q \in a .. z : Net(b, 0, a) + Net(f, a, q) >= 0
  <2>1. ASSUME NEW q \in a .. z PROVE Net(f, a, q) \in Nat
    <3>1. CASE o < a \/ q = a
      <4>1. \A p \in a .. q - 1 : p \in o + 1 .. z - 1  BY <1>0, <3>1
      <4>2. \A p \in a .. q - 1 : At(f, p).tag \notin Edges  BY <1>1, <4>1
      <4>3. Net(f, a, q) = 0  BY <4>2, NetNone DEF Edges
      <4> QED BY <4>3
    <3>2. CASE o = a /\ q # a
      <4>1. \A p \in o + 1 .. q - 1 : p \in o + 1 .. z - 1  BY <1>0, <3>2
      <4>2. \A p \in o + 1 .. q - 1 : At(f, p).tag \notin Edges  BY <1>1, <4>1
      <4>3. Net(f, o + 1, q) = 0  BY <4>2, NetNone DEF Edges
      <4>4. o \in Int /\ o + 1 \in Int /\ q \in Int /\ o <= o + 1 /\ o + 1 <= q  BY <1>0, <3>2
      <4>5. Net(f, o, o + 1) = 1  BY <1>0, <4>4, NetOne
      <4>6. Net(f, o, q) = Net(f, o, o + 1) + Net(f, o + 1, q)  BY <4>4, NetJoin
      <4> QED BY <3>2, <4>3, <4>5, <4>6
    <3> QED BY <1>0, <3>1, <3>2
  <2>2. Net(b, 0, a) >= 0 /\ Net(b, 0, a) \in Int
    <3>1. a \in 0 .. e /\ 0 \in Int /\ a \in Int  BY <1>0
    <3> QED BY <3>1, NetType DEF Shaped
  <2> QED BY <2>1, <2>2
<1>3. \A p \in a .. z - 1 : 0 < p /\ At(f, p).tag = "begin" => Net(b, 0, a) + Net(f, a, p) >= 1
  <2>1. ASSUME NEW p \in a .. z - 1, 0 < p, At(f, p).tag = "begin"
        PROVE  Net(b, 0, a) + Net(f, a, p) >= 1
    <3>1. ~(p \in o + 1 .. z - 1)  BY <1>1, <2>1 DEF Edges
    <3>2. p = o /\ o = a /\ o \in 1 .. e - 1 /\ a \in Int  BY <1>0, <2>1, <3>1
    <3>3. Net(b, 0, o) >= 1  BY <1>0, <3>2 DEF Shaped
    <3>4. Net(f, a, a) = 0  BY <3>2, NetEmpty
    <3>5. Net(b, 0, a) \in Int
      <4>1. 0 \in Int  OBVIOUS
      <4> QED BY <3>2, <4>1, NetType
    <3> QED BY <3>2, <3>3, <3>4, <3>5
  <2> QED BY <2>1
<1>4. \A p \in 1 .. e2 - 1 : At(f, p).tag = "begin" => At(f, 0).tag = "begin"
  <2>1. At(b, 0).tag = "begin"
    <3>1. CASE o = 0  BY <1>0, <3>1
    <3>2. CASE o # 0
      <4>1. o \in 1 .. e - 1  BY <1>0, <3>2
      <4> QED BY <1>0, <4>1 DEF Shaped
    <3> QED BY <3>1, <3>2
  <2> QED BY <1>0, <2>1
<1>5. \A q \in a .. z - 1 : At(f, q).tag = "prop" => \E p \in 0 .. q - 1 : Owns(f, p, q)
  <2>1. ASSUME NEW q \in a .. z - 1, At(f, q).tag = "prop" PROVE o \in 0 .. q - 1 /\ Owns(f, o, q)
    <3>0. q # o  BY <1>0, <2>1
    <3>1. o \in 0 .. q - 1 /\ \A p \in o + 1 .. q : p \in o + 1 .. z - 1  BY <1>0, <3>0
    <3> QED BY <1>0, <1>1, <3>1 DEF Owns
  <2> QED BY <2>1
<1>6. \A q \in c .. e - 1 : At(b, q).tag = "prop" =>
         \A p \in 0 .. c - 1 : Owns(b, p, q) => \E y \in 0 .. q + (z - c) - 1 : Owns(f, y, q + (z - c))
  <2>1. ASSUME NEW q \in c .. e - 1, NEW p \in 0 .. c - 1, Owns(b, p, q)
        PROVE  o \in 0 .. q + (z - c) - 1 /\ Owns(f, o, q + (z - c))
    <3>1. p = o
      <4>1. At(b, p).tag = "begin" /\ \A y \in p + 1 .. q : At(b, y).tag \notin Edges  BY <2>1 DEF Owns
      <4>2. ~(p < o)
        <5>1. p < o => o \in p + 1 .. q  BY <1>0
        <5> QED BY <1>0, <4>1, <5>1 DEF Edges
      <4>3. ~(o < p)
        <5>1. o < p => p \in o + 1 .. c - 1  BY <1>0
        <5> QED BY <1>1, <4>1, <5>1 DEF Edges
      <4> QED BY <1>0, <4>2, <4>3
    <3>2. \A y \in o + 1 .. q : At(b, y).tag \notin Edges  BY <2>1, <3>1 DEF Owns
    <3>3. ASSUME NEW y \in o + 1 .. q + d PROVE At(f, y).tag \notin Edges
      <4>1. CASE y < z
        <5>1. y \in o + 1 .. z - 1  BY <1>0, <4>1
        <5> QED BY <1>1, <5>1
      <4>2. CASE z <= y
        <5>1. y - d \in c .. e /\ (y - d) + d = y /\ y - d \in o + 1 .. q  BY <1>0, <4>2
        <5>2. At(f, (y - d) + (z - c)) = At(b, y - d)  BY <1>0, <5>1
        <5> HIDE DEF e2
        <5> QED BY <3>2, <5>1, <5>2
      <4> QED BY <1>0, <4>1, <4>2
    <3>4. o \in 0 .. q + (z - c) - 1  BY <1>0
    <3> QED BY <1>0, <3>3, <3>4 DEF Owns
  <2> QED BY <2>1
<1>7. \A p \in 1 .. e + (z - c) - 1 : At(f, p).tag = "begin" => At(f, 0).tag = "begin"  BY <1>4
<1> HIDE DEF d, e2
<1> QED BY <1>1, <1>2, <1>3, <1>5, <1>6, <1>7, EditShaped

\* After END nothing looks like a node when the size is that of the structure.
LEMMA ReachOfSize ==
  ASSUME NEW f \in Blobs, NEW k \in Nat, NEW e \in Nat, Holds(f, k, e), f.version = 17
  PROVE  InReach(f, e)
<1>1. Size(f) = e + 1  BY DEF Holds, Size
<1>2. At(f, e).tag = "end"  BY DEF Holds, At
<1> QED BY <1>1, <1>2 DEF InReach

\* An edit that keeps the header leaves what lies behind it alone.
LEMMA ReachOfSame ==
  ASSUME NEW b \in Blobs, NEW f \in Blobs, NEW e \in Nat, SameHeader(b, f), InReach(b, e),
         \A q \in 0 .. Size(b) - 1 : At(f, q).tag = "begin" => q \in 0 .. e - 1 \/ At(b, q).tag = "begin"
  PROVE  InReach(f, e)
<1>1. Size(f) = Size(b)  BY DEF SameHeader, Size
<1> QED BY <1>1 DEF InReach

SameFrom(m, r, m2, r2, k) == \A i \in 0 .. k : m2[r2 + i].x = m[r + i].x

\* Two reserve maps alike up to their terminators have the same length.
LEMMA RsvSame ==
  ASSUME NEW m, NEW m2, NEW r \in Nat, NEW r2 \in Nat, NEW k \in Nat, NEW k2 \in Nat,
         RsvMap(m, r, k), RsvMap(m2, r2, k2), SameFrom(m, r, m2, r2, k)
  PROVE  k2 = k
<1>1. m[r + k].x = 0 /\ \A i \in 0 .. k - 1 : m[r + i].x # 0  BY DEF RsvMap
<1>2. m2[r2 + k2].x = 0 /\ \A i \in 0 .. k2 - 1 : m2[r2 + i].x # 0  BY DEF RsvMap
<1>3. ~(k < k2)
  <2>1. k < k2 => k \in 0 .. k2 - 1  OBVIOUS
  <2>2. k \in 0 .. k  OBVIOUS
  <2> QED BY <1>1, <1>2, <2>1, <2>2 DEF SameFrom
<1>4. ~(k2 < k)
  <2>1. k2 < k => k2 \in 0 .. k - 1 /\ k2 \in 0 .. k  OBVIOUS
  <2> QED BY <1>1, <1>2, <2>1 DEF SameFrom
<1> QED BY <1>3, <1>4

\* The same header passes the same checks.
LEMMA HeaderSame ==
  ASSUME NEW b, NEW f, SameHeader(b, f)
  PROVE  RwCheckHeader(f) = RwCheckHeader(b) /\ CheckHeader(f) = CheckHeader(b)
<1>1. CheckHeader(f) = CheckHeader(b)  BY DEF SameHeader, CheckHeader
<1>2. Misordered(f, 1, f.size_dt_struct) = Misordered(b, 1, b.size_dt_struct)  BY DEF SameHeader, Misordered
<1>3. f.version = b.version  BY DEF SameHeader
<1> QED BY <1>1, <1>2, <1>3 DEF RwCheckHeader

\* An edit after which all but the structure is what it was.
Edited(b, k, e, g, k2, e2, a, c, z) ==
  /\ EditOf(b, k, e, g, k2, a, c, z) /\ e2 = e + (z - c) /\ k2 = k
  /\ ReservedOf(g, k) = ReservedOf(b, k) /\ RwCheckHeader(g) = RwCheckHeader(b)
  /\ g.magic = b.magic /\ g.version = b.version

\* A reserve map that was not moved reads the same.
LEMMA RsvKept ==
  ASSUME NEW b \in Blobs, NEW k \in Nat, NEW e \in Nat, Holds(b, k, e),
         NEW g \in Blobs, NEW k2 \in Nat, NEW e2 \in Nat, Holds(g, k2, e2),
         g.off_mem_rsvmap = b.off_mem_rsvmap,
         \A i \in 0 .. k : g.mem[b.off_mem_rsvmap + i] = b.mem[b.off_mem_rsvmap + i]
  PROVE  k2 = k /\ ReservedOf(g, k) = ReservedOf(b, k)
<1>1. RsvMap(b.mem, b.off_mem_rsvmap, k) /\ RsvMap(g.mem, g.off_mem_rsvmap, k2)  BY DEF Holds
<1>2. b.off_mem_rsvmap \in Nat  BY BlobFields
<1>3. k2 = k
  <2>1. SameFrom(b.mem, b.off_mem_rsvmap, g.mem, g.off_mem_rsvmap, k)  BY DEF SameFrom
  <2>2. g.off_mem_rsvmap \in Nat  BY <1>2
  <2> QED BY <1>1, <1>2, <2>1, <2>2, RsvSame
<1>4. ASSUME NEW i \in 1 .. k
      PROVE  g.mem[g.off_mem_rsvmap + (i - 1)].x = b.mem[b.off_mem_rsvmap + (i - 1)].x
  <2>1. i - 1 \in 0 .. k  OBVIOUS
  <2> QED BY <2>1
<1> QED BY <1>3, <1>4 DEF ReservedOf

\* Version 17 and the blocks in order make a blob writable.
LEMMA WritableIf ==
  ASSUME NEW b \in Blobs, b.magic = "FDT", b.version = 17, ~Misordered(b, 1, b.size_dt_struct)
  PROVE  RwCheckHeader(b) = 0
BY DEF RwCheckHeader, CheckHeader, Unless

\* The cells before a and those from c on, the latter d further on.
Around(b, g, e, a, c, d) ==
  (\A q \in 0 .. a - 1 : At(g, q) = At(b, q)) /\ (\A q \in c .. e : At(g, q + d) = At(b, q))

NoEnd(g, a, z) == \A q \in a .. z - 1 : At(g, q).tag # "end"

\* END of the edited blob, and the rest of what EditOf says.
LEMMA EditedEnd ==
  ASSUME NEW b \in Blobs, NEW k \in Nat, NEW e \in Nat, Holds(b, k, e),
         NEW g \in Blobs, NEW k2 \in Nat, NEW e2 \in Nat, Holds(g, k2, e2),
         NEW a \in Nat, NEW c \in Nat, NEW z \in Nat, a <= c, c <= e, 0 < c, a <= z,
         Run(b.mem, b.off_dt_struct, b.off_dt_struct + a),
         NEW d, d = z - c, Around(b, g, e, a, c, d), NoEnd(g, a, z),
         Net(g, a, z) = Net(b, a, c), Keeps(b, g)
  PROVE  EditOf(b, k, e, g, k2, a, c, z) /\ e2 = e + (z - c)
<1> DEFINE st == b.off_dt_struct
           x == e + (z - c)
<1>1. st \in Nat /\ Run(b.mem, st, st + e) /\ At(b, e).tag = "end" /\ x \in Nat
  BY BlobFields DEF Holds, At
<1>2. ASSUME NEW q \in 0 .. e - 1 PROVE At(b, q).tag # "end"
  <2>1. st + q \in st .. st + e - 1  BY <1>1
  <2>2. b.mem[st + q].tag # "end"
    <3> HIDE DEF st
    <3> QED BY <1>1, <2>1 DEF Run
  <2> QED BY <2>2 DEF At
<1>3. At(g, x).tag = "end"
  <2>1. e \in c .. e  OBVIOUS
  <2> QED BY <1>1, <2>1 DEF Around
<1>4. ASSUME NEW q \in 0 .. x - 1 PROVE At(g, q).tag # "end"
  <2>1. CASE q < a
    <3>1. q \in 0 .. a - 1 /\ q \in 0 .. e - 1  BY <2>1
    <3> QED BY <1>2, <3>1 DEF Around
  <2>2. CASE q \in a .. z - 1  BY <2>2 DEF NoEnd
  <2>3. CASE z <= q
    <3>1. q - (z - c) \in c .. e /\ q - (z - c) \in 0 .. e - 1 /\ (q - (z - c)) + (z - c) = q  BY <2>3
    <3>2. At(g, (q - (z - c)) + (z - c)) = At(b, q - (z - c))  BY <3>1 DEF Around
    <3>3. At(b, q - (z - c)).tag # "end"  BY <1>2, <3>1
    <3> HIDE DEF x
    <3> QED BY <3>1, <3>2, <3>3
  <2> QED BY <2>1, <2>2, <2>3
<1>5. e2 = x
  <2> HIDE DEF x
  <2> QED BY <1>1, <1>3, <1>4, EndMoved
<1> QED BY <1>5 DEF EditOf, Around

\* _fdt_splice_struct for the cells i to c - 1, and what is written from cell a on.
\* The cells from i to c made way for newlen others, and those from a to z were written.
SplicedTo(b, g, a, i, c, newlen, z) ==
  /\ z = i + newlen /\ SpliceStruct(b, i, c - i, newlen).err = 0
  /\ SameHeader(SpliceStruct(b, i, c - i, newlen).fdt, g)
  /\ \A q \in Memory : q < b.off_dt_struct + a \/ q >= b.off_dt_struct + z =>
       g.mem[q] = SpliceStruct(b, i, c - i, newlen).fdt.mem[q]

\* A splice and what is put into its gap are an edit of the structure.
LEMMA SpliceEdit ==
  ASSUME NEW b \in Blobs, NEW k \in Nat, NEW e \in Nat, Holds(b, k, e),
         RwCheckHeader(b) = 0, b.magic = "FDT",
         NEW a \in Nat, NEW i \in Nat, NEW c \in Nat, a <= i, i <= c, c <= e, 0 < c,
         NEW newlen \in Nat, NEW z,
         Run(b.mem, b.off_dt_struct, b.off_dt_struct + a),
         NEW g \in Blobs, SplicedTo(b, g, a, i, c, newlen, z),
         NEW k2 \in Nat, NEW e2 \in Nat, Holds(g, k2, e2),
         NoEnd(g, a, z), Net(g, a, z) = Net(b, a, c)
  PROVE  Edited(b, k, e, g, k2, e2, a, c, z) /\ g.off_dt_struct = b.off_dt_struct
<1>0. /\ z = i + newlen /\ SpliceStruct(b, i, c - i, newlen).err = 0
      /\ SameHeader(SpliceStruct(b, i, c - i, newlen).fdt, g)
      /\ \A q \in Memory : q < b.off_dt_struct + a \/ q >= b.off_dt_struct + z =>
           g.mem[q] = SpliceStruct(b, i, c - i, newlen).fdt.mem[q]
  BY DEF SplicedTo
<1> USE <1>0
<1> DEFINE f == SpliceStruct(b, i, c - i, newlen).fdt
           st == b.off_dt_struct
           str == b.off_dt_strings
           sl == b.size_dt_strings
           d == z - c
<1>1. /\ st \in Nat /\ str \in Nat /\ sl \in Nat /\ b.off_mem_rsvmap \in Nat /\ d \in Int /\ z \in Nat
      /\ a <= z /\ b.totalsize \in Nat /\ b.size_dt_struct \in Nat
  BY BlobFields
<1>2. /\ b.off_mem_rsvmap + k + 1 <= st /\ st + e + 1 <= str
      /\ b.size_dt_struct = e + 1 /\ DataSize(b) \in Nat /\ DataSize(b) <= b.totalsize
      /\ DataSize(b) = str + sl /\ DataSize(b) <= MaxSize /\ MaxSize \in Nat
  BY RsvRoom
<1>3. c - i \in Nat /\ c - i <= b.size_dt_struct  BY <1>2
<1>4. /\ f \in Blobs /\ Resized(b, f, newlen - (c - i)) /\ DataSize(f) <= b.totalsize
      /\ \A q \in Memory : q < st + i + newlen => f.mem[q] = b.mem[q]
      /\ \A q \in st + i + (c - i) .. DataSize(b) - 1 : f.mem[q + newlen - (c - i)] = b.mem[q]
  <2>1. StructLeaves(b, i, c - i, newlen, SpliceStruct(b, i, c - i, newlen))
    <3> HIDE DEF f
    <3> QED BY <1>3, SpliceStructEffect
  <2> QED BY <2>1 DEF StructLeaves
<1>5. newlen - (c - i) = d /\ st + i + (c - i) = st + c /\ st + i + newlen = st + z  BY <1>1
<1>6. \A q \in Memory : q < st + z => f.mem[q] = b.mem[q]  BY <1>4, <1>5
<1>7. ASSUME NEW q \in st + c .. DataSize(b) - 1 PROVE g.mem[q + d] = b.mem[q]
  <2>1. f.mem[q + newlen - (c - i)] = b.mem[q]  BY <1>4, <1>5
  <2>2. q + newlen - (c - i) = q + d  BY <1>1
  <2>3. DataSize(f) = DataSize(b) + d
    <3>1. f.off_dt_strings = str + (newlen - (c - i)) /\ f.size_dt_strings = sl  BY <1>4 DEF Resized
    <3> HIDE DEF f
    <3> QED BY <1>1, <1>2, <1>5, <3>1 DEF DataSize
  <2>4. q + d >= st + z /\ q + d \in Memory
    <3>1. DataSize(b) + d <= MaxSize
      <4>1. b.totalsize <= MaxSize  BY BlobFields
      <4>2. DataSize(b) + d <= b.totalsize  BY <1>4, <2>3
      <4> HIDE DEF f, d, st
      <4> QED BY <1>1, <1>2, <4>1, <4>2
    <3>2. q \in Int /\ st + c <= q /\ q <= DataSize(b) - 1  BY <1>1, <1>2
    <3>3. q + d >= st + z  BY <1>1, <3>2
    <3> HIDE DEF f, d, st
    <3> QED BY <1>1, <1>2, <3>1, <3>2, <3>3 DEF Memory
  <2>5. g.mem[q + d] = f.mem[q + d]
    <3> HIDE DEF d, st
    <3> QED BY <2>4 DEF st
  <2> HIDE DEF f, d, st
  <2> QED BY <2>1, <2>2, <2>5
<1>8. ASSUME NEW q \in Nat, q < st + a PROVE g.mem[q] = b.mem[q]
  <2>1. q \in Memory /\ q < st + z  BY <1>1, <1>2, <1>8 DEF Memory
  <2>2. g.mem[q] = f.mem[q]  BY <1>8, <2>1
  <2> HIDE DEF f
  <2> QED BY <1>6, <2>1, <2>2
<1>9. /\ g.off_dt_struct = st /\ g.off_dt_strings = str + d /\ g.size_dt_strings = sl
      /\ g.size_dt_struct = b.size_dt_struct + d /\ g.totalsize = b.totalsize
      /\ g.off_mem_rsvmap = b.off_mem_rsvmap /\ g.magic = b.magic /\ g.version = b.version
  <2>1. SameHeader(f, g)  OBVIOUS
  <2> HIDE DEF f
  <2> QED BY <1>4, <1>5, <2>1 DEF Resized, SameHeader
<1>10. \A q \in 0 .. a - 1 : At(g, q) = At(b, q)
  <2>1. \A q \in 0 .. a - 1 : st + q \in Nat /\ st + q < st + a  BY <1>1
  <2> QED BY <1>8, <1>9, <2>1 DEF At
<1>11. \A q \in c .. e : At(g, q + d) = At(b, q)
  <2>1. ASSUME NEW q \in c .. e PROVE At(g, q + d) = At(b, q)
    <3>1. st + q \in st + c .. DataSize(b) - 1 /\ (st + q) + d = st + (q + d)  BY <1>1, <1>2
    <3>2. g.mem[(st + q) + d] = b.mem[st + q]  BY <1>7, <3>1
    <3> HIDE DEF d
    <3> QED BY <1>9, <3>1, <3>2 DEF At
  <2> QED BY <2>1
<1>12. Keeps(b, g)
  <2>1. \A q \in str .. str + sl - 1 : g.mem[q + d] = b.mem[q]
    <3>1. \A q \in str .. str + sl - 1 : q \in st + c .. DataSize(b) - 1  BY <1>1, <1>2
    <3> QED BY <1>7, <3>1
  <2>2. ASSUME NEW x, NEW n \in Seq(Nat \ {0}), IsString(b.mem, str, sl, x, n)
        PROVE  IsString(g.mem, str + d, sl, x, n)
    <3>1. n \in Seq(Nat)  OBVIOUS
    <3> HIDE DEF str, sl, d
    <3> QED BY <1>1, <2>1, <2>2, <3>1, IsStringMoved
  <2> QED BY <1>9, <2>2 DEF Keeps
<1>13. EditOf(b, k, e, g, k2, a, c, z) /\ e2 = e + (z - c)
  <2>1. Around(b, g, e, a, c, d)  BY <1>10, <1>11 DEF Around
  <2>2. d = z - c  OBVIOUS
  <2>3. z \in Nat /\ a <= z /\ a <= c /\ c <= e /\ 0 < c  BY <1>1
  <2> HIDE <1>0
  <2> HIDE DEF st, str, sl, d, f
  <2> QED BY <1>1, <1>12, <2>1, <2>2, <2>3, EditedEnd
<1>14. k2 = k /\ ReservedOf(g, k) = ReservedOf(b, k)
  <2>1. \A j \in 0 .. k : g.mem[b.off_mem_rsvmap + j] = b.mem[b.off_mem_rsvmap + j]
    <3>1. \A j \in 0 .. k : b.off_mem_rsvmap + j \in Nat /\ b.off_mem_rsvmap + j < st + a  BY <1>1, <1>2
    <3> QED BY <1>8, <3>1
  <2> HIDE DEF st, str, sl, d, f
  <2> QED BY <1>9, <2>1, RsvKept
<1>15. RwCheckHeader(g) = 0
  <2>1. /\ b.version = 17 /\ RsvStart <= b.off_mem_rsvmap /\ b.off_mem_rsvmap + 1 <= st
    BY Writable
  <2>2. DataSize(f) <= b.totalsize /\ DataSize(f) = DataSize(g)
    <3>1. SameHeader(f, g)  OBVIOUS
    <3> QED BY <1>4, <3>1 DEF SameHeader, DataSize
  <2>3. g.off_dt_strings + g.size_dt_strings <= g.totalsize  BY <1>9, <2>2 DEF DataSize
  <2>4. g.off_dt_strings >= st + g.size_dt_struct
    <3> HIDE DEF d
    <3> QED BY <1>1, <1>2, <1>9
  <2>5. RsvStart \in Nat  BY FdtRwAssumption
  <2>6. /\ g.off_mem_rsvmap \in Nat /\ g.off_dt_struct \in Nat /\ g.size_dt_struct \in Nat
        /\ g.off_dt_strings \in Nat /\ g.size_dt_strings \in Nat /\ g.totalsize \in Int
    BY BlobFields
  <2>7. ~Misordered(g, 1, g.size_dt_struct)
    <3> HIDE DEF d, f, st
    <3> QED BY <1>9, <2>1, <2>3, <2>4, <2>5, <2>6 DEF Misordered, st
  <2> QED BY <1>9, <2>1, <2>7, WritableIf
<1> QED BY <1>9, <1>13, <1>14, <1>15 DEF Edited

\* What is written into the cells a to c - 1 in place.
LEMMA PutEdit ==
  ASSUME NEW b \in Blobs, NEW k \in Nat, NEW e \in Nat, Holds(b, k, e),
         NEW a \in Nat, NEW c \in Nat, a <= c, c <= e, 0 < c,
         Run(b.mem, b.off_dt_struct, b.off_dt_struct + a),
         NEW g \in Blobs, SameHeader(b, g),
         \A q \in Memory : q < b.off_dt_struct + a \/ q >= b.off_dt_struct + c => g.mem[q] = b.mem[q],
         NEW k2 \in Nat, NEW e2 \in Nat, Holds(g, k2, e2),
         NoEnd(g, a, c), Net(g, a, c) = Net(b, a, c)
  PROVE  Edited(b, k, e, g, k2, e2, a, c, c)
<1> DEFINE st == b.off_dt_struct
           str == b.off_dt_strings
           sl == b.size_dt_strings
           r == b.off_mem_rsvmap
<1>1. /\ st \in Nat /\ str \in Nat /\ sl \in Nat /\ r \in Nat /\ b.totalsize \in Nat
  BY BlobFields
<1>2. /\ r + k + 1 <= b.totalsize /\ st + e + 1 <= b.totalsize /\ str + sl <= b.totalsize
      /\ Disjoint(r, r + k + 1, st, st + e + 1) /\ Disjoint(st, st + e + 1, str, str + sl)
  BY DEF Holds
<1>3. ASSUME NEW q \in Nat, q < b.totalsize, q < st + a \/ q >= st + c PROVE g.mem[q] = b.mem[q]
  <2>1. q \in Memory  BY <1>3, MemoryCells
  <2> QED BY <1>3, <2>1
<1>4. g.off_dt_struct = st /\ g.off_dt_strings = str /\ g.size_dt_strings = sl
      /\ g.off_mem_rsvmap = r /\ g.magic = b.magic /\ g.version = b.version
  BY DEF SameHeader
<1>5. Around(b, g, e, a, c, 0)
  <2>1. ASSUME NEW q \in 0 .. a - 1 PROVE At(g, q) = At(b, q)
    <3>1. st + q \in Nat /\ st + q < b.totalsize /\ st + q < st + a  BY <1>1, <1>2
    <3> QED BY <1>3, <1>4, <3>1 DEF At
  <2>2. ASSUME NEW q \in c .. e PROVE At(g, q + 0) = At(b, q)
    <3>1. st + q \in Nat /\ st + q < b.totalsize /\ st + q >= st + c /\ q + 0 = q  BY <1>1, <1>2
    <3> QED BY <1>3, <1>4, <3>1 DEF At
  <2> QED BY <2>1, <2>2 DEF Around
<1>6. Keeps(b, g)
  <2>1. \A q \in str .. str + sl - 1 : g.mem[q + 0] = b.mem[q]
    <3>1. ASSUME NEW q \in str .. str + sl - 1 PROVE g.mem[q + 0] = b.mem[q]
      <4>1. q \in Nat /\ q < b.totalsize /\ (q < st + a \/ q >= st + c) /\ q + 0 = q
        BY <1>1, <1>2 DEF Disjoint
      <4> QED BY <1>3, <4>1
    <3> QED BY <3>1
  <2>2. ASSUME NEW x, NEW n \in Seq(Nat \ {0}), IsString(b.mem, str, sl, x, n)
        PROVE  IsString(g.mem, str, sl, x, n)
    <3>1. n \in Seq(Nat) /\ 0 \in Int /\ str + 0 = str  BY <1>1
    <3>2. IsString(g.mem, str + 0, sl, x, n)
      <4> HIDE DEF str, sl
      <4> QED BY <1>1, <2>1, <2>2, <3>1, IsStringMoved
    <3> QED BY <3>1, <3>2
  <2> QED BY <1>4, <2>2 DEF Keeps
<1>7. EditOf(b, k, e, g, k2, a, c, c) /\ e2 = e + (c - c)
  <2>1. 0 = c - c  OBVIOUS
  <2> QED BY <1>5, <1>6, <2>1, EditedEnd
<1>8. k2 = k /\ ReservedOf(g, k) = ReservedOf(b, k)
  <2>1. ASSUME NEW j \in 0 .. k PROVE g.mem[r + j] = b.mem[r + j]
    <3>1. r + j \in Nat /\ r + j < b.totalsize /\ (r + j < st + a \/ r + j >= st + c)
      BY <1>1, <1>2 DEF Disjoint
    <3> QED BY <1>3, <3>1
  <2>2. \A j \in 0 .. k : g.mem[b.off_mem_rsvmap + j] = b.mem[b.off_mem_rsvmap + j]  BY <2>1
  <2> HIDE DEF st, str, sl
  <2> QED BY <1>4, <2>2, RsvKept
<1>9. RwCheckHeader(g) = RwCheckHeader(b)  BY HeaderSame
<1> QED BY <1>4, <1>7, <1>8, <1>9 DEF Edited

\* A finished blob whose cells make one tree.
Good(b) == b.magic = "FDT" /\ b.version >= 16 /\ \E k, e \in Nat : Whole(b, k, e)

\* What is read in g is the tree t and the regions of b.
Becomes(b, g, t) ==
  /\ Good(g) /\ Decoded(g).tree = t
  /\ Decoded(g).reserved = Decoded(b).reserved /\ Decoded(g).writable = Decoded(b).writable

\* After an edit the reserve map and the header still read the same.
LEMMA EditedDecoded ==
  ASSUME NEW b, NEW k \in Nat, NEW e \in Nat, Whole(b, k, e), b.magic = "FDT", b.version >= 16,
         NEW g, NEW k2 \in Nat, NEW e2 \in Nat, NEW a \in Nat, NEW c \in Nat, NEW z \in Nat,
         Edited(b, k, e, g, k2, e2, a, c, z), Shaped(g, e2), InReach(g, e2)
  PROVE  Becomes(b, g, TreeOf(g)) /\ Decoded(b).tree = TreeOf(b)
<1>1. b \in Blobs /\ Holds(b, k, e)  BY DEF Whole
<1>2. /\ g \in Blobs /\ Holds(g, k, e2) /\ g.magic = "FDT" /\ g.version >= 16
      /\ ReservedOf(g, k) = ReservedOf(b, k) /\ RwCheckHeader(g) = RwCheckHeader(b)
  BY DEF Edited, EditOf
<1>3. Whole(g, k, e2)  BY <1>2 DEF Whole
<1>4. /\ Decoded(b).tree = TreeOf(b) /\ Decoded(b).reserved = ReservedOf(b, k)
      /\ Decoded(b).writable = (RwCheckHeader(b) = 0)
  BY <1>1, DecodedIs
<1>5. /\ Decoded(g).tree = TreeOf(g) /\ Decoded(g).reserved = ReservedOf(g, k)
      /\ Decoded(g).writable = (RwCheckHeader(g) = 0)
  BY <1>2, DecodedIs
<1> QED BY <1>2, <1>3, <1>4, <1>5 DEF Becomes, Good

\* An edit within a node.
NodeEdited(b, k, e, g, k2, e2, a, c, z, o) ==
  /\ Whole(b, k, e) /\ b.magic = "FDT" /\ b.version >= 16
  /\ Edited(b, k, e, g, k2, e2, a, c, z) /\ EditIn(b, k, e, g, k2, a, c, z, o)
  /\ InReach(g, e2)

NodeDecoded(b, g, o) ==
  /\ Becomes(b, g, WithNode(b, NodeNo(b, o), NodeAs(g, o))) /\ Decoded(b).tree = TreeOf(b)
  /\ NodeNo(b, o) \in DOMAIN TreeOf(b) /\ TreeOf(b)[NodeNo(b, o)] = NodeAs(b, o)

\* After an edit within a node, only this node may read otherwise.
LEMMA EditInDecoded ==
  ASSUME NEW b, NEW k \in Nat, NEW e \in Nat, NEW g, NEW k2 \in Nat, NEW e2 \in Nat,
         NEW a \in Nat, NEW c \in Nat, NEW z \in Nat, NEW o,
         NodeEdited(b, k, e, g, k2, e2, a, c, z, o)
  PROVE  NodeDecoded(b, g, o)
<1>0. /\ Whole(b, k, e) /\ b.magic = "FDT" /\ b.version >= 16
      /\ Edited(b, k, e, g, k2, e2, a, c, z) /\ EditIn(b, k, e, g, k2, a, c, z, o)
      /\ InReach(g, e2)
  BY DEF NodeEdited
<1>1. Shaped(b, e)  BY <1>0 DEF Whole
<1>2. e2 = e + (z - c)  BY <1>0 DEF Edited
<1>3. Shaped(g, e2)  BY <1>0, <1>1, <1>2, EditInShaped
<1>4. OtherNode(b, g, o)  BY <1>0, EditInTree
<1>5. Becomes(b, g, TreeOf(g)) /\ Decoded(b).tree = TreeOf(b)  BY <1>0, <1>3, EditedDecoded
<1> QED BY <1>4, <1>5 DEF OtherNode, NodeDecoded
=============================================================================
