----------------------------- MODULE FdtSwProofs -----------------------------
(***************************************************************************)
(* Proofs about FdtSw, for any size of the buffer and of the header, any   *)
(* names and any values: its type invariant, that the blocks fit, that no  *)
(* call disturbs what was written, and that the writer implements          *)
(* FdtStream.                                                              *)
(***************************************************************************)
EXTENDS FdtSw, TLAPS, WellFoundedInduction

Cells == [tag : Tags, x : Int, y : Nat]
Memory == [0 .. MaxSize - 1 -> Cells]

\* What the caller's discipline and the header say of each other.
Shape ==
  /\ magic # "SW" => depth = 0
  /\ magic = "SW" => /\ off_dt_strings = totalsize /\ off_dt_struct >= RsvOffset
                     /\ off_dt_struct = RsvOffset \/ off_dt_struct <= totalsize
  /\ magic = "SW" /\ ~mapped => size_dt_struct = 0 /\ size_dt_strings = 0 /\ depth = 0
  /\ magic = "SW" /\ mapped => off_dt_struct > RsvOffset

IInv == TypeOK /\ BlocksFit /\ Shape

\* Copying cells into the memory, or within it, leaves a memory.
LEMMA WrittenType ==
  ASSUME NEW m \in Memory, NEW at \in Int, NEW s \in Seq(Cells)
  PROVE  Written(m, at, s) \in Memory
<1>1. ASSUME NEW p \in 0 .. MaxSize - 1, p \in at .. at + Len(s) - 1
      PROVE  s[p - at + 1] \in Cells
  <2>1. p - at + 1 \in 1 .. Len(s)
    BY <1>1, FdtSwAssumption
  <2> QED BY <2>1
<1>2. DOMAIN m = 0 .. MaxSize - 1 /\ \A p \in 0 .. MaxSize - 1 : m[p] \in Cells
  BY DEF Memory
<1> QED BY <1>1, <1>2 DEF Written, Memory

LEMMA MovedType ==
  ASSUME NEW m \in Memory, NEW from \in Nat, NEW to \in Nat, NEW n \in Nat, from + n <= MaxSize
  PROVE  Moved(m, from, to, n) \in Memory
<1>1. ASSUME NEW p \in 0 .. MaxSize - 1, p \in to .. to + n - 1
      PROVE  m[p - to + from] \in Cells
  <2>1. p - to + from \in 0 .. MaxSize - 1
    BY <1>1, FdtSwAssumption
  <2> QED BY <2>1 DEF Memory
<1>2. DOMAIN m = 0 .. MaxSize - 1 /\ \A p \in 0 .. MaxSize - 1 : m[p] \in Cells
  BY DEF Memory
<1> QED BY <1>1, <1>2 DEF Moved, Memory

\* Writing leaves the other cells alone.
LEMMA WrittenElsewhere ==
  ASSUME NEW m \in Memory, NEW at \in Nat, NEW s \in Seq(Cells),
         NEW p \in 0 .. MaxSize - 1, p < at \/ p >= at + Len(s)
  PROVE  Written(m, at, s)[p] = m[p]
<1>1. DOMAIN m = 0 .. MaxSize - 1 /\ Len(s) \in Nat
  BY DEF Memory
<1>2. p \notin at .. at + Len(s) - 1
  BY <1>1, FdtSwAssumption
<1> QED BY <1>1, <1>2 DEF Written

\* TypeOK without the memory.
LEMMA Numbers ==
  ASSUME TypeOK
  PROVE  /\ totalsize \in Nat /\ off_dt_struct \in Nat /\ size_dt_struct \in Nat
         /\ off_dt_strings \in Nat /\ size_dt_strings \in Nat /\ depth \in Nat
         /\ totalsize <= MaxSize /\ MaxSize \in Nat /\ RsvOffset \in Nat /\ HeaderSize \in Nat
         /\ mapped \in BOOLEAN /\ mem \in Memory
<1>1. totalsize \in Nat /\ totalsize <= MaxSize
  BY FdtSwAssumption DEF TypeOK
<1>2. off_dt_struct \in Nat
  BY FdtSwAssumption DEF TypeOK
<1>3. size_dt_struct \in Nat /\ off_dt_strings \in Nat /\ size_dt_strings \in Nat
  BY FdtSwAssumption DEF TypeOK
<1>4. depth \in Nat /\ mapped \in BOOLEAN /\ mem \in Memory
  BY DEF TypeOK, Memory, Cells
<1> QED BY <1>1, <1>2, <1>3, <1>4, FdtSwAssumption

\* What _fdt_grab_space promises once the reserve map is finished.
LEMMA RoomFits ==
  ASSUME IInv, magic = "SW", mapped,
         NEW strs \in Nat, off_dt_struct + size_dt_struct + strs <= totalsize,
         NEW len \in Nat, Room(strs, len)
  PROVE  off_dt_struct + size_dt_struct + len + strs <= totalsize
BY Numbers DEF IInv, Room

\* What _fdt_find_add_string promises: the unsigned comparison does not wrap.
LEMMA StringFitsBelow ==
  ASSUME IInv, magic = "SW", mapped, NEW name \in Names, StringFits(name)
  PROVE  /\ Len(Chars(name)) \in Nat
         /\ off_dt_struct + size_dt_struct + size_dt_strings + Len(Chars(name)) <= totalsize
<1>1. Len(name) \in Nat /\ Len(name) <= RsvOffset
  BY FdtSwAssumption
<1>2. Len(Chars(name)) = Len(name) + 1
  BY <1>1 DEF Chars
<1>3. off_dt_struct + size_dt_struct + size_dt_strings <= totalsize
  BY DEF IInv, BlocksFit
<1>4. off_dt_struct > RsvOffset
  BY DEF IInv, Shape
<1> QED BY <1>1, <1>2, <1>3, <1>4, Numbers DEF IInv, StringFits

LEMMA CellType ==
  /\ \A tag \in Tags, x \in Int, y \in Nat : Cell(tag, x, y) \in Cells
  /\ Zero \in Cells /\ Junk \in Cells
BY DEF Cell, Cells, Tags, Zero, Junk

LEMMA CharsType ==
  ASSUME NEW name \in Names
  PROVE  Chars(name) \in Seq(Cells) /\ Len(Chars(name)) = Len(name) + 1
<1>1. name \in Seq(Nat \ {0}) /\ Len(name) \in Nat
  BY FdtSwAssumption
<1>2. \A i \in 1 .. Len(name) + 1 :
        (IF i <= Len(name) THEN Cell("chr", name[i], 0) ELSE Zero) \in Cells
  <2> TAKE i \in 1 .. Len(name) + 1
  <2>1. CASE i <= Len(name)
    <3>1. name[i] \in Int
      BY <1>1, <2>1
    <3> QED BY <2>1, <3>1, CellType DEF Tags
  <2>2. CASE ~(i <= Len(name))
    BY <2>2, CellType
  <2> QED BY <2>1, <2>2
<1> QED BY <1>1, <1>2 DEF Chars

\* The cells of a property.
LEMMA PropType ==
  ASSUME NEW val \in Values, NEW nameoff \in Int,
         NEW s, s = [i \in 1 .. Len(val) + 1 |-> IF i = 1 THEN Cell("prop", nameoff, Len(val))
                                                ELSE Cell("data", val[i - 1], 0)]
  PROVE  s \in Seq(Cells)
<1>1. val \in Seq(Nat) /\ Len(val) \in Nat
  BY FdtSwAssumption
<1>2. \A i \in 1 .. Len(val) + 1 :
        (IF i = 1 THEN Cell("prop", nameoff, Len(val)) ELSE Cell("data", val[i - 1], 0)) \in Cells
  <2> TAKE i \in 1 .. Len(val) + 1
  <2>1. CASE i = 1
    BY <1>1, <2>1, CellType DEF Tags
  <2>2. CASE i # 1
    <3>1. val[i - 1] \in Int
      BY <1>1, <2>2
    <3> QED BY <2>2, <3>1, CellType DEF Tags
  <2> QED BY <2>1, <2>2
<1> QED BY <1>1, <1>2

\* BlocksKept of one step.
Kept ==
  magic = "SW" /\ magic' = "SW" =>
    /\ \A p \in RsvOffset .. off_dt_struct + size_dt_struct - 1 : mem'[p] = mem[p]
    /\ \A k \in 1 .. size_dt_strings : mem'[totalsize' - k] = mem[totalsize - k]

\* The invariant holds at the start.
LEMMA InitInv == Init => IInv
<1> SUFFICES ASSUME Init PROVE IInv
  OBVIOUS
<1>1. mem \in [0 .. MaxSize - 1 -> [tag : Tags, x : Int, y : Nat]]
  BY CellType DEF Init, Cells
<1>2. 0 \in 0 .. MaxSize /\ 0 \in Nat
  BY FdtSwAssumption
<1>3. reply.ok = FALSE
  BY DEF Init
<1>4. TypeOK
  BY <1>1, <1>2, <1>3 DEF Init, TypeOK
<1> QED BY <1>4 DEF Init, IInv, BlocksFit, Shape

\* Space taken at the end of the structure, with a memory m in which the same
\* cells are kept and the strings may have grown.
LEMMA GrabStep ==
  ASSUME IInv, magic = "SW", mapped,
         NEW m \in Memory, NEW strs \in Nat, size_dt_strings <= strs,
         off_dt_struct + size_dt_struct + strs <= totalsize,
         \A p \in RsvOffset .. off_dt_struct + size_dt_struct - 1 : m[p] = mem[p],
         \A k \in 1 .. size_dt_strings : m[totalsize - k] = mem[totalsize - k],
         NEW s \in Seq(Cells), NEW c, Grab(m, strs, s, c), depth' \in Nat,
         UNCHANGED <<magic, totalsize, off_dt_struct, off_dt_strings, mapped>>
  PROVE  IInv' /\ Kept
<1> DEFINE top == off_dt_struct + size_dt_struct
<1>1. TypeOK /\ BlocksFit /\ Shape /\ Len(s) \in Nat
  BY DEF IInv
<1>2. CASE Room(strs, Len(s)) /\ Accepted(c) /\ mem' = Written(m, top, s)
           /\ size_dt_struct' = size_dt_struct + Len(s)
  <2>1. top + Len(s) + strs <= totalsize
    BY <1>1, <1>2, RoomFits
  <2>2. mem' \in Memory
    BY <1>1, <1>2, WrittenType, Numbers
  <2>3. TypeOK'
    <3>1. size_dt_struct' \in 0 .. MaxSize /\ size_dt_strings' \in 0 .. MaxSize
      BY SMTT(40), <1>1, <1>2, <2>1, Numbers DEF Grab
    <3> QED BY <1>1, <1>2, <2>2, <3>1 DEF TypeOK, Memory, Cells, Accepted
  <2>4. BlocksFit' /\ Shape'
    BY <1>1, <1>2, <2>1, Numbers DEF BlocksFit, Shape, Grab
  <2>5. top \in Nat /\ totalsize \in 0 .. MaxSize /\ RsvOffset \in Nat /\ MaxSize \in Nat
    BY <1>1, Numbers
  <2>6. ASSUME NEW p \in RsvOffset .. off_dt_struct + size_dt_struct - 1
        PROVE  mem'[p] = mem[p]
    <3> off_dt_struct \in Nat /\ size_dt_struct \in Nat
      BY <1>1, Numbers
    <3>a. off_dt_struct + size_dt_struct <= MaxSize
      BY <1>1, <2>1, <2>5
    <3>b. p \in Int /\ RsvOffset <= p /\ p <= off_dt_struct + size_dt_struct - 1
      BY <2>5
    <3>1. p \in 0 .. MaxSize - 1 /\ p < top
      BY <2>5, <3>a, <3>b
    <3>2. Written(m, top, s)[p] = m[p]
      BY <2>5, <3>1, WrittenElsewhere
    <3>3. m[p] = mem[p]
      BY <2>6
    <3> QED BY <1>2, <3>2, <3>3
  <2>7. ASSUME NEW k \in 1 .. size_dt_strings
        PROVE  mem'[totalsize' - k] = mem[totalsize - k]
    <3>1. totalsize - k \in 0 .. MaxSize - 1 /\ totalsize - k >= top + Len(s)
      BY SMTT(40), <1>1, <2>1, <2>5, Numbers
    <3>2. Written(m, top, s)[totalsize - k] = m[totalsize - k]
      BY <2>5, <3>1, WrittenElsewhere
    <3> QED BY <1>2, <3>2
  <2>8. Kept
    BY <2>6, <2>7 DEF Kept
  <2> QED BY <2>3, <2>4, <2>8 DEF IInv
<1>3. CASE ~Room(strs, Len(s)) /\ Refused(c) /\ mem' = m /\ UNCHANGED size_dt_struct
  <2>1. size_dt_strings' \in 0 .. MaxSize
    BY <1>1, <1>3, Numbers DEF Grab
  <2>2. TypeOK'
    BY <1>1, <1>3, <2>1 DEF TypeOK, Memory, Cells, Refused
  <2>3. BlocksFit' /\ Shape'
    BY <1>1, <1>3, Numbers DEF BlocksFit, Shape, Grab
  <2>4. Kept
    BY <1>3 DEF Kept
  <2> QED BY <2>2, <2>3, <2>4 DEF IInv
<1> QED BY <1>2, <1>3 DEF Grab

\* One lemma per call.
LEMMA CreateStep ==
  ASSUME IInv, NEW n \in 0 .. MaxSize, Create(n)
  PROVE  IInv' /\ Kept
<1>1. CASE n < HeaderSize /\ Refused(Call("create", <<>>, <<>>)) /\ UNCHANGED <<mem, header, caller>>
  BY <1>1 DEF IInv, TypeOK, BlocksFit, Shape, Kept, Create, Refused, header, caller
<1>2. CASE n >= HeaderSize /\ Accepted(Call("create", <<>>, <<>>))
           /\ mem' = [p \in DOMAIN mem |-> IF p < n THEN Zero ELSE mem[p]]
           /\ magic' = "SW" /\ totalsize' = n
           /\ off_dt_struct' = RsvOffset /\ size_dt_struct' = 0
           /\ off_dt_strings' = n /\ size_dt_strings' = 0
           /\ mapped' = FALSE /\ depth' = 0
  <2>1. n \in HeaderSize .. MaxSize /\ 0 \in 0 .. MaxSize
    BY <1>2, FdtSwAssumption
  <2>2. mem' \in Memory
    <3>1. mem \in Memory
      BY Numbers DEF IInv
    <3> QED BY <1>2, <3>1, CellType DEF Memory
  <2>3. reply'.ok = TRUE
    BY <1>2 DEF Accepted
  <2>4. TypeOK'
    BY <1>2, <2>1, <2>2, <2>3 DEF TypeOK, Memory, Cells
  <2>5. BlocksFit' /\ Shape'
    BY <1>2, <2>1, FdtSwAssumption DEF BlocksFit, Shape
  <2> QED BY <2>4, <2>5 DEF IInv, Kept, Create
<1> QED BY <1>1, <1>2 DEF Create

LEMMA ResizeStep ==
  ASSUME IInv, NEW n \in 0 .. MaxSize, Resize(n)
  PROVE  IInv' /\ Kept
<1>1. TypeOK /\ BlocksFit /\ Shape
  BY DEF IInv
<1>2. /\ magic = "SW" /\ n > totalsize /\ size_dt_strings <= totalsize
      /\ mem' = Moved(mem, totalsize - size_dt_strings, n - size_dt_strings, size_dt_strings)
  BY <1>1, Numbers DEF Resize, BlocksFit, Shape
<1>3. mem' \in Memory
  <2>1. totalsize - size_dt_strings \in Nat /\ n - size_dt_strings \in Nat
    BY <1>1, <1>2, Numbers
  <2>2. totalsize - size_dt_strings + size_dt_strings <= MaxSize
    BY <1>1, Numbers
  <2> QED BY <1>1, <1>2, <2>1, <2>2, Numbers, MovedType
<1>4. TypeOK'
  <2>1. n \in HeaderSize .. MaxSize /\ n \in 0 .. MaxSize
    BY <1>1, <1>2, Numbers, FdtSwAssumption DEF TypeOK
  <2> QED BY <1>1, <1>2, <1>3, <2>1 DEF TypeOK, Resize, caller, Memory, Cells
<1>5. BlocksFit' /\ Shape'
  BY <1>1, <1>2, Numbers DEF BlocksFit, Shape, Resize, caller
<1>6. ASSUME NEW p \in RsvOffset .. off_dt_struct + size_dt_struct - 1
      PROVE  mem'[p] = mem[p]
  <2>1. p \in 0 .. MaxSize - 1 /\ p < n - size_dt_strings
    BY <1>1, <1>2, Numbers DEF BlocksFit, Shape
  <2>2. DOMAIN mem = 0 .. MaxSize - 1
    BY <1>1, Numbers DEF Memory
  <2> QED BY <1>1, <1>2, <2>1, <2>2, Numbers DEF Moved
<1>7. ASSUME NEW k \in 1 .. size_dt_strings
      PROVE  mem'[totalsize' - k] = mem[totalsize - k]
  <2>1. totalsize' = n
    BY DEF Resize
  <2>2. n - k \in 0 .. MaxSize - 1
        /\ n - k \in n - size_dt_strings .. n - size_dt_strings + size_dt_strings - 1
    BY <1>1, <1>2, Numbers
  <2>3. DOMAIN mem = 0 .. MaxSize - 1
    BY <1>1, Numbers DEF Memory
  <2>4. n - k - (n - size_dt_strings) + (totalsize - size_dt_strings) = totalsize - k
    BY <1>1, Numbers
  <2> QED BY <1>2, <2>1, <2>2, <2>3, <2>4 DEF Moved
<1> QED BY <1>4, <1>5, <1>6, <1>7 DEF IInv, Kept

\* The reserve map grows only while there is neither structure nor strings.
LEMMA AddEntryStep ==
  ASSUME IInv, NEW e \in Entries \cup {0}, magic = "SW", mapped => size_dt_struct > 0, AddEntry(e)
  PROVE  IInv' /\ Kept
<1>1. TypeOK /\ BlocksFit /\ Shape
  BY DEF IInv
<1>2. CASE Refused(EntryCall(e)) /\ UNCHANGED <<mem, off_dt_struct, mapped>>
  BY <1>1, <1>2 DEF IInv, TypeOK, BlocksFit, Shape, Kept, AddEntry, Refused
<1>3. CASE /\ size_dt_struct = 0 /\ off_dt_struct + 1 <= totalsize
           /\ mem' = Written(mem, off_dt_struct, <<Cell("entry", e, 0)>>)
           /\ off_dt_struct' = off_dt_struct + 1
           /\ mapped' = (e = 0)
           /\ Accepted(EntryCall(e))
  <2>1. ~mapped /\ size_dt_strings = 0 /\ depth = 0
    BY <1>1, <1>3, Numbers DEF Shape
  <2>2. <<Cell("entry", e, 0)>> \in Seq(Cells) /\ Len(<<Cell("entry", e, 0)>>) = 1
    <3>1. e \in Int
      BY FdtSwAssumption
    <3>2. Cell("entry", e, 0) \in Cells
      BY <3>1, CellType DEF Tags
    <3> QED BY <3>2
  <2>3. mem' \in Memory
    <3>1. mem \in Memory /\ off_dt_struct \in Int
      BY <1>1, Numbers
    <3> QED BY <1>3, <2>2, <3>1, WrittenType
  <2>4. off_dt_struct' \in 0 .. MaxSize /\ mapped' \in BOOLEAN /\ reply'.ok = TRUE
    BY <1>1, <1>3, Numbers DEF Accepted
  <2>5. TypeOK'
    BY <1>1, <2>3, <2>4 DEF TypeOK, Memory, Cells, AddEntry
  <2>6. BlocksFit' /\ Shape'
    BY <1>1, <1>3, <2>1, Numbers DEF BlocksFit, Shape, AddEntry
  <2>7. ASSUME NEW p \in RsvOffset .. off_dt_struct + size_dt_struct - 1
        PROVE  mem'[p] = mem[p]
    <3>1. p \in 0 .. MaxSize - 1 /\ p < off_dt_struct
      BY <1>1, <1>3, Numbers
    <3> QED BY <1>1, <1>3, <2>2, <3>1, Numbers, WrittenElsewhere
  <2> QED BY <1>1, <2>1, <2>5, <2>6, <2>7, Numbers DEF IInv, Kept
<1> QED BY <1>2, <1>3 DEF AddEntry

\* Inside a node the reserve map is finished and the blocks fit.
LEMMA InNode ==
  ASSUME IInv, magic = "SW", mapped \/ depth > 0
  PROVE  mapped /\ off_dt_struct + size_dt_struct + size_dt_strings <= totalsize
BY Numbers DEF IInv, BlocksFit, Shape

LEMMA BeginNodeStep ==
  ASSUME IInv, NEW n \in NodeNames, BeginNode(n)
  PROVE  IInv' /\ Kept
<1>1. Cell("begin", n, 0) \in Cells
  <2>1. n \in Int
    BY FdtSwAssumption
  <2> QED BY <2>1, CellType DEF Tags
<1>2. <<Cell("begin", n, 0)>> \in Seq(Cells)
  BY <1>1
<1>3. mem \in Memory /\ size_dt_strings \in Nat /\ depth' \in Nat
  BY Numbers DEF IInv, BeginNode
<1>4. mapped /\ off_dt_struct + size_dt_struct + size_dt_strings <= totalsize
  BY InNode DEF BeginNode
<1>5. size_dt_strings <= size_dt_strings
  BY <1>3
<1>6. /\ magic = "SW"
      /\ Grab(mem, size_dt_strings, <<Cell("begin", n, 0)>>, Call("begin", <<n>>, <<>>))
      /\ UNCHANGED <<magic, totalsize, off_dt_struct, off_dt_strings, mapped>>
  BY DEF BeginNode
<1> QED BY <1>2, <1>3, <1>4, <1>5, <1>6, GrabStep

LEMMA EndNodeStep ==
  ASSUME IInv, EndNode
  PROVE  IInv' /\ Kept
<1>1. <<Cell("end_node", 0, 0)>> \in Seq(Cells)
  BY CellType DEF Tags
<1>2. mem \in Memory /\ size_dt_strings \in Nat /\ depth' \in Nat
  BY Numbers DEF IInv, EndNode
<1>3. mapped /\ off_dt_struct + size_dt_struct + size_dt_strings <= totalsize
  BY InNode DEF EndNode
<1>4. size_dt_strings <= size_dt_strings
  BY <1>2
<1>5. /\ magic = "SW"
      /\ Grab(mem, size_dt_strings, <<Cell("end_node", 0, 0)>>, Call("end_node", <<>>, <<>>))
      /\ UNCHANGED <<magic, totalsize, off_dt_struct, off_dt_strings, mapped>>
  BY DEF EndNode
<1> QED BY <1>1, <1>2, <1>3, <1>4, <1>5, GrabStep

\* A property, once its name is in the memory m.
LEMMA PropertyWith ==
  ASSUME IInv, magic = "SW", depth > 0,
         UNCHANGED <<magic, totalsize, off_dt_struct, off_dt_strings, caller>>,
         NEW m \in Memory, NEW strs \in Nat, size_dt_strings <= strs,
         off_dt_struct + size_dt_struct + strs <= totalsize,
         \A p \in RsvOffset .. off_dt_struct + size_dt_struct - 1 : m[p] = mem[p],
         \A k \in 1 .. size_dt_strings : m[totalsize - k] = mem[totalsize - k],
         NEW s \in Seq(Cells), NEW c, Grab(m, strs, s, c)
  PROVE  IInv' /\ Kept
<1>1. mapped
  BY InNode
<1>2. depth' \in Nat /\ mapped' = mapped
  BY Numbers DEF IInv, caller
<1> QED BY <1>1, <1>2, GrabStep

LEMMA PropertyStep ==
  ASSUME IInv, NEW name \in Names, NEW val \in Values, Property(name, val)
  PROVE  IInv' /\ Kept
<1> DEFINE c == Call("prop", name, val)
           strs == size_dt_strings + Len(Chars(name))
           Prop(nameoff) ==
             [i \in 1 .. Len(val) + 1 |-> IF i = 1 THEN Cell("prop", nameoff, Len(val))
                                         ELSE Cell("data", val[i - 1], 0)]
<1>1. /\ magic = "SW" /\ depth > 0
      /\ UNCHANGED <<magic, totalsize, off_dt_struct, off_dt_strings, caller>>
  BY DEF Property
<1>2. mapped /\ off_dt_struct + size_dt_struct + size_dt_strings <= totalsize
  BY <1>1, InNode
<1>3. /\ mem \in Memory /\ size_dt_strings \in Nat /\ totalsize \in Nat /\ size_dt_struct \in Nat
      /\ off_dt_struct \in Nat /\ totalsize <= MaxSize /\ MaxSize \in Nat /\ RsvOffset \in Nat
  BY Numbers DEF IInv
<1>4. Chars(name) \in Seq(Cells) /\ Len(Chars(name)) \in Nat
  BY CharsType, FdtSwAssumption
<1>5. ASSUME NEW p \in Found(name), Grab(mem, size_dt_strings, Prop(p - totalsize), c)
      PROVE  IInv' /\ Kept
  <2>1. p - totalsize \in Int
    BY <1>3, <1>4 DEF Found
  <2>2. Prop(p - totalsize) \in Seq(Cells)
    BY <2>1, PropType
  <2>3. size_dt_strings <= size_dt_strings
    BY <1>3
  <2> HIDE DEF Prop, c
  <2> QED BY <1>1, <1>2, <1>3, <1>5, <2>2, <2>3, PropertyWith
<1>6. ASSUME StringFits(name), Grab(Written(mem, totalsize - strs, Chars(name)), strs, Prop(-strs), c)
      PROVE  IInv' /\ Kept
  <2>1. strs \in Nat /\ -strs \in Int /\ size_dt_strings <= strs
    BY <1>3, <1>4
  <2>2. Prop(-strs) \in Seq(Cells)
    BY <2>1, PropType
  <2>3. off_dt_struct + size_dt_struct + strs <= totalsize
    BY <1>1, <1>2, <1>3, <1>4, <1>6, StringFitsBelow
  <2>4. totalsize - strs \in Nat
    BY <1>3, <2>1, <2>3
  <2>5. Written(mem, totalsize - strs, Chars(name)) \in Memory
    BY <1>3, <1>4, <2>4, WrittenType
  <2>6. ASSUME NEW p \in RsvOffset .. off_dt_struct + size_dt_struct - 1
        PROVE  Written(mem, totalsize - strs, Chars(name))[p] = mem[p]
    <3>1. p \in 0 .. MaxSize - 1 /\ p < totalsize - strs
      BY <1>3, <2>1, <2>3
    <3> QED BY <1>3, <1>4, <2>4, <3>1, WrittenElsewhere
  <2>7. ASSUME NEW k \in 1 .. size_dt_strings
        PROVE  Written(mem, totalsize - strs, Chars(name))[totalsize - k] = mem[totalsize - k]
    <3>1. totalsize - k \in 0 .. MaxSize - 1 /\ totalsize - k >= totalsize - strs + Len(Chars(name))
      BY <1>2, <1>3, <1>4
    <3> QED BY <1>3, <1>4, <2>4, <3>1, WrittenElsewhere
  <2> HIDE DEF Prop, c, strs
  <2> QED BY <1>1, <1>6, <2>1, <2>2, <2>3, <2>5, <2>6, <2>7, PropertyWith
<1>7. ASSUME Refused(c), UNCHANGED <<mem, size_dt_struct, size_dt_strings>>
      PROVE  IInv' /\ Kept
  BY <1>1, <1>7 DEF IInv, TypeOK, BlocksFit, Shape, Kept, Refused, caller
<1> QED BY <1>5, <1>6, <1>7 DEF Property

LEMMA FinishStep ==
  ASSUME IInv, Finish
  PROVE  IInv' /\ Kept
<1> DEFINE c == Call("finish", <<>>, <<>>)
           size == size_dt_struct + 1
           newstroffset == off_dt_struct + size
           w == Written(mem, newstroffset - 1, <<Cell("end", 0, 0)>>)
           m == Moved(w, totalsize - size_dt_strings, newstroffset, size_dt_strings)
<1>1. TypeOK /\ BlocksFit /\ Shape
  BY DEF IInv
<1>2. /\ magic = "SW" /\ depth = 0 /\ size_dt_struct > 0
      /\ UNCHANGED <<off_dt_struct, size_dt_strings, caller>>
  BY DEF Finish
<1>3. mapped
  BY <1>1, <1>2, Numbers DEF Shape
<1>4. off_dt_struct + size_dt_struct + size_dt_strings <= totalsize /\ off_dt_struct > RsvOffset
  BY <1>1, <1>2, <1>3 DEF BlocksFit, Shape
<1>5. /\ mem \in Memory /\ size_dt_strings \in Nat /\ totalsize \in Nat /\ size_dt_struct \in Nat
      /\ off_dt_struct \in Nat /\ totalsize <= MaxSize /\ MaxSize \in Nat /\ RsvOffset \in Nat
      /\ HeaderSize \in Nat
  BY <1>1, Numbers
<1>6. CASE /\ Refused(c)
           /\ UNCHANGED <<mem, magic, totalsize, size_dt_struct, off_dt_strings>>
  BY <1>1, <1>2, <1>6 DEF IInv, TypeOK, BlocksFit, Shape, Kept, Refused, caller
<1>7. CASE /\ Room(size_dt_strings, 1) /\ Accepted(c)
           /\ mem' = [p \in DOMAIN m |->
                        IF p \in PropsAt(m, size) THEN [m[p] EXCEPT !.x = @ + size_dt_strings]
                        ELSE m[p]]
           /\ magic' = "FDT" /\ size_dt_struct' = size
           /\ off_dt_strings' = newstroffset /\ totalsize' = newstroffset + size_dt_strings
  <2>1. newstroffset + size_dt_strings <= totalsize
    <3>1. off_dt_struct + size_dt_struct + 1 + size_dt_strings <= totalsize
      BY <1>2, <1>3, <1>4, <1>5, <1>7, RoomFits
    <3> QED BY <1>5, <3>1
  <2>2. m \in Memory
    <3>1. <<Cell("end", 0, 0)>> \in Seq(Cells) /\ newstroffset - 1 \in Int
      BY <1>5, CellType DEF Tags
    <3>2. w \in Memory
      BY <1>5, <3>1, WrittenType
    <3>3. /\ totalsize - size_dt_strings \in Nat /\ newstroffset \in Nat
          /\ totalsize - size_dt_strings + size_dt_strings <= MaxSize
      BY <1>5, <2>1
    <3> HIDE DEF w
    <3> QED BY <1>5, <3>2, <3>3, MovedType
  <2>3. mem' \in Memory
    <3>1. ASSUME NEW p \in 0 .. MaxSize - 1
          PROVE  m[p] \in Cells /\ [m[p] EXCEPT !.x = @ + size_dt_strings] \in Cells
      <4>1. m[p] \in Cells
        BY <2>2 DEF Memory
      <4> HIDE DEF m
      <4> QED BY <1>5, <4>1 DEF Cells
    <3>2. DOMAIN m = 0 .. MaxSize - 1
      BY <2>2 DEF Memory
    <3> HIDE DEF m, size
    <3> QED BY <1>7, <3>1, <3>2 DEF Memory
  <2>4. /\ totalsize' \in HeaderSize .. MaxSize
        /\ size_dt_struct' \in 0 .. MaxSize /\ off_dt_strings' \in 0 .. MaxSize
    BY SMTT(40), <1>4, <1>5, <1>7, <2>1, FdtSwAssumption
  <2>5. TypeOK'
    BY <1>1, <1>2, <1>7, <2>3, <2>4 DEF TypeOK, Memory, Cells, Accepted, caller
  <2>6. BlocksFit' /\ Shape'
    BY <1>2, <1>5, <1>7 DEF BlocksFit, Shape, caller
  <2> QED BY <1>7, <2>5, <2>6 DEF IInv, Kept
<1> QED BY <1>6, <1>7 DEF Finish

\* Every step keeps the invariant and what was written.
LEMMA NextStep == IInv /\ [Next]_vars => IInv' /\ Kept
<1> SUFFICES ASSUME IInv, [Next]_vars PROVE IInv' /\ Kept
  OBVIOUS
<1>1. ASSUME NEW n \in 0 .. MaxSize, Create(n) \/ Resize(n) PROVE IInv' /\ Kept
  BY <1>1, CreateStep, ResizeStep
<1>2. ASSUME NEW e \in Entries, AddReservemapEntry(e) PROVE IInv' /\ Kept
  BY <1>2, AddEntryStep DEF AddReservemapEntry
<1>3. ASSUME FinishReservemap PROVE IInv' /\ Kept
  BY <1>3, AddEntryStep DEF FinishReservemap
<1>4. ASSUME EndNode \/ Finish PROVE IInv' /\ Kept
  BY <1>4, EndNodeStep, FinishStep
<1>5. ASSUME NEW n \in NodeNames, BeginNode(n) PROVE IInv' /\ Kept
  BY <1>5, BeginNodeStep
<1>6. ASSUME NEW n \in Names, NEW v \in Values, Property(n, v) PROVE IInv' /\ Kept
  BY <1>6, PropertyStep
<1>7. ASSUME UNCHANGED vars PROVE IInv' /\ Kept
  BY <1>7 DEF IInv, TypeOK, BlocksFit, Shape, Kept, vars, header, caller
<1> QED BY <1>1, <1>2, <1>3, <1>4, <1>5, <1>6, <1>7 DEF Next

(***************************************************************************)
(* The invariant of the writer, for any buffer, header, names and values.  *)
(***************************************************************************)
THEOREM Invariant == Spec => []IInv
<1>1. Init => IInv
  BY InitInv
<1>2. IInv /\ [Next]_vars => IInv'
  BY NextStep
<1> QED BY <1>1, <1>2, PTL DEF Spec

(***************************************************************************)
(* Header fields, memory and calls keep their types (fdt_sw.c).            *)
(***************************************************************************)
THEOREM TypeCorrect == Spec => []TypeOK
<1>1. IInv => TypeOK
  BY DEF IInv
<1> QED BY <1>1, Invariant, PTL

(***************************************************************************)
(* The checks of _fdt_grab_space, fdt_add_reservemap_entry and             *)
(* _fdt_find_add_string together keep the blocks apart in any buffer, in   *)
(* spite of their unsigned arithmetic.                                     *)
(***************************************************************************)
THEOREM BlocksFitHolds == Spec => []BlocksFit
<1>1. IInv => BlocksFit
  BY DEF IInv
<1> QED BY <1>1, Invariant, PTL

(***************************************************************************)
(* No call before fdt_finish, and no growth of the buffer, disturbs a cell *)
(* of the reserve map, the structure or the strings.                       *)
(***************************************************************************)
THEOREM BlocksKeptHolds == Spec => BlocksKept
<1>1. IInv /\ [Next]_vars => [Kept]_vars
  BY NextStep
<1>2. Kept <=>
        (magic = "SW" /\ magic' = "SW" =>
          /\ \A p \in RsvOffset .. off_dt_struct + size_dt_struct - 1 : mem'[p] = mem[p]
          /\ \A k \in 1 .. size_dt_strings : mem'[totalsize' - k] = mem[totalsize - k])
  BY DEF Kept
<1> QED BY <1>1, <1>2, Invariant, PTL DEF Spec, BlocksKept
-----------------------------------------------------------------------------
(***************************************************************************)
(* That the writer implements FdtStream.  Strings, tokens and the walk of  *)
(* fdt_finish are recursive; what they are for a memory is shown once from *)
(* a least counterexample (Upwards), and used through RInv, the places of  *)
(* the tokens that lead to the end of the structure.                       *)
(***************************************************************************)
\* A nonempty set of numbers has a least one.
LEMMA LeastOne ==
  ASSUME NEW S \in SUBSET Nat, S # {}
  PROVE  \E x \in S : \A y \in S : x <= y
<1>1. PICK x \in S : \A y \in S : ~(<<y, x>> \in OpToRel(<, Nat))
  BY NatLessThanWellFounded, WFMin
<1>2. ASSUME NEW y \in S PROVE x <= y
  <2>1. <<y, x>> \in Nat \X Nat  OBVIOUS
  <2>2. ~(y < x)  BY <1>1, <2>1 DEF OpToRel
  <2> QED BY <2>2
<1> QED BY <1>2

\* A set that has the successor of each of its members up to n has n.
LEMMA Upwards ==
  ASSUME NEW n \in Nat, NEW S, 0 \in S, \A k \in 0 .. n - 1 : k \in S => k + 1 \in S
  PROVE  \A k \in 0 .. n : k \in S
<1> DEFINE T == {k \in 0 .. n : k \notin S}
<1> SUFFICES ASSUME T # {} PROVE FALSE
  OBVIOUS
<1>1. T \in SUBSET Nat  OBVIOUS
<1>2. PICK x \in T : \A y \in T : x <= y
  <2> HIDE DEF T
  <2> QED BY <1>1, LeastOne
<1>3. x \in 0 .. n /\ x \notin S /\ x # 0  BY <1>2
<1>4. x - 1 \in 0 .. n - 1 /\ x - 1 \in 0 .. n /\ x - 1 + 1 = x /\ ~(x <= x - 1)  BY <1>3
<1>5. x - 1 \in S  BY <1>2, <1>4
<1> QED BY <1>3, <1>4, <1>5

\* Sequences that agree everywhere are one.
LEMMA SameSeq ==
  ASSUME NEW T, NEW a \in Seq(T), NEW b \in Seq(T), Len(a) = Len(b), \A i \in 1 .. Len(a) : a[i] = b[i]
  PROVE  a = b
OBVIOUS

\* A function defined by its values further up: it exists, by the same argument.
IsRecursive(f, a, z, Stop, base, head, next) ==
  f = [p \in a .. z |-> IF p \in Stop THEN base[p] ELSE head[p] \o f[next[p]]]

\* There is such a function.
LEMMA Recursion ==
  ASSUME NEW a \in Nat, NEW z \in Nat, a <= z + 1, NEW Stop, NEW base, NEW head, NEW next,
         \A p \in a .. z : p \notin Stop => next[p] \in p + 1 .. z
  PROVE  \E f : IsRecursive(f, a, z, Stop, base, head, next)
<1> DEFINE Is(f, k) == f = [p \in z + 1 - k .. z |-> IF p \in Stop THEN base[p] ELSE head[p] \o f[next[p]]]
           S == {k \in Nat : \E f : Is(f, k)}
<1>1. 0 \in S
  <2> DEFINE f == [p \in z + 1 - 0 .. z |-> 0]
  <2>1. z + 1 - 0 .. z = {}  OBVIOUS
  <2>2. Is(f, 0)  BY <2>1
  <2> QED BY <2>2
<1>2. ASSUME NEW k \in 0 .. z + 1 - a - 1, k \in S PROVE k + 1 \in S
  <2>1. PICK f : Is(f, k)  BY <1>2
  <2> DEFINE o == z + 1 - (k + 1)
             g == [p \in o .. z |-> IF p = o THEN IF p \in Stop THEN base[p] ELSE head[p] \o f[next[p]]
                                    ELSE f[p]]
  <2>2. o \in a .. z /\ z + 1 - k = o + 1 /\ k + 1 \in Nat  OBVIOUS
  <2>3. ASSUME NEW p \in o .. z
        PROVE  g[p] = IF p \in Stop THEN base[p] ELSE head[p] \o g[next[p]]
    <3>1. p \in a .. z  BY <2>2
    <3>2. p \notin Stop => next[p] \in o + 1 .. z /\ next[p] \in o .. z /\ next[p] # o
      BY <2>2, <3>1
    <3>3. p \notin Stop => g[next[p]] = f[next[p]]
      <4> HIDE DEF o
      <4> QED BY <3>2
    <3>4. CASE p = o
      <4> HIDE DEF o
      <4> QED BY <3>3, <3>4
    <3>5. CASE p # o
      <4>1. p \in z + 1 - k .. z  BY <2>2, <3>5
      <4>2. f[p] = IF p \in Stop THEN base[p] ELSE head[p] \o f[next[p]]  BY <2>1, <4>1
      <4> HIDE DEF o
      <4> QED BY <3>3, <3>5, <4>2
    <3> QED BY <3>4, <3>5
  <2>4. Is(g, k + 1)
    <3>1. g = [p \in o .. z |-> g[p]]  OBVIOUS
    <3> HIDE DEF g
    <3>2. g = [p \in o .. z |-> IF p \in Stop THEN base[p] ELSE head[p] \o g[next[p]]]
      <4> HIDE DEF o
      <4> QED BY <2>3, <3>1
    <3> QED BY <3>2
  <2> QED BY <2>2, <2>4
<1>3. z + 1 - a \in Nat /\ z + 1 - a \in 0 .. z + 1 - a  OBVIOUS
<1>4. z + 1 - a \in S
  <2> HIDE DEF S
  <2> QED BY <1>1, <1>2, <1>3, Upwards
<1>5. PICK f : Is(f, z + 1 - a)  BY <1>4
<1>6. z + 1 - (z + 1 - a) = a  OBVIOUS
<1> QED BY <1>5, <1>6 DEF IsRecursive

\* The same for a function that gathers a set.
IsGathering(f, a, z, Stop, set, next) ==
  f = [p \in a .. z |-> IF p \in Stop THEN {} ELSE f[next[p]] \cup set[p]]

\* There is such a function.
LEMMA Gathering ==
  ASSUME NEW a \in Nat, NEW z \in Nat, a <= z + 1, NEW Stop, NEW set, NEW next,
         \A p \in a .. z : p \notin Stop => next[p] \in p + 1 .. z
  PROVE  \E f : IsGathering(f, a, z, Stop, set, next)
<1> DEFINE Is(f, k) == f = [p \in z + 1 - k .. z |-> IF p \in Stop THEN {} ELSE f[next[p]] \cup set[p]]
           S == {k \in Nat : \E f : Is(f, k)}
<1>1. 0 \in S
  <2> DEFINE f == [p \in z + 1 - 0 .. z |-> 0]
  <2>1. z + 1 - 0 .. z = {}  OBVIOUS
  <2>2. Is(f, 0)  BY <2>1
  <2> QED BY <2>2
<1>2. ASSUME NEW k \in 0 .. z + 1 - a - 1, k \in S PROVE k + 1 \in S
  <2>1. PICK f : Is(f, k)  BY <1>2
  <2> DEFINE o == z + 1 - (k + 1)
             g == [p \in o .. z |-> IF p = o THEN IF p \in Stop THEN {} ELSE f[next[p]] \cup set[p]
                                    ELSE f[p]]
  <2>2. o \in a .. z /\ z + 1 - k = o + 1 /\ k + 1 \in Nat  OBVIOUS
  <2>3. ASSUME NEW p \in o .. z
        PROVE  g[p] = IF p \in Stop THEN {} ELSE g[next[p]] \cup set[p]
    <3>1. p \in a .. z  BY <2>2
    <3>2. p \notin Stop => next[p] \in o + 1 .. z /\ next[p] \in o .. z /\ next[p] # o
      BY <2>2, <3>1
    <3>3. p \notin Stop => g[next[p]] = f[next[p]]
      <4> HIDE DEF o
      <4> QED BY <3>2
    <3>4. CASE p = o
      <4> HIDE DEF o
      <4> QED BY <3>3, <3>4
    <3>5. CASE p # o
      <4>1. p \in z + 1 - k .. z  BY <2>2, <3>5
      <4>2. f[p] = IF p \in Stop THEN {} ELSE f[next[p]] \cup set[p]  BY <2>1, <4>1
      <4> HIDE DEF o
      <4> QED BY <3>3, <3>5, <4>2
    <3> QED BY <3>4, <3>5
  <2>4. Is(g, k + 1)
    <3>1. g = [p \in o .. z |-> g[p]]  OBVIOUS
    <3> HIDE DEF g
    <3>2. g = [p \in o .. z |-> IF p \in Stop THEN {} ELSE g[next[p]] \cup set[p]]
      <4> HIDE DEF o
      <4> QED BY <2>3, <3>1
    <3> QED BY <3>2
  <2> QED BY <2>2, <2>4
<1>3. z + 1 - a \in Nat /\ z + 1 - a \in 0 .. z + 1 - a  OBVIOUS
<1>4. z + 1 - a \in S
  <2> HIDE DEF S
  <2> QED BY <1>1, <1>2, <1>3, Upwards
<1>5. PICK f : Is(f, z + 1 - a)  BY <1>4
<1>6. z + 1 - (z + 1 - a) = a  OBVIOUS
<1> QED BY <1>5, <1>6 DEF IsGathering

\* A recursive function that puts v[i] before what it makes of the next place, at the places q[i].
FirstOf(v, n) == [i \in 1 .. n |-> v[i]]
Cons(x, s) == <<x>> \o s
Chain(n, f, q, v) ==
  n \in Nat /\ f[q[n + 1]] = <<>> /\ \A i \in 1 .. n : f[q[i]] = Cons(v[i], f[q[i + 1]])

\* It makes the sequence of the v[i].
LEMMA Assembled ==
  ASSUME NEW n, NEW f, NEW q, NEW v, Chain(n, f, q, v)
  PROVE  f[q[1]] = FirstOf(v, n)
<1> DEFINE Rest(k) == [j \in 1 .. k |-> v[n - k + j]]
           S == {k \in 0 .. n : f[q[n + 1 - k]] = Rest(k)}
           T == {v[i] : i \in 1 .. n}
<1>0. n \in Nat /\ f[q[n + 1]] = <<>> /\ \A i \in 1 .. n : f[q[i]] = Cons(v[i], f[q[i + 1]])
  BY DEF Chain
<1> n \in Nat  BY <1>0
<1>1. 0 \in S
  <2>1. n + 1 - 0 = n + 1 /\ 0 \in 0 .. n /\ Rest(0) = <<>>  OBVIOUS
  <2> QED BY <1>0, <2>1
<1>2. ASSUME NEW k \in 0 .. n - 1, k \in S PROVE k + 1 \in S
  <2>1. /\ n - k \in 1 .. n /\ n + 1 - (k + 1) = n - k /\ n + 1 - k = n - k + 1 /\ k + 1 \in 0 .. n
    OBVIOUS
  <2>2. f[q[n - k]] = <<v[n - k]>> \o Rest(k)
    <3>1. f[q[n - k]] = <<v[n - k]>> \o f[q[n - k + 1]]  BY <1>0, <2>1 DEF Cons
    <3>2. f[q[n - k + 1]] = Rest(k)  BY <1>2, <2>1
    <3> QED BY <3>1, <3>2
  <2>3. ASSUME NEW l \in 0 .. n PROVE Rest(l) \in Seq(T) /\ Len(Rest(l)) = l
    <3>1. \A j \in 1 .. l : n - l + j \in 1 .. n  OBVIOUS
    <3>2. \A j \in 1 .. l : v[n - l + j] \in T  BY <3>1
    <3> HIDE DEF T
    <3> QED BY <3>2
  <2>4. v[n - k] \in T  BY <2>1
  <2>5. <<v[n - k]>> \o Rest(k) = Rest(k + 1)
    <3>1. k \in 0 .. n /\ k + 1 \in 0 .. n /\ k \in Nat  OBVIOUS
    <3>2. <<v[n - k]>> \o Rest(k) \in Seq(T) /\ Len(<<v[n - k]>> \o Rest(k)) = k + 1
      <4> HIDE DEF Rest, T
      <4> QED BY <2>3, <2>4, <3>1
    <3>3. ASSUME NEW j \in 1 .. k + 1 PROVE (<<v[n - k]>> \o Rest(k))[j] = Rest(k + 1)[j]
      <4>1. CASE j = 1
        <5>1. n - (k + 1) + 1 = n - k  OBVIOUS
        <5>2. Rest(k + 1)[j] = v[n - k]  BY <4>1, <5>1
        <5> HIDE DEF Rest, T
        <5> QED BY <2>3, <2>4, <3>1, <4>1, <5>2
      <4>2. CASE j # 1
        <5>1. j - 1 \in 1 .. k /\ n - (k + 1) + j = n - k + (j - 1)  BY <4>2
        <5>2. Rest(k + 1)[j] = v[n - k + (j - 1)] /\ Rest(k)[j - 1] = v[n - k + (j - 1)]  BY <5>1
        <5> HIDE DEF Rest, T
        <5>3. (<<v[n - k]>> \o Rest(k))[j] = Rest(k)[j - 1]  BY <2>3, <2>4, <3>1, <4>2, <5>1
        <5> QED BY <5>2, <5>3
      <4> QED BY <4>1, <4>2
    <3> HIDE DEF Rest, T
    <3> QED BY <2>3, <3>1, <3>2, <3>3, SameSeq
  <2> HIDE DEF Rest
  <2> QED BY <2>1, <2>2, <2>5
<1>3. n \in S
  <2>1. n \in 0 .. n  OBVIOUS
  <2> HIDE DEF S
  <2> QED BY <1>1, <1>2, <2>1, Upwards
<1>4. f[q[1]] = Rest(n)
  <2>1. n + 1 - n = 1  OBVIOUS
  <2> QED BY <1>3, <2>1
<1>5. \A j \in 1 .. n : n - n + j = j  OBVIOUS
<1> QED BY <1>4, <1>5 DEF FirstOf

\* StringAt of any memory.
StrRest(m) ==
  CHOOSE Rest : Rest = [p \in 0 .. MaxSize |->
    IF p \notin DOMAIN m \/ m[p] = Zero THEN <<>> ELSE <<m[p].x>> \o Rest[p + 1]]
Str(m, at) == IF at \in DOMAIN m THEN StrRest(m)[at] ELSE <<-1>>

\* The string s, ended by its NUL, lies at at.
Reads(m, at, s) ==
  /\ s \in Seq(Int) /\ at \in Nat /\ at + Len(s) < MaxSize
  /\ \A i \in 1 .. Len(s) : m[at + i - 1] # Zero /\ m[at + i - 1].x = s[i]
  /\ m[at + Len(s)] = Zero

\* The recursion in it is one.
LEMMA StrRestIs ==
  ASSUME NEW m \in Memory
  PROVE  \A p \in 0 .. MaxSize :
           StrRest(m)[p] = IF p \notin DOMAIN m \/ m[p] = Zero THEN <<>>
                           ELSE <<m[p].x>> \o StrRest(m)[p + 1]
<1> DEFINE Stop == {p \in 0 .. MaxSize : p \notin DOMAIN m \/ m[p] = Zero}
           base == [p \in 0 .. MaxSize |-> <<>>]
           head == [p \in 0 .. MaxSize |-> <<m[p].x>>]
           next == [p \in 0 .. MaxSize |-> p + 1]
           Is(f) == f = [p \in 0 .. MaxSize |-> IF p \notin DOMAIN m \/ m[p] = Zero THEN <<>>
                                                ELSE <<m[p].x>> \o f[p + 1]]
<1>1. MaxSize \in Nat /\ 0 \in Nat /\ 0 <= MaxSize + 1  BY FdtSwAssumption
<1>2. \A p \in 0 .. MaxSize : p \notin Stop => next[p] \in p + 1 .. MaxSize
  <2>1. MaxSize \notin DOMAIN m  BY <1>1 DEF Memory
  <2>2. \A p \in 0 .. MaxSize : p \notin Stop => p # MaxSize  BY <2>1
  <2>3. \A p \in 0 .. MaxSize : p # MaxSize => p + 1 \in p + 1 .. MaxSize  BY <1>1
  <2> QED BY <2>2, <2>3
<1>3. \E f : IsRecursive(f, 0, MaxSize, Stop, base, head, next)
  <2> HIDE DEF Stop, base, head, next
  <2> QED BY <1>1, <1>2, Recursion
<1>4. PICK f : IsRecursive(f, 0, MaxSize, Stop, base, head, next)
  BY <1>3
<1>5. Is(f)
  <2>1. ASSUME NEW p \in 0 .. MaxSize
        PROVE  (IF p \in Stop THEN base[p] ELSE head[p] \o f[next[p]])
               = (IF p \notin DOMAIN m \/ m[p] = Zero THEN <<>> ELSE <<m[p].x>> \o f[p + 1])
    OBVIOUS
  <2> HIDE DEF Stop, base, head, next
  <2> QED BY <1>4, <2>1 DEF IsRecursive
<1>6. Is(StrRest(m))
  <2>1. \E g : Is(g)  BY <1>5
  <2> QED BY <2>1 DEF StrRest
<1> QED BY <1>6

\* What is read at a string is the string.
LEMMA StrIs ==
  ASSUME NEW m \in Memory, NEW at, NEW s, Reads(m, at, s)
  PROVE  Str(m, at) = s
<1> DEFINE n == Len(s)
           q == [i \in 1 .. n + 1 |-> at + i - 1]
           f == StrRest(m)
<1>1. s \in Seq(Int) /\ n \in Nat /\ at \in Nat /\ MaxSize \in Nat /\ at + n < MaxSize
      /\ DOMAIN m = 0 .. MaxSize - 1
  BY FdtSwAssumption DEF Reads, Memory
<1>2. f[q[n + 1]] = <<>>
  <2>1. q[n + 1] = at + n  BY <1>1
  <2>2. at + n \in 0 .. MaxSize /\ m[at + n] = Zero  BY <1>1 DEF Reads
  <2> QED BY <2>1, <2>2, StrRestIs
<1>3. ASSUME NEW i \in 1 .. n PROVE f[q[i]] = Cons(s[i], f[q[i + 1]])
  <2>1. q[i] = at + i - 1 /\ q[i + 1] = at + i - 1 + 1  BY <1>1
  <2>2. at + i - 1 \in 0 .. MaxSize /\ at + i - 1 \in DOMAIN m  BY <1>1
  <2>3. m[at + i - 1] # Zero /\ m[at + i - 1].x = s[i]  BY <1>1 DEF Reads
  <2> HIDE DEF q, f
  <2> QED BY <2>1, <2>2, <2>3, StrRestIs DEF f, Cons
<1>4. f[q[1]] = FirstOf(s, n)
  <2>1. n \in Nat  BY <1>1
  <2> HIDE DEF f, q, n
  <2>2. Chain(n, f, q, s)  BY <2>1, <1>2, <1>3 DEF Chain
  <2> QED BY <2>2, Assembled
<1>5. q[1] = at /\ at \in DOMAIN m  BY <1>1
<1>6. FirstOf(s, n) = s  BY <1>1 DEF FirstOf
<1> QED BY <1>4, <1>5, <1>6 DEF Str
-----------------------------------------------------------------------------
\* TokenAt and TokensNow of any memory.
TokenIn(m, base, p) ==
  CASE m[p].tag = "prop" ->
         Call("prop", Str(m, base + m[p].x), [i \in 1 .. m[p].y |-> m[p + i].x])
    [] m[p].tag = "begin" -> Call("begin", <<m[p].x>>, <<>>)
    [] OTHER -> Call(m[p].tag, <<>>, <<>>)

TokensRest(m, base, off, top) ==
  CHOOSE Rest : Rest = [p \in off .. top |->
    IF p = top \/ p \notin DOMAIN m \/ m[p].tag = "end" THEN <<>>
    ELSE IF p + NextTag(m[p]) > top THEN <<Call("truncated", <<>>, <<>>)>>
    ELSE <<TokenIn(m, base, p)>> \o Rest[p + NextTag(m[p])]]

\* They are those of FdtSw, before and after a step.
LEMMA TokensNowAre ==
  TokensNow = TokensRest(mem, off_dt_strings, off_dt_struct, off_dt_struct + size_dt_struct)[off_dt_struct]
BY DEF TokensNow, TokensRest, TokenAt, TokenIn, StringAt, Str, StrRest

\* After it.
LEMMA TokensNextAre ==
  TokensNow' =
    TokensRest(mem', off_dt_strings', off_dt_struct', off_dt_struct' + size_dt_struct')[off_dt_struct']
BY DEF TokensNow, TokensRest, TokenAt, TokenIn, StringAt, Str, StrRest

\* Every tag takes a cell at least.
LEMMA NextTagIs == \A c \in Cells : NextTag(c) \in Nat /\ NextTag(c) >= 1
BY DEF NextTag, Cells

\* The recursion in TokensRest is one.
LEMMA TokensRestIs ==
  ASSUME NEW m \in Memory, NEW base, NEW off \in Nat, NEW top \in Nat, off <= top,
         NEW p \in off .. top
  PROVE  /\ p = top \/ p \notin DOMAIN m \/ m[p].tag = "end" => TokensRest(m, base, off, top)[p] = <<>>
         /\ p # top /\ p \in DOMAIN m /\ m[p].tag # "end" /\ p + NextTag(m[p]) <= top =>
              TokensRest(m, base, off, top)[p] =
                Cons(TokenIn(m, base, p), TokensRest(m, base, off, top)[p + NextTag(m[p])])
<1> DEFINE Ends(x) == x = top \/ x \notin DOMAIN m \/ m[x].tag = "end"
           Cut(x) == x + NextTag(m[x]) > top
           Stop == {x \in off .. top : Ends(x) \/ Cut(x)}
           first == [x \in off .. top |-> IF Ends(x) THEN <<>> ELSE <<Call("truncated", <<>>, <<>>)>>]
           head == [x \in off .. top |-> <<TokenIn(m, base, x)>>]
           next == [x \in off .. top |-> x + NextTag(m[x])]
           Is(f) == f = [x \in off .. top |->
                           IF Ends(x) THEN <<>>
                           ELSE IF Cut(x) THEN <<Call("truncated", <<>>, <<>>)>>
                           ELSE <<TokenIn(m, base, x)>> \o f[x + NextTag(m[x])]]
<1>1. off <= top + 1  OBVIOUS
<1>2. \A x \in off .. top : x \notin Stop => next[x] \in x + 1 .. top
  <2> SUFFICES ASSUME NEW x \in off .. top, x \notin Stop PROVE next[x] \in x + 1 .. top
    OBVIOUS
  <2>1. ~Ends(x) /\ ~Cut(x)  OBVIOUS
  <2>2. m[x] \in Cells  BY <2>1 DEF Memory
  <2>3. NextTag(m[x]) \in Nat /\ NextTag(m[x]) >= 1  BY <2>2, NextTagIs
  <2>4. x + NextTag(m[x]) <= top  BY <2>1, <2>3
  <2> QED BY <2>3, <2>4
<1>3. \E f : IsRecursive(f, off, top, Stop, first, head, next)
  <2> HIDE DEF Stop, first, head, next
  <2> QED BY <1>1, <1>2, Recursion
<1>4. PICK f : IsRecursive(f, off, top, Stop, first, head, next)  BY <1>3
<1>5. Is(f)
  <2>1. ASSUME NEW x \in off .. top
        PROVE  (IF x \in Stop THEN first[x] ELSE head[x] \o f[next[x]])
               = (IF Ends(x) THEN <<>>
                  ELSE IF Cut(x) THEN <<Call("truncated", <<>>, <<>>)>>
                  ELSE <<TokenIn(m, base, x)>> \o f[x + NextTag(m[x])])
    OBVIOUS
  <2> HIDE DEF Stop, first, head, next
  <2> QED BY <1>4, <2>1 DEF IsRecursive
<1>6. Is(TokensRest(m, base, off, top))
  <2>1. \E g : Is(g)  BY <1>5
  <2> QED BY <2>1 DEF TokensRest
<1>7. TokensRest(m, base, off, top)[p] =
        IF Ends(p) THEN <<>>
        ELSE IF Cut(p) THEN <<Call("truncated", <<>>, <<>>)>>
        ELSE Cons(TokenIn(m, base, p), TokensRest(m, base, off, top)[p + NextTag(m[p])])
  BY <1>6 DEF Cons
<1>8. p \in DOMAIN m => NextTag(m[p]) \in Nat
  BY NextTagIs DEF Memory
<1>9. p \in DOMAIN m /\ p + NextTag(m[p]) <= top => ~Cut(p)
  BY <1>8
<1> QED BY <1>7, <1>9

\* n tags, at the places pos, lead from off to z; what lies behind the header of
\* a property is its value, and its name is a string of the strs cells below base.
Walks(m, off, z, pos, n) ==
  /\ n \in Nat /\ pos \in [1 .. n + 1 -> Nat] /\ pos[1] = off /\ pos[n + 1] = z
  /\ \A i \in 1 .. n :
       /\ off <= pos[i] /\ pos[i + 1] = pos[i] + NextTag(m[pos[i]])
       /\ pos[i] < pos[i + 1] /\ pos[i + 1] <= z /\ z <= MaxSize
       /\ m[pos[i]].tag \in {"begin", "end_node", "prop"}

Named(m, lo, hi, at) == \E s \in Seq(Int) : Reads(m, at, s) /\ lo <= at /\ at + Len(s) < hi

Holds(m, off, z, base, strs, pos, n) ==
  /\ Walks(m, off, z, pos, n)
  /\ \A i \in 1 .. n : m[pos[i]].tag = "prop" =>
       /\ Named(m, base - strs, base, base + m[pos[i]].x)
       /\ \A k \in 1 .. m[pos[i]].y : m[pos[i] + k].tag = "data"

\* Its tokens.
Tokens(m, base, pos, n) == [i \in 1 .. n |-> TokenIn(m, base, pos[i])]

\* Such a structure is read as the tokens at its places.
LEMMA TokensAre ==
  ASSUME NEW m \in Memory, NEW base, NEW off \in Nat, NEW top \in Nat, NEW z \in Nat,
         NEW pos, NEW n, Walks(m, off, z, pos, n),
         z = top \/ (z < top /\ z < MaxSize /\ m[z].tag = "end"), off <= z
  PROVE  TokensRest(m, base, off, top)[off] = [i \in 1 .. n |-> TokenIn(m, base, pos[i])]
<1> DEFINE f == TokensRest(m, base, off, top)
           v == [i \in 1 .. n |-> TokenIn(m, base, pos[i])]
<1>1. n \in Nat /\ pos[1] = off /\ pos[n + 1] = z /\ off <= top /\ MaxSize \in Nat
      /\ DOMAIN m = 0 .. MaxSize - 1
  BY FdtSwAssumption DEF Walks, Memory
<1>2. f[pos[n + 1]] = <<>>
  <2>1. z \in off .. top  BY <1>1
  <2>2. z = top \/ z \notin DOMAIN m \/ m[z].tag = "end"  OBVIOUS
  <2>3. f[z] = <<>>
    <3> HIDE DEF f
    <3> QED BY <1>1, <2>1, <2>2, TokensRestIs DEF f
  <2> QED BY <1>1, <2>3
<1>3. ASSUME NEW i \in 1 .. n PROVE f[pos[i]] = Cons(v[i], f[pos[i + 1]])
  <2>1. /\ i \in 1 .. n + 1 /\ i + 1 \in 1 .. n + 1  BY <1>1
  <2>2. /\ pos[i] \in Nat /\ pos[i + 1] \in Nat /\ off <= pos[i]
        /\ pos[i + 1] = pos[i] + NextTag(m[pos[i]]) /\ pos[i] < pos[i + 1] /\ pos[i + 1] <= z
        /\ z <= MaxSize /\ m[pos[i]].tag \in {"begin", "end_node", "prop"}
    BY <2>1 DEF Walks
  <2> DEFINE p == pos[i]
  <2>3. p \in off .. top /\ p # top /\ p \in DOMAIN m /\ m[p].tag # "end"
    BY <1>1, <2>2
  <2>4. p + NextTag(m[p]) <= top
    BY <1>1, <2>2
  <2>5. f[p] = Cons(TokenIn(m, base, p), f[p + NextTag(m[p])])
    <3> HIDE DEF p
    <3> QED BY <1>1, <2>3, <2>4, TokensRestIs
  <2>6. v[i] = TokenIn(m, base, p)  OBVIOUS
  <2> HIDE DEF v, f
  <2> QED BY <2>2, <2>5, <2>6
<1>4. f[pos[1]] = FirstOf(v, n)
  <2>1. n \in Nat  BY <1>1
  <2> HIDE DEF f, v
  <2>2. Chain(n, f, pos, v)  BY <2>1, <1>2, <1>3 DEF Chain
  <2> QED BY <2>2, Assembled
<1>5. FirstOf(v, n) = v  BY DEF FirstOf
<1> QED BY <1>1, <1>4, <1>5

\* The cells from lo to hi - 1 of one memory lie d further up in another.
Shifted(m, m2, lo, hi, d) == \A p \in lo .. hi - 1 : m2[p + d] = m[p]

\* A string, and what is read of it, in such a memory.
LEMMA NamedMoved ==
  ASSUME NEW m \in Memory, NEW m2 \in Memory, NEW lo \in Int, NEW hi \in Int, NEW at \in Int, NEW d \in Int,
         Named(m, lo, hi, at), lo + d >= 0, hi + d <= MaxSize,
         Shifted(m, m2, lo, hi, d)
  PROVE  Named(m2, lo + d, hi + d, at + d) /\ Str(m2, at + d) = Str(m, at)
<1>1. PICK s \in Seq(Int) : Reads(m, at, s) /\ lo <= at /\ at + Len(s) < hi  BY DEF Named
<1>2. Len(s) \in Nat /\ MaxSize \in Nat /\ at + d \in Nat /\ at + d + Len(s) < MaxSize
  <2>1. Len(s) \in Nat /\ MaxSize \in Nat  BY FdtSwAssumption
  <2>2. lo <= at /\ at + Len(s) < hi  BY <1>1
  <2> QED BY <2>1, <2>2
<1>3. lo <= at /\ at + Len(s) < hi  BY <1>1
<1>4. ASSUME NEW i \in 1 .. Len(s) PROVE m2[at + d + i - 1] # Zero /\ m2[at + d + i - 1].x = s[i]
  <2>1. at + i - 1 \in lo .. hi - 1 /\ at + i - 1 + d = at + d + i - 1  BY <1>2, <1>3
  <2>2. m[at + i - 1] # Zero /\ m[at + i - 1].x = s[i]  BY <1>1 DEF Reads
  <2> QED BY <2>1, <2>2 DEF Shifted
<1>5. m2[at + d + Len(s)] = Zero
  <2>1. at + Len(s) \in lo .. hi - 1 /\ at + Len(s) + d = at + d + Len(s)  BY <1>2, <1>3
  <2>2. m[at + Len(s)] = Zero  BY <1>1 DEF Reads
  <2> QED BY <2>1, <2>2 DEF Shifted
<1>6. Reads(m2, at + d, s)
  BY <1>2, <1>4, <1>5 DEF Reads
<1>7. lo + d <= at + d /\ at + d + Len(s) < hi + d  BY <1>2, <1>3
<1>8. Str(m2, at + d) = s /\ Str(m, at) = s  BY <1>1, <1>6, StrIs
<1> QED BY <1>6, <1>7, <1>8 DEF Named

\* Tokens that say the same, with their names and values.
Alike(m, base, m2, base2, p) ==
  /\ m2[p].tag = m[p].tag /\ m2[p].y = m[p].y
  /\ m[p].tag # "prop" => m2[p].x = m[p].x
  /\ m[p].tag = "prop" => /\ Str(m2, base2 + m2[p].x) = Str(m, base + m[p].x)
                          /\ \A k \in 1 .. m[p].y : m2[p + k].x = m[p + k].x

AllAlike(m, base, m2, base2, pos, n) == \A i \in 1 .. n : Alike(m, base, m2, base2, pos[i])

\* They are the same token, and the next one is as far.
LEMMA AlikeToken ==
  ASSUME NEW m, NEW base, NEW m2, NEW base2, NEW p, Alike(m, base, m2, base2, p)
  PROVE  TokenIn(m2, base2, p) = TokenIn(m, base, p) /\ NextTag(m2[p]) = NextTag(m[p])
<1>1. CASE m[p].tag = "prop"
  <2>1. [i \in 1 .. m2[p].y |-> m2[p + i].x] = [i \in 1 .. m[p].y |-> m[p + i].x]
    BY <1>1 DEF Alike
  <2>2. Str(m2, base2 + m2[p].x) = Str(m, base + m[p].x) /\ m2[p].tag = "prop" /\ m2[p].y = m[p].y
    BY <1>1 DEF Alike
  <2> QED BY <1>1, <2>1, <2>2 DEF TokenIn, NextTag
<1>2. CASE m[p].tag # "prop"
  BY <1>2 DEF Alike, TokenIn, NextTag
<1> QED BY <1>1, <1>2

\* Where a token of the structure lies, and what it is.
LEMMA PlaceIs ==
  ASSUME NEW m \in Memory, NEW off \in Nat, NEW z \in Nat, NEW pos, NEW n, Walks(m, off, z, pos, n),
         NEW i \in 1 .. n
  PROVE  /\ pos[i] \in off .. z - 1 /\ pos[i] \in 0 .. MaxSize - 1 /\ m[pos[i]] \in Cells
         /\ m[pos[i]].y \in Nat /\ m[pos[i]].x \in Int
         /\ m[pos[i]].tag = "prop" => pos[i] + m[pos[i]].y < z
         /\ z <= MaxSize
<1>1. n \in Nat /\ i \in 1 .. n + 1 /\ i + 1 \in 1 .. n + 1 /\ MaxSize \in Nat
  BY FdtSwAssumption DEF Walks
<1>2. /\ pos[i] \in Nat /\ pos[i + 1] \in Nat /\ off <= pos[i]
      /\ pos[i + 1] = pos[i] + NextTag(m[pos[i]]) /\ pos[i] < pos[i + 1] /\ pos[i + 1] <= z
      /\ z <= MaxSize
  BY <1>1 DEF Walks
<1>3. pos[i] \in off .. z - 1 /\ pos[i] \in 0 .. MaxSize - 1  BY <1>1, <1>2
<1>4. m[pos[i]] \in Cells  BY <1>3 DEF Memory
<1>5. m[pos[i]].y \in Nat /\ m[pos[i]].x \in Int  BY <1>4 DEF Cells
<1>6. ASSUME m[pos[i]].tag = "prop" PROVE pos[i] + m[pos[i]].y < z
  <2>1. NextTag(m[pos[i]]) = 1 + m[pos[i]].y  BY <1>6 DEF NextTag
  <2> QED BY <1>2, <1>5, <2>1
<1> QED BY <1>2, <1>3, <1>4, <1>5, <1>6

\* A structure whose tokens are alike is walked in the same way, to the same tokens.
LEMMA WalksAlike ==
  ASSUME NEW m \in Memory, NEW m2 \in Memory, NEW off \in Nat, NEW z \in Nat, NEW base, NEW base2,
         NEW pos, NEW n, Walks(m, off, z, pos, n),
         AllAlike(m, base, m2, base2, pos, n)
  PROVE  /\ Walks(m2, off, z, pos, n)
         /\ \A i \in 1 .. n : TokenIn(m2, base2, pos[i]) = TokenIn(m, base, pos[i])
<1>1. \A i \in 1 .. n : m2[pos[i]].tag = m[pos[i]].tag /\ NextTag(m2[pos[i]]) = NextTag(m[pos[i]])
  <2>1. \A i \in 1 .. n : m2[pos[i]].tag = m[pos[i]].tag  BY DEF Alike, AllAlike
  <2>2. \A i \in 1 .. n : NextTag(m2[pos[i]]) = NextTag(m[pos[i]])  BY AlikeToken DEF AllAlike
  <2> QED BY <2>1, <2>2
<1>2. Walks(m2, off, z, pos, n)
  BY <1>1 DEF Walks
<1>3. \A i \in 1 .. n : TokenIn(m2, base2, pos[i]) = TokenIn(m, base, pos[i])
  BY AlikeToken DEF AllAlike
<1> QED BY <1>2, <1>3

\* The same cells between two places, and at the same distances below two ends.
Same(m, m2, lo, hi) == \A p \in lo .. hi - 1 : m2[p] = m[p]
SameBelow(m, base, m2, base2, strs) == \A k \in 1 .. strs : m2[base2 - k] = m[base - k]

\* The structure is held by m2, with the tokens that it has in m.
HoldsAlso(m, base, m2, off, z, base2, strs2, pos, n) ==
  Holds(m2, off, z, base2, strs2, pos, n) /\ Tokens(m2, base2, pos, n) = Tokens(m, base, pos, n)

\* What a call leaves alone is read as before.
LEMMA HoldsKept ==
  ASSUME NEW m \in Memory, NEW m2 \in Memory, NEW off \in Nat, NEW z \in Nat,
         NEW base \in Nat, NEW base2 \in Nat, NEW strs \in Nat, NEW strs2 \in Nat, NEW pos, NEW n,
         Holds(m, off, z, base, strs, pos, n),
         Same(m, m2, off, z), SameBelow(m, base, m2, base2, strs),
         strs <= strs2, strs2 <= base2, base2 <= MaxSize, strs <= base
  PROVE  HoldsAlso(m, base, m2, off, z, base2, strs2, pos, n)
<1>0. Walks(m, off, z, pos, n) /\ MaxSize \in Nat  BY FdtSwAssumption DEF Holds
<1>1. ASSUME NEW i \in 1 .. n
      PROVE  /\ Alike(m, base, m2, base2, pos[i])
             /\ m2[pos[i]] = m[pos[i]]
             /\ m[pos[i]].tag = "prop" =>
                  /\ Named(m2, base2 - strs2, base2, base2 + m2[pos[i]].x)
                  /\ \A k \in 1 .. m2[pos[i]].y : m2[pos[i] + k].tag = "data"
  <2> DEFINE p == pos[i]
  <2>1. /\ p \in off .. z - 1 /\ m[p].y \in Nat /\ m[p].x \in Int
        /\ m[p].tag = "prop" => p + m[p].y < z
    BY <1>0, PlaceIs
  <2>2. m2[p] = m[p]  BY <2>1 DEF Same
  <2>3. CASE m[p].tag # "prop"
    BY <2>2, <2>3 DEF Alike
  <2>4. CASE m[p].tag = "prop"
    <3>1. Named(m, base - strs, base, base + m[p].x) /\ \A k \in 1 .. m[p].y : m[p + k].tag = "data"
      BY <2>4 DEF Holds
    <3>2. ASSUME NEW k \in 1 .. m[p].y PROVE m2[p + k] = m[p + k]
      <4>1. p + k \in off .. z - 1  BY <2>1, <2>4
      <4> QED BY <4>1 DEF Same
    <3> DEFINE d == base2 - base
               at == base + m[p].x
    <3>3. /\ d \in Int /\ at \in Int /\ base - strs \in Int /\ base \in Int
          /\ base - strs + d >= 0 /\ base + d <= MaxSize /\ base + d = base2
          /\ at + d = base2 + m[p].x /\ base2 - strs2 <= base - strs + d
      BY <1>0, <2>1
    <3>4. Shifted(m, m2, base - strs, base, d)
      <4> SUFFICES ASSUME NEW q \in base - strs .. base - 1 PROVE m2[q + d] = m[q]
        BY DEF Shifted
      <4>1. base - q \in 1 .. strs /\ base - (base - q) = q /\ base2 - (base - q) = q + d
        OBVIOUS
      <4> QED BY <4>1 DEF SameBelow
    <3> HIDE DEF d, at, p
    <3>5. Named(m2, base - strs + d, base + d, at + d) /\ Str(m2, at + d) = Str(m, at)
      <4>1. Named(m, base - strs, base, at)  BY <3>1 DEF at
      <4> QED BY <3>3, <3>4, <4>1, NamedMoved
    <3>6. Named(m2, base2 - strs2, base2, base2 + m2[p].x)
      <4>1. PICK s \in Seq(Int) : /\ Reads(m2, at + d, s)
                                   /\ base - strs + d <= at + d /\ at + d + Len(s) < base + d
        BY <3>5 DEF Named
      <4>2. base2 - strs2 <= at + d /\ at + d + Len(s) < base2
        <5>1. Len(s) \in Nat  OBVIOUS
        <5>2. base - strs + d <= at + d /\ at + d + Len(s) < base + d  BY <4>1
        <5> QED BY <3>3, <5>1, <5>2
      <4>3. Reads(m2, base2 + m2[p].x, s)  BY <2>2, <3>3, <4>1
      <4>4. base2 + m2[p].x = at + d  BY <2>2, <3>3
      <4> QED BY <4>2, <4>3, <4>4 DEF Named
    <3>7. Str(m2, base2 + m2[p].x) = Str(m, base + m[p].x)  BY <2>2, <3>3, <3>5 DEF at
    <3> QED BY <2>2, <2>4, <3>1, <3>2, <3>6, <3>7 DEF Alike, p
  <2> QED BY <2>3, <2>4
<1>2. /\ Walks(m2, off, z, pos, n)
      /\ \A i \in 1 .. n : TokenIn(m2, base2, pos[i]) = TokenIn(m, base, pos[i])
  <2>1. AllAlike(m, base, m2, base2, pos, n)  BY <1>1 DEF AllAlike
  <2> QED BY <1>0, <2>1, WalksAlike
<1>3. Walks(m2, off, z, pos, n)  BY <1>2
<1>4. \A i \in 1 .. n : m2[pos[i]].tag = "prop" =>
        /\ Named(m2, base2 - strs2, base2, base2 + m2[pos[i]].x)
        /\ \A k \in 1 .. m2[pos[i]].y : m2[pos[i] + k].tag = "data"
  <2> SUFFICES ASSUME NEW i \in 1 .. n, m2[pos[i]].tag = "prop"
               PROVE  /\ Named(m2, base2 - strs2, base2, base2 + m2[pos[i]].x)
                      /\ \A k \in 1 .. m2[pos[i]].y : m2[pos[i] + k].tag = "data"
    OBVIOUS
  <2>1. m[pos[i]].tag = "prop"  BY <1>1
  <2> QED BY <1>1, <2>1
<1>5. Holds(m2, off, z, base2, strs2, pos, n)  BY <1>3, <1>4 DEF Holds
<1>6. Tokens(m2, base2, pos, n) = Tokens(m, base, pos, n)  BY <1>2 DEF Tokens
<1> QED BY <1>5, <1>6 DEF HoldsAlso
\* The walk of fdt_finish.
PropsFrom(m, size) ==
  CHOOSE Walk : Walk = [o \in 0 .. size |->
    IF o = size \/ m[off_dt_struct + o].tag = "end" \/ o + NextTag(m[off_dt_struct + o]) > size THEN {}
    ELSE Walk[o + NextTag(m[off_dt_struct + o])] \cup
         (IF m[off_dt_struct + o].tag = "prop" THEN {off_dt_struct + o} ELSE {})]

\* It is that of FdtSw.
LEMMA PropsAtFrom == \A m, size : PropsAt(m, size) = PropsFrom(m, size)[0]
BY DEF PropsAt, PropsFrom

\* The recursion in it is one.
LEMMA PropsFromIs ==
  ASSUME NEW m \in Memory, NEW size \in Nat, off_dt_struct \in Nat, off_dt_struct + size <= MaxSize,
         NEW o \in 0 .. size
  PROVE  PropsFrom(m, size)[o] =
           IF o = size \/ m[off_dt_struct + o].tag = "end" \/ o + NextTag(m[off_dt_struct + o]) > size
           THEN {}
           ELSE PropsFrom(m, size)[o + NextTag(m[off_dt_struct + o])] \cup
                (IF m[off_dt_struct + o].tag = "prop" THEN {off_dt_struct + o} ELSE {})
<1> DEFINE off == off_dt_struct
           Ends(x) == x = size \/ m[off + x].tag = "end" \/ x + NextTag(m[off + x]) > size
           Stop == {x \in 0 .. size : Ends(x)}
           set == [x \in 0 .. size |-> IF m[off + x].tag = "prop" THEN {off + x} ELSE {}]
           next == [x \in 0 .. size |-> x + NextTag(m[off + x])]
           Is(f) == f = [x \in 0 .. size |->
                           IF Ends(x) THEN {}
                           ELSE f[x + NextTag(m[off + x])] \cup
                                (IF m[off + x].tag = "prop" THEN {off + x} ELSE {})]
<1>1. 0 \in Nat /\ 0 <= size + 1  OBVIOUS
<1>2. \A x \in 0 .. size : x \notin Stop => next[x] \in x + 1 .. size
  <2> SUFFICES ASSUME NEW x \in 0 .. size, x \notin Stop PROVE next[x] \in x + 1 .. size
    OBVIOUS
  <2>1. ~Ends(x)  OBVIOUS
  <2>2. off + x \in 0 .. MaxSize - 1  BY <2>1, FdtSwAssumption
  <2>3. m[off + x] \in Cells  BY <2>2 DEF Memory
  <2>4. NextTag(m[off + x]) \in Nat /\ NextTag(m[off + x]) >= 1  BY <2>3, NextTagIs
  <2> QED BY <2>1, <2>4
<1>3. \E f : IsGathering(f, 0, size, Stop, set, next)
  <2> HIDE DEF Stop, set, next
  <2> QED BY <1>1, <1>2, Gathering
<1>4. PICK f : IsGathering(f, 0, size, Stop, set, next)  BY <1>3
<1>5. Is(f)
  <2>1. ASSUME NEW x \in 0 .. size
        PROVE  (IF x \in Stop THEN {} ELSE f[next[x]] \cup set[x])
               = (IF Ends(x) THEN {}
                  ELSE f[x + NextTag(m[off + x])] \cup
                       (IF m[off + x].tag = "prop" THEN {off + x} ELSE {}))
    OBVIOUS
  <2> HIDE DEF Stop, set, next, off
  <2> QED BY <1>4, <2>1 DEF IsGathering
<1>6. Is(PropsFrom(m, size))
  <2>1. \E g : Is(g)  BY <1>5
  <2> QED BY <2>1 DEF PropsFrom
<1> QED BY <1>6

\* It finds the properties of the structure.
LEMMA PropsAre ==
  ASSUME NEW m \in Memory, NEW off \in Nat, off = off_dt_struct, NEW size \in Nat, off + size <= MaxSize,
         NEW pos, NEW n, size > 0, Walks(m, off, off + size - 1, pos, n), m[off + size - 1].tag = "end"
  PROVE  PropsAt(m, size) = {pos[i] : i \in {j \in 1 .. n : m[pos[j]].tag = "prop"}}
<1> DEFINE f == PropsFrom(m, size)
           Those(k) == {pos[i] : i \in {j \in n + 1 - k .. n : m[pos[j]].tag = "prop"}}
           S == {k \in 0 .. n : f[pos[n + 1 - k] - off] = Those(k)}
<1>1. n \in Nat /\ pos[1] = off /\ pos[n + 1] = off + size - 1 /\ MaxSize \in Nat
  BY FdtSwAssumption DEF Walks
<1>2. 0 \in S
  <2>1. n + 1 - 0 = n + 1 /\ 0 \in 0 .. n /\ n + 1 .. n = {}  BY <1>1
  <2>2. pos[n + 1] - off = size - 1 /\ size - 1 \in 0 .. size /\ off + (size - 1) = off + size - 1  BY <1>1
  <2>3. f[size - 1] = {}
    <3> HIDE DEF f
    <3> QED BY <2>2, PropsFromIs DEF f
  <2>4. Those(0) = {}  BY <2>1
  <2> HIDE DEF f, Those
  <2> QED BY <2>1, <2>2, <2>3, <2>4
<1>3. ASSUME NEW k \in 0 .. n - 1, k \in S PROVE k + 1 \in S
  <2> DEFINE i == n - k
             o == pos[i] - off
  <2>1. /\ i \in 1 .. n /\ i \in 1 .. n + 1 /\ i + 1 \in 1 .. n + 1 /\ n + 1 - (k + 1) = i
        /\ n + 1 - k = i + 1 /\ k + 1 \in 0 .. n
    BY <1>1
  <2> HIDE DEF i
  <2>2. /\ pos[i] \in Nat /\ pos[i + 1] \in Nat /\ off <= pos[i]
        /\ pos[i + 1] = pos[i] + NextTag(m[pos[i]]) /\ pos[i] < pos[i + 1] /\ pos[i + 1] <= off + size - 1
        /\ m[pos[i]].tag \in {"begin", "end_node", "prop"}
    BY <2>1 DEF Walks
  <2>3. /\ o \in 0 .. size /\ o # size /\ off + o = pos[i] /\ NextTag(m[pos[i]]) \in Int
        /\ ~(o + NextTag(m[off + o]) > size) /\ o + NextTag(m[off + o]) = pos[i + 1] - off
    <3>1. pos[i] \in 0 .. MaxSize - 1  BY <1>1, <2>2
    <3>2. NextTag(m[pos[i]]) \in Nat  BY <3>1, NextTagIs DEF Memory
    <3> QED BY <2>2, <3>2
  <2>4. f[o] = f[pos[i + 1] - off] \cup (IF m[pos[i]].tag = "prop" THEN {pos[i]} ELSE {})
    <3> HIDE DEF f, o
    <3>1. m[off + o].tag # "end"  BY <2>2, <2>3
    <3>2. off_dt_struct \in Nat /\ off_dt_struct + size <= MaxSize /\ o \in 0 .. size  BY <2>3
    <3>3. f[o] = IF o = size \/ m[off + o].tag = "end" \/ o + NextTag(m[off + o]) > size
                 THEN {}
                 ELSE f[o + NextTag(m[off + o])] \cup
                      (IF m[off + o].tag = "prop" THEN {off + o} ELSE {})
      BY <3>2, PropsFromIs DEF f
    <3> QED BY <2>3, <3>1, <3>3
  <2>5. f[pos[i + 1] - off] = Those(k)  BY <1>3, <2>1
  <2>6. Those(k + 1) = Those(k) \cup (IF m[pos[i]].tag = "prop" THEN {pos[i]} ELSE {})
    <3>1. i .. n = {i} \cup (i + 1 .. n)  BY <1>1, <2>1
    <3>2. Those(k + 1) = {pos[j] : j \in {x \in i .. n : m[pos[x]].tag = "prop"}}
          /\ Those(k) = {pos[j] : j \in {x \in i + 1 .. n : m[pos[x]].tag = "prop"}}
      BY <2>1
    <3> HIDE DEF Those
    <3> QED BY <3>1, <3>2
  <2> HIDE DEF f, Those, o
  <2> QED BY <2>1, <2>4, <2>5, <2>6 DEF o
<1>4. n \in S
  <2>1. n \in 0 .. n  BY <1>1
  <2> HIDE DEF S
  <2> QED BY <1>1, <1>2, <1>3, <2>1, Upwards
<1>5. n + 1 - n = 1 /\ pos[1] - off = 0  BY <1>1
<1>6. f[0] = Those(n)  BY <1>4, <1>5
<1> QED BY <1>5, <1>6, PropsAtFrom

\* The invariant of the refinement: until fdt_finish the structure can be walked to its end, and
\* the reserve map is finished when its last entry is empty.
RInv ==
  magic = "SW" =>
    /\ \E n, pos :
         Holds(mem, off_dt_struct, off_dt_struct + size_dt_struct, totalsize, size_dt_strings, pos, n)
    /\ off_dt_struct > RsvOffset => (mem[off_dt_struct - 1].x = 0 <=> mapped)

\* What is read of such a structure.
LEMMA TokensHeld ==
  ASSUME IInv, NEW pos, NEW n,
         Holds(mem, off_dt_struct, off_dt_struct + size_dt_struct, off_dt_strings, size_dt_strings, pos, n)
  PROVE  TokensNow = Tokens(mem, off_dt_strings, pos, n)
<1> DEFINE off == off_dt_struct
           z == off_dt_struct + size_dt_struct
<1>1. mem \in Memory /\ off \in Nat /\ z \in Nat /\ off <= z  BY Numbers DEF IInv
<1>2. Walks(mem, off, z, pos, n)  BY DEF Holds
<1>3. TokensRest(mem, off_dt_strings, off, z)[off] = [i \in 1 .. n |-> TokenIn(mem, off_dt_strings, pos[i])]
  <2> HIDE DEF off, z
  <2> QED BY <1>1, <1>2, TokensAre
<1> QED BY <1>3, TokensNowAre DEF Tokens

\* The same after a step.
LEMMA TokensHeldNext ==
  ASSUME IInv', NEW pos, NEW n,
         Holds(mem', off_dt_struct', off_dt_struct' + size_dt_struct',
               off_dt_strings', size_dt_strings', pos, n)
  PROVE  TokensNow' = Tokens(mem', off_dt_strings', pos, n)
<1> DEFINE off == off_dt_struct'
           z == off_dt_struct' + size_dt_struct'
<1>0. /\ off_dt_struct' \in 0 .. MaxSize \/ off_dt_struct' = RsvOffset
      /\ size_dt_struct' \in 0 .. MaxSize /\ MaxSize \in Nat /\ RsvOffset \in Nat
      /\ mem' \in Memory
  BY FdtSwAssumption DEF IInv, TypeOK, Memory, Cells
<1>1. mem' \in Memory /\ off \in Nat /\ z \in Nat /\ off <= z  BY <1>0
<1>2. Walks(mem', off, z, pos, n)  BY DEF Holds
<1>3. TokensRest(mem', off_dt_strings', off, z)[off] =
        [i \in 1 .. n |-> TokenIn(mem', off_dt_strings', pos[i])]
  <2> HIDE DEF off, z
  <2> QED BY <1>1, <1>2, TokensAre
<1> QED BY <1>3, TokensNextAre DEF Tokens

\* The map of reserved regions, when its cells stay.
LEMMA ReservedKept ==
  ASSUME IInv, off_dt_struct' = off_dt_struct,
         \A p \in RsvOffset .. off_dt_struct - 1 : mem'[p].x = mem[p].x
  PROVE  ReservedNow' = ReservedNow
<1>1. off_dt_struct \in Nat /\ RsvOffset \in Nat  BY Numbers DEF IInv
<1>2. ASSUME NEW i \in 1 .. off_dt_struct - RsvOffset
      PROVE  mem'[RsvOffset + i - 1].x = mem[RsvOffset + i - 1].x
  <2>1. RsvOffset + i - 1 \in RsvOffset .. off_dt_struct - 1  BY <1>1
  <2> QED BY <2>1
<1> QED BY <1>2 DEF ReservedNow

\* Calls for different regions differ.
LEMMA EntryCallIs == \A e, f : EntryCall(e) = EntryCall(f) <=> e = f
BY DEF EntryCall, Call

\* The caller's flag says whether the map has its end.
LEMMA MappedIs ==
  ASSUME IInv, RInv, magic = "SW"
  PROVE  Stream!Mapped <=> mapped
<1>1. off_dt_struct \in Nat /\ RsvOffset \in Nat /\ off_dt_struct >= RsvOffset
      /\ (mapped => off_dt_struct > RsvOffset) /\ mapped \in BOOLEAN
  BY Numbers DEF IInv, Shape
<1> DEFINE n == off_dt_struct - RsvOffset
           v == [i \in 1 .. n |-> EntryCall(mem[RsvOffset + i - 1].x)]
<1>2. n \in Nat /\ Len(v) = n  BY <1>1
<1>3. CASE n = 0
  <2>1. v = <<>>  BY <1>3
  <2> QED BY <1>1, <1>3, <2>1 DEF Stream!Mapped, ReservedNow
<1>4. CASE n # 0
  <2>1. n \in 1 .. n /\ RsvOffset + n - 1 = off_dt_struct - 1 /\ off_dt_struct > RsvOffset
    BY <1>1, <1>2, <1>4
  <2>2. v[n] = EntryCall(mem[off_dt_struct - 1].x) /\ v # <<>>  BY <2>1
  <2>3. mem[off_dt_struct - 1].x = 0 <=> mapped  BY <2>1 DEF RInv
  <2>4. Stream!Mapped <=> (v # <<>> /\ v[Len(v)] = EntryCall(0))  BY DEF Stream!Mapped, ReservedNow
  <2> HIDE DEF v, n
  <2> QED BY <1>2, <2>2, <2>3, <2>4, EntryCallIs
<1> QED BY <1>3, <1>4

\* A refused call, and a call that is no step of the abstract specification.
LEMMA Refuses ==
  ASSUME ~reply'.ok, magic' = magic, TokensNow' = TokensNow, ReservedNow' = ReservedNow
  PROVE  Stream!Refuse
BY DEF Stream!Refuse

\* A token accepted at the end of the structure.
LEMMA Puts ==
  ASSUME IInv, RInv, magic = "SW", magic' = magic, mapped, reply'.ok,
         ReservedNow' = ReservedNow, TokensNow' = Append(TokensNow, reply'.call)
  PROVE  Stream!Put
BY MappedIs DEF Stream!Put

\* One more value at the end.
LEMMA FirstAppend ==
  ASSUME NEW n \in Nat, NEW v, NEW w, \A i \in 1 .. n : w[i] = v[i]
  PROVE  FirstOf(w, n + 1) = Append(FirstOf(v, n), w[n + 1])
<1> DEFINE T == {w[i] : i \in 1 .. n + 1}
<1>1. \A i \in 1 .. n : v[i] \in T
  <2>1. \A i \in 1 .. n : i \in 1 .. n + 1  OBVIOUS
  <2> QED BY <2>1
<1>2. w[n + 1] \in T  OBVIOUS
<1>3. \A i \in 1 .. n + 1 : w[i] \in T  OBVIOUS
<1> HIDE DEF T
<1>4. FirstOf(v, n) \in Seq(T) /\ Len(FirstOf(v, n)) = n  BY <1>1 DEF FirstOf
<1>5. FirstOf(w, n + 1) \in Seq(T) /\ Len(FirstOf(w, n + 1)) = n + 1  BY <1>3 DEF FirstOf
<1>6. Append(FirstOf(v, n), w[n + 1]) \in Seq(T) /\ Len(Append(FirstOf(v, n), w[n + 1])) = n + 1
  BY <1>2, <1>4
<1>7. ASSUME NEW i \in 1 .. n + 1 PROVE FirstOf(w, n + 1)[i] = Append(FirstOf(v, n), w[n + 1])[i]
  <2>1. CASE i = n + 1
    BY <1>2, <1>4, <2>1 DEF FirstOf
  <2>2. CASE i # n + 1
    <3>1. i \in 1 .. n  BY <2>2
    <3>2. Append(FirstOf(v, n), w[n + 1])[i] = FirstOf(v, n)[i]  BY <1>2, <1>4, <3>1
    <3>3. FirstOf(v, n)[i] = v[i] /\ FirstOf(w, n + 1)[i] = w[i]  BY <3>1 DEF FirstOf
    <3> QED BY <3>1, <3>2, <3>3
  <2> QED BY <2>1, <2>2
<1> QED BY <1>5, <1>6, <1>7, SameSeq

\* The cells s of a token, whose name lies in the memory m with strs cells of strings, say the call c.
Says(m, strs, s, c) ==
  /\ Len(s) > 0 /\ s[1].tag \in {"begin", "end_node", "prop"} /\ Len(s) = NextTag(s[1])
  /\ s[1].tag = "begin" => c = Call("begin", <<s[1].x>>, <<>>)
  /\ s[1].tag = "end_node" => c = Call("end_node", <<>>, <<>>)
  /\ s[1].tag = "prop" =>
       /\ Named(m, totalsize - strs, totalsize, totalsize + s[1].x)
       /\ \A k \in 1 .. s[1].y : s[1 + k].tag = "data"
       /\ c = Call("prop", Str(m, totalsize + s[1].x), [i \in 1 .. s[1].y |-> s[1 + i].x])

\* Written at the end of the structure, they are its last token.
LEMMA Extended ==
  ASSUME NEW m \in Memory, NEW off \in Nat, NEW top \in Nat, NEW strs \in Nat,
         totalsize \in Nat, totalsize <= MaxSize,
         NEW pos, NEW n, Holds(m, off, top, totalsize, strs, pos, n),
         NEW s \in Seq(Cells), NEW c, Says(m, strs, s, c), top + Len(s) + strs <= totalsize, off <= top,
         NEW m2 \in Memory, m2 = Written(m, top, s)
  PROVE  \E pos2 : /\ Holds(m2, off, top + Len(s), totalsize, strs, pos2, n + 1)
                   /\ Tokens(m2, totalsize, pos2, n + 1) = Append(Tokens(m, totalsize, pos, n), c)
<1> DEFINE l == Len(s)
           pos2 == [i \in 1 .. n + 1 + 1 |-> IF i = n + 1 + 1 THEN top + l ELSE pos[i]]
<1>1. /\ l \in Nat /\ l > 0 /\ MaxSize \in Nat /\ n \in Nat /\ Walks(m, off, top, pos, n)
      /\ pos \in [1 .. n + 1 -> Nat] /\ pos[1] = off /\ pos[n + 1] = top
      /\ DOMAIN m = 0 .. MaxSize - 1 /\ top + l <= MaxSize
  BY FdtSwAssumption DEF Holds, Walks, Says, Memory
<1>2. Same(m, m2, off, top)
  <2> SUFFICES ASSUME NEW p \in off .. top - 1 PROVE m2[p] = m[p]
    BY DEF Same
  <2>1. p \in 0 .. MaxSize - 1 /\ p < top  BY <1>1
  <2> QED BY <2>1, WrittenElsewhere
<1>3. SameBelow(m, totalsize, m2, totalsize, strs)
  <2> SUFFICES ASSUME NEW k \in 1 .. strs PROVE m2[totalsize - k] = m[totalsize - k]
    BY DEF SameBelow
  <2>1. totalsize - k \in 0 .. MaxSize - 1 /\ totalsize - k >= top + Len(s)  BY <1>1
  <2> QED BY <2>1, WrittenElsewhere
<1>4. ASSUME NEW k \in 1 .. l PROVE m2[top + k - 1] = s[k]
  <2>1. top + k - 1 \in DOMAIN m /\ top + k - 1 \in top .. top + Len(s) - 1 /\ top + k - 1 - top + 1 = k
    BY <1>1
  <2> QED BY <2>1 DEF Written
<1>5. /\ Holds(m2, off, top, totalsize, strs, pos, n)
      /\ \A i \in 1 .. n : TokenIn(m2, totalsize, pos[i]) = TokenIn(m, totalsize, pos[i])
  <2>1. strs <= strs /\ strs <= totalsize /\ totalsize \in Nat /\ totalsize <= MaxSize /\ top \in Nat
    BY <1>1
  <2>2. HoldsAlso(m, totalsize, m2, off, top, totalsize, strs, pos, n)
    BY <1>2, <1>3, <2>1, HoldsKept
  <2>3. ASSUME NEW i \in 1 .. n PROVE TokenIn(m2, totalsize, pos[i]) = TokenIn(m, totalsize, pos[i])
    <3>1. Tokens(m2, totalsize, pos, n)[i] = Tokens(m, totalsize, pos, n)[i]  BY <2>2 DEF HoldsAlso
    <3> QED BY <3>1 DEF Tokens
  <2> QED BY <2>2, <2>3 DEF HoldsAlso
<1>6. m2[top] = s[1] /\ s[1] \in Cells /\ \A k \in 1 .. s[1].y : s[1].tag = "prop" => m2[top + k] = s[1 + k]
  <2>1. 1 \in 1 .. l /\ top + 1 - 1 = top  BY <1>1
  <2>2. s[1] \in Cells  BY <2>1
  <2>3. ASSUME NEW k \in 1 .. s[1].y, s[1].tag = "prop" PROVE m2[top + k] = s[1 + k]
    <3>1. l = 1 + s[1].y /\ s[1].y \in Nat  BY <2>2, <2>3 DEF Says, NextTag, Cells
    <3>2. 1 + k \in 1 .. l  BY SMTT(40), <1>1, <3>1
    <3>3. top + (1 + k) - 1 = top + k  BY SMTT(40), <1>1, <3>1
    <3> QED BY <1>4, <3>2, <3>3
  <2>4. m2[top] = s[1]  BY <1>4, <2>1
  <2> QED BY <2>2, <2>3, <2>4
<1>7. /\ n + 1 \in 1 .. n + 1 + 1 /\ n + 1 + 1 \in 1 .. n + 1 + 1
      /\ pos2[n + 1] = top /\ pos2[n + 1 + 1] = top + l
      /\ \A i \in 1 .. n + 1 : i \in 1 .. n + 1 + 1 /\ pos2[i] = pos[i]
      /\ pos2 \in [1 .. n + 1 + 1 -> Nat]
  BY <1>1
<1> HIDE DEF pos2, l
<1>8. Walks(m2, off, top + l, pos2, n + 1)
  <2>1. n + 1 \in Nat /\ pos2[1] = off
    <3>1. 1 \in 1 .. n + 1 /\ n + 1 \in Nat  BY <1>1
    <3> QED BY <1>1, <1>7, <3>1
  <2>2. ASSUME NEW i \in 1 .. n + 1
        PROVE  /\ off <= pos2[i] /\ pos2[i + 1] = pos2[i] + NextTag(m2[pos2[i]])
               /\ pos2[i] < pos2[i + 1] /\ pos2[i + 1] <= top + l /\ top + l <= MaxSize
               /\ m2[pos2[i]].tag \in {"begin", "end_node", "prop"}
    <3>1. CASE i = n + 1
      <4>1. NextTag(m2[top]) = l /\ m2[top].tag \in {"begin", "end_node", "prop"}
        BY <1>6 DEF Says, l
      <4> QED BY <1>1, <1>7, <3>1, <4>1
    <3>2. CASE i # n + 1
      <4>1. i \in 1 .. n /\ i + 1 \in 1 .. n + 1 /\ i \in 1 .. n + 1  BY <1>1, <3>2
      <4>2. pos2[i] = pos[i] /\ pos2[i + 1] = pos[i + 1] /\ pos[i + 1] \in Nat  BY <1>1, <1>7, <4>1
      <4>3. /\ off <= pos[i] /\ pos[i + 1] = pos[i] + NextTag(m2[pos[i]])
            /\ pos[i] < pos[i + 1] /\ pos[i + 1] <= top
            /\ m2[pos[i]].tag \in {"begin", "end_node", "prop"}
        BY <1>5, <4>1 DEF Holds, Walks
      <4>4. pos[i + 1] <= top + l  BY <1>1, <4>2, <4>3
      <4> QED BY <1>1, <4>2, <4>3, <4>4
    <3> QED BY <3>1, <3>2
  <2> QED BY <1>7, <2>1, <2>2 DEF Walks
<1>9. ASSUME NEW i \in 1 .. n + 1, m2[pos2[i]].tag = "prop"
      PROVE  /\ Named(m2, totalsize - strs, totalsize, totalsize + m2[pos2[i]].x)
             /\ \A k \in 1 .. m2[pos2[i]].y : m2[pos2[i] + k].tag = "data"
  <2>1. CASE i = n + 1
    <3>1. m2[pos2[i]] = s[1] /\ pos2[i] = top /\ s[1].tag = "prop"  BY <1>6, <1>7, <1>9, <2>1
    <3>2. /\ Named(m, totalsize - strs, totalsize, totalsize + s[1].x)
          /\ \A k \in 1 .. s[1].y : s[1 + k].tag = "data"
      BY <3>1 DEF Says
    <3>3. Named(m2, totalsize - strs, totalsize, totalsize + s[1].x)
      <4> DEFINE lo == totalsize - strs
                 at == totalsize + s[1].x
      <4>1. lo \in Int /\ at \in Int /\ lo + 0 >= 0 /\ totalsize + 0 <= MaxSize
            /\ lo + 0 = lo /\ at + 0 = at /\ totalsize + 0 = totalsize
        BY <1>1, <1>6 DEF Cells
      <4>2. Shifted(m, m2, lo, totalsize, 0)
        <5> SUFFICES ASSUME NEW q \in lo .. totalsize - 1 PROVE m2[q + 0] = m[q]
          BY DEF Shifted
        <5>1. totalsize - q \in 1 .. strs /\ totalsize - (totalsize - q) = q /\ q + 0 = q  BY <4>1
        <5> QED BY <1>3, <5>1 DEF SameBelow
      <4>3. Named(m, lo, totalsize, at)  BY <3>2
      <4> HIDE DEF lo, at
      <4>4. Named(m2, lo + 0, totalsize + 0, at + 0)  BY <4>1, <4>2, <4>3, NamedMoved
      <4> QED BY <4>1, <4>4 DEF lo, at
    <3> QED BY <1>6, <3>1, <3>2, <3>3
  <2>2. CASE i # n + 1
    <3>1. i \in 1 .. n /\ pos2[i] = pos[i]  BY <1>1, <1>7, <2>2
    <3> QED BY <1>5, <1>9, <3>1 DEF Holds
  <2> QED BY <2>1, <2>2
<1>10. Holds(m2, off, top + l, totalsize, strs, pos2, n + 1)
  BY <1>8, <1>9 DEF Holds
<1>11. TokenIn(m2, totalsize, pos2[n + 1]) = c
  <2>1. pos2[n + 1] = top /\ m2[top] = s[1]  BY <1>6, <1>7
  <2>2. CASE s[1].tag = "prop"
    <3>1. Str(m2, totalsize + s[1].x) = Str(m, totalsize + s[1].x)
      <4> DEFINE lo == totalsize - strs
                 at == totalsize + s[1].x
      <4>1. lo \in Int /\ at \in Int /\ lo + 0 >= 0 /\ totalsize + 0 <= MaxSize /\ at + 0 = at
        BY <1>1, <1>6 DEF Cells
      <4>2. Shifted(m, m2, lo, totalsize, 0)
        <5> SUFFICES ASSUME NEW q \in lo .. totalsize - 1 PROVE m2[q + 0] = m[q]
          BY DEF Shifted
        <5>1. totalsize - q \in 1 .. strs /\ totalsize - (totalsize - q) = q /\ q + 0 = q  BY <4>1
        <5> QED BY <1>3, <5>1 DEF SameBelow
      <4>3. Named(m, lo, totalsize, at)  BY <2>2 DEF Says
      <4> HIDE DEF lo, at
      <4>4. Str(m2, at + 0) = Str(m, at)  BY <4>1, <4>2, <4>3, NamedMoved
      <4> QED BY <4>1, <4>4 DEF at
    <3>2. [i \in 1 .. s[1].y |-> m2[top + i].x] = [i \in 1 .. s[1].y |-> s[1 + i].x]
      BY <1>6, <2>2
    <3> QED BY <2>1, <2>2, <3>1, <3>2 DEF TokenIn, Says
  <2>3. CASE s[1].tag # "prop"
    BY <2>1, <2>3 DEF TokenIn, Says
  <2> QED BY <2>2, <2>3
<1>12. Tokens(m2, totalsize, pos2, n + 1) = Append(Tokens(m, totalsize, pos, n), c)
  <2> DEFINE v == [i \in 1 .. n |-> TokenIn(m, totalsize, pos[i])]
             w == [i \in 1 .. n + 1 |-> TokenIn(m2, totalsize, pos2[i])]
  <2>1. \A i \in 1 .. n : w[i] = v[i]
    <3>1. \A i \in 1 .. n : i \in 1 .. n + 1 /\ pos2[i] = pos[i]  BY <1>1, <1>7
    <3> QED BY <1>5, <3>1
  <2>2. w[n + 1] = c
    <3>1. n + 1 \in 1 .. n + 1  BY <1>1
    <3> QED BY <1>11, <3>1
  <2>3. /\ Tokens(m2, totalsize, pos2, n + 1) = FirstOf(w, n + 1)
        /\ Tokens(m, totalsize, pos, n) = FirstOf(v, n)
    BY DEF Tokens, FirstOf
  <2> HIDE DEF v, w
  <2> QED BY SMTT(40), <1>1, <2>1, <2>2, <2>3, FirstAppend
<1> QED BY <1>10, <1>12 DEF l

\* What BlocksKept says, in these terms.
LEMMA KeptSame ==
  ASSUME IInv, Kept, magic = "SW", magic' = "SW"
  PROVE  /\ Same(mem, mem', RsvOffset, off_dt_struct + size_dt_struct)
         /\ SameBelow(mem, totalsize, mem', totalsize', size_dt_strings)
<1>1. /\ \A p \in RsvOffset .. off_dt_struct + size_dt_struct - 1 : mem'[p] = mem[p]
      /\ \A k \in 1 .. size_dt_strings : mem'[totalsize' - k] = mem[totalsize - k]
  BY DEF Kept
<1>2. Same(mem, mem', RsvOffset, off_dt_struct + size_dt_struct)
  <2>1. off_dt_struct \in Nat /\ size_dt_struct \in Nat  BY Numbers DEF IInv
  <2> QED BY <1>1, <2>1 DEF Same
<1>3. SameBelow(mem, totalsize, mem', totalsize', size_dt_strings)
  BY <1>1 DEF SameBelow
<1> QED BY <1>2, <1>3

\* Space taken for a token.  From here on one lemma per call: it keeps RInv, and is a step of the
\* abstract specification.
LEMMA GrabRefines ==
  ASSUME IInv, RInv, IInv', Kept, magic = "SW", mapped,
         NEW m \in Memory, NEW strs \in Nat, size_dt_strings <= strs,
         off_dt_struct + size_dt_struct + strs <= totalsize,
         Same(mem, m, RsvOffset, off_dt_struct + size_dt_struct),
         SameBelow(mem, totalsize, m, totalsize, size_dt_strings),
         NEW s \in Seq(Cells), NEW c, Says(m, strs, s, c), Grab(m, strs, s, c),
         UNCHANGED <<magic, totalsize, off_dt_struct, off_dt_strings, mapped>>
  PROVE  RInv' /\ (Stream!Put \/ Stream!Refuse)
<1> DEFINE off == off_dt_struct
           top == off_dt_struct + size_dt_struct
<1>1. /\ off \in Nat /\ size_dt_struct \in Nat /\ top \in Nat /\ off <= top
      /\ RsvOffset \in Nat /\ off >= RsvOffset
      /\ totalsize \in Nat /\ totalsize <= MaxSize /\ MaxSize \in Nat /\ size_dt_strings \in Nat
      /\ off_dt_strings = totalsize /\ mem \in Memory /\ off > RsvOffset /\ Len(s) \in Nat
      /\ strs <= totalsize /\ size_dt_strings <= totalsize
  BY Numbers DEF IInv, Shape
<1>2. PICK n, pos : Holds(mem, off, top, totalsize, size_dt_strings, pos, n)
  BY DEF RInv
<1>3. HoldsAlso(mem, totalsize, m, off, top, totalsize, strs, pos, n)
  <2>1. Same(mem, m, off, top)
    <3>1. \A p \in off .. top - 1 : p \in RsvOffset .. top - 1  BY <1>1
    <3> QED BY <3>1 DEF Same
  <2> HIDE DEF off, top
  <2> QED BY <1>1, <1>2, <2>1, HoldsKept
<1>4. TokensNow = Tokens(mem, totalsize, pos, n)
  BY <1>1, <1>2, TokensHeld
<1>5. \A p \in RsvOffset .. off - 1 : mem'[p] = mem[p]
  <2>1. \A p \in RsvOffset .. off - 1 : p \in RsvOffset .. top - 1  BY <1>1
  <2>2. Same(mem, mem', RsvOffset, top)  BY KeptSame
  <2> QED BY <2>1, <2>2 DEF Same
<1>6. ReservedNow' = ReservedNow
  BY <1>5, ReservedKept
<1>7. off_dt_struct' > RsvOffset => (mem'[off_dt_struct' - 1].x = 0 <=> mapped')
  <2>1. off - 1 \in RsvOffset .. off - 1  BY <1>1
  <2>2. mem'[off - 1] = mem[off - 1]  BY <1>5, <2>1
  <2>3. mem[off - 1].x = 0 <=> mapped  BY <1>1 DEF RInv
  <2> QED BY <2>2, <2>3
<1>8. CASE ~Room(strs, Len(s)) /\ Refused(c) /\ mem' = m /\ UNCHANGED size_dt_struct
  <2>1. Holds(mem', off_dt_struct', off_dt_struct' + size_dt_struct',
              off_dt_strings', size_dt_strings', pos, n)
        /\ off_dt_strings' = totalsize /\ totalsize' = totalsize
    BY <1>1, <1>3, <1>8 DEF HoldsAlso, Grab
  <2>2. TokensNow' = Tokens(m, totalsize, pos, n)
    BY <1>8, <2>1, TokensHeldNext
  <2>3. TokensNow' = TokensNow
    BY <1>3, <1>4, <2>2 DEF HoldsAlso
  <2>4. RInv'  BY <1>7, <2>1 DEF RInv
  <2>5. ~reply'.ok  BY <1>8 DEF Refused
  <2> QED BY <1>6, <2>3, <2>4, <2>5, Refuses
<1>9. CASE Room(strs, Len(s)) /\ Accepted(c) /\ mem' = Written(m, top, s)
           /\ size_dt_struct' = size_dt_struct + Len(s)
  <2>1. top + Len(s) + strs <= totalsize
    BY <1>1, <1>9, RoomFits
  <2>2. mem' \in Memory
    BY <1>1, <1>9, WrittenType
  <2>3. PICK pos2 : /\ Holds(mem', off, top + Len(s), totalsize, strs, pos2, n + 1)
                    /\ Tokens(mem', totalsize, pos2, n + 1) = Append(Tokens(m, totalsize, pos, n), c)
    <3>1. Holds(m, off, top, totalsize, strs, pos, n)  BY <1>3 DEF HoldsAlso
    <3>2. mem' = Written(m, top, s)  BY <1>9
    <3> HIDE DEF off, top
    <3> QED BY SMTT(40), <1>1, <2>1, <2>2, <3>1, <3>2, Extended
  <2>4. Holds(mem', off_dt_struct', off_dt_struct' + size_dt_struct',
              off_dt_strings', size_dt_strings', pos2, n + 1)
        /\ off_dt_strings' = totalsize /\ totalsize' = totalsize
    <3>1. off_dt_struct' + size_dt_struct' = top + Len(s)  BY <1>1, <1>9
    <3> QED BY <1>1, <2>3, <3>1 DEF Grab
  <2>5. TokensNow' = Append(TokensNow, c)
    <3>1. TokensNow' = Tokens(mem', totalsize, pos2, n + 1)  BY <2>4, TokensHeldNext
    <3>2. Tokens(m, totalsize, pos, n) = TokensNow  BY <1>3, <1>4 DEF HoldsAlso
    <3> QED BY <2>3, <3>1, <3>2
  <2>6. RInv'  BY <1>7, <2>4 DEF RInv
  <2>7. reply'.ok /\ reply'.call = c  BY <1>9 DEF Accepted
  <2> QED BY <1>6, <2>5, <2>6, <2>7, Puts
<1> QED BY <1>8, <1>9 DEF Grab

\* A structure with nothing in it.
LEMMA HoldsNothing ==
  ASSUME NEW m, NEW off \in Nat, NEW base, NEW strs
  PROVE  \E n, pos : Holds(m, off, off, base, strs, pos, n)
<1> DEFINE pos == [i \in 1 .. 0 + 1 |-> off]
<1>1. pos \in [1 .. 0 + 1 -> Nat] /\ pos[1] = off /\ pos[0 + 1] = off /\ 0 \in Nat /\ 1 .. 0 = {}
  OBVIOUS
<1> HIDE DEF pos
<1>2. Holds(m, off, off, base, strs, pos, 0)
  BY <1>1 DEF Holds, Walks
<1> QED BY <1>2

\* It is read as no token.
LEMMA NoTokens ==
  ASSUME IInv, size_dt_struct = 0
  PROVE  TokensNow = <<>>
<1> DEFINE z == off_dt_struct + size_dt_struct
<1>1. /\ off_dt_struct \in Nat /\ z = off_dt_struct /\ off_dt_struct <= z
      /\ off_dt_struct \in off_dt_struct .. z /\ mem \in Memory
  BY Numbers DEF IInv
<1> HIDE DEF z
<1>2. TokensRest(mem, off_dt_strings, off_dt_struct, z)[off_dt_struct] = <<>>
  BY <1>1, TokensRestIs
<1> QED BY <1>2, TokensNowAre DEF z

\* The same after a step.
LEMMA NoTokensNext ==
  ASSUME IInv', size_dt_struct' = 0
  PROVE  TokensNow' = <<>>
<1> DEFINE off == off_dt_struct'
           z == off_dt_struct' + size_dt_struct'
<1>0. /\ off_dt_struct' \in 0 .. MaxSize \/ off_dt_struct' = RsvOffset
      /\ MaxSize \in Nat /\ RsvOffset \in Nat /\ mem' \in Memory
  BY FdtSwAssumption DEF IInv, TypeOK, Memory, Cells
<1>1. off \in Nat /\ z = off /\ off <= z /\ off \in off .. z /\ z \in Nat  BY <1>0
<1> HIDE DEF z, off
<1>2. TokensRest(mem', off_dt_strings', off, z)[off] = <<>>
  BY <1>0, <1>1, TokensRestIs
<1> QED BY <1>2, TokensNextAre DEF z, off

\* A step that leaves memory, header and caller alone.
LEMMA UnchangedRefines ==
  ASSUME RInv, UNCHANGED <<mem, header, caller>>
  PROVE  RInv' /\ TokensNow' = TokensNow /\ ReservedNow' = ReservedNow /\ magic' = magic
<1>1. /\ mem' = mem /\ magic' = magic /\ totalsize' = totalsize /\ off_dt_struct' = off_dt_struct
      /\ size_dt_struct' = size_dt_struct /\ off_dt_strings' = off_dt_strings
      /\ size_dt_strings' = size_dt_strings /\ mapped' = mapped
  BY DEF header, caller
<1>2. TokensNow' = TokensNow
  BY <1>1, TokensNowAre, TokensNextAre
<1>3. ReservedNow' = ReservedNow
  BY <1>1 DEF ReservedNow
<1>4. RInv'
  BY <1>1 DEF RInv
<1> QED BY <1>1, <1>2, <1>3, <1>4

\* fdt_create.
LEMMA CreateRefines ==
  ASSUME IInv, RInv, IInv', NEW n \in 0 .. MaxSize, Create(n)
  PROVE  RInv' /\ (Stream!Create \/ Stream!Refuse)
<1>1. CASE Refused(Call("create", <<>>, <<>>)) /\ UNCHANGED <<mem, header, caller>>
  <2>1. ~reply'.ok  BY <1>1 DEF Refused
  <2> QED BY <1>1, <2>1, UnchangedRefines, Refuses
<1>2. CASE /\ Accepted(Call("create", <<>>, <<>>)) /\ magic' = "SW"
           /\ off_dt_struct' = RsvOffset /\ size_dt_struct' = 0
  <2>1. TokensNow' = <<>>  BY <1>2, NoTokensNext
  <2>2. ReservedNow' = <<>>
    <3>1. RsvOffset \in Nat /\ 1 .. RsvOffset - RsvOffset = {}  BY FdtSwAssumption
    <3> QED BY <1>2, <3>1 DEF ReservedNow
  <2>3. reply'.ok /\ magic # "SW"  BY <1>2 DEF Accepted, Create
  <2>4. Stream!Create  BY <1>2, <2>1, <2>2, <2>3 DEF Stream!Create
  <2>5. RInv'
    <3>1. RsvOffset \in Nat /\ RsvOffset + 0 = RsvOffset /\ ~(RsvOffset > RsvOffset)  BY FdtSwAssumption
    <3>2. \E l, pos : Holds(mem', RsvOffset, RsvOffset, totalsize', size_dt_strings', pos, l)
      BY <3>1, HoldsNothing
    <3> QED BY <1>2, <3>1, <3>2 DEF RInv
  <2> QED BY <2>4, <2>5
<1> QED BY <1>1, <1>2 DEF Create

\* fdt_resize: the stream does not notice.
LEMMA ResizeRefines ==
  ASSUME IInv, RInv, IInv', Kept, NEW b \in 0 .. MaxSize, Resize(b)
  PROVE  RInv' /\ TokensNow' = TokensNow /\ ReservedNow' = ReservedNow /\ magic' = magic /\ reply' = reply
<1> DEFINE off == off_dt_struct
           top == off_dt_struct + size_dt_struct
<1>1. /\ magic = "SW" /\ magic' = magic /\ reply' = reply /\ totalsize' = b /\ off_dt_strings' = b
      /\ b > totalsize /\ off_dt_struct + size_dt_strings <= b
      /\ UNCHANGED <<off_dt_struct, size_dt_struct, size_dt_strings, mapped>>
  BY DEF Resize, caller
<1>2. /\ off \in Nat /\ size_dt_struct \in Nat /\ top \in Nat /\ off <= top
      /\ RsvOffset \in Nat /\ off >= RsvOffset
      /\ totalsize \in Nat /\ b \in Nat /\ b <= MaxSize /\ MaxSize \in Nat /\ size_dt_strings \in Nat
      /\ off_dt_strings = totalsize /\ mem \in Memory
      /\ size_dt_strings <= b /\ size_dt_strings <= totalsize /\ size_dt_strings <= size_dt_strings
  BY <1>1, Numbers DEF IInv, Shape, BlocksFit
<1>3. mem' \in Memory  BY DEF IInv, TypeOK, Memory, Cells
<1>4. PICK n, pos : Holds(mem, off, top, totalsize, size_dt_strings, pos, n)
  BY <1>1 DEF RInv
<1>5. Same(mem, mem', off, top)
  <2>1. \A p \in off .. top - 1 : p \in RsvOffset .. top - 1  BY <1>2
  <2>2. Same(mem, mem', RsvOffset, top)  BY <1>1, KeptSame
  <2> QED BY <2>1, <2>2 DEF Same
<1>6. SameBelow(mem, totalsize, mem', b, size_dt_strings)
  BY <1>1, KeptSame
<1>7. HoldsAlso(mem, totalsize, mem', off, top, b, size_dt_strings, pos, n)
  <2> HIDE DEF off, top
  <2> QED BY <1>2, <1>3, <1>4, <1>5, <1>6, HoldsKept
<1>8. TokensNow = Tokens(mem, totalsize, pos, n)
  BY <1>2, <1>4, TokensHeld
<1>9. Holds(mem', off_dt_struct', off_dt_struct' + size_dt_struct',
            off_dt_strings', size_dt_strings', pos, n)
  BY <1>1, <1>7 DEF HoldsAlso
<1>10. TokensNow' = Tokens(mem', b, pos, n)
  BY <1>1, <1>9, TokensHeldNext
<1>11. \A p \in RsvOffset .. off - 1 : mem'[p] = mem[p]
  <2>1. \A p \in RsvOffset .. off - 1 : p \in RsvOffset .. top - 1  BY <1>2
  <2>2. Same(mem, mem', RsvOffset, top)  BY <1>1, KeptSame
  <2> QED BY <2>1, <2>2 DEF Same
<1>12. ReservedNow' = ReservedNow
  BY <1>1, <1>11, ReservedKept
<1>13. RInv'
  <2>1. off > RsvOffset => mem'[off - 1] = mem[off - 1]
    <3>1. off > RsvOffset => off - 1 \in RsvOffset .. off - 1  BY <1>2
    <3> QED BY <1>11, <3>1
  <2> QED BY <1>1, <1>9, <2>1 DEF RInv
<1> QED BY <1>1, <1>7, <1>8, <1>10, <1>12, <1>13 DEF HoldsAlso

\* fdt_add_reservemap_entry and fdt_finish_reservemap.
LEMMA AddEntryRefines ==
  ASSUME IInv, RInv, IInv', NEW e \in Entries \cup {0},
         magic = "SW", mapped => size_dt_struct > 0, AddEntry(e)
  PROVE  RInv' /\ (Stream!Reserve \/ Stream!Refuse)
<1>0. /\ UNCHANGED <<magic, totalsize, size_dt_struct, off_dt_strings, size_dt_strings, depth>>
  BY DEF AddEntry
<1>1. CASE Refused(EntryCall(e)) /\ UNCHANGED <<mem, off_dt_struct, mapped>>
  <2>1. ~reply'.ok  BY <1>1 DEF Refused
  <2>2. UNCHANGED <<mem, header, caller>>  BY <1>0, <1>1 DEF header, caller
  <2> QED BY <2>1, <2>2, UnchangedRefines, Refuses
<1>2. CASE /\ size_dt_struct = 0 /\ off_dt_struct + 1 <= totalsize
           /\ mem' = Written(mem, off_dt_struct, <<Cell("entry", e, 0)>>)
           /\ off_dt_struct' = off_dt_struct + 1
           /\ mapped' = (e = 0)
           /\ Accepted(EntryCall(e))
  <2>1. /\ off_dt_struct \in Nat /\ RsvOffset \in Nat /\ off_dt_struct >= RsvOffset /\ totalsize <= MaxSize
        /\ totalsize \in Nat /\ MaxSize \in Nat /\ mem \in Memory
        /\ ~mapped /\ mapped \in BOOLEAN /\ e \in Int
        /\ off_dt_struct \in 0 .. MaxSize - 1 /\ DOMAIN mem = 0 .. MaxSize - 1
    <3>1. mem \in Memory /\ e \in Int /\ mapped \in BOOLEAN  BY Numbers, FdtSwAssumption DEF IInv
    <3>2. DOMAIN mem = 0 .. MaxSize - 1  BY <3>1 DEF Memory
    <3>3. /\ off_dt_struct \in Nat /\ RsvOffset \in Nat /\ off_dt_struct >= RsvOffset
          /\ totalsize <= MaxSize /\ totalsize \in Nat /\ MaxSize \in Nat
      BY Numbers DEF IInv, Shape
    <3> QED BY <1>2, <3>1, <3>2, <3>3
  <2>2. <<Cell("entry", e, 0)>> \in Seq(Cells) /\ Len(<<Cell("entry", e, 0)>>) = 1
    <3>1. Cell("entry", e, 0) \in Cells  BY <2>1, CellType DEF Tags
    <3> QED BY <3>1
  <2>3. mem'[off_dt_struct].x = e
    <3>1. /\ off_dt_struct \in off_dt_struct .. off_dt_struct + 1 - 1
          /\ off_dt_struct - off_dt_struct + 1 = 1
      BY <2>1
    <3>2. mem'[off_dt_struct] = <<Cell("entry", e, 0)>>[1]  BY <1>2, <2>1, <2>2, <3>1 DEF Written
    <3> QED BY <3>2 DEF Cell
  <2>4. ASSUME NEW i \in 1 .. off_dt_struct - RsvOffset
        PROVE  mem'[RsvOffset + i - 1] = mem[RsvOffset + i - 1]
    <3>1. RsvOffset + i - 1 \in 0 .. MaxSize - 1 /\ RsvOffset + i - 1 < off_dt_struct  BY <2>1
    <3> QED BY <1>2, <2>1, <2>2, <3>1, WrittenElsewhere
  <2>5. ReservedNow' = Append(ReservedNow, EntryCall(e))
    <3> DEFINE k == off_dt_struct - RsvOffset
               v == [i \in 1 .. k |-> EntryCall(mem[RsvOffset + i - 1].x)]
               w == [i \in 1 .. k + 1 |-> EntryCall(mem'[RsvOffset + i - 1].x)]
    <3>1. k \in Nat /\ off_dt_struct' - RsvOffset = k + 1 /\ RsvOffset + (k + 1) - 1 = off_dt_struct
          /\ k + 1 \in 1 .. k + 1
      BY <1>2, <2>1
    <3>2. ASSUME NEW i \in 1 .. k PROVE w[i] = v[i]
      <4>1. i \in 1 .. k + 1  BY <3>1
      <4>2. mem'[RsvOffset + i - 1] = mem[RsvOffset + i - 1]  BY <2>4
      <4> HIDE DEF k
      <4> QED BY <4>1, <4>2
    <3>3. w[k + 1] = EntryCall(e)
      <4> HIDE DEF k
      <4> QED BY <2>3, <3>1
    <3>4. ReservedNow = FirstOf(v, k) /\ ReservedNow' = FirstOf(w, k + 1)
      <4>1. ReservedNow = v  BY DEF ReservedNow
      <4>2. ReservedNow' = [i \in 1 .. off_dt_struct' - RsvOffset |-> EntryCall(mem'[RsvOffset + i - 1].x)]
        BY DEF ReservedNow
      <4>3. ReservedNow' = w
        <5> HIDE DEF k
        <5> QED BY <3>1, <4>2
      <4> HIDE DEF k
      <4> QED BY <4>1, <4>3 DEF FirstOf
    <3> HIDE DEF k, v, w
    <3> QED BY <3>1, <3>2, <3>3, <3>4, FirstAppend
  <2>6. TokensNow = <<>> /\ TokensNow' = <<>>  BY <1>0, <1>2, NoTokens, NoTokensNext
  <2>7. ~Stream!Mapped  BY <2>1, MappedIs
  <2>8. Stream!Reserve
    <3>1. reply'.ok /\ reply'.call = EntryCall(e)  BY <1>2 DEF Accepted
    <3> QED BY <1>0, <2>5, <2>6, <2>7, <3>1 DEF Stream!Reserve
  <2>9. RInv'
    <3>1. /\ off_dt_struct' \in Nat /\ off_dt_struct' + size_dt_struct' = off_dt_struct'
          /\ off_dt_struct' - 1 = off_dt_struct
      BY <1>0, <1>2, <2>1
    <3>2. \E l, pos : Holds(mem', off_dt_struct', off_dt_struct', totalsize', size_dt_strings', pos, l)
      BY <3>1, HoldsNothing
    <3>3. mem'[off_dt_struct' - 1].x = 0 <=> mapped'  BY <1>2, <2>3, <3>1
    <3> QED BY <3>1, <3>2, <3>3 DEF RInv
  <2> QED BY <2>8, <2>9
<1> QED BY <1>1, <1>2 DEF AddEntry

\* The cells of fdt_begin_node and fdt_end_node say their calls.
LEMMA NodeSays ==
  /\ \A m, strs : \A n \in NodeNames : Says(m, strs, <<Cell("begin", n, 0)>>, Call("begin", <<n>>, <<>>))
  /\ \A m, strs : Says(m, strs, <<Cell("end_node", 0, 0)>>, Call("end_node", <<>>, <<>>))
BY DEF Says, Cell, NextTag

\* The memory as it is will do for a token without a new name.
LEMMA SameHere ==
  /\ Same(mem, mem, RsvOffset, off_dt_struct + size_dt_struct)
  /\ SameBelow(mem, totalsize, mem, totalsize, size_dt_strings)
BY DEF Same, SameBelow

\* fdt_begin_node.
LEMMA BeginNodeRefines ==
  ASSUME IInv, RInv, IInv', Kept, NEW n \in NodeNames, BeginNode(n)
  PROVE  RInv' /\ (Stream!Put \/ Stream!Refuse)
<1> DEFINE s == <<Cell("begin", n, 0)>>
           c == Call("begin", <<n>>, <<>>)
<1>1. s \in Seq(Cells)
  <2>1. n \in Int  BY FdtSwAssumption
  <2>2. Cell("begin", n, 0) \in Cells  BY <2>1, CellType DEF Tags
  <2> QED BY <2>2
<1>2. mem \in Memory /\ size_dt_strings \in Nat /\ size_dt_strings <= size_dt_strings
  BY Numbers DEF IInv
<1>3. mapped /\ off_dt_struct + size_dt_struct + size_dt_strings <= totalsize
  BY InNode DEF BeginNode
<1>4. /\ magic = "SW" /\ Grab(mem, size_dt_strings, s, c)
      /\ UNCHANGED <<magic, totalsize, off_dt_struct, off_dt_strings, mapped>>
  BY DEF BeginNode
<1>5. Says(mem, size_dt_strings, s, c)  BY NodeSays
<1> HIDE DEF s, c
<1> QED BY <1>1, <1>2, <1>3, <1>4, <1>5, SameHere, GrabRefines

\* fdt_end_node.
LEMMA EndNodeRefines ==
  ASSUME IInv, RInv, IInv', Kept, EndNode
  PROVE  RInv' /\ (Stream!Put \/ Stream!Refuse)
<1> DEFINE s == <<Cell("end_node", 0, 0)>>
           c == Call("end_node", <<>>, <<>>)
<1>1. s \in Seq(Cells)  BY CellType DEF Tags
<1>2. mem \in Memory /\ size_dt_strings \in Nat /\ size_dt_strings <= size_dt_strings
  BY Numbers DEF IInv
<1>3. mapped /\ off_dt_struct + size_dt_struct + size_dt_strings <= totalsize
  BY InNode DEF EndNode
<1>4. /\ magic = "SW" /\ Grab(mem, size_dt_strings, s, c)
      /\ UNCHANGED <<magic, totalsize, off_dt_struct, off_dt_strings, mapped>>
  BY DEF EndNode
<1>5. Says(mem, size_dt_strings, s, c)  BY NodeSays
<1> HIDE DEF s, c
<1> QED BY <1>1, <1>2, <1>3, <1>4, <1>5, SameHere, GrabRefines

\* A name is read where its characters lie.
LEMMA ReadsChars ==
  ASSUME NEW m \in Memory, NEW name \in Names, NEW at \in Nat, at + Len(Chars(name)) <= MaxSize,
         \A i \in 1 .. Len(Chars(name)) : m[at + i - 1] = Chars(name)[i]
  PROVE  Reads(m, at, name)
<1>1. name \in Seq(Nat \ {0}) /\ name \in Seq(Int) /\ Len(name) \in Nat /\ Len(Chars(name)) = Len(name) + 1
      /\ MaxSize \in Nat
  BY CharsType, FdtSwAssumption
<1>2. ASSUME NEW i \in 1 .. Len(name) PROVE m[at + i - 1] # Zero /\ m[at + i - 1].x = name[i]
  <2>1. i \in 1 .. Len(name) + 1 /\ i <= Len(name) /\ name[i] # 0  BY <1>1
  <2>2. m[at + i - 1] = Cell("chr", name[i], 0)  BY <1>1, <2>1 DEF Chars
  <2>3. Cell("chr", name[i], 0) # Zero /\ Cell("chr", name[i], 0).x = name[i]  BY <2>1 DEF Cell, Zero
  <2> QED BY <2>2, <2>3
<1>3. m[at + Len(name)] = Zero
  <2>1. /\ Len(name) + 1 \in 1 .. Len(name) + 1 /\ ~(Len(name) + 1 <= Len(name))
        /\ at + (Len(name) + 1) - 1 = at + Len(name)
    BY <1>1
  <2>2. Chars(name)[Len(name) + 1] = Zero  BY <2>1 DEF Chars
  <2> QED BY <1>1, <2>1, <2>2
<1> QED BY <1>1, <1>2, <1>3 DEF Reads

\* The cells of fdt_property, with the offset of a name that lies among the strings, say its call.
LEMMA PropSays ==
  ASSUME NEW m \in Memory, NEW name \in Names, NEW val \in Values, NEW strs \in Nat, NEW at \in Nat,
         totalsize \in Nat, totalsize <= MaxSize, totalsize - strs <= at,
         at + Len(Chars(name)) <= totalsize,
         \A i \in 1 .. Len(Chars(name)) : m[at + i - 1] = Chars(name)[i],
         NEW nameoff \in Int, totalsize + nameoff = at,
         NEW s, s = [i \in 1 .. Len(val) + 1 |-> IF i = 1 THEN Cell("prop", nameoff, Len(val))
                                                ELSE Cell("data", val[i - 1], 0)]
  PROVE  Says(m, strs, s, Call("prop", name, val))
<1>1. val \in Seq(Nat) /\ Len(val) \in Nat /\ MaxSize \in Nat /\ name \in Seq(Int) /\ Len(name) \in Nat
      /\ Len(Chars(name)) = Len(name) + 1
  BY CharsType, FdtSwAssumption
<1>2. Len(s) = Len(val) + 1 /\ s[1] = Cell("prop", nameoff, Len(val))
  BY <1>1
<1>3. ASSUME NEW k \in 1 .. Len(val) PROVE s[1 + k] = Cell("data", val[k], 0)
  <2>1. 1 + k \in 1 .. Len(val) + 1 /\ 1 + k # 1 /\ 1 + k - 1 = k  BY <1>1
  <2> QED BY <2>1
<1>4. s[1].tag = "prop" /\ s[1].x = nameoff /\ s[1].y = Len(val)  BY <1>2 DEF Cell
<1>5. \A k \in 1 .. Len(val) : s[1 + k].tag = "data" /\ s[1 + k].x = val[k]  BY <1>3 DEF Cell
<1>6. Reads(m, at, name)
  <2>1. at + Len(Chars(name)) <= MaxSize  BY <1>1
  <2> QED BY <2>1, ReadsChars
<1>7. Str(m, at) = name  BY <1>6, StrIs
<1>8. Named(m, totalsize - strs, totalsize, at)
  <2>1. at + Len(name) < totalsize  BY <1>1
  <2> QED BY <1>1, <1>6, <2>1 DEF Named
<1>9. val = [i \in 1 .. Len(val) |-> s[1 + i].x]
  <2>1. val = [i \in 1 .. Len(val) |-> val[i]]  BY <1>1
  <2>2. [i \in 1 .. Len(val) |-> val[i]] = [i \in 1 .. Len(val) |-> s[1 + i].x]  BY <1>5
  <2> QED BY <2>1, <2>2
<1>10. Len(s) > 0 /\ Len(s) = NextTag(s[1])  BY <1>1, <1>2, <1>4 DEF NextTag
<1> QED BY <1>4, <1>5, <1>7, <1>8, <1>9, <1>10 DEF Says

\* fdt_property: the name found, added, or added in vain.
LEMMA PropertyRefines ==
  ASSUME IInv, RInv, IInv', Kept, NEW name \in Names, NEW val \in Values, Property(name, val)
  PROVE  RInv' /\ (Stream!Put \/ Stream!Refuse)
<1> DEFINE c == Call("prop", name, val)
           strs == size_dt_strings + Len(Chars(name))
           Prop(nameoff) ==
             [i \in 1 .. Len(val) + 1 |-> IF i = 1 THEN Cell("prop", nameoff, Len(val))
                                         ELSE Cell("data", val[i - 1], 0)]
<1>1. /\ magic = "SW" /\ depth > 0
      /\ UNCHANGED <<magic, totalsize, off_dt_struct, off_dt_strings, caller>>
  BY DEF Property
<1>2. mapped /\ off_dt_struct + size_dt_struct + size_dt_strings <= totalsize
      /\ UNCHANGED <<magic, totalsize, off_dt_struct, off_dt_strings, mapped>>
  BY <1>1, InNode DEF caller
<1>3. /\ mem \in Memory /\ size_dt_strings \in Nat /\ totalsize \in Nat /\ size_dt_struct \in Nat
      /\ off_dt_struct \in Nat /\ totalsize <= MaxSize /\ MaxSize \in Nat /\ RsvOffset \in Nat
  BY Numbers DEF IInv
<1>4. Chars(name) \in Seq(Cells) /\ Len(Chars(name)) \in Nat
  BY CharsType, FdtSwAssumption
<1>5. ASSUME NEW p \in Found(name), Grab(mem, size_dt_strings, Prop(p - totalsize), c)
      PROVE  RInv' /\ (Stream!Put \/ Stream!Refuse)
  <2>1. /\ p \in Nat /\ p - totalsize \in Int /\ totalsize + (p - totalsize) = p
        /\ totalsize - size_dt_strings <= p /\ p + Len(Chars(name)) <= totalsize
    BY <1>2, <1>3, <1>4 DEF Found
  <2>2. \A i \in 1 .. Len(Chars(name)) : mem[p + i - 1] = Chars(name)[i]
    BY DEF Found
  <2>3. Prop(p - totalsize) \in Seq(Cells)
    BY <2>1, PropType
  <2> DEFINE s == Prop(p - totalsize)
             o == p - totalsize
  <2>4. Says(mem, size_dt_strings, s, c)
    <3>1. s = [i \in 1 .. Len(val) + 1 |-> IF i = 1 THEN Cell("prop", o, Len(val))
                                          ELSE Cell("data", val[i - 1], 0)]
          /\ o \in Int /\ totalsize + o = p
      BY <2>1
    <3> HIDE DEF s, o
    <3> QED BY <1>3, <2>1, <2>2, <3>1, PropSays
  <2>5. size_dt_strings <= size_dt_strings  BY <1>3
  <2>6. Grab(mem, size_dt_strings, s, c)  BY <1>5
  <2> HIDE DEF s, c
  <2> QED BY <1>1, <1>2, <1>3, <2>3, <2>4, <2>5, <2>6, SameHere, GrabRefines DEF s
<1>6. ASSUME StringFits(name), Grab(Written(mem, totalsize - strs, Chars(name)), strs, Prop(-strs), c)
      PROVE  RInv' /\ (Stream!Put \/ Stream!Refuse)
  <2> DEFINE at == totalsize - strs
             m == Written(mem, at, Chars(name))
             s == Prop(-strs)
             o == -strs
  <2>1. strs \in Nat /\ -strs \in Int /\ size_dt_strings <= strs
    BY <1>3, <1>4
  <2>2. s \in Seq(Cells)
    BY <2>1, PropType
  <2>3. off_dt_struct + size_dt_struct + strs <= totalsize
    BY <1>1, <1>2, <1>3, <1>4, <1>6, StringFitsBelow
  <2>4. /\ at \in Nat /\ totalsize - strs <= at /\ at + Len(Chars(name)) <= totalsize
        /\ totalsize + o = at /\ o \in Int
    BY <1>3, <1>4, <2>1, <2>3
  <2>5. m \in Memory
    <3> HIDE DEF at
    <3> QED BY <1>3, <1>4, <2>4, WrittenType
  <2>6. Same(mem, m, RsvOffset, off_dt_struct + size_dt_struct)
    <3> SUFFICES ASSUME NEW p \in RsvOffset .. off_dt_struct + size_dt_struct - 1
                 PROVE  m[p] = mem[p]
      BY <1>3 DEF Same
    <3>1. p \in 0 .. MaxSize - 1 /\ p < at
      BY <1>3, <2>1, <2>3
    <3> QED BY <1>3, <1>4, <2>4, <3>1, WrittenElsewhere
  <2>7. SameBelow(mem, totalsize, m, totalsize, size_dt_strings)
    <3> SUFFICES ASSUME NEW k \in 1 .. size_dt_strings
                 PROVE  m[totalsize - k] = mem[totalsize - k]
      BY DEF SameBelow
    <3>1. totalsize - k \in 0 .. MaxSize - 1 /\ totalsize - k >= at + Len(Chars(name))
      BY <1>2, <1>3, <1>4
    <3> QED BY <1>3, <1>4, <2>4, <3>1, WrittenElsewhere
  <2>8. \A i \in 1 .. Len(Chars(name)) : m[at + i - 1] = Chars(name)[i]
    <3> SUFFICES ASSUME NEW i \in 1 .. Len(Chars(name)) PROVE m[at + i - 1] = Chars(name)[i]
      OBVIOUS
    <3>1. DOMAIN mem = 0 .. MaxSize - 1  BY <1>3 DEF Memory
    <3> HIDE DEF at
    <3>2. /\ at + i - 1 \in DOMAIN mem /\ at + i - 1 \in at .. at + Len(Chars(name)) - 1
          /\ at + i - 1 - at + 1 = i
      BY <1>3, <1>4, <2>4, <3>1
    <3> QED BY <1>4, <2>4, <3>2 DEF Written
  <2>9. Says(m, strs, s, c)
    <3>1. s = [i \in 1 .. Len(val) + 1 |-> IF i = 1 THEN Cell("prop", o, Len(val))
                                          ELSE Cell("data", val[i - 1], 0)]
      OBVIOUS
    <3> HIDE DEF s, o, m, at, strs
    <3>2. totalsize - strs <= at  BY <2>4
    <3> QED BY <1>3, <2>1, <2>4, <2>5, <2>8, <3>1, <3>2, PropSays
  <2>10. Grab(m, strs, s, c)  BY <1>6
  <2> HIDE DEF s, c, m, strs, at
  <2> QED BY <1>1, <1>2, <2>1, <2>2, <2>3, <2>5, <2>6, <2>7, <2>9, <2>10, GrabRefines
<1>7. ASSUME Refused(c), UNCHANGED <<mem, size_dt_struct, size_dt_strings>>
      PROVE  RInv' /\ (Stream!Put \/ Stream!Refuse)
  <2>1. ~reply'.ok  BY <1>7 DEF Refused
  <2>2. UNCHANGED <<mem, header, caller>>  BY <1>1, <1>7 DEF header
  <2> QED BY <2>1, <2>2, UnchangedRefines, Refuses
<1> QED BY <1>5, <1>6, <1>7 DEF Property

\* What fdt_finish makes of the memory: the structure as it was, its end, and the strings behind it,
\* with the offsets of the names corrected.
LEMMA FinishRefines ==
  ASSUME IInv, RInv, IInv', Kept, Finish
  PROVE  RInv' /\ (Stream!Finish \/ Stream!Refuse)
<1> DEFINE c == Call("finish", <<>>, <<>>)
           off == off_dt_struct
           size == size_dt_struct + 1
           z == off_dt_struct + size_dt_struct
           newstroffset == off_dt_struct + size
           from == totalsize - size_dt_strings
           w == Written(mem, newstroffset - 1, <<Cell("end", 0, 0)>>)
           m == Moved(w, from, newstroffset, size_dt_strings)
<1>1. TypeOK /\ BlocksFit /\ Shape
  BY DEF IInv
<1>2. /\ magic = "SW" /\ depth = 0 /\ size_dt_struct > 0
      /\ UNCHANGED <<off_dt_struct, size_dt_strings, caller>>
  BY DEF Finish
<1>3. mapped
  BY <1>1, <1>2, Numbers DEF Shape
<1>4. off_dt_struct + size_dt_struct + size_dt_strings <= totalsize /\ off_dt_struct > RsvOffset
      /\ off_dt_strings = totalsize
  BY <1>1, <1>2, <1>3 DEF BlocksFit, Shape
<1>5. /\ mem \in Memory /\ size_dt_strings \in Nat /\ totalsize \in Nat /\ size_dt_struct \in Nat
      /\ off_dt_struct \in Nat /\ totalsize <= MaxSize /\ MaxSize \in Nat /\ RsvOffset \in Nat
  BY <1>1, Numbers
<1>6. CASE /\ Refused(c)
           /\ UNCHANGED <<mem, magic, totalsize, size_dt_struct, off_dt_strings>>
  <2>1. ~reply'.ok  BY <1>6 DEF Refused
  <2>2. UNCHANGED <<mem, header, caller>>  BY <1>2, <1>6 DEF header
  <2> QED BY <2>1, <2>2, UnchangedRefines, Refuses
<1>7. CASE /\ Room(size_dt_strings, 1) /\ Accepted(c)
           /\ mem' = [p \in DOMAIN m |->
                        IF p \in PropsAt(m, size) THEN [m[p] EXCEPT !.x = @ + size_dt_strings]
                        ELSE m[p]]
           /\ magic' = "FDT" /\ size_dt_struct' = size
           /\ off_dt_strings' = newstroffset /\ totalsize' = newstroffset + size_dt_strings
  <2>1. newstroffset + size_dt_strings <= totalsize /\ newstroffset = z + 1 /\ newstroffset - 1 = z
        /\ z \in Nat /\ off <= z /\ z < MaxSize /\ z + size_dt_strings < totalsize
        /\ size \in Nat /\ size > 0 /\ off + size - 1 = z /\ off + size <= MaxSize /\ off > RsvOffset
        /\ from \in Nat /\ newstroffset <= from /\ from + size_dt_strings = totalsize
        /\ newstroffset \in Nat
    <3>1. off_dt_struct + size_dt_struct + 1 + size_dt_strings <= totalsize
      BY <1>2, <1>3, <1>4, <1>5, <1>7, RoomFits
    <3> QED BY <1>2, <1>4, <1>5, <3>1
  <2>2. w \in Memory /\ m \in Memory
    <3>1. <<Cell("end", 0, 0)>> \in Seq(Cells) /\ newstroffset - 1 \in Int
      BY <2>1, CellType DEF Tags
    <3>2. w \in Memory
      BY <1>5, <3>1, WrittenType
    <3>3. from + size_dt_strings <= MaxSize
      BY <1>5, <2>1
    <3> HIDE DEF w, from, newstroffset
    <3> QED BY <1>5, <2>1, <3>2, <3>3, MovedType
  <2>3. \A p \in 0 .. MaxSize - 1 : p < z => w[p] = mem[p]
    <3> SUFFICES ASSUME NEW p \in 0 .. MaxSize - 1, p < z PROVE w[p] = mem[p]
      OBVIOUS
    <3>1. <<Cell("end", 0, 0)>> \in Seq(Cells)
      BY CellType DEF Tags
    <3>2. newstroffset - 1 \in Nat /\ p < newstroffset - 1  BY <2>1
    <3> HIDE DEF newstroffset
    <3> QED BY <1>5, <3>1, <3>2, WrittenElsewhere
  <2>4. w[z] = Cell("end", 0, 0) /\ \A p \in 0 .. MaxSize - 1 : p > z => w[p] = mem[p]
    <3>1. DOMAIN mem = 0 .. MaxSize - 1  BY <1>5 DEF Memory
    <3>2. z \in DOMAIN mem /\ z - z + 1 = 1 /\ z .. z + 1 - 1 = {z} /\ Len(<<Cell("end", 0, 0)>>) = 1
      BY <2>1, <3>1, <1>5
    <3>3. w = Written(mem, z, <<Cell("end", 0, 0)>>)  BY <2>1
    <3> HIDE DEF w, z
    <3>4. w[z] = Cell("end", 0, 0)
      BY <3>2, <3>3 DEF Written
    <3>5. ASSUME NEW p \in 0 .. MaxSize - 1, p > z PROVE w[p] = mem[p]
      <4>1. p \notin {z}  BY <2>1, <3>5
      <4> QED BY <3>1, <3>2, <3>3, <4>1 DEF Written
    <3> QED BY <3>4, <3>5
  <2>5. \A p \in 0 .. MaxSize - 1 : p <= z => m[p] = w[p]
    <3> SUFFICES ASSUME NEW p \in 0 .. MaxSize - 1, p <= z PROVE m[p] = w[p]
      OBVIOUS
    <3>1. p \notin newstroffset .. newstroffset + size_dt_strings - 1  BY <1>5, <2>1
    <3>2. DOMAIN w = 0 .. MaxSize - 1  BY <2>2 DEF Memory
    <3> HIDE DEF w, newstroffset, from
    <3> QED BY <3>1, <3>2 DEF Moved
  <2>6. ASSUME NEW q \in from .. totalsize - 1
        PROVE  /\ m[q + (newstroffset - from)] = mem[q]
               /\ q + (newstroffset - from) \in newstroffset .. MaxSize - 1
    <3> DEFINE p == q + (newstroffset - from)
    <3>1. /\ p \in newstroffset .. newstroffset + size_dt_strings - 1 /\ p - newstroffset + from = q
          /\ p \in 0 .. MaxSize - 1 /\ q \in 0 .. MaxSize - 1 /\ q > z /\ p \in newstroffset .. MaxSize - 1
      BY <1>5, <2>1
    <3>2. DOMAIN w = 0 .. MaxSize - 1  BY <2>2 DEF Memory
    <3>3. w[q] = mem[q]  BY <2>4, <3>1
    <3> HIDE DEF w, newstroffset, from, p
    <3>4. m[p] = w[q]  BY <3>1, <3>2 DEF Moved
    <3> QED BY <3>1, <3>3, <3>4 DEF p
  <2>7. PICK n, pos : Holds(mem, off, z, totalsize, size_dt_strings, pos, n)
    BY <1>2 DEF RInv
  <2>8. Walks(mem, off, z, pos, n)  BY <2>7 DEF Holds
  <2> DEFINE props == {pos[i] : i \in {j \in 1 .. n : m[pos[j]].tag = "prop"}}
  <2>9. m[z].tag = "end" /\ z \in 0 .. MaxSize - 1
    <3>1. z \in 0 .. MaxSize - 1  BY <1>5, <2>1
    <3>2. m[z] = Cell("end", 0, 0)  BY <2>1, <2>4, <2>5, <3>1
    <3> HIDE DEF m, z
    <3> QED BY <3>1, <3>2 DEF Cell
  <2>10. Same(mem, m, off, z)
    <3> SUFFICES ASSUME NEW p \in off .. z - 1 PROVE m[p] = mem[p]
      BY DEF Same
    <3>1. p \in 0 .. MaxSize - 1 /\ p < z /\ p <= z  BY <1>5, <2>1
    <3> HIDE DEF m, w, z
    <3> QED BY <2>3, <2>5, <3>1
  <2>11. Walks(m, off, z, pos, n)
    <3>1. \A i \in 1 .. n : pos[i] \in off .. z - 1
      <4> HIDE DEF m, z, off
      <4> QED BY <1>5, <2>1, <2>8, PlaceIs DEF off
    <3>2. \A i \in 1 .. n : m[pos[i]] = mem[pos[i]]
      <4> HIDE DEF m, z, off
      <4> QED BY <2>10, <3>1 DEF Same
    <3> HIDE DEF m, z, off
    <3> QED BY <2>8, <3>2 DEF Walks
  <2>12. PropsAt(m, size) = props
    <3> HIDE DEF m, size
    <3>1. off \in Nat /\ Walks(m, off, off + size - 1, pos, n) /\ m[off + size - 1].tag = "end"
      BY <1>5, <2>1, <2>9, <2>11
    <3> HIDE DEF off, z
    <3> QED BY <2>1, <2>2, <3>1, PropsAre DEF off
  <2>13. \A p \in 0 .. MaxSize - 1 :
           mem'[p] = IF p \in props THEN [m[p] EXCEPT !.x = @ + size_dt_strings] ELSE m[p]
    <3>1. DOMAIN m = 0 .. MaxSize - 1  BY <2>2 DEF Memory
    <3> HIDE DEF m, props, size
    <3> QED BY <1>7, <2>12, <3>1
  <2>14. props \subseteq off .. z - 1 /\ \A p \in props : m[p].tag = "prop"
    <3>1. \A i \in 1 .. n : pos[i] \in off .. z - 1
      <4> HIDE DEF m, z, off
      <4> QED BY <1>5, <2>1, <2>8, PlaceIs DEF off
    <3> HIDE DEF m, z, off
    <3> QED BY <3>1
  <2>15. \A p \in 0 .. MaxSize - 1 : p < z /\ m[p].tag # "prop" => mem'[p] = mem[p]
    <3> SUFFICES ASSUME NEW p \in 0 .. MaxSize - 1, p < z, m[p].tag # "prop" PROVE mem'[p] = mem[p]
      OBVIOUS
    <3>1. p <= z  BY <2>1
    <3> HIDE DEF m, w, z, props
    <3>2. m[p] = mem[p]  BY <2>3, <2>5, <3>1
    <3> QED BY <2>13, <2>14, <3>2
  <2>16. \A p \in 0 .. MaxSize - 1 : p >= z => mem'[p] = m[p]
    <3> SUFFICES ASSUME NEW p \in 0 .. MaxSize - 1, p >= z PROVE mem'[p] = m[p]
      OBVIOUS
    <3>1. p \notin off .. z - 1  BY <1>5, <2>1
    <3> HIDE DEF m, z, off, props
    <3> QED BY <2>13, <2>14, <3>1
  <2> DEFINE d == newstroffset - from
  <2>17. Shifted(mem, mem', from, totalsize, d)
    <3> SUFFICES ASSUME NEW q \in from .. totalsize - 1 PROVE mem'[q + d] = mem[q]
      BY DEF Shifted
    <3>1. m[q + d] = mem[q] /\ q + d \in newstroffset .. MaxSize - 1  BY <2>6
    <3>2. q + d \in 0 .. MaxSize - 1 /\ q + d >= z  BY <1>5, <2>1, <3>1
    <3> HIDE DEF m, z, d
    <3> QED BY <2>16, <3>1, <3>2
  <2>18. ASSUME NEW i \in 1 .. n PROVE Alike(mem, totalsize, mem', newstroffset, pos[i])
    <3> DEFINE p == pos[i]
    <3>1. /\ p \in off .. z - 1 /\ p \in 0 .. MaxSize - 1 /\ p < z /\ mem[p] \in Cells
          /\ mem[p].y \in Nat /\ mem[p].x \in Int
          /\ mem[p].tag = "prop" => p + mem[p].y < z
      <4>1. /\ p \in off .. z - 1 /\ p \in 0 .. MaxSize - 1 /\ mem[p] \in Cells
            /\ mem[p].y \in Nat /\ mem[p].x \in Int
            /\ mem[p].tag = "prop" => p + mem[p].y < z
        <5> HIDE DEF z, off
        <5> QED BY <1>5, <2>1, <2>8, PlaceIs DEF off
      <4>2. p < z  BY <1>5, <4>1
      <4> HIDE DEF z, off, p
      <4> QED BY <4>1, <4>2
    <3>2. m[p] = mem[p]
      <4> HIDE DEF m, z, off, p
      <4> QED BY <2>10, <3>1 DEF Same
    <3>3. CASE mem[p].tag # "prop"
      <4>1. mem'[p] = mem[p]
        <5> HIDE DEF m, z, off, p
        <5> QED BY <2>15, <3>1, <3>2, <3>3
      <4> HIDE DEF newstroffset
      <4> QED BY <3>3, <4>1 DEF Alike
    <3>4. CASE mem[p].tag = "prop"
      <4>1. p \in props  BY <3>2, <3>4
      <4>2. mem'[p] = [mem[p] EXCEPT !.x = @ + size_dt_strings]
        <5> HIDE DEF m, props, p, z, off
        <5> QED BY <2>13, <3>1, <3>2, <4>1
      <4>3. mem'[p].tag = mem[p].tag /\ mem'[p].y = mem[p].y /\ mem'[p].x = mem[p].x + size_dt_strings
        <5> HIDE DEF p, z, off
        <5> QED BY <3>1, <4>2 DEF Cells
      <4>4. Named(mem, from, totalsize, totalsize + mem[p].x)
            /\ \A k \in 1 .. mem[p].y : mem[p + k].tag = "data"
        BY <2>7, <3>4 DEF Holds
      <4> DEFINE at == totalsize + mem[p].x
      <4>5. /\ at \in Int /\ from \in Int /\ totalsize \in Int /\ d \in Int /\ from + d >= 0
            /\ totalsize + d <= MaxSize /\ at + d = newstroffset + mem'[p].x
        <5> HIDE DEF p
        <5> QED BY <1>5, <2>1, <3>1, <4>3
      <4>6. Str(mem', at + d) = Str(mem, at)
        <5>1. mem' \in Memory  BY DEF IInv, TypeOK, Memory, Cells
        <5>2. Named(mem, from, totalsize, at)  BY <4>4
        <5> HIDE DEF at, from, d, p
        <5>3. Named(mem', from + d, totalsize + d, at + d) /\ Str(mem', at + d) = Str(mem, at)
          BY <1>5, <2>17, <4>5, <5>1, <5>2, NamedMoved
        <5> QED BY <5>3
      <4>7. ASSUME NEW k \in 1 .. mem[p].y PROVE mem'[p + k].x = mem[p + k].x
        <5>1. p + k \in 0 .. MaxSize - 1 /\ p + k < z /\ p + k \in off .. z - 1
          <6> HIDE DEF p
          <6> QED BY <1>5, <2>1, <3>1, <3>4
        <5>2. m[p + k] = mem[p + k]
          <6> HIDE DEF m, z, off, p
          <6> QED BY <2>10, <5>1 DEF Same
        <5>3. m[p + k].tag # "prop"
          <6> HIDE DEF m, p
          <6> QED BY <4>4, <5>2
        <5> HIDE DEF m, z, p
        <5> QED BY <2>15, <5>1, <5>3
      <4>8. Str(mem', newstroffset + mem'[p].x) = Str(mem, totalsize + mem[p].x)
        BY <4>5, <4>6
      <4> HIDE DEF newstroffset, at, d, p
      <4> QED BY <3>4, <4>3, <4>7, <4>8 DEF Alike, p
    <3> QED BY <3>3, <3>4
  <2>19. /\ Walks(mem', off, z, pos, n)
         /\ \A i \in 1 .. n : TokenIn(mem', newstroffset, pos[i]) = TokenIn(mem, totalsize, pos[i])
    <3>1. AllAlike(mem, totalsize, mem', newstroffset, pos, n)
      <4> HIDE DEF newstroffset
      <4> QED BY <2>18 DEF AllAlike
    <3>2. mem' \in Memory  BY DEF IInv, TypeOK, Memory, Cells
    <3> HIDE DEF newstroffset, off, z
    <3> QED BY <1>5, <2>1, <2>8, <3>1, <3>2, WalksAlike DEF off
  <2>20. mem'[z].tag = "end"
    <3>1. z >= z  BY <2>1
    <3> HIDE DEF m, z
    <3> QED BY <2>9, <2>16, <3>1
  <2>21. TokensNow' = TokensNow
    <3>1. TokensNow = Tokens(mem, totalsize, pos, n)
      BY <1>4, <2>7, TokensHeld
    <3>2. TokensNow' = TokensRest(mem', newstroffset, off, z + 1)[off]
      <4>1. /\ off_dt_struct' + size_dt_struct' = z + 1 /\ off_dt_struct' = off
            /\ off_dt_strings' = newstroffset
        BY <1>2, <1>5, <1>7, <2>1
      <4> HIDE DEF z, off, newstroffset
      <4> QED BY <4>1, TokensNextAre
    <3>3. TokensRest(mem', newstroffset, off, z + 1)[off] =
            [i \in 1 .. n |-> TokenIn(mem', newstroffset, pos[i])]
      <4>1. z < z + 1 /\ z + 1 \in Nat /\ z \in Nat /\ off \in Nat  BY <1>5, <2>1
      <4>2. mem' \in Memory  BY DEF IInv, TypeOK, Memory, Cells
      <4> DEFINE t == z + 1
      <4>3. z = t \/ (z < t /\ z < MaxSize /\ mem'[z].tag = "end")  BY <2>1, <2>20
      <4>4. t \in Nat /\ off <= z  BY <2>1
      <4> HIDE DEF z, off, newstroffset, t
      <4>5. TokensRest(mem', newstroffset, off, t)[off] =
              [i \in 1 .. n |-> TokenIn(mem', newstroffset, pos[i])]
        BY <2>19, <4>1, <4>2, <4>3, <4>4, TokensAre
      <4> QED BY <4>5 DEF t
    <3>4. [i \in 1 .. n |-> TokenIn(mem', newstroffset, pos[i])] = Tokens(mem, totalsize, pos, n)
      <4> HIDE DEF newstroffset
      <4> QED BY <2>19 DEF Tokens
    <3> QED BY <3>1, <3>2, <3>3, <3>4
  <2>22. ReservedNow' = ReservedNow
    <3>1. ASSUME NEW p \in RsvOffset .. off_dt_struct - 1 PROVE mem'[p].x = mem[p].x
      <4>1. p \in 0 .. MaxSize - 1 /\ p < z /\ p <= z /\ p \notin off .. z - 1  BY <1>5, <2>1
      <4> HIDE DEF m, w, z, off, props
      <4>2. mem'[p] = m[p]  BY <2>13, <2>14, <4>1
      <4> QED BY <2>3, <2>5, <4>1, <4>2
    <3> QED BY <1>2, <3>1, ReservedKept
  <2>23. reply'.ok  BY <1>7 DEF Accepted
  <2>24. Stream!Mapped  BY <1>2, <1>3, MappedIs
  <2>25. Stream!Finish
    BY <1>2, <1>7, <2>21, <2>22, <2>23, <2>24 DEF Stream!Finish
  <2>26. RInv'  BY <1>7 DEF RInv
  <2> QED BY <2>25, <2>26
<1> QED BY <1>6, <1>7 DEF Finish

\* The start: an empty buffer, no entry, no token.
LEMMA InitRefines == Init => RInv /\ Stream!Init
<1> SUFFICES ASSUME Init PROVE RInv /\ Stream!Init
  OBVIOUS
<1>1. TokensNow = <<>>  BY InitInv, NoTokens DEF Init
<1>2. magic = "none" /\ reply = [call |-> EntryCall(0), ok |-> FALSE]  BY DEF Init
<1> QED BY <1>1, <1>2 DEF RInv, Stream!Init


\* The variables of the abstract specification, as FdtSw gives them.
StreamVars ==
  <<CASE magic = "none" -> "none" [] magic = "SW" -> "open" [] OTHER -> "done",
    IF magic = "none" THEN <<>> ELSE ReservedNow, TokensNow, reply>>

\* A step that leaves them alone.
LEMMA StreamStutters ==
  ASSUME TokensNow' = TokensNow, ReservedNow' = ReservedNow, magic' = magic, reply' = reply
  PROVE  UNCHANGED StreamVars
BY DEF StreamVars

\* Every step of the writer is a step of the stream, or none.
LEMMA NextRefines == IInv /\ RInv /\ [Next]_vars => RInv' /\ [Stream!Next]_StreamVars
<1> SUFFICES ASSUME IInv, RInv, [Next]_vars PROVE RInv' /\ (Stream!Next \/ UNCHANGED StreamVars)
  OBVIOUS
<1>0. IInv' /\ Kept  BY NextStep
<1>1. ASSUME NEW n \in 0 .. MaxSize, Create(n) PROVE RInv' /\ Stream!Next
  BY <1>0, <1>1, CreateRefines DEF Stream!Next
<1>2. ASSUME NEW n \in 0 .. MaxSize, Resize(n) PROVE RInv' /\ UNCHANGED StreamVars
  BY <1>0, <1>2, ResizeRefines, StreamStutters
<1>3. ASSUME NEW e \in Entries, AddReservemapEntry(e) PROVE RInv' /\ Stream!Next
  BY <1>0, <1>3, AddEntryRefines DEF AddReservemapEntry, Stream!Next
<1>4. ASSUME FinishReservemap PROVE RInv' /\ Stream!Next
  BY <1>0, <1>4, AddEntryRefines DEF FinishReservemap, Stream!Next
<1>5. ASSUME EndNode PROVE RInv' /\ Stream!Next
  BY <1>0, <1>5, EndNodeRefines DEF Stream!Next
<1>6. ASSUME Finish PROVE RInv' /\ Stream!Next
  BY <1>0, <1>6, FinishRefines DEF Stream!Next
<1>7. ASSUME NEW n \in NodeNames, BeginNode(n) PROVE RInv' /\ Stream!Next
  BY <1>0, <1>7, BeginNodeRefines DEF Stream!Next
<1>8. ASSUME NEW n \in Names, NEW v \in Values, Property(n, v) PROVE RInv' /\ Stream!Next
  BY <1>0, <1>8, PropertyRefines DEF Stream!Next
<1>9. ASSUME UNCHANGED vars PROVE RInv' /\ UNCHANGED StreamVars
  <2>1. UNCHANGED <<mem, header, caller>> /\ reply' = reply  BY <1>9 DEF vars
  <2> QED BY <2>1, UnchangedRefines, StreamStutters
<1> QED BY <1>1, <1>2, <1>3, <1>4, <1>5, <1>6, <1>7, <1>8, <1>9 DEF Next

(***************************************************************************)
(* What fdt_sw.c keeps in its buffer is the stream of entries, nodes and   *)
(* properties that it accepted, with their names and values, through       *)
(* refused calls, shared names, growing buffers and the packing of         *)
(* fdt_finish: the writer implements FdtStream for any size of the buffer, *)
(* any names and any values.                                               *)
(***************************************************************************)
THEOREM StreamRefinement == Spec => ImplementsStream
<1>1. Init => RInv /\ Stream!Init
  BY InitRefines
<1>2. IInv /\ RInv /\ [Next]_vars => RInv' /\ [Stream!Next]_StreamVars
  BY NextRefines
<1> QED BY <1>1, <1>2, Invariant, PTL DEF Spec, ImplementsStream, Stream!Spec, StreamVars
=============================================================================
