-------------------------------- MODULE FdtRw --------------------------------
(***************************************************************************)
(* The write functions of libfdt (fdt_rw.c, fdt_wip.c, fdt_empty_tree.c):  *)
(* a finished blob is edited in its buffer by opening and closing gaps in  *)
(* the memory, with the rest of the blob moved along.                      *)
(*                                                                         *)
(* A function is an operator from a blob and its arguments to the error it *)
(* returns and the blob it leaves.  Cells that no block covers are Junk in *)
(* the model, and the padding of a name or a value is 0; nothing reads     *)
(* either but fdt_stringlist_contains, behind a string that is not ended.  *)
(***************************************************************************)
EXTENDS FdtRo, SequencesExt

CONSTANTS
  RsvStart,      \* the size of the header, aligned for the reserve map
  MaxSize        \* bound: the largest buffer

ASSUME FdtRwAssumption == RsvStart \in Nat /\ MaxSize \in Nat

Memory == 0 .. 2 * MaxSize - 1
Tags == {"junk", "entry", "begin", "end_node", "prop", "data", "nop", "end", "chr"}
Blobs == [magic : {"FDT", "SW"}, version : {16, 17}, totalsize : 0 .. MaxSize,
          off_mem_rsvmap : Nat, off_dt_struct : Nat, size_dt_struct : Nat,
          off_dt_strings : Nat, size_dt_strings : Nat,
          mem : [Memory -> [tag : Tags, x : Nat, y : Nat]]]

Done(b) == [err |-> 0, fdt |-> b]
Fail(err, b) == [err |-> err, fdt |-> b]

\* Nothing is done to b on an error; what is done next is done to the blob that is left.
Guarded(err, b, r) == IF err # 0 THEN Fail(err, b) ELSE r
AndThen(r, More(_)) == IF r.err # 0 THEN r ELSE More(r.fdt)

Put(b, at, cells) ==
  [b EXCEPT !.mem = [p \in Memory |-> IF p \in at .. at + Len(cells) - 1
                                      THEN cells[p - at + 1] ELSE b.mem[p]]]

Misordered(b, rsv, size) ==
  \/ b.off_mem_rsvmap < RsvStart
  \/ b.off_dt_struct < b.off_mem_rsvmap + rsv
  \/ b.off_dt_strings < b.off_dt_struct + size
  \/ b.totalsize < b.off_dt_strings + b.size_dt_strings

RwCheckHeader(b) ==
  Unless(CheckHeader(b),
         IF b.version < 17 THEN BADVERSION
         ELSE IF Misordered(b, 1, b.size_dt_struct) THEN BADLAYOUT ELSE 0)

DataSize(b) == b.off_dt_strings + b.size_dt_strings

\* mutant: the room is not checked against the end of the buffer.
SpliceUnchecked(b, p, oldlen, newlen) ==
  LET end == DataSize(b) IN
  IF p + oldlen > end \/ end - oldlen + newlen < 0 THEN Fail(BADOFFSET, b)
  ELSE Done([b EXCEPT !.mem =
         [q \in Memory |-> IF q < p + newlen THEN b.mem[q]
                           ELSE IF q < end - oldlen + newlen THEN b.mem[q - newlen + oldlen]
                           ELSE Junk]])

\* _fdt_splice: what follows the oldlen cells at p moves behind newlen cells.
Splice(b, p, oldlen, newlen) ==
  LET end == DataSize(b) IN
  IF p + oldlen > end \/ end - oldlen + newlen < 0 THEN Fail(BADOFFSET, b)
  ELSE IF end - oldlen + newlen > b.totalsize THEN Fail(NOSPACE, b)
  ELSE Done([b EXCEPT !.mem =
         [q \in Memory |-> IF q < p + newlen THEN b.mem[q]
                           ELSE IF q < end - oldlen + newlen THEN b.mem[q - newlen + oldlen]
                           ELSE Junk]])

SpliceMemRsv(b, p, oldn, newn) ==
  AndThen(Splice(b, p, oldn, newn), LAMBDA f :
    Done([f EXCEPT !.off_dt_struct = @ + newn - oldn, !.off_dt_strings = @ + newn - oldn]))

SpliceStruct(b, o, oldlen, newlen) ==
  AndThen(Splice(b, b.off_dt_struct + o, oldlen, newlen), LAMBDA f :
    Done([f EXCEPT !.size_dt_struct = @ + newlen - oldlen, !.off_dt_strings = @ + newlen - oldlen]))

SpliceString(b, newlen) ==
  AndThen(Splice(b, DataSize(b), 0, newlen), LAMBDA f : Done([f EXCEPT !.size_dt_strings = @ + newlen]))

Chars(s) == [i \in 1 .. Len(s) + 1 |-> Cell("chr", IF i <= Len(s) THEN s[i] ELSE 0, 0)]

\* _fdt_find_string: the offsets of s among the strings, be it as the tail of another.
Found(b, s) ==
  {at \in 0 .. b.size_dt_strings - Len(s) - 1 :
     \A i \in 1 .. Len(s) + 1 : b.mem[b.off_dt_strings + at + i - 1].x = Chars(s)[i].x}

\* _fdt_find_add_string; at is the offset it returns.
FindAddString(b, s) ==
  LET new(r) == [err |-> r.err, at |-> b.size_dt_strings,
                 fdt |-> IF r.err # 0 THEN b ELSE Put(r.fdt, DataSize(b), Chars(s))]
  IN  IF Found(b, s) # {} THEN [err |-> 0, fdt |-> b, at |-> Min(Found(b, s))]
      ELSE new(SpliceString(b, Len(s) + 1))
-----------------------------------------------------------------------------
AddMemRsv(b, region) ==
  LET at(p) == AndThen(SpliceMemRsv(b, p, 0, 1), LAMBDA f : Done(Put(f, p, <<Cell("entry", region, 0)>>)))
  IN  Guarded(RwCheckHeader(b), b, at(b.off_mem_rsvmap + NumMemRsv(b)))

\* mutant: the number of the entry is not checked.
DelMemRsvUnchecked(b, n) ==
  Guarded(RwCheckHeader(b), b, SpliceMemRsv(b, b.off_mem_rsvmap + n, 1, 0))

DelMemRsv(b, n) ==
  Guarded(RwCheckHeader(b), b,
          IF n >= NumMemRsv(b) THEN Fail(NOTFOUND, b) ELSE SpliceMemRsv(b, b.off_mem_rsvmap + n, 1, 0))

\* _fdt_resize_property of the property at q.
ResizeProperty(b, q, len) ==
  AndThen(SpliceStruct(b, q + 1, Units(At(b, q).y), Units(len)), LAMBDA f :
    Done(Put(f, b.off_dt_struct + q, <<Cell("prop", At(b, q).x, len)>>)))

\* _fdt_add_property: before the other properties of the node.  The string stays
\* when there is no room for the property.
AddProperty(b, o, name, len) ==
  LET at(q, s) ==
        IF s.err # 0 THEN Fail(s.err, s.fdt)
        ELSE AndThen(SpliceStruct(s.fdt, q, 0, 1 + Units(len)), LAMBDA f :
               Done(Put(f, b.off_dt_struct + q, <<Cell("prop", s.at, len)>>)))
  IN  IF CheckNodeOffset(b, o) < 0 THEN Fail(BADOFFSET, b)
      ELSE at(CheckNodeOffset(b, o), FindAddString(b, name))

SetName(b, o, name) ==
  Guarded(RwCheckHeader(b), b,
    IF CheckNodeOffset(b, o) < 0 THEN Fail(BADOFFSET, b)
    ELSE AndThen(SpliceStruct(b, o + 1, Len(NameCells(GetName(b, o))), Len(NameCells(name))), LAMBDA f :
           Done(Put(f, b.off_dt_struct + o + 1, NameCells(name)))))

\* The property at q of the node at o, or a new one, with room for len bytes.
Room(b, o, name, len) ==
  LET at(q) == IF q >= 0 THEN ResizeProperty(b, q, len)
               ELSE IF q = NOTFOUND THEN AddProperty(b, o, name, len) ELSE Fail(q, b)
  IN  at(GetProperty(b, o, name))

\* Where the value of the property begins in the memory.
ValueStart(b, o, name) == b.off_dt_struct + GetProperty(b, o, name) + 1

SetProp(b, o, name, val) ==
  Guarded(RwCheckHeader(b), b,
    AndThen(Room(b, o, name, Len(val)), LAMBDA f : Done(Put(f, ValueStart(f, o, name), Bytes(val)))))

\* What fdt_appendprop finds: the property, or the error, and the value there is.
Grow(b, o, name, val, PutAt(_, _)) ==
  LET from(q, old) ==
        IF q < 0 /\ q # NOTFOUND THEN Fail(q, b)
        ELSE AndThen(Room(b, o, name, Len(old \o val)), LAMBDA f : Done(PutAt(f, old)))
      at(q) == from(q, IF q >= 0 THEN Value(b, q) ELSE <<>>)
  IN  Guarded(RwCheckHeader(b), b, at(GetProperty(b, o, name)))

\* mutant: the bytes are put behind the padding of the old value.
AppendPastPadding(b, o, name, val) ==
  Grow(b, o, name, val, LAMBDA f, old : Put(f, ValueStart(f, o, name) + Units(Len(old)), Bytes(val)))

\* fdt_appendprop: the bytes join the old ones, in the middle of a unit or not.
AppendProp(b, o, name, val) ==
  Grow(b, o, name, val, LAMBDA f, old : Put(f, ValueStart(f, o, name), Bytes(old \o val)))

DelProp(b, o, name) ==
  LET at(q) == IF q < 0 THEN Fail(q, b) ELSE SpliceStruct(b, q, 1 + Units(At(b, q).y), 0)
  IN  Guarded(RwCheckHeader(b), b, at(GetProperty(b, o, name)))

\* fdt_add_subnode: behind the properties of its parent.
AddSubnode(b, o, name) ==
  LET cells == <<Cell("begin", 0, 0)>> \o NameCells(name) \o <<Cell("end_node", 0, 0)>>
      put(q) == AndThen(SpliceStruct(b, q, 0, Len(cells)), LAMBDA f : Done(Put(f, b.off_dt_struct + q, cells)))
      behind(p) == Min({q \in p .. Size(b) : Tag(b, q) \in {"begin", "end_node", "end", "none"}})
      unless(found) == IF found >= 0 THEN Fail(EXISTS, b)
                       ELSE IF found # NOTFOUND THEN Fail(found, b)
                       ELSE put(behind(CheckNodeOffset(b, o)))
  IN  Guarded(RwCheckHeader(b), b, unless(SubnodeOffset(b, o, name)))

DelNode(b, o) ==
  LET upto(end) == IF end < 0 THEN Fail(end, b) ELSE SpliceStruct(b, o, end - o, 0)
  IN  Guarded(RwCheckHeader(b), b, upto(NodeEnd(b, o)))
-----------------------------------------------------------------------------
\* fdt_wip.c: the structure keeps its size.
SetpropInplacePartial(b, o, name, idx, val) ==
  LET changed(old) == [i \in DOMAIN old |-> IF i \in idx + 1 .. idx + Len(val) THEN val[i - idx] ELSE old[i]]
      at(q) == IF q < 0 THEN Fail(q, b)
               ELSE IF At(b, q).y < Len(val) + idx THEN Fail(NOSPACE, b)
               ELSE Done(Put(b, b.off_dt_struct + q + 1, Bytes(changed(Value(b, q)))))
  IN  at(GetProperty(b, o, name))

SetpropInplace(b, o, name, val) ==
  LET fits(q) == q < 0 \/ At(b, q).y = Len(val)
  IN  IF fits(GetProperty(b, o, name)) THEN SetpropInplacePartial(b, o, name, 0, val) ELSE Fail(NOSPACE, b)

NopRegion(b, o, len) == Put(b, b.off_dt_struct + o, [i \in 1 .. len |-> Cell("nop", 0, 0)])

\* mutant: the padding of the value is left alone.
NopPropertyUnpadded(b, o, name) ==
  LET at(q) == IF q < 0 THEN Fail(q, b) ELSE Done(NopRegion(b, q, 1 + At(b, q).y \div 2))
  IN  at(GetProperty(b, o, name))

NopProperty(b, o, name) ==
  LET at(q) == IF q < 0 THEN Fail(q, b) ELSE Done(NopRegion(b, q, 1 + Units(At(b, q).y)))
  IN  at(GetProperty(b, o, name))

NopNode(b, o) ==
  LET upto(end) == IF end < 0 THEN Fail(end, b) ELSE Done(NopRegion(b, o, end - o))
  IN  upto(NodeEnd(b, o))
-----------------------------------------------------------------------------
Moved(m, from, to, n) ==
  [p \in Memory |-> IF p \in to .. to + n - 1 THEN m[p - to + from] ELSE m[p]]
Blank(m, from) == [p \in Memory |-> IF p >= from THEN Junk ELSE m[p]]

\* _fdt_packblocks: the blocks move behind each other, first to last, from base on.
PackBlocks(b, base, rsv, size) ==
  LET at == base + RsvStart
      m1 == Moved(b.mem, b.off_mem_rsvmap, at, rsv)
      m2 == Moved(m1, b.off_dt_struct, at + rsv, size)
      m3 == Moved(m2, b.off_dt_strings, at + rsv + size, b.size_dt_strings)
  IN  [b EXCEPT !.mem = m3, !.off_mem_rsvmap = RsvStart, !.off_dt_struct = RsvStart + rsv,
                !.size_dt_struct = size, !.off_dt_strings = RsvStart + rsv + size]

\* fdt_open_into, in place or into another buffer.  When the blocks are in another
\* order they are packed behind the old tree (or into the other buffer) and moved.
OpenInto(b, bufsize, inplace) ==
  LET rsv == NumMemRsv(b) + 1
      size == IF b.version >= 17 THEN b.size_dt_struct ELSE End(b) + 1
      newsize == RsvStart + rsv + size + b.size_dt_strings
      packed == PackBlocks(b, b.totalsize, rsv, size)
  IN  IF CheckHeader(b) # 0 THEN Fail(CheckHeader(b), b)
      ELSE IF ~Misordered(b, rsv, size)
      THEN IF b.totalsize > bufsize THEN Fail(NOSPACE, b)
           ELSE Done([b EXCEPT !.version = 17, !.size_dt_struct = size, !.totalsize = bufsize])
      ELSE IF bufsize < newsize \/ (inplace /\ b.totalsize + newsize > bufsize) THEN Fail(NOSPACE, b)
      ELSE Done([packed EXCEPT !.mem = Blank(Moved(packed.mem, b.totalsize, 0, newsize), newsize),
                               !.totalsize = bufsize, !.version = 17])

Pack(b) ==
  LET trim(p) == [p EXCEPT !.totalsize = DataSize(p), !.mem = Blank(@, DataSize(p))]
  IN  Guarded(RwCheckHeader(b), b, Done(trim(PackBlocks(b, 0, NumMemRsv(b) + 1, b.size_dt_struct))))

\* fdt_create_empty_tree: the reserve map and then the structure, a root opened, closed
\* and ended, each by a call of the sequential writer that takes its cells or finds no
\* room for them.  Then the buffer is left as the calls before left it, with a root or a
\* part of one that the read functions accept; without room for a header it is untouched.
EmptyTree(b, bufsize) ==
  LET cells == <<Cell("entry", 0, 0), Cell("begin", 0, 0)>> \o NameCells(<<>>)
               \o <<Cell("end_node", 0, 0), Cell("end", 0, 0)>>
      room == bufsize - RsvStart
      rsv == IF room > 0 THEN 1 ELSE 0
      size == CASE room < 3 -> 0 [] room = 3 -> 2 [] room = 4 -> 3 [] OTHER -> 4
      Made(magic, strings) ==
        Put([b EXCEPT !.magic = magic, !.version = 17, !.totalsize = bufsize,
                      !.off_mem_rsvmap = RsvStart, !.off_dt_struct = RsvStart + rsv,
                      !.size_dt_struct = size, !.off_dt_strings = strings,
                      !.size_dt_strings = 0, !.mem = [p \in Memory |-> Junk]],
            RsvStart, SubSeq(cells, 1, rsv + size))
  IN  IF room < 0 THEN Fail(NOSPACE, b)
      ELSE IF size < 4 THEN Fail(NOSPACE, Made("SW", bufsize))
      ELSE Done(Made("FDT", RsvStart + 5))
-----------------------------------------------------------------------------
\* The nodes of a blob with their depth, name and properties, and its regions, for a
\* reader that checks the header first: an unfinished tree passes with its first node.
Decoded(b) ==
  LET nodes == InOrder(Nodes(b))
      Pairs(qs) == [i \in DOMAIN qs |-> <<StringAt(b, At(b, qs[i]).x), Value(b, qs[i])>>]
  IN  IF CheckHeader(b) # 0 THEN [tree |-> <<>>, reserved |-> <<>>, writable |-> FALSE]
      ELSE
      [tree |-> [k \in DOMAIN nodes |->
                   [depth |-> Depth(b, 0, nodes[k]), name |-> GetName(b, nodes[k]),
                    props |-> Pairs(InOrder(Properties(b, nodes[k])))]],
       reserved |-> [i \in 1 .. NumMemRsv(b) |-> GetMemRsv(b, i - 1)],
       writable |-> RwCheckHeader(b) = 0]

\* In such a list of nodes, the node above k and the path of k.
Above(t, k) == Max({j \in 1 .. k - 1 : t[j].depth = t[k].depth - 1})
PathOf(t) ==
  LET path[k \in DOMAIN t] == IF k = 1 THEN <<>> ELSE path[Above(t, k)] \o <<SLASH>> \o t[k].name
  IN  [k \in DOMAIN t |-> IF k = 1 THEN <<SLASH>> ELSE path[k]]
=============================================================================
