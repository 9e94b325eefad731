-------------------------------- MODULE FdtRo --------------------------------
(***************************************************************************)
(* The read functions of libfdt (fdt.c, fdt_ro.c).                         *)
(*                                                                         *)
(* A blob is its header and the memory it lies in, counted in cells.  A    *)
(* cell of the structure is a tag with its fixed fields or a unit of two   *)
(* bytes of a name or a value, to which names and values are padded; a     *)
(* reserve entry and a character of the strings are a cell each.  Strings  *)
(* are sequences of character codes, ended by the code 0 in memory.        *)
(*                                                                         *)
(* As in the code an offset is relative to the structure and an error is   *)
(* negative.  Only a tag looks like a tag, so that a loop over             *)
(* fdt_next_tag is written as a search among the cells that hold tags;     *)
(* that the lengths in the blob lead from each tag to the next is the      *)
(* invariant StructureSound of the modules that change blobs.  Where the   *)
(* structure has no END, as fdt_create_empty_tree may leave it, a search   *)
(* that runs out returns NOTFOUND here and TRUNCATED in the code.          *)
(***************************************************************************)
EXTENDS Integers, Sequences, FiniteSets, FiniteSetsExt

CONSTANTS
  Word,                     \* numbers of 32 bits are below Word * Word here
  SLASH, AtChars,           \* '/', and the characters that stand for '@'
  phandle, linux_phandle, compatible, aliases          \* names

NOTFOUND == -1   EXISTS == -2      NOSPACE == -3     BADOFFSET == -4
BADPATH == -5    BADPHANDLE == -6  BADSTATE == -7    TRUNCATED == -8
BADMAGIC == -9   BADVERSION == -10 BADSTRUCTURE == -11 BADLAYOUT == -12
BADVALUE == -15   BADOVERLAY == -16 NOPHANDLES == -17

Cell(tag, x, y) == [tag |-> tag, x |-> x, y |-> y]
Junk == Cell("junk", 0, 0)

Units(len) == (len + 1) \div 2
Bytes(s) == [i \in 1 .. Units(Len(s)) |->
               Cell("data", s[2 * i - 1], IF 2 * i <= Len(s) THEN s[2 * i] ELSE 0)]
NameCells(name) == Bytes(Append(name, 0))

\* The numbers of S from the least on.
InOrder(S) == [k \in 1 .. Cardinality(S) |-> CHOOSE o \in S : Cardinality({q \in S : q <= o}) = k]

Lowest(S, otherwise) == IF S = {} THEN otherwise ELSE Min(S)

\* An error goes on to the caller; a number that is none takes the place of one.
Unless(err, x) == IF err < 0 THEN err ELSE x
Else(n, otherwise) == IF n < 0 THEN otherwise ELSE n

\* The characters before the first NUL, or all.
Text(bytes) == SubSeq(bytes, 1, Lowest({i \in DOMAIN bytes : bytes[i] = 0}, Len(bytes) + 1) - 1)

CheckHeader(b) ==
  CASE b.magic = "FDT" -> IF b.version < 16 THEN BADVERSION ELSE 0
    [] b.magic = "SW" -> IF b.size_dt_struct = 0 THEN BADSTATE ELSE 0
    [] OTHER -> BADMAGIC

\* The cells in reach of fdt_offset_ptr.
Size(b) == IF b.version >= 17 THEN b.size_dt_struct ELSE b.totalsize - b.off_dt_struct
At(b, o) == b.mem[b.off_dt_struct + o]
Tag(b, o) == IF o \in 0 .. Size(b) - 1 THEN At(b, o).tag ELSE "none"

\* The offset behind the tag at o (fdt_next_tag).
NextTag(b, o) ==
  LET c == At(b, o)
      end == CASE c.tag = "begin" ->
                    Lowest({q \in o + 1 .. Size(b) - 1 : 0 \in {At(b, q).x, At(b, q).y}}, Size(b)) + 1
               [] c.tag = "prop" -> o + 1 + Units(c.y)
               [] c.tag \in {"end", "end_node", "nop"} -> o + 1
               [] OTHER -> Size(b) + 1
      within(e) == IF e > Size(b) THEN BADSTRUCTURE ELSE e
  IN  IF Tag(b, o) = "none" THEN TRUNCATED ELSE within(end)

Checked(b, o, tag) == IF Tag(b, o) = tag THEN Else(NextTag(b, o), BADOFFSET) ELSE BADOFFSET
CheckNodeOffset(b, o) == Checked(b, o, "begin")
CheckPropOffset(b, o) == Checked(b, o, "prop")

\* Where the structure ends, and the offsets in it with one of the tags.
End(b) == Lowest({q \in 0 .. Size(b) - 1 : At(b, q).tag = "end"}, Size(b))
Tagged(b, tags, from) == {q \in from .. End(b) - 1 : At(b, q).tag \in tags}
Nodes(b) == Tagged(b, {"begin"}, 0)

\* Nodes opened less nodes closed behind o up to q: the depth of fdt_next_node.
Depth(b, o, q) == Cardinality({p \in o + 1 .. q : At(b, p).tag = "begin"})
                  - Cardinality({p \in o + 1 .. q : At(b, p).tag = "end_node"})

\* fdt_next_node without a depth: the next node in the blob.
NextNode(b, o) ==
  IF o >= 0 /\ CheckNodeOffset(b, o) < 0 THEN BADOFFSET
  ELSE Lowest(Tagged(b, {"begin"}, o + 1), NOTFOUND)

\* Behind the END_NODE of the node at o (_fdt_node_end_offset).
NodeEnd(b, o) ==
  IF CheckNodeOffset(b, o) < 0 THEN BADOFFSET
  ELSE Lowest({q + 1 : q \in {q \in Tagged(b, {"end_node"}, o) : Depth(b, o, q) = -1}}, NOTFOUND)

Subnodes(b, o) ==
  {q \in Tagged(b, {"begin"}, o + 1) : q < NodeEnd(b, o) /\ Depth(b, o, q) = 1}
FirstSubnode(b, o) == Lowest(Subnodes(b, o), NOTFOUND)

\* The next node as deep as o before a shallower END_NODE.
NextSubnode(b, o) ==
  Lowest({q \in Tagged(b, {"begin"}, o + 1) :
            /\ Depth(b, o, q) = 0
            /\ \A p \in o + 1 .. q : Depth(b, o, p) >= -1}, NOTFOUND)
-----------------------------------------------------------------------------
\* The string at offset o of a block of size cells: the characters to the NUL.
StringAt(b, o) ==
  LET at == b.off_dt_strings + o
      nul == Lowest({p \in at .. b.totalsize - 1 : b.mem[p].x = 0}, b.totalsize)
  IN  [i \in 1 .. nul - at |-> b.mem[at + i - 1].x]

\* The len bytes in the cells from o on.
BytesAt(b, o, len) ==
  [i \in 1 .. len |-> LET c == At(b, o + (i - 1) \div 2) IN IF i % 2 = 1 THEN c.x ELSE c.y]

GetName(b, o) == Text(BytesAt(b, o + 1, 2 * (NextTag(b, o) - o - 1)))

\* The name given, or the part of it before its unit address.
NodenameEq(name, s) ==
  \/ name = s
  \/ /\ Len(s) < Len(name) /\ SubSeq(name, 1, Len(s)) = s /\ name[Len(s) + 1] \in AtChars
     /\ \A i \in DOMAIN s : s[i] \notin AtChars

SubnodeOffset(b, o, name) ==
  Unless(CheckHeader(b), Unless(o, Unless(NodeEnd(b, o),
    Lowest({q \in Subnodes(b, o) : NodenameEq(GetName(b, q), name)}, NOTFOUND))))

\* The properties of a node: all before a tag of another kind.
Properties(b, o) ==
  {q \in Tagged(b, {"prop"}, o + 1) :
     \A p \in o + 1 .. q : At(b, p).tag \notin {"begin", "end_node"}}

\* fdt_first_property_offset to fdt_get_property: where the property is, or an error.
GetProperty(b, o, name) ==
  IF CheckNodeOffset(b, o) < 0 THEN BADOFFSET
  ELSE Lowest({q \in Properties(b, o) : StringAt(b, At(b, q).x) = name}, NOTFOUND)

Value(b, q) == BytesAt(b, q + 1, At(b, q).y)
HasProp(b, o, name) == GetProperty(b, o, name) >= 0
GetProp(b, o, name) == Value(b, GetProperty(b, o, name))

Number(v) == v[1] * Word + v[2]          \* fdt32_to_cpu of two bytes
Int32(n) == <<n \div Word, n % Word>>
MinusOne == Word * Word - 1              \* (uint32_t)-1

OneCell(b, q) == q >= 0 /\ At(b, q).y = 2
IsNumber(b, o, name) == OneCell(b, GetProperty(b, o, name))
NumberOr(b, q, otherwise) == IF OneCell(b, q) THEN Number(Value(b, q)) ELSE otherwise

GetPhandle(b, o) ==
  NumberOr(b, GetProperty(b, o, phandle), NumberOr(b, GetProperty(b, o, linux_phandle), 0))

GetMaxPhandle(b) == Max(({0} \cup {GetPhandle(b, o) : o \in Nodes(b)}) \ {MinusOne})

NumMemRsv(b) == Min({i \in 0 .. b.totalsize - b.off_mem_rsvmap - 1 : b.mem[b.off_mem_rsvmap + i].x = 0})
GetMemRsv(b, n) == b.mem[b.off_mem_rsvmap + n].x
-----------------------------------------------------------------------------
\* The names between the slashes of a path.
Parts(path) ==
  LET starts == {i \in DOMAIN path : path[i] # SLASH /\ (i = 1 \/ path[i - 1] = SLASH)}
      stop(i) == Lowest({j \in i .. Len(path) : path[j] = SLASH}, Len(path) + 1)
      nth[k \in 1 .. Cardinality(starts)] ==
        CHOOSE i \in starts : Cardinality({j \in starts : j <= i}) = k
  IN  [k \in 1 .. Cardinality(starts) |-> SubSeq(path, nth[k], stop(nth[k]) - 1)]

\* One fdt_subnode_offset_namelen for each name, until one fails.
Descend(b, from, names) ==
  LET down[k \in 0 .. Len(names)] ==
        IF k = 0 THEN from ELSE SubnodeOffset(b, down[k - 1], names[k])
  IN  down[Len(names)]

\* The path that a name in /aliases stands for; its NUL is dropped.
GetAlias(b, name) ==
  LET path(q) == IF q < 0 THEN <<>> ELSE Text(Value(b, q))
      in(node) == IF node < 0 THEN <<>> ELSE path(GetProperty(b, node, name))
  IN  in(SubnodeOffset(b, 0, aliases))

\* fdt_path_offset_namelen; what an alias stands for is a path from the root.
PathOffset(b, path) ==
  LET below(names, alias) ==
        IF alias = <<>> THEN BADPATH ELSE Descend(b, 0, Parts(alias) \o Tail(names))
      resolved(names) ==
        IF path[1] = SLASH THEN Descend(b, 0, names) ELSE below(names, GetAlias(b, names[1]))
  IN  Unless(CheckHeader(b), resolved(Parts(path)))

(***************************************************************************)
(* fdt_get_path: the nodes up to nodeoffset are gone through in order; buf *)
(* holds the names of the open ones, as far as they fit, and pdepth counts *)
(* them.  The pieces that leave the buffer are cut at their slash.         *)
(***************************************************************************)
Keep(was, depth) ==
  LET kept == SubSeq(was.kept, 1, Min({Len(was.kept), depth}))
  IN  [buf |-> SubSeq(was.buf, 1, IF kept = <<>> THEN 0 ELSE kept[Len(kept)]), kept |-> kept, depth |-> depth]
AddName(cut, name, buflen) ==
  LET full == Append(cut.buf \o name, SLASH)
  IN  IF Len(cut.kept) < cut.depth \/ Len(full) > buflen THEN cut
      ELSE [cut EXCEPT !.buf = full, !.kept = Append(@, Len(full))]

GetPath(b, nodeoffset, buflen) ==
  LET Before(o) == Max({-1} \cup {q \in Nodes(b) : q < o})
      Enter[o \in {-1} \cup Nodes(b)] ==
        IF o = -1 THEN [buf |-> <<>>, kept |-> <<>>, depth |-> -1]
        ELSE AddName(Keep(Enter[Before(o)], Depth(b, -1, o) - 1), GetName(b, o), buflen)
      Result(at) ==
        IF Len(at.kept) < at.depth + 1 THEN [err |-> NOSPACE, path |-> <<>>]
        ELSE [err |-> 0, path |-> SubSeq(at.buf, 1, Max({1, Len(at.buf) - 1}))]
  IN  IF buflen < 2 THEN [err |-> NOSPACE, path |-> <<>>]
      ELSE IF nodeoffset \notin Nodes(b) THEN [err |-> BADOFFSET, path |-> <<>>]
      ELSE Result(Enter[nodeoffset])

\* mutant: the first node of that depth is kept.
SupernodeFirst(b, nodeoffset, supernodedepth) ==
  IF supernodedepth < 0 THEN NOTFOUND
  ELSE IF nodeoffset \notin Nodes(b) THEN BADOFFSET
  ELSE IF supernodedepth > Depth(b, 0, nodeoffset) THEN NOTFOUND
  ELSE Min({q \in Nodes(b) : q <= nodeoffset /\ Depth(b, 0, q) = supernodedepth})

\* The last node of that depth that is not behind nodeoffset.
SupernodeAtdepth(b, nodeoffset, supernodedepth) ==
  IF supernodedepth < 0 THEN NOTFOUND
  ELSE IF nodeoffset \notin Nodes(b) THEN BADOFFSET
  ELSE IF supernodedepth > Depth(b, 0, nodeoffset) THEN NOTFOUND
  ELSE Max({q \in Nodes(b) : q <= nodeoffset /\ Depth(b, 0, q) = supernodedepth})

NodeDepth(b, o) == IF o \in Nodes(b) THEN Depth(b, 0, o) ELSE BADOFFSET
ParentOffset(b, o) ==
  IF NodeDepth(b, o) < 0 THEN NodeDepth(b, o) ELSE SupernodeAtdepth(b, o, NodeDepth(b, o) - 1)

\* The first node behind start that passes the test.
NextWith(b, start, Test(_)) ==
  IF start >= 0 /\ CheckNodeOffset(b, start) < 0 THEN BADOFFSET
  ELSE Lowest({o \in Tagged(b, {"begin"}, start + 1) : Test(o)}, NOTFOUND)

NodeOffsetByPropValue(b, start, name, val) ==
  NextWith(b, start, LAMBDA o : HasProp(b, o, name) /\ GetProp(b, o, name) = val)

NodeOffsetByPhandle(b, ph) ==
  IF ph \in {0, MinusOne} THEN BADPHANDLE ELSE NextWith(b, -1, LAMBDA o : GetPhandle(b, o) = ph)
-----------------------------------------------------------------------------
\* The strings of a list that end in a NUL, by where they start.
Starts(v) == {i \in DOMAIN v : i = 1 \/ v[i - 1] = 0}
Ended(v, i) == \E j \in i .. Len(v) : v[j] = 0
Rank(v, i) == Cardinality({j \in Starts(v) : j < i})
ItemAt(v, i) == Text(SubSeq(v, i, Len(v)))

\* memcmp takes the byte behind a last string that is not ended, too: its padding or
\* the first byte of the next tag, which are 0.
StringlistContains(v, s) ==
  \E i \in {i \in 1 .. Len(v) + 1 : i = 1 \/ v[i - 1] = 0} : ItemAt(v, i) = s

\* What the three functions do with each string until they stop at one.
StringlistScan(v, Stop(_), Result(_), otherwise) ==
  LET stops == {i \in Starts(v) : ~Ended(v, i) \/ Stop(i)}
  IN  IF stops = {} THEN otherwise
      ELSE IF ~Ended(v, Min(stops)) THEN BADVALUE ELSE Result(Min(stops))

Listed(b, o, name, Scan(_)) ==
  LET scanned(q) == IF q < 0 THEN q ELSE Scan(Value(b, q)) IN scanned(GetProperty(b, o, name))

StringlistCount(b, o, name) ==
  Listed(b, o, name, LAMBDA v : StringlistScan(v, LAMBDA i : FALSE, LAMBDA i : 0,
                                               Cardinality(Starts(v))))
StringlistSearch(b, o, name, s) ==
  Listed(b, o, name, LAMBDA v : StringlistScan(v, LAMBDA i : Ended(v, i) /\ ItemAt(v, i) = s,
                                               LAMBDA i : Rank(v, i), NOTFOUND))
StringlistGet(b, o, name, idx) ==      \* the length, which *lenp returns
  Listed(b, o, name, LAMBDA v : StringlistScan(v, LAMBDA i : Rank(v, i) = idx,
                                               LAMBDA i : Len(ItemAt(v, i)), NOTFOUND))

NodeCheckCompatible(b, o, s) ==
  Listed(b, o, compatible, LAMBDA v : IF StringlistContains(v, s) THEN 0 ELSE 1)
NodeOffsetByCompatible(b, start, s) ==
  LET result(o) == IF o < 0 THEN o ELSE Unless(NodeCheckCompatible(b, o, s), o)
  IN  result(NextWith(b, start, LAMBDA n : NodeCheckCompatible(b, n, s) \notin {1, NOTFOUND}))
=============================================================================
