------------------------------- MODULE FlatTree -------------------------------
(***************************************************************************)
(* How dtc writes a tree as a blob and reads one back (flattree.c).  The   *)
(* blob is the record of FdtRo.  Before version 16 a node carries its full *)
(* path, a name property is added to each, and long values begin at a      *)
(* multiple of eight bytes: of two cells, where the tag of a property, its *)
(* length and the offset of its name are three.                            *)
(***************************************************************************)
EXTENDS Checks

Versions == {1, 2, 3, 16, 17}                    \* version_table
OldFormat(version) == version < 16               \* FULLPATH, VARALIGN and NAMEPROPS

Words(cells) == Len(cells) + 2 * Len(SelectSeq(cells, LAMBDA c : c.tag = "prop"))
Eight == 4                                       \* units in eight bytes

StringCells(strs) == [i \in DOMAIN strs |-> Cell("chr", strs[i], 0)]

\* mutant: a name is found where a longer one begins.
InsertLoose(strs, name) ==
  LET found == {i \in DOMAIN strs : IsPrefix(name, SubSeq(strs, i, Len(strs)))}
  IN  IF found # {} THEN [at |-> Min(found) - 1, strs |-> strs]
      ELSE [at |-> Len(strs), strs |-> strs \o Zeroed(name)]

\* stringtable_insert: also finds a name at the end of a longer one.
StringtableInsert(strs, name) ==
  LET found == {i \in DOMAIN strs : IsPrefix(Zeroed(name), SubSeq(strs, i, Len(strs)))}
  IN  IF found # {} THEN [at |-> Min(found) - 1, strs |-> strs]
      ELSE [at |-> Len(strs), strs |-> strs \o Zeroed(name)]

\* A property with the declared length and the bytes that are emitted.
EmitProperty(out, name, len, bytes, version) ==
  LET Gap(head) == IF OldFormat(version) /\ len >= Eight /\ Words(head) % 2 = 1
                   THEN Append(head, Cell("data", 0, 0)) ELSE head
      Emit(s) == [cells |-> Gap(Append(out.cells, Cell("prop", s.at, len))) \o Bytes(bytes), strs |-> s.strs]
  IN  Emit(StringtableInsert(out.strs, name))

\* flatten_tree.
RECURSIVE FlattenNode(_, _, _, _)
FlattenNode(t, n, out, version) ==
  LET Put(o, name, bytes) == EmitProperty(o, name, Len(bytes), bytes, version)
      Begin(name) == [out EXCEPT !.cells = @ \o <<Cell("begin", 0, 0)>> \o NameCells(name)]
      Props(o, live) == FoldLeft(LAMBDA e, p : Put(e, p.name, p.val.bytes), o, live)
      Kids(o) == FoldLeft(LAMBDA e, k : FlattenNode(t, k, e, version), o, LiveKids(t, n))
      base == IF t[n].basenamelen = 0 THEN t[n].name ELSE SubSeq(t[n].name, 1, t[n].basenamelen)
      Named(o, live) ==
        IF OldFormat(version) /\ \A i \in DOMAIN live : live[i].name # Lit["name"]
        THEN EmitProperty(o, Lit["name"], t[n].basenamelen + 1, Zeroed(base), version) ELSE o
      Body(o, live) == Kids(Named(Props(o, live), live))
      End0(o) == [o EXCEPT !.cells = Append(@, Cell("end_node", 0, 0))]
  IN  End0(Body(Begin(IF OldFormat(version) THEN t[n].path ELSE t[n].name),
                SelectSeq(t[n].props, LAMBDA p : ~p.dead)))

\* A node that dtc has generated has no full path: strlen(NULL).
Crashes(t, version) ==
  OldFormat(version) /\ \E n \in ToSet(Walk(t, 1)) : t[n].path = <<>>

\* FlattenReserveList, with reservenum empty slots and the one that ends the list.
FlattenReserve(rsv, slots) ==
  [i \in 1 .. Len(rsv) + slots + 1 |->
     IF i <= Len(rsv) THEN Cell("entry", rsv[i].size, rsv[i].address) ELSE Cell("entry", 0, 0)]

AlignUp(n, a) == ((n + a - 1) \div a) * a

\* dt_to_blob: -S minsize, -p padsize and -a alignsize ask for more room, in cells.
PadLen(total, o) ==
  LET short == IF o.minsize > total THEN o.minsize - total ELSE 0
      pad == IF o.padsize > 0 THEN o.padsize ELSE short
  IN  IF o.alignsize > 0 THEN AlignUp(total + pad, o.alignsize) - total ELSE pad

\* make_fdt_header and the assembly of the blob; the header is one cell here.  That of
\* version 1 ends before boot_cpuid_phys, and a reader finds the zeros that align it.
DtToBlob(d, o) ==
  LET Blob(rsv, struct, strs, all, total) ==
        [magic |-> "FDT", version |-> o.version, totalsize |-> total,
         off_mem_rsvmap |-> 1, off_dt_struct |-> 1 + Len(rsv),
         size_dt_struct |-> IF o.version >= 17 THEN Len(struct) ELSE 0,
         off_dt_strings |-> 1 + Len(rsv) + Len(struct),
         size_dt_strings |-> IF o.version >= 3 THEN Len(strs) ELSE 0,
         boot_cpuid_phys |-> IF o.version >= 2 THEN d.cpuid ELSE 0,
         mem |-> [p \in 0 .. total - 1 |-> IF p < Len(all) THEN all[p + 1] ELSE Cell("chr", 0, 0)]]
      Padded(rsv, struct, strs, all) == Blob(rsv, struct, strs, all, Len(all) + PadLen(Len(all), o))
      Joined(rsv, struct, strs) ==
        Padded(rsv, struct, strs, <<Junk>> \o rsv \o struct \o StringCells(strs))
      Flat(flat) ==
        Joined(FlattenReserve(d.rsv, o.reservenum), Append(flat.cells, Cell("end", 0, 0)), flat.strs)
  IN  Flat(FlattenNode(d.t, 1, [cells |-> <<>>, strs |-> <<>>], o.version))
-----------------------------------------------------------------------------
\* Where the reader is in the structure, and the node it has read; at is -1 when it died.
Dead == [at |-> -1, node |-> <<>>]

ReadTag(b, o) == IF b.off_dt_struct + o < b.totalsize THEN At(b, o).tag ELSE "none"

\* flat_read_string: the characters to the NUL.
ReadString(b, o) ==
  LET To(last) == [at |-> last + 1, text |-> Text(BytesAt(b, o, 2 * (last - o + 1)))]
  IN  To(Min({q \in o .. b.totalsize - b.off_dt_struct - 1 : 0 \in {At(b, q).x, At(b, q).y}}))

\* flat_read_stringtable.
ReadName(b, off) ==
  LET limit == IF b.version >= 3 THEN b.off_dt_strings + b.size_dt_strings ELSE b.totalsize
      nul == Lowest({p \in b.off_dt_strings + off .. limit - 1 : b.mem[p].x = 0}, limit)
  IN  [i \in 1 .. nul - b.off_dt_strings - off |-> b.mem[b.off_dt_strings + off + i - 1].x]

\* mutant: a long value is taken to begin right behind its header.
ReadUnaligned(b, o) ==
  LET len == At(b, o).y
  IN  [at |-> o + 1 + Units(len), name |-> ReadName(b, At(b, o).x), val |-> BytesAt(b, o + 1, len)]

\* flat_read_property.
ReadProperty(b, o) ==
  LET len == At(b, o).y
      words == o + 1 + 2 * Cardinality({q \in 0 .. o : At(b, q).tag = "prop"})
      from == o + 1 + IF OldFormat(b.version) /\ len >= Eight THEN words % 2 ELSE 0
  IN  [at |-> from + Units(len), name |-> ReadName(b, At(b, o).x), val |-> BytesAt(b, from, len)]

\* nodename_from_path.
NodenameFromPath(ppath, cpath) ==
  SubSeq(cpath, Len(ppath) + (IF ppath = <<SLASH>> THEN 1 ELSE 2), Len(cpath))

\* unflatten_tree, entered behind the FDT_BEGIN_NODE.
RECURSIVE Unflatten(_, _, _), UnflattenBody(_, _, _, _)
UnflattenBody(b, o, node, flatname) ==
  LET Property0(p) ==
        UnflattenBody(b, p.at,
          [node EXCEPT !.props = Append(@, Property(p.name, AppendData(EmptyData, p.val)))], flatname)
      Kid(kid) == IF kid.at = -1 THEN Dead
                  ELSE UnflattenBody(b, kid.at, [node EXCEPT !.kids = Append(@, kid.node)], flatname)
  IN  CASE ReadTag(b, o) = "prop" -> Property0(ReadProperty(b, o))
        [] ReadTag(b, o) = "begin" -> Kid(Unflatten(b, o + 1, flatname))
        [] ReadTag(b, o) = "end_node" -> [at |-> o + 1, node |-> node]
        [] ReadTag(b, o) = "nop" -> UnflattenBody(b, o + 1, node, flatname)
        [] OTHER -> Dead
Unflatten(b, o, parent) ==
  LET Named(s) ==
        IF OldFormat(b.version) /\ ~IsPrefix(parent, s.text) THEN Dead
        ELSE UnflattenBody(b, s.at,
               [name |-> IF OldFormat(b.version) THEN NodenameFromPath(parent, s.text) ELSE s.text,
                props |-> <<>>, kids |-> <<>>, labels |-> <<>>, dead |-> FALSE], s.text)
  IN  Named(ReadString(b, o))

\* flat_read_mem_reserve: the list ends at the first entry of size 0.
ReadReserve(b) ==
  [i \in 1 .. NumMemRsv(b) |-> LET c == b.mem[b.off_mem_rsvmap + i - 1] IN [address |-> c.y, size |-> c.x]]

\* dt_from_blob: the definition of the tree, or Dead.
ReadTree(b) ==
  LET Whole(r) == IF r.at # -1 /\ ReadTag(b, r.at) = "end" THEN r ELSE Dead
  IN  IF ReadTag(b, 0) = "begin" THEN Whole(Unflatten(b, 1, <<>>)) ELSE Dead
=============================================================================
