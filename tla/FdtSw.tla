-------------------------------- MODULE FdtSw --------------------------------
(***************************************************************************)
(* The sequential writer of libfdt (fdt_sw.c): one buffer in which the map *)
(* of reserved regions and the structure grow up from the header and the   *)
(* strings grow down from the end, until fdt_finish packs them.            *)
(*                                                                         *)
(* The buffer is counted in cells: a reserve entry, a tag with its fixed   *)
(* fields, a padded unit of a value, or a character of a string.           *)
(* The caller finishes the reserve map before the first node, opens one    *)
(* root, writes properties inside nodes, finishes when the root is closed, *)
(* and after a refusal may grow its buffer (realloc, then fdt_resize in    *)
(* place, as tests/sw_tree1.c does) and call again.  A call on a buffer    *)
(* whose magic is not "SW" returns an error and is no step.                *)
(***************************************************************************)
EXTENDS Integers, Sequences

CONSTANTS
  HeaderSize,   \* sizeof(struct fdt_header)
  RsvOffset,    \* the same, aligned for the reserve map
  MaxSize,      \* bound: the largest buffer
  Entries,      \* reserved regions, as numbers
  NodeNames,    \* names of nodes, as numbers
  Names,        \* names of properties: sequences of character codes
  Values        \* values of properties: sequences of numbers

\* A name is no longer than header and reserve map (31 characters in the
\* devicetree specification, 64 bytes).
ASSUME FdtSwAssumption ==
  /\ HeaderSize \in Nat /\ RsvOffset \in Nat /\ MaxSize \in Nat
  /\ 0 < HeaderSize /\ HeaderSize <= RsvOffset
  /\ Entries \subseteq Nat \ {0} /\ NodeNames \subseteq Nat
  /\ Names \subseteq Seq(Nat \ {0}) /\ \A n \in Names : Len(n) <= RsvOffset
  /\ Values \subseteq Seq(Nat)

VARIABLES
  mem,                              \* the memory; the buffer begins at 0
  magic,                            \* "none", "SW" or "FDT"
  totalsize, off_dt_struct, size_dt_struct, off_dt_strings, size_dt_strings,
  mapped, depth,                    \* the caller: reserve map finished; open nodes
  reply                             \* the last call and whether it succeeded

header == <<magic, totalsize, off_dt_struct, size_dt_struct, off_dt_strings, size_dt_strings>>
caller == <<mapped, depth>>
vars == <<mem, header, caller, reply>>

Cell(tag, x, y) == [tag |-> tag, x |-> x, y |-> y]
Zero == Cell("chr", 0, 0)
Junk == Cell("junk", 0, 0)          \* what the memory holds before it is written

Tags == {"junk", "chr", "entry", "begin", "end_node", "prop", "data", "end"}

TypeOK ==
  /\ mem \in [0 .. MaxSize - 1 -> [tag : Tags, x : Int, y : Nat]]
  /\ magic \in {"none", "SW", "FDT"}
  /\ totalsize \in IF magic = "none" THEN {0} ELSE HeaderSize .. MaxSize
  /\ off_dt_struct \in 0 .. MaxSize \/ off_dt_struct = RsvOffset
  /\ {size_dt_struct, off_dt_strings, size_dt_strings} \subseteq 0 .. MaxSize
  /\ mapped \in BOOLEAN /\ depth \in Nat
  /\ reply.ok \in BOOLEAN

Call(op, name, val) == [op |-> op, name |-> name, val |-> val]
Accepted(c) == reply' = [call |-> c, ok |-> TRUE]
Refused(c) == reply' = [call |-> c, ok |-> FALSE]

EntryCall(e) == Call("entry", <<e>>, <<>>)

Init ==
  /\ mem = [p \in 0 .. MaxSize - 1 |-> Junk]
  /\ magic = "none" /\ totalsize = 0
  /\ off_dt_struct = 0 /\ size_dt_struct = 0 /\ off_dt_strings = 0 /\ size_dt_strings = 0
  /\ mapped = FALSE /\ depth = 0
  /\ reply = [call |-> EntryCall(0), ok |-> FALSE]

\* memcpy of s to offset at.
Written(m, at, s) ==
  [p \in DOMAIN m |-> IF p \in at .. at + Len(s) - 1 THEN s[p - at + 1] ELSE m[p]]

\* memmove of n cells.
Moved(m, from, to, n) ==
  [p \in DOMAIN m |-> IF p \in to .. to + n - 1 THEN m[p - to + from] ELSE m[p]]

\* mutant: a buffer smaller than the header is taken.
CreateUnchecked(bufsize) ==
  /\ magic # "SW" /\ Accepted(Call("create", <<>>, <<>>))
  /\ mem' = [p \in DOMAIN mem |-> IF p < bufsize THEN Zero ELSE mem[p]]
  /\ magic' = "SW" /\ totalsize' = bufsize
  /\ off_dt_struct' = RsvOffset /\ size_dt_struct' = 0
  /\ off_dt_strings' = bufsize /\ size_dt_strings' = 0
  /\ mapped' = FALSE /\ depth' = 0

(***************************************************************************)
(* fdt_create (88-108).  Before it the caller may hold a finished tree.    *)
(***************************************************************************)
Create(bufsize) ==
  LET c == Call("create", <<>>, <<>>) IN
  /\ magic # "SW"
  /\ \/ bufsize < HeaderSize /\ Refused(c) /\ UNCHANGED <<mem, header, caller>>
     \/ /\ bufsize >= HeaderSize /\ Accepted(c)
        /\ mem' = [p \in DOMAIN mem |-> IF p < bufsize THEN Zero ELSE mem[p]]
        /\ magic' = "SW" /\ totalsize' = bufsize
        /\ off_dt_struct' = RsvOffset /\ size_dt_struct' = 0
        /\ off_dt_strings' = bufsize /\ size_dt_strings' = 0
        /\ mapped' = FALSE /\ depth' = 0

\* mutant: the strings stay where the buffer ended before.
ResizeKeepingTail(bufsize) ==
  /\ magic = "SW" /\ bufsize > totalsize
  /\ off_dt_struct + size_dt_strings <= bufsize
  /\ off_dt_strings' = bufsize /\ totalsize' = bufsize
  /\ UNCHANGED <<mem, magic, off_dt_struct, size_dt_struct, size_dt_strings, caller, reply>>

(***************************************************************************)
(* fdt_resize (110-140) of a buffer that grows in place: the header and    *)
(* the reserve map stay, the strings move to the new end.                  *)
(***************************************************************************)
Resize(bufsize) ==
  /\ magic = "SW" /\ bufsize > totalsize
  /\ off_dt_struct + size_dt_strings <= bufsize
  /\ mem' = Moved(mem, totalsize - size_dt_strings, bufsize - size_dt_strings, size_dt_strings)
  /\ off_dt_strings' = bufsize /\ totalsize' = bufsize
  /\ UNCHANGED <<magic, off_dt_struct, size_dt_struct, size_dt_strings, caller, reply>>

\* mutant: the check for FDT_ERR_BADSTATE (149-150) is missing.
AddEntryAnyTime(e) ==
  /\ UNCHANGED <<magic, totalsize, size_dt_struct, off_dt_strings, size_dt_strings, depth>>
  /\ off_dt_struct + 1 <= totalsize
  /\ mem' = Written(mem, off_dt_struct, <<Cell("entry", e, 0)>>)
  /\ off_dt_struct' = off_dt_struct + 1 /\ mapped' = (e = 0)
  /\ Accepted(EntryCall(e))

(***************************************************************************)
(* fdt_add_reservemap_entry (142-163).  The strings are not in its check.  *)
(***************************************************************************)
AddEntry(e) ==
  LET c == EntryCall(e) IN
  /\ UNCHANGED <<magic, totalsize, size_dt_struct, off_dt_strings, size_dt_strings, depth>>
  /\ \/ /\ size_dt_struct # 0 \/ off_dt_struct + 1 > totalsize
        /\ Refused(c) /\ UNCHANGED <<mem, off_dt_struct, mapped>>
     \/ /\ size_dt_struct = 0 /\ off_dt_struct + 1 <= totalsize
        /\ mem' = Written(mem, off_dt_struct, <<Cell("entry", e, 0)>>)
        /\ off_dt_struct' = off_dt_struct + 1
        /\ mapped' = (e = 0)
        /\ Accepted(c)

\* Entries come before the end of the map; after the first node they are refused.
AddReservemapEntry(e) == magic = "SW" /\ (mapped => size_dt_struct > 0) /\ AddEntry(e)

FinishReservemap == magic = "SW" /\ (mapped => size_dt_struct > 0) /\ AddEntry(0)

\* mutant: the strings are not counted.
RoomToEnd(strs, len) == size_dt_struct + len <= totalsize - off_dt_struct

(***************************************************************************)
(* _fdt_grab_space (73-86), for strings of size strs: the sum is unsigned, *)
(* so that a negative spaceleft counts as a large one.                     *)
(***************************************************************************)
Room(strs, len) ==
  LET spaceleft == totalsize - off_dt_struct - strs
  IN  spaceleft < 0 \/ size_dt_struct + len <= spaceleft

\* Room for s at the end of the structure, with the memory m and strs strings.
Grab(m, strs, s, c) ==
  /\ size_dt_strings' = strs
  /\ \/ /\ Room(strs, Len(s)) /\ Accepted(c)
        /\ mem' = Written(m, off_dt_struct + size_dt_struct, s)
        /\ size_dt_struct' = size_dt_struct + Len(s)
     \/ ~Room(strs, Len(s)) /\ Refused(c) /\ mem' = m /\ UNCHANGED size_dt_struct

(***************************************************************************)
(* fdt_begin_node (170-184) and fdt_end_node (186-198).                    *)
(***************************************************************************)
BeginNode(n) ==
  /\ magic = "SW" /\ mapped /\ (depth = 0 => size_dt_struct = 0)
  /\ Grab(mem, size_dt_strings, <<Cell("begin", n, 0)>>, Call("begin", <<n>>, <<>>))
  /\ depth' = IF reply'.ok THEN depth + 1 ELSE depth
  /\ UNCHANGED <<magic, totalsize, off_dt_struct, off_dt_strings, mapped>>

EndNode ==
  /\ magic = "SW" /\ depth > 0
  /\ Grab(mem, size_dt_strings, <<Cell("end_node", 0, 0)>>, Call("end_node", <<>>, <<>>))
  /\ depth' = IF reply'.ok THEN depth - 1 ELSE depth
  /\ UNCHANGED <<magic, totalsize, off_dt_struct, off_dt_strings, mapped>>

\* A name as it lies in memory, with its NUL.
Chars(name) ==
  [i \in 1 .. Len(name) + 1 |-> IF i <= Len(name) THEN Cell("chr", name[i], 0) ELSE Zero]

\* _fdt_find_string: where the block of strings has name, be it as the tail of another.
Found(name) ==
  {p \in totalsize - size_dt_strings .. totalsize - Len(Chars(name)) :
     \A i \in 1 .. Len(Chars(name)) : mem[p + i - 1] = Chars(name)[i]}

\* The check of _fdt_find_add_string (213-215), unsigned as well.
StringFits(name) ==
  LET top == totalsize - size_dt_strings - Len(Chars(name))
  IN  top < 0 \/ top >= off_dt_struct + size_dt_struct

(***************************************************************************)
(* fdt_property (223-243): the name is found or added at the low end of    *)
(* the strings, as an offset from the end of the buffer, and stays there   *)
(* when the structure has no room.                                         *)
(***************************************************************************)
Property(name, val) ==
  LET c == Call("prop", name, val)
      strs == size_dt_strings + Len(Chars(name))
      Prop(nameoff) ==
        [i \in 1 .. Len(val) + 1 |-> IF i = 1 THEN Cell("prop", nameoff, Len(val))
                                    ELSE Cell("data", val[i - 1], 0)]
  IN
  /\ magic = "SW" /\ depth > 0
  /\ \/ \E p \in Found(name) :
          /\ \A q \in Found(name) : p <= q
          /\ Grab(mem, size_dt_strings, Prop(p - totalsize), c)
     \/ /\ Found(name) = {} /\ StringFits(name)
        /\ Grab(Written(mem, totalsize - strs, Chars(name)), strs, Prop(-strs), c)
     \/ /\ Found(name) = {} /\ ~StringFits(name)
        /\ Refused(c) /\ UNCHANGED <<mem, size_dt_struct, size_dt_strings>>
  /\ UNCHANGED <<magic, totalsize, off_dt_struct, off_dt_strings, caller>>

(***************************************************************************)
(* The walk of fdt_finish (267-281) by fdt_next_tag: the offsets of the    *)
(* properties in a structure of the given size, from o on.                 *)
(***************************************************************************)
NextTag(cell) == IF cell.tag = "prop" THEN 1 + cell.y ELSE 1

PropsAt(m, size) ==
  LET Walk[o \in 0 .. size] ==
        LET cell == m[off_dt_struct + o] IN
        IF o = size \/ cell.tag = "end" \/ o + NextTag(cell) > size THEN {}
        ELSE Walk[o + NextTag(cell)] \cup
             (IF cell.tag = "prop" THEN {off_dt_struct + o} ELSE {})
  IN  Walk[0]

(***************************************************************************)
(* fdt_finish (245-288).  The strings move down to the structure, and the  *)
(* offsets of the names are made to count from their beginning.  The walk  *)
(* of a structure built by these calls always meets the END tag, so the    *)
(* return of an error at 281 is never taken.                               *)
(***************************************************************************)
Finish ==
  LET c == Call("finish", <<>>, <<>>)
      size == size_dt_struct + 1
      newstroffset == off_dt_struct + size
      m == Moved(Written(mem, newstroffset - 1, <<Cell("end", 0, 0)>>),
                 totalsize - size_dt_strings, newstroffset, size_dt_strings)
  IN
  /\ magic = "SW" /\ depth = 0 /\ size_dt_struct > 0
  /\ UNCHANGED <<off_dt_struct, size_dt_strings, caller>>
  /\ \/ /\ ~Room(size_dt_strings, 1) /\ Refused(c)
        /\ UNCHANGED <<mem, magic, totalsize, size_dt_struct, off_dt_strings>>
     \/ /\ Room(size_dt_strings, 1) /\ Accepted(c)
        /\ mem' = [p \in DOMAIN m |->
                     IF p \in PropsAt(m, size) THEN [m[p] EXCEPT !.x = @ + size_dt_strings]
                     ELSE m[p]]
        /\ magic' = "FDT" /\ size_dt_struct' = size
        /\ off_dt_strings' = newstroffset /\ totalsize' = newstroffset + size_dt_strings

Next ==
  \/ \E n \in 0 .. MaxSize : Create(n) \/ Resize(n)
  \/ \E e \in Entries : AddReservemapEntry(e)
  \/ FinishReservemap \/ EndNode \/ Finish
  \/ \E n \in NodeNames : BeginNode(n)
  \/ \E n \in Names, v \in Values : Property(n, v)

Spec == Init /\ [][Next]_vars
-----------------------------------------------------------------------------
(***************************************************************************)
(* Once the reserve map is finished, reserve map, structure and strings    *)
(* lie in the buffer without overlapping, although each of the three       *)
(* checks for room looks at a part of them only; fdt_finish leaves no gap. *)
(***************************************************************************)
BlocksFit ==
  /\ magic = "SW" /\ mapped => off_dt_struct + size_dt_struct + size_dt_strings <= totalsize
  /\ magic = "FDT" => /\ off_dt_strings = off_dt_struct + size_dt_struct
                      /\ totalsize = off_dt_strings + size_dt_strings

(***************************************************************************)
(* Until fdt_finish, no call, refused or not, and no growth of the buffer  *)
(* disturbs a cell that was written: the structure keeps its place and the *)
(* strings their distance from the end.                                    *)
(***************************************************************************)
BlocksKept == [][
  magic = "SW" /\ magic' = "SW" =>
    /\ \A p \in RsvOffset .. off_dt_struct + size_dt_struct - 1 : mem'[p] = mem[p]
    /\ \A k \in 1 .. size_dt_strings : mem'[totalsize' - k] = mem[totalsize - k]]_vars

\* What a reader of the buffer finds: strings, reserve map and structure.
StringAt(at) ==
  LET Rest[p \in 0 .. MaxSize] ==
        IF p \notin DOMAIN mem \/ mem[p] = Zero THEN <<>> ELSE <<mem[p].x>> \o Rest[p + 1]
  IN  IF at \in DOMAIN mem THEN Rest[at] ELSE <<-1>>

ReservedNow == [i \in 1 .. off_dt_struct - RsvOffset |-> EntryCall(mem[RsvOffset + i - 1].x)]

TokenAt(p) ==
  CASE mem[p].tag = "prop" ->
         Call("prop", StringAt(off_dt_strings + mem[p].x), [i \in 1 .. mem[p].y |-> mem[p + i].x])
    [] mem[p].tag = "begin" -> Call("begin", <<mem[p].x>>, <<>>)
    [] OTHER -> Call(mem[p].tag, <<>>, <<>>)

TokensNow ==
  LET top == off_dt_struct + size_dt_struct
      Rest[p \in off_dt_struct .. top] ==
        IF p = top \/ p \notin DOMAIN mem \/ mem[p].tag = "end" THEN <<>>
        ELSE IF p + NextTag(mem[p]) > top THEN <<Call("truncated", <<>>, <<>>)>>
        ELSE <<TokenAt(p)>> \o Rest[p + NextTag(mem[p])]
  IN  Rest[off_dt_struct]

Stream == INSTANCE FdtStream WITH
  Terminator <- EntryCall(0),
  stage <- CASE magic = "none" -> "none" [] magic = "SW" -> "open" [] OTHER -> "done",
  reserved <- IF magic = "none" THEN <<>> ELSE ReservedNow,
  tokens <- TokensNow

(***************************************************************************)
(* Decoded from the memory, the buffer always holds exactly the entries,   *)
(* nodes and properties that were accepted, with their names and values,   *)
(* in order: across refused calls and the strings they leave behind, names *)
(* shared as tails of others, growing buffers, and the move of the strings *)
(* in fdt_finish.                                                          *)
(***************************************************************************)
ImplementsStream == Stream!Spec
=============================================================================
