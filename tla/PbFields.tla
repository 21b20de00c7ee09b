----------------------------- MODULE PbFields -----------------------------
(***************************************************************************)
(* Field descriptors and messages in memory, as nanopb/pb.h packs them and *)
(* nanopb/pb_common.c walks them.  A message is its C struct: a function   *)
(* from the byte offset of a member to the value there, so that the members*)
(* of a union share one place.  The value of a data member is a word, a    *)
(* sequence of bytes or a message; a repeated field holds the sequence of  *)
(* its array_size elements.  The has_, _count and which_ members are       *)
(* numbers.  Undefined is memory nobody has written.                       *)
(***************************************************************************)
EXTENDS PbWire

CONSTANTS Undefined, Null

\* In the order of their codes in the low, middle and high bits of the type byte.
LTypes == <<"BOOL", "VARINT", "UVARINT", "SVARINT", "FIXED32", "FIXED64", "BYTES",
            "STRING", "SUBMESSAGE", "SUBMSG_W_CB", "EXTENSION", "FIXED_LENGTH_BYTES">>
HTypes == <<"REQUIRED", "OPTIONAL", "REPEATED", "ONEOF">>
ATypes == <<"STATIC", "CALLBACK", "POINTER">>

Packable(f) == f.ltype \in {"BOOL", "VARINT", "UVARINT", "SVARINT", "FIXED32", "FIXED64"}
IsSubmsg(f) == f.ltype \in {"SUBMESSAGE", "SUBMSG_W_CB"}

CodeOf(names, name) == CHOOSE i \in DOMAIN names : names[i] = name
TypeByte(f) ==
    Bits((CodeOf(LTypes, f.ltype) - 1) + 16 * (CodeOf(HTypes, f.htype) - 1)
         + 64 * (CodeOf(ATypes, f.atype) - 1))

\* One part of a field-info word: the low "width" bits of n, moved up to bit "at".
Part(n, width, at) == {b + at : b \in Bits(n) \cap (0 .. width - 1)}

FieldInfoHead(f, code) ==
    Part(code, 2, 0) \cup Part(f.tag, 6, 2) \cup {b + 8 : b \in TypeByte(f)}

PB_FIELDINFO(f, width) ==
    LET far == Part(f.size_offset, 8, 0) \cup {b \in 8 .. 31 : b - 2 \in Bits(f.tag)}
    IN  CASE width = 1 ->
               <<FieldInfoHead(f, 0) \cup Part(f.data_offset, 8, 16)
                   \cup Part(f.size_offset, 4, 24) \cup Part(f.data_size, 4, 28)>>
          [] width = 2 ->
               <<FieldInfoHead(f, 1) \cup Part(f.array_size, 12, 16)
                   \cup Part(f.size_offset, 4, 28),
                 Part(f.data_offset, 16, 0) \cup Part(f.data_size, 12, 16)
                   \cup Part(f.tag \div 64, 4, 28)>>
          [] width = 4 ->
               <<FieldInfoHead(f, 2) \cup Part(f.array_size, 16, 16), far,
                 Bits(f.data_offset), Bits(f.data_size)>>
          [] width = 8 ->
               <<FieldInfoHead(f, 3), far, Bits(f.data_offset), Bits(f.data_size),
                 Bits(f.array_size), {}, {}, {}>>

PB_FIELDINFO_ASSERT(f, width) ==
    LET Fits(n, bits) == n < 2^bits
    IN  CASE width = 1 -> /\ Fits(f.tag, 6) /\ Fits(f.data_offset, 8)
                          /\ Fits(f.size_offset, 4) /\ Fits(f.data_size, 4)
                          /\ Fits(f.array_size, 1)
          [] width = 2 -> /\ Fits(f.tag, 10) /\ Fits(f.data_offset, 16)
                          /\ Fits(f.size_offset, 4) /\ Fits(f.data_size, 12)
                          /\ Fits(f.array_size, 12)
          [] OTHER     -> /\ Fits(f.tag, 16) /\ Fits(f.data_offset, 16)
                          /\ Fits(f.size_offset, 7) /\ Fits(f.data_size, 16)
                          /\ Fits(f.array_size, 16)

PB_FIELDINFO_WIDTH_AUTO(f) ==
    IF \/ f.atype = "CALLBACK" \/ f.htype = "REPEATED"
       \/ f.ltype \in {"BYTES", "STRING", "SUBMESSAGE", "SUBMSG_W_CB", "FIXED_LENGTH_BYTES"}
    THEN 2 ELSE 1

load_descriptor_values(words) ==
    LET head == words[1]
        word(n) == IF n < Len(words) THEN words[n + 1] ELSE {}
        code == Num(Slice(head, 0, 1))
        low == Slice(head, 2, 7)
        Above(tagbits) == Num(low \cup {b + 6 : b \in tagbits})
        Field(tag, array_size, size_offset, data_offset, data_size) ==
            [ltype |-> LTypes[Num(Slice(head, 8, 11)) + 1],
             htype |-> HTypes[Num(Slice(head, 12, 13)) + 1],
             atype |-> ATypes[Num(Slice(head, 14, 15)) + 1],
             tag |-> tag, array_size |-> array_size, size_offset |-> size_offset,
             data_offset |-> data_offset, data_size |-> data_size]
    IN  CASE code = 0 ->
               Field(Num(low), 1, Num(Slice(head, 24, 27)), Num(Slice(head, 16, 23)),
                     Num(Slice(head, 28, 31)))
          [] code = 1 ->
               Field(Above(Slice(word(1), 28, 31)), Num(Slice(head, 16, 27)),
                     Num(Slice(head, 28, 31)), Num(Slice(word(1), 0, 15)),
                     Num(Slice(word(1), 16, 27)))
          [] OTHER ->
               Field(Above(Slice(word(1), 8, 31)),
                     IF code = 2 THEN Num(Slice(head, 16, 31)) ELSE Num(word(4)),
                     Num(Slice(word(1), 0, 7)), Num(word(2)), Num(word(3)))

AUTO == 0
WidthOf(f, width) == IF width = AUTO THEN PB_FIELDINFO_WIDTH_AUTO(f) ELSE width

\* A message descriptor: its fields in tag order, and the descriptors of its submessages.
PB_BIND(list, submsg_info, width) ==
    [fields |-> [i \in DOMAIN list |->
                    load_descriptor_values(PB_FIELDINFO(list[i], WidthOf(list[i], width)))],
     submsg_info |-> submsg_info]

LargestTag(desc) == IF desc.fields = <<>> THEN 0 ELSE Last(desc.fields).tag
RequiredFields(desc) == {i \in DOMAIN desc.fields : desc.fields[i].htype = "REQUIRED"}

-----------------------------------------------------------------------------
(* The iterator is the index of a field, counted from 1 *)

submsg_desc(desc, i) ==
    desc.submsg_info[Cardinality({j \in 1 .. i : IsSubmsg(desc.fields[j])})]

advance_iterator(desc, i) == IF i >= Len(desc.fields) THEN 1 ELSE i + 1

\* From i forward, wrapping once, back to i: the index of the tag or 0.
pb_field_iter_find(desc, i, tag) ==
    LET n == Len(desc.fields)
        from == IF tag < desc.fields[i].tag THEN n ELSE i
        step[k \in 1 .. n] == IF k = 1 THEN advance_iterator(desc, from)
                              ELSE advance_iterator(desc, step[k - 1])
        back == Min({k \in 1 .. n : step[k] = i})
        hits == {k \in 1 .. back : /\ desc.fields[step[k]].tag = tag
                                   /\ desc.fields[step[k]].ltype # "EXTENSION"}
    IN  IF n = 0 THEN 0
        ELSE IF desc.fields[i].tag = tag THEN i
        ELSE IF tag > LargestTag(desc) \/ hits = {} THEN 0
        ELSE step[Min(hits)]

-----------------------------------------------------------------------------
(* Members of a message *)

pField(f) == f.data_offset
HasSize(f) == f.size_offset # 0
pSize(f) == f.data_offset - f.size_offset
FixedCount(f) == f.htype = "REPEATED" /\ ~HasSize(f) /\ f.atype # "CALLBACK"

ReadSize(m, f) == IF FixedCount(f) THEN f.array_size ELSE m[pSize(f)]
WriteSize(m, f, n) == IF HasSize(f) THEN [m EXCEPT ![pSize(f)] = n] ELSE m

\* Element k of a repeated field, the member itself of any other.
ReadData(m, f, k) == IF f.htype = "REPEATED" THEN m[pField(f)][k] ELSE m[pField(f)]
WriteData(m, f, k, v) ==
    IF f.htype = "REPEATED" THEN [m EXCEPT ![pField(f)][k] = v]
                            ELSE [m EXCEPT ![pField(f)] = v]

Offsets(desc) ==
    LET F == ToSet(desc.fields)
    IN  {pField(f) : f \in F} \cup {pSize(f) : f \in {g \in F : HasSize(g)}}
=============================================================================
