----------------------------- MODULE PbEncode -----------------------------
(***************************************************************************)
(* nanopb/pb_encode.c above the byte level: which fields of a message are  *)
(* written, and in which form.  Compiled as here: no heap, no callbacks in *)
(* any message, extensions left out.                                       *)
(***************************************************************************)
EXTENDS PbFields

PB_ENCODE_DELIMITED == "DELIMITED"
PB_ENCODE_NULLTERMINATED == "NULLTERMINATED"

IntegerSizes == {1, 2, 4, 8}

\* The bytes of a string before its terminator.
CString(bytes) ==
    LET ends == {k \in DOMAIN bytes : bytes[k] = {}}
    IN  IF ends = {} THEN bytes ELSE SubSeq(bytes, 1, Min(ends) - 1)

SignExtended(word, size) ==
    IF 8 * size - 1 \in word THEN word \cup (8 * size .. 63) ELSE word

VarintWord(f, word) ==
    CASE f.ltype = "UVARINT" -> word
      [] f.ltype = "SVARINT" -> Zigzag(SignExtended(word, f.data_size))
      [] OTHER               -> SignExtended(word, f.data_size)

pb_enc_varint(o, f, word) ==
    IF f.data_size \in IntegerSizes THEN pb_encode_varint(o, VarintWord(f, word)) ELSE Failed(o)

pb_enc_bool(o, word) == pb_encode_varint(o, IF word = {} THEN {} ELSE {0})

pb_enc_fixed(o, f, word) ==
    IF f.data_size \in {4, 8} THEN pb_encode_fixed(o, word, f.data_size) ELSE Failed(o)

pb_enc_bytes(o, f, bytes) ==
    IF Len(bytes) > f.data_size - 2 THEN Failed(o) ELSE pb_encode_string(o, bytes)

pb_enc_string(o, f, bytes) ==
    IF f.data_size = 0 \/ Len(CString(bytes)) > f.data_size - 1
    THEN Failed(o) ELSE pb_encode_string(o, CString(bytes))

\* The wire type of one value of the field.
WireTypeOf(f) ==
    CASE f.ltype \in {"BOOL", "VARINT", "UVARINT", "SVARINT"} -> WtVarint
      [] f.ltype = "FIXED32" -> Wt32Bit
      [] f.ltype = "FIXED64" -> Wt64Bit
      [] OTHER               -> WtString

pb_encode_tag_for_field(o, f) ==
    IF f.ltype = "EXTENSION" THEN Failed(o) ELSE pb_encode_tag(o, WireTypeOf(f), f.tag)

\* A singular field of proto3 is left out when it holds its default.
RECURSIVE pb_check_proto3_default_value(_, _, _)
pb_check_proto3_default_value(desc, i, m) ==
    LET f == desc.fields[i]
        v == m[pField(f)]
    IN  CASE f.atype = "POINTER"  -> v = Null
          [] f.atype = "CALLBACK" -> TRUE
          [] f.htype = "REQUIRED" -> FALSE
          [] f.htype \in {"REPEATED", "ONEOF"} \/ HasSize(f) -> ReadSize(m, f) = 0
          [] Packable(f)          -> v = {}
          [] f.ltype = "BYTES"    -> v = <<>>
          [] f.ltype = "STRING"   -> CString(v) = <<>>
          [] IsSubmsg(f) ->
               LET sub == submsg_desc(desc, i)
               IN  \A j \in DOMAIN sub.fields : pb_check_proto3_default_value(sub, j, v)
          [] OTHER                -> f.data_size = 0

RECURSIVE pb_encode(_, _, _)

\* The body is written behind its size, and held to it.
Rejoined(head, body, size) ==
    IF body.ok /\ body.written = size
    THEN [head EXCEPT !.out = body.out, !.written = @ + size] ELSE Failed(head)

WriteSubmessage(head, desc, m, size) ==
    CASE head.sizing                                   -> pb_write_sizing(head, size)
      [] ~head.ok \/ head.written + size > head.max    -> Failed(head)
      [] OTHER -> Rejoined(head, pb_encode([head EXCEPT !.written = 0, !.max = size], desc, m), size)

\* "sized" is the same message given to a stream that writes nothing.
EncodeSized(o, desc, m, sized) ==
    IF sized.ok THEN WriteSubmessage(pb_encode_varint(o, Bits(sized.written)), desc, m, sized.written)
                ELSE Failed(o)

pb_encode_submessage(o, desc, m) == EncodeSized(o, desc, m, pb_encode(SizingStream, desc, m))

EncodeValue(o, desc, i, v) ==
    LET f == desc.fields[i]
    IN  CASE f.ltype = "BOOL"                          -> pb_enc_bool(o, v)
          [] f.ltype \in {"VARINT", "UVARINT", "SVARINT"} -> pb_enc_varint(o, f, v)
          [] f.ltype \in {"FIXED32", "FIXED64"}        -> pb_enc_fixed(o, f, v)
          [] f.ltype = "BYTES"                         -> pb_enc_bytes(o, f, v)
          [] f.ltype = "STRING"                        -> pb_enc_string(o, f, v)
          [] f.ltype = "FIXED_LENGTH_BYTES"            -> pb_encode_string(o, v)
          [] IsSubmsg(f) -> pb_encode_submessage(o, submsg_desc(desc, i), v)
          [] OTHER                                     -> Failed(o)

encode_basic_field(o, desc, i, v) ==
    EncodeValue(pb_encode_tag_for_field(o, desc.fields[i]), desc, i, v)

\* A packed array without its tag and size.
EncodeEntries(o, f, entries) ==
    FoldLeft(LAMBDA p, v : IF f.ltype \in {"FIXED32", "FIXED64"}
                           THEN pb_enc_fixed(p, f, v) ELSE pb_enc_varint(p, f, v), o, entries)

PackedSize(f, entries) ==
    CASE f.ltype = "FIXED32" -> 4 * Len(entries)
      [] f.ltype = "FIXED64" -> 8 * Len(entries)
      [] OTHER               -> EncodeEntries(SizingStream, f, entries).written

EncodePacked(o, f, entries, size) ==
    LET head == pb_encode_varint(pb_encode_tag(o, WtString, f.tag), Bits(size))
    IN  IF o.sizing THEN pb_write_sizing(head, size) ELSE EncodeEntries(head, f, entries)

\* Arrays of numbers are packed behind their size, the others field by field.
encode_array(o, desc, i, m) ==
    LET f == desc.fields[i]
        count == ReadSize(m, f)
        entries == SubSeq(m[pField(f)], 1, count)
    IN  CASE count = 0                -> o
          [] count > f.array_size     -> Failed(o)
          [] Packable(f)              -> EncodePacked(o, f, entries, PackedSize(f, entries))
          [] OTHER -> FoldLeft(LAMBDA p, v : encode_basic_field(p, desc, i, v), o, entries)

\* (mutation) The default value is left out of a oneof, too.
AbsentWhenZero(desc, i, m) ==
    LET f == desc.fields[i]
    IN  \/ f.htype = "ONEOF" /\ ReadSize(m, f) # f.tag
        \/ f.htype = "ONEOF" /\ Packable(f) /\ m[pField(f)] = {}
        \/ f.htype = "OPTIONAL" /\ HasSize(f) /\ ReadSize(m, f) = 0

Absent(desc, i, m) ==
    LET f == desc.fields[i]
    IN  \/ f.htype = "ONEOF" /\ ReadSize(m, f) # f.tag
        \/ f.htype = "OPTIONAL" /\ HasSize(f) /\ ReadSize(m, f) = 0
        \/ /\ f.htype = "OPTIONAL" /\ ~HasSize(f) /\ f.atype = "STATIC"
           /\ pb_check_proto3_default_value(desc, i, m)

encode_field(o, desc, i, m) ==
    LET f == desc.fields[i]
        null == f.atype = "POINTER" /\ m[pField(f)] = Null
    IN  CASE Absent(desc, i, m)                 -> o
          [] null /\ f.htype = "REQUIRED"       -> Failed(o)
          [] null \/ f.atype = "CALLBACK"       -> o
          [] f.htype = "REPEATED"               -> encode_array(o, desc, i, m)
          [] OTHER -> encode_basic_field(o, desc, i, m[pField(f)])

pb_encode(o, desc, m) ==
    FoldLeft(LAMBDA p, i : encode_field(p, desc, i, m), o,
             [i \in DOMAIN desc.fields |-> i])

pb_encode_ex(o, desc, m, flags) ==
    IF PB_ENCODE_DELIMITED \in flags
    THEN pb_encode_submessage(o, desc, m)
    ELSE pb_write(pb_encode(o, desc, m), IF PB_ENCODE_NULLTERMINATED \in flags THEN <<{}>> ELSE <<>>)

pb_get_encoded_size(desc, m) == pb_encode(SizingStream, desc, m).written
=============================================================================
