----------------------------- MODULE PbDecode -----------------------------
(***************************************************************************)
(* nanopb/pb_decode.c above the byte level: the loop over the fields of a  *)
(* message and the storing of each into its struct.  Compiled as here: no  *)
(* heap, so pointer fields are refused; no message of this system has      *)
(* callbacks, extensions or explicit default values.                       *)
(***************************************************************************)
EXTENDS PbEncode

PB_DECODE_NOINIT == "NOINIT"
PB_DECODE_DELIMITED == "DELIMITED"
PB_DECODE_NULLTERMINATED == "NULLTERMINATED"
PB_SIZE_MAX == 65535

-----------------------------------------------------------------------------
(* One value: the stream after it and the value to store *)

pb_decode_bool(s) ==
    [pb_decode_varint32(s) EXCEPT !.value = IF @ = {} THEN {} ELSE {0}]

Stored(raw, f, word) ==
    LET bits == 8 * f.data_size
        unsigned == f.ltype = "UVARINT"
        beyond == word \cap ((IF unsigned THEN bits ELSE bits - 1) .. 63)
        fits == /\ f.data_size \in IntegerSizes
                /\ beyond = {} \/ (~unsigned /\ beyond = bits - 1 .. 63)
    IN  [s |-> IF fits THEN raw.s ELSE Failed(raw.s), value |-> word \cap (0 .. bits - 1)]

\* An int32_t cast: words above 32 bits of a narrow signed field are dropped.
Narrowed(raw, f) ==
    IF f.ltype = "VARINT" /\ f.data_size # 8
    THEN SignExtended(raw.value \cap (0 .. 31), 4) ELSE raw.value

pb_dec_varint(s, f) ==
    LET raw == IF f.ltype = "SVARINT" THEN pb_decode_svarint(s) ELSE pb_decode_varint(s)
    IN  Stored(raw, f, Narrowed(raw, f))

\* The "size" bytes that follow a length, if the member can hold them.
ReadBytes(s, size, fits) ==
    LET next == IF fits THEN pb_read(s, size) ELSE Failed(s)
    IN  [s |-> next, value |-> IF next.ok THEN Ahead(s, size) ELSE <<>>]

\* (mutation) No room for the terminator.
RoomForFull(f) == f.data_size - (IF f.ltype = "BYTES" THEN 2 ELSE 0)

\* The longest content of the member: bytes come with a length, strings with a terminator.
RoomFor(f) == f.data_size - CASE f.ltype = "BYTES" -> 2 [] f.ltype = "STRING" -> 1 [] OTHER -> 0

pb_dec_bytes(length, f) ==
    LET size == Num(length.value)
    IN  ReadBytes(length.s, size, size <= PB_SIZE_MAX /\ size <= RoomFor(f))

pb_dec_string(length, f) ==
    LET size == Num(length.value) IN ReadBytes(length.s, size, size <= RoomFor(f))

\* An empty value is stored as zeros.
Padded(v, f) ==
    IF v.value = <<>> THEN [v EXCEPT !.value = [k \in 1 .. f.data_size |-> {}]] ELSE v

pb_dec_fixed_length_bytes(length, f) ==
    LET size == Num(length.value)
    IN  Padded(ReadBytes(length.s, size, size \in {0, RoomFor(f)}), f)

\* The three of them begin with the length.
DecodeBytes(length, f) ==
    CASE f.ltype = "BYTES"              -> pb_dec_bytes(length, f)
      [] f.ltype = "STRING"             -> pb_dec_string(length, f)
      [] f.ltype = "FIXED_LENGTH_BYTES" -> pb_dec_fixed_length_bytes(length, f)

-----------------------------------------------------------------------------
(* Defaults *)

\* What memset leaves in a struct.
RECURSIVE ZeroMessage(_)
ZeroValue(desc, i) ==
    LET f == desc.fields[i]
    IN  CASE IsSubmsg(f)                    -> ZeroMessage(submsg_desc(desc, i))
          [] f.ltype = "FIXED_LENGTH_BYTES" -> [k \in 1 .. f.data_size |-> {}]
          [] f.ltype \in {"BYTES", "STRING"} -> <<>>
          [] OTHER                          -> {}

\* The fields that own an offset: several when it is that of a union.
FieldsAt(desc, at) == {i \in DOMAIN desc.fields : pField(desc.fields[i]) = at}

ZeroMessage(desc) ==
    [at \in Offsets(desc) |->
        LET at_ == FieldsAt(desc, at)
            f == desc.fields[Min(at_)]
        IN  CASE at_ = {}               -> 0
              [] f.atype = "POINTER"    -> Null
              [] f.htype = "ONEOF"      -> Undefined
              [] f.htype = "REPEATED"   -> [k \in 1 .. f.array_size |-> ZeroValue(desc, Min(at_))]
              [] OTHER                  -> ZeroValue(desc, Min(at_))]

\* Submessages without submessages of their own are simply cleared.
RECURSIVE pb_message_set_to_defaults(_)
pb_field_set_to_default(desc, i) ==
    LET f == desc.fields[i]
        sub == submsg_desc(desc, i)
    IN  CASE f.atype = "POINTER"                    -> Null
          [] f.atype = "CALLBACK"                   -> Undefined
          [] f.htype = "ONEOF"                      -> Undefined
          [] f.htype = "REPEATED"                   -> [k \in 1 .. f.array_size |-> Undefined]
          [] IsSubmsg(f) /\ sub.submsg_info # <<>>  -> pb_message_set_to_defaults(sub)
          [] OTHER                                  -> ZeroValue(desc, i)

pb_message_set_to_defaults(desc) ==
    [at \in Offsets(desc) |->
        IF FieldsAt(desc, at) = {} THEN 0
        ELSE pb_field_set_to_default(desc, Min(FieldsAt(desc, at)))]

-----------------------------------------------------------------------------
(* One field.  A message being filled is [s, m, size]: the stream, the     *)
(* struct, and the count of a fixed-count array, which has no _count.      *)

RECURSIVE pb_decode_inner(_, _, _, _)

\* The substream is closed when all that was in it has been decoded.
Closed(streams, inner) ==
    [inner EXCEPT !.s = IF streams.s.ok /\ @.ok THEN pb_close_string_substream(streams.s, @)
                                                ELSE Failed(streams.s)]

DecodeSubstream(streams, desc, old, flags) ==
    Closed(streams, pb_decode_inner(streams.sub, desc, old, flags))

pb_dec_submessage(s, desc, i, old) ==
    DecodeSubstream(pb_make_string_substream(s), submsg_desc(desc, i), old,
                    IF desc.fields[i].htype = "REPEATED" THEN {} ELSE {PB_DECODE_NOINIT})

WireTypes(f) == {WireTypeOf(f)} \cup (IF Packable(f) THEN {WtPacked} ELSE {})

decode_basic_field(s, wt, desc, i, old) ==
    LET f == desc.fields[i]
        refused == [s |-> Failed(s), value |-> old]
    IN  CASE wt \notin WireTypes(f)         -> refused
          [] f.ltype = "BOOL"               -> pb_decode_bool(s)
          [] f.ltype \in {"VARINT", "UVARINT", "SVARINT"} -> pb_dec_varint(s, f)
          [] f.ltype = "FIXED32"            -> pb_decode_fixed(s, 4)
          [] f.ltype = "FIXED64"            -> pb_decode_fixed(s, 8)
          [] f.ltype \in {"BYTES", "STRING", "FIXED_LENGTH_BYTES"} ->
               DecodeBytes(pb_decode_varint32(s), f)
          [] IsSubmsg(f) -> LET r == pb_dec_submessage(s, desc, i, old)
                            IN  [s |-> r.s, value |-> r.m]
          [] OTHER                          -> refused

StoreElement(st, f, v) ==
    IF v.s.ok THEN [s |-> v.s, m |-> WriteData(st.m, f, st.size + 1, v.value), size |-> st.size + 1]
              ELSE [st EXCEPT !.s = v.s]

\* The next element of an array; "st" counts those already there.
DecodeElement(st, wt, desc, i) ==
    IF st.size >= desc.fields[i].array_size
    THEN [st EXCEPT !.s = Failed(@)]
    ELSE StoreElement(st, desc.fields[i], decode_basic_field(st.s, wt, desc, i, Undefined))

RECURSIVE DecodePacked(_, _, _)
DecodePacked(st, desc, i) ==
    IF st.s.ok /\ st.s.left > 0
    THEN DecodePacked(DecodeElement(st, WtPacked, desc, i), desc, i) ELSE st

\* Packed into a substream, or one element alone.
DecodeRepeated(st, wt, desc, i) ==
    LET streams == pb_make_string_substream(st.s)
    IN  IF wt = WtString /\ Packable(desc.fields[i])
        THEN Closed(streams, DecodePacked([st EXCEPT !.s = streams.sub], desc, i))
        ELSE DecodeElement(st, wt, desc, i)

\* The struct is told of the field before its value is read.
Told(m, desc, i) ==
    LET f == desc.fields[i]
        switched == f.htype = "ONEOF" /\ ReadSize(m, f) # f.tag
        cleared == IF switched /\ IsSubmsg(f)
                   THEN WriteData(m, f, 0, ZeroMessage(submsg_desc(desc, i))) ELSE m
    IN  CASE f.htype = "OPTIONAL" -> WriteSize(m, f, 1)
          [] f.htype = "ONEOF"    -> WriteSize(cleared, f, f.tag)
          [] OTHER                -> m

StoreArray(f, array) == [array EXCEPT !.m = WriteSize(@, f, array.size)]

StoreValue(st, f, v) == [st EXCEPT !.s = v.s, !.m = WriteData(@, f, 0, v.value)]

DecodeTold(st, wt, desc, i) ==
    StoreValue(st, desc.fields[i],
               decode_basic_field(st.s, wt, desc, i, ReadData(st.m, desc.fields[i], 0)))

decode_static_field(st, wt, desc, i) ==
    LET f == desc.fields[i]
        counted == IF FixedCount(f) THEN st ELSE [st EXCEPT !.size = ReadSize(st.m, f)]
    IN  IF f.htype = "REPEATED"
        THEN StoreArray(f, DecodeRepeated(counted, wt, desc, i))
        ELSE DecodeTold([st EXCEPT !.m = Told(@, desc, i)], wt, desc, i)

decode_field(st, wt, desc, i) ==
    CASE desc.fields[i].atype = "STATIC"   -> decode_static_field(st, wt, desc, i)
      [] desc.fields[i].atype = "CALLBACK" -> [st EXCEPT !.s = pb_skip_field(@, wt)]
      [] OTHER                             -> [st EXCEPT !.s = Failed(@)]

-----------------------------------------------------------------------------
(* All fields.  "at" is the iterator, "seen" the required fields met, "fixed"*)
(* the fixed-count array being filled and "size" how far it is.              *)

FixedShort(desc, st) == st.fixed # 0 /\ st.size # desc.fields[st.fixed].array_size

\* What a field has left of the loop: the stream, the struct, and the marks it makes.
Marked(st, f, i, r) ==
    [st EXCEPT !.s = r.s, !.m = r.m, !.at = i,
               !.seen = IF f.htype = "REQUIRED" THEN @ \cup {i} ELSE @,
               !.fixed = IF FixedCount(f) THEN i ELSE @,
               !.size = IF FixedCount(f) THEN r.size ELSE @]

DecodeKnown(st, wt, desc, i) ==
    LET f == desc.fields[i]
        opens == FixedCount(f) /\ st.fixed # i
        size == IF opens THEN 0 ELSE st.size
    IN  IF opens /\ FixedShort(desc, st)
        THEN [st EXCEPT !.s = Failed(@)]
        ELSE Marked(st, f, i, decode_field([s |-> st.s, m |-> st.m, size |-> size], wt, desc, i))

\* A field the descriptor does not know is skipped.
DecodeAny(st, wt, desc, i) ==
    IF i = 0 THEN [st EXCEPT !.s = pb_skip_field(@, wt)] ELSE DecodeKnown(st, wt, desc, i)

RECURSIVE DecodeLoop(_, _, _)
DecodeTagged(st, t, desc, flags) ==
    CASE ~t.s.ok   -> [st EXCEPT !.s = t.s]
      [] t.tag = 0 -> [st EXCEPT !.s = IF PB_DECODE_NULLTERMINATED \in flags
                                       THEN t.s ELSE Failed(t.s)]
      [] OTHER -> DecodeLoop(DecodeAny([st EXCEPT !.s = t.s], t.wt, desc,
                                       pb_field_iter_find(desc, st.at, t.tag)), desc, flags)

DecodeLoop(st, desc, flags) ==
    IF st.s.ok /\ st.s.left > 0 THEN DecodeTagged(st, pb_decode_tag(st.s), desc, flags) ELSE st

Finished(end, desc) ==
    LET complete == ~FixedShort(desc, end) /\ RequiredFields(desc) \subseteq end.seen
    IN  [s |-> IF complete THEN end.s ELSE Failed(end.s), m |-> end.m]

pb_decode_inner(s, desc, old, flags) ==
    LET m == IF PB_DECODE_NOINIT \in flags THEN old ELSE pb_message_set_to_defaults(desc)
    IN  Finished(DecodeLoop([s |-> s, m |-> m, at |-> 1, seen |-> {}, fixed |-> 0, size |-> 0],
                            desc, flags), desc)

pb_decode_ex(s, desc, old, flags) ==
    IF PB_DECODE_DELIMITED \in flags
    THEN DecodeSubstream(pb_make_string_substream(s), desc, old, flags)
    ELSE pb_decode_inner(s, desc, old, flags)

pb_decode(s, desc) == pb_decode_inner(s, desc, Undefined, {})
=============================================================================
