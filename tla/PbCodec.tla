------------------------------ MODULE PbCodec ------------------------------
(***************************************************************************)
(* One message on its way: a side fills in a struct and encodes it into a  *)
(* buffer, the bytes arrive as they are, with fields of a newer schema     *)
(* between them, or cut short, and the other side decodes them.  Noise     *)
(* starts from bytes no encoder wrote.  Next to the messages of the board  *)
(* there are samples of every kind of field the library supports, with the *)
(* wider descriptor formats, so that the whole of it is exercised.         *)
(***************************************************************************)
EXTENDS BoardMessages

CONSTANTS
    Duties,       \* words of the floats a duty cycle is taken from
    NoisePieces,  \* byte strings noise is put together from
    MaxNoise      \* pieces in the longest noise

ASSUME NoiseAssumption ==
    MaxNoise \in Nat /\ \A piece \in NoisePieces : \A k \in DOMAIN piece : piece[k] \in Byte

-----------------------------------------------------------------------------
(* Sample messages: struct layouts a generator would choose *)

Scalars_msg == PB_BIND(
    <<Static(1, "REQUIRED", "UVARINT", 0, 4, 0, 1),
      Static(2, "OPTIONAL", "SVARINT", 16, 8, 8, 1),
      Static(3, SINGULAR, "VARINT", 24, 2, 0, 1),
      Static(70, SINGULAR, "BOOL", 26, 1, 0, 1)>>, <<>>, 2)
Scalars == {(0 :> a) @@ (8 :> IF b = {} THEN 0 ELSE 1) @@ (16 :> b) @@ (24 :> c) @@ (26 :> d) :
               a \in {{}, {0, 7}, 0 .. 31}, b \in {{}, {62}, {63}, 0 .. 63},
               c \in {{}, {14}, {15}}, d \in {{}, {0}}}

Arrays_msg == PB_BIND(
    <<Static(1, "REPEATED", "UVARINT", 2, 1, 2, 3),
      Static(2, "REPEATED", "FIXED32", 8, 4, 0, 2),
      Static(3, "REPEATED", "STRING", 18, 3, 2, 2)>>, <<>>, 4)
Arrays == {(0 :> n) @@ (2 :> <<{7}, {0}, {}>>) @@ (8 :> <<{31}, {0}>>)
             @@ (16 :> k) @@ (18 :> <<<<{0}, {1}>>, <<>>>>) : n \in 0 .. 3, k \in 0 .. 2}

Blobs_msg == PB_BIND(
    <<Static(1, SINGULAR, "BYTES", 0, 5, 0, 1),
      Static(2, SINGULAR, "STRING", 6, 4, 0, 1),
      Static(3, SINGULAR, "FIXED_LENGTH_BYTES", 10, 2, 0, 1),
      Static(4, SINGULAR, "FIXED64", 16, 8, 0, 1)>>, <<>>, AUTO)
Blobs == {(0 :> a) @@ (6 :> b) @@ (10 :> <<{}, {1}>>) @@ (16 :> c) :
             a \in {<<>>, <<{}, {7}, {3}>>}, b \in {<<>>, <<{0}, {1}, {2}>>}, c \in {{}, {63}}}

Nested_msg == PB_BIND(
    <<Static(1, "OPTIONAL", "SUBMESSAGE", 4, 8, 4, 1),
      Static(2, "REPEATED", "SUBMESSAGE", 16, 8, 4, 2),
      Static(3, SINGULAR, "SUBMESSAGE", 32, 24, 0, 1)>>,
    <<SetPWM_msg[4], HighToLow_msg[4], Arrays_msg>>, 8)
Nested == LET pwm == (0 :> {0}) @@ (4 :> {30})
              choice == (0 :> set_pwm_tag) @@ (4 :> pwm)
              off == (0 :> disable_tag) @@ (4 :> pwm)
          IN  {(0 :> has) @@ (4 :> pwm) @@ (12 :> n) @@ (16 :> <<choice, off>>) @@ (32 :> a) :
                  has \in {0, 1}, n \in 0 .. 2, a \in {m \in Arrays : m[0] = m[16]}}

\* A heap field left empty and a callback nobody set.
Lazy_msg == PB_BIND(
    <<[Static(1, SINGULAR, "UVARINT", 0, 4, 0, 1) EXCEPT !.atype = "POINTER"],
      [Static(2, SINGULAR, "STRING", 8, 4, 0, 1) EXCEPT !.atype = "CALLBACK"],
      Static(3, SINGULAR, "BOOL", 24, 1, 0, 1)>>, <<>>, AUTO)
Lazy == {(0 :> Null) @@ (8 :> Undefined) @@ (24 :> b) : b \in {{}, {0}}}

Samples == [Scalars |-> Scalars, Arrays |-> Arrays, Blobs |-> Blobs, Nested |-> Nested,
            Lazy |-> Lazy]

Descriptor(kind, enum) ==
    CASE kind = "HighToLow" -> HighToLow_msg[enum]
      [] kind = "LowToHigh" -> LowToHigh_msg[enum]
      [] kind = "Scalars"   -> Scalars_msg
      [] kind = "Arrays"    -> Arrays_msg
      [] kind = "Blobs"     -> Blobs_msg
      [] kind = "Nested"    -> Nested_msg
      [] kind = "Lazy"      -> Lazy_msg

-----------------------------------------------------------------------------
(* What a message says to a reader of its struct: the fields that are there *)

RECURSIVE Meaning(_, _)
Meaning(desc, m) ==
    LET field(i) == desc.fields[i]
        Sized(i) == HasSize(field(i)) \/ FixedCount(field(i))
        there == {i \in DOMAIN desc.fields :
                     /\ field(i).atype = "STATIC"
                     /\ field(i).htype = "ONEOF" => ReadSize(m, field(i)) = field(i).tag
                     /\ field(i).htype = "OPTIONAL" /\ Sized(i) => ReadSize(m, field(i)) # 0}
        One(i, v) == CASE IsSubmsg(field(i))          -> Meaning(submsg_desc(desc, i), v)
                       [] field(i).ltype = "STRING"   -> CString(v)
                       [] OTHER                       -> v
    IN  [i \in there |->
            IF field(i).htype = "REPEATED"
            THEN [k \in 1 .. ReadSize(m, field(i)) |-> One(i, m[pField(field(i))][k])]
            ELSE One(i, m[pField(field(i))])]

\* No count beyond its array, no length beyond its buffer, nothing undefined; a
\* fixed-count array is whole or, as the decoder gives it no default, untouched.
RECURSIVE WellFormed(_, _)
WellFormed(desc, m) ==
    \A i \in DOMAIN desc.fields :
        LET f == desc.fields[i]
            Sound(v) == /\ v # Undefined
                        /\ IsSubmsg(f) => WellFormed(submsg_desc(desc, i), v)
                        /\ f.ltype = "BYTES" => Len(v) + 2 <= f.data_size
                        /\ f.ltype = "STRING" => Len(v) + 1 <= f.data_size
                        /\ f.ltype = "FIXED_LENGTH_BYTES" => Len(v) = f.data_size
                        /\ Packable(f) => v \subseteq 0 .. 8 * f.data_size - 1
            untouched == \A k \in 1 .. f.array_size : ReadData(m, f, k) = Undefined
        IN  CASE f.atype # "STATIC"    -> TRUE
              [] FixedCount(f) /\ untouched -> TRUE
              [] f.htype = "REPEATED"  -> /\ ReadSize(m, f) <= f.array_size
                                          /\ \A k \in 1 .. ReadSize(m, f) : Sound(ReadData(m, f, k))
              [] f.htype = "ONEOF"     -> ReadSize(m, f) = f.tag => Sound(ReadData(m, f, 0))
              [] OTHER                 -> Sound(ReadData(m, f, 0))

\* Where the fields of a byte string end, by the grammar of the wire format alone.
RECURSIVE FieldEnds(_)
FieldEnds(s) ==
    LET t == pb_decode_tag(s)
        next == pb_skip_field(t.s, t.wt)
    IN  IF s.left > 0 /\ t.s.ok /\ next.ok THEN {s.pos} \cup FieldEnds(next) ELSE {s.pos}

-----------------------------------------------------------------------------
VARIABLES
    kind,    \* the type of the message
    said,    \* the command, the event or the sample that is sent, "noise" without one
    enums,   \* the size of an enum at the two ends
    flags,   \* how the message is delimited
    pc,      \* "filled", "encoded", "sent", "decoded"
    out,     \* the output stream after encoding
    wire,    \* the bytes that arrive
    edit,    \* what happened to them: "none", "unknown", "cut" or "noise"
    got      \* the result of decoding

vars == <<kind, said, enums, flags, pc, out, wire, edit, got>>

Boards == {"HighToLow", "LowToHigh"}
Sender == Descriptor(kind, enums.from)
Reader == Descriptor(kind, enums.to)

Filled == CASE kind = "HighToLow" -> FilledCommand(said, enums.from)
            [] kind = "LowToHigh" -> FilledEvent(said, enums.from)
            [] OTHER              -> said

Linux == 4
Nothing == [ok |-> FALSE, left |-> 0, m |-> Undefined]

Fresh == pc = "filled" /\ edit = "none" /\ wire = <<>>

Init ==
    /\ out = SizingStream /\ got = Nothing
    /\ flags \in {{}, {PB_ENCODE_DELIMITED}, {PB_ENCODE_NULLTERMINATED}}
    /\ \/ /\ kind = "HighToLow" /\ said \in Commands(Duties) /\ Fresh
          /\ enums \in [from : {Linux}, to : EnumSizes]
       \/ /\ kind = "LowToHigh" /\ said \in FsmEvents /\ Fresh
          /\ enums \in [from : EnumSizes, to : {Linux}]
       \/ /\ kind \in DOMAIN Samples /\ said \in Samples[kind] /\ Fresh
          /\ enums = [from |-> Linux, to |-> Linux]
       \/ /\ kind \in Boards \cup DOMAIN Samples /\ said = "noise"
          /\ enums = [from |-> Linux, to |-> Linux]
          /\ pc = "sent" /\ edit = "noise"
          /\ \E n \in 0 .. MaxNoise : \E pieces \in [1 .. n -> NoisePieces] :
                wire = FlattenSeq(pieces)

SizeOf(desc, m) == IF flags = {} THEN pb_get_encoded_size(desc, m)
                   ELSE pb_encode_ex(SizingStream, desc, m, flags).written
Size == SizeOf(Sender, Filled)

\* Into a buffer one byte short, one that is just enough, or a large one.
RoomsAbout(size) == {size - 1, size, 512} \cap Nat

Encode ==
    /\ pc = "filled"
    /\ \E room \in RoomsAbout(Size) :
          /\ out' = pb_encode_ex(pb_ostream_from_buffer(room), Sender, Filled, flags)
          /\ wire' = out'.out
    /\ pc' = "encoded"
    /\ UNCHANGED <<kind, said, enums, flags, edit, got>>

Send(bytes, what) ==
    /\ pc = "encoded" /\ out.ok
    /\ wire' = bytes /\ edit' = what
    /\ pc' = "sent"
    /\ UNCHANGED <<kind, said, enums, flags, out, got>>

\* Fields no reader knows: each wire type, tags below and above the known ones.
UnknownFields ==
    LET Field(tag, wt, body) == pb_encode_tag(pb_ostream_from_buffer(9), wt, tag).out \o body
    IN  {Field(9, WtVarint, <<{0, 7}, {1}>>), Field(200, WtString, <<{1}, {7}, {3}>>),
         Field(9, Wt32Bit, <<{}, {3}, {}, {7}>>), Field(300, Wt64Bit, [k \in 1 .. 8 |-> {3}])}

Cut == \E n \in 0 .. Len(wire) - 1 : Send(SubSeq(wire, 1, n), "cut")
Extend ==
    /\ flags = {}
    /\ \E at \in FieldEnds(pb_istream_from_buffer(wire)), field \in UnknownFields :
          Send(SubSeq(wire, 1, at) \o field \o SubSeq(wire, at + 1, Len(wire)), "unknown")

Outcome(r) == [ok |-> r.s.ok, left |-> r.s.left, m |-> r.m]

Decode ==
    /\ pc = "sent"
    /\ LET s == pb_istream_from_buffer(wire)
       IN  got' = Outcome(IF flags = {} THEN pb_decode(s, Reader)
                          ELSE pb_decode_ex(s, Reader, Undefined, flags))
    /\ pc' = "decoded"
    /\ UNCHANGED <<kind, said, enums, flags, out, wire, edit>>

Next == Encode \/ Send(wire, "none") \/ Cut \/ Extend \/ Decode

Spec == Init /\ [][Next]_vars

-----------------------------------------------------------------------------
(* Properties *)

Arrived == pc = "decoded" /\ edit \in {"none", "unknown"}

\* What was put into the struct on one side is what stands in the struct on the
\* other, also when the two compilers lay the struct out differently and when
\* fields of a newer schema stand anywhere between the known ones (pb_decode.h
\* and pb_encode.h promise no less; the firmware relies on it for every command).
RoundTrip ==
    Arrived => /\ got.ok /\ got.left = 0
               /\ Meaning(Reader, got.m) = Meaning(Sender, Filled)

FitsExactly(size) ==
    /\ out.ok <=> size <= out.max
    /\ Len(out.out) <= out.max
    /\ out.ok => Len(out.out) = size /\ out.written = size
    /\ kind = "HighToLow" /\ flags = {} => size <= HighToLow_size
    /\ kind = "LowToHigh" /\ flags = {} => size <= LowToHigh_size

\* The sizing pass foresees the encoded size to the byte, an encoding succeeds
\* exactly when the buffer has that room and never writes beyond it, and the
\* buffers the firmware declares with HighToLow_size and LowToHigh_size suffice.
SizeExact == pc = "encoded" => FitsExactly(Size)

\* A message cut short is never taken for another one: it is refused, or the cut
\* fell between two fields.  For the messages of the board no such place exists
\* but the empty one, which commands nothing.
CutRejected ==
    pc = "decoded" /\ edit = "cut" /\ got.ok =>
        /\ flags # {PB_ENCODE_DELIMITED}
        /\ Len(wire) \in FieldEnds(pb_istream_from_buffer(out.out))
        /\ kind \in Boards /\ flags = {} => which(got.m) = 0

\* Whatever bytes arrive, a message that is accepted has been consumed whole and
\* its struct is sound: no count beyond its array, no member read undefined.
DecodeSound ==
    pc = "decoded" /\ got.ok =>
        /\ flags = {} => got.left = 0
        /\ WellFormed(Reader, got.m)

\* The command a handler of the driver sends is the call the firmware makes, with
\* its argument, and the event of the state machine is the one EVerest publishes,
\* for zero values too, which proto3 leaves out.
MessageMeant ==
    Arrived /\ kind \in Boards =>
        said = IF kind = "HighToLow" THEN handle_incoming_message(got.m)
               ELSE handle_low_to_high_message(got.m, enums.to)
=============================================================================
