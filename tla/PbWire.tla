------------------------------ MODULE PbWire ------------------------------
(***************************************************************************)
(* The bottom of the protobuf codec: byte streams over a buffer, varints,  *)
(* tags and fixed-width values, as nanopb/pb_decode.c and pb_encode.c read *)
(* and write them.  A byte is the set of its one bits (a subset of 0..7)   *)
(* and a word the set of its one bits, so that 32 and 64 bit widths are    *)
(* exact and a shift or a mask is a set expression.  A stream carries "ok":*)
(* once an operation has failed the C functions return at once, here every *)
(* later operation leaves the stream alone.                                *)
(* The codec modules read a CASE from the top, as TLC evaluates it; the arms*)
(* are those of the if chain or switch it stands for.                      *)
(***************************************************************************)
EXTENDS Integers, Sequences, FiniteSets, FiniteSetsExt, SequencesExt

More == 7                  \* the continuation bit of a varint byte
Byte == SUBSET (0 .. 7)

Bits(n) == {i \in 0 .. 29 : (n \div 2^i) % 2 = 1}

\* Numbers stand for lengths and tags: from 2^30 on all are beyond any buffer.
Num(w) ==
    LET down[i \in 0 .. 30] ==    \* what the bits from the i-th up say
            IF i = 30 THEN 0 ELSE 2 * down[i + 1] + (IF i \in w THEN 1 ELSE 0)
    IN  IF w \subseteq 0 .. 29 THEN down[0] ELSE 2^30

Slice(w, lo, hi) == {b - lo : b \in w \cap (lo .. hi)}
Joined(groups, width) ==
    UNION {{width * (j - 1) + b : b \in groups[j]} : j \in DOMAIN groups}

-----------------------------------------------------------------------------
(* Input streams *)

pb_istream_from_buffer(bytes) ==
    [buf |-> bytes, pos |-> 0, left |-> Len(bytes), ok |-> TRUE]

Failed(s) == [s EXCEPT !.ok = FALSE]

pb_read(s, count) ==
    IF ~s.ok \/ count > s.left
    THEN Failed(s)
    ELSE [s EXCEPT !.pos = @ + count, !.left = @ - count]

Ahead(s, count) == SubSeq(s.buf, s.pos + 1, s.pos + count)

\* (mutation) A varint that the end of the stream cuts off counts as complete.
VarintLengthUnended(s, most) ==
    LET ends == {k \in 1 .. Min({most, s.left}) : More \notin s.buf[s.pos + k]}
    IN  CASE ~s.ok -> 0 [] ends = {} -> s.left [] OTHER -> Min(ends)

\* The length of the varint that starts here, 0 when none ends within "most" bytes.
VarintLength(s, most) ==
    LET ends == {k \in 1 .. Min({most, s.left}) : More \notin s.buf[s.pos + k]}
    IN  IF s.ok /\ ends # {} THEN Min(ends) ELSE 0

Payload(s, count) == Joined([j \in 1 .. count |-> s.buf[s.pos + j] \ {More}], 7)

ReadVarint(s, k) ==
    [s |-> IF k = 0 THEN Failed(s) ELSE pb_read(s, k), value |-> Payload(s, k) \cap (0 .. 63)]

pb_decode_varint(s) == ReadVarint(s, VarintLength(s, 10))

\* Bytes six to ten carry no payload: they must be empty or repeat the sign.
Extends(byte, j, negative) ==
    byte \ {More} = {} \/ (negative /\ byte = IF j < 10 THEN 0 .. 7 ELSE {0})

ReadVarint32(s, k, value) ==
    LET fits == /\ k > 0
                /\ k = 5 => s.buf[s.pos + 5] \cap (4 .. 6) = {}
                /\ \A j \in 6 .. k : Extends(s.buf[s.pos + j], j, 31 \in value)
    IN  [s |-> IF fits THEN pb_read(s, k) ELSE Failed(s), value |-> value]

pb_decode_varint32(s) ==
    LET k == VarintLength(s, 10)
    IN  ReadVarint32(s, k, Payload(s, Min({k, 5})) \cap (0 .. 31))

pb_skip_varint(s) == ReadVarint(s, VarintLength(s, s.left)).s

SkipBytes(length) == pb_read(length.s, Num(length.value))
pb_skip_string(s) == SkipBytes(pb_decode_varint32(s))

WtVarint == 0
Wt64Bit == 1
WtString == 2
Wt32Bit == 5
WtPacked == 255

TagOf(v) == [s |-> v.s, tag |-> Num(Slice(v.value, 3, 31)), wt |-> Num(v.value \cap (0 .. 2))]
pb_decode_tag(s) == TagOf(pb_decode_varint32(s))

pb_skip_field(s, wt) ==
    CASE wt = WtVarint -> pb_skip_varint(s)
      [] wt = Wt64Bit  -> pb_read(s, 8)
      [] wt = WtString -> pb_skip_string(s)
      [] wt = Wt32Bit  -> pb_read(s, 4)
      [] OTHER         -> Failed(s)

pb_decode_fixed(s, size) ==
    LET next == pb_read(s, size)
    IN  [s |-> next, value |-> IF next.ok THEN Joined(Ahead(s, size), 8) ELSE {}]

Unzigzag(v) ==
    LET half == Slice(v.value, 1, 63)
    IN  [v EXCEPT !.value = IF 0 \in @ THEN (0 .. 63) \ half ELSE half]
pb_decode_svarint(s) == Unzigzag(pb_decode_varint(s))

\* The parent loses the bytes of the substream at once, its position moves at the close.
SplitOff(s, size) ==
    LET parent == IF size > s.left THEN Failed(s) ELSE s
    IN  IF parent.ok THEN [s |-> [s EXCEPT !.left = @ - size], sub |-> [s EXCEPT !.left = size]]
                     ELSE [s |-> parent, sub |-> parent]
SplitAt(length) == SplitOff(length.s, Num(length.value))
pb_make_string_substream(s) == SplitAt(pb_decode_varint32(s))

pb_close_string_substream(s, sub) ==
    IF s.ok THEN [s EXCEPT !.pos = sub.pos + sub.left] ELSE s

-----------------------------------------------------------------------------
(* Output streams: a sizing stream counts what it is given and stores nothing *)

pb_ostream_from_buffer(size) ==
    [out |-> <<>>, written |-> 0, max |-> size, sizing |-> FALSE, ok |-> TRUE]

SizingStream == [pb_ostream_from_buffer(0) EXCEPT !.sizing = TRUE]

\* (mutation) The bound of the buffer is checked before the bytes are counted.
pb_writeLateCheck(o, bytes) ==
    LET count == Len(bytes)
    IN  CASE ~o.ok \/ o.sizing -> [o EXCEPT !.written = @ + count]
          [] o.written > o.max -> Failed(o)
          [] OTHER             -> [o EXCEPT !.written = @ + count, !.out = @ \o bytes]

pb_write(o, bytes) ==
    LET count == Len(bytes)
        full == count > 0 /\ ~o.sizing /\ o.written + count > o.max
    IN  CASE ~o.ok    -> o
          [] full     -> Failed(o)
          [] o.sizing -> [o EXCEPT !.written = @ + count]
          [] OTHER    -> [o EXCEPT !.written = @ + count, !.out = @ \o bytes]

pb_write_sizing(o, count) == IF o.ok THEN [o EXCEPT !.written = @ + count] ELSE o

\* The groups of seven bits; the high word starts in the middle of the fifth byte.
VarintGroups(low, high) ==
    LET whole == IF high # {} THEN 4 ELSE IF low = {} THEN 0 ELSE Max(low) \div 7
        shared == Slice(low, 7 * whole, 7 * whole + 6)
                      \cup {b + 4 : b \in high \cap (0 .. 2)}
        rest == Slice(high, 3, 31)
        late == IF rest = {} THEN 0 ELSE Max(rest) \div 7 + 1
    IN  [j \in 1 .. whole |-> Slice(low, 7 * j - 7, 7 * j - 1)]
            \o <<shared>>
            \o [j \in 1 .. late |-> Slice(rest, 7 * j - 7, 7 * j - 1)]

Continued(groups) ==
    [j \in DOMAIN groups |-> IF j < Len(groups) THEN groups[j] \cup {More} ELSE groups[j]]

\* (mutation) The high word is not cleared of what the fifth byte took.
pb_encode_varint_32HighTwice(o, low, high) ==
    pb_write(o, Continued(VarintGroups(low, {}) \o VarintGroups(high, {})))

pb_encode_varint_32(o, low, high) == pb_write(o, Continued(VarintGroups(low, high)))

pb_encode_varint(o, word) ==
    IF word \subseteq 0 .. 6
    THEN pb_write(o, <<word>>)
    ELSE pb_encode_varint_32(o, Slice(word, 0, 31), Slice(word, 32, 63))

\* "word" is a signed 64 bit value in two's complement, bit 63 is its sign.
Zigzag(word) ==
    LET doubled == {b + 1 : b \in word \ {63}}
    IN  IF 63 \in word THEN (0 .. 63) \ doubled ELSE doubled
pb_encode_svarint(o, word) == pb_encode_varint(o, Zigzag(word))

pb_encode_fixed(o, word, size) ==
    pb_write(o, [j \in 1 .. size |-> Slice(word, 8 * j - 8, 8 * j - 1)])

pb_encode_tag(o, wt, tag) == pb_encode_varint(o, {b + 3 : b \in Bits(tag)} \cup Bits(wt))

pb_encode_string(o, bytes) == pb_write(pb_encode_varint(o, Bits(Len(bytes))), bytes)
=============================================================================
