--------------------------- MODULE PbFieldsProofs ---------------------------
(***************************************************************************)
(* Proofs about the wire format and the packed field descriptors, for every*)
(* word, every stream and every field.                                     *)
(***************************************************************************)
EXTENDS PbFields, SequenceTheorems, WellFoundedInduction, TLAPS

\* Induction over the naturals: the least counterexample.
LEMMA LeastIn ==
    ASSUME NEW T, T \subseteq Nat, T # {}
    PROVE  \E x \in T : \A y \in T : x <= y
  <1> DEFINE R == {p \in Nat \X Nat : p[1] < p[2]}
  <1>1. IsWellFoundedOn(R, Nat)
    BY NatLessThanWellFounded, Zenon DEF OpToRel
  <1>2. PICK x \in T : \A y \in T : <<y, x>> \notin R
    BY <1>1, WFMin, Zenon
  <1>3. ASSUME NEW y \in T PROVE x <= y
    <2>1. <<y, x>> \in Nat \X Nat
      OBVIOUS
    <2>2. ~(y < x)
      BY <1>2, <2>1
    <2> QED
      BY <2>2
  <1> QED
    BY <1>3

LEMMA GreatestIn ==
    ASSUME NEW n \in Nat, NEW T, T \subseteq 0 .. n, T # {}
    PROVE  \E x \in T : \A y \in T : x >= y
  <1> DEFINE U == {n - x : x \in T}
  <1>1. U \subseteq Nat /\ U # {}
    <2>1. PICK x \in T : TRUE
      OBVIOUS
    <2>2. n - x \in U
      BY <2>1
    <2>3. \A y \in T : n - y \in Nat
      OBVIOUS
    <2> QED
      BY <2>2, <2>3
  <1>2. PICK u \in U : \A y \in U : u <= y
    BY <1>1, LeastIn, Zenon
  <1>3. PICK x \in T : u = n - x
    OBVIOUS
  <1>4. \A y \in T : n - x <= n - y
    BY <1>2, <1>3
  <1> QED
    BY <1>4

-----------------------------------------------------------------------------
(* Numbers as sets of bits *)

Pow(i) == 2^i

LEMMA PowValues ==
    /\ Pow(0) = 1 /\ Pow(1) = 2 /\ Pow(2) = 4 /\ Pow(3) = 8 /\ Pow(4) = 16 /\ Pow(5) = 32
    /\ Pow(6) = 64 /\ Pow(7) = 128 /\ Pow(8) = 256 /\ Pow(9) = 512 /\ Pow(10) = 1024
    /\ Pow(11) = 2048 /\ Pow(12) = 4096 /\ Pow(13) = 8192 /\ Pow(14) = 16384
    /\ Pow(15) = 32768 /\ Pow(16) = 65536 /\ Pow(17) = 131072 /\ Pow(18) = 262144
    /\ Pow(19) = 524288 /\ Pow(20) = 1048576 /\ Pow(21) = 2097152 /\ Pow(22) = 4194304
    /\ Pow(23) = 8388608 /\ Pow(24) = 16777216 /\ Pow(25) = 33554432 /\ Pow(26) = 67108864
    /\ Pow(27) = 134217728 /\ Pow(28) = 268435456 /\ Pow(29) = 536870912
    /\ Pow(30) = 1073741824
  BY DEF Pow

LEMMA PowDoubles == \A i \in 0 .. 29 : Pow(i) \in Nat \ {0} /\ Pow(i + 1) = 2 * Pow(i)
  <1> SUFFICES ASSUME NEW i \in 0 .. 29
               PROVE  Pow(i) \in Nat \ {0} /\ Pow(i + 1) = 2 * Pow(i)
    OBVIOUS
  <1>1. \/ i = 0 \/ i = 1 \/ i = 2 \/ i = 3 \/ i = 4 \/ i = 5 \/ i = 6 \/ i = 7 \/ i = 8
        \/ i = 9 \/ i = 10 \/ i = 11 \/ i = 12 \/ i = 13 \/ i = 14 \/ i = 15 \/ i = 16
        \/ i = 17 \/ i = 18 \/ i = 19 \/ i = 20 \/ i = 21 \/ i = 22 \/ i = 23 \/ i = 24
        \/ i = 25 \/ i = 26 \/ i = 27 \/ i = 28 \/ i = 29
    OBVIOUS
  <1> QED
    BY <1>1, PowValues

\* Division twice is division by the product.
LEMMA HalfAgain ==
    ASSUME NEW n \in Nat, NEW p \in Nat \ {0}
    PROVE  n \div (2 * p) = (n \div p) \div 2
  <1> DEFINE q == n \div p
             h == q \div 2
             r == n - (2 * p) * h
  <1>1. q \in Nat /\ p * q <= n /\ n < p * q + p
    OBVIOUS
  <1>2. h \in Nat /\ (q = 2 * h \/ q = 2 * h + 1)
    BY <1>1
  <1>3. r \in Int /\ 0 <= r /\ r < 2 * p
    BY <1>1, <1>2
  <1>4. n = (2 * p) * h + r
    BY <1>2, <1>3
  <1> QED
    BY <1>2, <1>3, <1>4

LEMMA PowGrows ==
    ASSUME NEW k \in 0 .. 30, NEW i \in k .. 30
    PROVE  Pow(k) \in Nat \ {0} /\ Pow(i) \in Nat \ {0} /\ Pow(k) <= Pow(i)
  <1> DEFINE Bad == {j \in Nat : k + j <= 30 /\ ~(Pow(k) <= Pow(k + j))}
  <1>1. \A j \in 0 .. 30 : Pow(j) \in Nat \ {0}
    BY PowDoubles, PowValues
  <1>2. Bad = {}
    <2>1. SUFFICES ASSUME Bad # {} PROVE FALSE
      OBVIOUS
    <2>2. PICK j \in Bad : \A m \in Bad : j <= m
      <3>1. Bad \subseteq Nat
        OBVIOUS
      <3> QED
        BY <2>1, <3>1, LeastIn, Zenon
    <2>3. j # 0
      BY <1>1, <2>2
    <2>4. j - 1 \in Nat /\ k + (j - 1) \in 0 .. 29 /\ j - 1 \notin Bad
      <3>1. j - 1 \in Nat /\ k + (j - 1) \in 0 .. 29 /\ ~(j <= j - 1)
        BY <2>2, <2>3
      <3> QED
        BY <2>2, <3>1, Zenon
    <2>5. Pow(k) <= Pow(k + (j - 1))
      BY <2>4
    <2>6. Pow((k + (j - 1)) + 1) = 2 * Pow(k + (j - 1)) /\ (k + (j - 1)) + 1 = k + j
      BY <2>2, <2>4, PowDoubles
    <2>7. Pow(k + (j - 1)) \in Nat \ {0} /\ Pow(k) \in Nat \ {0}
      BY <1>1, <2>4
    <2> QED
      BY <2>2, <2>5, <2>6, <2>7
  <1>3. i - k \in Nat /\ k + (i - k) = i /\ i <= 30
    OBVIOUS
  <1>4. Pow(k) <= Pow(k + (i - k))
    BY <1>2, <1>3
  <1> HIDE DEF Bad
  <1> QED
    BY <1>1, <1>3, <1>4

LEMMA BitsIs == \A n : Bits(n) = {i \in 0 .. 29 : (n \div Pow(i)) % 2 = 1}
  BY DEF Bits, Pow

\* A number below 2^k has no bit from the k-th on.
LEMMA BitsBelow ==
    ASSUME NEW k \in 0 .. 30, NEW n \in Nat, n < Pow(k)
    PROVE  Bits(n) \subseteq 0 .. k - 1
  <1> SUFFICES ASSUME NEW i \in Bits(n), i >= k PROVE FALSE
    BY BitsIs
  <1>1. i \in 0 .. 29 /\ (n \div Pow(i)) % 2 = 1
    BY BitsIs
  <1>2. Pow(i) \in Nat \ {0} /\ n < Pow(i)
    BY <1>1, PowGrows
  <1>3. n \div Pow(i) = 0
    BY <1>2
  <1> QED
    BY <1>1, <1>3

\* The function of Num, as an equation.
Down(d, w) ==
    d = [i \in 0 .. 30 |-> IF i = 30 THEN 0 ELSE 2 * d[i + 1] + (IF i \in w THEN 1 ELSE 0)]

LEMMA DownUnique ==
    ASSUME NEW w, NEW d, NEW e, Down(d, w), Down(e, w)
    PROVE  d[0] = e[0]
  <1> DEFINE Bad == {j \in Nat : j <= 30 /\ d[30 - j] # e[30 - j]}
  <1>1. Bad = {}
    <2>1. SUFFICES ASSUME Bad # {} PROVE FALSE
      OBVIOUS
    <2>2. PICK j \in Bad : \A m \in Bad : j <= m
      <3>1. Bad \subseteq Nat
        OBVIOUS
      <3> QED
        BY <2>1, <3>1, LeastIn, Zenon
    <2>3. j # 0
      <3>1. d[30] = 0 /\ e[30] = 0
        BY DEF Down
      <3> QED
        BY <2>2, <3>1
    <2>4. j - 1 \in Nat /\ j - 1 \notin Bad /\ 30 - j \in 0 .. 29
      BY <2>2, <2>3
    <2>5. d[(30 - j) + 1] = e[(30 - j) + 1]
      BY <2>4
    <2> DEFINE i == 30 - j
    <2>6. i \in 0 .. 29 /\ d[i + 1] = e[i + 1] /\ d[i] # e[i]
      BY <2>2, <2>4, <2>5
    <2> HIDE DEF i
    <2>7. /\ d[i] = 2 * d[i + 1] + (IF i \in w THEN 1 ELSE 0)
          /\ e[i] = 2 * e[i + 1] + (IF i \in w THEN 1 ELSE 0)
      BY <2>6 DEF Down
    <2> QED
      BY <2>6, <2>7
  <1>2. 30 \in Nat /\ 30 - 30 = 0
    OBVIOUS
  <1> QED
    BY <1>1, <1>2

\* Reading the bits of a number gives the number.
LEMMA NumOfBits ==
    ASSUME NEW n \in Nat, n < Pow(30)
    PROVE  Num(Bits(n)) = n /\ Bits(n) \subseteq 0 .. 29
  <1> DEFINE Body(f) == [i \in 0 .. 30 |->
                            IF i = 30 THEN 0
                            ELSE 2 * f[i + 1] + (IF i \in Bits(n) THEN 1 ELSE 0)]
             down == CHOOSE f : f = Body(f)
             g == [i \in 0 .. 30 |-> n \div Pow(i)]
  <1>1. Bits(n) \subseteq 0 .. 29
    BY BitsIs
  <1>2. Num(Bits(n)) = down[0]
    BY <1>1 DEF Num
  <1>3. Down(g, Bits(n))
    <2>1. g[30] = 0
      BY PowValues
    <2>2. ASSUME NEW i \in 0 .. 29
          PROVE  g[i] = 2 * g[i + 1] + (IF i \in Bits(n) THEN 1 ELSE 0)
      <3>1. Pow(i) \in Nat \ {0} /\ Pow(i + 1) = 2 * Pow(i)
        BY PowDoubles
      <3>2. g[i + 1] = (n \div Pow(i)) \div 2 /\ g[i] = n \div Pow(i)
        BY <3>1, HalfAgain
      <3>3. i \in Bits(n) <=> g[i] % 2 = 1
        BY <3>2, BitsIs
      <3>4. g[i] \in Nat
        BY <3>1, <3>2
      <3> HIDE DEF g
      <3> QED
        BY <3>2, <3>3, <3>4
    <2> QED
      BY <2>1, <2>2 DEF Down
  <1>4. down = Body(down)
    BY <1>3 DEF Down
  <1>5. Down(down, Bits(n))
    BY <1>4 DEF Down
  <1>6. g[0] = n
    BY PowValues
  <1> HIDE DEF down, g
  <1> QED
    BY <1>1, <1>2, <1>3, <1>5, <1>6, DownUnique

-----------------------------------------------------------------------------
(* What a varint is: the groups of seven bits of the word, the lowest first, *)
(* all but the last marked, and no more of them than the word needs.         *)

Word64 == SUBSET (0 .. 63)
Word32 == SUBSET (0 .. 31)
Septets == SUBSET (0 .. 6)
Septet(w, j) == Slice(w, 7 * j - 7, 7 * j - 1)

AreGroups(groups, w) ==
    /\ groups \in Seq(Septets) /\ Len(groups) \in 1 .. 10
    /\ \A j \in 1 .. Len(groups) : groups[j] = Septet(w, j)
    /\ w \subseteq 0 .. 7 * Len(groups) - 1
    /\ Len(groups) = 1 \/ \E b \in w : b >= 7 * Len(groups) - 7

IsVarint(bytes, w) ==
    /\ bytes \in Seq(Byte) /\ Len(bytes) \in 1 .. 10
    /\ \A j \in 1 .. Len(bytes) :
          bytes[j] = IF j < Len(bytes) THEN Septet(w, j) \cup {More} ELSE Septet(w, j)
    /\ w \subseteq 0 .. 7 * Len(bytes) - 1
    /\ Len(bytes) = 1 \/ \E b \in w : b >= 7 * Len(bytes) - 7

LEMMA InSlice ==
    ASSUME NEW w, w \subseteq Int, NEW lo \in Int, NEW hi \in Int
    PROVE  /\ Slice(w, lo, hi) \subseteq 0 .. hi - lo
           /\ \A x \in Int : x \in Slice(w, lo, hi) <=> x \in 0 .. hi - lo /\ x + lo \in w
  BY DEF Slice

LEMMA ThreeParts ==
    ASSUME NEW S, NEW a \in Nat, NEW c \in Nat,
           NEW f \in [1 .. a -> S], NEW x \in S, NEW h \in [1 .. c -> S]
    PROVE  /\ f \o <<x>> \o h \in Seq(S)
           /\ Len(f \o <<x>> \o h) = a + 1 + c
           /\ \A j \in 1 .. a : (f \o <<x>> \o h)[j] = f[j]
           /\ (f \o <<x>> \o h)[a + 1] = x
           /\ \A j \in 1 .. c : (f \o <<x>> \o h)[a + 1 + j] = h[j]
  <1>1. f \in Seq(S) /\ Len(f) = a /\ h \in Seq(S) /\ Len(h) = c
    OBVIOUS
  <1>2. <<x>> \in Seq(S) /\ Len(<<x>>) = 1 /\ <<x>>[1] = x
    OBVIOUS
  <1> DEFINE g == f \o <<x>>
  <1>3. /\ g \in Seq(S) /\ Len(g) = a + 1
        /\ \A j \in 1 .. a + 1 : g[j] = IF j <= a THEN f[j] ELSE <<x>>[j - a]
    BY <1>1, <1>2, ConcatProperties
  <1> HIDE DEF g
  <1>4. /\ g \o h \in Seq(S) /\ Len(g \o h) = a + 1 + c
        /\ \A j \in 1 .. a + 1 + c : (g \o h)[j] = IF j <= a + 1 THEN g[j] ELSE h[j - (a + 1)]
    <2>1. /\ g \o h \in Seq(S) /\ Len(g \o h) = Len(g) + Len(h)
          /\ \A j \in 1 .. Len(g) + Len(h) :
                (g \o h)[j] = IF j <= Len(g) THEN g[j] ELSE h[j - Len(g)]
      BY <1>1, <1>3, ConcatProperties, Zenon
    <2> QED
      BY <2>1, <1>1, <1>3
  <1>5. (g \o h)[a + 1] = x
    BY <1>2, <1>3, <1>4
  <1>6. \A j \in 1 .. a : (g \o h)[j] = f[j]
    BY <1>3, <1>4
  <1>7. \A j \in 1 .. c : (g \o h)[a + 1 + j] = h[j]
    <2> TAKE j \in 1 .. c
    <2>1. a + 1 + j \in 1 .. a + 1 + c /\ ~(a + 1 + j <= a + 1) /\ (a + 1 + j) - (a + 1) = j
      OBVIOUS
    <2> QED
      BY <2>1, <1>4
  <1> QED
    BY <1>4, <1>5, <1>6, <1>7 DEF g

LEMMA GreatestIs ==
    ASSUME NEW n \in Nat, NEW T, T \subseteq 0 .. n, T # {}
    PROVE  Max(T) \in T /\ \A y \in T : Max(T) >= y
  BY GreatestIn, Zenon DEF Max

LEMMA LeastIs ==
    ASSUME NEW T, T \subseteq Nat, NEW x \in T, \A y \in T : x <= y
    PROVE  Min(T) = x
  <1>1. Min(T) \in T /\ \A y \in T : Min(T) <= y
    BY Zenon DEF Min
  <1> DEFINE m == Min(T)
  <1>2. m \in Nat /\ x \in Nat /\ m <= x /\ x <= m
    BY <1>1
  <1> HIDE DEF m
  <1>3. m = x
    BY <1>2
  <1> QED
    BY <1>3 DEF m

\* Shifting and masking commute: the septets of a word above its lowest bits.
LEMMA SeptetOf ==
    ASSUME NEW w \in Word64, NEW j \in 1 .. 10
    PROVE  /\ Septet(w, j) \in Septets
           /\ \A b \in 0 .. 6 : b \in Septet(w, j) <=> 7 * (j - 1) + b \in w
  <1> DEFINE lo == 7 * j - 7
             hi == 7 * j - 1
  <1>1. w \subseteq Int /\ lo \in Int /\ hi \in Int /\ hi - lo = 6
    BY DEF Word64
  <1>2. \A b \in Int : b + lo = 7 * (j - 1) + b
    OBVIOUS
  <1>3. /\ Slice(w, lo, hi) \subseteq 0 .. hi - lo
        /\ \A x \in Int : x \in Slice(w, lo, hi) <=> x \in 0 .. hi - lo /\ x + lo \in w
    BY <1>1, InSlice, Zenon
  <1>4. Septet(w, j) = Slice(w, lo, hi)
    BY DEF Septet
  <1> HIDE DEF lo, hi
  <1> QED
    BY <1>1, <1>2, <1>3, <1>4 DEF Septets

\* What the seven bits from the lo-th of one word on are, they are a septet of w,
\* when that word is w shifted down by d.
LEMMA SliceIsSeptet ==
    ASSUME NEW w \in Word64, NEW j \in 1 .. 10, NEW v, v \subseteq Int,
           NEW lo \in Nat, \A b \in 0 .. 6 : lo + b \in v <=> 7 * (j - 1) + b \in w
    PROVE  Slice(v, lo, lo + 6) = Septet(w, j)
  <1>1. /\ Slice(v, lo, lo + 6) \subseteq 0 .. (lo + 6) - lo
        /\ \A x \in Int : x \in Slice(v, lo, lo + 6) <=> x \in 0 .. (lo + 6) - lo /\ x + lo \in v
    <2>1. lo \in Int /\ lo + 6 \in Int
      OBVIOUS
    <2> QED
      BY <2>1, InSlice, Zenon
  <1>2. (lo + 6) - lo = 6 /\ \A b \in 0 .. 6 : b + lo = lo + b
    OBVIOUS
  <1>3. Slice(v, lo, lo + 6) \subseteq 0 .. 6
    BY <1>1, <1>2
  <1>4. \A b \in 0 .. 6 : b \in Slice(v, lo, lo + 6) <=> b \in Septet(w, j)
    BY <1>1, <1>2, SeptetOf
  <1>5. Septet(w, j) \subseteq 0 .. 6
    BY SeptetOf DEF Septets
  <1> QED
    BY <1>3, <1>4, <1>5

\* A word of up to 32 bits: whole septets, then the one with its highest bit.
LEMMA GroupsOfLow ==
    ASSUME NEW w \in Word32, ~(w \subseteq 0 .. 6)
    PROVE  AreGroups(VarintGroups(w, {}), w)
  <1> DEFINE top == Max(w)
             whole == top \div 7
             f == [j \in 1 .. whole |-> Slice(w, 7 * j - 7, 7 * j - 1)]
             h == [j \in 1 .. 0 |-> Slice({}, 7 * j - 7, 7 * j - 1)]
             x == Slice(w, 7 * whole, 7 * whole + 6)
  <1>1. w # {} /\ w \subseteq 0 .. 31 /\ w \in Word64 /\ w \subseteq Int
    BY DEF Word32, Word64
  <1>2. top \in w /\ \A b \in w : top >= b
    BY <1>1, GreatestIs
  <1>3. whole \in 0 .. 4 /\ 7 * whole <= top /\ top <= 7 * whole + 6 /\ top \in 0 .. 31
    <2>1. top \in 0 .. 31
      BY <1>1, <1>2
    <2> HIDE DEF top
    <2> QED
      BY <2>1
  <1> HIDE DEF top, whole
  <1>4. VarintGroups(w, {}) = f \o <<x>> \o h
    <2>1. Slice({}, 3, 31) = {} /\ {b + 4 : b \in {} \cap (0 .. 2)} = {}
      BY DEF Slice
    <2> QED
      BY <2>1, <1>1, Zenon DEF VarintGroups, whole, top
  <1>5. x = Septet(w, whole + 1)
    <2>1. whole + 1 \in 1 .. 10 /\ 7 * whole \in Nat
      BY <1>3
    <2>2. \A b \in 0 .. 6 : 7 * whole + b \in w <=> 7 * ((whole + 1) - 1) + b \in w
      BY <1>3
    <2> QED
      BY <1>1, <2>1, <2>2, SliceIsSeptet
  <1>6. \A j \in 1 .. whole : f[j] = Septet(w, j)
    BY DEF Septet
  <1>7. f \in [1 .. whole -> Septets] /\ x \in Septets /\ h \in [1 .. 0 -> Septets]
    <2>1. \A j \in 1 .. whole : Septet(w, j) \in Septets
      BY <1>1, <1>3, SeptetOf
    <2>2. x \in Septets
      BY <1>1, <1>3, <1>5, SeptetOf
    <2>3. f \in [1 .. whole -> Septets]
      BY <1>6, <2>1
    <2> QED
      BY <2>2, <2>3
  <1> DEFINE g == f \o <<x>> \o h
  <1>8. /\ g \in Seq(Septets) /\ Len(g) = whole + 1 + 0
        /\ \A j \in 1 .. whole : g[j] = f[j]
        /\ g[whole + 1] = x
    <2>1. whole \in Nat /\ 0 \in Nat
      BY <1>3
    <2> HIDE DEF f, x, h
    <2> QED
      BY <1>7, <2>1, ThreeParts
  <1> HIDE DEF f, x, h, g
  <1>9. \A j \in 1 .. whole + 1 : g[j] = Septet(w, j)
    BY <1>3, <1>5, <1>6, <1>8
  <1>10. Len(g) = whole + 1
    BY <1>3, <1>8
  <1>11. w \subseteq 0 .. 7 * (whole + 1) - 1
    BY <1>1, <1>2, <1>3
  <1>12. top >= 7 * (whole + 1) - 7 /\ whole + 1 \in 1 .. 10
    BY <1>3
  <1> QED
    BY <1>2, <1>4, <1>8, <1>9, <1>10, <1>11, <1>12 DEF AreGroups, g

\* The two halves of a word, and what of the high one is not in the fifth group.
LEMMA HalvesOf ==
    ASSUME NEW w \in Word64
    PROVE  LET low == Slice(w, 0, 31)
               high == Slice(w, 32, 63)
               rest == Slice(high, 3, 31)
           IN  /\ low \in Word32 /\ \A b \in 0 .. 31 : b \in low <=> b \in w
               /\ high \in Word32 /\ \A b \in 0 .. 31 : b \in high <=> b + 32 \in w
               /\ rest \subseteq 0 .. 28 /\ \A b \in 0 .. 28 : b \in rest <=> b + 35 \in w
  <1> DEFINE low == Slice(w, 0, 31)
             high == Slice(w, 32, 63)
             rest == Slice(high, 3, 31)
  <1>1. w \subseteq Int
    BY DEF Word64
  <1>2. low \subseteq 0 .. 31 /\ \A b \in 0 .. 31 : b \in low <=> b \in w
    <2>1. /\ low \subseteq 0 .. 31 - 0
          /\ \A x \in Int : x \in low <=> x \in 0 .. 31 - 0 /\ x + 0 \in w
      <3>1. 0 \in Int /\ 31 \in Int
        OBVIOUS
      <3> QED
        BY <1>1, <3>1, InSlice, Zenon
    <2> QED
      BY <2>1
  <1>3. high \subseteq 0 .. 31 /\ \A b \in 0 .. 31 : b \in high <=> b + 32 \in w
    <2>1. /\ high \subseteq 0 .. 63 - 32
          /\ \A x \in Int : x \in high <=> x \in 0 .. 63 - 32 /\ x + 32 \in w
      <3>1. 32 \in Int /\ 63 \in Int
        OBVIOUS
      <3> QED
        BY <1>1, <3>1, InSlice, Zenon
    <2> QED
      BY <2>1
  <1> HIDE DEF low, high
  <1>4. rest \subseteq 0 .. 28 /\ \A b \in 0 .. 28 : b \in rest <=> b + 35 \in w
    <2>1. /\ rest \subseteq 0 .. 31 - 3
          /\ \A x \in Int : x \in rest <=> x \in 0 .. 31 - 3 /\ x + 3 \in high
      <3>1. 3 \in Int /\ 31 \in Int /\ high \subseteq Int
        BY <1>3
      <3> QED
        BY <3>1, InSlice, Zenon
    <2>2. \A b \in 0 .. 28 : b + 3 \in 0 .. 31 /\ (b + 3) + 32 = b + 35 /\ 31 - 3 = 28
      OBVIOUS
    <2> HIDE DEF rest
    <2> QED
      BY <1>3, <2>1, <2>2
  <1> QED
    BY <1>2, <1>3, <1>4 DEF Word32, low, high, rest

\* A word of more: four septets of the low half, one of both, then the high half's.
LEMMA GroupsOfHigh ==
    ASSUME NEW w \in Word64, Slice(w, 32, 63) # {}
    PROVE  AreGroups(VarintGroups(Slice(w, 0, 31), Slice(w, 32, 63)), w)
  <1> DEFINE low == Slice(w, 0, 31)
             high == Slice(w, 32, 63)
             rest == Slice(high, 3, 31)
             late == IF rest = {} THEN 0 ELSE Max(rest) \div 7 + 1
             x == Slice(low, 28, 34) \cup {b + 4 : b \in high \cap (0 .. 2)}
             f == [j \in 1 .. 4 |-> Slice(low, 7 * j - 7, 7 * j - 1)]
             h == [j \in 1 .. late |-> Slice(rest, 7 * j - 7, 7 * j - 1)]
             g == f \o <<x>> \o h
             n == 5 + late
  <1>1. /\ low \in Word32 /\ \A b \in 0 .. 31 : b \in low <=> b \in w
        /\ high \in Word32 /\ \A b \in 0 .. 31 : b \in high <=> b + 32 \in w
        /\ rest \subseteq 0 .. 28 /\ \A b \in 0 .. 28 : b \in rest <=> b + 35 \in w
    BY HalvesOf
  <1>2. VarintGroups(low, high) = g
    <2>1. Slice(low, 7 * 4, 7 * 4 + 6) = Slice(low, 28, 34)
      OBVIOUS
    <2> QED
      BY <2>1, Zenon DEF VarintGroups
  <1>3. /\ late \in 0 .. 5
        /\ rest # {} => /\ Max(rest) \in rest /\ \A b \in rest : Max(rest) >= b
                        /\ 7 * late - 7 <= Max(rest) /\ Max(rest) <= 7 * late - 1
        /\ rest = {} => late = 0
    <2>1. CASE rest = {}
      BY <2>1
    <2>2. CASE rest # {}
      <3> DEFINE top == Max(rest)
      <3>1. top \in rest /\ \A b \in rest : top >= b
        BY <1>1, <2>2, GreatestIs
      <3>2. top \in 0 .. 28
        BY <1>1, <3>1
      <3> HIDE DEF top
      <3>3. late = top \div 7 + 1
        BY <2>2 DEF top
      <3> HIDE DEF late, rest
      <3>4. late \in 0 .. 5 /\ 7 * late - 7 <= top /\ top <= 7 * late - 1
        BY <3>2, <3>3
      <3> QED
        BY <2>2, <3>1, <3>4 DEF top
    <2> QED
      BY <2>1, <2>2
  <1> HIDE DEF low, high, rest, late
  <1>4. \A j \in 1 .. 4 : f[j] = Septet(w, j)
    <2> TAKE j \in 1 .. 4
    <2> DEFINE lo == 7 * j - 7
    <2>1. j \in 1 .. 10 /\ lo \in Nat /\ lo + 6 = 7 * j - 1 /\ low \subseteq Int
      BY <1>1 DEF Word32
    <2>2. \A b \in 0 .. 6 : lo + b \in 0 .. 31 /\ lo + b = 7 * (j - 1) + b
      OBVIOUS
    <2>3. \A b \in 0 .. 6 : lo + b \in low <=> 7 * (j - 1) + b \in w
      BY <1>1, <2>2
    <2> HIDE DEF lo
    <2>4. Slice(low, lo, lo + 6) = Septet(w, j)
      BY <2>1, <2>3, SliceIsSeptet
    <2>5. f[j] = Slice(low, lo, 7 * j - 1)
      BY DEF lo
    <2> QED
      BY <2>1, <2>4, <2>5
  <1>5. x = Septet(w, 5)
    <2>1. 5 \in 1 .. 10 /\ Septet(w, 5) \subseteq 0 .. 6
      BY SeptetOf DEF Septets
    <2>2. \A b \in 0 .. 6 : b \in Septet(w, 5) <=> 28 + b \in w
      BY <2>1, SeptetOf
    <2>3. /\ Slice(low, 28, 34) \subseteq 0 .. 34 - 28
          /\ \A b \in Int : b \in Slice(low, 28, 34) <=> b \in 0 .. 34 - 28 /\ b + 28 \in low
      <3>1. low \subseteq Int /\ 28 \in Int /\ 34 \in Int
        BY <1>1 DEF Word32
      <3> QED
        BY <3>1, InSlice, Zenon
    <2>4. \A b \in 0 .. 3 : b \in Slice(low, 28, 34) <=> 28 + b \in w
      BY <1>1, <2>3
    <2>5. \A b \in 4 .. 6 : b \notin Slice(low, 28, 34)
      BY <1>1, <2>3 DEF Word32
    <2>6. {b + 4 : b \in high \cap (0 .. 2)} \subseteq 4 .. 6
      OBVIOUS
    <2>7. ASSUME NEW b \in 4 .. 6
          PROVE  b \in {c + 4 : c \in high \cap (0 .. 2)} <=> 28 + b \in w
      <3>1. b - 4 \in 0 .. 2 /\ b - 4 \in 0 .. 31 /\ (b - 4) + 32 = 28 + b /\ (b - 4) + 4 = b
        OBVIOUS
      <3>2. b - 4 \in high <=> 28 + b \in w
        BY <1>1, <3>1
      <3>3. b \in {c + 4 : c \in high \cap (0 .. 2)} <=> b - 4 \in high
        BY <3>1
      <3> QED
        BY <3>2, <3>3
    <2>8. x \subseteq 0 .. 6
      BY <2>3, <2>6
    <2>9. \A b \in 0 .. 6 : b \in x <=> 28 + b \in w
      <3> TAKE b \in 0 .. 6
      <3>1. CASE b \in 0 .. 3
        BY <3>1, <2>4, <2>6
      <3>2. CASE b \in 4 .. 6
        BY <3>2, <2>5, <2>7
      <3> QED
        BY <3>1, <3>2
    <2> HIDE DEF x
    <2> QED
      BY <2>1, <2>2, <2>8, <2>9
  <1>6. \A j \in 1 .. late : h[j] = Septet(w, 5 + j)
    <2> TAKE j \in 1 .. late
    <2> DEFINE lo == 7 * j - 7
    <2>1. 5 + j \in 1 .. 10 /\ lo \in Nat /\ lo + 6 = 7 * j - 1 /\ rest \subseteq Int
      BY <1>1, <1>3
    <2>2. \A b \in 0 .. 6 : lo + b \in rest <=> 7 * ((5 + j) - 1) + b \in w
      <3> TAKE b \in 0 .. 6
      <3>1. lo + b \in Nat /\ (lo + b) + 35 = 7 * ((5 + j) - 1) + b
        BY <1>3
      <3>2. CASE lo + b \in 0 .. 28
        BY <1>1, <3>1, <3>2
      <3>3. CASE lo + b > 28
        BY <1>1, <3>1, <3>3 DEF Word64
      <3> QED
        BY <3>1, <3>2, <3>3
    <2> HIDE DEF lo
    <2>3. Slice(rest, lo, lo + 6) = Septet(w, 5 + j)
      BY <2>1, <2>2, SliceIsSeptet
    <2>4. h[j] = Slice(rest, lo, 7 * j - 1)
      BY DEF lo
    <2> QED
      BY <2>1, <2>3, <2>4
  <1> HIDE DEF x
  <1>7. f \in [1 .. 4 -> Septets] /\ x \in Septets /\ h \in [1 .. late -> Septets]
    <2>1. \A j \in 1 .. 10 : Septet(w, j) \in Septets
      BY SeptetOf
    <2>2. \A j \in 1 .. late : 5 + j \in 1 .. 10
      BY <1>3
    <2>3. f \in [1 .. 4 -> Septets]
      BY <1>4, <2>1
    <2>4. h \in [1 .. late -> Septets]
      BY <1>6, <2>1, <2>2
    <2> QED
      BY <2>1, <2>3, <2>4, <1>5
  <1> HIDE DEF f, h
  <1>8. /\ g \in Seq(Septets) /\ Len(g) = 4 + 1 + late
        /\ \A j \in 1 .. 4 : g[j] = f[j]
        /\ g[4 + 1] = x
        /\ \A j \in 1 .. late : g[4 + 1 + j] = h[j]
    <2> DEFINE a == 4
    <2>1. a \in Nat /\ late \in Nat /\ f \in [1 .. a -> Septets]
      BY <1>3, <1>7
    <2> HIDE DEF a
    <2>2. /\ g \in Seq(Septets) /\ Len(g) = a + 1 + late
          /\ \A j \in 1 .. a : g[j] = f[j]
          /\ g[a + 1] = x
          /\ \A j \in 1 .. late : g[a + 1 + j] = h[j]
      BY <1>7, <2>1, ThreeParts
    <2> QED
      BY <2>2, Zenon DEF a
  <1> HIDE DEF g
  <1>9. n \in 1 .. 10 /\ Len(g) = n
    BY <1>3, <1>8
  <1>10. \A j \in 1 .. n : g[j] = Septet(w, j)
    <2> TAKE j \in 1 .. n
    <2>1. CASE j \in 1 .. 4
      BY <1>4, <1>8, <2>1
    <2>2. CASE j = 5
      BY <1>5, <1>8, <2>2
    <2>3. CASE j > 5
      <3>1. j - 5 \in 1 .. late /\ 4 + 1 + (j - 5) = j /\ 5 + (j - 5) = j
        BY <1>3, <2>3
      <3> QED
        BY <1>6, <1>8, <3>1
    <2> QED
      BY <1>3, <2>1, <2>2, <2>3
  <1>11. w \subseteq 0 .. 7 * n - 1 /\ \E b \in w : b >= 7 * n - 7
    <2>1. CASE rest = {}
      <3>1. PICK b \in high : TRUE
        BY DEF high
      <3>2. b + 32 \in w
        BY <1>1, <3>1 DEF Word32
      <3>3. \A c \in w : c \in 0 .. 63 /\ (c >= 35 => c - 35 \in 0 .. 28 /\ (c - 35) + 35 = c)
        BY DEF Word64
      <3>4. \A c \in w : c < 35
        BY <1>1, <2>1, <3>3
      <3>5. n = 5 /\ b \in 0 .. 31
        BY <1>1, <1>3, <2>1, <3>1 DEF Word32
      <3> QED
        BY <3>2, <3>3, <3>4, <3>5
    <2>2. CASE rest # {}
      <3> DEFINE top == Max(rest)
      <3>1. /\ top \in rest /\ \A b \in rest : top >= b
            /\ 7 * late - 7 <= top /\ top <= 7 * late - 1
        BY <1>3, <2>2
      <3> HIDE DEF top
      <3>2. top \in 0 .. 28 /\ top + 35 \in w /\ late \in 1 .. 5
        BY <1>1, <1>3, <3>1
      <3>3. top + 35 >= 7 * n - 7
        BY <3>1, <3>2
      <3>4. ASSUME NEW c \in w PROVE c \in 0 .. 7 * n - 1
        <4>1. c \in 0 .. 63
          BY DEF Word64
        <4>2. CASE c < 35
          BY <4>1, <4>2, <3>2
        <4>3. CASE c >= 35
          <5>1. c - 35 \in 0 .. 28 /\ (c - 35) + 35 = c
            BY <4>1, <4>3
          <5>2. top >= c - 35
            BY <1>1, <3>1, <5>1
          <5> QED
            BY <3>1, <3>2, <4>1, <5>2
        <4> QED
          BY <4>1, <4>2, <4>3
      <3> QED
        BY <3>2, <3>3, <3>4
    <2> QED
      BY <2>1, <2>2
  <1> QED
    BY <1>2, <1>8, <1>9, <1>10, <1>11 DEF AreGroups, low, high

LEMMA ContinuedIs ==
    ASSUME NEW w \in Word64, NEW groups, AreGroups(groups, w)
    PROVE  IsVarint(Continued(groups), w)
  <1>1. /\ groups \in Seq(Septets) /\ Len(groups) \in 1 .. 10
        /\ \A j \in 1 .. Len(groups) : groups[j] = Septet(w, j)
        /\ w \subseteq 0 .. 7 * Len(groups) - 1
        /\ Len(groups) = 1 \/ \E b \in w : b >= 7 * Len(groups) - 7
    BY DEF AreGroups
  <1> DEFINE n == Len(groups)
             bytes == Continued(groups)
  <1>2. bytes = [j \in 1 .. n |-> IF j < n THEN groups[j] \cup {More} ELSE groups[j]]
    BY <1>1 DEF Continued
  <1>3. \A j \in 1 .. n : groups[j] \in Septets
    BY <1>1
  <1>4. \A j \in 1 .. n : bytes[j] \in Byte
    BY <1>2, <1>3 DEF Byte, Septets, More
  <1>5. bytes \in Seq(Byte) /\ Len(bytes) = n
    <2>1. n \in Nat
      BY <1>1
    <2> HIDE DEF bytes, n
    <2>2. bytes \in [1 .. n -> Byte]
      <3> DEFINE e(j) == IF j < n THEN groups[j] \cup {More} ELSE groups[j]
      <3>1. bytes = [j \in 1 .. n |-> e(j)]
        BY <1>2
      <3> HIDE DEF e
      <3>2. \A j \in 1 .. n : e(j) \in Byte
        BY <1>4, <3>1
      <3> QED
        BY <3>1, <3>2
    <2> QED
      BY <2>1, <2>2
  <1>6. \A j \in 1 .. n : bytes[j] = IF j < n THEN Septet(w, j) \cup {More} ELSE Septet(w, j)
    BY <1>1, <1>2
  <1> HIDE DEF bytes
  <1> QED
    BY <1>1, <1>5, <1>6 DEF IsVarint, bytes

\* The bytes that pb_encode_varint writes.
VarintBytes(word) ==
    IF word \subseteq 0 .. 6 THEN <<word>>
    ELSE Continued(VarintGroups(Slice(word, 0, 31), Slice(word, 32, 63)))

LEMMA EncodeWrites ==
    ASSUME NEW w \in Word64
    PROVE  /\ IsVarint(VarintBytes(w), w)
           /\ \A o : pb_encode_varint(o, w) = pb_write(o, VarintBytes(w))
  <1>1. \A o : pb_encode_varint(o, w) = pb_write(o, VarintBytes(w))
    BY DEF pb_encode_varint, pb_encode_varint_32, VarintBytes
  <1>2. CASE w \subseteq 0 .. 6
    <2> DEFINE bytes == <<w>>
    <2>1. bytes \in Seq(Byte) /\ Len(bytes) = 1 /\ bytes[1] = w
      BY <1>2 DEF Byte
    <2>2. w = Septet(w, 1)
      <3>1. Septet(w, 1) \subseteq 0 .. 6 /\ \A b \in 0 .. 6 : b \in Septet(w, 1) <=> 7 * (1 - 1) + b \in w
        BY SeptetOf DEF Septets
      <3>2. \A b \in 0 .. 6 : 7 * (1 - 1) + b = b
        OBVIOUS
      <3> QED
        BY <1>2, <3>1, <3>2
    <2>3. w \subseteq 0 .. 7 * 1 - 1
      BY <1>2
    <2> HIDE DEF bytes
    <2>4. IsVarint(bytes, w)
      BY <2>1, <2>2, <2>3 DEF IsVarint
    <2> QED
      BY <1>1, <1>2, <2>4 DEF VarintBytes, bytes
  <1>3. CASE ~(w \subseteq 0 .. 6)
    <2> DEFINE low == Slice(w, 0, 31)
               high == Slice(w, 32, 63)
    <2>1. /\ low \in Word32 /\ \A b \in 0 .. 31 : b \in low <=> b \in w
          /\ high \in Word32 /\ \A b \in 0 .. 31 : b \in high <=> b + 32 \in w
      BY HalvesOf
    <2>2. AreGroups(VarintGroups(low, high), w)
      <3>1. CASE high # {}
        BY <3>1, GroupsOfHigh
      <3>2. CASE high = {}
        <4>1. \A c \in w : c \in 0 .. 63 /\ (c >= 32 => c - 32 \in 0 .. 31 /\ (c - 32) + 32 = c)
          BY DEF Word64
        <4> HIDE DEF low, high
        <4>2. \A c \in w : c \in 0 .. 31
          BY <2>1, <3>2, <4>1
        <4>3. low = w /\ w \in Word32
          BY <2>1, <4>2 DEF Word32
        <4> QED
          BY <1>3, <3>2, <4>3, GroupsOfLow
      <3> QED
        BY <3>1, <3>2
    <2>3. VarintBytes(w) = Continued(VarintGroups(low, high))
      BY <1>3 DEF VarintBytes
    <2> QED
      BY <1>1, <2>2, <2>3, ContinuedIs
  <1> QED
    BY <1>2, <1>3

-----------------------------------------------------------------------------
(* Reading back *)

InStreams == [buf : Seq(Byte), pos : Nat, left : Nat, ok : BOOLEAN]

\* The next bytes of a stream, and what is left of it behind them.
Holds(s, bytes, n) == \A j \in 1 .. n : s.buf[s.pos + j] = bytes[j]
Begins(s, bytes) == s.ok /\ Len(bytes) <= s.left /\ Holds(s, bytes, Len(bytes))
After(s, n) == [s EXCEPT !.pos = @ + n, !.left = @ - n]

LEMMA Reads ==
    ASSUME NEW s \in InStreams, s.ok, NEW n \in Nat, n <= s.left
    PROVE  /\ pb_read(s, n) = After(s, n)
           /\ After(s, n) = [buf |-> s.buf, pos |-> s.pos + n, left |-> s.left - n, ok |-> TRUE]
           /\ After(s, n) \in InStreams
  <1> DEFINE t == [s EXCEPT !.pos = s.pos + n]
             u == [t EXCEPT !.left = s.left - n]
  <1>1. s.buf \in Seq(Byte) /\ s.pos \in Nat /\ s.left \in Nat /\ s.ok = TRUE
    BY DEF InStreams
  <1>2. ~(n > s.left)
    BY <1>1
  <1>3. pb_read(s, n) = After(s, n)
    BY <1>2, Zenon DEF pb_read, After
  <1>4. s.pos + n \in Nat /\ s.left - n \in Nat
    BY <1>1
  <1>5. t \in InStreams /\ t.buf = s.buf /\ t.pos = s.pos + n /\ t.ok = TRUE
    BY <1>1, <1>4 DEF InStreams
  <1> HIDE DEF t
  <1>6. /\ u \in InStreams /\ u.buf = s.buf /\ u.pos = s.pos + n
        /\ u.left = s.left - n /\ u.ok = TRUE
    BY <1>1, <1>4, <1>5 DEF InStreams
  <1>7. After(s, n) = u
    BY DEF After, t
  <1> HIDE DEF u
  <1>8. u = [buf |-> s.buf, pos |-> s.pos + n, left |-> s.left - n, ok |-> TRUE]
    BY <1>6 DEF InStreams
  <1> QED
    BY <1>3, <1>6, <1>7, <1>8

Ends(s, most) == {k \in 1 .. Min({most, s.left}) : More \notin s.buf[s.pos + k]}

LEMMA LeastOfTwo ==
    ASSUME NEW a \in Nat, NEW b \in Nat
    PROVE  Min({a, b}) = IF a <= b THEN a ELSE b
  <1>1. CASE a <= b
    <2>1. {a, b} \subseteq Nat /\ a \in {a, b} /\ \A y \in {a, b} : a <= y
      BY <1>1
    <2> QED
      BY <1>1, <2>1, LeastIs
  <1>2. CASE ~(a <= b)
    <2>1. {a, b} \subseteq Nat /\ b \in {a, b} /\ \A y \in {a, b} : b <= y
      BY <1>2
    <2> QED
      BY <1>2, <2>1, LeastIs
  <1> QED
    BY <1>1, <1>2

\* The last byte of a varint is the first one without a mark.
LEMMA MarkOfVarint ==
    ASSUME NEW w \in Word64, NEW bytes, IsVarint(bytes, w), NEW j \in 1 .. Len(bytes)
    PROVE  (More \in bytes[j] <=> j < Len(bytes)) /\ bytes[j] \ {More} = Septet(w, j)
  <1>1. Len(bytes) \in 1 .. 10 /\ j \in 1 .. 10
    <2> DEFINE n == Len(bytes)
    <2>1. n \in 1 .. 10
      BY DEF IsVarint
    <2> HIDE DEF n
    <2>2. j \in 1 .. n
      BY DEF n
    <2>3. j \in 1 .. 10
      BY <2>1, <2>2
    <2> QED
      BY <2>1, <2>3 DEF n
  <1>2. Septet(w, j) \subseteq 0 .. 6
    BY <1>1, SeptetOf DEF Septets
  <1>3. More \notin Septet(w, j)
    BY <1>2 DEF More
  <1>4. bytes[j] = IF j < Len(bytes) THEN Septet(w, j) \cup {More} ELSE Septet(w, j)
    BY DEF IsVarint
  <1> QED
    BY <1>3, <1>4

LEMMA LengthOfVarint ==
    ASSUME NEW w \in Word64, NEW bytes, IsVarint(bytes, w), NEW s \in InStreams,
           Begins(s, bytes), NEW most \in Nat, Len(bytes) <= most
    PROVE  VarintLength(s, most) = Len(bytes)
  <1> DEFINE n == Len(bytes)
             m == Min({most, s.left})
  <1>1. n \in 1 .. 10 /\ s.left \in Nat /\ n <= s.left /\ n <= most
    BY DEF IsVarint, InStreams, Begins
  <1>2. m \in Nat /\ n <= m
    BY <1>1, LeastOfTwo
  <1> HIDE DEF m
  <1>3. \A j \in 1 .. n : More \in s.buf[s.pos + j] <=> j < n
    BY MarkOfVarint DEF Begins, Holds
  <1> HIDE DEF n
  <1>4. n \in Ends(s, most) /\ Ends(s, most) \subseteq Nat /\ \A k \in Ends(s, most) : n <= k
    <2>1. Ends(s, most) = {k \in 1 .. m : More \notin s.buf[s.pos + k]}
      BY DEF Ends, m
    <2>2. n \in Ends(s, most) /\ Ends(s, most) \subseteq Nat
      BY <1>1, <1>2, <1>3, <2>1
    <2>3. ASSUME NEW k \in Ends(s, most), k < n PROVE FALSE
      <3>1. k \in 1 .. n /\ More \notin s.buf[s.pos + k]
        BY <1>1, <2>1, <2>3
      <3> QED
        BY <1>3, <2>3, <3>1
    <2>4. \A k \in Ends(s, most) : k \in Nat
      BY <2>2
    <2> QED
      BY <1>1, <2>2, <2>3, <2>4
  <1>5. Min(Ends(s, most)) = n
    BY <1>4, LeastIs
  <1>6. s.ok
    BY DEF Begins
  <1> QED
    BY <1>4, <1>5, <1>6 DEF VarintLength, Ends, n

LEMMA PayloadOfVarint ==
    ASSUME NEW w \in Word64, NEW bytes, IsVarint(bytes, w), NEW s, NEW n \in 1 .. Len(bytes),
           Holds(s, bytes, n)
    PROVE  Payload(s, n) = w \cap (0 .. 7 * n - 1)
  <1> DEFINE g == [j \in 1 .. n |-> s.buf[s.pos + j] \ {More}]
  <1>1. n \in 1 .. 10 /\ \A j \in 1 .. n : j \in 1 .. Len(bytes) /\ j \in 1 .. 10
    <2> DEFINE m == Len(bytes)
    <2>1. m \in 1 .. 10
      BY DEF IsVarint
    <2>2. n \in 1 .. m
      OBVIOUS
    <2> HIDE DEF m
    <2>3. n \in 1 .. 10 /\ \A j \in 1 .. n : j \in 1 .. m /\ j \in 1 .. 10
      BY <2>1, <2>2
    <2> QED
      BY <2>3 DEF m
  <1>2. \A j \in 1 .. n : g[j] = Septet(w, j)
    BY <1>1, MarkOfVarint DEF Holds
  <1>3. ASSUME NEW j \in 1 .. n
        PROVE  g[j] \subseteq 0 .. 6 /\ \A b \in 0 .. 6 : b \in g[j] <=> 7 * (j - 1) + b \in w
    <2>1. g[j] = Septet(w, j) /\ j \in 1 .. 10
      BY <1>1, <1>2, Zenon
    <2>2. /\ Septet(w, j) \subseteq 0 .. 6
          /\ \A b \in 0 .. 6 : b \in Septet(w, j) <=> 7 * (j - 1) + b \in w
      BY <2>1, SeptetOf DEF Septets
    <2> QED
      BY <2>1, <2>2, Zenon
  <1>4. DOMAIN g = 1 .. n
    OBVIOUS
  <1> HIDE DEF g
  <1>5. ASSUME NEW x \in Payload(s, n) PROVE x \in w \cap (0 .. 7 * n - 1)
    <2>1. PICK j \in 1 .. n : x \in {7 * (j - 1) + b : b \in g[j]}
      BY <1>4, <1>5 DEF Payload, Joined, g
    <2>2. PICK b \in g[j] : x = 7 * (j - 1) + b
      BY <2>1
    <2>3. b \in 0 .. 6 /\ x \in w
      BY <1>3, <2>2
    <2> QED
      BY <1>1, <2>2, <2>3
  <1>6. ASSUME NEW x \in w \cap (0 .. 7 * n - 1) PROVE x \in Payload(s, n)
    <2> DEFINE j == x \div 7 + 1
               b == x % 7
    <2>1. x \in 0 .. 7 * n - 1 /\ x \in w
      BY <1>6
    <2>2. j \in 1 .. n /\ b \in 0 .. 6 /\ x = 7 * (j - 1) + b
      BY <1>1, <2>1
    <2> HIDE DEF j, b
    <2>3. b \in g[j]
      BY <1>3, <2>1, <2>2
    <2>4. x \in {7 * (j - 1) + c : c \in g[j]}
      BY <2>2, <2>3
    <2> QED
      BY <1>4, <2>2, <2>4 DEF Payload, Joined, g
  <1> QED
    BY <1>5, <1>6

\* A word that was written is read back, and nothing after it is touched.
THEOREM VarintReadBack ==
    ASSUME NEW w \in Word64, NEW s \in InStreams, Begins(s, VarintBytes(w))
    PROVE  /\ pb_decode_varint(s) = [s |-> After(s, Len(VarintBytes(w))), value |-> w]
           /\ pb_skip_varint(s) = After(s, Len(VarintBytes(w)))
  <1> DEFINE bytes == VarintBytes(w)
             n == Len(bytes)
  <1>1. IsVarint(bytes, w) /\ Begins(s, bytes)
    BY EncodeWrites
  <1> HIDE DEF bytes
  <1>2. n \in 1 .. 10 /\ n \in Nat /\ w \subseteq 0 .. 7 * n - 1
    BY <1>1 DEF IsVarint
  <1>3. s.ok /\ n <= s.left /\ Holds(s, bytes, n) /\ s.left \in Nat
    BY <1>1 DEF Begins, InStreams
  <1>4. VarintLength(s, 10) = n /\ VarintLength(s, s.left) = n
    <2>1. 10 \in Nat /\ n <= 10
      <3> HIDE DEF n
      <3> QED
        BY <1>2
    <2> QED
      BY <1>1, <1>3, <2>1, LengthOfVarint, Zenon
  <1>5. Payload(s, n) = w \cap (0 .. 7 * n - 1)
    <2>1. n \in 1 .. n
      <3> HIDE DEF n
      <3> QED
        BY <1>2
    <2>2. n \in 1 .. Len(bytes)
      BY <2>1, Zenon
    <2> HIDE DEF n
    <2> QED
      BY <1>1, <1>3, <2>2, PayloadOfVarint
  <1>6. Payload(s, n) \cap (0 .. 63) = w
    BY <1>2, <1>5 DEF Word64
  <1>7. pb_read(s, n) = After(s, n)
    BY <1>2, <1>3, Reads
  <1>8. n # 0
    BY <1>2
  <1> HIDE DEF n
  <1>9. ReadVarint(s, n) = [s |-> After(s, n), value |-> w]
    BY <1>6, <1>7, <1>8 DEF ReadVarint
  <1> QED
    BY <1>4, <1>9 DEF pb_decode_varint, pb_skip_varint, n, bytes

\* A varint that the end of the stream cuts off is refused, wherever the cut is.
THEOREM CutVarintRefused ==
    ASSUME NEW w \in Word64, NEW s \in InStreams, s.left < Len(VarintBytes(w)),
           Holds(s, VarintBytes(w), s.left)
    PROVE  /\ ~pb_decode_varint(s).s.ok
           /\ ~pb_decode_varint32(s).s.ok
           /\ ~pb_skip_varint(s).ok
  <1> DEFINE bytes == VarintBytes(w)
             n == Len(bytes)
  <1>1. IsVarint(bytes, w)
    BY EncodeWrites
  <1> HIDE DEF bytes
  <1>2. n \in 1 .. 10 /\ s.left \in Nat /\ s.left < n
    BY <1>1 DEF IsVarint, InStreams, bytes
  <1>3. \A j \in 1 .. s.left : More \in s.buf[s.pos + j]
    <2> TAKE j \in 1 .. s.left
    <2>1. j \in 1 .. n /\ j < n
      BY <1>2
    <2> QED
      BY <1>1, <2>1, MarkOfVarint DEF Holds, bytes
  <1>4. \A most \in Nat : VarintLength(s, most) = 0
    <2> TAKE most \in Nat
    <2>1. Min({most, s.left}) \in Nat /\ Min({most, s.left}) <= s.left
      BY <1>2, LeastOfTwo
    <2>2. Ends(s, most) = {}
      BY <1>2, <1>3, <2>1 DEF Ends
    <2> QED
      BY <2>2 DEF VarintLength, Ends
  <1>5. VarintLength(s, 10) = 0 /\ VarintLength(s, s.left) = 0
    BY <1>2, <1>4
  <1>6. ~Failed(s).ok
    BY DEF Failed, InStreams
  <1> QED
    BY <1>5, <1>6 DEF pb_decode_varint, pb_decode_varint32, pb_skip_varint,
                      ReadVarint, ReadVarint32

Inside(s) == s.pos + s.left <= Len(s.buf)

\* What is read is never longer than what was there: of all the varints that
\* say the same, the encoder writes one of the shortest.
THEOREM ShortestVarint ==
    ASSUME NEW s \in InStreams, Inside(s), pb_decode_varint(s).s.ok
    PROVE  /\ pb_decode_varint(s).value \in Word64
           /\ Len(VarintBytes(pb_decode_varint(s).value))
                <= s.left - pb_decode_varint(s).s.left
  <1> DEFINE k == VarintLength(s, 10)
             m == Min({10, s.left})
             w == Payload(s, k) \cap (0 .. 63)
             n == Len(VarintBytes(w))
  <1>1. /\ s.buf \in Seq(Byte) /\ Len(s.buf) \in Nat /\ s.pos \in Nat /\ s.left \in Nat
        /\ s.pos + s.left <= Len(s.buf)
    BY DEF InStreams, Inside
  <1>2. pb_decode_varint(s) = [s |-> IF k = 0 THEN Failed(s) ELSE pb_read(s, k), value |-> w]
    BY DEF pb_decode_varint, ReadVarint
  <1>3. k # 0
    <2>1. Failed(s).ok = FALSE
      BY DEF Failed, InStreams
    <2> HIDE DEF k, w
    <2> QED
      BY <1>2, <2>1
  <1>4. s.ok /\ k \in Ends(s, 10)
    <2>1. s.ok /\ Ends(s, 10) # {} /\ k = Min(Ends(s, 10))
      BY <1>3 DEF VarintLength, Ends
    <2>2. Ends(s, 10) \subseteq Nat
      <3>1. m \in Nat
        BY <1>1, LeastOfTwo
      <3> QED
        BY <3>1 DEF Ends
    <2>3. PICK x \in Ends(s, 10) : \A y \in Ends(s, 10) : x <= y
      BY <2>1, <2>2, LeastIn, Zenon
    <2> QED
      BY <2>1, <2>2, <2>3, LeastIs
  <1>5. k \in 1 .. 10 /\ k <= s.left
    <2>1. m \in Nat /\ m <= 10 /\ m <= s.left
      BY <1>1, LeastOfTwo
    <2> HIDE DEF m, k
    <2>2. k \in 1 .. m
      BY <1>4 DEF Ends, m
    <2> QED
      BY <1>1, <2>1, <2>2
  <1> HIDE DEF k
  <1>6. Payload(s, k) \subseteq 0 .. 7 * k - 1
    <2> DEFINE g == [j \in 1 .. k |-> s.buf[s.pos + j] \ {More}]
    <2>1. ASSUME NEW j \in 1 .. k PROVE g[j] \subseteq 0 .. 6
      <3>1. s.pos + j \in 1 .. Len(s.buf)
        BY <1>1, <1>5
      <3>2. s.buf[s.pos + j] \in Byte
        BY <1>1, <3>1
      <3> QED
        BY <3>2 DEF Byte, More
    <2>2. DOMAIN g = 1 .. k /\ k \in Nat
      BY <1>5
    <2> HIDE DEF g
    <2>3. ASSUME NEW x \in Payload(s, k) PROVE x \in 0 .. 7 * k - 1
      <3>1. PICK j \in 1 .. k : x \in {7 * (j - 1) + b : b \in g[j]}
        BY <2>2, <2>3 DEF Payload, Joined, g
      <3>2. PICK b \in g[j] : x = 7 * (j - 1) + b
        BY <3>1
      <3>3. b \in 0 .. 6
        BY <2>1, <3>2
      <3> QED
        BY <1>5, <3>2, <3>3
    <2> QED
      BY <2>3
  <1>7. w \in Word64 /\ w \subseteq 0 .. 7 * k - 1
    BY <1>6 DEF Word64
  <1> HIDE DEF w
  <1>8. n \in 1 .. 10 /\ (n = 1 \/ \E b \in w : b >= 7 * n - 7)
    BY <1>7, EncodeWrites DEF IsVarint
  <1> HIDE DEF n
  <1>9. n <= k
    BY <1>5, <1>7, <1>8
  <1>10. pb_read(s, k).left = s.left - k
    BY <1>4, <1>5, Reads
  <1>11. pb_decode_varint(s).value = w /\ pb_decode_varint(s).s.left = s.left - k
    BY <1>2, <1>3, <1>10
  <1>12. n <= s.left - (s.left - k)
    BY <1>1, <1>5, <1>8, <1>9
  <1> QED
    BY <1>7, <1>11, <1>12 DEF n

\* The low half of a value that was extended to 64 bits, by zeros or by ones.
LEMMA SignExtended ==
    ASSUME NEW v \in Word32, NEW w, w = v \/ (31 \in v /\ w = v \cup (32 .. 63))
    PROVE  w \in Word64 /\ w \cap (0 .. 31) = v /\ v \subseteq 0 .. 31
  <1>1. v \subseteq 0 .. 31
    BY DEF Word32
  <1>2. v \subseteq w /\ \A b \in w : b \in v \/ b \in 32 .. 63
    OBVIOUS
  <1>3. \A b \in 32 .. 63 : b \notin 0 .. 31 /\ b \in 0 .. 63
    OBVIOUS
  <1>4. \A b \in 0 .. 31 : b \in 0 .. 63
    OBVIOUS
  <1>5. w \subseteq 0 .. 63
    BY <1>1, <1>2, <1>3, <1>4, Zenon
  <1>6. w \cap (0 .. 31) = v
    BY <1>1, <1>2, <1>3, Zenon
  <1> QED
    BY <1>1, <1>5, <1>6, Zenon DEF Word64

\* A 32 bit value, and a negative one that was written with its sign extended to
\* 64 bits as int32 fields are, are read back by pb_decode_varint32.
THEOREM Varint32ReadBack ==
    ASSUME NEW v \in Word32, NEW w, w = v \/ (31 \in v /\ w = v \cup (32 .. 63)),
           NEW s \in InStreams, Begins(s, VarintBytes(w))
    PROVE  pb_decode_varint32(s) = [s |-> After(s, Len(VarintBytes(w))), value |-> v]
  <1> DEFINE bytes == VarintBytes(w)
             n == Len(bytes)
             byte(j) == s.buf[s.pos + j]
  <1>1. w \in Word64 /\ w \cap (0 .. 31) = v /\ v \subseteq 0 .. 31
    BY SignExtended
  <1>2. IsVarint(bytes, w) /\ Begins(s, bytes)
    BY <1>1, EncodeWrites
  <1> HIDE DEF bytes
  <1>3. /\ n \in 1 .. 10 /\ n \in Nat /\ w \subseteq 0 .. 7 * n - 1
        /\ n = 1 \/ \E b \in w : b >= 7 * n - 7
    BY <1>2 DEF IsVarint
  <1>4. s.ok /\ n <= s.left /\ Holds(s, bytes, n) /\ s.left \in Nat
    BY <1>2 DEF Begins, InStreams
  <1>5. VarintLength(s, 10) = n
    <2>1. 10 \in Nat /\ n <= 10
      <3> HIDE DEF n
      <3> QED
        BY <1>3
    <2> QED
      BY <1>1, <1>2, <2>1, LengthOfVarint, Zenon
  <1>6. \A j \in 1 .. n : /\ byte(j) \ {More} = Septet(w, j)
                          /\ More \in byte(j) <=> j < n
    BY <1>1, <1>2, <1>4, MarkOfVarint DEF Holds
  <1> DEFINE h == Min({n, 5})
  <1>7. h \in Nat /\ h \in 1 .. n /\ (n <= 5 => h = n) /\ (n > 5 => h = 5)
    <2> HIDE DEF n
    <2>1. h = IF n <= 5 THEN n ELSE 5
      BY <1>3, LeastOfTwo
    <2> QED
      BY <1>3, <2>1
  <1> HIDE DEF h
  <1>8. Payload(s, h) = w \cap (0 .. 7 * h - 1)
    <2>1. h \in 1 .. Len(bytes)
      BY <1>7, Zenon
    <2>2. Holds(s, bytes, h)
      <3> HIDE DEF n
      <3> QED
        BY <1>3, <1>4, <1>7 DEF Holds
    <2> QED
      BY <1>1, <1>2, <2>1, <2>2, PayloadOfVarint
  <1> HIDE DEF n
  <1>9. Payload(s, h) \cap (0 .. 31) = v
    <2>1. CASE n <= 5
      BY <1>1, <1>3, <1>7, <1>8, <2>1
    <2>2. CASE n > 5
      <3>1. h = 5
        BY <1>7, <2>2
      <3>2. Payload(s, h) = w \cap (0 .. 34)
        BY <1>8, <3>1
      <3> QED
        BY <1>1, <3>2
    <2> QED
      BY <1>3, <2>1, <2>2
  <1>10. \A j \in 1 .. n : \A b \in 0 .. 6 : b \in byte(j) <=> 7 * (j - 1) + b \in w
    <2> TAKE j \in 1 .. n
    <2> TAKE b \in 0 .. 6
    <2>1. j \in 1 .. 10 /\ b \notin {More}
      BY <1>3 DEF More
    <2>2. b \in Septet(w, j) <=> 7 * (j - 1) + b \in w
      BY <1>1, <2>1, SeptetOf
    <2> QED
      BY <1>6, <2>1, <2>2
  <1>11. n = 5 => byte(5) \cap (4 .. 6) = {}
    <2> SUFFICES ASSUME n = 5, NEW b \in 4 .. 6, b \in byte(5) PROVE FALSE
      OBVIOUS
    <2>1. b \in 0 .. 6 /\ 5 \in 1 .. n /\ 7 * (5 - 1) + b = 28 + b
      OBVIOUS
    <2>2. 28 + b \in w
      BY <1>10, <2>1
    <2>3. 28 + b \notin v
      BY <1>1
    <2>4. 63 \in w
      BY <2>2, <2>3
    <2> QED
      BY <1>3, <2>4
  <1>12. ASSUME NEW j \in 6 .. n PROVE Extends(byte(j), j, 31 \in v)
    <2>1. PICK b \in w : b >= 7 * n - 7
      BY <1>3, <1>12
    <2>2. b >= 35
      BY <1>1, <1>3, <1>12, <2>1 DEF Word64
    <2>3. b \notin v
      BY <1>1, <2>2
    <2>4. 31 \in v /\ w = v \cup (32 .. 63)
      BY <2>3
    <2>5. n = 10
      BY <1>3, <2>4
    <2>6. j \in 1 .. n /\ j \in 6 .. 10 /\ \A c \in 0 .. 6 : c \in byte(j) <=> 7 * (j - 1) + c \in w
      BY <1>10, <1>12, <2>5
    <2>7. byte(j) \subseteq 0 .. 7
      <3>1. Septet(w, j) \subseteq 0 .. 6 /\ byte(j) \subseteq Septet(w, j) \cup {More}
        <4>1. Septet(w, j) \subseteq 0 .. 6
          BY <1>1, <2>6, SeptetOf DEF Septets
        <4> QED
          BY <1>6, <2>6, <4>1
      <3> QED
        BY <3>1 DEF More
    <2>8. 7 \in byte(j) <=> j < 10
      BY <1>6, <2>5, <2>6 DEF More
    <2>9. CASE j < 10
      <3>1. \A c \in 0 .. 6 : 7 * (j - 1) + c \in 32 .. 63
        BY <2>6, <2>9
      <3>2. \A c \in 0 .. 6 : c \in byte(j)
        BY <2>4, <2>6, <3>1
      <3>3. byte(j) = 0 .. 7
        BY <2>7, <2>8, <2>9, <3>2
      <3> QED
        BY <2>4, <2>9, <3>3, Zenon DEF Extends
    <2>10. CASE j = 10
      <3>1. \A c \in 1 .. 6 : 7 * (j - 1) + c \notin w
        BY <1>1, <2>10 DEF Word64
      <3>2. \A c \in 1 .. 6 : c \notin byte(j)
        BY <2>6, <3>1
      <3>3. 7 * (j - 1) + 0 = 63 /\ 63 \in w
        BY <2>4, <2>10
      <3>4. 0 \in byte(j)
        BY <2>6, <3>3
      <3>5. byte(j) = {0}
        BY <2>7, <2>8, <2>10, <3>2, <3>4
      <3>6. ~(j < 10)
        BY <2>10
      <3> QED
        BY <2>4, <3>5, <3>6, Zenon DEF Extends
    <2> QED
      BY <2>6, <2>9, <2>10
  <1>13. pb_read(s, n) = After(s, n)
    BY <1>3, <1>4, Reads DEF n
  <1>14. ReadVarint32(s, n, v) = [s |-> After(s, n), value |-> v]
    <2>1. /\ n > 0
          /\ n = 5 => s.buf[s.pos + 5] \cap (4 .. 6) = {}
          /\ \A j \in 6 .. n : Extends(s.buf[s.pos + j], j, 31 \in v)
      BY <1>3, <1>11, <1>12
    <2> QED
      BY <2>1, <1>13, Zenon DEF ReadVarint32
  <1> QED
    BY <1>5, <1>9, <1>14 DEF pb_decode_varint32, h, n, bytes

LEMMA ZigzagBack ==
    ASSUME NEW w \in Word64
    PROVE  /\ Zigzag(w) \in Word64
           /\ \A s : Unzigzag([s |-> s, value |-> Zigzag(w)]) = [s |-> s, value |-> w]
  <1> DEFINE doubled == {b + 1 : b \in w \ {63}}
             z == Zigzag(w)
             half == Slice(z, 1, 63)
  <1>1. w \subseteq 0 .. 63
    BY DEF Word64
  <1>2. doubled \subseteq 1 .. 63 /\ \A b \in 0 .. 62 : b + 1 \in doubled <=> b \in w
    BY <1>1
  <1>3. z = IF 63 \in w THEN (0 .. 63) \ doubled ELSE doubled
    BY DEF Zigzag
  <1> HIDE DEF doubled, z
  <1>4. z \subseteq 0 .. 63 /\ (0 \in z <=> 63 \in w)
    BY <1>2, <1>3
  <1>5. \A b \in 0 .. 62 : b + 1 \in z <=> (b \in w <=> 63 \notin w)
    BY <1>2, <1>3
  <1>6. half \subseteq 0 .. 62 /\ \A b \in 0 .. 62 : b \in half <=> b + 1 \in z
    <2>1. /\ half \subseteq 0 .. 63 - 1
          /\ \A x \in Int : x \in half <=> x \in 0 .. 63 - 1 /\ x + 1 \in z
      <3>1. z \subseteq Int /\ 1 \in Int /\ 63 \in Int
        BY <1>4
      <3> QED
        BY <3>1, InSlice, Zenon
    <2> HIDE DEF half
    <2> QED
      BY <2>1
  <1> HIDE DEF half
  <1>7. (IF 0 \in z THEN (0 .. 63) \ half ELSE half) = w
    <2>1. CASE 63 \in w
      <3>1. \A b \in 0 .. 62 : b \in half <=> b \notin w
        BY <1>5, <1>6, <2>1
      <3>2. \A b \in 0 .. 63 : b \notin half <=> b \in w
        <4> TAKE b \in 0 .. 63
        <4>1. CASE b = 63
          BY <1>6, <2>1, <4>1
        <4>2. CASE b \in 0 .. 62
          BY <3>1, <4>2
        <4> QED
          BY <4>1, <4>2
      <3>3. (0 .. 63) \ half = w
        BY <1>1, <3>2
      <3> QED
        BY <1>4, <2>1, <3>3
    <2>2. CASE 63 \notin w
      <3>1. \A b \in 0 .. 62 : b \in half <=> b \in w
        BY <1>5, <1>6, <2>2
      <3>2. w \subseteq 0 .. 62
        <4>1. \A b \in 0 .. 63 : b # 63 => b \in 0 .. 62
          OBVIOUS
        <4> QED
          BY <1>1, <2>2, <4>1
      <3>3. half = w
        BY <1>6, <3>1, <3>2
      <3> QED
        BY <1>4, <2>2, <3>3
    <2> QED
      BY <2>1, <2>2
  <1>8. ASSUME NEW s PROVE Unzigzag([s |-> s, value |-> z]) = [s |-> s, value |-> w]
    <2> DEFINE v == [s |-> s, value |-> z]
    <2>1. Unzigzag(v) = [v EXCEPT !.value = IF 0 \in z THEN (0 .. 63) \ half ELSE half]
      BY DEF Unzigzag, half
    <2>2. Unzigzag(v) = [v EXCEPT !.value = w]
      BY <1>7, <2>1, Zenon
    <2>3. [v EXCEPT !.value = w] = [s |-> s, value |-> w]
      OBVIOUS
    <2> QED
      BY <2>2, <2>3, Zenon
  <1> QED
    BY <1>4, <1>8 DEF z, Word64

\* Signed values go through the zigzag form and come back, both ends included.
THEOREM SvarintReadBack ==
    ASSUME NEW w \in Word64, NEW s \in InStreams, Begins(s, VarintBytes(Zigzag(w)))
    PROVE  pb_decode_svarint(s) = [s |-> After(s, Len(VarintBytes(Zigzag(w)))), value |-> w]
  <1>1. Zigzag(w) \in Word64
    BY ZigzagBack
  <1>2. pb_decode_varint(s)
           = [s |-> After(s, Len(VarintBytes(Zigzag(w)))), value |-> Zigzag(w)]
    BY <1>1, VarintReadBack
  <1> QED
    BY <1>2, ZigzagBack, Zenon DEF pb_decode_svarint

\* The bytes of a fixed-width value, the lowest first.
FixedBytes(word, size) == [j \in 1 .. size |-> Slice(word, 8 * j - 8, 8 * j - 1)]

\* Four or eight bytes hold the word that was written, or its low half.
THEOREM FixedReadBack ==
    ASSUME NEW w \in Word64, NEW size \in {4, 8}, NEW s \in InStreams,
           Begins(s, FixedBytes(w, size))
    PROVE  /\ \A o : pb_encode_fixed(o, w, size) = pb_write(o, FixedBytes(w, size))
           /\ pb_decode_fixed(s, size)
                 = [s |-> After(s, size), value |-> w \cap (0 .. 8 * size - 1)]
  <1> DEFINE bytes == FixedBytes(w, size)
             g == Ahead(s, size)
  <1>1. \A o : pb_encode_fixed(o, w, size) = pb_write(o, bytes)
    BY Zenon DEF pb_encode_fixed, FixedBytes
  <1>2. Len(bytes) = size /\ size \in Nat
    BY DEF FixedBytes
  <1>3. \A j \in 1 .. size : bytes[j] = Slice(w, 8 * j - 8, 8 * j - 1)
    BY DEF FixedBytes
  <1> HIDE DEF bytes
  <1>4. s.ok /\ size <= s.left /\ \A j \in 1 .. size : s.buf[s.pos + j] = bytes[j]
    BY <1>2 DEF Begins, Holds, bytes
  <1>5. s.buf \in Seq(Byte) /\ s.pos \in Nat
    BY DEF InStreams
  <1>6. DOMAIN g = 1 .. size /\ \A j \in 1 .. size : g[j] = s.buf[s.pos + j]
    BY <1>2, <1>5 DEF Ahead
  <1>7. ASSUME NEW j \in 1 .. size
        PROVE  g[j] \subseteq 0 .. 7 /\ \A b \in 0 .. 7 : b \in g[j] <=> 8 * (j - 1) + b \in w
    <2> DEFINE lo == 8 * j - 8
               hi == 8 * j - 1
    <2>1. g[j] = Slice(w, lo, hi)
      BY <1>3, <1>4, <1>6
    <2>2. w \subseteq Int /\ lo \in Int /\ hi \in Int /\ hi - lo = 7
      BY <1>2 DEF Word64
    <2>3. \A b \in 0 .. 7 : b + lo = 8 * (j - 1) + b
      BY <1>2
    <2> HIDE DEF lo, hi
    <2>4. /\ Slice(w, lo, hi) \subseteq 0 .. hi - lo
          /\ \A x \in Int : x \in Slice(w, lo, hi) <=> x \in 0 .. hi - lo /\ x + lo \in w
      BY <2>2, InSlice, Zenon
    <2> QED
      BY <2>1, <2>2, <2>3, <2>4
  <1> HIDE DEF g
  <1>8. Joined(g, 8) = w \cap (0 .. 8 * size - 1)
    <2>1. ASSUME NEW x \in Joined(g, 8) PROVE x \in w \cap (0 .. 8 * size - 1)
      <3>1. PICK j \in 1 .. size : x \in {8 * (j - 1) + b : b \in g[j]}
        BY <1>6, <2>1 DEF Joined
      <3>2. PICK b \in g[j] : x = 8 * (j - 1) + b
        BY <3>1
      <3>3. b \in 0 .. 7 /\ x \in w
        BY <1>7, <3>2
      <3> QED
        BY <1>2, <3>2, <3>3
    <2>2. ASSUME NEW x \in w \cap (0 .. 8 * size - 1) PROVE x \in Joined(g, 8)
      <3> DEFINE j == x \div 8 + 1
                 b == x % 8
      <3>1. x \in 0 .. 8 * size - 1 /\ x \in w
        BY <2>2
      <3>2. j \in 1 .. size /\ b \in 0 .. 7 /\ x = 8 * (j - 1) + b
        BY <1>2, <3>1
      <3> HIDE DEF j, b
      <3>3. b \in g[j]
        BY <1>7, <3>1, <3>2
      <3>4. x \in {8 * (j - 1) + c : c \in g[j]}
        BY <3>2, <3>3
      <3> QED
        BY <1>6, <3>2, <3>4 DEF Joined
    <2> QED
      BY <2>1, <2>2
  <1>9. pb_read(s, size) = After(s, size) /\ After(s, size).ok
    BY <1>2, <1>4, Reads
  <1> QED
    BY <1>1, <1>8, <1>9 DEF pb_decode_fixed, g, bytes

-----------------------------------------------------------------------------
(* Tags and strings *)

LEMMA ShiftUp ==
    ASSUME NEW m \in Nat, NEW k \in Nat, NEW T, T \subseteq 0 .. m
    PROVE  /\ {b + k : b \in T} \subseteq k .. m + k
           /\ \A x \in Int : x \in {b + k : b \in T} <=> x - k \in T
  <1>1. ASSUME NEW x \in {b + k : b \in T} PROVE x \in k .. m + k /\ x - k \in T
    <2>1. PICK b \in T : x = b + k
      OBVIOUS
    <2>2. b \in 0 .. m /\ x - k = b
      BY <2>1
    <2> QED
      BY <2>1, <2>2
  <1>2. ASSUME NEW x \in Int, x - k \in T PROVE x \in {b + k : b \in T}
    <2>1. (x - k) + k = x
      OBVIOUS
    <2> QED
      BY <1>2, <2>1
  <1> QED
    BY <1>1, <1>2

TagWord(wt, tag) == {b + 3 : b \in Bits(tag)} \cup Bits(wt)

\* Every tag there is, and every wire type, come back.
THEOREM TagReadBack ==
    ASSUME NEW tag \in Nat, tag < 2^29, NEW wt \in 0 .. 7, NEW s \in InStreams,
           Begins(s, VarintBytes(TagWord(wt, tag)))
    PROVE  /\ \A o : pb_encode_tag(o, wt, tag) = pb_write(o, VarintBytes(TagWord(wt, tag)))
           /\ pb_decode_tag(s)
                 = [s |-> After(s, Len(VarintBytes(TagWord(wt, tag)))), tag |-> tag, wt |-> wt]
  <1> DEFINE v == TagWord(wt, tag)
  <1>1. Bits(tag) \subseteq 0 .. 28 /\ Num(Bits(tag)) = tag
    <2>1. tag < Pow(29) /\ 29 \in 0 .. 30 /\ 29 - 1 = 28
      BY DEF Pow
    <2>2. tag < Pow(30)
      BY <2>1, PowValues
    <2> QED
      BY <2>1, <2>2, BitsBelow, NumOfBits
  <1>2. Bits(wt) \subseteq 0 .. 2 /\ Num(Bits(wt)) = wt
    <2>1. wt \in Nat /\ wt < Pow(3) /\ wt < Pow(30) /\ 3 \in 0 .. 30 /\ 3 - 1 = 2
      BY PowValues
    <2> QED
      BY <2>1, BitsBelow, NumOfBits
  <1> DEFINE high == {b + 3 : b \in Bits(tag)}
  <1>3. high \subseteq 3 .. 31 /\ \A b \in 0 .. 28 : b + 3 \in high <=> b \in Bits(tag)
    <2>1. 28 \in Nat /\ 3 \in Nat /\ 28 + 3 = 31
      OBVIOUS
    <2>2. high \subseteq 3 .. 28 + 3 /\ \A x \in Int : x \in high <=> x - 3 \in Bits(tag)
      BY <1>1, <2>1, ShiftUp, Zenon
    <2> HIDE DEF high
    <2>3. \A b \in 0 .. 28 : b + 3 \in Int /\ (b + 3) - 3 = b
      OBVIOUS
    <2> QED
      BY <2>1, <2>2, <2>3
  <1>4. v = high \cup Bits(wt)
    BY DEF TagWord
  <1> HIDE DEF high, v
  <1>5. v \subseteq 0 .. 31
    <2>1. (\A b \in 0 .. 2 : b \in 0 .. 31) /\ (\A b \in 3 .. 31 : b \in 0 .. 31)
      OBVIOUS
    <2> QED
      BY <1>2, <1>3, <1>4, <2>1, Zenon
  <1>6. v \in Word32 /\ v \in Word64
    BY <1>5 DEF Word32, Word64
  <1>7. Slice(v, 3, 31) = Bits(tag)
    <2>1. /\ Slice(v, 3, 31) \subseteq 0 .. 31 - 3
          /\ \A x \in Int : x \in Slice(v, 3, 31) <=> x \in 0 .. 31 - 3 /\ x + 3 \in v
      <3>1. v \subseteq Int /\ 3 \in Int /\ 31 \in Int
        BY <1>5
      <3> QED
        BY <3>1, InSlice, Zenon
    <2>2. \A b \in 0 .. 28 : b + 3 \in v <=> b \in Bits(tag)
      BY <1>2, <1>3, <1>4
    <2> QED
      BY <1>1, <2>1, <2>2
  <1>8. v \cap (0 .. 2) = Bits(wt)
    BY <1>2, <1>3, <1>4
  <1>9. \A o : pb_encode_tag(o, wt, tag) = pb_write(o, VarintBytes(v))
    BY <1>6, EncodeWrites DEF pb_encode_tag, v, TagWord
  <1>10. pb_decode_varint32(s) = [s |-> After(s, Len(VarintBytes(v))), value |-> v]
    BY <1>6, Varint32ReadBack DEF v
  <1>11. pb_decode_tag(s)
            = [s |-> After(s, Len(VarintBytes(v))), tag |-> Num(Bits(tag)), wt |-> Num(Bits(wt))]
    <2> DEFINE d == [s |-> After(s, Len(VarintBytes(v))), value |-> v]
    <2>1. d.s = After(s, Len(VarintBytes(v))) /\ d.value = v
      OBVIOUS
    <2>2. pb_decode_varint32(s) = d
      BY <1>10
    <2> HIDE DEF d
    <2>3. pb_decode_tag(s)
             = [s |-> d.s, tag |-> Num(Slice(d.value, 3, 31)), wt |-> Num(d.value \cap (0 .. 2))]
      BY <2>2, Zenon DEF pb_decode_tag, TagOf
    <2> QED
      BY <1>7, <1>8, <2>1, <2>3, Zenon
  <1> QED
    BY <1>1, <1>2, <1>9, <1>11, Zenon DEF v

LEMMA SameStream ==
    ASSUME NEW s \in InStreams, NEW t \in InStreams,
           s.buf = t.buf, s.pos = t.pos, s.left = t.left, s.ok = t.ok
    PROVE  s = t
  <1>1. \A r \in InStreams : r = [buf |-> r.buf, pos |-> r.pos, left |-> r.left, ok |-> r.ok]
    BY DEF InStreams
  <1> QED
    BY <1>1

LEMMA SplitIs ==
    ASSUME NEW s \in InStreams, s.ok, NEW n \in Nat, n <= s.left
    PROVE  /\ SplitOff(s, n) = [s |-> [s EXCEPT !.left = @ - n], sub |-> [s EXCEPT !.left = n]]
           /\ SplitOff(s, n).s \in InStreams /\ SplitOff(s, n).sub \in InStreams
           /\ LET split == SplitOff(s, n)
              IN  /\ split.s.buf = s.buf /\ split.s.pos = s.pos
                  /\ split.s.left = s.left - n /\ split.s.ok
                  /\ split.sub.buf = s.buf /\ split.sub.pos = s.pos
                  /\ split.sub.left = n /\ split.sub.ok
  <1> DEFINE parent == [s EXCEPT !.left = s.left - n]
             sub == [s EXCEPT !.left = n]
  <1>1. s.left - n \in Nat /\ ~(n > s.left) /\ s.ok = TRUE
    BY DEF InStreams
  <1>2. SplitOff(s, n) = [s |-> parent, sub |-> sub]
    BY <1>1, Zenon DEF SplitOff
  <1>3. /\ parent \in InStreams /\ parent.buf = s.buf /\ parent.pos = s.pos
        /\ parent.left = s.left - n /\ parent.ok = s.ok
    BY <1>1 DEF InStreams
  <1>4. /\ sub \in InStreams /\ sub.buf = s.buf /\ sub.pos = s.pos
        /\ sub.left = n /\ sub.ok = s.ok
    BY DEF InStreams
  <1> HIDE DEF parent, sub
  <1>5. SplitOff(s, n).s = parent /\ SplitOff(s, n).sub = sub
    BY <1>2
  <1> QED
    BY <1>1, <1>2, <1>3, <1>4, <1>5 DEF parent, sub

\* A string or submessage is split off with just its own bytes, and whatever part
\* of them its reader takes, the parent goes on right behind them, as it does when
\* the field is unknown and skipped.
THEOREM StringReadBack ==
    ASSUME NEW bytes \in Seq(Byte), Len(bytes) < 2^30, NEW s \in InStreams,
           Begins(s, VarintBytes(Bits(Len(bytes))) \o bytes)
    PROVE  LET length == VarintBytes(Bits(Len(bytes)))
               split == pb_make_string_substream(s)
               behind == After(s, Len(length) + Len(bytes))
           IN  /\ \A o : pb_encode_string(o, bytes) = pb_write(pb_write(o, length), bytes)
               /\ split.sub.ok /\ split.sub.left = Len(bytes) /\ Begins(split.sub, bytes)
               /\ \A n \in 0 .. Len(bytes) :
                     pb_close_string_substream(split.s, After(split.sub, n)) = behind
               /\ pb_skip_string(s) = behind
  <1> DEFINE n == Len(bytes)
             w == Bits(n)
             length == VarintBytes(w)
             k == Len(length)
             next == After(s, k)
             split == pb_make_string_substream(s)
             behind == After(s, k + n)
  <1>1. n \in Nat /\ w \subseteq 0 .. 29 /\ Num(w) = n
    <2>1. n \in Nat /\ n < Pow(30)
      BY DEF Pow
    <2> HIDE DEF n
    <2> QED
      BY <2>1, NumOfBits
  <1>2. w \in Word64 /\ w \in Word32
    <2>1. \A b \in 0 .. 29 : b \in 0 .. 31 /\ b \in 0 .. 63
      OBVIOUS
    <2> QED
      BY <1>1, <2>1, Zenon DEF Word64, Word32
  <1> HIDE DEF w
  <1>3. IsVarint(length, w) /\ \A o : pb_encode_varint(o, w) = pb_write(o, length)
    BY <1>2, EncodeWrites
  <1> HIDE DEF length
  <1>4. length \in Seq(Byte) /\ k \in Nat
    BY <1>3 DEF IsVarint
  <1>5. /\ Len(length \o bytes) = k + n
        /\ \A j \in 1 .. k : (length \o bytes)[j] = length[j]
        /\ \A j \in 1 .. n : (length \o bytes)[k + j] = bytes[j]
    <2>1. /\ Len(length \o bytes) = Len(length) + Len(bytes)
          /\ \A i \in 1 .. Len(length) + Len(bytes) :
                (length \o bytes)[i] = IF i <= Len(length) THEN length[i] ELSE bytes[i - Len(length)]
      BY <1>4, ConcatProperties, Zenon
    <2> HIDE DEF k, n
    <2>2. \A i \in 1 .. k + n :
             (length \o bytes)[i] = IF i <= k THEN length[i] ELSE bytes[i - k]
      BY <2>1, Zenon DEF k, n
    <2>3. \A j \in 1 .. k : j \in 1 .. k + n /\ j <= k
      BY <1>1, <1>4
    <2>4. \A j \in 1 .. n : k + j \in 1 .. k + n /\ ~(k + j <= k) /\ (k + j) - k = j
      BY <1>1, <1>4
    <2>5. \A j \in 1 .. k : (length \o bytes)[j] = length[j]
      BY <2>2, <2>3
    <2>6. \A j \in 1 .. n : (length \o bytes)[k + j] = bytes[j]
      BY <2>2, <2>4
    <2> QED
      BY <2>1, <2>5, <2>6 DEF k, n
  <1>6. /\ s.ok /\ k + n <= s.left
        /\ \A j \in 1 .. k + n : s.buf[s.pos + j] = (length \o bytes)[j]
    BY <1>5 DEF Begins, Holds, length, w
  <1>7. s.buf \in Seq(Byte) /\ s.pos \in Nat /\ s.left \in Nat /\ s.ok = TRUE
    BY <1>6 DEF InStreams
  <1> HIDE DEF k, n
  <1>8. Begins(s, length)
    <2>1. \A j \in 1 .. k : s.buf[s.pos + j] = length[j]
      BY <1>1, <1>4, <1>5, <1>6
    <2>2. k <= s.left
      BY <1>1, <1>4, <1>6, <1>7
    <2> QED
      BY <1>6, <2>1, <2>2 DEF Begins, Holds, k
  <1>9. pb_decode_varint32(s) = [s |-> next, value |-> w]
    BY <1>2, <1>8, Varint32ReadBack DEF length, k
  <1>10. /\ next = [buf |-> s.buf, pos |-> s.pos + k, left |-> s.left - k, ok |-> TRUE]
         /\ next \in InStreams
    BY <1>1, <1>4, <1>6, <1>7, Reads
  <1>11. n <= next.left /\ next.ok /\ next.buf = s.buf /\ next.pos = s.pos + k /\ next.left = s.left - k
    BY <1>1, <1>4, <1>6, <1>7, <1>10
  <1> HIDE DEF next
  <1>12. split = SplitOff(next, n)
    BY <1>1, <1>9 DEF pb_make_string_substream, SplitAt
  <1> HIDE DEF split
  <1>13. /\ split.s \in InStreams /\ split.sub \in InStreams
         /\ split.s.buf = s.buf /\ split.s.pos = next.pos
         /\ split.s.left = next.left - n /\ split.s.ok
         /\ split.sub.buf = s.buf /\ split.sub.pos = next.pos
         /\ split.sub.left = n /\ split.sub.ok
    BY <1>1, <1>10, <1>11, <1>12, SplitIs
  <1>14. Begins(split.sub, bytes)
    <2>1. ASSUME NEW j \in 1 .. n PROVE split.sub.buf[split.sub.pos + j] = bytes[j]
      <3>1. (s.pos + k) + j = s.pos + (k + j) /\ k + j \in 1 .. k + n
        BY <1>1, <1>4, <1>7
      <3>2. s.buf[s.pos + (k + j)] = bytes[j]
        BY <1>5, <1>6, <3>1
      <3> QED
        BY <1>11, <1>13, <3>1, <3>2
    <2>2. n <= split.sub.left
      BY <1>1, <1>13
    <2> QED
      BY <1>13, <2>1, <2>2 DEF Begins, Holds, n
  <1>15. /\ behind = [buf |-> s.buf, pos |-> s.pos + (k + n), left |-> s.left - (k + n), ok |-> TRUE]
         /\ behind \in InStreams
    <2>1. k + n \in Nat
      BY <1>1, <1>4
    <2> QED
      BY <1>6, <2>1, Reads
  <1>16. ASSUME NEW m \in 0 .. n
         PROVE  pb_close_string_substream(split.s, After(split.sub, m)) = behind
    <2> DEFINE sub == After(split.sub, m)
               closed == [split.s EXCEPT !.pos = sub.pos + sub.left]
    <2>1. sub = [buf |-> s.buf, pos |-> next.pos + m, left |-> n - m, ok |-> TRUE]
      <3>1. m \in Nat /\ m <= split.sub.left
        BY <1>1, <1>13
      <3> QED
        BY <1>13, <3>1, Reads
    <2> HIDE DEF sub
    <2>2. sub.pos + sub.left = s.pos + (k + n) /\ s.pos + (k + n) \in Nat
      BY <1>1, <1>4, <1>7, <1>11, <2>1
    <2>3. /\ closed \in InStreams /\ closed.buf = s.buf /\ closed.pos = s.pos + (k + n)
          /\ closed.left = next.left - n /\ closed.ok = split.s.ok
      BY <1>13, <2>2 DEF InStreams
    <2>4. pb_close_string_substream(split.s, sub) = closed
      BY <1>13 DEF pb_close_string_substream
    <2> HIDE DEF closed
    <2>5. next.left - n = s.left - (k + n)
      BY <1>1, <1>4, <1>7, <1>11
    <2>6. closed.ok = TRUE
      BY <1>13, <2>3 DEF InStreams
    <2>7. /\ behind.buf = s.buf /\ behind.pos = s.pos + (k + n)
          /\ behind.left = s.left - (k + n) /\ behind.ok = TRUE
      BY <1>15
    <2>8. closed = behind
      BY <1>15, <2>3, <2>5, <2>6, <2>7, SameStream
    <2> QED
      BY <2>4, <2>8 DEF sub
  <1>17. pb_skip_string(s) = behind
    <2>1. pb_skip_string(s) = pb_read(next, n)
      BY <1>1, <1>9 DEF pb_skip_string, SkipBytes
    <2>2. pb_read(next, n)
             = [buf |-> next.buf, pos |-> next.pos + n, left |-> next.left - n, ok |-> TRUE]
      <3>1. pb_read(next, n) = After(next, n)
        BY <1>1, <1>10, <1>11, Reads, Zenon
      <3>2. After(next, n)
               = [buf |-> next.buf, pos |-> next.pos + n, left |-> next.left - n, ok |-> TRUE]
        BY <1>1, <1>10, <1>11, Reads, Zenon
      <3> QED
        BY <3>1, <3>2, Zenon
    <2>3. (s.pos + k) + n = s.pos + (k + n) /\ (s.left - k) - n = s.left - (k + n)
      BY <1>1, <1>4, <1>7
    <2> QED
      BY <1>11, <1>15, <2>1, <2>2, <2>3
  <1>18. \A o : pb_encode_string(o, bytes) = pb_write(pb_write(o, length), bytes)
    BY <1>3, Zenon DEF pb_encode_string, w, n
  <1> QED
    BY <1>13, <1>14, <1>16, <1>17, <1>18 DEF split, length, w, k, n

-----------------------------------------------------------------------------
(* Field descriptors *)

\* One number of a packed word is got out again, if its place holds its bits alone.
LEMMA PlaceHolds ==
    ASSUME NEW word, word \subseteq Int, NEW lo \in Int, NEW hi \in Int,
           NEW T, T \subseteq 0 .. hi - lo,
           \A x \in lo .. hi : x \in word <=> x - lo \in T
    PROVE  Slice(word, lo, hi) = T
  <1> DEFINE slice == Slice(word, lo, hi)
  <1>1. slice \subseteq 0 .. hi - lo /\ \A x \in Int : x \in slice <=> x \in 0 .. hi - lo /\ x + lo \in word
    BY InSlice, Zenon
  <1>2. ASSUME NEW x \in 0 .. hi - lo PROVE x \in slice <=> x \in T
    <2>1. x + lo \in lo .. hi /\ (x + lo) - lo = x /\ x \in Int
      OBVIOUS
    <2>2. x \in slice <=> x + lo \in word
      BY <1>1, <2>1
    <2>3. x + lo \in word <=> (x + lo) - lo \in T
      BY <2>1
    <2> QED
      BY <2>1, <2>2, <2>3
  <1> QED
    BY <1>1, <1>2

LEMMA NumberFits ==
    ASSUME NEW width \in 0 .. 30, NEW n \in Nat, n < Pow(width)
    PROVE  Num(Bits(n)) = n /\ Bits(n) \subseteq 0 .. width - 1
  <1>1. 30 \in width .. 30
    OBVIOUS
  <1>2. Pow(width) <= Pow(30) /\ Pow(width) \in Nat /\ Pow(30) \in Nat
    BY <1>1, PowGrows
  <1>3. n < Pow(30)
    BY <1>2
  <1> QED
    BY <1>3, NumOfBits, BitsBelow

\* The bits from lo to hi of the word are n, and n has no others.
Place(word, lo, hi, n) ==
    /\ word \subseteq Int /\ lo \in Int /\ hi \in Int /\ n \in Nat
    /\ hi - lo \in 0 .. 29 /\ n < Pow(hi - lo + 1)
    /\ \A x \in lo .. hi : x \in word <=> x - lo \in Bits(n)

LEMMA NumberAt ==
    ASSUME NEW word, NEW lo, NEW hi, NEW n, Place(word, lo, hi, n)
    PROVE  Slice(word, lo, hi) = Bits(n) /\ Num(Slice(word, lo, hi)) = n
  <1>1. /\ word \subseteq Int /\ lo \in Int /\ hi \in Int /\ n \in Nat
        /\ hi - lo \in 0 .. 29 /\ n < Pow(hi - lo + 1)
        /\ \A x \in lo .. hi : x \in word <=> x - lo \in Bits(n)
    BY DEF Place
  <1>2. hi - lo + 1 \in 0 .. 30 /\ (hi - lo + 1) - 1 = hi - lo
    BY <1>1
  <1>3. Num(Bits(n)) = n /\ Bits(n) \subseteq 0 .. hi - lo
    BY <1>1, <1>2, NumberFits
  <1>4. Slice(word, lo, hi) = Bits(n)
    BY <1>1, <1>3, PlaceHolds
  <1> QED
    BY <1>3, <1>4

\* Where one part of a packed word lies, and that it is all of the number.
LEMMA PartIs ==
    ASSUME NEW n \in Nat, NEW width \in 0 .. 30, n < Pow(width), NEW at \in Nat
    PROVE  /\ Part(n, width, at) \subseteq at .. at + width - 1
           /\ \A x \in Int : x \in Part(n, width, at) <=> x - at \in Bits(n)
  <1>1. Bits(n) \subseteq 0 .. width - 1
    BY BitsBelow
  <1>2. Part(n, width, at) = {b + at : b \in Bits(n)}
    <2>1. Bits(n) \cap (0 .. width - 1) = Bits(n)
      BY <1>1, Zenon
    <2> QED
      BY <2>1 DEF Part
  <1>3. CASE width = 0
    <2>1. Bits(n) = {}
      BY <1>1, <1>3
    <2> QED
      BY <1>2, <2>1
  <1>4. CASE width > 0
    <2> DEFINE m == width - 1
    <2>1. m \in Nat /\ m + at = at + width - 1
      BY <1>4
    <2>2. /\ {b + at : b \in Bits(n)} \subseteq at .. m + at
          /\ \A x \in Int : x \in {b + at : b \in Bits(n)} <=> x - at \in Bits(n)
      BY <1>1, <2>1, ShiftUp, Zenon
    <2> QED
      BY <1>2, <2>1, <2>2
  <1> QED
    BY <1>3, <1>4

LEMMA TypeBits ==
    ASSUME NEW l \in 0 .. 11, NEW h \in 0 .. 3, NEW a \in 0 .. 2
    PROVE  LET t == l + 16 * h + 64 * a
           IN  /\ t \in Nat /\ t < Pow(8)
               /\ \A i \in 0 .. 3 : i \in Bits(t) <=> i \in Bits(l)
               /\ \A i \in 0 .. 1 : i + 4 \in Bits(t) <=> i \in Bits(h)
               /\ \A i \in 0 .. 1 : i + 6 \in Bits(t) <=> i \in Bits(a)
  <1> DEFINE t == l + 16 * h + 64 * a
             Bit(n, p) == (n \div p) % 2 = 1
  <1>1. t \in 0 .. 255
    OBVIOUS
  <1>2. \A n : \A i \in 0 .. 29 : i \in Bits(n) <=> Bit(n, Pow(i))
    BY BitsIs
  <1>3. \A i \in 0 .. 3 : i \in Bits(t) <=> i \in Bits(l)
    <2>1. /\ Bit(t, 1) <=> Bit(l, 1)
          /\ Bit(t, 2) <=> Bit(l, 2)
          /\ Bit(t, 4) <=> Bit(l, 4)
          /\ Bit(t, 8) <=> Bit(l, 8)
      OBVIOUS
    <2> HIDE DEF t, Bit
    <2> TAKE i \in 0 .. 3
    <2>2. i = 0 \/ i = 1 \/ i = 2 \/ i = 3
      OBVIOUS
    <2>3. Bit(t, Pow(i)) <=> Bit(l, Pow(i))
      BY <2>1, <2>2, PowValues
    <2> QED
      BY <1>2, <2>2, <2>3
  <1>4. \A i \in 0 .. 1 : i + 4 \in Bits(t) <=> i \in Bits(h)
    <2>1. /\ Bit(t, 16) <=> Bit(h, 1)
          /\ Bit(t, 32) <=> Bit(h, 2)
      OBVIOUS
    <2> HIDE DEF t, Bit
    <2> TAKE i \in 0 .. 1
    <2>2. i = 0 \/ i = 1
      OBVIOUS
    <2>3. Bit(t, Pow(i + 4)) <=> Bit(h, Pow(i))
      BY <2>1, <2>2, PowValues
    <2> QED
      BY <1>2, <2>2, <2>3
  <1>5. \A i \in 0 .. 1 : i + 6 \in Bits(t) <=> i \in Bits(a)
    <2>1. /\ Bit(t, 64) <=> Bit(a, 1)
          /\ Bit(t, 128) <=> Bit(a, 2)
      OBVIOUS
    <2> HIDE DEF t, Bit
    <2> TAKE i \in 0 .. 1
    <2>2. i = 0 \/ i = 1
      OBVIOUS
    <2>3. Bit(t, Pow(i + 6)) <=> Bit(a, Pow(i))
      BY <2>1, <2>2, PowValues
    <2> QED
      BY <1>2, <2>2, <2>3
  <1> QED
    BY <1>1, <1>3, <1>4, <1>5, PowValues

Fields ==
    [ltype : {LTypes[i] : i \in 1 .. 12}, htype : {HTypes[i] : i \in 1 .. 4},
     atype : {ATypes[i] : i \in 1 .. 3}, tag : Nat, array_size : Nat \ {0},
     size_offset : Nat, data_offset : Nat, data_size : Nat]

LEMMA CodesOf ==
    ASSUME NEW f \in Fields
    PROVE  /\ CodeOf(LTypes, f.ltype) \in 1 .. 12 /\ LTypes[CodeOf(LTypes, f.ltype)] = f.ltype
           /\ CodeOf(HTypes, f.htype) \in 1 .. 4 /\ HTypes[CodeOf(HTypes, f.htype)] = f.htype
           /\ CodeOf(ATypes, f.atype) \in 1 .. 3 /\ ATypes[CodeOf(ATypes, f.atype)] = f.atype
  <1>1. DOMAIN LTypes = 1 .. 12 /\ DOMAIN HTypes = 1 .. 4 /\ DOMAIN ATypes = 1 .. 3
    BY DEF LTypes, HTypes, ATypes
  <1>2. /\ \E i \in 1 .. 12 : LTypes[i] = f.ltype
        /\ \E i \in 1 .. 4 : HTypes[i] = f.htype
        /\ \E i \in 1 .. 3 : ATypes[i] = f.atype
    <2>1. /\ f.ltype \in {LTypes[i] : i \in 1 .. 12} /\ f.htype \in {HTypes[i] : i \in 1 .. 4}
          /\ f.atype \in {ATypes[i] : i \in 1 .. 3}
      BY Zenon DEF Fields
    <2> QED
      BY <2>1, Zenon
  <1> QED
    BY <1>1, <1>2, Zenon DEF CodeOf

\* The first word of a packed field; "rest" is what is above its sixteen low bits.
HeadOf(head, f, code, rest) ==
    code \in 0 .. 3 /\ rest \subseteq 16 .. 31 /\ head = FieldInfoHead(f, code) \cup rest

\* What the sixteen low bits of every packed word say, whatever the others are.
LEMMA HeadIs ==
    ASSUME NEW f \in Fields, NEW code, NEW rest, NEW head, HeadOf(head, f, code, rest)
    PROVE  /\ head \subseteq 0 .. 31
           /\ Num(Slice(head, 0, 1)) = code
           /\ Slice(head, 2, 7) = Bits(f.tag) \cap (0 .. 5)
           /\ LTypes[Num(Slice(head, 8, 11)) + 1] = f.ltype
           /\ HTypes[Num(Slice(head, 12, 13)) + 1] = f.htype
           /\ ATypes[Num(Slice(head, 14, 15)) + 1] = f.atype
           /\ \A x \in 16 .. 31 : x \in head <=> x \in rest
  <1> DEFINE l == CodeOf(LTypes, f.ltype) - 1
             h == CodeOf(HTypes, f.htype) - 1
             a == CodeOf(ATypes, f.atype) - 1
             t == l + 16 * h + 64 * a
             codes == Part(code, 2, 0)
             tags == Part(f.tag, 6, 2)
             types == {b + 8 : b \in TypeByte(f)}
  <1>0. code \in 0 .. 3 /\ rest \subseteq 16 .. 31 /\ head = FieldInfoHead(f, code) \cup rest
    BY Zenon DEF HeadOf
  <1>1. l \in 0 .. 11 /\ h \in 0 .. 3 /\ a \in 0 .. 2
    BY CodesOf
  <1>2. l + 1 = CodeOf(LTypes, f.ltype) /\ h + 1 = CodeOf(HTypes, f.htype) /\ a + 1 = CodeOf(ATypes, f.atype)
    BY CodesOf
  <1>3. TypeByte(f) = Bits(t)
    BY DEF TypeByte
  <1> HIDE DEF l, h, a
  <1>4. /\ t \in Nat /\ t < Pow(8)
        /\ \A i \in 0 .. 3 : i \in Bits(t) <=> i \in Bits(l)
        /\ \A i \in 0 .. 1 : i + 4 \in Bits(t) <=> i \in Bits(h)
        /\ \A i \in 0 .. 1 : i + 6 \in Bits(t) <=> i \in Bits(a)
    BY <1>1, TypeBits
  <1> HIDE DEF t
  <1>5. codes \subseteq 0 .. 1 /\ \A x \in 0 .. 1 : x \in codes <=> x - 0 \in Bits(code)
    <2>1. code \in Nat /\ 2 \in 0 .. 30 /\ code < Pow(2) /\ 0 \in Nat /\ 0 + 2 - 1 = 1
      BY <1>0, PowValues
    <2>2. codes \subseteq 0 .. 0 + 2 - 1 /\ \A x \in Int : x \in codes <=> x - 0 \in Bits(code)
      BY <2>1, PartIs, Zenon
    <2> HIDE DEF codes
    <2> QED
      BY <2>1, <2>2
  <1>6. tags \subseteq 2 .. 7 /\ \A x \in 2 .. 7 : x \in tags <=> x - 2 \in Bits(f.tag)
    <2> DEFINE T == Bits(f.tag) \cap (0 .. 5)
    <2>1. 5 \in Nat /\ 2 \in Nat /\ T \subseteq 0 .. 5 /\ 5 + 2 = 7
      OBVIOUS
    <2>2. /\ {b + 2 : b \in T} \subseteq 2 .. 5 + 2
          /\ \A x \in Int : x \in {b + 2 : b \in T} <=> x - 2 \in T
      BY <2>1, ShiftUp, Zenon
    <2>3. tags = {b + 2 : b \in T}
      <3>1. 6 - 1 = 5
        OBVIOUS
      <3> QED
        BY <3>1 DEF Part
    <2>4. \A x \in 2 .. 7 : x \in Int /\ x - 2 \in 0 .. 5
      OBVIOUS
    <2> HIDE DEF tags
    <2> QED
      BY <2>1, <2>2, <2>3, <2>4
  <1>7. types \subseteq 8 .. 15 /\ \A x \in Int : x \in types <=> x - 8 \in Bits(t)
    <2>1. Bits(t) \subseteq 0 .. 7
      <3>1. 8 \in 0 .. 30 /\ 8 - 1 = 7
        OBVIOUS
      <3> QED
        BY <1>4, <3>1, BitsBelow
    <2>2. 7 \in Nat /\ 8 \in Nat /\ 7 + 8 = 15
      OBVIOUS
    <2>3. /\ {b + 8 : b \in Bits(t)} \subseteq 8 .. 7 + 8
          /\ \A x \in Int : x \in {b + 8 : b \in Bits(t)} <=> x - 8 \in Bits(t)
      BY <2>1, <2>2, ShiftUp, Zenon
    <2> QED
      BY <1>3, <2>2, <2>3
  <1>8. head = codes \cup tags \cup types \cup rest
    BY <1>0, Zenon DEF FieldInfoHead
  <1> HIDE DEF codes, tags, types
  <1>9. \A x : x \in head <=> x \in codes \/ x \in tags \/ x \in types \/ x \in rest
    BY <1>8, Zenon
  <1>10. head \subseteq 0 .. 31
    <2>1. /\ \A x \in 0 .. 1 : x \in 0 .. 31
          /\ \A x \in 2 .. 7 : x \in 0 .. 31
          /\ \A x \in 8 .. 15 : x \in 0 .. 31
          /\ \A x \in 16 .. 31 : x \in 0 .. 31
      OBVIOUS
    <2> QED
      BY <1>0, <1>5, <1>6, <1>7, <1>9, <2>1, Zenon
  <1>11. \A x \in 0 .. 1 : x \in head <=> x - 0 \in Bits(code)
    BY <1>0, <1>5, <1>6, <1>7, <1>9
  <1>12. \A x \in 2 .. 7 : x \in head <=> x - 2 \in Bits(f.tag)
    BY <1>0, <1>5, <1>6, <1>7, <1>9
  <1>13. \A x \in 8 .. 15 : x \in head <=> x - 8 \in Bits(t)
    BY <1>0, <1>5, <1>6, <1>7, <1>9
  <1>14. \A x \in 16 .. 31 : x \in head <=> x \in rest
    BY <1>0, <1>5, <1>6, <1>7, <1>9
  <1>15. head \subseteq Int
    BY <1>10
  <1>16. Num(Slice(head, 0, 1)) = code
    <2>1. Place(head, 0, 1, code)
      BY <1>0, <1>11, <1>15, PowValues DEF Place
    <2> QED
      BY <2>1, NumberAt
  <1>17. Slice(head, 2, 7) = Bits(f.tag) \cap (0 .. 5)
    <2>1. 2 \in Int /\ 7 \in Int
      OBVIOUS
    <2>2. /\ Slice(head, 2, 7) \subseteq 0 .. 7 - 2
          /\ \A x \in Int : x \in Slice(head, 2, 7) <=> x \in 0 .. 7 - 2 /\ x + 2 \in head
      BY <1>15, <2>1, InSlice, Zenon
    <2>3. \A x \in 0 .. 5 : x + 2 \in 2 .. 7 /\ (x + 2) - 2 = x /\ x \in Int
      OBVIOUS
    <2>4. \A x \in 0 .. 5 : x + 2 \in head <=> x \in Bits(f.tag)
      BY <1>12, <2>3
    <2>5. 7 - 2 = 5
      OBVIOUS
    <2> QED
      BY <2>2, <2>3, <2>4, <2>5
  <1>18. LTypes[Num(Slice(head, 8, 11)) + 1] = f.ltype
    <2>1. l \in Nat /\ l < Pow(4)
      BY <1>1, PowValues
    <2>2. \A x \in 8 .. 11 : x \in 8 .. 15 /\ x - 8 \in 0 .. 3
      OBVIOUS
    <2>3. \A x \in 8 .. 11 : x \in head <=> x - 8 \in Bits(l)
      BY <1>4, <1>13, <2>2
    <2>4. Place(head, 8, 11, l)
      BY <1>15, <2>1, <2>3 DEF Place
    <2>5. Num(Slice(head, 8, 11)) = l
      BY <2>4, NumberAt
    <2> QED
      BY <1>2, <2>5, CodesOf
  <1>19. HTypes[Num(Slice(head, 12, 13)) + 1] = f.htype
    <2>1. h \in Nat /\ h < Pow(2)
      BY <1>1, PowValues
    <2>2. \A x \in 12 .. 13 : x \in 8 .. 15 /\ x - 12 \in 0 .. 1 /\ (x - 12) + 4 = x - 8
      OBVIOUS
    <2>3. \A x \in 12 .. 13 : x \in head <=> x - 12 \in Bits(h)
      BY <1>4, <1>13, <2>2
    <2>4. Place(head, 12, 13, h)
      BY <1>15, <2>1, <2>3 DEF Place
    <2>5. Num(Slice(head, 12, 13)) = h
      BY <2>4, NumberAt
    <2> QED
      BY <1>2, <2>5, CodesOf
  <1>20. ATypes[Num(Slice(head, 14, 15)) + 1] = f.atype
    <2>1. a \in Nat /\ a < Pow(2)
      BY <1>1, PowValues
    <2>2. \A x \in 14 .. 15 : x \in 8 .. 15 /\ x - 14 \in 0 .. 1 /\ (x - 14) + 6 = x - 8
      OBVIOUS
    <2>3. \A x \in 14 .. 15 : x \in head <=> x - 14 \in Bits(a)
      BY <1>4, <1>13, <2>2
    <2>4. Place(head, 14, 15, a)
      BY <1>15, <2>1, <2>3 DEF Place
    <2>5. Num(Slice(head, 14, 15)) = a
      BY <2>4, NumberAt
    <2> QED
      BY <1>2, <2>5, CodesOf
  <1> QED
    BY <1>10, <1>14, <1>16, <1>17, <1>18, <1>19, <1>20

\* The bits from lo to hi of the word are the part for n, which has room for n.
Packed(word, n, width, lo, hi) ==
    /\ word \subseteq Int /\ lo \in Nat /\ width \in 1 .. 30 /\ hi = lo + width - 1
    /\ n \in Nat /\ n < Pow(width)
    /\ \A x \in lo .. hi : x \in word <=> x \in Part(n, width, lo)

LEMMA PackedBack ==
    ASSUME NEW word, NEW n, NEW width, NEW lo, NEW hi, Packed(word, n, width, lo, hi)
    PROVE  Slice(word, lo, hi) = Bits(n) /\ Num(Slice(word, lo, hi)) = n
  <1>1. /\ word \subseteq Int /\ lo \in Nat /\ width \in 1 .. 30 /\ hi = lo + width - 1
        /\ n \in Nat /\ n < Pow(width)
        /\ \A x \in lo .. hi : x \in word <=> x \in Part(n, width, lo)
    BY DEF Packed
  <1>2. \A x \in Int : x \in Part(n, width, lo) <=> x - lo \in Bits(n)
    <2>1. width \in 0 .. 30
      BY <1>1
    <2> QED
      BY <1>1, <2>1, PartIs, Zenon
  <1>3. hi \in Int /\ hi - lo \in 0 .. 29 /\ hi - lo + 1 = width
    BY <1>1
  <1>4. \A x \in lo .. hi : x \in word <=> x - lo \in Bits(n)
    BY <1>1, <1>2, <1>3
  <1>5. Place(word, lo, hi, n)
    BY <1>1, <1>3, <1>4 DEF Place
  <1> QED
    BY <1>5, NumberAt

\* A part that has room for its number stays within its place.
Within(n, width, lo, hi) ==
    lo \in Nat /\ width \in 1 .. 30 /\ hi = lo + width - 1 /\ n \in Nat /\ n < Pow(width)

LEMMA PartWithin ==
    ASSUME NEW n, NEW width, NEW lo, NEW hi, Within(n, width, lo, hi)
    PROVE  Part(n, width, lo) \subseteq lo .. hi
  <1>1. lo \in Nat /\ width \in 1 .. 30 /\ hi = lo + width - 1 /\ n \in Nat /\ n < Pow(width)
    BY DEF Within
  <1>2. Part(n, width, lo) \subseteq lo .. lo + width - 1
    <2>1. width \in 0 .. 30
      BY <1>1
    <2> QED
      BY <1>1, <2>1, PartIs, Zenon
  <1> QED
    BY <1>1, <1>2

\* What load_descriptor_values puts in the iterator, its types read from the head.
Field(head, tag, array_size, size_offset, data_offset, data_size) ==
    [ltype |-> LTypes[Num(Slice(head, 8, 11)) + 1],
     htype |-> HTypes[Num(Slice(head, 12, 13)) + 1],
     atype |-> ATypes[Num(Slice(head, 14, 15)) + 1],
     tag |-> tag, array_size |-> array_size, size_offset |-> size_offset,
     data_offset |-> data_offset, data_size |-> data_size]

\* The head says the types of f, and the numbers are those of f.
Loaded(f, head, tag, array_size, size_offset, data_offset, data_size) ==
    /\ LTypes[Num(Slice(head, 8, 11)) + 1] = f.ltype
    /\ HTypes[Num(Slice(head, 12, 13)) + 1] = f.htype
    /\ ATypes[Num(Slice(head, 14, 15)) + 1] = f.atype
    /\ tag = f.tag /\ array_size = f.array_size /\ size_offset = f.size_offset
    /\ data_offset = f.data_offset /\ data_size = f.data_size

LEMMA LoadedIs ==
    ASSUME NEW f \in Fields, NEW head, NEW t, NEW m, NEW so, NEW do, NEW ds,
           Loaded(f, head, t, m, so, do, ds)
    PROVE  Field(head, t, m, so, do, ds) = f
  <1> DEFINE lt == LTypes[Num(Slice(head, 8, 11)) + 1]
             ht == HTypes[Num(Slice(head, 12, 13)) + 1]
             at == ATypes[Num(Slice(head, 14, 15)) + 1]
  <1>1. /\ lt = f.ltype /\ ht = f.htype /\ at = f.atype /\ t = f.tag /\ m = f.array_size
        /\ so = f.size_offset /\ do = f.data_offset /\ ds = f.data_size
    BY Zenon DEF Loaded
  <1>2. Field(head, t, m, so, do, ds)
            = [ltype |-> lt, htype |-> ht, atype |-> at, tag |-> t, array_size |-> m,
               size_offset |-> so, data_offset |-> do, data_size |-> ds]
    BY Zenon DEF Field
  <1> HIDE DEF lt, ht, at
  <1> QED
    BY <1>1, <1>2 DEF Fields

LEMMA LoadOneWord ==
    ASSUME NEW words, NEW head, words[1] = head, Num(Slice(head, 0, 1)) = 0
    PROVE  load_descriptor_values(words)
              = Field(head, Num(Slice(head, 2, 7)), 1, Num(Slice(head, 24, 27)),
                      Num(Slice(head, 16, 23)), Num(Slice(head, 28, 31)))
  <1> DEFINE code == Num(Slice(words[1], 0, 1))
  <1>1. code = 0
    BY Zenon
  <1> QED
    BY <1>1 DEF load_descriptor_values, Field

LEMMA LoadTwoWords ==
    ASSUME NEW head, NEW second, Num(Slice(head, 0, 1)) = 1
    PROVE  load_descriptor_values(<<head, second>>)
              = Field(head, Num(Slice(head, 2, 7) \cup {b + 6 : b \in Slice(second, 28, 31)}),
                      Num(Slice(head, 16, 27)), Num(Slice(head, 28, 31)),
                      Num(Slice(second, 0, 15)), Num(Slice(second, 16, 27)))
  <1> DEFINE words == <<head, second>>
             code == Num(Slice(words[1], 0, 1))
  <1>1. words[1] = head /\ words[1 + 1] = second /\ 1 < Len(words)
    OBVIOUS
  <1> HIDE DEF words
  <1>2. code = 1 /\ code # 0
    BY <1>1
  <1>3. load_descriptor_values(words)
           = Field(head, Num(Slice(head, 2, 7) \cup {b + 6 : b \in Slice(second, 28, 31)}),
                   Num(Slice(head, 16, 27)), Num(Slice(head, 28, 31)),
                   Num(Slice(second, 0, 15)), Num(Slice(second, 16, 27)))
    BY <1>1, <1>2 DEF load_descriptor_values, Field
  <1> QED
    BY <1>3 DEF words

\* A head, the three words after it, and the array size in the head or a word of its own.
ManyWords(words, head, far, do, ds, m) ==
    /\ Len(words) \in Nat /\ 3 < Len(words)
    /\ words[1] = head /\ words[2] = far /\ words[3] = do /\ words[4] = ds
    /\ \/ Num(Slice(head, 0, 1)) = 2 /\ m = Num(Slice(head, 16, 31))
       \/ Num(Slice(head, 0, 1)) = 3 /\ 4 < Len(words) /\ m = Num(words[5])

LEMMA LoadManyWords ==
    ASSUME NEW words, NEW head, NEW far, NEW do, NEW ds, NEW m,
           ManyWords(words, head, far, do, ds, m)
    PROVE  load_descriptor_values(words)
              = Field(head, Num(Slice(head, 2, 7) \cup {b + 6 : b \in Slice(far, 8, 31)}),
                      m, Num(Slice(far, 0, 7)), Num(do), Num(ds))
  <1> DEFINE code == Num(Slice(words[1], 0, 1))
  <1>0. /\ Len(words) \in Nat /\ 3 < Len(words)
        /\ words[1] = head /\ words[2] = far /\ words[3] = do /\ words[4] = ds
        /\ \/ Num(Slice(head, 0, 1)) = 2 /\ m = Num(Slice(head, 16, 31))
           \/ Num(Slice(head, 0, 1)) = 3 /\ 4 < Len(words) /\ m = Num(words[5])
    BY Zenon DEF ManyWords
  <1>1. code = 2 \/ code = 3
    BY <1>0, Zenon
  <1>2. code # 0 /\ code # 1
    BY <1>1
  <1>3. /\ 1 < Len(words) /\ 2 < Len(words) /\ 3 < Len(words)
        /\ words[1 + 1] = far /\ words[2 + 1] = do /\ words[3 + 1] = ds /\ words[1] = head
    BY <1>0
  <1>4. CASE code = 2
    <2>1. m = Num(Slice(head, 16, 31))
      BY <1>0, <1>4
    <2> QED
      BY <1>2, <1>3, <1>4, <2>1 DEF load_descriptor_values, Field
  <1>5. CASE code = 3
    <2>1. 4 < Len(words) /\ m = Num(words[4 + 1]) /\ code # 2
      BY <1>0, <1>5
    <2> QED
      BY <1>2, <1>3, <2>1 DEF load_descriptor_values, Field
  <1> QED
    BY <1>1, <1>4, <1>5

LEMMA NarrowDescriptor ==
    ASSUME NEW f \in Fields, PB_FIELDINFO_ASSERT(f, 1)
    PROVE  load_descriptor_values(PB_FIELDINFO(f, 1)) = f
  <1> DEFINE a == Part(f.data_offset, 8, 16)
             b == Part(f.size_offset, 4, 24)
             c == Part(f.data_size, 4, 28)
             rest == a \cup b \cup c
             head == FieldInfoHead(f, 0) \cup rest
  <1>1. /\ f.tag \in Nat /\ f.tag < Pow(6) /\ f.data_offset \in Nat /\ f.data_offset < Pow(8)
        /\ f.size_offset \in Nat /\ f.size_offset < Pow(4)
        /\ f.data_size \in Nat /\ f.data_size < Pow(4) /\ f.array_size = 1
    BY DEF Fields, PB_FIELDINFO_ASSERT, Pow
  <1>2. PB_FIELDINFO(f, 1) = <<head>>
    <2>1. head = FieldInfoHead(f, 0) \cup a \cup b \cup c
      BY Zenon
    <2> QED
      BY <2>1 DEF PB_FIELDINFO
  <1>3. a \subseteq 16 .. 23 /\ b \subseteq 24 .. 27 /\ c \subseteq 28 .. 31
    <2>1. /\ Within(f.data_offset, 8, 16, 23) /\ Within(f.size_offset, 4, 24, 27)
          /\ Within(f.data_size, 4, 28, 31)
      BY <1>1 DEF Within
    <2> QED
      BY <2>1, PartWithin
  <1> HIDE DEF a, b, c
  <1>4. HeadOf(head, f, 0, rest)
    <2>1. rest \subseteq 16 .. 31
      BY <1>3
    <2>2. 0 \in 0 .. 3
      OBVIOUS
    <2> QED
      BY <2>1, <2>2, Zenon DEF HeadOf
  <1> HIDE DEF head
  <1>5. /\ head \subseteq 0 .. 31
        /\ Num(Slice(head, 0, 1)) = 0
        /\ Slice(head, 2, 7) = Bits(f.tag) \cap (0 .. 5)
        /\ LTypes[Num(Slice(head, 8, 11)) + 1] = f.ltype
        /\ HTypes[Num(Slice(head, 12, 13)) + 1] = f.htype
        /\ ATypes[Num(Slice(head, 14, 15)) + 1] = f.atype
        /\ \A x \in 16 .. 31 : x \in head <=> x \in rest
    BY <1>4, HeadIs
  <1>6. /\ \A x \in 16 .. 23 : x \in head <=> x \in a
        /\ \A x \in 24 .. 27 : x \in head <=> x \in b
        /\ \A x \in 28 .. 31 : x \in head <=> x \in c
    BY <1>3, <1>5
  <1>7. head \subseteq Int
    BY <1>5
  <1>8. Num(Slice(head, 16, 23)) = f.data_offset
    <2>1. Packed(head, f.data_offset, 8, 16, 23)
      BY <1>1, <1>6, <1>7 DEF Packed, a
    <2> QED
      BY <2>1, PackedBack
  <1>9. Num(Slice(head, 24, 27)) = f.size_offset
    <2>1. Packed(head, f.size_offset, 4, 24, 27)
      BY <1>1, <1>6, <1>7 DEF Packed, b
    <2> QED
      BY <2>1, PackedBack
  <1>10. Num(Slice(head, 28, 31)) = f.data_size
    <2>1. Packed(head, f.data_size, 4, 28, 31)
      BY <1>1, <1>6, <1>7 DEF Packed, c
    <2> QED
      BY <2>1, PackedBack
  <1>11. Num(Slice(head, 2, 7)) = f.tag
    <2>1. 6 \in 0 .. 30 /\ 6 - 1 = 5
      OBVIOUS
    <2>2. Num(Bits(f.tag)) = f.tag /\ Bits(f.tag) \subseteq 0 .. 5
      BY <1>1, <2>1, NumberFits
    <2>3. Bits(f.tag) \cap (0 .. 5) = Bits(f.tag)
      BY <2>2, Zenon
    <2> QED
      BY <1>5, <2>2, <2>3
  <1>12. Loaded(f, head, Num(Slice(head, 2, 7)), 1, Num(Slice(head, 24, 27)),
                Num(Slice(head, 16, 23)), Num(Slice(head, 28, 31)))
    BY <1>1, <1>5, <1>8, <1>9, <1>10, <1>11, Zenon DEF Loaded
  <1>13. <<head>>[1] = head
    OBVIOUS
  <1>14. load_descriptor_values(<<head>>)
              = Field(head, Num(Slice(head, 2, 7)), 1, Num(Slice(head, 24, 27)),
                      Num(Slice(head, 16, 23)), Num(Slice(head, 28, 31)))
    BY <1>5, <1>13, LoadOneWord, Zenon
  <1>15. Field(head, Num(Slice(head, 2, 7)), 1, Num(Slice(head, 24, 27)),
               Num(Slice(head, 16, 23)), Num(Slice(head, 28, 31))) = f
    BY <1>12, LoadedIs
  <1> QED
    BY <1>2, <1>14, <1>15

\* The tag of a two-word field: four high bits apart from its six low bits.
LEMMA TagHigh ==
    ASSUME NEW n \in Nat, n < Pow(10)
    PROVE  /\ n \div 64 \in Nat /\ n \div 64 < Pow(4)
           /\ \A i \in 0 .. 3 : i \in Bits(n \div 64) <=> i + 6 \in Bits(n)
  <1> DEFINE q == n \div 64
             Bit(m, p) == (m \div p) % 2 = 1
  <1>1. n \in 0 .. 1023
    BY PowValues
  <1>2. q \in 0 .. 15
    BY <1>1
  <1>3. \A m : \A i \in 0 .. 29 : i \in Bits(m) <=> Bit(m, Pow(i))
    BY BitsIs
  <1>4. \A i \in 0 .. 3 : i \in Bits(q) <=> i + 6 \in Bits(n)
    <2>1. /\ Bit(q, 1) <=> Bit(n, 64)
          /\ Bit(q, 2) <=> Bit(n, 128)
          /\ Bit(q, 4) <=> Bit(n, 256)
          /\ Bit(q, 8) <=> Bit(n, 512)
      BY <1>1
    <2> HIDE DEF q, Bit
    <2> TAKE i \in 0 .. 3
    <2>2. i = 0 \/ i = 1 \/ i = 2 \/ i = 3
      OBVIOUS
    <2>3. Bit(q, Pow(i)) <=> Bit(n, Pow(i + 6))
      BY <2>1, <2>2, PowValues
    <2> QED
      BY <1>3, <2>2, <2>3
  <1> QED
    BY <1>2, <1>4, PowValues

\* Six low bits and the bits above them make the tag.
LEMMA TagJoined ==
    ASSUME NEW n \in Nat, NEW width \in 7 .. 30, n < Pow(width), NEW high,
           high \subseteq 0 .. width - 7,
           \A i \in 0 .. width - 7 : i \in high <=> i + 6 \in Bits(n)
    PROVE  Num((Bits(n) \cap (0 .. 5)) \cup {b + 6 : b \in high}) = n
  <1>1. Num(Bits(n)) = n /\ Bits(n) \subseteq 0 .. width - 1
    BY NumberFits
  <1> DEFINE m == width - 7
  <1>2. m \in Nat /\ 6 \in Nat /\ m + 6 = width - 1 /\ high \subseteq 0 .. m
    OBVIOUS
  <1> HIDE DEF m
  <1>3. /\ {b + 6 : b \in high} \subseteq 6 .. m + 6
        /\ \A x \in Int : x \in {b + 6 : b \in high} <=> x - 6 \in high
    BY <1>2, ShiftUp, Zenon
  <1>4. ASSUME NEW x \in 6 .. width - 1 PROVE x \in {b + 6 : b \in high} <=> x \in Bits(n)
    <2>1. x \in Int /\ x - 6 \in 0 .. width - 7 /\ (x - 6) + 6 = x
      OBVIOUS
    <2>2. x - 6 \in high <=> x \in Bits(n)
      BY <2>1
    <2> QED
      BY <1>3, <2>1, <2>2, Zenon
  <1>5. \A x \in 0 .. width - 1 : x \in 0 .. 5 \/ x \in 6 .. width - 1
    OBVIOUS
  <1>6. (Bits(n) \cap (0 .. 5)) \cup {b + 6 : b \in high} = Bits(n)
    BY <1>1, <1>2, <1>3, <1>4, <1>5, Zenon
  <1> QED
    BY <1>1, <1>6

LEMMA WideDescriptor ==
    ASSUME NEW f \in Fields, PB_FIELDINFO_ASSERT(f, 2)
    PROVE  load_descriptor_values(PB_FIELDINFO(f, 2)) = f
  <1> DEFINE a == Part(f.array_size, 12, 16)
             b == Part(f.size_offset, 4, 28)
             c == Part(f.data_offset, 16, 0)
             d == Part(f.data_size, 12, 16)
             e == Part(f.tag \div 64, 4, 28)
             rest == a \cup b
             head == FieldInfoHead(f, 1) \cup rest
             second == c \cup d \cup e
  <1>1. /\ f.tag \in Nat /\ f.tag < Pow(10) /\ f.data_offset \in Nat /\ f.data_offset < Pow(16)
        /\ f.size_offset \in Nat /\ f.size_offset < Pow(4)
        /\ f.data_size \in Nat /\ f.data_size < Pow(12)
        /\ f.array_size \in Nat /\ f.array_size < Pow(12)
    BY DEF Fields, PB_FIELDINFO_ASSERT, Pow
  <1>2. PB_FIELDINFO(f, 2) = <<head, second>>
    <2>1. head = FieldInfoHead(f, 1) \cup a \cup b
      BY Zenon
    <2> QED
      BY <2>1 DEF PB_FIELDINFO
  <1> DEFINE q == f.tag \div 64
  <1>3. q \in Nat /\ q < Pow(4) /\ \A i \in 0 .. 3 : i \in Bits(q) <=> i + 6 \in Bits(f.tag)
    BY <1>1, TagHigh, Zenon
  <1>4. e = Part(q, 4, 28)
    OBVIOUS
  <1> HIDE DEF q, e
  <1>5. /\ a \subseteq 16 .. 27 /\ b \subseteq 28 .. 31
        /\ c \subseteq 0 .. 15 /\ d \subseteq 16 .. 27 /\ e \subseteq 28 .. 31
    <2>1. /\ Within(f.array_size, 12, 16, 27) /\ Within(f.size_offset, 4, 28, 31)
          /\ Within(f.data_offset, 16, 0, 15) /\ Within(f.data_size, 12, 16, 27)
          /\ Within(q, 4, 28, 31)
      BY <1>1, <1>3 DEF Within
    <2> QED
      BY <1>4, <2>1, PartWithin
  <1> HIDE DEF a, b, c, d
  <1>6. HeadOf(head, f, 1, rest)
    <2>1. rest \subseteq 16 .. 31
      BY <1>5
    <2>2. 1 \in 0 .. 3
      OBVIOUS
    <2> QED
      BY <2>1, <2>2, Zenon DEF HeadOf
  <1> HIDE DEF head
  <1>7. /\ head \subseteq 0 .. 31
        /\ Num(Slice(head, 0, 1)) = 1
        /\ Slice(head, 2, 7) = Bits(f.tag) \cap (0 .. 5)
        /\ LTypes[Num(Slice(head, 8, 11)) + 1] = f.ltype
        /\ HTypes[Num(Slice(head, 12, 13)) + 1] = f.htype
        /\ ATypes[Num(Slice(head, 14, 15)) + 1] = f.atype
        /\ \A x \in 16 .. 31 : x \in head <=> x \in rest
    BY <1>6, HeadIs
  <1>8. /\ \A x \in 16 .. 27 : x \in head <=> x \in a
        /\ \A x \in 28 .. 31 : x \in head <=> x \in b
    BY <1>5, <1>7
  <1>9. /\ \A x \in 0 .. 15 : x \in second <=> x \in c
        /\ \A x \in 16 .. 27 : x \in second <=> x \in d
        /\ \A x \in 28 .. 31 : x \in second <=> x \in e
    BY <1>5
  <1>10. head \subseteq Int /\ second \subseteq Int
    BY <1>5, <1>7
  <1> HIDE DEF second
  <1>11. Num(Slice(head, 16, 27)) = f.array_size
    <2>1. Packed(head, f.array_size, 12, 16, 27)
      BY <1>1, <1>8, <1>10 DEF Packed, a
    <2> QED
      BY <2>1, PackedBack
  <1>12. Num(Slice(head, 28, 31)) = f.size_offset
    <2>1. Packed(head, f.size_offset, 4, 28, 31)
      BY <1>1, <1>8, <1>10 DEF Packed, b
    <2> QED
      BY <2>1, PackedBack
  <1>13. Num(Slice(second, 0, 15)) = f.data_offset
    <2>1. Packed(second, f.data_offset, 16, 0, 15)
      BY <1>1, <1>9, <1>10 DEF Packed, c
    <2> QED
      BY <2>1, PackedBack
  <1>14. Num(Slice(second, 16, 27)) = f.data_size
    <2>1. Packed(second, f.data_size, 12, 16, 27)
      BY <1>1, <1>9, <1>10 DEF Packed, d
    <2> QED
      BY <2>1, PackedBack
  <1>15. Num(Slice(head, 2, 7) \cup {x + 6 : x \in Slice(second, 28, 31)}) = f.tag
    <2>1. Packed(second, q, 4, 28, 31)
      BY <1>3, <1>4, <1>9, <1>10 DEF Packed
    <2>2. Slice(second, 28, 31) = Bits(q)
      BY <2>1, PackedBack
    <2>3. 10 \in 7 .. 30 /\ 10 - 7 = 3 /\ 4 \in 0 .. 30 /\ 4 - 1 = 3
      OBVIOUS
    <2>4. Bits(q) \subseteq 0 .. 3
      BY <1>3, <2>3, BitsBelow
    <2>5. Num((Bits(f.tag) \cap (0 .. 5)) \cup {x + 6 : x \in Bits(q)}) = f.tag
      BY <1>1, <1>3, <2>3, <2>4, TagJoined
    <2> QED
      BY <1>7, <2>2, <2>5
  <1>16. Loaded(f, head, Num(Slice(head, 2, 7) \cup {x + 6 : x \in Slice(second, 28, 31)}),
                Num(Slice(head, 16, 27)), Num(Slice(head, 28, 31)),
                Num(Slice(second, 0, 15)), Num(Slice(second, 16, 27)))
    BY <1>7, <1>11, <1>12, <1>13, <1>14, <1>15, Zenon DEF Loaded
  <1>17. load_descriptor_values(<<head, second>>)
              = Field(head, Num(Slice(head, 2, 7) \cup {x + 6 : x \in Slice(second, 28, 31)}),
                      Num(Slice(head, 16, 27)), Num(Slice(head, 28, 31)),
                      Num(Slice(second, 0, 15)), Num(Slice(second, 16, 27)))
    BY <1>7, LoadTwoWords, Zenon
  <1>18. Field(head, Num(Slice(head, 2, 7) \cup {x + 6 : x \in Slice(second, 28, 31)}),
               Num(Slice(head, 16, 27)), Num(Slice(head, 28, 31)),
               Num(Slice(second, 0, 15)), Num(Slice(second, 16, 27))) = f
    BY <1>16, LoadedIs
  <1> QED
    BY <1>2, <1>17, <1>18

\* The second word of a four- or eight-word field: size_offset and the tag above bit 5.
Far(f) == Part(f.size_offset, 8, 0) \cup {b \in 8 .. 31 : b - 2 \in Bits(f.tag)}

LEMMA FarIs ==
    ASSUME NEW f \in Fields, f.tag < Pow(16), f.size_offset < Pow(7)
    PROVE  /\ Num(Slice(Far(f), 0, 7)) = f.size_offset
           /\ Num((Bits(f.tag) \cap (0 .. 5)) \cup {b + 6 : b \in Slice(Far(f), 8, 31)}) = f.tag
  <1> DEFINE so == f.size_offset
             tag == f.tag
             p == Part(so, 8, 0)
             top == {b \in 8 .. 31 : b - 2 \in Bits(tag)}
             far == Far(f)
             high == Slice(far, 8, 31)
  <1>1. so \in Nat /\ so < Pow(8) /\ tag \in Nat /\ tag < Pow(16)
    BY PowValues DEF Fields
  <1>2. far = p \cup top
    BY DEF Far
  <1> HIDE DEF so, tag, far
  <1>3. p \subseteq 0 .. 7
    <2>1. Within(so, 8, 0, 7)
      BY <1>1 DEF Within
    <2> QED
      BY <2>1, PartWithin
  <1> HIDE DEF p
  <1>4. far \subseteq Int
    <2>1. top \subseteq 8 .. 31
      BY Zenon
    <2> HIDE DEF top
    <2> QED
      BY <1>2, <1>3, <2>1
  <1>5. \A x \in 0 .. 7 : x \in far <=> x \in p
    BY <1>2
  <1>6. Num(Slice(far, 0, 7)) = so
    <2>1. Packed(far, so, 8, 0, 7)
      BY <1>1, <1>4, <1>5 DEF Packed, p
    <2> QED
      BY <2>1, PackedBack
  <1>7. Bits(tag) \subseteq 0 .. 15
    <2>1. 16 \in 0 .. 30 /\ 16 - 1 = 15
      OBVIOUS
    <2> QED
      BY <1>1, <2>1, BitsBelow
  <1>8. /\ high \subseteq 0 .. 31 - 8
        /\ \A x \in Int : x \in high <=> x \in 0 .. 31 - 8 /\ x + 8 \in far
    <2>1. 8 \in Int /\ 31 \in Int
      OBVIOUS
    <2> QED
      BY <1>4, <2>1, InSlice, Zenon
  <1> HIDE DEF high
  <1>9. \A x \in 0 .. 23 : x \in high <=> x + 6 \in Bits(tag)
    <2> TAKE x \in 0 .. 23
    <2>1. x \in Int /\ 31 - 8 = 23 /\ x + 8 \in 8 .. 31 /\ (x + 8) - 2 = x + 6
      OBVIOUS
    <2>2. x + 8 \notin p
      BY <1>3, <2>1
    <2>3. x \in high <=> x + 8 \in far
      BY <1>8, <2>1
    <2>4. x + 8 \in far <=> x + 8 \in top
      BY <1>2, <2>2, Zenon
    <2>5. x + 8 \in top <=> (x + 8) - 2 \in Bits(tag)
      BY <2>1, Zenon
    <2> QED
      BY <2>1, <2>3, <2>4, <2>5
  <1>10. tag < Pow(30)
    BY <1>1, PowValues
  <1>11. Num((Bits(tag) \cap (0 .. 5)) \cup {b + 6 : b \in high}) = tag
    <2>1. 30 \in 7 .. 30 /\ 30 - 7 = 23 /\ 31 - 8 = 23
      OBVIOUS
    <2> QED
      BY <1>1, <1>8, <1>9, <1>10, <2>1, TagJoined
  <1> QED
    BY <1>6, <1>11 DEF so, tag, far, high

LEMMA NumbersFit ==
    ASSUME NEW f \in Fields, NEW width \in {4, 8}, PB_FIELDINFO_ASSERT(f, width)
    PROVE  /\ f.tag < Pow(16) /\ f.size_offset < Pow(7)
           /\ Num(Bits(f.data_offset)) = f.data_offset
           /\ Num(Bits(f.data_size)) = f.data_size
           /\ Num(Bits(f.array_size)) = f.array_size
           /\ f.array_size \in Nat /\ f.array_size < Pow(16)
  <1>1. width # 1 /\ width # 2
    OBVIOUS
  <1>2. /\ f.tag < Pow(16) /\ f.data_offset < Pow(16) /\ f.size_offset < Pow(7)
        /\ f.data_size < Pow(16) /\ f.array_size < Pow(16)
    BY <1>1 DEF PB_FIELDINFO_ASSERT, Pow
  <1>3. f.data_offset \in Nat /\ f.data_size \in Nat /\ f.array_size \in Nat
    BY DEF Fields
  <1>4. 16 \in 0 .. 30
    OBVIOUS
  <1> QED
    BY <1>2, <1>3, <1>4, NumberFits

LEMMA FourWordDescriptor ==
    ASSUME NEW f \in Fields, PB_FIELDINFO_ASSERT(f, 4)
    PROVE  load_descriptor_values(PB_FIELDINFO(f, 4)) = f
  <1> DEFINE rest == Part(f.array_size, 16, 16)
             head == FieldInfoHead(f, 2) \cup rest
             far == Far(f)
             do == Bits(f.data_offset)
             ds == Bits(f.data_size)
             words == <<head, far, do, ds>>
  <1>1. /\ f.tag < Pow(16) /\ f.size_offset < Pow(7)
        /\ Num(do) = f.data_offset /\ Num(ds) = f.data_size
        /\ f.array_size \in Nat /\ f.array_size < Pow(16)
    <2>1. 4 \in {4, 8}
      OBVIOUS
    <2> QED
      BY <2>1, NumbersFit
  <1>2. PB_FIELDINFO(f, 4) = words
    BY DEF PB_FIELDINFO, Far
  <1>3. rest \subseteq 16 .. 31
    <2>1. Within(f.array_size, 16, 16, 31)
      BY <1>1 DEF Within
    <2> QED
      BY <2>1, PartWithin
  <1> HIDE DEF rest
  <1>4. HeadOf(head, f, 2, rest)
    <2>1. 2 \in 0 .. 3
      OBVIOUS
    <2> QED
      BY <1>3, <2>1, Zenon DEF HeadOf
  <1>5. /\ words[1] = head /\ words[2] = far /\ words[3] = do /\ words[4] = ds
        /\ Len(words) \in Nat /\ 3 < Len(words)
    OBVIOUS
  <1> HIDE DEF head, words, far, do, ds
  <1>6. /\ head \subseteq 0 .. 31
        /\ Num(Slice(head, 0, 1)) = 2
        /\ Slice(head, 2, 7) = Bits(f.tag) \cap (0 .. 5)
        /\ LTypes[Num(Slice(head, 8, 11)) + 1] = f.ltype
        /\ HTypes[Num(Slice(head, 12, 13)) + 1] = f.htype
        /\ ATypes[Num(Slice(head, 14, 15)) + 1] = f.atype
        /\ \A x \in 16 .. 31 : x \in head <=> x \in rest
    BY <1>4, HeadIs
  <1>7. Num(Slice(head, 16, 31)) = f.array_size
    <2>1. Packed(head, f.array_size, 16, 16, 31)
      BY <1>1, <1>6 DEF Packed, rest
    <2> QED
      BY <2>1, PackedBack
  <1>8. /\ Num(Slice(far, 0, 7)) = f.size_offset
        /\ Num(Slice(head, 2, 7) \cup {b + 6 : b \in Slice(far, 8, 31)}) = f.tag
    BY <1>1, <1>6, FarIs DEF far
  <1>9. Loaded(f, head, Num(Slice(head, 2, 7) \cup {b + 6 : b \in Slice(far, 8, 31)}),
               Num(Slice(head, 16, 31)), Num(Slice(far, 0, 7)), Num(do), Num(ds))
    BY <1>1, <1>6, <1>7, <1>8, Zenon DEF Loaded
  <1>10. load_descriptor_values(words)
            = Field(head, Num(Slice(head, 2, 7) \cup {b + 6 : b \in Slice(far, 8, 31)}),
                    Num(Slice(head, 16, 31)), Num(Slice(far, 0, 7)), Num(do), Num(ds))
    <2>1. ManyWords(words, head, far, do, ds, Num(Slice(head, 16, 31)))
      BY <1>5, <1>6, Zenon DEF ManyWords
    <2> QED
      BY <2>1, LoadManyWords
  <1>11. Field(head, Num(Slice(head, 2, 7) \cup {b + 6 : b \in Slice(far, 8, 31)}),
               Num(Slice(head, 16, 31)), Num(Slice(far, 0, 7)), Num(do), Num(ds)) = f
    BY <1>9, LoadedIs
  <1> QED
    BY <1>2, <1>10, <1>11

LEMMA EightWordDescriptor ==
    ASSUME NEW f \in Fields, PB_FIELDINFO_ASSERT(f, 8)
    PROVE  load_descriptor_values(PB_FIELDINFO(f, 8)) = f
  <1> DEFINE head == FieldInfoHead(f, 3)
             far == Far(f)
             do == Bits(f.data_offset)
             ds == Bits(f.data_size)
             m == Bits(f.array_size)
             words == <<head, far, do, ds, m, {}, {}, {}>>
  <1>1. /\ f.tag < Pow(16) /\ f.size_offset < Pow(7)
        /\ Num(do) = f.data_offset /\ Num(ds) = f.data_size /\ Num(m) = f.array_size
    <2>1. 8 \in {4, 8}
      OBVIOUS
    <2> QED
      BY <2>1, NumbersFit
  <1>2. PB_FIELDINFO(f, 8) = words
    BY DEF PB_FIELDINFO, Far
  <1>3. HeadOf(head, f, 3, {})
    <2>1. 3 \in 0 .. 3 /\ {} \subseteq 16 .. 31
      OBVIOUS
    <2> QED
      BY <2>1, Zenon DEF HeadOf
  <1>4. /\ words[1] = head /\ words[2] = far /\ words[3] = do /\ words[4] = ds /\ words[5] = m
        /\ Len(words) \in Nat /\ 3 < Len(words) /\ 4 < Len(words)
    OBVIOUS
  <1> HIDE DEF head, words, far, do, ds, m
  <1>5. /\ Num(Slice(head, 0, 1)) = 3
        /\ Slice(head, 2, 7) = Bits(f.tag) \cap (0 .. 5)
        /\ LTypes[Num(Slice(head, 8, 11)) + 1] = f.ltype
        /\ HTypes[Num(Slice(head, 12, 13)) + 1] = f.htype
        /\ ATypes[Num(Slice(head, 14, 15)) + 1] = f.atype
    BY <1>3, HeadIs
  <1>6. /\ Num(Slice(far, 0, 7)) = f.size_offset
        /\ Num(Slice(head, 2, 7) \cup {b + 6 : b \in Slice(far, 8, 31)}) = f.tag
    BY <1>1, <1>5, FarIs DEF far
  <1>7. Loaded(f, head, Num(Slice(head, 2, 7) \cup {b + 6 : b \in Slice(far, 8, 31)}),
               Num(m), Num(Slice(far, 0, 7)), Num(do), Num(ds))
    BY <1>1, <1>5, <1>6, Zenon DEF Loaded
  <1>8. load_descriptor_values(words)
            = Field(head, Num(Slice(head, 2, 7) \cup {b + 6 : b \in Slice(far, 8, 31)}),
                    Num(m), Num(Slice(far, 0, 7)), Num(do), Num(ds))
    <2>1. ManyWords(words, head, far, do, ds, Num(m))
      BY <1>4, <1>5, Zenon DEF ManyWords
    <2> QED
      BY <2>1, LoadManyWords
  <1>9. Field(head, Num(Slice(head, 2, 7) \cup {b + 6 : b \in Slice(far, 8, 31)}),
              Num(m), Num(Slice(far, 0, 7)), Num(do), Num(ds)) = f
    BY <1>7, LoadedIs
  <1> QED
    BY <1>2, <1>8, <1>9

\* Whatever the width a field is packed in, if the static assertions of its width
\* hold, load_descriptor_values gets out of the words every number and every type that
\* PB_FIELDINFO put in: no part overlaps another, loses a bit or is read elsewhere.
THEOREM DescriptorReadBack ==
    ASSUME NEW f \in Fields, NEW width \in {1, 2, 4, 8}, PB_FIELDINFO_ASSERT(f, width)
    PROVE  load_descriptor_values(PB_FIELDINFO(f, width)) = f
  BY NarrowDescriptor, WideDescriptor, FourWordDescriptor, EightWordDescriptor

-----------------------------------------------------------------------------
(* Finding a field *)

\* The function of pb_field_iter_find, as an equation: where the iterator is after k steps.
Steps(desc, from, s) ==
    s = [k \in 1 .. Len(desc.fields) |-> IF k = 1 THEN advance_iterator(desc, from)
                                         ELSE advance_iterator(desc, s[k - 1])]

\* Forward from "from" of n fields, wrapping once.
Around(n, from) == [k \in 1 .. n |-> IF from + k <= n THEN from + k ELSE from + k - n]

LEMMA StepsUnique ==
    ASSUME NEW desc, Len(desc.fields) \in Nat, NEW from, NEW s, NEW t,
           Steps(desc, from, s), Steps(desc, from, t)
    PROVE  s = t
  <1> DEFINE n == Len(desc.fields)
             Bad == {k \in 1 .. n : s[k] # t[k]}
  <1> HIDE DEF n
  <1>0. n \in Nat
    BY DEF n
  <1>1. /\ s = [k \in 1 .. n |-> s[k]] /\ t = [k \in 1 .. n |-> t[k]]
        /\ \A k \in 1 .. n : k = 1 => s[k] = t[k]
        /\ \A k \in 1 .. n : k # 1 => /\ s[k] = advance_iterator(desc, s[k - 1])
                                      /\ t[k] = advance_iterator(desc, t[k - 1])
    BY DEF Steps, n
  <1>2. Bad = {}
    <2>1. SUFFICES ASSUME Bad # {} PROVE FALSE
      OBVIOUS
    <2>2. PICK k \in Bad : \A m \in Bad : k <= m
      <3>1. Bad \subseteq Nat
        BY <1>0
      <3> QED
        BY <2>1, <3>1, LeastIn, Zenon
    <2>3. k # 1 /\ k - 1 \in 1 .. n
      BY <1>0, <1>1, <2>2
    <2>4. s[k - 1] = t[k - 1]
      BY <1>0, <2>2, <2>3
    <2> QED
      BY <1>1, <2>2, <2>3, <2>4
  <1> QED
    BY <1>1, <1>2

LEMMA StepsAround ==
    ASSUME NEW desc, Len(desc.fields) \in Nat, NEW from \in 1 .. Len(desc.fields)
    PROVE  Steps(desc, from, Around(Len(desc.fields), from))
  <1> DEFINE n == Len(desc.fields)
             s == Around(n, from)
  <1>1. ASSUME NEW k \in 1 .. n
        PROVE  s[k] = IF k = 1 THEN advance_iterator(desc, from)
                      ELSE advance_iterator(desc, s[k - 1])
    <2>1. \A x : advance_iterator(desc, x) = IF x >= n THEN 1 ELSE x + 1
      BY DEF advance_iterator
    <2>2. \A x \in 1 .. n : s[x] = IF from + x <= n THEN from + x ELSE from + x - n
      BY DEF Around
    <2>3. n \in Nat /\ from \in 1 .. n
      OBVIOUS
    <2> HIDE DEF n, s
    <2>4. CASE k = 1
      <3>1. s[1] = IF from >= n THEN 1 ELSE from + 1
        BY <2>2, <2>3, <2>4
      <3> QED
        BY <2>1, <2>4, <3>1
    <2>5. CASE k # 1
      <3> DEFINE p == k - 1
      <3>1. p \in 1 .. n /\ k = p + 1
        BY <2>3, <2>5
      <3> HIDE DEF p
      <3>2. s[k] = IF s[p] >= n THEN 1 ELSE s[p] + 1
        BY <2>2, <2>3, <3>1
      <3>3. s[k] = advance_iterator(desc, s[p])
        BY <2>1, <3>2, Zenon
      <3> QED
        BY <2>5, <3>3 DEF p
    <2> QED
      BY <2>4, <2>5
  <1>2. s = [k \in 1 .. n |-> s[k]]
    BY DEF Around
  <1> HIDE DEF s
  <1>3. Steps(desc, from, s)
    BY <1>1, <1>2 DEF Steps
  <1> QED
    BY <1>3 DEF s

LEMMA MinIs ==
    ASSUME NEW S, S \subseteq Nat, NEW m \in S, \A x \in S : m <= x
    PROVE  Min(S) = m
  <1>1. \A x \in S : (\A y \in S : x <= y) => x = m
    OBVIOUS
  <1> QED
    BY <1>1 DEF Min

\* Fields in the order of their tags, as the generator lists them.
InTagOrder(desc) ==
    /\ Len(desc.fields) \in Nat
    /\ \A j \in 1 .. Len(desc.fields) : desc.fields[j].tag \in Nat
    /\ \A j, k \in 1 .. Len(desc.fields) : j < k => desc.fields[j].tag < desc.fields[k].tag

\* From wherever the iterator stands, pb_field_iter_find goes to the field of the tag,
\* and finds nothing only if no field has it: a tag below the one it stands on is looked
\* for from the first field on and no further than where it stood, any other one all the
\* way around, which is enough because the fields are in the order of their tags.
THEOREM FieldFound ==
    ASSUME NEW desc, InTagOrder(desc), NEW i \in 1 .. Len(desc.fields), NEW tag \in Nat
    PROVE  /\ \A j \in 1 .. Len(desc.fields) :
                 desc.fields[j].tag = tag /\ desc.fields[j].ltype # "EXTENSION"
                    => pb_field_iter_find(desc, i, tag) = j
           /\ (\A j \in 1 .. Len(desc.fields) : desc.fields[j].tag # tag)
                 => pb_field_iter_find(desc, i, tag) = 0
  <1> DEFINE n == Len(desc.fields)
             T(j) == desc.fields[j].tag
             Ext(j) == desc.fields[j].ltype = "EXTENSION"
             from == IF tag < T(i) THEN n ELSE i
             Body(s) == [k \in 1 .. n |-> IF k = 1 THEN advance_iterator(desc, from)
                                          ELSE advance_iterator(desc, s[k - 1])]
             step == CHOOSE s : s = Body(s)
             back == Min({k \in 1 .. n : step[k] = i})
             hits == {k \in 1 .. back : T(step[k]) = tag /\ ~Ext(step[k])}
             found == pb_field_iter_find(desc, i, tag)
  <1>1. n \in Nat /\ i \in 1 .. n /\ n # 0
    BY DEF InTagOrder
  <1>2. /\ \A j \in 1 .. n : T(j) \in Nat
        /\ \A j, k \in 1 .. n : j < k => T(j) < T(k)
    BY DEF InTagOrder
  <1>3. found = IF n = 0 THEN 0
                ELSE IF T(i) = tag THEN i
                ELSE IF tag > LargestTag(desc) \/ hits = {} THEN 0
                ELSE step[Min(hits)]
    BY DEF pb_field_iter_find
  <1>4. LargestTag(desc) = T(n)
    <2>1. desc.fields # <<>>
      BY <1>1
    <2> QED
      BY <2>1 DEF LargestTag, Last
  <1>5. from \in 1 .. n
    BY <1>1
  <1>6. step = Around(n, from)
    <2>1. Steps(desc, from, Around(n, from))
      BY <1>1, <1>5, StepsAround
    <2>2. step = Body(step)
      BY <2>1 DEF Steps
    <2>3. Steps(desc, from, step)
      BY <2>2 DEF Steps
    <2> HIDE DEF step, from
    <2> QED
      BY <1>1, <2>1, <2>3, StepsUnique
  <1>7. from = IF tag < T(i) THEN n ELSE i
    OBVIOUS
  <1> HIDE DEF step, found, n, from, T, Ext
  <1>8. \A k \in 1 .. n : step[k] = IF from + k <= n THEN from + k ELSE from + k - n
    BY <1>6 DEF Around
  <1>9. back = IF tag < T(i) THEN i ELSE n
    <2> DEFINE S == {k \in 1 .. n : step[k] = i}
    <2>1. CASE tag < T(i)
      <3>1. \A k \in 1 .. n : step[k] = k
        BY <1>1, <1>7, <1>8, <2>1
      <3>2. i \in S /\ S \subseteq Nat /\ \A x \in S : i <= x
        BY <1>1, <3>1
      <3> QED
        BY <2>1, <3>2, MinIs
    <2>2. CASE ~(tag < T(i))
      <3>1. step[n] = i /\ \A k \in 1 .. n : k # n => step[k] # i
        BY <1>1, <1>7, <1>8, <2>2
      <3>2. n \in S /\ S \subseteq Nat /\ \A x \in S : n <= x
        BY <1>1, <3>1
      <3> QED
        BY <2>2, <3>2, MinIs
    <2> QED
      BY <2>1, <2>2
  <1> HIDE DEF back
  <1>10. ASSUME NEW j \in 1 .. n, T(j) = tag, ~Ext(j) PROVE found = j
    <2>1. CASE i = j
      BY <1>1, <1>3, <1>10, <2>1
    <2>2. CASE i # j
      <3>1. T(i) # tag /\ (tag < T(i) <=> j < i)
        BY <1>1, <1>2, <1>10, <2>2
      <3>2. tag <= T(n)
        <4>1. j = n \/ j < n
          BY <1>1
        <4> QED
          BY <1>1, <1>2, <1>10, <4>1
      <3>3. PICK k \in 1 .. back : k \in 1 .. n /\ step[k] = j
        <4>1. CASE j < i
          <5>1. back = i /\ j \in 1 .. back /\ step[j] = j
            BY <1>1, <1>7, <1>9, <1>8, <3>1, <4>1
          <5> QED
            BY <5>1
        <4>2. CASE i < j
          <5>1. back = n /\ from = i /\ j - i \in 1 .. n /\ i + (j - i) = j
            BY <1>1, <1>7, <1>9, <3>1, <4>2
          <5>2. step[j - i] = j
            BY <1>1, <1>8, <5>1
          <5> QED
            BY <5>1, <5>2
        <4> QED
          BY <1>1, <2>2, <4>1, <4>2
      <3>4. back \in 1 .. n
        BY <1>1, <1>9
      <3>5. \A m \in 1 .. back : step[m] = j => m = k
        BY <1>1, <1>5, <1>8, <3>3, <3>4
      <3>6. \A m \in 1 .. back : step[m] \in 1 .. n
        BY <1>1, <1>5, <1>8, <3>4
      <3>7. \A m \in 1 .. n : T(m) = tag => m = j
        BY <1>1, <1>2, <1>10
      <3>8. hits = {k}
        BY <1>10, <3>3, <3>5, <3>6, <3>7
      <3>9. Min(hits) = k
        <4>1. k \in Nat /\ {k} \subseteq Nat /\ k \in {k} /\ \A x \in {k} : k <= x
          OBVIOUS
        <4> QED
          BY <3>8, <4>1, MinIs
      <3>10. ~(tag > T(n)) /\ hits # {}
        BY <1>1, <1>2, <3>2, <3>8
      <3> HIDE DEF hits
      <3> QED
        BY <1>1, <1>3, <1>4, <3>1, <3>3, <3>9, <3>10
    <2> QED
      BY <2>1, <2>2
  <1>11. ASSUME \A j \in 1 .. n : T(j) # tag PROVE found = 0
    <2>1. back \in 1 .. n
      BY <1>1, <1>9
    <2>2. \A m \in 1 .. back : step[m] \in 1 .. n
      BY <1>1, <1>5, <1>8, <2>1
    <2>3. hits = {} /\ T(i) # tag
      BY <1>1, <1>11, <2>2
    <2> HIDE DEF hits
    <2> QED
      BY <1>1, <1>3, <2>3
  <1> QED
    BY <1>10, <1>11 DEF found, n, T, Ext
=============================================================================
