------------------------- MODULE CpAveragingProofs --------------------------
(***************************************************************************)
(* The averaged control pilot for every size of the rings and every set of *)
(* levels a car may show: the signal settles within one round of the ring. *)
(***************************************************************************)
EXTENDS CpAveraging, FiniteSetTheorems, TLAPS

(* Sums over a set of slots.  FoldFunction adds in an order of its own; the *)
(* lemmas below give its recursion equation and make the order irrelevant.  *)

Sum(f, S) == FoldFunctionOnSet(+, 0, f, S)

\* The element the fold takes first.
First(S) == CHOOSE x \in S : TRUE

LEMMA FirstIn == \A S : S # {} => First(S) \in S
  BY DEF First

\* Induction over the subsets of a finite set: the least counterexample.
LEMMA LeastSubset ==
    ASSUME NEW S, IsFiniteSet(S), NEW T \in SUBSET (SUBSET S), T # {}
    PROVE  \E least \in T : \A t \in T : t \subseteq least => t = least
  <1>1. IsWellFoundedOn(StrictSubsetOrdering(S), FiniteSubsetsOf(S))
    BY FS_StrictSubsetOrderingWellFounded
  <1>2. FiniteSubsetsOf(S) = SUBSET S
    BY FS_FiniteSubsetsOfFinite
  <1>3. \E least \in T : \A t \in T : <<t, least>> \notin StrictSubsetOrdering(S)
    BY <1>1, <1>2, WFMin
  <1> QED
    BY <1>3 DEF StrictSubsetOrdering

\* g is what the fold computes for f on all subsets of S.
Folds(g, f, S) ==
    /\ g \in [SUBSET S -> Int]
    /\ g[{}] = 0
    /\ \A T \in SUBSET S : T # {} => g[T] = f[First(T)] + g[T \ {First(T)}]

\* Two such functions agree.
LEMMA FoldsUnique ==
    ASSUME NEW S, IsFiniteSet(S), NEW f, NEW T \in SUBSET S, NEW U \in SUBSET S,
           NEW g, NEW h, Folds(g, f, T), Folds(h, f, U)
    PROVE  \A V \in SUBSET S : V \subseteq T /\ V \subseteq U => g[V] = h[V]
  <1> DEFINE Bad == {V \in SUBSET S : V \subseteq T /\ V \subseteq U /\ g[V] # h[V]}
  <1>1. SUFFICES ASSUME Bad # {} PROVE FALSE
    OBVIOUS
  <1>2. PICK V \in Bad : \A W \in Bad : W \subseteq V => W = V
    <2>1. Bad \in SUBSET (SUBSET S)
      OBVIOUS
    <2> HIDE DEF Bad
    <2> QED
      BY <1>1, <2>1, LeastSubset
  <1>3. V # {}
    BY <1>2 DEF Folds
  <1>4. First(V) \in V
    BY <1>3, FirstIn
  <1>5. g[V \ {First(V)}] = h[V \ {First(V)}]
    BY <1>2, <1>4
  <1>6. /\ g[V] = f[First(V)] + g[V \ {First(V)}]
        /\ h[V] = f[First(V)] + h[V \ {First(V)}]
    BY <1>2, <1>3 DEF Folds
  <1> QED
    BY <1>2, <1>5, <1>6

\* There is one for every finite set.
LEMMA FoldsExists ==
    ASSUME NEW S, IsFiniteSet(S), NEW f \in [S -> Int], NEW T \in SUBSET S
    PROVE  \E g : Folds(g, f, T)
  <1> DEFINE Bad == {U \in SUBSET S : ~\E g : Folds(g, f, U)}
  <1>1. SUFFICES ASSUME Bad # {} PROVE FALSE
    OBVIOUS
  <1>2. PICK U \in Bad : \A V \in Bad : V \subseteq U => V = U
    <2>1. Bad \in SUBSET (SUBSET S)
      OBVIOUS
    <2> HIDE DEF Bad
    <2> QED
      BY <1>1, <2>1, LeastSubset
  <1> DEFINE Of(V) == CHOOSE g : Folds(g, f, V)
             rest == U \ {First(U)}
             h == [V \in SUBSET U |-> IF V # U THEN Of(V)[V]
                                      ELSE IF U = {} THEN 0 ELSE f[First(U)] + Of(rest)[rest]]
  <1>3. \A V \in SUBSET U : V # U => Folds(Of(V), f, V)
    BY <1>2
  <1>4. \A V \in SUBSET U : V # {} => /\ First(V) \in V /\ f[First(V)] \in Int
                                      /\ V \ {First(V)} \in SUBSET U /\ V \ {First(V)} # U
    BY <1>2, FirstIn
  <1> HIDE DEF Of
  <1>5. \A V \in SUBSET U : V # U => Of(V)[V] \in Int
    BY <1>3 DEF Folds
  <1>6. h \in [SUBSET U -> Int]
    BY <1>4, <1>5
  <1>7. h[{}] = 0
    BY <1>3 DEF Folds
  <1>8. ASSUME NEW V \in SUBSET U, V # {}
        PROVE  h[V] = f[First(V)] + h[V \ {First(V)}]
    <2> DEFINE c == First(V)
    <2>1. h[V \ {c}] = Of(V \ {c})[V \ {c}]
      BY <1>4, <1>8
    <2>2. CASE V = U
      BY <2>1, <2>2, <1>8
    <2>3. CASE V # U
      <3>1. Folds(Of(V), f, V) /\ Folds(Of(V \ {c}), f, V \ {c})
        BY <1>3, <1>4, <1>8, <2>3
      <3>2. Of(V)[V] = f[c] + Of(V)[V \ {c}]
        BY <3>1, <1>8 DEF Folds
      <3>3. Of(V)[V \ {c}] = Of(V \ {c})[V \ {c}]
        BY <3>1, <1>2, <1>8, FoldsUnique
      <3> QED
        BY <2>1, <2>3, <3>2, <3>3
    <2> QED
      BY <2>2, <2>3
  <1>9. Folds(h, f, U)
    BY <1>6, <1>7, <1>8 DEF Folds
  <1> QED
    BY <1>2, <1>9

\* The sum is the function at the whole set.
LEMMA SumFolds ==
    ASSUME NEW S, IsFiniteSet(S), NEW f \in [S -> Int], NEW T \in SUBSET S,
           NEW g, Folds(g, f, T)
    PROVE  Sum(f, T) = g[T]
  <1> DEFINE Body(h) == [V \in SUBSET T |-> IF V = {} THEN 0
                                            ELSE f[First(V)] + h[V \ {First(V)}]]
             iter == CHOOSE h : h = Body(h)
  <1>1. Sum(f, T) = iter[T]
    BY DEF Sum, FoldFunctionOnSet, MapThenFoldSet, First
  <1>2. g = Body(g)
    BY DEF Folds
  <1>3. iter = Body(iter)
    BY <1>2
  <1> HIDE DEF iter
  <1>4. IsFiniteSet(T)
    BY FS_Subset
  <1> DEFINE Bad == {V \in SUBSET T : iter[V] # g[V]}
  <1>5. SUFFICES ASSUME Bad # {} PROVE FALSE
    BY <1>1
  <1>6. PICK V \in Bad : \A W \in Bad : W \subseteq V => W = V
    <2>1. Bad \in SUBSET (SUBSET T)
      OBVIOUS
    <2> HIDE DEF Bad
    <2> QED
      BY <1>4, <1>5, <2>1, LeastSubset
  <1>7. V # {} => First(V) \in V
    BY FirstIn
  <1>8. V # {} => iter[V \ {First(V)}] = g[V \ {First(V)}]
    BY <1>6, <1>7
  <1>9. /\ V = {} => iter[V] = 0 /\ g[V] = 0
        /\ V # {} => /\ iter[V] = f[First(V)] + iter[V \ {First(V)}]
                     /\ g[V] = f[First(V)] + g[V \ {First(V)}]
    BY <1>2, <1>3, <1>6
  <1> QED
    BY <1>6, <1>8, <1>9

\* The sum over T is that over the rest and the element taken out.
TakesOut(f, T, x) == x \in T /\ Sum(f, T) = f[x] + Sum(f, T \ {x})

\* The recursion equation of the sum.
LEMMA SumStep ==
    ASSUME NEW S, IsFiniteSet(S), NEW f \in [S -> Int], NEW T \in SUBSET S
    PROVE  /\ Sum(f, T) \in Int
           /\ T = {} => Sum(f, T) = 0
           /\ T # {} => TakesOut(f, T, First(T))
  <1>1. PICK g : Folds(g, f, T)
    BY FoldsExists
  <1>2. Sum(f, T) = g[T]
    BY <1>1, SumFolds
  <1>3. Sum(f, T) \in Int
    BY <1>1, <1>2 DEF Folds
  <1>4. T = {} => Sum(f, T) = 0
    BY <1>1, <1>2 DEF Folds
  <1>5. ASSUME T # {}
        PROVE  TakesOut(f, T, First(T))
    <2> DEFINE rest == T \ {First(T)}
    <2>1. First(T) \in T /\ g[T] = f[First(T)] + g[rest]
      BY <1>1, <1>5, FirstIn DEF Folds
    <2>2. PICK h : Folds(h, f, rest)
      BY FoldsExists
    <2>3. Sum(f, rest) = h[rest]
      BY <2>2, SumFolds
    <2>4. h[rest] = g[rest]
      <3>1. rest \in SUBSET S /\ rest \subseteq T
        OBVIOUS
      <3> HIDE DEF rest
      <3> QED
        BY <1>1, <2>2, <3>1, FoldsUnique
    <2> QED
      BY <1>2, <2>1, <2>3, <2>4 DEF TakesOut
  <1> QED
    BY <1>3, <1>4, <1>5

\* Any element may be taken out first.
LEMMA SumTakeOut ==
    ASSUME NEW S, IsFiniteSet(S), NEW f \in [S -> Int], NEW T \in SUBSET S
    PROVE  \A x \in T : TakesOut(f, T, x)
  <1> DEFINE Bad == {U \in SUBSET S : \E x \in U : Sum(f, U) # f[x] + Sum(f, U \ {x})}
  <1>1. SUFFICES ASSUME Bad # {} PROVE FALSE
    BY DEF TakesOut
  <1>2. PICK U \in Bad : \A V \in Bad : V \subseteq U => V = U
    <2>1. Bad \in SUBSET (SUBSET S)
      OBVIOUS
    <2> HIDE DEF Bad
    <2> QED
      BY <1>1, <2>1, LeastSubset
  <1>3. PICK x \in U : Sum(f, U) # f[x] + Sum(f, U \ {x})
    BY <1>2
  <1> DEFINE c == First(U)
  <1>4. c \in U /\ Sum(f, U) = f[c] + Sum(f, U \ {c})
    BY <1>2, <1>3, SumStep DEF TakesOut
  <1>5. x # c
    BY <1>3, <1>4
  <1> HIDE DEF c
  <1>6. U \ {c} \notin Bad /\ U \ {x} \notin Bad
    BY <1>2, <1>3, <1>4
  <1>7. Sum(f, U \ {c}) = f[x] + Sum(f, (U \ {c}) \ {x})
    BY <1>2, <1>3, <1>5, <1>6
  <1>8. Sum(f, U \ {x}) = f[c] + Sum(f, (U \ {x}) \ {c})
    BY <1>2, <1>4, <1>5, <1>6
  <1>9. Sum(f, (U \ {c}) \ {x}) = Sum(f, (U \ {x}) \ {c})
    <2>1. (U \ {c}) \ {x} = (U \ {x}) \ {c}
      OBVIOUS
    <2> QED
      BY <2>1
  <1>10. f[x] \in Int /\ f[c] \in Int /\ Sum(f, (U \ {x}) \ {c}) \in Int
    BY <1>2, <1>4, SumStep
  <1> DEFINE left == Sum(f, (U \ {x}) \ {c})
  <1>11. Sum(f, U) = f[c] + (f[x] + left) /\ f[x] + Sum(f, U \ {x}) = f[x] + (f[c] + left)
    BY <1>4, <1>7, <1>8, <1>9
  <1>12. left \in Int
    BY <1>10
  <1> HIDE DEF left
  <1>13. f[c] + (f[x] + left) = f[x] + (f[c] + left)
    BY <1>10, <1>12
  <1> QED
    BY <1>3, <1>11, <1>13

\* A sum of values between two bounds.
Between(f, T, a, b) == \A x \in T : a <= f[x] /\ f[x] <= b

LEMMA SumBounds ==
    ASSUME NEW S, IsFiniteSet(S), NEW f \in [S -> Int], NEW T \in SUBSET S,
           NEW a \in Int, NEW b \in Int, Between(f, T, a, b)
    PROVE  Cardinality(T) * a <= Sum(f, T) /\ Sum(f, T) <= Cardinality(T) * b
  <1> DEFINE Within(U) == Cardinality(U) * a <= Sum(f, U) /\ Sum(f, U) <= Cardinality(U) * b
             Bad == {U \in SUBSET S : U \subseteq T /\ ~Within(U)}
  <1>1. SUFFICES ASSUME Bad # {} PROVE FALSE
    OBVIOUS
  <1>2. PICK U \in Bad : \A V \in Bad : V \subseteq U => V = U
    <2>1. Bad \in SUBSET (SUBSET S)
      OBVIOUS
    <2> HIDE DEF Bad
    <2> QED
      BY <1>1, <2>1, LeastSubset
  <1> DEFINE c == First(U)
             rest == U \ {c}
  <1>3. U # {}
    <2>1. SUFFICES ASSUME U = {} PROVE FALSE
      OBVIOUS
    <2>2. Sum(f, U) = 0 /\ Cardinality(U) = 0
      BY <2>1, SumStep, FS_EmptySet
    <2>3. 0 * a = 0 /\ 0 * b = 0
      OBVIOUS
    <2> QED
      BY <1>2, <2>2, <2>3
  <1>4. c \in U /\ Sum(f, U) = f[c] + Sum(f, rest)
    <2>1. TakesOut(f, U, c)
      BY <1>2, <1>3, SumStep
    <2> QED
      BY <2>1 DEF TakesOut
  <1> HIDE DEF c
  <1>5. Within(rest) /\ rest \in SUBSET S
    BY <1>2, <1>4
  <1>6. IsFiniteSet(U)
    BY <1>2, FS_Subset
  <1>7. Cardinality(rest) = Cardinality(U) - 1 /\ Cardinality(U) \in Int
    BY <1>4, <1>6, FS_RemoveElement, FS_CardinalityType
  <1>8. f[c] \in Int /\ a <= f[c] /\ f[c] <= b /\ Sum(f, rest) \in Int
    <2>1. f[c] \in Int /\ a <= f[c] /\ f[c] <= b
      BY <1>2, <1>4 DEF Between
    <2>2. Sum(f, rest) \in Int
      BY <1>5, SumStep
    <2> QED
      BY <2>1, <2>2
  <1>9. /\ Cardinality(rest) * a = Cardinality(U) * a - a
        /\ Cardinality(rest) * b = Cardinality(U) * b - b
    BY <1>7
  <1>10. Cardinality(U) * a \in Int /\ Cardinality(U) * b \in Int
    BY <1>7
  <1>11. Within(U)
    BY <1>4, <1>5, <1>8, <1>9, <1>10
  <1> QED
    BY <1>2, <1>11

-----------------------------------------------------------------------------
(* The average of a ring. *)

LEMMA SlotsFinite ==
    /\ SampleSize \in Nat \ {0} /\ IsFiniteSet(Slots) /\ Cardinality(Slots) = SampleSize
    /\ Slots \subseteq Nat
  <1>1. SampleSize \in Nat \ {0}
    BY AveragingAssumption
  <1>2. IsFiniteSet(0 .. SampleSize - 1) /\ Cardinality(0 .. SampleSize - 1) = SampleSize
    <2>1. 0 \in Int /\ SampleSize - 1 \in Int /\ ~(0 > SampleSize - 1) /\ SampleSize - 1 - 0 + 1 = SampleSize
      BY <1>1
    <2> QED
      BY <2>1, FS_Interval
  <1> QED
    BY <1>1, <1>2 DEF Slots

LEMMA Quotient ==
    ASSUME NEW n \in Nat \ {0}, NEW x \in Int, NEW a \in Int, NEW b \in Int,
           n * a <= x, x <= n * b
    PROVE  x \div n \in a .. b
  <1> DEFINE q == x \div n
  <1>1. q \in Int /\ n * q <= x /\ x < n * q + n
    OBVIOUS
  <1> HIDE DEF q
  <1>2. n * (q + 1) = n * q + n
    BY <1>1
  <1>3. n * a < n * (q + 1)
    BY <1>1, <1>2
  <1>4. n * q <= n * b
    BY <1>1
  <1>5. \A u, v \in Int : u >= v => n * u >= n * v
    OBVIOUS
  <1>6. a < q + 1 /\ ~(q >= b + 1)
    <2>1. q >= b + 1 => n * q >= n * (b + 1)
      BY <1>1, <1>5
    <2>2. n * (b + 1) = n * b + n
      OBVIOUS
    <2>3. a >= q + 1 => n * a >= n * (q + 1)
      BY <1>1, <1>5
    <2> QED
      BY <1>1, <1>3, <1>4, <2>1, <2>2, <2>3
  <1> QED
    BY <1>1, <1>6 DEF q

\* The average lies between the least and the greatest value.
LEMMA AverageBetween ==
    ASSUME NEW values \in [Slots -> Int], NEW a \in Int, NEW b \in Int,
           Between(values, Slots, a, b)
    PROVE  AverageOf(values) \in a .. b
  <1>1. AverageOf(values) = Sum(values, Slots) \div SampleSize
    BY DEF AverageOf, FoldFunction, Sum
  <1>2. /\ Sum(values, Slots) \in Int
        /\ SampleSize * a <= Sum(values, Slots) /\ Sum(values, Slots) <= SampleSize * b
    BY SlotsFinite, SumStep, SumBounds
  <1> QED
    BY <1>1, <1>2, SlotsFinite, Quotient

\* The average when one slot differs from all others.
LEMMA AverageOneOdd ==
    ASSUME NEW values \in [Slots -> Int], NEW odd \in Slots, NEW v \in Int,
           \A i \in Slots \ {odd} : values[i] = v
    PROVE  AverageOf(values) = ((SampleSize - 1) * v + values[odd]) \div SampleSize
  <1>1. AverageOf(values) = Sum(values, Slots) \div SampleSize
    BY DEF AverageOf, FoldFunction, Sum
  <1> DEFINE rest == Slots \ {odd}
  <1>2. Sum(values, Slots) = values[odd] + Sum(values, rest)
    <2>1. Slots \in SUBSET Slots /\ IsFiniteSet(Slots)
      BY SlotsFinite
    <2>2. TakesOut(values, Slots, odd)
      BY <2>1, SumTakeOut
    <2> QED
      BY <2>2 DEF TakesOut
  <1>3. Cardinality(rest) = SampleSize - 1
    BY SlotsFinite, FS_RemoveElement
  <1>4. rest \in SUBSET Slots /\ \A i \in rest : v <= values[i] /\ values[i] <= v
    OBVIOUS
  <1>10. Between(values, rest, v, v)
    BY <1>4 DEF Between
  <1> HIDE DEF rest
  <1>5. Sum(values, rest) \in Int
    BY <1>4, SlotsFinite, SumStep
  <1>6. (SampleSize - 1) * v <= Sum(values, rest) /\ Sum(values, rest) <= (SampleSize - 1) * v
    BY <1>3, <1>4, <1>10, SlotsFinite, SumBounds
  <1>7. (SampleSize - 1) * v \in Int
    BY SlotsFinite
  <1>8. Sum(values, rest) = (SampleSize - 1) * v
    BY <1>5, <1>6, <1>7
  <1>9. Sum(values, Slots) = (SampleSize - 1) * v + values[odd]
    BY <1>2, <1>7, <1>8
  <1> QED
    BY <1>1, <1>9

-----------------------------------------------------------------------------
(* A ring and the samples it was given. *)

\* How many frames ago slot i was written; without samples, would have been.
Age(ring, i) == IF i < ring.curIdx THEN ring.curIdx - i ELSE ring.curIdx - i + SampleSize

\* The last k samples were v, and those before them w.
Fresh(ring, k, v) == \A i \in Slots : Age(ring, i) <= k => ring.values[i] = v
Stale(ring, k, w) == \A i \in Slots : Age(ring, i) > k => ring.values[i] = w

Computed(ring) ==
    /\ ring.average = AverageOf(ring.values)
    /\ ring.misfits = MisfitsOf(ring.values, ring.average)

LEMMA MisfitsCounted ==
    ASSUME NEW values, NEW average
    PROVE  MisfitsOf(values, average) \in 0 .. SampleSize
  <1> DEFINE odd == {i \in Slots : Deviation(values[i], average) > MaxDeviation}
  <1>1. odd \in SUBSET Slots
    OBVIOUS
  <1> HIDE DEF odd
  <1>2. Cardinality(odd) \in Nat /\ Cardinality(odd) <= SampleSize
    BY <1>1, SlotsFinite, FS_Subset, FS_CardinalityType
  <1> QED
    BY <1>2, SlotsFinite DEF MisfitsOf, odd

LEMMA AverageType ==
    ASSUME NEW values \in [Slots -> RawValues]
    PROVE  AverageOf(values) \in RawValues
  <1>1. \A i \in Slots : values[i] \in 0 .. 4095
    BY DEF RawValues
  <1>2. values \in [Slots -> Int]
    <2>1. RawValues \subseteq Int
      BY DEF RawValues
    <2> QED
      BY <2>1
  <1>3. Between(values, Slots, 0, 4095)
    <2> SUFFICES ASSUME NEW i \in Slots PROVE 0 <= values[i] /\ values[i] <= 4095
      BY DEF Between
    <2>1. PICK n \in 0 .. 4095 : n = values[i]
      BY <1>1
    <2>2. 0 <= n /\ n <= 4095
      OBVIOUS
    <2> QED
      BY <2>1, <2>2
  <1>4. AverageOf(values) \in 0 .. 4095
    BY <1>2, <1>3, AverageBetween
  <1> QED
    BY <1>4 DEF RawValues

LEMMA NextSlot ==
    ASSUME NEW i \in Slots
    PROVE  /\ CurIdxNext(i) \in Slots
           /\ CurIdxNext(i) = 0 => i = SampleSize - 1
           /\ CurIdxNext(i) # 0 => CurIdxNext(i) = i + 1
  BY SlotsFinite DEF CurIdxNext, Slots

LEMMA AddValueType ==
    ASSUME NEW ring \in Rings, NEW value \in RawValues
    PROVE  AddValue(ring, value) \in Rings /\ Computed(AddValue(ring, value))
  <1> DEFINE values == [ring.values EXCEPT ![ring.curIdx] = value]
             next == AddValue(ring, value)
  <1>1. /\ ring.values \in [Slots -> RawValues] /\ ring.curIdx \in Slots
        /\ ring.filled \in BOOLEAN
    BY DEF Rings
  <1>2. values \in [Slots -> RawValues]
    BY <1>1
  <1> HIDE DEF values
  <1>3. /\ AverageOf(values) \in RawValues
        /\ MisfitsOf(values, AverageOf(values)) \in 0 .. SampleSize
    BY <1>2, AverageType, MisfitsCounted
  <1>4. next = [values |-> values, curIdx |-> CurIdxNext(ring.curIdx),
                filled |-> ring.filled \/ CurIdxNext(ring.curIdx) = 0,
                average |-> AverageOf(values),
                misfits |-> MisfitsOf(values, AverageOf(values))]
    BY DEF AddValue, values
  <1>5. CurIdxNext(ring.curIdx) \in Slots
    BY <1>1, NextSlot
  <1>6. (ring.filled \/ CurIdxNext(ring.curIdx) = 0) \in BOOLEAN
    OBVIOUS
  <1>7. next \in Rings
    BY <1>2, <1>3, <1>4, <1>5, <1>6 DEF Rings
  <1>8. Computed(next)
    BY <1>4 DEF Computed
  <1> QED
    BY <1>7, <1>8

\* A sample makes every other slot one frame older, and takes the oldest.
LEMMA Aging ==
    ASSUME NEW ring \in Rings, NEW value \in RawValues, NEW i \in Slots
    PROVE  /\ i = ring.curIdx => /\ Age(AddValue(ring, value), i) = 1
                                 /\ AddValue(ring, value).values[i] = value
           /\ i # ring.curIdx => /\ Age(AddValue(ring, value), i) = Age(ring, i) + 1
                                 /\ AddValue(ring, value).values[i] = ring.values[i]
           /\ Age(ring, i) \in 1 .. SampleSize
  <1>1. ring.curIdx \in Slots /\ ring.values \in [Slots -> RawValues]
    BY DEF Rings
  <1>2. /\ AddValue(ring, value).curIdx = CurIdxNext(ring.curIdx)
        /\ AddValue(ring, value).values = [ring.values EXCEPT ![ring.curIdx] = value]
    BY DEF AddValue
  <1>3. SampleSize \in Nat \ {0} /\ ring.curIdx \in 0 .. SampleSize - 1 /\ i \in 0 .. SampleSize - 1
    BY <1>1, SlotsFinite DEF Slots
  <1>4. /\ i = ring.curIdx => AddValue(ring, value).values[i] = value
        /\ i # ring.curIdx => AddValue(ring, value).values[i] = ring.values[i]
    BY <1>1, <1>2
  <1>5. /\ i = ring.curIdx => Age(AddValue(ring, value), i) = 1
        /\ i # ring.curIdx => Age(AddValue(ring, value), i) = Age(ring, i) + 1
        /\ Age(ring, i) \in 1 .. SampleSize
    BY <1>2, <1>3 DEF Age, CurIdxNext
  <1> QED
    BY <1>4, <1>5

LEMMA FreshStep ==
    ASSUME NEW ring \in Rings, NEW value \in RawValues, NEW k \in Nat, Fresh(ring, k, value)
    PROVE  Fresh(AddValue(ring, value), k + 1, value)
  <1> SUFFICES ASSUME NEW i \in Slots, Age(AddValue(ring, value), i) <= k + 1
               PROVE  AddValue(ring, value).values[i] = value
    BY DEF Fresh
  <1>1. i # ring.curIdx => Age(ring, i) <= k /\ ring.values[i] = value
    BY Aging DEF Fresh
  <1> QED
    BY <1>1, Aging

LEMMA StaleStep ==
    ASSUME NEW ring \in Rings, NEW value \in RawValues, NEW k \in Nat, NEW w,
           Stale(ring, k, w)
    PROVE  Stale(AddValue(ring, value), k + 1, w)
  <1> SUFFICES ASSUME NEW i \in Slots, Age(AddValue(ring, value), i) > k + 1
               PROVE  AddValue(ring, value).values[i] = w
    BY DEF Stale
  <1>1. i # ring.curIdx => Age(ring, i) > k /\ ring.values[i] = w
    BY Aging DEF Stale
  <1>2. i # ring.curIdx
    BY Aging
  <1> QED
    BY <1>1, <1>2, Aging

-----------------------------------------------------------------------------
(* The converter. *)

Voltages == -12000 .. 12000

LEMMA RawRange ==
    ASSUME NEW v \in Voltages
    PROVE  Raw(v) \in RawValues
  BY DEF Raw, RawValues, Voltages

\* A voltage comes back up to seven millivolt lower, or as the least there is.
LEMMA Resolution ==
    ASSUME NEW v \in Voltages
    PROVE  /\ Millivolt(Raw(v)) \in Int
           /\ v >= -11786 => v - 7 <= Millivolt(Raw(v)) /\ Millivolt(Raw(v)) <= v
           /\ v < -11786 => Millivolt(Raw(v)) = -11786
  BY DEF Raw, Millivolt, Voltages

LEMMA LevelRange ==
    ASSUME car \in CarLevels
    PROVE  HighLevel \in Voltages /\ LowLevel \in Voltages
  BY AveragingAssumption DEF HighLevel, LowLevel, Voltages

-----------------------------------------------------------------------------
(* Types. *)

LEMMA TypeInit == Init => AveragingTypeOK
  <1> SUFFICES ASSUME Init PROVE AveragingTypeOK
    OBVIOUS
  <1>0. MaxHasty \in Nat
    BY AveragingAssumption
  <1>1. 0 \in Slots /\ 0 \in RawValues /\ 0 \in 0 .. SampleSize /\ 0 \in 0 .. MaxHasty
    BY <1>0, SlotsFinite DEF Slots, RawValues
  <1>2. EmptyRing \in Rings
    BY <1>1 DEF EmptyRing, Rings
  <1> QED
    BY <1>1, <1>2 DEF Init, AveragingTypeOK, Outputs

LEMMA FrameType ==
    ASSUME AveragingTypeOK, NEW high \in RawValues, NEW low \in RawValues, Frame(high, low)
    PROVE  /\ highAvg' \in Rings /\ lowAvg' \in Rings
           /\ Computed(highAvg)' /\ Computed(lowAvg)'
           /\ rawSignal' \in [valid : BOOLEAN, high : RawValues, low : RawValues]
           /\ rawSignal'.valid <=> Trusted(highAvg') /\ Trusted(lowAvg')
           /\ rawSignal'.valid => /\ rawSignal'.high = highAvg'.average
                                  /\ rawSignal'.low = lowAvg'.average
  <1>1. /\ highAvg \in Rings /\ lowAvg \in Rings
        /\ rawSignal \in [valid : BOOLEAN, high : RawValues, low : RawValues]
    BY DEF AveragingTypeOK
  <1>2. /\ highAvg' = AddValue(highAvg, high) /\ lowAvg' = AddValue(lowAvg, low)
        /\ rawSignal' = IF Trusted(highAvg') /\ Trusted(lowAvg')
                        THEN [valid |-> TRUE, high |-> highAvg'.average, low |-> lowAvg'.average]
                        ELSE [rawSignal EXCEPT !.valid = FALSE]
    BY DEF Frame
  <1>3. /\ highAvg' \in Rings /\ lowAvg' \in Rings
        /\ Computed(highAvg') /\ Computed(lowAvg')
    BY <1>1, <1>2, AddValueType
  <1>4. Computed(highAvg)' /\ Computed(lowAvg)'
    BY <1>3 DEF Computed
  <1>5. highAvg'.average \in RawValues /\ lowAvg'.average \in RawValues
    BY <1>3 DEF Rings
  <1>6. CASE Trusted(highAvg') /\ Trusted(lowAvg')
    BY <1>2, <1>3, <1>4, <1>5, <1>6
  <1>7. CASE ~(Trusted(highAvg') /\ Trusted(lowAvg'))
    <2>1. rawSignal' = [rawSignal EXCEPT !.valid = FALSE]
      BY <1>2, <1>7
    <2>2. rawSignal' \in [valid : BOOLEAN, high : RawValues, low : RawValues] /\ ~rawSignal'.valid
      BY <1>1, <2>1
    <2> QED
      BY <1>3, <1>4, <1>7, <2>2
  <1> QED
    BY <1>6, <1>7

LEMMA ChangeType ==
    ASSUME AveragingTypeOK, Change
    PROVE  /\ car' \in CarLevels /\ output' \in Outputs /\ since' = 0
           /\ before' = Shown /\ hasty' \in 0 .. MaxHasty
           /\ hasty' = 0 => since = SampleSize
           /\ car' = car \/ output' = output
  <1>1. /\ since = SampleSize /\ hasty' = 0
        \/ /\ hasty \in 0 .. MaxHasty /\ hasty < MaxHasty /\ hasty' = hasty + 1
    BY DEF Change, AveragingTypeOK
  <1>0. MaxHasty \in Nat
    BY AveragingAssumption
  <1>2. hasty' \in 0 .. MaxHasty /\ (hasty' = 0 => since = SampleSize)
    BY <1>0, <1>1
  <1>3. car \in CarLevels /\ output \in Outputs
    BY DEF AveragingTypeOK
  <1> QED
    BY <1>2, <1>3 DEF Change

\* Both parts of a frame are sampled from levels of before or after the change.
LEMMA StepFrames ==
    ASSUME AveragingTypeOK, Next
    PROVE  \/ UNCHANGED <<highAvg, lowAvg, rawSignal>>
           \/ \E high, low \in RawValues : Frame(high, low)
  <1>1. Raw(HighLevel) \in RawValues /\ Raw(LowLevel) \in RawValues
    BY LevelRange, RawRange DEF AveragingTypeOK
  <1>2. CASE Sample
    BY <1>1, <1>2 DEF Sample
  <1>3. CASE ChangeBetween
    BY <1>3 DEF ChangeBetween
  <1>4. CASE ChangeWithin
    <2>1. car' \in CarLevels
      BY <1>4, ChangeType DEF ChangeWithin
    <2>2. HighLevel' \in Voltages /\ LowLevel' \in Voltages
      BY <2>1, AveragingAssumption DEF HighLevel, LowLevel, Voltages
    <2>3. Raw(HighLevel') \in RawValues /\ Raw(LowLevel') \in RawValues
      BY <2>2, RawRange
    <2> QED
      BY <1>1, <1>4, <2>3 DEF ChangeWithin
  <1> QED
    BY <1>2, <1>3, <1>4 DEF Next

LEMMA TypeStep == AveragingTypeOK /\ [Next]_vars => AveragingTypeOK'
  <1> SUFFICES ASSUME AveragingTypeOK, Next PROVE AveragingTypeOK'
    BY DEF AveragingTypeOK, vars
  <1>1. /\ highAvg' \in Rings /\ lowAvg' \in Rings
        /\ rawSignal' \in [valid : BOOLEAN, high : RawValues, low : RawValues]
    <2>1. CASE UNCHANGED <<highAvg, lowAvg, rawSignal>>
      BY <2>1 DEF AveragingTypeOK
    <2>2. ASSUME NEW high \in RawValues, NEW low \in RawValues, Frame(high, low)
          PROVE  /\ highAvg' \in Rings /\ lowAvg' \in Rings
                 /\ rawSignal' \in [valid : BOOLEAN, high : RawValues, low : RawValues]
      BY <2>2, FrameType
    <2> QED
      BY <2>1, <2>2, StepFrames
  <1>2. /\ car' \in CarLevels /\ output' \in Outputs
        /\ since' \in 0 .. SampleSize /\ hasty' \in 0 .. MaxHasty
    <2>1. CASE Sample
      BY <2>1, SlotsFinite DEF Sample, AveragingTypeOK
    <2>2. CASE ChangeBetween \/ ChangeWithin
      BY <2>2, ChangeType, SlotsFinite DEF ChangeBetween, ChangeWithin
    <2> QED
      BY <2>1, <2>2 DEF Next
  <1> QED
    BY <1>1, <1>2 DEF AveragingTypeOK

\* Types, for every size of the rings and every set of levels: averages are raw
\* values again, and no index leaves the ring.
THEOREM AveragingTypesKept == Spec => []AveragingTypeOK
  BY TypeInit, TypeStep, PTL DEF Spec

-----------------------------------------------------------------------------
(* The signal settles. *)

\* What is known of a ring whose part of the signal is at the raw value v.  A ring
\* that is not full yet has had a frame for each of its used slots; when nothing
\* has changed before it was full, all of them are of the present value.
Follows(ring, v) ==
    /\ Fresh(ring, since, v)
    /\ Computed(ring)
    /\ ~ring.filled => ring.curIdx >= since /\ (hasty = 0 => ring.curIdx = since)

\* What the main task gets is the average of both rings, if they are trusted.
Published ==
    /\ rawSignal.valid <=> Trusted(highAvg) /\ Trusted(lowAvg)
    /\ rawSignal.valid => rawSignal.high = highAvg.average /\ rawSignal.low = lowAvg.average

SettleInv ==
    AveragingTypeOK /\ Follows(highAvg, Raw(HighLevel)) /\ Follows(lowAvg, Raw(LowLevel)) /\ Published

\* A ring of one value has that average and nothing that does not fit.
LEMMA Uniform ==
    ASSUME NEW ring \in Rings, NEW v \in RawValues, Computed(ring),
           \A i \in Slots : ring.values[i] = v
    PROVE  ring.average = v /\ ring.misfits = 0
  <1>1. ring.values \in [Slots -> Int] /\ v \in Int
    <2>1. RawValues \subseteq Int
      BY DEF RawValues
    <2> QED
      BY <2>1 DEF Rings
  <1>2. Between(ring.values, Slots, v, v)
    <2>1. v <= v
      BY <1>1
    <2> QED
      BY <2>1 DEF Between
  <1>3. AverageOf(ring.values) \in v .. v
    BY <1>1, <1>2, AverageBetween
  <1>4. ring.average = v
    BY <1>1, <1>3 DEF Computed
  <1>5. \A i \in Slots : ~(Deviation(ring.values[i], ring.average) > MaxDeviation)
    <2>1. Deviation(v, v) = 0 /\ MaxDeviation \in Nat
      BY <1>1, AveragingAssumption DEF Deviation
    <2> QED
      BY <1>4, <2>1
  <1>6. {i \in Slots : Deviation(ring.values[i], ring.average) > MaxDeviation} = {}
    BY <1>5
  <1>7. ring.misfits = 0
    BY <1>6, FS_EmptySet DEF Computed, MisfitsOf
  <1> QED
    BY <1>4, <1>7

LEMMA SettleInit == Init => SettleInv
  <1> SUFFICES ASSUME Init PROVE SettleInv
    OBVIOUS
  <1>1. AveragingTypeOK
    BY TypeInit
  <1>2. SampleSize \in Nat \ {0} /\ highAvg = EmptyRing /\ lowAvg = EmptyRing /\ since = 0
    BY SlotsFinite DEF Init
  <1>3. EmptyRing.curIdx = 0 /\ EmptyRing.filled = FALSE
    BY DEF EmptyRing
  <1>4. Computed(EmptyRing)
    <2>1. EmptyRing.values = [i \in Slots |-> 0] /\ EmptyRing.average = 0 /\ EmptyRing.misfits = 0
      BY DEF EmptyRing
    <2> DEFINE zero == [i \in Slots |-> 0]
    <2>2. zero \in [Slots -> Int] /\ Between(zero, Slots, 0, 0)
      BY DEF Between
    <2> HIDE DEF zero
    <2>3. AverageOf(zero) \in 0 .. 0
      BY <2>2, AverageBetween
    <2>4. AverageOf(zero) = 0
      BY <2>3
    <2>5. Deviation(0, 0) = 0 /\ MaxDeviation \in Nat
      BY AveragingAssumption DEF Deviation
    <2>6. {i \in Slots : Deviation(zero[i], 0) > MaxDeviation} = {}
      BY <2>5 DEF zero
    <2>7. MisfitsOf(zero, 0) = 0
      BY <2>6, FS_EmptySet DEF MisfitsOf
    <2> QED
      BY <2>1, <2>4, <2>7 DEF Computed, zero
  <1>5. \A v : Fresh(EmptyRing, 0, v)
    BY <1>2, <1>3 DEF Fresh, Age, Slots
  <1>6. \A v : Follows(EmptyRing, v)
    BY <1>2, <1>3, <1>4, <1>5 DEF Follows
  <1>7. Published
    BY <1>2, <1>3 DEF Init, Published, Trusted
  <1> QED
    BY <1>1, <1>2, <1>6, <1>7 DEF SettleInv

\* A ring that is given the value its part of the signal is at.
LEMMA FollowsStep ==
    ASSUME NEW ring \in Rings, NEW v \in RawValues, since \in 0 .. SampleSize, Follows(ring, v),
           since' = IF since < SampleSize THEN since + 1 ELSE since, hasty' = hasty
    PROVE  /\ Fresh(AddValue(ring, v), since', v)
           /\ ~AddValue(ring, v).filled =>
                 /\ AddValue(ring, v).curIdx >= since'
                 /\ hasty' = 0 => AddValue(ring, v).curIdx = since'
  <1>1. Fresh(AddValue(ring, v), since + 1, v) /\ since \in Nat
    BY SlotsFinite, FreshStep DEF Follows
  <1>2. Fresh(AddValue(ring, v), since', v)
    <2>1. AddValue(ring, v) \in Rings
      BY AddValueType
    <2>2. \A i \in Slots : Age(AddValue(ring, v), i) \in 1 .. SampleSize
      BY <2>1, Aging
    <2>3. \A i \in Slots : Age(AddValue(ring, v), i) <= since' => Age(AddValue(ring, v), i) <= since + 1
      BY <2>2, SlotsFinite
    <2> QED
      BY <1>1, <2>3 DEF Fresh
  <1>3. ASSUME ~AddValue(ring, v).filled
        PROVE  /\ AddValue(ring, v).curIdx >= since'
               /\ hasty' = 0 => AddValue(ring, v).curIdx = since'
    <2>1. ring.curIdx \in Slots
      BY DEF Rings
    <2>2. ~ring.filled /\ CurIdxNext(ring.curIdx) # 0
      BY <1>3 DEF AddValue
    <2>3. /\ ring.curIdx >= since /\ (hasty = 0 => ring.curIdx = since)
          /\ AddValue(ring, v).curIdx = ring.curIdx + 1
      BY <2>1, <2>2, NextSlot DEF AddValue, Follows
    <2>4. since < SampleSize /\ since \in Nat /\ ring.curIdx \in Nat
      BY <2>1, <2>3, SlotsFinite DEF Slots
    <2> QED
      BY <2>3, <2>4
  <1> QED
    BY <1>2, <1>3

\* A full ring stays full.
LEMMA FilledKept ==
    ASSUME NEW ring \in Rings, NEW v, since = SampleSize, NEW w, Follows(ring, w)
    PROVE  ring.filled /\ AddValue(ring, v).filled
  <1>1. ring.curIdx \in Slots
    BY DEF Rings
  <1>2. ring.filled
    BY <1>1, SlotsFinite DEF Follows, Slots
  <1> QED
    BY <1>2 DEF AddValue

LEMMA SettleStep == SettleInv /\ [Next]_vars => SettleInv'
  <1> SUFFICES ASSUME SettleInv, [Next]_vars PROVE SettleInv'
    OBVIOUS
  <1>1. AveragingTypeOK /\ AveragingTypeOK'
    BY TypeStep DEF SettleInv
  <1>2. /\ highAvg \in Rings /\ lowAvg \in Rings /\ since \in 0 .. SampleSize
        /\ Raw(HighLevel) \in RawValues /\ Raw(LowLevel) \in RawValues
    BY <1>1, LevelRange, RawRange DEF AveragingTypeOK
  <1>3. CASE Sample
    <2>1. /\ Frame(Raw(HighLevel), Raw(LowLevel))
          /\ since' = IF since < SampleSize THEN since + 1 ELSE since
          /\ hasty' = hasty
          /\ HighLevel' = HighLevel /\ LowLevel' = LowLevel
      BY <1>3 DEF Sample, HighLevel, LowLevel
    <2>2. /\ highAvg' = AddValue(highAvg, Raw(HighLevel))
          /\ lowAvg' = AddValue(lowAvg, Raw(LowLevel))
      BY <2>1 DEF Frame
    <2>3. Computed(highAvg)' /\ Computed(lowAvg)' /\ Published'
      BY <1>1, <1>2, <2>1, FrameType DEF Published
    <2>4. Follows(highAvg, Raw(HighLevel))'
      BY <1>2, <2>1, <2>2, <2>3, FollowsStep DEF SettleInv, Follows
    <2>5. Follows(lowAvg, Raw(LowLevel))'
      BY <1>2, <2>1, <2>2, <2>3, FollowsStep DEF SettleInv, Follows
    <2> QED
      BY <1>1, <2>3, <2>4, <2>5 DEF SettleInv
  <1>4. ASSUME Change
        PROVE  /\ since' = 0
               /\ hasty' = 0 => /\ highAvg.filled /\ lowAvg.filled
                                /\ \A v : AddValue(highAvg, v).filled /\ AddValue(lowAvg, v).filled
    BY <1>1, <1>2, <1>4, ChangeType, FilledKept DEF SettleInv
  <1>5. ASSUME Change, Computed(highAvg)', Computed(lowAvg)',
               hasty' = 0 => highAvg'.filled /\ lowAvg'.filled
        PROVE  Follows(highAvg, Raw(HighLevel))' /\ Follows(lowAvg, Raw(LowLevel))'
    <2>1. since' = 0 /\ highAvg' \in Rings /\ lowAvg' \in Rings
      BY <1>1, <1>4, <1>5 DEF AveragingTypeOK
    <2>2. \A ring \in Rings : \A i \in Slots : Age(ring, i) \in 1 .. SampleSize
      BY <1>2, Aging
    <2>3. \A ring \in Rings : \A i \in Slots : ~(Age(ring, i) <= 0)
      BY <2>2
    <2>4. Fresh(highAvg, since, Raw(HighLevel))' /\ Fresh(lowAvg, since, Raw(LowLevel))'
      BY <2>1, <2>3 DEF Fresh
    <2>5. highAvg'.curIdx >= since' /\ lowAvg'.curIdx >= since'
      BY <2>1, SlotsFinite DEF Rings, Slots
    <2> QED
      BY <1>5, <2>4, <2>5 DEF Follows
  <1>6. CASE ChangeBetween
    <2>1. Change /\ UNCHANGED <<highAvg, lowAvg, rawSignal>>
      BY <1>6 DEF ChangeBetween
    <2>2. Computed(highAvg)' /\ Computed(lowAvg)' /\ Published'
      BY <2>1 DEF SettleInv, Follows, Computed, Published, Trusted
    <2>3. hasty' = 0 => highAvg'.filled /\ lowAvg'.filled
      BY <1>4, <2>1
    <2> QED
      BY <1>1, <1>5, <2>1, <2>2, <2>3 DEF SettleInv
  <1>7. CASE ChangeWithin
    <2>1. Change
      BY <1>7 DEF ChangeWithin
    <2>2. PICK high, low \in RawValues : Frame(high, low)
      <3>0. car' \in CarLevels
        BY <1>1 DEF AveragingTypeOK
      <3>1. HighLevel' \in Voltages /\ LowLevel' \in Voltages
        BY <3>0, AveragingAssumption DEF HighLevel, LowLevel, Voltages
      <3>2. Raw(HighLevel') \in RawValues /\ Raw(LowLevel') \in RawValues
        BY <3>1, RawRange
      <3> QED
        BY <1>2, <1>7, <3>2 DEF ChangeWithin
    <2>3. highAvg' = AddValue(highAvg, high) /\ lowAvg' = AddValue(lowAvg, low)
      BY <2>2 DEF Frame
    <2>4. Computed(highAvg)' /\ Computed(lowAvg)' /\ Published'
      BY <1>1, <2>2, FrameType DEF Published
    <2>5. hasty' = 0 => highAvg'.filled /\ lowAvg'.filled
      BY <1>4, <2>1, <2>3
    <2> QED
      BY <1>1, <1>5, <2>1, <2>4, <2>5 DEF SettleInv
  <1>8. CASE UNCHANGED vars
    BY <1>1, <1>8 DEF SettleInv, vars, Follows, Fresh, Age, Computed, Published, Trusted, HighLevel, LowLevel
  <1> QED
    BY <1>3, <1>6, <1>7, <1>8 DEF Next

THEOREM SettleInvariant == Spec => []SettleInv
  BY SettleInit, SettleStep, PTL DEF Spec

\* Once the last change is one round of the rings ago, both averages are the raw
\* values of what the car and the PWM output show, and they are trusted.
LEMMA SettledSignal ==
    ASSUME SettleInv, since = SampleSize
    PROVE  rawSignal.valid /\ rawSignal.high = Raw(HighLevel) /\ rawSignal.low = Raw(LowLevel)
  <1>1. /\ highAvg \in Rings /\ lowAvg \in Rings
        /\ Raw(HighLevel) \in RawValues /\ Raw(LowLevel) \in RawValues
    BY LevelRange, RawRange DEF SettleInv, AveragingTypeOK
  <1>2. ASSUME NEW ring \in Rings, NEW v \in RawValues, Follows(ring, v)
        PROVE  ring.average = v /\ Trusted(ring)
    <2>1. \A i \in Slots : Age(ring, i) \in 1 .. SampleSize
      BY <1>2, Aging
    <2>2. \A i \in Slots : ring.values[i] = v
      BY <1>2, <2>1, SlotsFinite DEF Follows, Fresh
    <2>3. ring.average = v /\ ring.misfits = 0
      BY <1>2, <2>2, Uniform DEF Follows
    <2>4. ring.filled
      BY <1>2, FilledKept
    <2> QED
      BY <2>3, <2>4, AveragingAssumption DEF Trusted
  <1> QED
    BY <1>1, <1>2 DEF SettleInv, Published

-----------------------------------------------------------------------------
(* What is read once the signal has settled. *)

\* The converter rounds down by up to 7 mV, so a level that close above an edge
\* of a range may be read on the other side of it.  No level of the standard is.
LevelsClear ==
    \A v \in CarLevels, s \in DOMAIN CpLevel :
        v - (CpLevel[s] - Interval) \notin 1 .. 7 /\ v - (CpLevel[s] + Interval) \notin 0 .. 6

LEMMA NominalLevelsClear ==
    CarLevels \subseteq {12000, 9000, 6000, 3000, 0, -12000} => LevelsClear
  BY DEF LevelsClear, CpLevel, Interval

LEMMA CpLevelValues ==
    /\ DOMAIN CpLevel = {"A", "B", "C", "D", "F"}
    /\ CpLevel["A"] = 12000 /\ CpLevel["B"] = 9000 /\ CpLevel["C"] = 6000
    /\ CpLevel["D"] = 3000 /\ CpLevel["F"] = -12000
  BY DEF CpLevel

\* A voltage and what comes back of it are in the same range.
LEMMA SameRange ==
    ASSUME NEW v \in Voltages, NEW s \in DOMAIN CpLevel,
           v - (CpLevel[s] - Interval) \notin 1 .. 7, v - (CpLevel[s] + Interval) \notin 0 .. 6
    PROVE  IsVoltageInRange(Millivolt(Raw(v)), CpLevel[s]) <=> IsVoltageInRange(v, CpLevel[s])
  <1> DEFINE m == Millivolt(Raw(v))
  <1>1. /\ m \in Int
        /\ v >= -11786 => v - 7 <= m /\ m <= v
        /\ v < -11786 => m = -11786
    BY Resolution
  <1>2. v \in Int /\ -12000 <= v /\ v <= 12000
    BY DEF Voltages
  <1>3. CpLevel[s] \in {12000, 9000, 6000, 3000, -12000}
    BY CpLevelValues
  <1> DEFINE c == CpLevel[s]
  <1>4. c \in Int /\ (c = -12000 \/ c >= 3000)
    BY <1>3
  <1>5. v - (c - Interval) \notin 1 .. 7 /\ v - (c + Interval) \notin 0 .. 6
    OBVIOUS
  <1> HIDE DEF m, c
  <1>6. (v <= c - 1100 \/ v > c - 1100 + 7) /\ (v < c + 1100 \/ v > c + 1100 + 6)
    BY <1>2, <1>4, <1>5 DEF Interval
  <1>7. IsVoltageInRange(m, c) <=> IsVoltageInRange(v, c)
    BY <1>1, <1>2, <1>4, <1>6 DEF IsVoltageInRange, Interval
  <1> QED
    BY <1>7 DEF m, c

LEMMA SameState ==
    ASSUME NEW v \in Voltages,
           \A s \in DOMAIN CpLevel : v - (CpLevel[s] - Interval) \notin 1 .. 7
                                   /\ v - (CpLevel[s] + Interval) \notin 0 .. 6
    PROVE  StateOfHigh(Millivolt(Raw(v))) = StateOfHigh(v)
  <1>1. PositiveLevels(Millivolt(Raw(v))) = PositiveLevels(v)
    BY SameRange DEF PositiveLevels
  <1> QED
    BY <1>1 DEF StateOfHigh

LEMMA SettledReading ==
    ASSUME LevelsClear, SettleInv
    PROVE  SettlesInTime
  <1> SUFFICES ASSUME since = SampleSize PROVE Reading = Shown
    BY DEF SettlesInTime
  <1>1. /\ CpSignal.valid
        /\ CpSignal.high = Millivolt(Raw(HighLevel)) /\ CpSignal.low = Millivolt(Raw(LowLevel))
    BY SettledSignal DEF CpSignal
  <1>2. car \in CarLevels /\ car \in Voltages /\ output \in Outputs
    BY AveragingAssumption DEF SettleInv, AveragingTypeOK, Voltages
  <1>3. StateOfHigh(Millivolt(Raw(HighLevel))) = StateOfHigh(HighLevel)
    <2>1. CASE HighLevel = car
      BY <1>2, <2>1, SameState DEF LevelsClear
    <2>2. CASE HighLevel = -12000
      <3>1. -12000 \in Voltages
        BY DEF Voltages
      <3>2. \A s \in DOMAIN CpLevel : -12000 - (CpLevel[s] - Interval) \notin 1 .. 7
                                 /\ -12000 - (CpLevel[s] + Interval) \notin 0 .. 6
        BY CpLevelValues DEF Interval
      <3> QED
        BY <2>2, <3>1, <3>2, SameState
    <2> QED
      BY <2>1, <2>2 DEF HighLevel
  <1>4. CASE output = "PWM" /\ car = 0
    <2>1. HighLevel = 0 /\ LowLevel = 0
      BY <1>4 DEF HighLevel, LowLevel
    <2>2. Millivolt(Raw(0)) \in -7 .. 0
      BY DEF Millivolt, Raw
    <2>3. /\ ~IsVoltageInRange(Millivolt(Raw(0)), -12000) /\ ~IsVoltageInRange(0, -12000)
          /\ IsVoltageInRange(Millivolt(Raw(0)), 0) /\ IsVoltageInRange(0, 0)
      BY <2>2 DEF IsVoltageInRange, Interval
    <2> QED
      BY <1>1, <1>4, <2>1, <2>3 DEF Reading, Shown, ReadCpState, StateOfBadLow
  <1>5. CASE output = "PWM" /\ car # 0
    <2>1. LowLevel = -12000
      BY <1>5 DEF LowLevel
    <2>2. Millivolt(Raw(-12000)) = -11786
      BY DEF Millivolt, Raw
    <2>3. IsVoltageInRange(Millivolt(Raw(-12000)), -12000) /\ IsVoltageInRange(-12000, -12000)
      BY <2>2 DEF IsVoltageInRange, Interval
    <2> QED
      BY <1>1, <1>3, <1>5, <2>1, <2>3 DEF Reading, Shown, ReadCpState
  <1>6. CASE output # "PWM"
    BY <1>1, <1>3, <1>6 DEF Reading, Shown, ReadCpState
  <1> QED
    BY <1>4, <1>5, <1>6

\* What is read by a state machine that takes the output for a PWM.
ReadAsPwm == ReadCpState("A", TRUE, CpSignal)

\* A constant output has one level, so a state machine that takes it for a PWM
\* either misses the -12 V of the low part or sees them in the high part as well.
LEMMA ConstantNotServed ==
    ASSUME SettleInv, since = SampleSize, output # "PWM"
    PROVE  ReadAsPwm \notin {"C", "D"}
  <1> DEFINE level == CpSignal.high
  <1>1. CpSignal.valid /\ CpSignal.low = level
    <2>1. HighLevel = LowLevel
      BY DEF HighLevel, LowLevel, SettleInv, AveragingTypeOK, Outputs
    <2> QED
      BY <2>1, SettledSignal DEF CpSignal
  <1>2. level \in Int
    <2>1. rawSignal.high \in RawValues
      BY DEF SettleInv, AveragingTypeOK
    <2>2. \A raw \in RawValues : Millivolt(raw) \in Int
      BY DEF Millivolt, RawValues
    <2> QED
      BY <2>1, <2>2 DEF CpSignal
  <1> HIDE DEF level
  <1>3. StateOfBadLow(CpSignal) \notin {"C", "D"}
    BY DEF StateOfBadLow, Unstable
  <1>4. ASSUME IsVoltageInRange(level, -12000)
        PROVE  StateOfHigh(level) \notin {"C", "D"}
    <2>1. level < 0
      BY <1>2, <1>4 DEF IsVoltageInRange, Interval
    <2>2. ~IsVoltageInRange(level, CpLevel["C"]) /\ ~IsVoltageInRange(level, CpLevel["D"])
      BY <1>2, <2>1, CpLevelValues DEF IsVoltageInRange, Interval
    <2>3. StateOfHigh(level) \in PositiveLevels(level) \cup {Unstable}
      BY DEF StateOfHigh
    <2> QED
      BY <2>2, <2>3 DEF PositiveLevels, Unstable
  <1> QED
    BY <1>1, <1>3, <1>4 DEF ReadAsPwm, ReadCpState, level

\* For every size of the rings and every set of levels clear of the edges, one
\* round after the last of any number of changes at any times, and after the
\* start, the main task reads exactly the state that the car and the PWM output
\* show.
THEOREM SettlesInOneRound ==
    ASSUME LevelsClear
    PROVE  Spec => []SettlesInTime
  BY SettledReading, SettleInvariant, PTL

-----------------------------------------------------------------------------
(* The signal on its way from one state to another. *)

\* What a car at v and the output o show on either part, and what is read of it.
HighOf(v, o) == IF o = "N12" /\ v # 0 THEN -12000 ELSE v
LowOf(v, o) == IF o # "P12" /\ v # 0 THEN -12000 ELSE v
ShownOf(v, o) == ReadCpState("A", o = "PWM", [valid |-> TRUE, high |-> HighOf(v, o), low |-> LowOf(v, o)])

\* A ring that has k samples from after a change and is otherwise as before it.
Mixed(ring, k, new, old) == Fresh(ring, k, new) /\ Stale(ring, k, old)

\* Either part may have had one frame more than the main task knows of.
Passing ==
    \E v \in CarLevels, o \in Outputs, kh \in {since, since + 1}, kl \in {since, since + 1} :
        /\ v = car \/ o = output
        /\ before = ShownOf(v, o)
        /\ Mixed(highAvg, kh, Raw(HighLevel), Raw(HighOf(v, o)))
        /\ Mixed(lowAvg, kl, Raw(LowLevel), Raw(LowOf(v, o)))

DoubtInv == SettleInv /\ (since = SampleSize \/ hasty # 0 \/ ~highAvg.filled \/ Passing)

LEMMA MixedStep ==
    ASSUME NEW ring \in Rings, NEW k \in Nat, NEW v \in RawValues, NEW w, Mixed(ring, k, v, w)
    PROVE  Mixed(AddValue(ring, v), k + 1, v, w)
  BY FreshStep, StaleStep DEF Mixed

\* A ring that has settled at w has no sample of anything else.
LEMMA MixedNone ==
    ASSUME NEW ring \in Rings, NEW w, since = SampleSize, Follows(ring, w), NEW v
    PROVE  Mixed(ring, 0, v, w)
  <1>1. \A i \in Slots : Age(ring, i) \in 1 .. SampleSize
    BY Aging DEF Rings
  <1>2. \A i \in Slots : ~(Age(ring, i) <= 0) /\ Age(ring, i) <= SampleSize
    BY <1>1, SlotsFinite
  <1> QED
    BY <1>2 DEF Follows, Mixed, Fresh, Stale

LEMMA DoubtInit == Init => DoubtInv
  <1>1. Init => ~highAvg.filled
    BY DEF Init, EmptyRing
  <1> QED
    BY <1>1, SettleInit DEF DoubtInv

LEMMA DoubtStep == DoubtInv /\ [Next]_vars => DoubtInv'
  <1> SUFFICES ASSUME DoubtInv, [Next]_vars PROVE DoubtInv'
    OBVIOUS
  <1>1. SettleInv /\ SettleInv' /\ AveragingTypeOK /\ AveragingTypeOK'
    BY SettleStep DEF DoubtInv, SettleInv
  <1>2. /\ highAvg \in Rings /\ lowAvg \in Rings /\ since \in 0 .. SampleSize
        /\ Raw(HighLevel) \in RawValues /\ Raw(LowLevel) \in RawValues
    BY <1>1, LevelRange, RawRange DEF AveragingTypeOK
  <1>3. HighLevel = HighOf(car, output) /\ LowLevel = LowOf(car, output) /\ Shown = ShownOf(car, output)
    BY DEF HighLevel, LowLevel, Shown, HighOf, LowOf, ShownOf
  <1>4. CASE Sample
    <2>1. /\ highAvg' = AddValue(highAvg, Raw(HighLevel))
          /\ lowAvg' = AddValue(lowAvg, Raw(LowLevel))
          /\ since' = IF since < SampleSize THEN since + 1 ELSE since
          /\ car' = car /\ output' = output /\ before' = before /\ hasty' = hasty
          /\ HighLevel' = HighLevel /\ LowLevel' = LowLevel
      BY <1>4 DEF Sample, Frame, HighLevel, LowLevel
    <2>2. CASE since = SampleSize
      <3>1. since' = SampleSize
        BY <2>1, <2>2, SlotsFinite
      <3> QED
        BY <1>1, <3>1, SlotsFinite DEF DoubtInv
    <2>5. CASE hasty # 0
      BY <1>1, <2>1, <2>5 DEF DoubtInv
    <2>3. CASE since # SampleSize /\ hasty = 0 /\ ~highAvg.filled
      <3>1. highAvg.curIdx = since /\ highAvg.curIdx \in Slots
        BY <1>1, <1>2, <2>3 DEF SettleInv, Follows, Rings
      <3>2. CurIdxNext(highAvg.curIdx) = 0 => since' = SampleSize
        BY <2>1, <3>1, NextSlot, SlotsFinite DEF Slots
      <3>3. highAvg'.filled => CurIdxNext(highAvg.curIdx) = 0
        BY <2>1, <2>3 DEF AddValue
      <3> QED
        BY <1>1, <3>2, <3>3 DEF DoubtInv
    <2>4. CASE since # SampleSize /\ Passing
      <3>1. since' = since + 1 /\ since \in Nat
        BY <1>2, <2>1, <2>4, SlotsFinite
      <3>2. PICK v \in CarLevels, o \in Outputs, kh \in {since, since + 1}, kl \in {since, since + 1} :
                /\ v = car \/ o = output
                /\ before = ShownOf(v, o)
                /\ Mixed(highAvg, kh, Raw(HighLevel), Raw(HighOf(v, o)))
                /\ Mixed(lowAvg, kl, Raw(LowLevel), Raw(LowOf(v, o)))
        BY <2>4 DEF Passing
      <3>3. /\ Mixed(highAvg', kh + 1, Raw(HighLevel), Raw(HighOf(v, o)))
            /\ Mixed(lowAvg', kl + 1, Raw(LowLevel), Raw(LowOf(v, o)))
        BY <1>2, <2>1, <3>1, <3>2, MixedStep
      <3>4. kh + 1 \in {since', since' + 1} /\ kl + 1 \in {since', since' + 1}
        BY <3>1
      <3>5. /\ Mixed(highAvg', kh + 1, Raw(HighLevel'), Raw(HighOf(v, o)))
            /\ Mixed(lowAvg', kl + 1, Raw(LowLevel'), Raw(LowOf(v, o)))
            /\ v = car' \/ o = output'
            /\ before' = ShownOf(v, o)
        BY <2>1, <3>2, <3>3
      <3>6. Passing'
        BY <3>4, <3>5 DEF Passing
      <3> QED
        BY <1>1, <3>6 DEF DoubtInv
    <2> QED
      BY <2>2, <2>3, <2>4, <2>5 DEF DoubtInv
  <1>5. ASSUME Change, hasty' = 0
        PROVE  /\ car \in CarLevels /\ output \in Outputs
               /\ car = car' \/ output = output'
               /\ before' = ShownOf(car, output) /\ since' = 0
               /\ \A v : /\ Mixed(highAvg, 0, v, Raw(HighLevel))
                         /\ Mixed(lowAvg, 0, v, Raw(LowLevel))
    <2>1. since = SampleSize
      BY <1>1, <1>5, ChangeType
    <2> QED
      BY <1>1, <1>2, <1>3, <1>5, <2>1, ChangeType, MixedNone DEF SettleInv, AveragingTypeOK
  <1>10. ASSUME Change, hasty' # 0
        PROVE  DoubtInv'
    BY <1>1, <1>10 DEF DoubtInv
  <1>6. ASSUME Change, hasty' = 0,
               \E kh, kl \in {0, 1} : /\ Mixed(highAvg', kh, Raw(HighLevel'), Raw(HighLevel))
                                      /\ Mixed(lowAvg', kl, Raw(LowLevel'), Raw(LowLevel))
        PROVE  DoubtInv'
    <2>1. PICK kh, kl \in {0, 1} : /\ Mixed(highAvg', kh, Raw(HighLevel'), Raw(HighLevel))
                                   /\ Mixed(lowAvg', kl, Raw(LowLevel'), Raw(LowLevel))
      BY <1>6
    <2>2. kh \in {since', since' + 1} /\ kl \in {since', since' + 1}
      BY <1>5, <1>6
    <2>3. Passing'
      BY <1>3, <1>5, <1>6, <2>1, <2>2 DEF Passing
    <2> QED
      BY <1>1, <2>3 DEF DoubtInv
  <1>7. CASE ChangeBetween /\ hasty' = 0
    <2>1. Change /\ highAvg' = highAvg /\ lowAvg' = lowAvg
      BY <1>7 DEF ChangeBetween
    <2>2. Mixed(highAvg', 0, Raw(HighLevel'), Raw(HighLevel)) /\ Mixed(lowAvg', 0, Raw(LowLevel'), Raw(LowLevel))
      BY <1>5, <1>7, <2>1
    <2> QED
      BY <1>6, <1>7, <2>1, <2>2
  <1>8. CASE ChangeWithin /\ hasty' = 0
    <2>0. Change /\ since = SampleSize
      BY <1>1, <1>8, ChangeType DEF ChangeWithin
    <2>1. car' \in CarLevels
      BY <1>1 DEF AveragingTypeOK
    <2>2. HighLevel' \in Voltages /\ LowLevel' \in Voltages
      BY <2>1, AveragingAssumption DEF HighLevel, LowLevel, Voltages
    <2>3. Raw(HighLevel') \in RawValues /\ Raw(LowLevel') \in RawValues
      BY <2>2, RawRange
    \* A part that is sampled at its old level is as if it had not been.
    <2>4. ASSUME NEW ring \in Rings, NEW w \in RawValues, Follows(ring, w), NEW v \in RawValues
          PROVE  Mixed(AddValue(ring, w), 0, v, w) /\ Mixed(AddValue(ring, v), 1, v, w)
      <3>1. Mixed(ring, 0, w, w) /\ Mixed(ring, 0, v, w)
        BY <2>0, <2>4, MixedNone
      <3>2. 0 \in Nat /\ 0 + 1 = 1
        OBVIOUS
      <3>3. Mixed(AddValue(ring, w), 1, w, w) /\ Mixed(AddValue(ring, v), 1, v, w)
        BY <3>1, <3>2, MixedStep
      <3>4. AddValue(ring, w) \in Rings
        BY AddValueType
      <3>5. \A i \in Slots : Age(AddValue(ring, w), i) \in 1 .. SampleSize
        BY <3>4, Aging
      <3>6. \A i \in Slots : ~(Age(AddValue(ring, w), i) <= 0)
                           /\ (Age(AddValue(ring, w), i) <= 1 \/ Age(AddValue(ring, w), i) > 1)
        BY <3>5
      <3>7. \A i \in Slots : AddValue(ring, w).values[i] = w
        BY <3>3, <3>6 DEF Mixed, Fresh, Stale
      <3>8. Mixed(AddValue(ring, w), 0, v, w)
        BY <3>6, <3>7 DEF Mixed, Fresh, Stale
      <3> QED
        BY <3>3, <3>8
    <2>5. /\ Mixed(AddValue(highAvg, Raw(HighLevel)), 0, Raw(HighLevel'), Raw(HighLevel))
          /\ Mixed(AddValue(highAvg, Raw(HighLevel')), 1, Raw(HighLevel'), Raw(HighLevel))
          /\ Mixed(AddValue(lowAvg, Raw(LowLevel)), 0, Raw(LowLevel'), Raw(LowLevel))
          /\ Mixed(AddValue(lowAvg, Raw(LowLevel')), 1, Raw(LowLevel'), Raw(LowLevel))
      BY <1>1, <1>2, <2>3, <2>4 DEF SettleInv
    <2>6. \/ /\ highAvg' = AddValue(highAvg, Raw(HighLevel))
             /\ lowAvg' = AddValue(lowAvg, Raw(LowLevel'))
          \/ /\ highAvg' = AddValue(highAvg, Raw(HighLevel'))
             /\ lowAvg' = AddValue(lowAvg, Raw(LowLevel))
      BY <1>8 DEF ChangeWithin, Frame
    <2> QED
      BY <1>6, <1>8, <2>0, <2>5, <2>6
  <1>9. CASE UNCHANGED vars
    <2>1. Passing' <=> Passing
      BY <1>9 DEF vars, Passing, Mixed, Fresh, Stale, Age, HighLevel, LowLevel
    <2>2. (since = SampleSize)' <=> since = SampleSize
      BY <1>9 DEF vars
    <2>3. ((~highAvg.filled)' <=> ~highAvg.filled) /\ ((hasty # 0)' <=> hasty # 0)
      BY <1>9 DEF vars
    <2> QED
      BY <1>1, <2>1, <2>2, <2>3 DEF DoubtInv
  <1> QED
    BY <1>4, <1>7, <1>8, <1>9, <1>10 DEF Next, ChangeBetween, ChangeWithin

THEOREM DoubtInvariant == Spec => []DoubtInv
  BY DoubtInit, DoubtStep, PTL DEF Spec

-----------------------------------------------------------------------------
(* What a mixture is read as. *)

\* The firmware's sizes meet this, CP_SAMPLE_SIZE = 10, CP_SAMPLE_MAX_DEVIATION
\* = 400 and CP_SAMPLE_MAX_MISFITS = 1.
FirmwareSizes == SampleSize >= 10 /\ MaxDeviation <= 400 /\ MaxMisfits <= 1

\* Every level is a short to PE or within half a volt of a nominal one.  With
\* levels further off, two of them that are two states apart can be within two
\* deviations of 400 raw values (4885 mV) of each other.
HalfVolt(v, level) == level - 500 <= v /\ v <= level + 500
LevelsNominal ==
    \A v \in CarLevels : v = 0 \/ \E s \in {"A", "B", "C", "D"} : HalfVolt(v, CpLevel[s])

\* The raw values of the levels, with those of -12 V.
RawLevel(r) ==
    /\ r \in Int
    /\ \/ r = 0
       \/ r = 1930
       \/ 2339 <= r /\ r <= 2503
       \/ 2831 <= r /\ r <= 2994
       \/ 3322 <= r /\ r <= 3486
       \/ 3813 <= r /\ r <= 3895

LEMMA RawOfLevel ==
    ASSUME LevelsNominal, NEW v, v \in CarLevels \/ v = -12000
    PROVE  /\ RawLevel(Raw(v))
           /\ v = 0 <=> Raw(v) = 1930
           /\ v = -12000 <=> Raw(v) = 0
  <1>1. CASE v = 0
    BY <1>1 DEF Raw, RawLevel
  <1>2. CASE v = -12000
    <2>1. Raw(-12000) = 0 /\ -12000 # 0
      BY DEF Raw
    <2> QED
      BY <1>2, <2>1 DEF RawLevel
  <1>3. CASE v \in CarLevels /\ v # 0
    <2>1. v \in Int /\ v <= 12000
      <3>1. v \in -12000 .. 12000
        BY <1>3, AveragingAssumption
      <3> QED
        BY <3>1
    <2>2. \E s \in {"A", "B", "C", "D"} : HalfVolt(v, CpLevel[s])
      BY <1>3 DEF LevelsNominal
    <2>3. \E level \in {12000, 9000, 6000, 3000} : HalfVolt(v, level)
      BY <2>2, CpLevelValues
    <2>4. \/ 2500 <= v /\ v <= 3500
          \/ 5500 <= v /\ v <= 6500
          \/ 8500 <= v /\ v <= 9500
          \/ 11500 <= v /\ v <= 12000
      BY <2>1, <2>3 DEF HalfVolt
    <2> DEFINE r == Raw(v)
    <2>5. r \in Int /\ 25010 * r <= (v + 11786) * 4096 /\ (v + 11786) * 4096 < 25010 * r + 25010
      BY <2>1, <2>4 DEF Raw
    <2> HIDE DEF r
    <2>6. 2500 <= v /\ v <= 3500 => RawLevel(r) /\ r # 1930 /\ r # 0
      BY <2>1, <2>5 DEF RawLevel
    <2>7. 5500 <= v /\ v <= 6500 => RawLevel(r) /\ r # 1930 /\ r # 0
      BY <2>1, <2>5 DEF RawLevel
    <2>8. 8500 <= v /\ v <= 9500 => RawLevel(r) /\ r # 1930 /\ r # 0
      BY <2>1, <2>5 DEF RawLevel
    <2>9. 11500 <= v /\ v <= 12000 => RawLevel(r) /\ r # 1930 /\ r # 0
      BY <2>1, <2>5 DEF RawLevel
    <2>10. RawLevel(r) /\ v # 0 /\ v # -12000 /\ r # 1930 /\ r # 0
      BY <2>1, <2>4, <2>6, <2>7, <2>8, <2>9
    <2> QED
      BY <2>10 DEF r
  <1> QED
    BY <1>1, <1>2, <1>3

\* The state of a raw value of the high part.
LEMMA StateOfRaw ==
    ASSUME NEW r \in Int, 0 <= r, r <= 3895
    PROVE  LET state == StateOfHigh(Millivolt(r))
           IN /\ state \in {"A", "B", "C", "D", "F", Unstable}
              /\ state = "A" <=> r >= 3716
              /\ state = "B" <=> 3225 <= r /\ r <= 3584
              /\ state = "C" <=> 2733 <= r /\ r <= 3093
              /\ state = "D" <=> 2242 <= r /\ r <= 2601
              /\ state = "F" <=> r <= 145
  <1> DEFINE m == Millivolt(r)
  <1>1. m \in Int
    BY DEF Millivolt
  <1>2. /\ 10900 < m /\ m < 13100 <=> r >= 3716
        /\ 7900 < m /\ m < 10100 <=> 3225 <= r /\ r <= 3584
        /\ 4900 < m /\ m < 7100 <=> 2733 <= r /\ r <= 3093
        /\ 1900 < m /\ m < 4100 <=> 2242 <= r /\ r <= 2601
        /\ -13100 < m /\ m < -10900 <=> r <= 145
    BY DEF Millivolt
  <1> HIDE DEF m
  <1>3. /\ "A" \in PositiveLevels(m) <=> 10900 < m /\ m < 13100
        /\ "B" \in PositiveLevels(m) <=> 7900 < m /\ m < 10100
        /\ "C" \in PositiveLevels(m) <=> 4900 < m /\ m < 7100
        /\ "D" \in PositiveLevels(m) <=> 1900 < m /\ m < 4100
        /\ "F" \in PositiveLevels(m) <=> -13100 < m /\ m < -10900
        /\ PositiveLevels(m) \subseteq {"A", "B", "C", "D", "F"}
    BY <1>1, CpLevelValues DEF PositiveLevels, IsVoltageInRange, Interval
  <1>4. PositiveLevels(m) = {} => StateOfHigh(m) = Unstable
    BY DEF StateOfHigh
  <1>5. PositiveLevels(m) # {} => StateOfHigh(m) \in PositiveLevels(m)
    BY DEF StateOfHigh
  <1>6. Unstable \notin {"A", "B", "C", "D", "F"}
    BY DEF Unstable
  <1>7. /\ StateOfHigh(m) \in {"A", "B", "C", "D", "F", Unstable}
        /\ \A s \in {"A", "B", "C", "D", "F"} : StateOfHigh(m) = s => s \in PositiveLevels(m)
    BY <1>3, <1>4, <1>5, <1>6
  <1>8. \A s, t \in PositiveLevels(m) : s = t
    BY <1>1, <1>3
  <1>9. ASSUME NEW s, s \in PositiveLevels(m)
        PROVE  StateOfHigh(m) = s
    BY <1>5, <1>8, <1>9
  <1> DEFINE state == StateOfHigh(m)
  <1>10. /\ state = "A" <=> "A" \in PositiveLevels(m)
         /\ state = "B" <=> "B" \in PositiveLevels(m)
         /\ state = "C" <=> "C" \in PositiveLevels(m)
         /\ state = "D" <=> "D" \in PositiveLevels(m)
         /\ state = "F" <=> "F" \in PositiveLevels(m)
    BY <1>7, <1>9
  <1> HIDE DEF state
  <1>11. /\ state = "A" <=> r >= 3716
         /\ state = "B" <=> 3225 <= r /\ r <= 3584
         /\ state = "C" <=> 2733 <= r /\ r <= 3093
         /\ state = "D" <=> 2242 <= r /\ r <= 2601
         /\ state = "F" <=> r <= 145
    BY <1>2, <1>3, <1>10
  <1> QED
    BY <1>7, <1>11 DEF m, state

\* Between the two, which are close together: within two deviations.
Near(m, p, q) == /\ p - q <= 800 /\ q - p <= 800
                 /\ p <= q => p <= m /\ m <= q
                 /\ q <= p => q <= m /\ m <= p

\* Values of two neighbouring states give one of the two or none.
LEMMA NearState ==
    ASSUME NEW m \in Int, NEW p, NEW q, RawLevel(p), RawLevel(q), Near(m, p, q)
    PROVE  StateOfHigh(Millivolt(m)) \in {StateOfHigh(Millivolt(p)), StateOfHigh(Millivolt(q)), Unstable}
  <1>1. /\ p \in Int /\ 0 <= p /\ p <= 3895 /\ q \in Int /\ 0 <= q /\ q <= 3895
        /\ 0 <= m /\ m <= 3895
    BY DEF RawLevel, Near
  <1> DEFINE x == StateOfHigh(Millivolt(m))
             y == StateOfHigh(Millivolt(p))
             z == StateOfHigh(Millivolt(q))
  <1>2. /\ x \in {"A", "B", "C", "D", "F", Unstable}
        /\ x = "A" <=> m >= 3716
        /\ x = "B" <=> 3225 <= m /\ m <= 3584
        /\ x = "C" <=> 2733 <= m /\ m <= 3093
        /\ x = "D" <=> 2242 <= m /\ m <= 2601
        /\ x = "F" <=> m <= 145
    BY <1>1, StateOfRaw
  <1>3. /\ p >= 3716 => y = "A"
        /\ 3225 <= p /\ p <= 3584 => y = "B"
        /\ 2733 <= p /\ p <= 3093 => y = "C"
        /\ 2242 <= p /\ p <= 2601 => y = "D"
        /\ p <= 145 => y = "F"
    BY <1>1, StateOfRaw
  <1>4. /\ q >= 3716 => z = "A"
        /\ 3225 <= q /\ q <= 3584 => z = "B"
        /\ 2733 <= q /\ q <= 3093 => z = "C"
        /\ 2242 <= q /\ q <= 2601 => z = "D"
        /\ q <= 145 => z = "F"
    BY <1>1, StateOfRaw
  <1> HIDE DEF x, y, z
  <1>5. x = "A" => y = "A" \/ z = "A"
    BY <1>1, <1>2, <1>3, <1>4 DEF RawLevel, Near
  <1>6. x = "B" => y = "B" \/ z = "B"
    BY <1>1, <1>2, <1>3, <1>4 DEF RawLevel, Near
  <1>7. x = "C" => y = "C" \/ z = "C"
    BY <1>1, <1>2, <1>3, <1>4 DEF RawLevel, Near
  <1>8. x = "D" => y = "D" \/ z = "D"
    BY <1>1, <1>2, <1>3, <1>4 DEF RawLevel, Near
  <1>9. x = "F" => y = "F" \/ z = "F"
    BY <1>1, <1>2, <1>3, <1>4 DEF RawLevel, Near
  <1>10. x \in {y, z, Unstable}
    BY <1>2, <1>5, <1>6, <1>7, <1>8, <1>9
  <1> QED
    BY <1>10 DEF x, y, z

\* m is at least nine tenths of the way from p to q.
NearlyAt(m, p, q) ==
    /\ p <= q => 10 * (q - m) <= q - p + 10 /\ m <= q
    /\ q <= p => 10 * (m - q) <= p - q /\ q <= m

\* From nothing that is a state, and back: the odd one is not seen.
LEMMA NearlyState ==
    ASSUME NEW m \in Int, NEW q, RawLevel(q), NearlyAt(m, 1930, q) \/ NearlyAt(m, q, 1930)
    PROVE  StateOfHigh(Millivolt(m)) \in {StateOfHigh(Millivolt(q)), Unstable}
  <1>1. /\ q \in Int /\ 0 <= q /\ q <= 3895
        /\ 0 <= m /\ m <= 3895
    BY DEF RawLevel, NearlyAt
  <1> DEFINE x == StateOfHigh(Millivolt(m))
             z == StateOfHigh(Millivolt(q))
  <1>2. /\ x \in {"A", "B", "C", "D", "F", Unstable}
        /\ x = "A" <=> m >= 3716
        /\ x = "B" <=> 3225 <= m /\ m <= 3584
        /\ x = "C" <=> 2733 <= m /\ m <= 3093
        /\ x = "D" <=> 2242 <= m /\ m <= 2601
        /\ x = "F" <=> m <= 145
    BY <1>1, StateOfRaw
  <1>4. /\ q >= 3716 => z = "A"
        /\ 3225 <= q /\ q <= 3584 => z = "B"
        /\ 2733 <= q /\ q <= 3093 => z = "C"
        /\ 2242 <= q /\ q <= 2601 => z = "D"
        /\ q <= 145 => z = "F"
    BY <1>1, StateOfRaw
  <1> HIDE DEF x, z
  <1>5. x = "A" => z = "A"
    BY <1>1, <1>2, <1>4 DEF RawLevel, NearlyAt
  <1>6. x = "B" => z = "B"
    BY <1>1, <1>2, <1>4 DEF RawLevel, NearlyAt
  <1>7. x = "C" => z = "C"
    BY <1>1, <1>2, <1>4 DEF RawLevel, NearlyAt
  <1>8. x = "D" => z = "D"
    BY <1>1, <1>2, <1>4 DEF RawLevel, NearlyAt
  <1>9. x = "F" => z = "F"
    BY <1>1, <1>2, <1>4 DEF RawLevel, NearlyAt
  <1>10. x \in {z, Unstable}
    BY <1>2, <1>5, <1>6, <1>7, <1>8, <1>9
  <1> QED
    BY <1>10 DEF x, z

\* The slot that is written next is the oldest, and the one before it the youngest.
LEMMA SlotOfAge ==
    ASSUME NEW ring \in Rings, NEW a \in 1 .. SampleSize
    PROVE  \E i \in Slots : Age(ring, i) = a
  <1>1. SampleSize \in Nat \ {0} /\ ring.curIdx \in 0 .. SampleSize - 1
    BY SlotsFinite DEF Rings, Slots
  <1>2. CASE a <= ring.curIdx
    <2>1. ring.curIdx - a \in Slots /\ Age(ring, ring.curIdx - a) = a
      BY <1>1, <1>2 DEF Age, Slots
    <2> QED
      BY <2>1
  <1>3. CASE ~(a <= ring.curIdx)
    <2>1. ring.curIdx - a + SampleSize \in Slots /\ Age(ring, ring.curIdx - a + SampleSize) = a
      BY <1>1, <1>3 DEF Age, Slots
    <2> QED
      BY <2>1
  <1> QED
    BY <1>2, <1>3

LEMMA SameAge ==
    ASSUME NEW ring \in Rings, NEW i \in Slots, NEW j \in Slots, Age(ring, i) = Age(ring, j)
    PROVE  i = j
  <1>1. SampleSize \in Nat \ {0} /\ ring.curIdx \in 0 .. SampleSize - 1
        /\ i \in 0 .. SampleSize - 1 /\ j \in 0 .. SampleSize - 1
    BY SlotsFinite DEF Rings, Slots
  <1> QED
    BY <1>1 DEF Age

\* Of two slots, one fits.
LEMMA OneFits ==
    ASSUME MaxMisfits <= 1, NEW ring \in Rings, Computed(ring), Trusted(ring),
           NEW i \in Slots, NEW j \in Slots, i # j
    PROVE  \/ Deviation(ring.values[i], ring.average) <= MaxDeviation
           \/ Deviation(ring.values[j], ring.average) <= MaxDeviation
  <1> DEFINE odd == {s \in Slots : Deviation(ring.values[s], ring.average) > MaxDeviation}
  <1>1. Cardinality(odd) <= 1 /\ IsFiniteSet(odd)
    <2>1. Cardinality(odd) = ring.misfits /\ ring.misfits <= MaxMisfits
      BY DEF Computed, MisfitsOf, Trusted
    <2>2. odd \in SUBSET Slots
      OBVIOUS
    <2> HIDE DEF odd
    <2>3. IsFiniteSet(odd) /\ Cardinality(odd) \in Nat
      BY <2>2, SlotsFinite, FS_Subset, FS_CardinalityType
    <2>4. MaxMisfits \in Nat /\ MaxMisfits <= 1
      BY AveragingAssumption
    <2>5. \A c, m, x \in Nat : c = m /\ m <= x /\ x <= 1 => c <= 1
      OBVIOUS
    <2> QED
      BY <2>1, <2>3, <2>4, <2>5
  <1>2. ~(i \in odd /\ j \in odd)
    <2>1. SUFFICES ASSUME i \in odd, j \in odd PROVE FALSE
      OBVIOUS
    <2> HIDE DEF odd
    <2>2. IsFiniteSet({i}) /\ Cardinality({i}) = 1
      BY FS_Singleton
    <2>3. IsFiniteSet({i} \cup {j}) /\ Cardinality({i} \cup {j}) = 2
      BY <2>2, FS_AddElement
    <2>4. Cardinality({i} \cup {j}) <= Cardinality(odd)
      BY <1>1, <2>1, FS_Subset
    <2>5. Cardinality(odd) \in Nat
      BY <1>1, FS_CardinalityType
    <2> QED
      BY <1>1, <2>3, <2>4, <2>5
  <1>3. ASSUME NEW s \in Slots
        PROVE  Deviation(ring.values[s], ring.average) \in Int
    <2>1. ring.average \in RawValues /\ ring.values[s] \in RawValues
      BY DEF Rings
    <2>2. ring.average \in Int /\ ring.values[s] \in Int
      <3>1. RawValues \subseteq Int
        BY DEF RawValues
      <3> QED
        BY <2>1, <3>1
    <2>3. \A a, b \in Int : Deviation(a, b) \in Int
      BY DEF Deviation
    <2> QED
      BY <2>2, <2>3
  <1>4. \A a \in Int, b \in Nat : ~(a > b) => a <= b
    OBVIOUS
  <1>5. MaxDeviation \in Nat
    BY AveragingAssumption
  <1> QED
    BY <1>2, <1>3, <1>4, <1>5

\* A value among others pulls the average by no more than a tenth of the way.
LEMMA OddPull ==
    ASSUME NEW n \in Nat, n >= 10, NEW v \in Int, NEW w \in Int, NEW average \in Int,
           average = ((n - 1) * v + w) \div n,
           w <= v => w <= average /\ average <= v,
           v <= w => v <= average /\ average <= w
    PROVE  NearlyAt(average, w, v)
  <1>1. (n - 1) * v + w = n * v + (w - v)
    <2>1. (n - 1) * v = n * v - v /\ n * v \in Int
      OBVIOUS
    <2> QED
      BY <2>1
  <1>2. n * average <= n * v + (w - v) /\ n * v + (w - v) < n * average + n
    <2> DEFINE sum == (n - 1) * v + w
    <2>1. sum \in Int
      OBVIOUS
    <2> HIDE DEF sum
    <2>2. n * (sum \div n) <= sum /\ sum < n * (sum \div n) + n
      BY <2>1
    <2> QED
      BY <1>1, <2>2 DEF sum
  <1>3. CASE w <= v
    <2> DEFINE d == v - average
    <2>1. d \in Int /\ d >= 0
      BY <1>3
    <2>2. n * d = n * v - n * average /\ n * v \in Int /\ n * average \in Int
      OBVIOUS
    <2>3. n * d < (v - w) + n
      BY <1>2, <2>2
    <2>4. n * (d - 1) = n * d - n /\ n * d \in Int
      BY <2>1
    <2>5. n * (d - 1) < v - w
      BY <2>3, <2>4
    <2>6. d >= 1 => 10 * (d - 1) <= n * (d - 1)
      BY <2>1
    <2>7. n * (d - 1) \in Int
      BY <2>1
    <2>8. 10 * (d - 1) <= v - w
      BY <1>3, <2>1, <2>5, <2>6, <2>7
    <2> QED
      BY <1>3, <2>8 DEF NearlyAt
  <1>4. CASE v <= w
    <2> DEFINE d == average - v
    <2>1. d \in Int /\ d >= 0
      BY <1>4
    <2>2. n * d = n * average - n * v /\ n * v \in Int /\ n * average \in Int
      OBVIOUS
    <2>3. n * d <= w - v
      BY <1>2, <2>2
    <2>4. 10 * d <= n * d /\ n * d \in Int
      BY <2>1
    <2>5. 10 * d <= w - v
      BY <2>1, <2>3, <2>4
    <2> QED
      BY <1>4, <2>5 DEF NearlyAt
  <1> QED
    BY <1>3, <1>4

\* The average of a ring that is trusted, by how much of it is from after the change.
LEMMA Mixture ==
    ASSUME FirmwareSizes, NEW ring \in Rings, Computed(ring), Trusted(ring),
           NEW p \in RawValues, NEW q \in RawValues,
           NEW k \in Nat, k <= SampleSize, Mixed(ring, k, q, p)
    PROVE  /\ ring.average \in Int
           /\ k = 0 => ring.average = p
           /\ k = SampleSize => ring.average = q
           /\ k = 1 \/ k = SampleSize - 1 => (ring.average = q /\ p = q) \/ OneOdd(ring)
           /\ k = 1 => NearlyAt(ring.average, q, p)
           /\ k = SampleSize - 1 => NearlyAt(ring.average, p, q)
           /\ k >= 2 /\ k <= SampleSize - 2 => Near(ring.average, p, q)
  <1> DEFINE n == SampleSize
             average == ring.average
             values == ring.values
  <1>1. /\ n \in Nat /\ n >= 10 /\ p \in Int /\ q \in Int /\ average \in Int
        /\ values \in [Slots -> Int] /\ average = AverageOf(values)
    <2>1. RawValues \subseteq Int
      BY DEF RawValues
    <2>2. ring.average \in RawValues /\ ring.values \in [Slots -> RawValues]
      BY DEF Rings
    <2> QED
      BY <2>1, <2>2, SlotsFinite DEF FirmwareSizes, Computed
  <1>2. ASSUME NEW i \in Slots
        PROVE  /\ Age(ring, i) \in 1 .. n
               /\ Age(ring, i) <= k => values[i] = q
               /\ Age(ring, i) > k => values[i] = p
               /\ values[i] = p \/ values[i] = q
    <2>1. Age(ring, i) \in 1 .. n
      BY Aging
    <2> QED
      BY <2>1 DEF Mixed, Fresh, Stale
  <1> HIDE DEF values
  <1>3. ASSUME NEW a \in Int, NEW b \in Int, a <= p, p <= b, a <= q, q <= b
        PROVE  a <= average /\ average <= b
    <2>1. Between(values, Slots, a, b)
      BY <1>2, <1>3 DEF Between
    <2>2. average \in a .. b
      BY <1>1, <2>1, AverageBetween
    <2> QED
      BY <1>1, <2>2
  <1>4. /\ p <= q => p <= average /\ average <= q
        /\ q <= p => q <= average /\ average <= p
    BY <1>1, <1>3
  <1>5. ASSUME NEW v \in RawValues, \A i \in Slots : values[i] = v
        PROVE  average = v
    BY <1>5, Uniform DEF values
  <1>6. k = 0 => average = p
    BY <1>2, <1>5
  <1>7. k = n => average = q
    <2>1. \A i \in Slots : Age(ring, i) <= n
      BY <1>1, <1>2
    <2> QED
      BY <1>2, <1>5, <2>1
  \* All slots but one hold v, and that one w.
  <1>8. ASSUME NEW odd \in Slots, NEW v \in Int, NEW w \in Int, {v, w} = {p, q},
               values[odd] = w, \A i \in Slots \ {odd} : values[i] = v
        PROVE  NearlyAt(average, w, v) /\ ((average = q /\ p = q) \/ OneOdd(ring))
    <2>1. average = ((n - 1) * v + w) \div n
      BY <1>1, <1>8, AverageOneOdd
    <2>2. /\ w <= v => w <= average /\ average <= v
          /\ v <= w => v <= average /\ average <= w
      <3>1. (v = p /\ w = q) \/ (v = q /\ w = p)
        BY <1>8
      <3> QED
        BY <1>4, <3>1
    <2>3. NearlyAt(average, w, v)
      BY <1>1, <2>1, <2>2, OddPull
    <2>4. p # q => OneOdd(ring)
      <3>1. p # q => v # w
        BY <1>8
      <3> QED
        BY <1>8, <3>1 DEF OneOdd, values
    <2>5. p = q => average = q
      BY <1>1, <1>4
    <2> QED
      BY <2>3, <2>4, <2>5
  <1>9. CASE k = 1
    <2>1. PICK odd \in Slots : Age(ring, odd) = 1
      BY <1>1, SlotOfAge
    <2>2. \A i \in Slots \ {odd} : Age(ring, i) > 1
      BY <1>2, <2>1, SameAge
    <2>3. values[odd] = q /\ \A i \in Slots \ {odd} : values[i] = p
      BY <1>2, <1>9, <2>1, <2>2
    <2> QED
      BY <1>1, <1>8, <1>9, <2>3
  <1>10. CASE k = n - 1
    <2>1. PICK odd \in Slots : Age(ring, odd) = n
      BY <1>1, SlotOfAge
    <2>2. \A i \in Slots \ {odd} : Age(ring, i) <= n - 1
      <3>1. \A i \in Slots \ {odd} : Age(ring, i) # n
        BY <2>1, SameAge
      <3> QED
        BY <1>1, <1>2, <3>1
    <2>3. values[odd] = p /\ \A i \in Slots \ {odd} : values[i] = q
      BY <1>1, <1>2, <1>10, <2>1, <2>2
    <2> QED
      BY <1>1, <1>8, <1>10, <2>3
  <1>11. ASSUME k >= 2, k <= n - 2
         PROVE  Near(average, p, q)
    <2> DEFINE fits(v) == v - average <= 400 /\ average - v <= 400
    <2>1. ASSUME NEW i \in Slots, Deviation(values[i], average) <= MaxDeviation
          PROVE  fits(values[i])
      <3>1. values[i] \in Int
        BY <1>1
      <3>2. MaxDeviation \in Nat /\ MaxDeviation <= 400
        BY AveragingAssumption DEF FirmwareSizes
      <3> QED
        BY <1>1, <2>1, <3>1, <3>2 DEF Deviation
    <2>2. fits(q)
      <3>1. PICK i, j \in Slots : Age(ring, i) = 1 /\ Age(ring, j) = 2
        BY <1>1, SlotOfAge
      <3>2. i # j /\ values[i] = q /\ values[j] = q
        BY <1>2, <1>11, <3>1
      <3> QED
        BY <2>1, <3>2, OneFits DEF FirmwareSizes, values
    <2>3. fits(p)
      <3>1. PICK i, j \in Slots : Age(ring, i) = n /\ Age(ring, j) = n - 1
        <4>1. n \in 1 .. SampleSize /\ n - 1 \in 1 .. SampleSize
          BY <1>1
        <4> QED
          BY <4>1, SlotOfAge
      <3>2. i # j /\ values[i] = p /\ values[j] = p
        BY <1>1, <1>2, <1>11, <3>1
      <3> QED
        BY <2>1, <3>2, OneFits DEF FirmwareSizes, values
    <2> QED
      BY <1>1, <1>4, <2>2, <2>3 DEF Near
  <1>12. 1 # n - 1
    BY <1>1
  <1> QED
    BY <1>1, <1>6, <1>7, <1>9, <1>10, <1>11, <1>12

StateOf(r) == StateOfHigh(Millivolt(r))

LEMMA NominalClear == LevelsNominal => LevelsClear
  <1> SUFFICES ASSUME LevelsNominal, NEW v \in CarLevels, NEW s \in DOMAIN CpLevel
               PROVE  v - (CpLevel[s] - Interval) \notin 1 .. 7 /\ v - (CpLevel[s] + Interval) \notin 0 .. 6
    BY DEF LevelsClear
  <1>1. v \in Int
    <2>1. -12000 .. 12000 \subseteq Int
      OBVIOUS
    <2> QED
      BY <2>1, AveragingAssumption
  <1>2. v = 0 \/ \E level \in {12000, 9000, 6000, 3000} : HalfVolt(v, level)
    BY CpLevelValues DEF LevelsNominal
  <1>3. CpLevel[s] \in {12000, 9000, 6000, 3000, -12000}
    BY CpLevelValues
  <1> DEFINE c == CpLevel[s]
  <1> HIDE DEF c
  <1>4. v - (c - Interval) \notin 1 .. 7 /\ v - (c + Interval) \notin 0 .. 6
    BY <1>1, <1>2, <1>3 DEF HalfVolt, Interval, c
  <1> QED
    BY <1>4 DEF c

\* What the high part of a trusted signal is read as during a change.
LEMMA HighPasses ==
    ASSUME FirmwareSizes, NEW ring \in Rings, Computed(ring), Trusted(ring),
           NEW p \in RawValues, NEW q \in RawValues, RawLevel(p), RawLevel(q),
           NEW k \in Nat, k <= SampleSize, Mixed(ring, k, q, p)
    PROVE  /\ StateOf(ring.average) \in {StateOf(p), StateOf(q), Unstable} \/ OneOdd(ring)
           /\ p = 1930 => StateOf(ring.average) \in {StateOf(q), Unstable}
           /\ p = q => ring.average = q
  <1> DEFINE average == ring.average
  <1>1. /\ average \in Int
        /\ k = 0 => average = p
        /\ k = SampleSize => average = q
        /\ k = 1 \/ k = SampleSize - 1 => (average = q /\ p = q) \/ OneOdd(ring)
        /\ k = 1 => NearlyAt(average, q, p)
        /\ k = SampleSize - 1 => NearlyAt(average, p, q)
        /\ k >= 2 /\ k <= SampleSize - 2 => Near(average, p, q)
    BY Mixture
  <1>2. k = 0 \/ k = SampleSize \/ k = 1 \/ k = SampleSize - 1 \/ (k >= 2 /\ k <= SampleSize - 2)
    BY SlotsFinite
  <1>3. StateOf(1930) = Unstable
    BY StateOfRaw DEF StateOf
  <1> HIDE DEF average
  <1>4. Near(average, p, q) => StateOf(average) \in {StateOf(p), StateOf(q), Unstable}
    BY <1>1, NearState DEF StateOf
  <1>5. p = 1930 /\ (k = 1 \/ k = SampleSize - 1) => StateOf(average) \in {StateOf(q), Unstable}
    BY <1>1, NearlyState DEF StateOf
  <1>6. p = q => average = q
    <2>1. p \in Int /\ q \in Int
      BY DEF RawLevel
    <2>2. Near(average, p, q) /\ p = q => average = q
      BY <1>1, <2>1 DEF Near
    <2>3. NearlyAt(average, p, q) /\ p = q => average = q
      BY <1>1, <2>1 DEF NearlyAt
    <2> QED
      BY <1>1, <1>2, <2>2, <2>3
  <1>7. StateOf(average) \in {StateOf(p), StateOf(q), Unstable} \/ OneOdd(ring)
    BY <1>1, <1>2, <1>4
  <1>8. p = 1930 => StateOf(average) \in {StateOf(q), Unstable}
    BY <1>1, <1>2, <1>3, <1>4, <1>5
  <1> QED
    BY <1>6, <1>7, <1>8 DEF average

\* A part that changes between -12 V and something else is trusted only before
\* the first sample of the new value, after the last one of the old value, and
\* with a single one of either.
LEMMA FarPasses ==
    ASSUME FirmwareSizes, NEW ring \in Rings, Computed(ring), Trusted(ring),
           NEW p \in RawValues, NEW q \in RawValues, RawLevel(p), RawLevel(q), p # q, p = 0 \/ q = 0,
           NEW k \in Nat, k <= SampleSize, Mixed(ring, k, q, p)
    PROVE  \/ OneOdd(ring)
           \/ k = 0 /\ ring.average = p
           \/ k = SampleSize /\ ring.average = q
  <1>1. /\ k = 0 => ring.average = p
        /\ k = SampleSize => ring.average = q
        /\ k = 1 \/ k = SampleSize - 1 => (ring.average = q /\ p = q) \/ OneOdd(ring)
        /\ k >= 2 /\ k <= SampleSize - 2 => Near(ring.average, p, q)
    BY Mixture
  <1>2. k = 0 \/ k = SampleSize \/ k = 1 \/ k = SampleSize - 1 \/ (k >= 2 /\ k <= SampleSize - 2)
    BY SlotsFinite
  <1>3. ~Near(ring.average, p, q)
    BY DEF Near, RawLevel
  <1> QED
    BY <1>1, <1>2, <1>3

\* What is read of two trusted averages.
ReadRaw(running, high, low) ==
    ReadCpState("A", running, [valid |-> TRUE, high |-> Millivolt(high), low |-> Millivolt(low)])

LEMMA ReadWithoutPwm ==
    ASSUME NEW high, NEW low
    PROVE  ReadRaw(FALSE, high, low) = StateOf(high)
  BY DEF ReadRaw, ReadCpState, StateOf

LEMMA ReadWithPwm ==
    ASSUME NEW high
    PROVE  ReadRaw(TRUE, high, 0) = StateOf(high)
  <1>1. IsVoltageInRange(Millivolt(0), -12000)
    BY DEF IsVoltageInRange, Millivolt, Interval
  <1> QED
    BY <1>1 DEF ReadRaw, ReadCpState, StateOf

\* Both parts are at 0 V.
ShortRaw(high, low) == high = 1930 /\ low = 1930

LEMMA ReadShort ==
    ASSUME NEW high, NEW low, ShortRaw(high, low)
    PROVE  ReadRaw(TRUE, high, low) = "E"
  <1>1. ~IsVoltageInRange(Millivolt(low), -12000) /\ IsVoltageInRange(Millivolt(low), 0)
    BY DEF IsVoltageInRange, Millivolt, Interval, ShortRaw
  <1>2. IsVoltageInRange(Millivolt(high), 0)
    BY DEF IsVoltageInRange, Millivolt, Interval, ShortRaw
  <1> QED
    BY <1>1, <1>2 DEF ReadRaw, ReadCpState, StateOfBadLow

\* The low part is still at the level of the car.
LateLow(high, low) == low = high /\ RawLevel(high) /\ high # 0 /\ high # 1930

LEMMA ReadLateLow ==
    ASSUME NEW high, NEW low, LateLow(high, low)
    PROVE  ReadRaw(TRUE, high, low) = Unstable
  <1>1. Millivolt(high) \in Int /\ Millivolt(high) > 1100 /\ Millivolt(low) = Millivolt(high)
    BY DEF RawLevel, Millivolt, LateLow
  <1>2. /\ ~IsVoltageInRange(Millivolt(low), -12000) /\ ~IsVoltageInRange(Millivolt(low), 0)
        /\ ~IsVoltageInRange(Millivolt(high) + Millivolt(low), 0)
    BY <1>1 DEF IsVoltageInRange, Interval
  <1> QED
    BY <1>2 DEF ReadRaw, ReadCpState, StateOfBadLow

\* What is shown, in terms of the raw values.
LEMMA ShownRaw ==
    ASSUME LevelsNominal, NEW v \in CarLevels, NEW o \in Outputs
    PROVE  /\ v # 0 => ShownOf(v, o) = StateOf(Raw(HighOf(v, o))) /\ ShownOf(v, o) # Unstable
           /\ v = 0 => ShownOf(v, o) = IF o = "PWM" THEN "E" ELSE Unstable
           /\ RawLevel(Raw(HighOf(v, o))) /\ RawLevel(Raw(LowOf(v, o)))
           /\ Raw(HighOf(v, o)) \in RawValues /\ Raw(LowOf(v, o)) \in RawValues
           /\ v = 0 => Raw(HighOf(v, o)) = 1930 /\ Raw(LowOf(v, o)) = 1930
           /\ v # 0 => Raw(LowOf(v, o)) = IF o = "P12" THEN Raw(v) ELSE 0
           /\ v # 0 => Raw(HighOf(v, o)) = IF o = "N12" THEN 0 ELSE Raw(v)
           /\ v # 0 => Raw(v) # 0 /\ Raw(v) # 1930
  <1>1. /\ RawLevel(Raw(v)) /\ RawLevel(Raw(-12000))
        /\ v = 0 <=> Raw(v) = 1930
        /\ v = -12000 <=> Raw(v) = 0
        /\ Raw(-12000) = 0
    BY RawOfLevel
  <1>2. v = 0 \/ 2500 <= v
    <2>1. \A w \in -12000 .. 12000 : w \in Int
      OBVIOUS
    <2>2. v \in Int
      BY <2>1, AveragingAssumption
    <2>3. v = 0 \/ \E level \in {12000, 9000, 6000, 3000} : HalfVolt(v, level)
      BY CpLevelValues DEF LevelsNominal
    <2> QED
      BY <2>2, <2>3 DEF HalfVolt
  <1>3. v # -12000
    BY <1>2
  <1>4. HighOf(v, o) = v \/ HighOf(v, o) = -12000
    BY DEF HighOf
  <1>5. LowOf(v, o) = v \/ LowOf(v, o) = -12000
    BY DEF LowOf
  <1>6. /\ RawLevel(Raw(HighOf(v, o))) /\ RawLevel(Raw(LowOf(v, o)))
        /\ v = 0 => Raw(HighOf(v, o)) = 1930 /\ Raw(LowOf(v, o)) = 1930
        /\ v # 0 => Raw(LowOf(v, o)) = IF o = "P12" THEN Raw(v) ELSE 0
        /\ v # 0 => Raw(HighOf(v, o)) = IF o = "N12" THEN 0 ELSE Raw(v)
    BY <1>1, <1>4, <1>5 DEF HighOf, LowOf
  <1>7. \A r : RawLevel(r) => r \in RawValues
    BY DEF RawLevel, RawValues
  <1>8. StateOfHigh(HighOf(v, o)) = StateOf(Raw(HighOf(v, o)))
    <2>1. v \in Voltages /\ -12000 \in Voltages
      BY AveragingAssumption DEF Voltages
    <2>2. StateOf(Raw(v)) = StateOfHigh(v)
      BY <2>1, NominalClear, SameState DEF LevelsClear, StateOf
    <2>3. \A s \in DOMAIN CpLevel : -12000 - (CpLevel[s] - Interval) \notin 1 .. 7
                                 /\ -12000 - (CpLevel[s] + Interval) \notin 0 .. 6
      BY CpLevelValues DEF Interval
    <2>4. StateOf(Raw(-12000)) = StateOfHigh(-12000)
      BY <2>1, <2>3, SameState DEF StateOf
    <2> QED
      BY <1>4, <2>2, <2>4
  <1>9. v # 0 => ShownOf(v, o) = StateOf(Raw(HighOf(v, o)))
    <2>1. IsVoltageInRange(-12000, -12000)
      BY DEF IsVoltageInRange, Interval
    <2>2. v # 0 /\ o = "PWM" => LowOf(v, o) = -12000
      BY DEF LowOf
    <2> QED
      BY <1>8, <2>1, <2>2 DEF ShownOf, ReadCpState
  <1>10. ASSUME v # 0
         PROVE  StateOf(Raw(HighOf(v, o))) # Unstable
    <2> DEFINE r == Raw(HighOf(v, o))
    <2>1. RawLevel(r) /\ r # 1930
      BY <1>1, <1>6, <1>10
    <2> HIDE DEF r
    <2>2. r \in Int /\ 0 <= r /\ r <= 3895
      BY <2>1 DEF RawLevel
    <2>3. StateOf(r) \in {"A", "B", "C", "D", "F"}
      BY <2>1, <2>2, StateOfRaw DEF RawLevel, StateOf
    <2> QED
      BY <2>3 DEF Unstable, r
  <1>11. v = 0 => ShownOf(v, o) = IF o = "PWM" THEN "E" ELSE Unstable
    <2>1. /\ ~IsVoltageInRange(0, -12000) /\ IsVoltageInRange(0, 0)
          /\ \A s \in DOMAIN CpLevel : ~IsVoltageInRange(0, CpLevel[s])
      BY CpLevelValues DEF IsVoltageInRange, Interval
    <2>2. StateOfHigh(0) = Unstable
      BY <2>1 DEF StateOfHigh, PositiveLevels
    <2>3. v = 0 => HighOf(v, o) = 0 /\ LowOf(v, o) = 0
      BY DEF HighOf, LowOf
    <2> QED
      BY <2>1, <2>2, <2>3 DEF ShownOf, ReadCpState, StateOfBadLow
  <1> QED
    BY <1>1, <1>3, <1>6, <1>7, <1>9, <1>10, <1>11

LEMMA DoubtfulReading ==
    ASSUME FirmwareSizes, LevelsNominal, DoubtInv
    PROVE  DoubtIsShort
  <1>1. SettleInv /\ LevelsClear
    BY NominalClear DEF DoubtInv
  <1>2. /\ highAvg \in Rings /\ lowAvg \in Rings /\ since \in 0 .. SampleSize
        /\ car \in CarLevels /\ output \in Outputs
        /\ Computed(highAvg) /\ Computed(lowAvg)
    BY <1>1 DEF SettleInv, AveragingTypeOK, Follows
  <1>3. CASE since = SampleSize
    BY <1>1, <1>3, SettledReading DEF SettlesInTime, DoubtIsShort
  <1>4. CASE ~rawSignal.valid
    <2>1. Reading = Unstable
      BY <1>4 DEF Reading, CpSignal, ReadCpState
    <2> QED
      BY <2>1 DEF DoubtIsShort
  <1>6. CASE hasty # 0
    BY <1>6 DEF DoubtIsShort
  <1>5. CASE since # SampleSize /\ hasty = 0 /\ rawSignal.valid
    <2>1. /\ Trusted(highAvg) /\ Trusted(lowAvg)
          /\ rawSignal.high = highAvg.average /\ rawSignal.low = lowAvg.average
      BY <1>1, <1>5 DEF SettleInv, Published
    <2>2. Reading = ReadRaw(output = "PWM", highAvg.average, lowAvg.average)
      BY <1>5, <2>1 DEF Reading, ReadRaw, CpSignal, ReadCpState, StateOfBadLow
    <2>3. Passing
      BY <1>5, <2>1 DEF DoubtInv, Trusted
    <2>4. PICK v \in CarLevels, o \in Outputs, kh \in {since, since + 1}, kl \in {since, since + 1} :
              /\ v = car \/ o = output
              /\ before = ShownOf(v, o)
              /\ Mixed(highAvg, kh, Raw(HighLevel), Raw(HighOf(v, o)))
              /\ Mixed(lowAvg, kl, Raw(LowLevel), Raw(LowOf(v, o)))
      BY <2>3 DEF Passing
    <2>5. /\ since \in Nat /\ since < SampleSize
          /\ kh \in Nat /\ kh <= SampleSize /\ kl \in Nat /\ kl <= SampleSize
      BY <1>2, <1>5, SlotsFinite
    <2> DEFINE high == highAvg.average   low == lowAvg.average
               p == Raw(HighOf(v, o))    q == Raw(HighLevel)
               pl == Raw(LowOf(v, o))    ql == Raw(LowLevel)
    <2>6. HighLevel = HighOf(car, output) /\ LowLevel = LowOf(car, output) /\ Shown = ShownOf(car, output)
      BY DEF HighLevel, LowLevel, Shown, HighOf, LowOf, ShownOf
    <2>7. /\ RawLevel(p) /\ RawLevel(q) /\ RawLevel(pl) /\ RawLevel(ql)
          /\ p \in RawValues /\ q \in RawValues /\ pl \in RawValues /\ ql \in RawValues
      BY <1>2, <2>6, ShownRaw
    <2>8. /\ v # 0 => before = StateOf(p) /\ before # Unstable
          /\ v = 0 => before = IF o = "PWM" THEN "E" ELSE Unstable
          /\ v = 0 => p = 1930 /\ pl = 1930
          /\ v # 0 => pl = IF o = "P12" THEN Raw(v) ELSE 0
          /\ v # 0 => p = IF o = "N12" THEN 0 ELSE Raw(v)
          /\ v # 0 => Raw(v) # 0 /\ Raw(v) # 1930
      BY <2>4, ShownRaw
    <2>9. /\ car # 0 => Shown = StateOf(q)
          /\ car = 0 => Shown = IF output = "PWM" THEN "E" ELSE Unstable
          /\ car = 0 => q = 1930 /\ ql = 1930
          /\ car # 0 => ql = IF output = "P12" THEN Raw(car) ELSE 0
          /\ car # 0 => q = IF output = "N12" THEN 0 ELSE Raw(car)
      BY <1>2, <2>6, ShownRaw
    <2>10. /\ StateOf(high) \in {StateOf(p), StateOf(q), Unstable} \/ OneOdd(highAvg)
           /\ p = 1930 => StateOf(high) \in {StateOf(q), Unstable}
           /\ p = q => high = q
      BY <1>2, <2>1, <2>4, <2>5, <2>7, HighPasses
    <2>11. pl = ql => low = ql
      BY <1>2, <2>1, <2>4, <2>5, <2>7, HighPasses
    <2>12. pl # ql /\ (pl = 0 \/ ql = 0) =>
               OneOdd(lowAvg) \/ (kl = 0 /\ low = pl) \/ (kl = SampleSize /\ low = ql)
      BY <1>2, <2>1, <2>4, <2>5, <2>7, FarPasses
    <2>13. /\ kl = 0 => high = p \/ OneOdd(highAvg)
           /\ kl = SampleSize => high = q \/ OneOdd(highAvg)
      <3>1. /\ kh = 0 => high = p
            /\ kh = SampleSize => high = q
            /\ kh = 1 \/ kh = SampleSize - 1 => (high = q /\ p = q) \/ OneOdd(highAvg)
        BY <1>2, <2>1, <2>4, <2>5, <2>7, Mixture
      <3>2. kl = 0 => kh = 0 \/ kh = 1
        BY <2>5
      <3>3. kl = SampleSize => kh = SampleSize \/ kh = SampleSize - 1
        BY <2>5, SlotsFinite
      <3> QED
        BY <3>1, <3>2, <3>3
    <2>14. StateOf(1930) = Unstable
      BY StateOfRaw DEF StateOf
    <2> SUFFICES ASSUME (~OneOdd(highAvg) /\ ~OneOdd(lowAvg)) \/ before = Unstable
                 PROVE  Reading \in {before, Shown, Unstable}
      BY DEF DoubtIsShort
    <2> HIDE DEF high, low, p, q, pl, ql
    <2>15. CASE output # "PWM"
      <3>1. Reading = StateOf(high)
        BY <2>2, <2>15, ReadWithoutPwm DEF high
      <3>2. Shown = StateOf(q)
        BY <2>9, <2>14, <2>15
      <3>3. CASE v # 0
        BY <2>8, <2>10, <3>1, <3>2, <3>3
      <3>4. CASE v = 0
        BY <2>8, <2>10, <3>1, <3>2, <3>4
      <3> QED
        BY <3>3, <3>4
    <2>16. CASE output = "PWM"
      <3>1. Reading = ReadRaw(TRUE, high, low)
        BY <2>2, <2>16 DEF high, low
      <3>2. CASE car = 0 /\ v = 0
        <4>1. ShortRaw(high, low) /\ Shown = "E"
          BY <2>8, <2>9, <2>10, <2>11, <2>16, <3>2 DEF ShortRaw
        <4>2. Reading = "E"
          BY <3>1, <4>1, ReadShort, Zenon
        <4> QED
          BY <4>1, <4>2
      <3>3. CASE car = 0 /\ v # 0
        <4>1. o = "PWM" /\ pl = 0 /\ ql = 1930 /\ q = 1930 /\ Shown = "E" /\ before = StateOf(p)
              /\ ~OneOdd(highAvg) /\ ~OneOdd(lowAvg)
          BY <2>4, <2>8, <2>9, <2>16, <3>3
        <4>2. (low = 0 /\ high = p) \/ ShortRaw(high, low)
          BY <2>12, <2>13, <4>1 DEF ShortRaw
        <4>3. low = 0 => Reading = StateOf(high)
          BY <3>1, ReadWithPwm, Zenon
        <4>4. ShortRaw(high, low) => Reading = "E"
          BY <3>1, ReadShort, Zenon
        <4> QED
          BY <4>1, <4>2, <4>3, <4>4
      <3>4. CASE car # 0 /\ v = 0
        <4>1. o = "PWM" /\ pl = 1930 /\ ql = 0 /\ p = 1930 /\ before = "E" /\ Shown = StateOf(q)
          BY <2>4, <2>8, <2>9, <2>16, <3>4
        <4>2. ~OneOdd(highAvg) /\ ~OneOdd(lowAvg)
          BY <4>1 DEF Unstable
        <4>3. ShortRaw(high, low) \/ (low = 0 /\ high = q)
          BY <2>12, <2>13, <4>1, <4>2 DEF ShortRaw
        <4>4. low = 0 => Reading = StateOf(high)
          BY <3>1, ReadWithPwm, Zenon
        <4>5. ShortRaw(high, low) => Reading = "E"
          BY <3>1, ReadShort, Zenon
        <4> QED
          BY <4>1, <4>3, <4>4, <4>5
      <3>5. CASE car # 0 /\ v # 0 /\ o # "P12"
        <4>1. low = 0
          BY <2>8, <2>9, <2>11, <2>16, <3>5
        <4>2. Reading = StateOf(high)
          BY <3>1, <4>1, ReadWithPwm, Zenon
        <4> QED
          BY <2>8, <2>9, <2>10, <3>5, <4>2
      <3>6. CASE car # 0 /\ v # 0 /\ o = "P12"
        <4>1. /\ v = car /\ p = Raw(v) /\ q = Raw(v) /\ pl = Raw(v) /\ ql = 0
              /\ Raw(v) # 0 /\ Raw(v) # 1930 /\ Shown = StateOf(q) /\ high = q
              /\ ~OneOdd(highAvg) /\ ~OneOdd(lowAvg)
          BY <2>4, <2>8, <2>9, <2>10, <2>16, <3>6
        <4>2. low = q \/ low = 0
          BY <2>12, <4>1
        <4>3. low = q => LateLow(high, low)
          BY <2>7, <4>1 DEF LateLow
        <4>4. LateLow(high, low) => Reading = Unstable
          BY <3>1, ReadLateLow, Zenon
        <4>5. low = 0 => Reading = StateOf(high)
          BY <3>1, ReadWithPwm, Zenon
        <4> QED
          BY <4>1, <4>2, <4>3, <4>4, <4>5
      <3> QED
        BY <3>2, <3>3, <3>4, <3>5, <3>6
    <2> QED
      BY <2>15, <2>16
  <1> QED
    BY <1>3, <1>4, <1>5, <1>6

\* For the sizes of the firmware and levels near the nominal ones, a change of a
\* settled signal is never read as a state that neither was nor is there, except while a ring has a
\* single sample from the other side of the change.
THEOREM DoubtOnlyByOneSample ==
    ASSUME FirmwareSizes, LevelsNominal
    PROVE  Spec => []DoubtIsShort
  BY DoubtfulReading, DoubtInvariant, PTL

=============================================================================
