--------------------------- MODULE PositionProofs ---------------------------
(***************************************************************************)
(* Machine-checked proofs about position reconciliation, for books of any  *)
(* number of legs, in any order, of any size and strike.                   *)
(***************************************************************************)
EXTENDS PositionReconciliation, Induction, FunctionTheorems, FiniteSetTheorems, TLAPS

-----------------------------------------------------------------------------
(* Counting contracts. *)

\* The contracts of the legs in S.
Size(n, S) == Cardinality(Units(n, S))

\* Legs of a book, each with a number of contracts.
Sizes(n, S, N) == S \subseteq 1..N /\ \A i \in S : n[i] \in Nat

\* A unit is of one of the legs.
LEMMA UnitOf ==
    ASSUME NEW n, NEW S, NEW u
    PROVE  u \in Units(n, S) <=> \E i \in S : \E c \in 1..n[i] : u = <<i, c>>
BY DEF Units

\* One leg has as many contracts as it says.
LEMMA OneLeg ==
    ASSUME NEW i, NEW k \in Nat
    PROVE  IsFiniteSet({i} \X (1..k)) /\ Cardinality({i} \X (1..k)) = k
<1> DEFINE T == {i} \X (1..k)
           f == [c \in 1..k |-> <<i, c>>]
<1>1. f \in [1..k -> T]
  OBVIOUS
<1>2. \A a, b \in 1..k : f[a] = f[b] => a = b
  OBVIOUS
<1>3. \A t \in T : \E c \in 1..k : f[c] = t
  OBVIOUS
<1> HIDE DEF f, T
<1>4. f \in Bijection(1..k, T)
  BY <1>1, <1>2, <1>3, Fun_IsBij
<1>5. IsFiniteSet(1..k) /\ Cardinality(1..k) = k
  BY FS_Interval
<1> QED
  BY <1>4, <1>5, FS_Bijection, Fun_ExistsBij DEF T

\* A leg and the others.
LEMMA UnitsSplit ==
    ASSUME NEW n, NEW S, NEW i \in S
    PROVE  /\ Units(n, S) = Units(n, S \ {i}) \cup ({i} \X (1..n[i]))
           /\ Units(n, S \ {i}) \cap ({i} \X (1..n[i])) = {}
BY DEF Units

\* Nothing without legs.
LEMMA UnitsNone == ASSUME NEW n PROVE Units(n, {}) = {}
BY DEF Units

\* A book has finitely many contracts.
LEMMA UnitsFinite ==
    ASSUME NEW N \in Nat, NEW n, NEW S, Sizes(n, S, N)
    PROVE  IsFiniteSet(Units(n, S)) /\ Size(n, S) \in Nat
<1> DEFINE P == {m \in 0..N : IsFiniteSet(Units(n, S \cap (1..m)))}
<1>1. 0 \in P
  <2>1. S \cap (1..0) = {}
    OBVIOUS
  <2> QED
    BY <2>1, UnitsNone, FS_EmptySet
<1>2. ASSUME NEW m \in 1..N, m - 1 \in P PROVE m \in P
  <2> DEFINE T == S \cap (1..m)
             U == S \cap (1..(m - 1))
  <2> SUFFICES IsFiniteSet(Units(n, T))
    OBVIOUS
  <2>1. CASE m \in S
    <3>1. m \in T /\ T \ {m} = U
      BY <2>1
    <3> HIDE DEF T, U
    <3>2. Units(n, T) = Units(n, U) \cup ({m} \X (1..n[m]))
      BY <3>1, UnitsSplit
    <3>3. IsFiniteSet({m} \X (1..n[m]))
      BY <2>1, OneLeg DEF Sizes
    <3>4. IsFiniteSet(Units(n, U))
      BY <1>2 DEF U
    <3>5. IsFiniteSet(Units(n, U) \cup ({m} \X (1..n[m])))
      BY <3>3, <3>4, FS_Union
    <3> QED
      BY <3>2, <3>5, Zenon
  <2>2. CASE m \notin S
    <3>1. T = U
      BY <2>2
    <3>2. IsFiniteSet(Units(n, U))
      BY <1>2
    <3> QED
      BY <3>1, <3>2, Zenon
  <2> QED
    BY <2>1, <2>2
<1> HIDE DEF P
<1>3. 0..N \subseteq P
  BY <1>1, <1>2, InductionUpTo
<1>4. S \cap (1..N) = S
  BY DEF Sizes
<1> QED
  BY <1>3, <1>4, FS_CardinalityType DEF P, Size

\* One leg less.
LEMMA SizeSplit ==
    ASSUME NEW N \in Nat, NEW n, NEW S, Sizes(n, S, N), NEW i \in S
    PROVE  Size(n, S) = Size(n, S \ {i}) + n[i]
<1> DEFINE A == Units(n, S \ {i})
           B == {i} \X (1..n[i])
<1>1. Sizes(n, S \ {i}, N) /\ n[i] \in Nat
  BY DEF Sizes
<1>2. IsFiniteSet(A) /\ Cardinality(A) \in Nat
  BY <1>1, UnitsFinite DEF Size
<1>3. IsFiniteSet(B) /\ Cardinality(B) = n[i]
  BY <1>1, OneLeg
<1>4. Units(n, S) = A \cup B /\ A \cap B = {}
  BY UnitsSplit
<1> HIDE DEF A, B
<1>5. Cardinality(A \cup B) = Cardinality(A) + Cardinality(B) - 0
  BY <1>2, <1>3, <1>4, FS_Union, FS_EmptySet
<1> QED
  BY <1>1, <1>2, <1>3, <1>4, <1>5 DEF Size, A

\* The same legs with the same contracts.
LEMMA SizeSame ==
    ASSUME NEW n, NEW m, NEW S, \A i \in S : n[i] = m[i] PROVE Size(n, S) = Size(m, S)
<1>1. Units(n, S) = Units(m, S)
  BY DEF Units
<1> QED
  BY <1>1 DEF Size

\* More legs with more contracts.
LEMMA SizeSmaller ==
    ASSUME NEW N \in Nat, NEW n, NEW S, Sizes(n, S, N), NEW m, NEW T, Sizes(m, T, N),
           S \subseteq T, \A i \in S : n[i] <= m[i]
    PROVE  Size(n, S) <= Size(m, T)
<1>1. Units(n, S) \subseteq Units(m, T)
  <2> SUFFICES ASSUME NEW u \in Units(n, S) PROVE u \in Units(m, T)
    OBVIOUS
  <2>1. PICK i \in S : \E c \in 1..n[i] : u = <<i, c>>
    BY UnitOf
  <2>2. 1..n[i] \subseteq 1..m[i] /\ i \in T
    BY DEF Sizes
  <2> QED
    BY <2>1, <2>2, UnitOf
<1>2. IsFiniteSet(Units(m, T))
  BY UnitsFinite
<1> QED
  BY <1>1, <1>2, FS_Subset DEF Size

\* No contracts in any leg.
LEMMA SizeZero == ASSUME NEW n, NEW S, \A i \in S : n[i] = 0 PROVE Size(n, S) = 0
<1>1. Units(n, S) = {}
  BY DEF Units
<1> QED
  BY <1>1, FS_EmptySet DEF Size

-----------------------------------------------------------------------------
(* sorted(). *)

\* What sorted() returns: every leg once, in the order of the keys.
InOrder(order, S, key) ==
    /\ Len(order) \in Nat
    /\ \A n \in 1..Len(order) : order[n] \in S
    /\ \A i \in S : \E n \in 1..Len(order) : order[n] = i
    /\ \A m, n \in 1..Len(order) :
          m < n => order[m] # order[n] /\ key[order[m]] <= key[order[n]]

\* The place of a leg is the number of legs that come no later, so that no place is taken
\* twice and none is left out.
LEMMA SortedOrder ==
    ASSUME NEW N \in Nat, NEW S, S \subseteq 1..N, NEW key, \A i \in S : key[i] \in Int
    PROVE  InOrder(SortedBy(S, key), S, key)
<1> DEFINE U(i) == {j \in S : key[j] < key[i] \/ (key[j] = key[i] /\ j <= i)}
           M == Cardinality(S)
           rank == [i \in S |-> Cardinality(U(i))]
           order == SortedBy(S, key)
<1>1. IsFiniteSet(S) /\ M \in Nat
  <2>1. IsFiniteSet(1..N) /\ S \in SUBSET (1..N)
    BY FS_Interval
  <2>2. IsFiniteSet(S)
    BY <2>1, FS_Subset
  <2> QED
    BY <2>2, FS_CardinalityType
<1>2. ASSUME NEW i \in S PROVE /\ IsFiniteSet(U(i)) /\ i \in U(i) /\ Cardinality(U(i)) \in 1..M
  <2>1. U(i) \in SUBSET S /\ i \in U(i)
    OBVIOUS
  <2> HIDE DEF U
  <2>2. IsFiniteSet(U(i)) /\ Cardinality(U(i)) <= M /\ Cardinality(U(i)) \in Nat
    BY <1>1, <2>1, FS_Subset, FS_CardinalityType
  <2>3. Cardinality(U(i)) # 0
    BY <2>1, <2>2, FS_EmptySet
  <2> QED
    BY <1>1, <2>1, <2>2, <2>3
<1>3. ASSUME NEW i \in S, NEW j \in S, key[i] < key[j] \/ (key[i] = key[j] /\ i < j)
      PROVE  Cardinality(U(i)) < Cardinality(U(j))
  <2>0. /\ i \in Int /\ j \in Int /\ key[i] \in Int /\ key[j] \in Int
        /\ \A k \in S : k \in Int /\ key[k] \in Int
    OBVIOUS
  <2>1. U(i) \in SUBSET U(j) /\ j \notin U(i)
    <3>1. ASSUME NEW k \in S, key[k] < key[i] \/ (key[k] = key[i] /\ k <= i)
          PROVE  key[k] < key[j] \/ (key[k] = key[j] /\ k <= j)
      <4>1. k \in Int /\ key[k] \in Int
        BY <2>0
      <4> QED
        BY <1>3, <2>0, <3>1, <4>1
    <3>2. ~(key[j] < key[i] \/ (key[j] = key[i] /\ j <= i))
      BY <1>3, <2>0
    <3> QED
      BY <3>1, <3>2
  <2>2. j \in U(j) /\ IsFiniteSet(U(j)) /\ Cardinality(U(i)) \in Nat /\ Cardinality(U(j)) \in Nat
    BY <1>2
  <2> HIDE DEF U
  <2>3. /\ Cardinality(U(i)) <= Cardinality(U(j))
        /\ Cardinality(U(j)) = Cardinality(U(i)) => U(j) = U(i)
    BY <2>1, <2>2, FS_Subset
  <2> QED
    BY <2>1, <2>2, <2>3
<1> HIDE DEF U
<1>4. rank \in [S -> 1..M] /\ \A i \in S : rank[i] = Cardinality(U(i))
  BY <1>2
<1>5. ASSUME NEW i \in S, NEW j \in S, rank[i] = rank[j] PROVE i = j
  <2>1. key[i] \in Int /\ key[j] \in Int /\ i \in Nat /\ j \in Nat
    OBVIOUS
  <2>2. rank[i] \in Nat /\ ~(rank[i] < rank[j]) /\ ~(rank[j] < rank[i])
    BY <1>4, <1>5
  <2>3. ~(key[i] < key[j] \/ (key[i] = key[j] /\ i < j))
    BY <1>3, <1>4, <2>2
  <2>4. ~(key[j] < key[i] \/ (key[j] = key[i] /\ j < i))
    BY <1>3, <1>4, <2>2
  <2> QED
    BY <2>1, <2>3, <2>4
<1> HIDE DEF rank
<1>6. rank \in Surjection(S, 1..M)
  <2>1. rank \in Injection(S, 1..M)
    BY <1>4, <1>5, Fun_IsInj
  <2>2. IsFiniteSet(1..M) /\ Cardinality(1..M) = M
    BY <1>1, FS_Interval
  <2> QED
    BY <2>1, <2>2, FS_Injection
<1>7. \A n \in 1..M : \E i \in S : rank[i] = n
  BY <1>6, Fun_SurjectionProperties
<1>8. order = [n \in 1..M |-> CHOOSE i \in S : Cardinality(U(i)) = n]
  BY DEF SortedBy, U
<1>9. ASSUME NEW n \in 1..M PROVE order[n] \in S /\ rank[order[n]] = n
  <2>1. \E i \in S : Cardinality(U(i)) = n
    BY <1>4, <1>7
  <2>2. order[n] = CHOOSE i \in S : Cardinality(U(i)) = n
    BY <1>8
  <2> HIDE DEF order
  <2>3. order[n] \in S /\ Cardinality(U(order[n])) = n
    BY <2>1, <2>2
  <2> QED
    BY <1>4, <2>3
<1>10. Len(order) = M
  BY <1>1, <1>8
<1> HIDE DEF order, M
<1>11. \A i \in S : \E n \in 1..M : order[n] = i
  BY <1>4, <1>5, <1>9
<1>12. ASSUME NEW m \in 1..M, NEW n \in 1..M, m < n
       PROVE  order[m] # order[n] /\ key[order[m]] <= key[order[n]]
  <2>1. /\ order[m] \in S /\ order[n] \in S /\ rank[order[m]] = m /\ rank[order[n]] = n
        /\ key[order[m]] \in Int /\ key[order[n]] \in Int
    BY <1>9
  <2>2. key[order[n]] < key[order[m]] => n < m
    <3>1. \A i, j \in S : key[i] < key[j] => rank[i] < rank[j]
      BY <1>3, <1>4
    <3> QED
      BY <2>1, <3>1
  <2> QED
    BY <1>12, <2>1, <2>2
<1> QED
  BY <1>1, <1>9, <1>10, <1>11, <1>12 DEF InOrder, order

-----------------------------------------------------------------------------
(* One short: the inner loop. *)

\* A book: a tuple of legs.
Book(legs) == legs \in Seq(PositionLeg)

\* The legs of a book are numbered, and a long is not a short.
LEMMA BookShape ==
    ASSUME NEW legs, Book(legs)
    PROVE  /\ Len(legs) \in Nat /\ DOMAIN legs = 1..Len(legs)
           /\ \A i \in DOMAIN legs : legs[i] \in PositionLeg
           /\ \A i \in DOMAIN legs : /\ legs[i].contracts \in Nat /\ legs[i].contracts > 0
                                     /\ legs[i].strike \in Nat
                                     /\ legs[i].option_type \in {"PUT", "CALL"}
           /\ Shorts(legs) \subseteq 1..Len(legs) /\ Longs(legs) \subseteq 1..Len(legs)
<1>1. Len(legs) \in Nat /\ DOMAIN legs = 1..Len(legs)
  BY DEF Book
<1>2. \A i \in DOMAIN legs : legs[i] \in PositionLeg
  BY DEF Book
<1> QED
  BY <1>1, <1>2 DEF PositionLeg, Shorts, Longs

\* What the inner loop works on, with the longs L.
Allocs(L) == [needed : Nat, remaining : [L -> Nat]]

\* What one pass takes from long i.
LEMMA TakeEffect ==
    ASSUME NEW L, NEW a \in Allocs(L), NEW i \in L
    PROVE  /\ TakeFrom(a, i) \in Allocs(L)
           /\ \E t \in Nat : /\ t <= a.needed /\ t <= a.remaining[i]
                             /\ t = a.needed \/ t = a.remaining[i]
                             /\ TakeFrom(a, i).needed = a.needed - t
                             /\ TakeFrom(a, i).remaining = [a.remaining EXCEPT ![i] = @ - t]
<1> DEFINE t == Least(a.needed, a.remaining[i])
<1>1. a.needed \in Nat /\ a.remaining \in [L -> Nat] /\ a.remaining[i] \in Nat
  BY DEF Allocs
<1>2. /\ t \in Nat /\ t <= a.needed /\ t <= a.remaining[i]
      /\ t = a.needed \/ t = a.remaining[i]
  BY <1>1 DEF Least
<1>3. TakeFrom(a, i) = [needed |-> a.needed - t, remaining |-> [a.remaining EXCEPT ![i] = @ - t]]
  BY DEF TakeFrom
<1> HIDE DEF t
<1>4. a.needed - t \in Nat /\ a.remaining[i] - t \in Nat
  BY <1>1, <1>2
<1>5. [a.remaining EXCEPT ![i] = @ - t] \in [L -> Nat]
  BY <1>1, <1>4
<1>6. TakeFrom(a, i) \in Allocs(L)
  BY <1>3, <1>4, <1>5 DEF Allocs
<1>7. /\ TakeFrom(a, i).needed = a.needed - t
      /\ TakeFrom(a, i).remaining = [a.remaining EXCEPT ![i] = @ - t]
  BY <1>3
<1> QED
  BY <1>2, <1>6, <1>7

\* g lists the values of the inner loop, over the longs in this order.
Passes(g, order, a, L) ==
    /\ g \in [0..Len(order) -> Allocs(L)] /\ g[0] = a
    /\ \A n \in 1..Len(order) : g[n] = TakeFrom(g[n - 1], order[n])

\* The values of the inner loop.
LEMMA AllocateValues ==
    ASSUME NEW legs, Book(legs), NEW short \in PositionLeg,
           NEW remaining \in [Longs(legs) -> Nat]
    PROVE  LET order == eligible_longs_least_flexible_first(short, legs)
               a == [needed |-> short.contracts, remaining |-> remaining]
           IN  /\ \E key : InOrder(order, eligible_longs(short, legs), key)
               /\ \E g : /\ Passes(g, order, a, Longs(legs))
                         /\ allocate(short, legs, remaining) = g[Len(order)]
<1> DEFINE E == eligible_longs(short, legs)
           L == Longs(legs)
           key == [i \in DOMAIN legs |-> IF short.option_type = "PUT" THEN -legs[i].strike
                                                                     ELSE legs[i].strike]
           order == eligible_longs_least_flexible_first(short, legs)
           M == Len(order)
           c == [needed |-> short.contracts, remaining |-> remaining]
           d == [x \in Allocs(L) \X (1..M) |-> TakeFrom(x[1], order[x[2]])]
           Is(g) == g = [n \in 0..M |-> IF n = 0 THEN c ELSE TakeFrom(g[n - 1], order[n])]
           t == CHOOSE g : Is(g)
<1>1. E \subseteq 1..Len(legs) /\ Len(legs) \in Nat /\ \A i \in E : key[i] \in Int
  BY BookShape DEF eligible_longs
<1>2. InOrder(order, E, key)
  BY <1>1, SortedOrder DEF eligible_longs_least_flexible_first
<1>3. /\ M \in Nat /\ \A n \in 1..M : order[n] \in E
      /\ \A i \in E : \E n \in 1..M : order[n] = i
  BY <1>2 DEF InOrder
<1>4. E \subseteq L
  BY DEF eligible_longs
<1>5. allocate(short, legs, remaining) = t[M]
  BY DEF allocate
<1>6. c \in Allocs(L)
  BY DEF Allocs, PositionLeg
<1> HIDE DEF order, M, c, E, L
<1>7. \A a \in Allocs(L), n \in 1..M : TakeFrom(a, order[n]) \in Allocs(L)
  BY <1>3, <1>4, TakeEffect
<1>8. d \in Body(Allocs(L), M)
  BY <1>7 DEF Body
<1>9. \A a \in Allocs(L), n \in 1..M : d[<<a, n>>] = TakeFrom(a, order[n])
  OBVIOUS
<1> HIDE DEF d
<1>10. PICK g \in [0..M -> Allocs(L)] : Lists(g, M, c, d)
  BY <1>3, <1>6, <1>8, LoopValues
<1>11. g[0] = c /\ \A n \in 1..M : n - 1 \in 0..M /\ g[n] = TakeFrom(g[n - 1], order[n])
  <2>1. \A n \in 1..M : n - 1 \in 0..M /\ g[n - 1] \in Allocs(L)
    BY <1>3
  <2>2. g[0] = c /\ \A n \in 1..M : g[n] = d[<<g[n - 1], n>>]
    BY <1>10 DEF Lists
  <2> QED
    BY <2>1, <2>2, <1>9
<1>12. Is(g)
  BY <1>11
<1>13. Is(t)
  <2> HIDE DEF Is
  <2> QED
    BY <1>12
<1> HIDE DEF t
<1>14. t \in [0..M -> Allocs(L)] /\ t[0] = c /\ \A n \in 1..M : t[n] = TakeFrom(t[n - 1], order[n])
  <2>1. t[0] = c /\ \A n \in 1..M : t[n] = TakeFrom(t[n - 1], order[n])
    BY <1>3, <1>13
  <2> DEFINE P == {n \in 0..M : t[n] \in Allocs(L)}
  <2>2. 0 \in P
    BY <1>3, <1>6, <2>1
  <2>3. ASSUME NEW n \in 1..M, n - 1 \in P PROVE n \in P
    BY <1>7, <2>1, <2>3
  <2> HIDE DEF P
  <2>4. 0..M \subseteq P
    BY <1>3, <2>2, <2>3, InductionUpTo
  <2>5. \A n \in 0..M : t[n] \in Allocs(L)
    BY <2>4 DEF P
  <2>6. t = [n \in 0..M |-> t[n]]
    BY <1>13
  <2> QED
    BY <2>1, <2>5, <2>6
<1>15. Passes(t, order, c, L)
  BY <1>14 DEF Passes, M
<1> QED
  BY <1>2, <1>5, <1>15 DEF order, M, c, E, L

\* What has been taken since a: only from the longs of E, and as much as is needed less.
Took(a, b, E, L) ==
    /\ \A j \in L : /\ b.remaining[j] <= a.remaining[j]
                    /\ j \notin E => b.remaining[j] = a.remaining[j]
    /\ \A B \in SUBSET L :
          E \subseteq B => Size(b.remaining, B) + a.needed = Size(a.remaining, B) + b.needed

\* One pass more.
LEMMA TookMore ==
    ASSUME NEW N \in Nat, NEW L, L \subseteq 1..N, NEW E, E \subseteq L, NEW i \in E,
           NEW a \in Allocs(L), NEW b \in Allocs(L), Took(a, b, E, L)
    PROVE  Took(a, TakeFrom(b, i), E, L)
<1> DEFINE b2 == TakeFrom(b, i)
<1>1. b2 \in Allocs(L)
  BY TakeEffect
<1>2. PICK t \in Nat : /\ t <= b.needed /\ t <= b.remaining[i]
                       /\ b2.needed = b.needed - t
                       /\ b2.remaining = [b.remaining EXCEPT ![i] = @ - t]
  BY TakeEffect
<1> HIDE DEF b2
<1>3. /\ a.needed \in Nat /\ b.needed \in Nat /\ b2.needed \in Nat
      /\ \A j \in L : a.remaining[j] \in Nat /\ b.remaining[j] \in Nat /\ b2.remaining[j] \in Nat
  BY <1>1 DEF Allocs
<1>4. /\ \A j \in L : j # i => b2.remaining[j] = b.remaining[j]
      /\ b2.remaining[i] = b.remaining[i] - t
  BY <1>2 DEF Allocs
<1>5. ASSUME NEW j \in L PROVE /\ b2.remaining[j] <= a.remaining[j]
                               /\ j \notin E => b2.remaining[j] = a.remaining[j]
  <2>1. b.remaining[j] <= a.remaining[j] /\ (j \notin E => b.remaining[j] = a.remaining[j])
    BY DEF Took
  <2>2. CASE j = i
    BY <1>2, <1>3, <1>4, <2>1, <2>2
  <2>3. CASE j # i
    <3>1. b2.remaining[j] = b.remaining[j]
      BY <1>4, <2>3
    <3> QED
      BY <2>1, <3>1
  <2> QED
    BY <2>2, <2>3
<1>6. ASSUME NEW B \in SUBSET L, E \subseteq B
      PROVE  Size(b2.remaining, B) + a.needed = Size(a.remaining, B) + b2.needed
  <2>1. Size(b.remaining, B) + a.needed = Size(a.remaining, B) + b.needed
    BY <1>6 DEF Took
  <2>2. Sizes(a.remaining, B, N) /\ Sizes(b.remaining, B, N) /\ Sizes(b2.remaining, B, N) /\ i \in B
    BY <1>3, <1>6 DEF Sizes
  <2>3. /\ Size(b.remaining, B) = Size(b.remaining, B \ {i}) + b.remaining[i]
        /\ Size(b2.remaining, B) = Size(b2.remaining, B \ {i}) + b2.remaining[i]
    BY <2>2, SizeSplit
  <2>4. Size(b.remaining, B \ {i}) = Size(b2.remaining, B \ {i})
    <3>1. \A j \in B \ {i} : b.remaining[j] = b2.remaining[j]
      BY <1>4
    <3> QED
      BY <3>1, SizeSame
  <2>5. Sizes(b.remaining, B \ {i}, N)
    BY <2>2 DEF Sizes
  <2>6. Size(b.remaining, B \ {i}) \in Nat /\ Size(a.remaining, B) \in Nat
    BY <2>2, <2>5, UnitsFinite
  <2> QED
    BY <1>2, <1>3, <1>4, <2>1, <2>3, <2>4, <2>6
<1> QED
  BY <1>5, <1>6 DEF Took, b2

\* What the inner loop leaves: the contracts of the short are taken from its eligible longs,
\* and if some are still needed, those longs have nothing left.
LEMMA Allocated ==
    ASSUME NEW legs, Book(legs), NEW short \in PositionLeg,
           NEW remaining \in [Longs(legs) -> Nat]
    PROVE  LET a == [needed |-> short.contracts, remaining |-> remaining]
               b == allocate(short, legs, remaining)
               E == eligible_longs(short, legs)
           IN  /\ b \in Allocs(Longs(legs)) /\ Took(a, b, E, Longs(legs))
               /\ b.needed > 0 => \A j \in E : b.remaining[j] = 0
<1> DEFINE L == Longs(legs)
           E == eligible_longs(short, legs)
           order == eligible_longs_least_flexible_first(short, legs)
           M == Len(order)
           a == [needed |-> short.contracts, remaining |-> remaining]
           N == Len(legs)
<1>0. /\ \E key : InOrder(order, E, key)
      /\ \E g : Passes(g, order, a, L) /\ allocate(short, legs, remaining) = g[M]
  BY AllocateValues
<1>1. /\ M \in Nat /\ \A n \in 1..M : order[n] \in E
      /\ \A i \in E : \E n \in 1..M : order[n] = i
  BY <1>0 DEF InOrder
<1>2. PICK g : /\ g \in [0..M -> Allocs(L)]
               /\ g[0] = a /\ \A n \in 1..M : g[n] = TakeFrom(g[n - 1], order[n])
               /\ allocate(short, legs, remaining) = g[M]
  BY <1>0 DEF Passes
<1>3. N \in Nat /\ L \subseteq 1..N /\ E \subseteq L
  BY BookShape DEF eligible_longs
<1>4. a \in Allocs(L) /\ a.needed \in Nat /\ a.remaining \in [L -> Nat]
  BY DEF Allocs, PositionLeg
<1> HIDE DEF L, E, order, M, a, N
<1> DEFINE Exhausted(n) == g[n].needed > 0 => \A m \in 1..n : g[n].remaining[order[m]] = 0
           P == {n \in 0..M : Took(a, g[n], E, L) /\ Exhausted(n)}
<1>5. 0 \in P
  <2>1. \A j \in L : a.remaining[j] \in Nat
    BY <1>4
  <2>2. Took(a, a, E, L)
    BY <2>1 DEF Took
  <2> QED
    BY <1>1, <1>2, <2>2
<1>6. ASSUME NEW n \in 1..M, n - 1 \in P PROVE n \in P
  <2> DEFINE i == order[n]
             b == g[n - 1]
  <2>1. /\ n - 1 \in 0..M /\ n \in 0..M /\ b \in Allocs(L) /\ i \in E /\ i \in L
        /\ g[n] = TakeFrom(b, i)
    <3>1. n - 1 \in 0..M /\ n \in 0..M
      BY <1>1
    <3> QED
      BY <1>1, <1>2, <1>3, <3>1
  <2>2. Took(a, b, E, L) /\ Exhausted(n - 1)
    BY <1>6
  <2>0. \A m \in 1..n : m # n => m \in 1..(n - 1)
    BY <1>1
  <2>5. b.needed > 0 => \A m \in 1..(n - 1) : b.remaining[order[m]] = 0
    BY <2>2
  <2> HIDE DEF b, Exhausted
  <2>6. ASSUME NEW m \in 1..n PROVE order[m] \in L /\ (order[m] # i => m # n)
    <3>1. m \in 1..M
      BY <1>1
    <3> QED
      BY <1>1, <1>3, <3>1
  <2> HIDE DEF i
  <2>3. Took(a, g[n], E, L)
    <3>1. Took(a, TakeFrom(b, i), E, L)
      BY <1>3, <1>4, <2>1, <2>2, TookMore
    <3> QED
      BY <2>1, <3>1
  <2>4. ASSUME g[n].needed > 0, NEW m \in 1..n PROVE g[n].remaining[order[m]] = 0
    <3>1. PICK t \in Nat : /\ t <= b.needed /\ t <= b.remaining[i]
                           /\ t = b.needed \/ t = b.remaining[i]
                           /\ g[n].needed = b.needed - t
                           /\ g[n].remaining = [b.remaining EXCEPT ![i] = @ - t]
      BY <2>1, TakeEffect
    <3>2. b.needed \in Nat /\ b.remaining \in [L -> Nat] /\ b.remaining[i] \in Nat
      BY <2>1 DEF Allocs
    <3>3. t = b.remaining[i] /\ b.needed > 0
      BY <2>4, <3>1, <3>2
    <3>4. g[n].remaining[i] = 0
      BY <2>1, <3>1, <3>2, <3>3
    <3>5. CASE order[m] = i
      BY <3>4, <3>5
    <3>6. CASE order[m] # i
      <4>1. m \in 1..(n - 1) /\ order[m] \in L
        BY <2>0, <2>6, <3>6
      <4>2. b.remaining[order[m]] = 0
        BY <2>5, <3>3, <4>1
      <4> QED
        BY <3>1, <3>2, <3>6, <4>1, <4>2
    <3> QED
      BY <3>5, <3>6
  <2> QED
    BY <2>1, <2>3, <2>4 DEF Exhausted
<1> HIDE DEF P
<1>7. 0..M \subseteq P
  BY <1>1, <1>5, <1>6, InductionUpTo
<1>8. Took(a, g[M], E, L) /\ Exhausted(M) /\ g[M] \in Allocs(L)
  BY <1>1, <1>2, <1>7 DEF P
<1>9. g[M].needed > 0 => \A j \in E : g[M].remaining[j] = 0
  BY <1>1, <1>8
<1> QED
  BY <1>2, <1>8, <1>9 DEF L, E, a

-----------------------------------------------------------------------------
(* All shorts: the outer loop. *)

\* The legs of leg k's expiration and type at or beyond its strike: the shorts among them,
\* and the longs that are not at the strike itself.
At(legs, k) ==
    {i \in DOMAIN legs :
        /\ legs[i].underlying = legs[k].underlying /\ legs[i].option_type = legs[k].option_type
        /\ legs[i].expiration_date = legs[k].expiration_date
        /\ IF legs[k].option_type = "PUT" THEN legs[i].strike <= legs[k].strike
                                          ELSE legs[i].strike >= legs[k].strike}
ShortsAt(legs, k) == At(legs, k) \cap Shorts(legs)
LongsBeyond(legs, k) == {i \in At(legs, k) \cap Longs(legs) : legs[i].strike # legs[k].strike}

\* Protection by counting: however far the market moves, no more contracts of one expiration
\* and type are short at or beyond a strike than are long beyond it.
Coverable(legs) ==
    \A k \in DOMAIN legs :
        Size(Counts(legs), ShortsAt(legs, k)) <= Size(Counts(legs), LongsBeyond(legs, k))

\* The sort key of every leg.
Constraint(legs) ==
    [i \in DOMAIN legs |-> IF legs[i].option_type = "PUT" THEN legs[i].strike ELSE -legs[i].strike]

\* What the outer loop works on.
Covers(legs) == [remaining : [Longs(legs) -> Nat], unprotected : SUBSET Shorts(legs)]

\* The longs eligible for a short are those beyond it; a leg beyond another has fewer; and
\* a short that comes earlier either is beyond a later one or shares no long with it.
LEMMA LongsNested ==
    ASSUME NEW legs, Book(legs)
    PROVE  /\ \A i \in Shorts(legs) : eligible_longs(legs[i], legs) = LongsBeyond(legs, i)
           /\ \A k \in DOMAIN legs : \A i \in At(legs, k) :
                 LongsBeyond(legs, i) \subseteq LongsBeyond(legs, k)
           /\ \A i, k \in Shorts(legs) :
                 Constraint(legs)[i] <= Constraint(legs)[k] =>
                     i \in At(legs, k) \/ LongsBeyond(legs, i) \cap LongsBeyond(legs, k) = {}
<1>1. \A i \in DOMAIN legs : legs[i].strike \in Nat /\ legs[i].option_type \in {"PUT", "CALL"}
  BY BookShape
<1>2. ASSUME NEW i \in Shorts(legs), NEW j
      PROVE  j \in eligible_longs(legs[i], legs) <=> j \in LongsBeyond(legs, i)
  <2>1. i \in DOMAIN legs
    BY DEF Shorts
  <2>2. CASE j \in Longs(legs)
    <3>1. j \in DOMAIN legs
      BY <2>2 DEF Longs
    <3>2. legs[i].strike \in Nat /\ legs[j].strike \in Nat
      BY <1>1, <2>1, <3>1
    <3> QED
      BY <2>2, <3>1, <3>2 DEF eligible_longs, is_protective_long_for, LongsBeyond, At
  <2>3. CASE j \notin Longs(legs)
    BY <2>3 DEF eligible_longs, LongsBeyond
  <2> QED
    BY <2>2, <2>3
<1>3. ASSUME NEW k \in DOMAIN legs, NEW i \in At(legs, k), NEW j \in LongsBeyond(legs, i)
      PROVE  j \in LongsBeyond(legs, k)
  <2>1. i \in DOMAIN legs /\ j \in DOMAIN legs /\ j \in Longs(legs)
    BY DEF At, LongsBeyond
  <2>2. legs[i].strike \in Nat /\ legs[j].strike \in Nat /\ legs[k].strike \in Nat
    BY <1>1, <2>1
  <2> QED
    BY <2>1, <2>2 DEF At, LongsBeyond
<1>4. ASSUME NEW i \in Shorts(legs), NEW k \in Shorts(legs),
             Constraint(legs)[i] <= Constraint(legs)[k],
             NEW j \in LongsBeyond(legs, i) \cap LongsBeyond(legs, k)
      PROVE  i \in At(legs, k)
  <2>1. i \in DOMAIN legs /\ k \in DOMAIN legs /\ j \in DOMAIN legs
    BY DEF Shorts, LongsBeyond, At
  <2>2. legs[i].strike \in Nat /\ legs[k].strike \in Nat /\ legs[j].strike \in Nat
    BY <1>1, <2>1
  <2>3. /\ legs[i].underlying = legs[k].underlying /\ legs[i].option_type = legs[k].option_type
        /\ legs[i].expiration_date = legs[k].expiration_date
    BY DEF LongsBeyond, At
  <2>4. IF legs[k].option_type = "PUT" THEN legs[i].strike <= legs[k].strike
                                       ELSE legs[i].strike >= legs[k].strike
    BY <1>4, <2>1, <2>2, <2>3 DEF Constraint
  <2> QED
    BY <2>1, <2>3, <2>4 DEF At
<1> QED
  BY <1>2, <1>3, <1>4

\* What one pass of the outer loop does.
LEMMA CoverEffect ==
    ASSUME NEW legs, Book(legs), NEW i \in Shorts(legs), NEW s \in Covers(legs)
    PROVE  LET b == cover(s, i, legs)
               E == LongsBeyond(legs, i)
           IN  /\ b \in Covers(legs)
               /\ \A j \in Longs(legs) : /\ b.remaining[j] <= s.remaining[j]
                                         /\ j \notin E => b.remaining[j] = s.remaining[j]
               /\ \E needed \in Nat :
                     /\ b.unprotected = s.unprotected \cup {j \in {i} : needed > 0}
                     /\ needed > 0 => \A j \in E : b.remaining[j] = 0
                     /\ \A B \in SUBSET Longs(legs) : E \subseteq B =>
                           Size(b.remaining, B) + legs[i].contracts = Size(s.remaining, B) + needed
<1> DEFINE L == Longs(legs)
           E == LongsBeyond(legs, i)
           a == [needed |-> legs[i].contracts, remaining |-> s.remaining]
           q == allocate(legs[i], legs, s.remaining)
           b == cover(s, i, legs)
<1>1. legs[i] \in PositionLeg
  BY BookShape DEF Shorts
<1>2. s.remaining \in [L -> Nat] /\ s.unprotected \in SUBSET Shorts(legs)
  BY DEF Covers
<1>3. /\ q \in Allocs(L) /\ Took(a, q, eligible_longs(legs[i], legs), L)
      /\ q.needed > 0 => \A j \in eligible_longs(legs[i], legs) : q.remaining[j] = 0
  BY <1>1, <1>2, Allocated
<1>4. eligible_longs(legs[i], legs) = E
  BY LongsNested
<1>5. b.remaining = q.remaining /\ b.unprotected = s.unprotected \cup {j \in {i} : q.needed > 0}
  BY DEF cover
<1>6. b = [remaining |-> b.remaining, unprotected |-> b.unprotected]
  BY DEF cover
<1>7. a.needed = legs[i].contracts /\ a.remaining = s.remaining
  OBVIOUS
<1>8. q.needed \in Nat /\ q.remaining \in [L -> Nat]
  BY <1>3 DEF Allocs
<1> HIDE DEF a, q, b, E, L
<1>9. b \in Covers(legs)
  <2>1. b.remaining \in [L -> Nat] /\ b.unprotected \in SUBSET Shorts(legs)
    BY <1>2, <1>5, <1>8
  <2> QED
    BY <1>6, <2>1 DEF Covers, L
<1>10. \A j \in L : /\ b.remaining[j] <= s.remaining[j]
                    /\ j \notin E => b.remaining[j] = s.remaining[j]
  BY <1>3, <1>4, <1>5, <1>7 DEF Took
<1>11. \A B \in SUBSET L : E \subseteq B =>
          Size(b.remaining, B) + legs[i].contracts = Size(s.remaining, B) + q.needed
  BY <1>3, <1>4, <1>5, <1>7 DEF Took
<1>12. q.needed > 0 => \A j \in E : b.remaining[j] = 0
  BY <1>3, <1>4, <1>5
<1> QED
  BY <1>5, <1>8, <1>9, <1>10, <1>11, <1>12 DEF b, E, L

\* The values of the outer loop.
LEMMA CoverValues ==
    ASSUME NEW legs, Book(legs)
    PROVE  LET order == shorts_most_constrained_first(legs)
               s == covered_after(legs)
           IN  /\ InOrder(order, Shorts(legs), Constraint(legs))
               /\ s[0] = [remaining |-> [i \in Longs(legs) |-> legs[i].contracts],
                          unprotected |-> {}]
               /\ \A n \in 0..Len(order) : s[n] \in Covers(legs)
               /\ \A n \in 1..Len(order) : s[n] = cover(s[n - 1], order[n], legs)
<1> DEFINE S == Shorts(legs)
           order == shorts_most_constrained_first(legs)
           M == Len(order)
           c == [remaining |-> [i \in Longs(legs) |-> legs[i].contracts], unprotected |-> {}]
           d == [x \in Covers(legs) \X (1..M) |-> cover(x[1], order[x[2]], legs)]
           Is(g) == g = [n \in 0..M |-> IF n = 0 THEN c ELSE cover(g[n - 1], order[n], legs)]
           t == covered_after(legs)
<1>1. S \subseteq 1..Len(legs) /\ Len(legs) \in Nat /\ \A i \in S : Constraint(legs)[i] \in Int
  BY BookShape DEF Shorts, Constraint
<1>2. InOrder(order, S, Constraint(legs))
  BY <1>1, SortedOrder DEF shorts_most_constrained_first, Constraint
<1>3. M \in Nat /\ \A n \in 1..M : order[n] \in S
  BY <1>2 DEF InOrder
<1>4. t = CHOOSE g : Is(g)
  BY DEF covered_after
<1>5. c \in Covers(legs)
  BY BookShape DEF Covers, Longs
<1> HIDE DEF order, M, c, S
<1>6. \A s \in Covers(legs), n \in 1..M : cover(s, order[n], legs) \in Covers(legs)
  BY <1>3, CoverEffect DEF S
<1>7. d \in Body(Covers(legs), M)
  BY <1>6 DEF Body
<1>8. \A s \in Covers(legs), n \in 1..M : d[<<s, n>>] = cover(s, order[n], legs)
  OBVIOUS
<1> HIDE DEF d, t
<1>9. PICK g \in [0..M -> Covers(legs)] : Lists(g, M, c, d)
  BY <1>3, <1>5, <1>7, LoopValues
<1>10. g[0] = c /\ \A n \in 1..M : n - 1 \in 0..M /\ g[n] = cover(g[n - 1], order[n], legs)
  <2>1. \A n \in 1..M : n - 1 \in 0..M /\ g[n - 1] \in Covers(legs)
    BY <1>3
  <2>2. g[0] = c /\ \A n \in 1..M : g[n] = d[<<g[n - 1], n>>]
    BY <1>9 DEF Lists
  <2> QED
    BY <2>1, <2>2, <1>8
<1>11. Is(g)
  BY <1>10
<1>12. Is(t)
  <2> HIDE DEF Is
  <2> QED
    BY <1>4, <1>11
<1>13. t[0] = c /\ \A n \in 1..M : t[n] = cover(t[n - 1], order[n], legs)
  BY <1>3, <1>12
<1> DEFINE P == {n \in 0..M : t[n] \in Covers(legs)}
<1>14. 0 \in P
  BY <1>3, <1>5, <1>13
<1>15. ASSUME NEW n \in 1..M, n - 1 \in P PROVE n \in P
  BY <1>6, <1>13, <1>15
<1> HIDE DEF P
<1>16. 0..M \subseteq P
  BY <1>3, <1>14, <1>15, InductionUpTo
<1>17. \A n \in 0..M : t[n] \in Covers(legs)
  BY <1>16 DEF P
<1> QED
  BY <1>2, <1>13, <1>17 DEF order, M, c, S, t

\* f gives every contract of the shorts D a contract of its own, among T, that protects it.
Assigns(f, legs, D, T) ==
    /\ f \in [Units(Counts(legs), D) -> T]
    /\ \A u, w \in Units(Counts(legs), D) : f[u] = f[w] => u = w
    /\ \A u \in Units(Counts(legs), D) : f[u][1] \in LongsBeyond(legs, u[1])

\* The contracts of the longs that are no longer available.
Spent(legs, remaining) == Units(Counts(legs), Longs(legs)) \ Units(remaining, Longs(legs))

\* The shorts D are done and s.remaining is left.  If all of them are covered, they are so by
\* the contracts spent; and if the book is coverable, all of them are, and the longs beyond
\* a short still to come have lost only what the shorts beyond it took.
Balanced(legs, D, s) ==
    LET n == Counts(legs) IN
    /\ \A j \in Longs(legs) : s.remaining[j] <= n[j]
    /\ s.unprotected = {} => \E f : Assigns(f, legs, D, Spent(legs, s.remaining))
    /\ Coverable(legs) =>
          /\ s.unprotected = {}
          /\ \A k \in Shorts(legs) \ D :
                Size(n, D \cap At(legs, k)) + Size(s.remaining, LongsBeyond(legs, k))
                   >= Size(n, LongsBeyond(legs, k))

\* A short that is covered takes as many contracts beyond it as it has.
LEMMA AssignedMore ==
    ASSUME NEW legs, Book(legs), NEW s \in Covers(legs), NEW D, D \subseteq Shorts(legs),
           NEW i \in Shorts(legs), i \notin D, \A j \in Longs(legs) : s.remaining[j] <= Counts(legs)[j],
           cover(s, i, legs).unprotected = {}, NEW f, Assigns(f, legs, D, Spent(legs, s.remaining))
    PROVE  \E g : Assigns(g, legs, D \cup {i}, Spent(legs, cover(s, i, legs).remaining))
<1> DEFINE n == Counts(legs)
           L == Longs(legs)
           E == LongsBeyond(legs, i)
           b == cover(s, i, legs)
           r == s.remaining
           t == b.remaining
           K == {i} \X (1..n[i])
           F == Units(r, E) \ Units(t, E)
<1>1. /\ Len(legs) \in Nat /\ L \subseteq 1..Len(legs) /\ E \subseteq L
      /\ n[i] \in Nat /\ n[i] = legs[i].contracts
  BY BookShape DEF Counts, Shorts, Longs, LongsBeyond
<1>2. /\ \A j \in L : t[j] <= r[j] /\ r[j] \in Nat /\ t[j] \in Nat
      /\ \A j \in L : r[j] <= n[j] /\ n[j] \in Nat
  <2>1. b \in Covers(legs) /\ \A j \in L : t[j] <= r[j]
    BY CoverEffect
  <2>2. r \in [L -> Nat] /\ t \in [L -> Nat]
    BY <2>1 DEF Covers
  <2>3. \A j \in L : n[j] \in Nat
    BY BookShape DEF Counts, Longs
  <2> QED
    BY <2>1, <2>2, <2>3
<1>3. Size(t, E) + n[i] = Size(r, E)
  <2>1. PICK needed \in Nat :
           /\ b.unprotected = s.unprotected \cup {j \in {i} : needed > 0}
           /\ \A B \in SUBSET L : E \subseteq B =>
                 Size(t, B) + legs[i].contracts = Size(r, B) + needed
    BY CoverEffect
  <2>2. needed = 0
    BY <2>1
  <2>3. Size(t, E) + n[i] = Size(r, E) + 0
    BY <1>1, <2>1, <2>2
  <2>4. Size(r, E) \in Nat
    BY <1>1, <1>2, UnitsFinite DEF Sizes
  <2> QED
    BY <2>3, <2>4
<1> HIDE DEF n, L, E, b
<1>4. \A j : \A c : <<j, c>> \in Units(r, E) <=> j \in E /\ c \in 1..r[j]
  BY DEF Units
<1>5. \A j : \A c : <<j, c>> \in Units(t, E) <=> j \in E /\ c \in 1..t[j]
  BY DEF Units
<1>6. IsFiniteSet(F) /\ Cardinality(F) = n[i]
  <2>1. /\ IsFiniteSet(Units(r, E)) /\ Cardinality(Units(r, E)) \in Nat
        /\ IsFiniteSet(Units(t, E)) /\ Cardinality(Units(t, E)) \in Nat
    BY <1>1, <1>2, UnitsFinite DEF Sizes, Size
  <2>2. Units(t, E) \subseteq Units(r, E)
    <3> SUFFICES ASSUME NEW u \in Units(t, E) PROVE u \in Units(r, E)
      OBVIOUS
    <3>1. PICK j \in E : \E c \in 1..t[j] : u = <<j, c>>
      BY UnitOf
    <3>2. 1..t[j] \subseteq 1..r[j]
      BY <1>1, <1>2
    <3> QED
      BY <3>1, <3>2, <1>4
  <2>3. Units(r, E) \cap Units(t, E) = Units(t, E)
    BY <2>2
  <2>4. IsFiniteSet(F) /\ Cardinality(F) = Cardinality(Units(r, E)) - Cardinality(Units(t, E))
    BY <2>1, <2>3, FS_Difference
  <2> HIDE DEF F
  <2> QED
    BY <1>1, <1>3, <2>1, <2>4 DEF Size
<1>7. IsFiniteSet(K) /\ Cardinality(K) = n[i]
  BY <1>1, OneLeg
<1>8. PICK h : h \in Bijection(K, F)
  <2> HIDE DEF K, F
  <2> QED
    BY <1>6, <1>7, FS_SameCardinalityBij, Fun_ExistsBij
<1>9. h \in [K -> F] /\ \A u, w \in K : h[u] = h[w] => u = w
  <2> HIDE DEF K, F
  <2> QED
    BY <1>8, Fun_BijectionProperties
<1>10. /\ Units(n, D \cup {i}) = Units(n, D) \cup K
       /\ \A u \in Units(n, D) : u[1] # i /\ u[1] \in D
       /\ \A u \in K : u[1] = i
  BY DEF Units
<1>11. \A x \in F : x[1] \in E /\ x \in Units(r, L) /\ x \in Spent(legs, t)
  <2> TAKE x \in F
  <2>1. PICK j \in E : \E c \in 1..r[j] : x = <<j, c>>
    BY UnitOf
  <2>2. PICK c \in 1..r[j] : x = <<j, c>>
    BY <2>1
  <2>3. j \in L /\ 1..r[j] \subseteq 1..n[j] /\ c \notin 1..t[j]
    <3>1. j \in L
      BY <1>1
    <3>2. 1..r[j] \subseteq 1..n[j]
      BY <1>2, <3>1
    <3>3. x \notin Units(t, E)
      OBVIOUS
    <3> QED
      BY <1>5, <2>2, <3>1, <3>2, <3>3
  <2>4. x \in Units(r, L) /\ x \in Units(n, L)
    BY <2>2, <2>3, UnitOf
  <2>5. x \notin Units(t, L)
    <3> SUFFICES ASSUME x \in Units(t, L) PROVE FALSE
      OBVIOUS
    <3>1. PICK k \in L : \E e \in 1..t[k] : x = <<k, e>>
      BY UnitOf
    <3> QED
      BY <2>2, <2>3, <3>1
  <2> QED
    BY <2>2, <2>4, <2>5 DEF Spent, n, L
<1>12. Spent(legs, r) \subseteq Spent(legs, t)
  <2> SUFFICES ASSUME NEW x \in Units(t, L) PROVE x \in Units(r, L)
    BY DEF Spent, L
  <2>1. PICK j \in L : \E c \in 1..t[j] : x = <<j, c>>
    BY UnitOf
  <2>2. 1..t[j] \subseteq 1..r[j]
    BY <1>2
  <2> QED
    BY <2>1, <2>2, UnitOf
<1>13. /\ f \in [Units(n, D) -> Spent(legs, r)]
       /\ \A u, w \in Units(n, D) : f[u] = f[w] => u = w
       /\ \A u \in Units(n, D) : f[u][1] \in LongsBeyond(legs, u[1])
  BY DEF Assigns, n
<1>14. \A x \in Spent(legs, r) : x \notin F
  BY <1>11 DEF Spent, L
<1> DEFINE U == Units(n, D)
           g == [u \in U \cup K |-> IF u[1] = i THEN h[u] ELSE f[u]]
<1>15. /\ \A u \in U : u \in U \cup K /\ g[u] = f[u] /\ g[u] \in Spent(legs, r)
       /\ \A u \in K : u \in U \cup K /\ g[u] = h[u] /\ g[u] \in F
  <2> HIDE DEF K, F
  <2> QED
    BY <1>9, <1>10, <1>13
<1>16. g \in [U \cup K -> Spent(legs, t)]
  <2>1. \A u \in U \cup K : g[u] \in Spent(legs, t)
    <3> HIDE DEF g, U, K, F
    <3> QED
      BY <1>11, <1>12, <1>15
  <2> QED
    BY <2>1
<1> HIDE DEF g
<1>17. \A u, w \in U \cup K : g[u] = g[w] => u = w
  <2> HIDE DEF U, K, F
  <2> TAKE u, w \in U \cup K
  <2>1. CASE u \in U /\ w \in U
    BY <1>13, <1>15, <2>1 DEF U
  <2>2. CASE u \in K /\ w \in K
    BY <1>9, <1>15, <2>2
  <2>3. CASE (u \in U /\ w \in K) \/ (u \in K /\ w \in U)
    BY <1>14, <1>15, <2>3
  <2> QED
    BY <2>1, <2>2, <2>3
<1>18. \A u \in U \cup K : g[u][1] \in LongsBeyond(legs, u[1])
  <2> TAKE u \in U \cup K
  <2>1. CASE u \in U
    BY <1>13, <1>15, <2>1
  <2>2. CASE u \in K
    <3>1. g[u][1] \in E /\ u[1] = i
      BY <1>10, <1>11, <1>15, <2>2
    <3> QED
      BY <3>1 DEF E
  <2> QED
    BY <2>1, <2>2
<1>19. Assigns(g, legs, D \cup {i}, Spent(legs, t))
  <2> HIDE DEF K
  <2> QED
    BY <1>10, <1>16, <1>17, <1>18 DEF Assigns, n
<1> QED
  BY <1>19 DEF b

\* One short more.
LEMMA BalancedMore ==
    ASSUME NEW legs, Book(legs), NEW s \in Covers(legs), NEW D, D \subseteq Shorts(legs),
           NEW i \in Shorts(legs), i \notin D, Balanced(legs, D, s),
           \A k \in Shorts(legs) \ D : Constraint(legs)[i] <= Constraint(legs)[k]
    PROVE  Balanced(legs, D \cup {i}, cover(s, i, legs))
<1> DEFINE N == Len(legs)
           n == Counts(legs)
           L == Longs(legs)
           B(k) == LongsBeyond(legs, k)
           D2 == D \cup {i}
           b == cover(s, i, legs)
           In(k) == D \cap At(legs, k)
           In2(k) == D2 \cap At(legs, k)
<1>1. /\ N \in Nat /\ DOMAIN legs = 1..N /\ Shorts(legs) \subseteq 1..N /\ L \subseteq 1..N
      /\ \A j \in 1..N : n[j] \in Nat
      /\ n[i] = legs[i].contracts
  BY BookShape DEF Counts
<1>2. /\ b \in Covers(legs)
      /\ \A j \in L : /\ b.remaining[j] <= s.remaining[j]
                      /\ j \notin B(i) => b.remaining[j] = s.remaining[j]
  BY CoverEffect
<1>0. PICK needed \in Nat :
         /\ b.unprotected = s.unprotected \cup {j \in {i} : needed > 0}
         /\ needed > 0 => \A j \in B(i) : b.remaining[j] = 0
         /\ \A C \in SUBSET L : B(i) \subseteq C =>
               Size(b.remaining, C) + legs[i].contracts = Size(s.remaining, C) + needed
  BY CoverEffect
<1>3. /\ b.unprotected = s.unprotected \cup {j \in {i} : needed > 0}
      /\ needed > 0 => \A j \in B(i) : b.remaining[j] = 0
      /\ \A C \in SUBSET L : B(i) \subseteq C =>
               Size(b.remaining, C) + n[i] = Size(s.remaining, C) + needed
  BY <1>0, <1>1
<1>4. /\ \A j \in L : s.remaining[j] \in Nat /\ b.remaining[j] \in Nat
  BY <1>2 DEF Covers
<1>5. \A k : B(k) \subseteq L
  BY DEF LongsBeyond
<1>6. \A k : /\ Size(s.remaining, B(k)) \in Nat /\ Size(b.remaining, B(k)) \in Nat
             /\ Size(n, B(k)) \in Nat /\ Size(n, In(k)) \in Nat
  <2> TAKE k
  <2>1. /\ Sizes(s.remaining, B(k), N) /\ Sizes(b.remaining, B(k), N) /\ Sizes(n, B(k), N)
        /\ Sizes(n, In(k), N)
    BY <1>1, <1>4, <1>5 DEF Sizes
  <2> QED
    BY <1>1, <2>1, UnitsFinite
<1> HIDE DEF b, n, N
<1>7. ASSUME NEW k \in DOMAIN legs, i \in At(legs, k)
      PROVE  /\ Size(n, In2(k)) = Size(n, In(k)) + n[i]
             /\ Size(b.remaining, B(k)) + n[i] = Size(s.remaining, B(k)) + needed
  <2>1. In2(k) \ {i} = In(k) /\ i \in In2(k) /\ Sizes(n, In2(k), N)
    BY <1>1, <1>7 DEF Sizes
  <2>2. B(i) \subseteq B(k)
    BY <1>7, LongsNested
  <2> HIDE DEF B, In, In2
  <2>3. Size(n, In2(k)) = Size(n, In(k)) + n[i]
    BY <1>1, <2>1, SizeSplit
  <2> QED
    BY <1>3, <1>5, <2>2, <2>3
<1>8. ASSUME NEW k \in DOMAIN legs, i \notin At(legs, k)
      PROVE  Size(n, In2(k)) = Size(n, In(k)) /\ Size(b.remaining, B(k)) <= Size(s.remaining, B(k))
  <2>1. In2(k) = In(k)
    BY <1>8
  <2>2. Sizes(b.remaining, B(k), N) /\ Sizes(s.remaining, B(k), N)
    BY <1>1, <1>4, <1>5 DEF Sizes
  <2>3. \A j \in B(k) : b.remaining[j] <= s.remaining[j]
    BY <1>2, <1>5
  <2> HIDE DEF B, In, In2
  <2>4. Size(b.remaining, B(k)) <= Size(s.remaining, B(k))
    BY <1>1, <2>2, <2>3, SizeSmaller
  <2> QED
    BY <2>1, <2>4
<1>9. /\ \A j \in L : b.remaining[j] <= n[j]
      /\ b.unprotected = {} => \E g : Assigns(g, legs, D2, Spent(legs, b.remaining))
  <2>1. \A j \in L : s.remaining[j] <= n[j] /\ n[j] \in Nat
    BY <1>1 DEF Balanced, n
  <2>2. ASSUME b.unprotected = {}
        PROVE  \E g : Assigns(g, legs, D2, Spent(legs, b.remaining))
    <3>1. s.unprotected = {}
      BY <1>3, <2>2
    <3>2. PICK f : Assigns(f, legs, D, Spent(legs, s.remaining))
      BY <3>1 DEF Balanced
    <3> QED
      BY <2>1, <2>2, <3>2, AssignedMore DEF b, n
  <2> QED
    BY <1>2, <1>4, <2>1, <2>2
<1>10. ASSUME Coverable(legs)
       PROVE  /\ b.unprotected = {}
              /\ \A k \in Shorts(legs) \ D2 :
                    Size(n, In2(k)) + Size(b.remaining, B(k)) >= Size(n, B(k))
  <2>1. i \in DOMAIN legs /\ i \in At(legs, i) /\ n[i] \in Nat
    <3>1. i \in DOMAIN legs /\ legs[i].strike \in Nat
      BY <1>1, BookShape
    <3> QED
      BY <1>1, <3>1 DEF At
  <2>2. Size(n, In(i)) + Size(s.remaining, B(i)) >= Size(n, B(i)) /\ s.unprotected = {}
    BY <1>10 DEF Balanced, n
  <2>3. Size(n, In2(i)) <= Size(n, B(i))
    <3>1. Sizes(n, In2(i), N) /\ Sizes(n, ShortsAt(legs, i), N)
      BY <1>1 DEF Sizes, ShortsAt
    <3>2. In2(i) \subseteq ShortsAt(legs, i)
      BY DEF ShortsAt
    <3>3. \A j \in In2(i) : n[j] <= n[j]
      BY <1>1
    <3>4. Size(n, In2(i)) <= Size(n, ShortsAt(legs, i))
      <4> HIDE DEF In2
      <4> QED
        BY <1>1, <3>1, <3>2, <3>3, SizeSmaller
    <3>5. Size(n, ShortsAt(legs, i)) <= Size(n, B(i))
      BY <1>10, <2>1 DEF Coverable, n
    <3>6. Size(n, In2(i)) \in Nat /\ Size(n, ShortsAt(legs, i)) \in Nat
      BY <1>1, <3>1, UnitsFinite
    <3>7. Size(n, B(i)) \in Nat
      BY <1>6
    <3> HIDE DEF B, In2
    <3> QED
      BY <3>4, <3>5, <3>6, <3>7
  <2>4. n[i] <= Size(s.remaining, B(i))
    <3>1. Size(n, In2(i)) = Size(n, In(i)) + n[i]
      BY <1>7, <2>1
    <3> HIDE DEF B, In, In2
    <3> QED
      BY <1>6, <2>1, <2>2, <2>3, <3>1
  <2>5. needed = 0
    <3>1. SUFFICES ASSUME needed > 0 PROVE FALSE
      OBVIOUS
    <3>2. Size(b.remaining, B(i)) = 0
      BY <1>3, <3>1, SizeZero
    <3>3. Size(b.remaining, B(i)) + n[i] = Size(s.remaining, B(i)) + needed
      BY <1>7, <2>1
    <3>4. Size(s.remaining, B(i)) \in Nat
      BY <1>6
    <3> HIDE DEF B
    <3> QED
      BY <2>1, <2>4, <3>1, <3>2, <3>3, <3>4
  <2>6. b.unprotected = {}
    BY <1>3, <2>2, <2>5
  <2>7. ASSUME NEW k \in Shorts(legs) \ D2
        PROVE  Size(n, In2(k)) + Size(b.remaining, B(k)) >= Size(n, B(k))
    <3>1. k \in DOMAIN legs /\ k \in Shorts(legs) \ D
      BY DEF Shorts
    <3>2. Size(n, In(k)) + Size(s.remaining, B(k)) >= Size(n, B(k))
      BY <1>10, <3>1 DEF Balanced, n
    <3>3. CASE i \in At(legs, k)
      <4>1. /\ Size(n, In2(k)) = Size(n, In(k)) + n[i]
            /\ Size(b.remaining, B(k)) + n[i] = Size(s.remaining, B(k)) + needed
        BY <1>7, <3>1, <3>3
      <4> HIDE DEF B, In, In2
      <4> QED
        BY <1>6, <2>1, <2>5, <3>2, <4>1
    <3>4. CASE i \notin At(legs, k)
      <4>1. B(i) \cap B(k) = {}
        BY <3>1, <3>4, LongsNested
      <4>2. \A j \in B(k) : b.remaining[j] = s.remaining[j]
        BY <1>2, <1>5, <4>1
      <4>3. Size(n, In2(k)) = Size(n, In(k))
        BY <1>8, <3>1, <3>4
      <4> HIDE DEF B, In, In2
      <4>4. Size(b.remaining, B(k)) = Size(s.remaining, B(k))
        BY <4>2, SizeSame
      <4> QED
        BY <3>2, <4>3, <4>4
    <3> QED
      BY <3>3, <3>4
  <2> QED
    BY <2>6, <2>7
<1> QED
  BY <1>9, <1>10 DEF Balanced, b, n

\* If all shorts are covered by the contracts spent, the book is covered.
LEMMA AssignedCovers ==
    ASSUME NEW legs, Book(legs), NEW r, NEW f, Assigns(f, legs, Shorts(legs), Spent(legs, r))
    PROVE  Covered(legs)
<1> DEFINE n == Counts(legs)
           U == Units(n, Shorts(legs))
           V == Units(n, Longs(legs))
<1>1. f \in [U -> V]
  <2>1. Spent(legs, r) \subseteq V
    BY DEF Spent
  <2> HIDE DEF U, V
  <2> QED
    BY <2>1 DEF Assigns, U
<1>2. DOMAIN f = U
  BY <1>1
<1>3. \A u, w \in U : f[u] = f[w] => u = w
  BY DEF Assigns
<1>4. \A u \in U : is_protective_long_for(legs[u[1]], legs[f[u][1]])
  <2> TAKE u \in U
  <2>1. u[1] \in Shorts(legs)
    BY DEF Units
  <2>2. f[u][1] \in LongsBeyond(legs, u[1])
    BY DEF Assigns
  <2>3. f[u][1] \in eligible_longs(legs[u[1]], legs)
    BY <2>1, <2>2, LongsNested
  <2> QED
    BY <2>3 DEF eligible_longs
<1> HIDE DEF U, V
<1> QED
  BY <1>1, <1>2, <1>3, <1>4 DEF Covered, U, V

\* Contracts that protect contracts at or beyond a strike are beyond it: a covered book is
\* coverable.
LEMMA CoveredCounts ==
    ASSUME NEW legs, Book(legs), Covered(legs) PROVE Coverable(legs)
<1> DEFINE n == Counts(legs)
           U == Units(n, Shorts(legs))
           V == Units(n, Longs(legs))
<1>1. PICK f \in [U -> V] :
          /\ \A u, w \in DOMAIN f : f[u] = f[w] => u = w
          /\ \A u \in DOMAIN f : is_protective_long_for(legs[u[1]], legs[f[u][1]])
  BY DEF Covered
<1>2. /\ \A u, w \in U : f[u] = f[w] => u = w
      /\ \A u \in U : is_protective_long_for(legs[u[1]], legs[f[u][1]])
  BY <1>1
<1>3. ASSUME NEW k \in DOMAIN legs PROVE Size(n, ShortsAt(legs, k)) <= Size(n, LongsBeyond(legs, k))
  <2> DEFINE A == Units(n, ShortsAt(legs, k))
             B == Units(n, LongsBeyond(legs, k))
             g == [u \in A |-> f[u]]
  <2>1. \A u \in A : u \in U /\ u[1] \in ShortsAt(legs, k)
    BY DEF Units, ShortsAt
  <2>2. ASSUME NEW u \in A PROVE f[u] \in B
    <3>1. u \in U /\ f[u] \in V /\ u[1] \in Shorts(legs) /\ u[1] \in At(legs, k)
      BY <2>1 DEF ShortsAt
    <3>2. PICK j \in Longs(legs) : \E c \in 1..n[j] : f[u] = <<j, c>>
      BY <3>1, UnitOf
    <3>3. j \in eligible_longs(legs[u[1]], legs)
      BY <1>2, <3>1, <3>2 DEF eligible_longs
    <3>4. j \in LongsBeyond(legs, k)
      BY <3>1, <3>3, LongsNested
    <3> QED
      BY <3>2, <3>4, UnitOf
  <2>3. g \in [A -> B]
    <3> HIDE DEF A, B
    <3> QED
      BY <2>2
  <2>4. \A u, w \in A : g[u] = g[w] => u = w
    <3> HIDE DEF A, B
    <3> QED
      BY <1>2, <2>1
  <2> HIDE DEF g
  <2>5. g \in Injection(A, B)
    <3> HIDE DEF A, B
    <3> QED
      BY <2>3, <2>4, Fun_IsInj
  <2>6. IsFiniteSet(B)
    <3>1. Len(legs) \in Nat /\ Sizes(n, LongsBeyond(legs, k), Len(legs))
      BY BookShape DEF Sizes, Counts, LongsBeyond, Longs
    <3> QED
      BY <3>1, UnitsFinite
  <2> HIDE DEF A, B
  <2>7. Cardinality(A) <= Cardinality(B)
    BY <2>5, <2>6, FS_Injection
  <2> QED
    BY <2>7 DEF Size, A, B
<1> QED
  BY <1>3 DEF Coverable

\* The allocation leaves no short unprotected exactly when the book is covered: by counting
\* from the one side, by the contracts it spends from the other.
LEMMA GreedyExact ==
    ASSUME NEW legs, Book(legs)
    PROVE  unprotected_short_legs(legs) = {} <=> Covered(legs)
<1> DEFINE S == Shorts(legs)
           order == shorts_most_constrained_first(legs)
           M == Len(order)
           s == covered_after(legs)
           n == Counts(legs)
           N == Len(legs)
           B(k) == LongsBeyond(legs, k)
           Done(m) == {order[l] : l \in 1..m}
<1>1. /\ InOrder(order, S, Constraint(legs))
      /\ s[0] = [remaining |-> [i \in Longs(legs) |-> legs[i].contracts], unprotected |-> {}]
      /\ \A m \in 0..M : s[m] \in Covers(legs)
      /\ \A m \in 1..M : s[m] = cover(s[m - 1], order[m], legs)
  BY CoverValues
<1>2. /\ M \in Nat /\ \A m \in 1..M : order[m] \in S
      /\ \A i \in S : \E m \in 1..M : order[m] = i
      /\ \A l, m \in 1..M :
            l < m => order[l] # order[m] /\ Constraint(legs)[order[l]] <= Constraint(legs)[order[m]]
  BY <1>1 DEF InOrder
<1>3. /\ N \in Nat /\ DOMAIN legs = 1..N /\ S \subseteq 1..N /\ Longs(legs) \subseteq 1..N
      /\ \A j \in 1..N : n[j] \in Nat
  BY BookShape DEF Counts
<1>4. \A k : B(k) \subseteq Longs(legs)
  BY DEF LongsBeyond
<1>5. \A k : Size(n, B(k)) \in Nat
  BY <1>3, <1>4, UnitsFinite DEF Sizes
<1>6. unprotected_short_legs(legs) = s[M].unprotected
  BY DEF unprotected_short_legs
<1> HIDE DEF order, M, s, n, N, S
<1> DEFINE P == {m \in 0..M : Balanced(legs, Done(m), s[m])}
<1>7. 0 \in P
  <2>1. Done(0) = {}
    OBVIOUS
  <2>2. s[0].unprotected = {} /\ \A j \in Longs(legs) : s[0].remaining[j] = n[j]
    BY <1>1 DEF n, Counts, Longs
  <2>3. \A k : Size(s[0].remaining, B(k)) = Size(n, B(k))
    <3> TAKE k
    <3>1. \A j \in B(k) : s[0].remaining[j] = n[j]
      BY <1>4, <2>2
    <3> HIDE DEF B
    <3> QED
      BY <3>1, SizeSame
  <2>4. \A k : Size(n, Done(0) \cap At(legs, k)) = 0
    <3> TAKE k
    <3>1. Done(0) \cap At(legs, k) = {}
      BY <2>1
    <3> QED
      BY <3>1, SizeZero
  <2>5. \A k : Size(n, Done(0) \cap At(legs, k)) + Size(s[0].remaining, B(k)) = Size(n, B(k))
    <3> TAKE k
    <3>1. Size(n, B(k)) \in Nat
      BY <1>5
    <3>2. Size(s[0].remaining, B(k)) = Size(n, B(k)) /\ Size(n, Done(0) \cap At(legs, k)) = 0
      BY <2>3, <2>4
    <3> HIDE DEF B, Done
    <3> QED
      BY <3>1, <3>2
  <2>6. \A k : LET x == Size(n, Done(0) \cap At(legs, k)) + Size(s[0].remaining, B(k))
               IN  x <= Size(n, B(k)) /\ x >= Size(n, B(k))
    <3> TAKE k
    <3>1. Size(n, B(k)) \in Nat
      BY <1>5
    <3>2. Size(n, Done(0) \cap At(legs, k)) + Size(s[0].remaining, B(k)) = Size(n, B(k))
      BY <2>5
    <3> HIDE DEF B, Done
    <3> QED
      BY <3>1, <3>2
  <2>7. \E f : Assigns(f, legs, Done(0), Spent(legs, s[0].remaining))
    <3>1. Units(Counts(legs), Done(0)) = {}
      BY <2>1, UnitsNone
    <3>2. Assigns([u \in {} |-> 0], legs, Done(0), Spent(legs, s[0].remaining))
      BY <3>1 DEF Assigns
    <3> QED
      BY <3>2
  <2>8. \A j \in Longs(legs) : s[0].remaining[j] <= n[j]
    <3> TAKE j \in Longs(legs)
    <3>1. s[0].remaining[j] = n[j] /\ n[j] \in Nat
      BY <1>3, <2>2
    <3> QED
      BY <3>1
  <2>9. Balanced(legs, Done(0), s[0])
    <3> HIDE DEF Done
    <3> QED
      BY <2>2, <2>6, <2>7, <2>8 DEF Balanced, n
  <2> QED
    BY <1>2, <2>9
<1>8. ASSUME NEW m \in 1..M, m - 1 \in P PROVE m \in P
  <2> DEFINE D == Done(m - 1)
             i == order[m]
  <2>1. m \in 0..M /\ m - 1 \in 0..M /\ \A l \in 1..(m - 1) : l \in 1..M /\ l < m
    BY <1>2
  <2>2. Done(m) = D \cup {i}
    <3>1. 1..m = (1..(m - 1)) \cup {m}
      BY <1>2
    <3> QED
      BY <3>1
  <2>3. D \subseteq S /\ i \in S /\ i \notin D
    BY <1>2, <2>1
  <2>4. \A k \in S \ D : Constraint(legs)[i] <= Constraint(legs)[k]
    <3> TAKE k \in S \ D
    <3>1. PICK l \in 1..M : order[l] = k
      BY <1>2
    <3>2. l \notin 1..(m - 1)
      BY <3>1
    <3>3. l = m \/ m < l
      BY <1>2, <3>2
    <3>4. Constraint(legs)[i] \in Int
      BY <2>3, <1>3, BookShape DEF Constraint, S
    <3> QED
      BY <1>2, <3>1, <3>3, <3>4
  <2>5. Balanced(legs, D, s[m - 1]) /\ s[m - 1] \in Covers(legs)
    BY <1>1, <1>8, <2>1
  <2> HIDE DEF D, i, Done
  <2>6. Balanced(legs, D \cup {i}, cover(s[m - 1], i, legs))
    BY <2>3, <2>4, <2>5, BalancedMore DEF S
  <2>7. Balanced(legs, Done(m), s[m])
    BY <1>1, <2>2, <2>6 DEF i
  <2> QED
    BY <2>1, <2>7
<1> HIDE DEF P
<1>9. 0..M \subseteq P
  BY <1>2, <1>7, <1>8, InductionUpTo
<1>10. Balanced(legs, Done(M), s[M])
  <2>1. M \in P
    BY <1>2, <1>9
  <2> HIDE DEF Done
  <2> QED
    BY <2>1 DEF P
<1>11. Done(M) = S
  BY <1>2
<1> HIDE DEF Done
<1>12. ASSUME s[M].unprotected = {} PROVE Covered(legs)
  <2>1. PICK f : Assigns(f, legs, S, Spent(legs, s[M].remaining))
    BY <1>10, <1>11, <1>12 DEF Balanced
  <2> QED
    BY <2>1, AssignedCovers DEF S
<1>13. Covered(legs) => s[M].unprotected = {}
  BY <1>10, CoveredCounts DEF Balanced
<1> QED
  BY <1>6, <1>12, <1>13

-----------------------------------------------------------------------------
(* The snapshots and the verdict. *)

\* A snapshot is of a book, and its emergency state is that of its legs.
Minted(s) == Book(s.legs) /\ s.emergency_state = emergency_state_for_legs(s.legs)

MintInv == desk \in Desks /\ \A s \in expected \cup broker : Minted(s)

\* A snapshot that was minted is one.
LEMMA MintedSnapshot ==
    ASSUME NEW source, NEW legs, Book(legs), NEW as_of, NEW ids, NEW now
    PROVE  Minted(MintSnapshot(source, legs, as_of, ids, now))
BY DEF Minted, MintSnapshot

\* Every step keeps it.
LEMMA NextMintInv == ASSUME MintInv, [Next]_vars PROVE MintInv'
<1>1. CASE \E r \in BrokerReports[desk], now \in Times : mint_position_snapshot_from_broker_report(r, now)
  <2>1. PICK r \in BrokerReports[desk], now \in Times : mint_position_snapshot_from_broker_report(r, now)
    BY <1>1
  <2>2. Book(r.legs)
    BY PositionAssumption DEF MintInv, Book
  <2>3. \A s \in broker' : Minted(s)
    BY <2>1, <2>2, MintedSnapshot DEF mint_position_snapshot_from_broker_report
  <2> QED
    BY <2>1, <2>3 DEF mint_position_snapshot_from_broker_report, MintInv
<1>2. CASE \E l \in Ledgers[desk], x \in SuppliedReports, now \in Times :
             mint_position_snapshot_from_execution_ledger(l, x, now)
  <2>1. PICK l \in Ledgers[desk], x \in SuppliedReports, now \in Times :
             mint_position_snapshot_from_execution_ledger(l, x, now)
    BY <1>2
  <2>2. Book(l.legs)
    BY PositionAssumption DEF MintInv, Book
  <2>3. \A s \in expected' : Minted(s)
    BY <2>1, <2>2, MintedSnapshot DEF mint_position_snapshot_from_execution_ledger
  <2> QED
    BY <2>1, <2>3 DEF mint_position_snapshot_from_execution_ledger, MintInv
<1>3. CASE reconcile_positions
  BY <1>3 DEF reconcile_positions, MintInv
<1>4. CASE UNCHANGED vars
  BY <1>4 DEF vars, MintInv
<1> QED
  BY <1>1, <1>2, <1>3, <1>4 DEF Next

\* A minted snapshot is NORMAL exactly when its book is coverable.
LEMMA MintedExact ==
    ASSUME NEW s, Minted(s)
    PROVE  /\ s.emergency_state = "NORMAL" <=> Covered(s.legs)
           /\ has_unprotected_short(s) <=> ~Covered(s.legs)
<1>1. unprotected_short_legs(s.legs) = {} <=> Covered(s.legs)
  BY GreedyExact DEF Minted
<1> QED
  BY <1>1 DEF Minted, emergency_state_for_legs, has_unprotected_short

\* The greedy allocation of position_state.py:149-174 decides protection exactly, for a book
\* of any number of legs in any order, of any sizes and strikes.
THEOREM ProtectionExactHolds == Spec => []ProtectionExact
<1>1. Init => MintInv
  BY DEF Init, MintInv
<1>2. MintInv /\ [Next]_vars => MintInv'
  BY NextMintInv
<1>3. MintInv => ProtectionExact
  BY MintedExact DEF MintInv, ProtectionExact
<1> QED
  BY <1>1, <1>2, <1>3, PTL DEF Spec

-----------------------------------------------------------------------------
(* The same lots, however they are ordered. *)

\* Every value occurs equally often in two tuples.
EquallyOften(u, I, v, J) ==
    \A x : Cardinality({i \in I : u[i] = x}) = Cardinality({j \in J : v[j] = x})

\* Two tuples in which every value occurs equally often are permutations of each other.
LEMMA SameCounts ==
    ASSUME NEW I, IsFiniteSet(I), NEW J, IsFiniteSet(J), NEW u, NEW v, EquallyOften(u, I, v, J)
    PROVE  \E f \in Bijection(I, J) : \A i \in I : v[f[i]] = u[i]
<1> DEFINE U(x) == {i \in I : u[i] = x}
           V(x) == {j \in J : v[j] = x}
           pair(x) == CHOOSE g : g \in Bijection(U(x), V(x))
           f == [i \in I |-> pair(u[i])[i]]
<1>1. \A x : pair(x) \in Bijection(U(x), V(x))
  <2> TAKE x
  <2>2. U(x) \in SUBSET I /\ V(x) \in SUBSET J
    OBVIOUS
  <2>3. Cardinality(U(x)) = Cardinality(V(x))
    BY DEF EquallyOften
  <2> HIDE DEF U, V
  <2>4. IsFiniteSet(U(x)) /\ IsFiniteSet(V(x))
    BY <2>2, FS_Subset
  <2>5. ExistsBijection(U(x), V(x))
    BY <2>3, <2>4, FS_SameCardinalityBij
  <2>6. \E g : g \in Bijection(U(x), V(x))
    BY <2>5, Fun_ExistsBij
  <2> QED
    BY <2>6
<1> HIDE DEF pair
<1>2. \A x : /\ pair(x) \in [U(x) -> V(x)]
             /\ \A a, b \in U(x) : pair(x)[a] = pair(x)[b] => a = b
             /\ \A t \in V(x) : \E a \in U(x) : pair(x)[a] = t
  <2> HIDE DEF U, V
  <2> QED
    BY <1>1, Fun_BijectionProperties
<1>3. \A i \in I : i \in U(u[i]) /\ f[i] \in V(u[i])
  <2> TAKE i \in I
  <2>1. i \in U(u[i])
    OBVIOUS
  <2>2. f[i] = pair(u[i])[i]
    OBVIOUS
  <2> HIDE DEF f, U, V
  <2>3. pair(u[i]) \in [U(u[i]) -> V(u[i])]
    BY <1>2
  <2> QED
    BY <2>1, <2>2, <2>3
<1>4. \A i \in I : f[i] \in J /\ v[f[i]] = u[i] /\ f[i] = pair(u[i])[i]
  BY <1>3
<1>5. \A a, b \in I : f[a] = f[b] => a = b
  <2> SUFFICES ASSUME NEW a \in I, NEW b \in I, f[a] = f[b] PROVE a = b
    OBVIOUS
  <2>1. u[a] = u[b]
    BY <1>4
  <2>2. a \in U(u[a]) /\ b \in U(u[a]) /\ pair(u[a])[a] = pair(u[a])[b]
    BY <1>3, <1>4, <2>1
  <2> HIDE DEF f, U
  <2> QED
    BY <1>2, <2>2
<1>6. \A t \in J : \E a \in I : f[a] = t
  <2> TAKE t \in J
  <2>1. t \in V(v[t])
    OBVIOUS
  <2>2. PICK a \in U(v[t]) : pair(v[t])[a] = t
    BY <1>2, <2>1
  <2>3. a \in I /\ u[a] = v[t]
    OBVIOUS
  <2> QED
    BY <1>4, <2>2, <2>3
<1>7. f \in [I -> J]
  BY <1>4, Zenon
<1> HIDE DEF f
<1>8. f \in Bijection(I, J)
  BY <1>5, <1>6, <1>7, Fun_IsBij
<1> QED
  BY <1>4, <1>8

\* A permutation keeps the number of the legs it carries over.
LEMMA SameNumber ==
    ASSUME NEW I, NEW J, NEW f \in Bijection(I, J),
           NEW A \in SUBSET I, NEW B \in SUBSET J, \A i \in I : i \in A <=> f[i] \in B,
           IsFiniteSet(A)
    PROVE  Cardinality(A) = Cardinality(B)
<1> DEFINE h == [i \in A |-> f[i]]
<1>1. /\ f \in [I -> J] /\ \A a, b \in I : f[a] = f[b] => a = b
      /\ \A t \in J : \E a \in I : f[a] = t
  BY Fun_BijectionProperties
<1>2. h \in [A -> B] /\ \A a, b \in A : h[a] = h[b] => a = b
  <2>1. \A a \in A : a \in I /\ f[a] \in B /\ h[a] = f[a]
    OBVIOUS
  <2> QED
    BY <1>1, <2>1
<1>3. ASSUME NEW t \in B PROVE \E a \in A : h[a] = t
  <2>1. PICK a \in I : f[a] = t
    BY <1>1
  <2> QED
    BY <2>1
<1> HIDE DEF h
<1>4. h \in Bijection(A, B)
  BY <1>2, <1>3, Fun_IsBij
<1> QED
  BY <1>4, FS_Bijection, Fun_ExistsBij

\* And the number of their contracts.
LEMMA SameContracts ==
    ASSUME NEW I, NEW J, NEW f \in Bijection(I, J),
           NEW A \in SUBSET I, NEW B \in SUBSET J, \A i \in I : i \in A <=> f[i] \in B,
           NEW n, NEW m, IsFiniteSet(Units(n, A)), \A i \in A : n[i] = m[f[i]]
    PROVE  Size(n, A) = Size(m, B)
<1> DEFINE X == Units(n, A)
           Y == Units(m, B)
           h == [x \in X |-> <<f[x[1]], x[2]>>]
<1>1. /\ f \in [I -> J] /\ \A a, b \in I : f[a] = f[b] => a = b
      /\ \A t \in J : \E a \in I : f[a] = t
  BY Fun_BijectionProperties
<1>2. /\ \A x : x \in X <=> \E i \in A : \E c \in 1..n[i] : x = <<i, c>>
      /\ \A y : y \in Y <=> \E j \in B : \E c \in 1..m[j] : y = <<j, c>>
  <2>1. \A x : x \in X <=> \E i \in A : \E c \in 1..n[i] : x = <<i, c>>
    BY UnitOf
  <2>2. \A y : y \in Y <=> \E j \in B : \E c \in 1..m[j] : y = <<j, c>>
    BY UnitOf
  <2> QED
    BY <2>1, <2>2
<1> HIDE DEF X, Y
<1>3. ASSUME NEW x \in X PROVE x[1] \in A /\ x[1] \in I /\ x = <<x[1], x[2]>> /\ h[x] \in Y
  <2>1. PICK i \in A : \E c \in 1..n[i] : x = <<i, c>>
    BY <1>2
  <2>2. PICK c \in 1..n[i] : x = <<i, c>>
    BY <2>1
  <2>3. f[i] \in B /\ c \in 1..m[f[i]]
    BY <2>2
  <2>4. h[x] = <<f[i], c>>
    BY <2>2
  <2> HIDE DEF h
  <2> QED
    BY <1>2, <2>2, <2>3, <2>4
<1>4. h \in [X -> Y]
  BY <1>3
<1>5. ASSUME NEW a \in X, NEW b \in X, h[a] = h[b] PROVE a = b
  <2>1. f[a[1]] = f[b[1]] /\ a[2] = b[2]
    BY <1>5
  <2>2. a[1] = b[1]
    BY <1>1, <1>3, <2>1
  <2> HIDE DEF h
  <2> QED
    BY <1>3, <2>1, <2>2
<1>6. ASSUME NEW y \in Y PROVE \E x \in X : h[x] = y
  <2>1. PICK j \in B : \E c \in 1..m[j] : y = <<j, c>>
    BY <1>2
  <2>2. PICK c \in 1..m[j] : y = <<j, c>>
    BY <2>1
  <2>3. PICK i \in I : f[i] = j
    BY <1>1
  <2>4. i \in A /\ c \in 1..n[i]
    BY <2>2, <2>3
  <2>5. <<i, c>> \in X
    BY <1>2, <2>4
  <2>6. h[<<i, c>>] = y
    BY <2>2, <2>3, <2>5
  <2> QED
    BY <2>5, <2>6
<1> HIDE DEF h
<1>7. h \in Bijection(X, Y)
  BY <1>4, <1>5, <1>6, Fun_IsBij
<1>8. IsFiniteSet(X)
  BY DEF X
<1> QED
  BY <1>7, <1>8, FS_Bijection, Fun_ExistsBij DEF X, Y, Size

\* Books with the same normalized legs hold the same contracts.
LEMMA NormalizedHeld ==
    ASSUME NEW s, Book(s), NEW t, Book(t), normalized_legs(s) = normalized_legs(t)
    PROVE  SamePosition(s, t)
<1> DEFINE I == 1..Len(s)
           J == 1..Len(t)
           u == [i \in I |-> Lot(s[i])]
           v == [j \in J |-> Lot(t[j])]
<1>1. Len(s) \in Nat /\ DOMAIN s = I /\ Len(t) \in Nat /\ DOMAIN t = J
  BY BookShape
<1>2. EquallyOften(u, I, v, J)
  <2> SUFFICES ASSUME NEW x
               PROVE  Cardinality({i \in I : u[i] = x}) = Cardinality({j \in J : v[j] = x})
    BY DEF EquallyOften
  <2> DEFINE A == {i \in DOMAIN s : Lot(s[i]) = x}
             B == {j \in DOMAIN t : Lot(t[j]) = x}
             X == {Lot(s[i]) : i \in DOMAIN s}
             Y == {Lot(t[j]) : j \in DOMAIN t}
  <2>1. {i \in I : u[i] = x} = A /\ {j \in J : v[j] = x} = B
    BY <1>1
  <2>2. /\ normalized_legs(s) = [lot \in X |-> Cardinality({i \in DOMAIN s : Lot(s[i]) = lot})]
        /\ normalized_legs(t) = [lot \in Y |-> Cardinality({j \in DOMAIN t : Lot(t[j]) = lot})]
    BY DEF normalized_legs
  <2>3. X = Y
    <3>1. DOMAIN normalized_legs(s) = X /\ DOMAIN normalized_legs(t) = Y
      BY <2>2
    <3> QED
      BY <3>1
  <2>4. CASE x \in X
    <3>1. normalized_legs(s)[x] = Cardinality(A) /\ normalized_legs(t)[x] = Cardinality(B)
      BY <2>2, <2>3, <2>4
    <3> HIDE DEF A, B
    <3> QED
      BY <2>1, <3>1
  <2>5. CASE x \notin X
    <3>1. A = {} /\ B = {}
      BY <2>3, <2>5
    <3> QED
      BY <2>1, <3>1
  <2> QED
    BY <2>4, <2>5
<1>3. PICK f \in Bijection(I, J) : \A i \in I : v[f[i]] = u[i]
  <2>1. IsFiniteSet(I) /\ IsFiniteSet(J)
    BY <1>1, FS_Interval
  <2> HIDE DEF u, v, I, J
  <2> QED
    BY <1>2, <2>1, SameCounts
<1> HIDE DEF I, J
<1>4. f \in [I -> J]
  BY Fun_BijectionProperties
<1>5. ASSUME NEW i \in I
      PROVE  Contract(t[f[i]]) = Contract(s[i]) /\ t[f[i]].contracts = s[i].contracts
  <2>1. f[i] \in J /\ Lot(t[f[i]]) = Lot(s[i])
    BY <1>3, <1>4
  <2> QED
    BY <2>1 DEF Lot, Contract
<1>6. ASSUME NEW c PROVE Held(s, c) = Held(t, c)
  <2> DEFINE A == {i \in DOMAIN s : Contract(s[i]) = c}
             B == {j \in DOMAIN t : Contract(t[j]) = c}
  <2>1. A \in SUBSET I /\ B \in SUBSET J /\ \A i \in I : i \in A <=> f[i] \in B
    BY <1>1, <1>4, <1>5
  <2>2. \A i \in A : Counts(s)[i] = Counts(t)[f[i]]
    BY <1>1, <1>4, <1>5 DEF Counts
  <2>3. Sizes(Counts(s), A, Len(s))
    BY <1>1, BookShape DEF Sizes, Counts, I
  <2> HIDE DEF A, B
  <2>4. IsFiniteSet(Units(Counts(s), A))
    BY <1>1, <2>3, UnitsFinite
  <2>5. Size(Counts(s), A) = Size(Counts(t), B)
    BY <2>1, <2>2, <2>4, SameContracts
  <2> QED
    BY <2>5 DEF Held, Size, A, B
<1> QED
  BY <1>6 DEF SamePosition

\* Books with the same legs in another order are normalized to the same.
LEMMA NormalizedAnyOrder ==
    ASSUME NEW s, Book(s), NEW t, Book(t), SameMultiset(s, t)
    PROVE  normalized_legs(s) = normalized_legs(t)
<1> DEFINE I == 1..Len(s)
           J == 1..Len(t)
<1>1. Len(s) \in Nat /\ DOMAIN s = I /\ Len(t) \in Nat /\ DOMAIN t = J
  BY BookShape
<1>2. EquallyOften(s, I, t, J)
  <2> SUFFICES ASSUME NEW x
               PROVE  Cardinality({i \in I : s[i] = x}) = Cardinality({j \in J : t[j] = x})
    BY DEF EquallyOften
  <2> DEFINE X == {s[i] : i \in DOMAIN s} \cup {t[j] : j \in DOMAIN t}
  <2>1. CASE x \in X
    BY <1>1, <2>1 DEF SameMultiset
  <2>2. CASE x \notin X
    <3>1. {i \in I : s[i] = x} = {} /\ {j \in J : t[j] = x} = {}
      BY <1>1, <2>2
    <3> QED
      BY <3>1
  <2> QED
    BY <2>1, <2>2
<1>4. IsFiniteSet(I) /\ IsFiniteSet(J)
  BY <1>1, FS_Interval
<1>3. PICK f \in Bijection(I, J) : \A i \in I : t[f[i]] = s[i]
  <2> HIDE DEF I, J
  <2> QED
    BY <1>2, <1>4, SameCounts
<1> HIDE DEF I, J
<1>5. f \in [I -> J] /\ \A j \in J : \E i \in I : f[i] = j
  BY Fun_BijectionProperties
<1> DEFINE X == {Lot(s[i]) : i \in DOMAIN s}
           Y == {Lot(t[j]) : j \in DOMAIN t}
           num(l, D, x) == Cardinality({i \in D : Lot(l[i]) = x})
<1>6. X = Y
  BY <1>1, <1>3, <1>5
<1>7. ASSUME NEW x PROVE num(s, I, x) = num(t, J, x)
  <2> DEFINE A == {i \in I : Lot(s[i]) = x}
             B == {j \in J : Lot(t[j]) = x}
  <2>1. A \in SUBSET I /\ B \in SUBSET J /\ \A i \in I : i \in A <=> f[i] \in B
    BY <1>3, <1>5
  <2> HIDE DEF A, B
  <2>2. IsFiniteSet(A)
    BY <1>4, <2>1, FS_Subset
  <2>3. Cardinality(A) = Cardinality(B)
    BY <2>1, <2>2, SameNumber
  <2> QED
    BY <2>3 DEF A, B
<1>8. normalized_legs(s) = [x \in X |-> num(s, I, x)] /\ normalized_legs(t) = [x \in Y |-> num(t, J, x)]
  BY <1>1 DEF normalized_legs
<1> HIDE DEF X, Y, num
<1> QED
  BY <1>6, <1>7, <1>8

\* A verdict is the comparison of two minted snapshots.
Compared(v) ==
    \E e, b : /\ Minted(e) /\ Minted(b)
              /\ v = IF \/ normalized_legs(e.legs) # normalized_legs(b.legs)
                        \/ has_unprotected_short(e) \/ has_unprotected_short(b)
                     THEN Mismatch(e, b) ELSE Match(e, b)

VerdictInv == MintInv /\ \A v \in verdict : Compared(v)

\* A comparison says what VerdictExact says of it.
LEMMA ComparedExact ==
    ASSUME NEW v, Compared(v)
    PROVE  LET covered == Covered(v.expected.legs) /\ Covered(v.broker.legs)
           IN  /\ v.permission = "NEW_ENTRIES_ALLOWED" =>
                     covered /\ SamePosition(v.expected.legs, v.broker.legs)
               /\ covered /\ SameMultiset(v.expected.legs, v.broker.legs) =>
                     v.permission = "NEW_ENTRIES_ALLOWED"
               /\ v.human_required_event = {} <=> covered
<1>1. PICK e, b : /\ Minted(e) /\ Minted(b)
                  /\ v = IF \/ normalized_legs(e.legs) # normalized_legs(b.legs)
                            \/ has_unprotected_short(e) \/ has_unprotected_short(b)
                         THEN Mismatch(e, b) ELSE Match(e, b)
  BY DEF Compared
<1>2. /\ has_unprotected_short(e) <=> ~Covered(e.legs)
      /\ has_unprotected_short(b) <=> ~Covered(b.legs)
  BY <1>1, MintedExact
<1>3. Book(e.legs) /\ Book(b.legs)
  BY <1>1 DEF Minted
<1>4. CASE normalized_legs(e.legs) # normalized_legs(b.legs)
           \/ has_unprotected_short(e) \/ has_unprotected_short(b)
  <2>1. v = Mismatch(e, b)
    BY <1>1, <1>4
  <2>2. /\ v.expected = e /\ v.broker = b /\ v.permission = "MANAGED_EXIT_ONLY"
        /\ v.human_required_event = {} <=> ~(has_unprotected_short(e) \/ has_unprotected_short(b))
    BY <2>1 DEF Mismatch
  <2>3. SameMultiset(e.legs, b.legs) => normalized_legs(e.legs) = normalized_legs(b.legs)
    BY <1>3, NormalizedAnyOrder
  <2> QED
    BY <1>2, <1>4, <2>2, <2>3
<1>5. CASE ~(normalized_legs(e.legs) # normalized_legs(b.legs)
             \/ has_unprotected_short(e) \/ has_unprotected_short(b))
  <2>1. v = Match(e, b)
    BY <1>1, <1>5
  <2>2. /\ v.expected = e /\ v.broker = b /\ v.permission = "NEW_ENTRIES_ALLOWED"
        /\ v.human_required_event = {}
    BY <2>1 DEF Match
  <2>3. SamePosition(e.legs, b.legs)
    BY <1>3, <1>5, NormalizedHeld
  <2> QED
    BY <1>2, <1>5, <2>2, <2>3
<1> QED
  BY <1>4, <1>5

\* Every step keeps it.
LEMMA NextVerdictInv == ASSUME VerdictInv, [Next]_vars PROVE VerdictInv'
<1>1. MintInv'
  BY NextMintInv DEF VerdictInv
<1>2. CASE reconcile_positions
  <2>1. PICK e \in expected, b \in broker :
           verdict' = {IF \/ normalized_legs(e.legs) # normalized_legs(b.legs)
                          \/ has_unprotected_short(e) \/ has_unprotected_short(b)
                       THEN Mismatch(e, b) ELSE Match(e, b)}
    BY <1>2 DEF reconcile_positions
  <2>2. Minted(e) /\ Minted(b)
    BY DEF VerdictInv, MintInv
  <2>3. \A v \in verdict' : Compared(v)
    BY <2>1, <2>2 DEF Compared
  <2> QED
    BY <1>1, <2>3 DEF VerdictInv
<1>3. CASE ~reconcile_positions
  <2>1. verdict' = verdict
    BY <1>3 DEF Next, vars, mint_position_snapshot_from_broker_report,
                mint_position_snapshot_from_execution_ledger
  <2> QED
    BY <1>1, <2>1 DEF VerdictInv
<1> QED
  BY <1>2, <1>3

\* reconcile_positions (reconciliation.py:98-198) allows new entries only on the same,
\* covered positions, whatever the order of the legs, and calls a human exactly when a side
\* is uncovered.
THEOREM VerdictExactHolds == Spec => []VerdictExact
<1>1. Init => VerdictInv
  BY DEF Init, VerdictInv, MintInv
<1>2. VerdictInv /\ [Next]_vars => VerdictInv'
  BY NextVerdictInv
<1>3. VerdictInv => VerdictExact
  BY ComparedExact DEF VerdictInv, VerdictExact
<1> QED
  BY <1>1, <1>2, <1>3, PTL DEF Spec
====
