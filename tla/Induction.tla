------------------------------ MODULE Induction ------------------------------
(***************************************************************************)
(* Induction over the naturals and definition by recursion, stated with    *)
(* sets and functions where the library's theorems take operators: the     *)
(* loops of the models run over a list, and what they compute is shown one *)
(* element at a time.                                                      *)
(***************************************************************************)
EXTENDS Integers, WellFoundedInduction, TLAPS

\* A set of naturals that is not empty has a least element.
LEMMA LeastNatural ==
    ASSUME NEW T, T \subseteq Nat, T # {} PROVE \E x \in T : \A y \in T : x <= y
<1> DEFINE R == OpToRel(<, Nat)
<1>1. IsWellFoundedOn(R, Nat)
  BY NatLessThanWellFounded
<1>2. \A x, y \in Nat : <<x, y>> \in R <=> x < y
  BY DEF OpToRel
<1> HIDE DEF R
<1>3. PICK x \in T : \A y \in T : ~ (<<y, x>> \in R)
  BY <1>1, WFMin
<1>4. ASSUME NEW y \in T PROVE x <= y
  <2>1. x \in Nat /\ y \in Nat
    OBVIOUS
  <2>2. ~(<<y, x>> \in R)
    BY <1>3
  <2>3. ~(y < x)
    BY <2>1, <2>2, <1>2, Zenon
  <2> QED
    BY <2>1, <2>3
<1> QED
  BY <1>4

\* A set that has 0, and with every number the next, has all of them.
LEMMA Induction ==
    ASSUME NEW S, 0 \in S, \A n \in Nat : n \in S => n + 1 \in S PROVE Nat \subseteq S
<1> SUFFICES ASSUME Nat \ S # {} PROVE FALSE
  OBVIOUS
<1>1. PICK x \in Nat \ S : \A y \in Nat \ S : x <= y
  BY LeastNatural
<1>2. x # 0 /\ x \in Nat /\ x - 1 \in Nat /\ x - 1 \in S
  BY <1>1
<1> QED
  BY <1>1, <1>2

\* The same up to a bound.
LEMMA InductionUpTo ==
    ASSUME NEW N \in Nat, NEW S, 0 \in S, \A i \in 1..N : i - 1 \in S => i \in S
    PROVE  0..N \subseteq S
<1> DEFINE T == {i \in Nat : i <= N => i \in S}
<1>1. 0 \in T
  OBVIOUS
<1>2. ASSUME NEW n \in Nat, n \in T PROVE n + 1 \in T
  <2>1. CASE n + 1 <= N
    <3>1. n \in S /\ n + 1 \in 1..N /\ (n + 1) - 1 = n
      BY <1>2, <2>1
    <3> QED
      BY <3>1
  <2> QED
    BY <2>1
<1> HIDE DEF T
<1>3. Nat \subseteq T
  BY <1>1, <1>2, Induction
<1> QED
  BY <1>3 DEF T

\* The bodies of loops over 1..N that work on a set of values, and what it means for g to
\* list the values such a loop takes.
Body(S, N) == [S \X (1..N) -> S]

Lists(g, N, c, d) == g[0] = c /\ \A i \in 1..N : g[i] = d[<<g[i - 1], i>>]

\* A loop whose body is a function has its values, one per pass.
LEMMA LoopValues ==
    ASSUME NEW N \in Nat, NEW S, NEW c \in S, NEW d \in Body(S, N)
    PROVE  \E g \in [0..N -> S] : Lists(g, N, c, d)
<1> USE DEF Body, Lists
<1> DEFINE Runs(n) == {g \in [0..n -> S] : g[0] = c /\ \A i \in 1..n : g[i] = d[<<g[i - 1], i>>]}
           T == {n \in Nat : Runs(n) # {}}
<1>1. 0 \in T
  <2>1. [i \in 0..0 |-> c] \in Runs(0)
    OBVIOUS
  <2> QED
    BY <2>1
<1>2. ASSUME NEW n \in 1..N, n - 1 \in T PROVE n \in T
  <2>1. PICK g \in Runs(n - 1) : TRUE
    BY <1>2
  <2> DEFINE h == [i \in 0..n |-> IF i = n THEN d[<<g[n - 1], n>>] ELSE g[i]]
  <2>2. /\ g \in [0..(n - 1) -> S] /\ g[0] = c
        /\ \A i \in 1..(n - 1) : g[i] = d[<<g[i - 1], i>>]
    BY <2>1
  <2>3. d[<<g[n - 1], n>>] \in S
    <3>1. n - 1 \in 0..(n - 1) /\ n \in 1..N
      OBVIOUS
    <3>2. <<g[n - 1], n>> \in S \X (1..N)
      BY <2>2, <3>1
    <3> QED
      BY <3>2
  <2>4. h \in [0..n -> S]
    BY <2>2, <2>3
  <2>5. h[0] = c
    BY <2>2
  <2>6. ASSUME NEW i \in 1..n PROVE h[i] = d[<<h[i - 1], i>>]
    <3>1. h[i - 1] = g[i - 1]
      OBVIOUS
    <3>2. CASE i = n
      BY <3>1, <3>2
    <3>3. CASE i # n
      <4>1. i \in 1..(n - 1) /\ h[i] = g[i]
        BY <3>3
      <4> QED
        BY <2>2, <3>1, <4>1
    <3> QED
      BY <3>2, <3>3
  <2> HIDE DEF h
  <2>7. h \in Runs(n)
    BY <2>4, <2>5, <2>6
  <2> QED
    BY <2>7
<1>3. 0..N \subseteq T
  <2> HIDE DEF T
  <2> QED
    BY <1>1, <1>2, InductionUpTo
<1>4. Runs(N) # {}
  BY <1>3
<1> QED
  BY <1>4
=============================================================================
