----------------------------- MODULE Recursion ------------------------------
(***************************************************************************)
(* Induction and recursion over the natural numbers, in the form in which  *)
(* the other proofs use them: with sets and functions as parameters, not   *)
(* with operators.  A property P is proved for all numbers by looking at   *)
(* the least element of {n \in Nat : ~P(n)}, and a recursive function is   *)
(* shown to satisfy its equation by putting together the finite functions  *)
(* that satisfy it up to some number.                                      *)
(***************************************************************************)
EXTENDS Integers, WellFoundedInduction, TLAPS

(* A set of numbers that is not empty has a least element.                 *)
LEMMA LeastNumber ==
  ASSUME NEW T, T \subseteq Nat, T # {}
  PROVE  \E x \in T : \A y \in T : x <= y
<1>1. PICK x \in T : \A y \in T : ~(<<y, x>> \in OpToRel(<, Nat))
  BY NatLessThanWellFounded, WFMin
<1>2. ASSUME NEW y \in T PROVE x <= y
  <2>1. <<y, x>> \in Nat \X Nat /\ x \in Nat /\ y \in Nat
    BY <1>1
  <2>2. ~(y < x)
    BY <1>1, <2>1 DEF OpToRel
  <2> QED
    BY <2>1, <2>2
<1> QED
  BY <1>2

(* If a set holds every number below which it holds all, it holds all.     *)
LEMMA NumbersInduction ==
  ASSUME NEW P,
         \A n \in Nat : (\A m \in Nat : m < n => m \in P) => n \in P
  PROVE  \A n \in Nat : n \in P
<1> DEFINE T == {n \in Nat : n \notin P}
<1>1. ASSUME T # {} PROVE FALSE
  <2>1. PICK x \in T : \A y \in T : x <= y
    BY <1>1, LeastNumber, Zenon
  <2>2. x \in Nat /\ x \notin P
    BY <2>1
  <2>3. ASSUME NEW m \in Nat, m < x PROVE m \in P
    BY <2>1, <2>2, <2>3
  <2> QED
    BY <2>2, <2>3
<1> QED
  BY <1>1

-----------------------------------------------------------------------------
(* The recursion: base on B, and elsewhere one summand more than for a     *)
(* smaller number, the one that below names.                               *)

Value(f, n, B, base, add, below) ==
  IF n \in B THEN base ELSE add[n] + f[below[n]]

(* f satisfies the equation.                                               *)
Satisfies(f, B, base, add, below) ==
  f = [n \in Nat |-> Value(f, n, B, base, add, below)]

(* f satisfies the equation up to n.                                       *)
IsUpTo(f, n, B, base, add, below) ==
  \A m \in 0..n : f[m] = Value(f, m, B, base, add, below)

(* Two functions that satisfy it agree.                                    *)
LEMMA UpToUnique ==
  ASSUME NEW B, NEW base, NEW add, NEW below,
         \A n \in Nat \ B : below[n] \in Nat /\ below[n] < n,
         NEW f, NEW g, NEW k \in Nat, NEW l \in Nat,
         IsUpTo(f, k, B, base, add, below), IsUpTo(g, l, B, base, add, below)
  PROVE  \A n \in Nat : n <= k /\ n <= l => f[n] = g[n]
<1> DEFINE P == {n \in Nat : n <= k /\ n <= l => f[n] = g[n]}
<1>1. ASSUME NEW n \in Nat, \A m \in Nat : m < n => m \in P, n <= k, n <= l
      PROVE  f[n] = g[n]
  <2>1. n \in 0..k /\ n \in 0..l
    BY <1>1
  <2>2. /\ f[n] = Value(f, n, B, base, add, below)
        /\ g[n] = Value(g, n, B, base, add, below)
    BY <2>1 DEF IsUpTo
  <2>3. CASE n \in B
    BY <2>2, <2>3 DEF Value
  <2>4. CASE n \notin B
    <3>1. below[n] \in Nat /\ below[n] < n
      BY <2>4
    <3>2. below[n] \in P /\ below[n] <= k /\ below[n] <= l
      BY <1>1, <3>1
    <3>3. f[below[n]] = g[below[n]]
      BY <3>2
    <3> QED
      BY <2>2, <2>4, <3>3 DEF Value
  <2> QED
    BY <2>3, <2>4
<1>2. \A n \in Nat : (\A m \in Nat : m < n => m \in P) => n \in P
  BY <1>1
<1> HIDE DEF P
<1>3. \A n \in Nat : n \in P
  BY <1>2, NumbersInduction
<1> QED
  BY <1>3 DEF P

(* For every number there is a function that satisfies it up to there.     *)
LEMMA UpToExists ==
  ASSUME NEW B, NEW base, NEW add, NEW below,
         \A n \in Nat \ B : below[n] \in Nat /\ below[n] < n
  PROVE  \A n \in Nat : \E f : IsUpTo(f, n, B, base, add, below)
<1> DEFINE P == {n \in Nat : \E f : IsUpTo(f, n, B, base, add, below)}
<1>1. ASSUME NEW n \in Nat, \A m \in Nat : m < n => m \in P
      PROVE  \E f : IsUpTo(f, n, B, base, add, below)
  <2>1. \E f : \A m \in 0..(n - 1) : f[m] = Value(f, m, B, base, add, below)
    <3>1. CASE n = 0
      BY <3>1
    <3>2. CASE n # 0
      <4>1. n - 1 \in Nat /\ n - 1 < n
        BY <3>2
      <4>2. n - 1 \in P
        BY <1>1, <4>1
      <4> QED
        BY <4>2 DEF IsUpTo
    <3> QED
      BY <3>1, <3>2
  <2>2. PICK g : \A m \in 0..(n - 1) : g[m] = Value(g, m, B, base, add, below)
    BY <2>1
  <2> DEFINE f == [m \in 0..n |->
                     IF m = n THEN Value(g, n, B, base, add, below) ELSE g[m]]
  <2>3. ASSUME NEW m \in 0..n PROVE f[m] = Value(f, m, B, base, add, below)
    <3>1. m \in Nat /\ n \in 0..n
      OBVIOUS
    <3>2. f[m] = Value(g, m, B, base, add, below)
      <4>1. CASE m = n
        BY <4>1
      <4>2. CASE m # n
        <5>1. m \in 0..(n - 1)
          BY <4>2
        <5> QED
          BY <2>2, <4>2, <5>1
      <4> QED
        BY <4>1, <4>2
    <3>3. CASE m \in B
      BY <3>2, <3>3 DEF Value
    <3>4. CASE m \notin B
      <4>1. below[m] \in Nat /\ below[m] < m
        BY <3>1, <3>4
      <4>2. below[m] \in 0..n /\ below[m] # n
        BY <3>1, <4>1
      <4>3. f[below[m]] = g[below[m]]
        BY <4>2
      <4> HIDE DEF f
      <4> QED
        BY <3>2, <3>4, <4>3 DEF Value
    <3> QED
      BY <3>3, <3>4
  <2> HIDE DEF f
  <2>4. IsUpTo(f, n, B, base, add, below)
    BY <2>3 DEF IsUpTo
  <2> QED
    BY <2>4
<1>2. \A n \in Nat : (\A m \in Nat : m < n => m \in P) => n \in P
  BY <1>1
<1> HIDE DEF P
<1>3. \A n \in Nat : n \in P
  BY <1>2, NumbersInduction
<1> QED
  BY <1>3 DEF P

(* There is a function on all numbers that satisfies the equation, so that *)
(* the function which a recursive definition chooses satisfies it.         *)
LEMMA RecursionExists ==
  ASSUME NEW B, NEW base, NEW add, NEW below,
         \A n \in Nat \ B : below[n] \in Nat /\ below[n] < n
  PROVE  \E f : Satisfies(f, B, base, add, below)
<1> DEFINE U(g, n) == IsUpTo(g, n, B, base, add, below)
           upTo(n) == CHOOSE g : U(g, n)
           f == [n \in Nat |-> upTo(n)[n]]
<1>1. ASSUME NEW n \in Nat PROVE U(upTo(n), n)
  <2>1. \E g : U(g, n)
    BY UpToExists, Zenon
  <2> QED
    BY <2>1, Zenon
<1>2. ASSUME NEW n \in Nat PROVE f[n] = Value(f, n, B, base, add, below)
  <2> HIDE DEF upTo
  <2>1. f[n] = upTo(n)[n] /\ n \in 0..n
    OBVIOUS
  <2>2. upTo(n)[n] = Value(upTo(n), n, B, base, add, below)
    BY <1>1, <2>1 DEF IsUpTo
  <2>3. CASE n \in B
    BY <2>1, <2>2, <2>3 DEF Value
  <2>4. CASE n \notin B
    <3> DEFINE m == below[n]
    <3>1. m \in Nat /\ m < n
      BY <2>4
    <3> HIDE DEF m
    <3>2. U(upTo(n), n) /\ U(upTo(m), m) /\ m <= n /\ m <= m
      BY <1>1, <3>1
    <3>3. upTo(n)[m] = upTo(m)[m]
      BY <3>1, <3>2, UpToUnique
    <3>4. f[m] = upTo(m)[m]
      BY <3>1
    <3> HIDE DEF f
    <3> QED
      BY <2>1, <2>2, <2>4, <3>3, <3>4 DEF Value, m
  <2> QED
    BY <2>3, <2>4
<1> HIDE DEF upTo
<1>3. f = [n \in Nat |-> f[n]]
  OBVIOUS
<1> HIDE DEF f
<1>4. f = [n \in Nat |-> Value(f, n, B, base, add, below)]
  BY <1>2, <1>3
<1> QED
  BY <1>4 DEF Satisfies
=============================================================================
