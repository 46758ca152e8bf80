-------------------------- MODULE AssertionsProofs --------------------------
(***************************************************************************)
(* Which assertions get from the queue into a batch, that those which do   *)
(* are found again, and that a checksum holds, for claims of every length. *)
(* The heart is the round trip of claims: what MarshalBinary has written,  *)
(* UnmarshalBinary reads back in sorted order or refuses for a repeated    *)
(* address, and writing it again gives the same unless it had wildcards.   *)
(***************************************************************************)
EXTENDS Assertions, Recursion, SequenceTheorems, FiniteSetTheorems, TLAPS

(* A function on the first n numbers is a sequence.                        *)
LEMMA FunctionIsSequence ==
  ASSUME NEW n \in Nat, NEW S, NEW f \in [1..n -> S]
  PROVE  f \in Seq(S) /\ Len(f) = n
<1>1. f \in Seq(S)
  BY SeqDef
<1> QED
  BY <1>1, LenProperties

-----------------------------------------------------------------------------
(* Sorting.                                                                *)

(* R is a strict total order of S.                                         *)
IsOrder(R, S) ==
  /\ \A x \in S : <<x, x>> \notin R
  /\ \A x, y, z \in S : <<x, y>> \in R /\ <<y, z>> \in R => <<x, z>> \in R
  /\ \A x, y \in S : x # y => <<x, y>> \in R \/ <<y, x>> \in R

UpTo(R, S, x) == {y \in S : <<y, x>> \in R \/ y = x}

rank(R, S) == [x \in S |-> Cardinality(UpTo(R, S, x))]

(* In a finite set, the rank of an element is the number of those up to    *)
(* it; each rank occurs once.                                              *)
LEMMA RankFacts ==
  ASSUME NEW S, IsFiniteSet(S), NEW R, IsOrder(R, S)
  PROVE  /\ \A x, y \in S : <<x, y>> \in R => rank(R, S)[x] < rank(R, S)[y]
         /\ rank(R, S) \in Bijection(S, 1..Cardinality(S))
<1> DEFINE n == Cardinality(S)
           r == rank(R, S)
<1>1. n \in Nat
  BY FS_CardinalityType
<1>2. ASSUME NEW x \in S
      PROVE  /\ IsFiniteSet(UpTo(R, S, x)) /\ x \in UpTo(R, S, x)
             /\ Cardinality(UpTo(R, S, x)) \in 1..n
  <2>1. UpTo(R, S, x) \in SUBSET S /\ x \in UpTo(R, S, x)
    BY DEF UpTo
  <2>2. IsFiniteSet(UpTo(R, S, x)) /\ Cardinality(UpTo(R, S, x)) <= n
    BY <2>1, FS_Subset
  <2>3. Cardinality(UpTo(R, S, x)) \in Nat /\ Cardinality(UpTo(R, S, x)) # 0
    BY <2>1, <2>2, FS_CardinalityType, FS_EmptySet
  <2> QED
    BY <1>1, <2>1, <2>2, <2>3
<1>3. ASSUME NEW x \in S, NEW y \in S, <<x, y>> \in R
      PROVE  r[x] < r[y]
  <2> DEFINE X == UpTo(R, S, x)
             Y == UpTo(R, S, y)
  <2>1. X \in SUBSET Y
    BY <1>3 DEF UpTo, IsOrder
  <2>2. y \in Y /\ y \notin X
    BY <1>3 DEF UpTo, IsOrder
  <2>3. IsFiniteSet(Y) /\ Cardinality(Y) \in Nat /\ Cardinality(X) \in Nat
    BY <1>1, <1>2
  <2> HIDE DEF X, Y
  <2>4. Cardinality(X) <= Cardinality(Y) /\ Cardinality(X) # Cardinality(Y)
    BY <2>1, <2>2, <2>3, FS_Subset
  <2>5. r[x] = Cardinality(X) /\ r[y] = Cardinality(Y)
    BY DEF rank, X, Y
  <2> HIDE DEF r
  <2> QED
    BY <2>3, <2>4, <2>5
<1>4. r \in [S -> 1..n]
  BY <1>2 DEF rank
<1>5. ASSUME NEW x \in S, NEW y \in S, r[x] = r[y]
      PROVE  x = y
  <2> HIDE DEF r
  <2>1. r[x] \in Int /\ r[y] \in Int
    BY <1>1, <1>4
  <2>2. ~(r[x] < r[y]) /\ ~(r[y] < r[x])
    BY <1>5, <2>1
  <2>3. <<x, y>> \notin R /\ <<y, x>> \notin R
    BY <1>3, <2>2
  <2> QED
    BY <2>3 DEF IsOrder
<1> HIDE DEF r, n
<1>6. r \in Injection(S, 1..n)
  BY <1>4, <1>5 DEF Injection, IsInjective
<1>7. IsFiniteSet(1..n) /\ Cardinality(1..n) = n
  BY <1>1, FS_Interval
<1>8. r \in Surjection(S, 1..n)
  BY <1>6, <1>7, FS_Injection DEF n
<1> QED
  BY <1>3, <1>6, <1>8 DEF Bijection, r, n

(* Less is a strict total order of the items in S.                         *)
OrdersItems(type, S) ==
  /\ \A x \in S : ~Less(type, x, x)
  /\ \A x, y, z \in S : Less(type, x, y) /\ Less(type, y, z) => Less(type, x, z)
  /\ \A x, y \in S : x # y => Less(type, x, y) \/ Less(type, y, x)

(* Items that are ordered can be sorted.                                   *)
LEMMA SortExists ==
  ASSUME NEW type, NEW S, OrdersItems(type, S), NEW s \in Seq(S)
  PROVE  \E p \in Bijection(DOMAIN s, DOMAIN s) : InOrder(type, Rearranged(s, p))
<1> DEFINE D == 1..Len(s)
           Before(i, j) == Less(type, s[i], s[j]) \/ (s[i] = s[j] /\ i < j)
           R == {q \in D \X D : Before(q[1], q[2])}
<1>1. Len(s) \in Nat /\ DOMAIN s = D /\ \A i \in D : s[i] \in S
  BY LenProperties, ElementOfSeq
<1>2. IsFiniteSet(D) /\ Cardinality(D) = Len(s)
  <2>1. IsFiniteSet(1..Len(s))
          /\ Cardinality(1..Len(s)) = IF 1 > Len(s) THEN 0 ELSE Len(s) - 1 + 1
    BY <1>1, FS_Interval, SMTT(30)
  <2> QED
    BY <1>1, <2>1
<1>3. \A i, j \in D : <<i, j>> \in R <=> Before(i, j)
  OBVIOUS
<1>4. /\ \A i \in D : ~Before(i, i)
      /\ \A i, j \in D : i # j => Before(i, j) \/ Before(j, i)
  <2>1. ASSUME NEW i \in D PROVE ~Before(i, i)
    BY <1>1 DEF OrdersItems
  <2>2. ASSUME NEW i \in D, NEW j \in D, i # j PROVE Before(i, j) \/ Before(j, i)
    <3>1. i < j \/ j < i
      BY <1>1, <2>2
    <3> QED
      BY <1>1, <3>1 DEF OrdersItems
  <2> QED
    BY <2>1, <2>2
<1>5. ASSUME NEW i \in D, NEW j \in D, NEW k \in D, Before(i, j), Before(j, k)
      PROVE  Before(i, k)
  <2>1. i < j /\ j < k => i < k
    BY <1>1
  <2> QED
    BY <1>1, <1>5, <2>1 DEF OrdersItems
<1> HIDE DEF R, Before
<1>6. IsOrder(R, D)
  BY <1>3, <1>4, <1>5 DEF IsOrder
<1> DEFINE r == rank(R, D)
<1>7. /\ \A i, j \in D : <<i, j>> \in R => r[i] < r[j]
      /\ r \in Bijection(D, D)
  BY <1>2, <1>6, RankFacts
<1> HIDE DEF r
<1>8. /\ r \in [D -> D]
      /\ \A i, j \in D : r[i] = r[j] => i = j
      /\ \A k \in D : \E i \in D : r[i] = k
  BY <1>7 DEF Bijection, Injection, Surjection, IsInjective
<1> DEFINE p == [k \in D |-> CHOOSE i \in D : r[i] = k]
<1>9. \A k \in D : p[k] \in D /\ r[p[k]] = k
  BY <1>8
<1> HIDE DEF p
<1>10. p \in [D -> D]
  BY <1>9 DEF p
<1>11. p \in Bijection(D, D)
  <2>1. \A k, l \in D : p[k] = p[l] => k = l
    BY <1>9
  <2>2. ASSUME NEW i \in D PROVE \E k \in D : p[k] = i
    <3>1. r[i] \in D
      BY <1>8
    <3>2. p[r[i]] \in D /\ r[p[r[i]]] = r[i]
      BY <1>9, <3>1
    <3>3. p[r[i]] = i
      BY <1>8, <3>2
    <3> QED
      BY <3>1, <3>3
  <2> QED
    BY <1>10, <2>1, <2>2 DEF Bijection, Injection, Surjection, IsInjective
<1>12. ASSUME NEW i \in D, NEW j \in D, i < j
       PROVE  Less(type, s[p[i]], s[p[j]]) \/ s[p[i]] = s[p[j]]
  <2>1. p[i] \in D /\ p[j] \in D /\ r[p[i]] = i /\ r[p[j]] = j
    BY <1>9
  <2>2. <<p[j], p[i]>> \notin R
    <3>1. ~(r[p[j]] < r[p[i]])
      BY <1>1, <1>12, <2>1
    <3> QED
      BY <1>7, <2>1, <3>1
  <2>3. ~Before(p[j], p[i])
    BY <1>3, <2>1, <2>2
  <2>4. ~Less(type, s[p[j]], s[p[i]])
    BY <2>3 DEF Before
  <2> QED
    BY <1>1, <2>1, <2>4 DEF OrdersItems
<1>13. DOMAIN Rearranged(s, p) = D /\ \A i \in D : Rearranged(s, p)[i] = s[p[i]]
  BY <1>1 DEF Rearranged
<1>14. InOrder(type, Rearranged(s, p))
  BY <1>12, <1>13 DEF InOrder
<1> QED
  BY <1>1, <1>11, <1>14

(* What Sorted returns.                                                    *)
LEMMA SortedFacts ==
  ASSUME NEW type, NEW S, OrdersItems(type, S), NEW s \in Seq(S)
  PROVE  /\ Sorted(type, s) \in Seq(S) /\ Len(Sorted(type, s)) = Len(s)
         /\ InOrder(type, Sorted(type, s))
         /\ \E p \in Bijection(DOMAIN s, DOMAIN s) :
              \A i \in DOMAIN s : Sorted(type, s)[i] = s[p[i]]
<1> DEFINE IsSorting(p) == InOrder(type, Rearranged(s, p))
           q == CHOOSE p \in Bijection(DOMAIN s, DOMAIN s) : IsSorting(p)
<1>1. \E p \in Bijection(DOMAIN s, DOMAIN s) : IsSorting(p)
  BY SortExists
<1> HIDE DEF IsSorting
<1>2. q \in Bijection(DOMAIN s, DOMAIN s) /\ IsSorting(q)
  BY <1>1, Zenon
<1>3. Sorted(type, s) = Rearranged(s, q)
  BY DEF Sorted, IsSorting
<1> HIDE DEF q
<1>4. Len(s) \in Nat /\ DOMAIN s = 1..Len(s) /\ \A i \in 1..Len(s) : s[i] \in S
  BY LenProperties, ElementOfSeq
<1>5. q \in [1..Len(s) -> 1..Len(s)]
  BY <1>2, <1>4 DEF Bijection, Injection
<1>6. Rearranged(s, q) = [i \in 1..Len(s) |-> s[q[i]]]
  BY <1>4 DEF Rearranged
<1>7. Rearranged(s, q) \in [1..Len(s) -> S]
  BY <1>4, <1>5, <1>6
<1>8. Rearranged(s, q) \in Seq(S) /\ Len(Rearranged(s, q)) = Len(s)
  BY <1>4, <1>7, SeqDef, LenProperties
<1>9. \A i \in DOMAIN s : Rearranged(s, q)[i] = s[q[i]]
  BY <1>4, <1>6
<1> QED
  BY <1>2, <1>3, <1>8, <1>9 DEF IsSorting

(* A function that maps the numbers from i on past i is not injective, nor *)
(* is one that maps those up to i below it.                                *)
LEMMA NoRoom ==
  ASSUME NEW n \in Nat, NEW q \in Injection(1..n, 1..n), NEW i \in 1..n
  PROVE  /\ \E j \in 1..n : j <= i /\ q[j] >= i
         /\ \E j \in 1..n : j >= i /\ q[j] <= i
<1>1. q \in [1..n -> 1..n] /\ \A j, k \in 1..n : q[j] = q[k] => j = k
  BY DEF Injection, IsInjective
<1>2. ASSUME \A j \in 1..n : j <= i => q[j] < i PROVE FALSE
  <2> DEFINE f == [j \in 1..i |-> q[j]]
  <2>1. f \in [1..i -> 1..(i - 1)]
    BY <1>1, <1>2
  <2>2. /\ IsFiniteSet(1..i) /\ Cardinality(1..i) = i
        /\ IsFiniteSet(1..(i - 1)) /\ Cardinality(1..(i - 1)) = i - 1
    BY FS_Interval
  <2>3. PICK j, k \in 1..i : j # k /\ f[j] = f[k]
    <3> HIDE DEF f
    <3>1. Cardinality(1..(i - 1)) < Cardinality(1..i)
      BY <2>2
    <3> QED
      BY <2>1, <2>2, <3>1, FS_PigeonHole
  <2> QED
    BY <1>1, <2>3
<1>3. ASSUME \A j \in 1..n : j >= i => q[j] > i PROVE FALSE
  <2> DEFINE f == [j \in i..n |-> q[j]]
  <2>1. f \in [i..n -> (i + 1)..n]
    BY <1>1, <1>3
  <2>2. /\ IsFiniteSet(i..n) /\ Cardinality(i..n) = n - i + 1
        /\ IsFiniteSet((i + 1)..n) /\ Cardinality((i + 1)..n) = n - i
    BY FS_Interval
  <2>3. PICK j, k \in i..n : j # k /\ f[j] = f[k]
    <3> HIDE DEF f
    <3>1. Cardinality((i + 1)..n) < Cardinality(i..n)
      BY <2>2
    <3> QED
      BY <2>1, <2>2, <3>1, FS_PigeonHole
  <2> QED
    BY <1>1, <2>3
<1>4. \A j \in 1..n : q[j] \in Int
  BY <1>1
<1> QED
  BY <1>2, <1>3, <1>4

(* Items in order stay as they are.                                        *)
LEMMA SortedAgain ==
  ASSUME NEW type, NEW S, OrdersItems(type, S), NEW s \in Seq(S), InOrder(type, s)
  PROVE  Sorted(type, s) = s
<1> DEFINE n == Len(s)
           t == Sorted(type, s)
<1>1. n \in Nat /\ DOMAIN s = 1..n /\ \A i \in 1..n : s[i] \in S
  BY LenProperties, ElementOfSeq
<1>2. t \in Seq(S) /\ Len(t) = n /\ InOrder(type, t)
  BY SortedFacts
<1>3. PICK q \in Bijection(1..n, 1..n) : \A i \in 1..n : t[i] = s[q[i]]
  BY <1>1, SortedFacts
<1> HIDE DEF n, t
<1>4. DOMAIN t = 1..n
  BY <1>2, LenProperties
<1>5. q \in Injection(1..n, 1..n) /\ q \in [1..n -> 1..n]
  BY <1>3 DEF Bijection, Injection
<1>6. ASSUME NEW i \in 1..n PROVE t[i] = s[i]
  <2>1. s[i] \in S /\ t[i] \in S /\ i \in Int
    BY <1>1, <1>2, <1>4, ElementOfSeq
  <2>2. ASSUME Less(type, t[i], s[i]) PROVE FALSE
    <3>1. PICK j \in 1..n : j <= i /\ q[j] >= i
      BY <1>1, <1>5, NoRoom
    <3>2. q[j] \in 1..n /\ t[j] = s[q[j]] /\ t[j] \in S
      BY <1>1, <1>3, <1>5, <3>1
    <3>3. t[j] = t[i] \/ Less(type, t[j], t[i])
      <4>1. j = i \/ j < i
        BY <3>1
      <4> QED
        BY <1>2, <1>4, <4>1 DEF InOrder
    <3>4. t[j] = s[i] \/ Less(type, s[i], t[j])
      <4>1. q[j] = i \/ i < q[j]
        BY <3>1, <3>2
      <4> QED
        BY <1>1, <3>2, <4>1 DEF InOrder
    <3> QED
      BY <2>1, <2>2, <3>2, <3>3, <3>4 DEF OrdersItems
  <2>3. ASSUME Less(type, s[i], t[i]) PROVE FALSE
    <3>1. PICK j \in 1..n : j >= i /\ q[j] <= i
      BY <1>1, <1>5, NoRoom
    <3>2. q[j] \in 1..n /\ t[j] = s[q[j]] /\ t[j] \in S
      BY <1>1, <1>3, <1>5, <3>1
    <3>3. t[j] = t[i] \/ Less(type, t[i], t[j])
      <4>1. j = i \/ i < j
        BY <3>1
      <4> QED
        BY <1>2, <1>4, <4>1 DEF InOrder
    <3>4. t[j] = s[i] \/ Less(type, t[j], s[i])
      <4>1. q[j] = i \/ q[j] < i
        BY <3>1, <3>2
      <4> QED
        BY <1>1, <3>2, <4>1 DEF InOrder
    <3> QED
      BY <2>1, <2>3, <3>2, <3>3, <3>4 DEF OrdersItems
  <2> QED
    BY <2>1, <2>2, <2>3 DEF OrdersItems
<1> QED
  BY <1>1, <1>2, <1>4, <1>6, SeqEqual DEF n, t

-----------------------------------------------------------------------------
(* The order of domain names and of addresses.                             *)

(* Sequences a and b agree below k, where a ends or is less.               *)
FirstLess(a, b, k) ==
  /\ k \in 1..(Len(a) + 1) /\ k <= Len(b)
  /\ \A j \in 1..(k - 1) : a[j] = b[j]
  /\ k <= Len(a) => a[k] < b[k]

LEMMA LexicographicFacts ==
  ASSUME NEW a \in Seq(Nat), NEW b \in Seq(Nat)
  PROVE  Lexicographic(a, b) <=> \E k \in Nat : FirstLess(a, b, k)
<1>1. /\ Len(a) \in Nat /\ DOMAIN a = 1..Len(a)
      /\ Len(b) \in Nat /\ DOMAIN b = 1..Len(b)
  BY LenProperties
<1>2. ASSUME IsStrictPrefix(a, b) PROVE FirstLess(a, b, Len(a) + 1)
  <2>1. /\ Len(a) <= Len(b) /\ a # b
        /\ SubSeq(a, 1, Len(a)) = SubSeq(b, 1, Len(a))
    BY <1>2 DEF IsStrictPrefix, IsPrefix
  <2>2. ASSUME NEW j \in 1..Len(a) PROVE a[j] = b[j]
    <3>1. SubSeq(a, 1, Len(a))[j] = a[j] /\ SubSeq(b, 1, Len(a))[j] = b[j]
      BY <1>1, <2>1
    <3> QED
      BY <2>1, <3>1
  <2>3. Len(a) # Len(b)
    BY <2>1, <2>2, SeqEqual
  <2>4. /\ Len(a) + 1 \in 1..(Len(a) + 1) /\ Len(a) + 1 <= Len(b)
        /\ (Len(a) + 1) - 1 = Len(a) /\ ~(Len(a) + 1 <= Len(a))
    <3>1. Len(a) <= Len(b)
      BY <2>1
    <3>2. PICK m, n \in Nat : m = Len(a) /\ n = Len(b)
      BY <1>1
    <3>3. m <= n /\ m # n
      BY <2>3, <3>1, <3>2
    <3>4. m + 1 \in 1..(m + 1) /\ m + 1 <= n /\ (m + 1) - 1 = m /\ ~(m + 1 <= m)
      BY <3>3
    <3> QED
      BY <3>2, <3>4
  <2> QED
    BY <2>2, <2>4 DEF FirstLess
<1>3. ASSUME NEW k \in Nat, FirstLess(a, b, k), k > Len(a) PROVE IsStrictPrefix(a, b)
  <2>1. k = Len(a) + 1 /\ Len(a) < Len(b)
    BY <1>1, <1>3 DEF FirstLess
  <2>2. \A j \in 1..Len(a) : a[j] = b[j]
    BY <1>1, <1>3, <2>1 DEF FirstLess
  <2>3. SubSeq(a, 1, Len(a)) = [i \in 1..Len(a) |-> a[i]]
    BY <1>1
  <2>4. SubSeq(b, 1, Len(a)) = [i \in 1..Len(a) |-> b[i]]
    BY <1>1, <2>1
  <2> QED
    BY <1>1, <2>1, <2>2, <2>3, <2>4 DEF IsStrictPrefix, IsPrefix
<1>4. ASSUME NEW k \in DOMAIN a \cap DOMAIN b, a[k] < b[k],
             \A j \in 1..(k - 1) : a[j] = b[j]
      PROVE  k \in Nat /\ FirstLess(a, b, k)
  BY <1>1, <1>4 DEF FirstLess
<1>5. ASSUME NEW k \in Nat, FirstLess(a, b, k), k <= Len(a)
      PROVE  \E i \in DOMAIN a \cap DOMAIN b :
               a[i] < b[i] /\ \A j \in 1..i - 1 : a[j] = b[j]
  <2>1. k \in DOMAIN a \cap DOMAIN b
    BY <1>1, <1>5 DEF FirstLess
  <2> QED
    BY <1>5, <2>1 DEF FirstLess
<1>6. ASSUME Lexicographic(a, b) PROVE \E k \in Nat : FirstLess(a, b, k)
  <2>1. CASE IsStrictPrefix(a, b)
    BY <1>1, <1>2, <2>1
  <2>2. CASE \E k \in DOMAIN a \cap DOMAIN b :
               a[k] < b[k] /\ \A j \in 1..k - 1 : a[j] = b[j]
    BY <1>4, <2>2
  <2> QED
    BY <1>6, <2>1, <2>2 DEF Lexicographic
<1>7. ASSUME NEW k \in Nat, FirstLess(a, b, k) PROVE Lexicographic(a, b)
  <2>1. CASE k > Len(a)
    BY <1>3, <1>7, <2>1 DEF Lexicographic
  <2>2. CASE k <= Len(a)
    BY <1>5, <1>7, <2>2 DEF Lexicographic
  <2> QED
    BY <1>1, <2>1, <2>2
<1> QED
  BY <1>6, <1>7

(* No sequence is less than itself.                                        *)
LEMMA LexicographicIrreflexive ==
  ASSUME NEW a \in Seq(Nat)
  PROVE  ~Lexicographic(a, a)
<1>1. ASSUME NEW k \in Nat, FirstLess(a, a, k) PROVE FALSE
  <2>1. k \in 1..Len(a) /\ a[k] < a[k]
    BY <1>1, LenProperties DEF FirstLess
  <2>2. a[k] \in Nat
    BY <2>1, ElementOfSeq
  <2> QED
    BY <2>1, <2>2
<1> QED
  BY <1>1, LexicographicFacts

LEMMA LexicographicTransitive ==
  ASSUME NEW a \in Seq(Nat), NEW b \in Seq(Nat), NEW c \in Seq(Nat),
         Lexicographic(a, b), Lexicographic(b, c)
  PROVE  Lexicographic(a, c)
<1>1. /\ Len(a) \in Nat /\ \A i \in 1..Len(a) : a[i] \in Nat
      /\ Len(b) \in Nat /\ \A i \in 1..Len(b) : b[i] \in Nat
      /\ Len(c) \in Nat /\ \A i \in 1..Len(c) : c[i] \in Nat
  BY LenProperties, ElementOfSeq
<1>2. PICK k \in Nat : FirstLess(a, b, k)
  BY LexicographicFacts
<1>3. PICK l \in Nat : FirstLess(b, c, l)
  BY LexicographicFacts
<1>4. /\ k \in 1..(Len(a) + 1) /\ k <= Len(b)
      /\ \A j \in 1..(k - 1) : a[j] = b[j]
      /\ k <= Len(a) => a[k] < b[k]
  BY <1>2 DEF FirstLess
<1>5. /\ l \in 1..(Len(b) + 1) /\ l <= Len(c)
      /\ \A j \in 1..(l - 1) : b[j] = c[j]
      /\ l <= Len(b) => b[l] < c[l]
  BY <1>3 DEF FirstLess
<1>6. CASE k < l
  <2>1. k \in 1..(l - 1) /\ k <= Len(c)
    BY <1>1, <1>4, <1>5, <1>6
  <2>2. b[k] = c[k]
    BY <1>5, <2>1
  <2>3. \A j \in 1..(k - 1) : a[j] = c[j]
    BY <1>1, <1>4, <1>5, <1>6
  <2>4. FirstLess(a, c, k)
    BY <1>4, <2>1, <2>2, <2>3 DEF FirstLess
  <2> QED
    BY <2>4, LexicographicFacts
<1>7. CASE l < k
  <2>1. l \in 1..(k - 1) /\ l \in 1..(Len(a) + 1) /\ l <= Len(b)
    BY <1>1, <1>4, <1>5, <1>7, SMTT(30)
  <2>2. a[l] = b[l] /\ b[l] < c[l]
    BY <1>4, <1>5, <2>1
  <2>3. \A j \in 1..(l - 1) : a[j] = c[j]
    BY <1>1, <1>4, <1>5, <1>7
  <2>4. FirstLess(a, c, l)
    BY <1>5, <2>1, <2>2, <2>3 DEF FirstLess
  <2> QED
    BY <2>4, LexicographicFacts
<1>8. CASE k = l
  <2>1. \A j \in 1..(k - 1) : a[j] = c[j]
    BY <1>4, <1>5, <1>8
  <2>2. ASSUME k <= Len(a) PROVE a[k] < c[k]
    <3>1. a[k] < b[k] /\ b[k] < c[k]
      BY <1>4, <1>5, <1>8, <2>2
    <3>2. a[k] \in Nat /\ b[k] \in Nat /\ c[k] \in Nat
      BY <1>1, <1>4, <1>5, <1>8, <2>2
    <3> QED
      BY <3>1, <3>2
  <2>3. FirstLess(a, c, k)
    BY <1>4, <1>5, <1>8, <2>1, <2>2 DEF FirstLess
  <2> QED
    BY <2>3, LexicographicFacts
<1> QED
  BY <1>6, <1>7, <1>8

LEMMA LexicographicTotal ==
  ASSUME NEW a \in Seq(Nat), NEW b \in Seq(Nat), a # b
  PROVE  Lexicographic(a, b) \/ Lexicographic(b, a)
<1>1. /\ Len(a) \in Nat /\ \A i \in 1..Len(a) : a[i] \in Nat
      /\ Len(b) \in Nat /\ \A i \in 1..Len(b) : b[i] \in Nat
  BY LenProperties, ElementOfSeq
<1> DEFINE Agree(k) == k <= Len(a) /\ k <= Len(b) /\ a[k] = b[k]
           T == {k \in Nat : 1 <= k /\ ~Agree(k)}
<1>2. Len(a) + 1 \in T
  BY <1>1
<1>3. PICK k \in T : \A j \in T : k <= j
  <2> HIDE DEF T
  <2>1. T \subseteq Nat /\ T # {}
    BY <1>2 DEF T
  <2> QED
    BY <2>1, LeastNumber
<1>4. k \in Nat /\ 1 <= k /\ ~Agree(k) /\ k \in T
  BY <1>3
<1>5. ASSUME NEW j \in 1..(k - 1) PROVE Agree(j)
  <2>1. j \in Nat /\ 1 <= j /\ ~(k <= j)
    BY <1>4
  <2> QED
    BY <1>3, <2>1
<1>6. k <= Len(a) + 1 /\ k <= Len(b) + 1
  <2>1. CASE k = 1
    BY <1>1, <2>1
  <2>2. CASE k # 1
    <3>1. k - 1 \in 1..(k - 1)
      BY <1>4, <2>2
    <3>2. k - 1 <= Len(a) /\ k - 1 <= Len(b)
      BY <1>5, <3>1
    <3> QED
      BY <1>1, <1>4, <3>2
  <2> QED
    BY <2>1, <2>2
<1>7. \A j \in 1..(k - 1) : a[j] = b[j] /\ b[j] = a[j]
  BY <1>5
<1>8. CASE k <= Len(a) /\ k <= Len(b)
  <2>1. a[k] \in Nat /\ b[k] \in Nat /\ a[k] # b[k]
    BY <1>1, <1>4, <1>8
  <2>2. a[k] < b[k] \/ b[k] < a[k]
    BY <2>1
  <2>3. FirstLess(a, b, k) \/ FirstLess(b, a, k)
    BY <1>1, <1>4, <1>6, <1>7, <1>8, <2>2 DEF FirstLess
  <2> QED
    BY <1>4, <2>3, LexicographicFacts
<1>9. CASE k = Len(a) + 1 /\ k <= Len(b)
  <2>1. FirstLess(a, b, k)
    BY <1>1, <1>4, <1>7, <1>9 DEF FirstLess
  <2> QED
    BY <1>4, <2>1, LexicographicFacts
<1>10. CASE k = Len(b) + 1 /\ k <= Len(a)
  <2>1. FirstLess(b, a, k)
    BY <1>1, <1>4, <1>7, <1>10 DEF FirstLess
  <2> QED
    BY <1>4, <2>1, LexicographicFacts
<1>11. CASE k = Len(a) + 1 /\ k = Len(b) + 1
  <2>1. Len(a) = Len(b) /\ \A j \in 1..Len(a) : a[j] = b[j]
    BY <1>1, <1>7, <1>11
  <2> QED
    BY <2>1, SeqEqual
<1> QED
  BY <1>1, <1>4, <1>6, <1>8, <1>9, <1>10, <1>11, SMTT(30)

(* A domain name can be told from its labels in reverse.                   *)
LEMMA ReverseFacts ==
  ASSUME NEW d \in Seq(Nat), NEW e \in Seq(Nat)
  PROVE  Reverse(d) \in Seq(Nat) /\ (Reverse(d) = Reverse(e) => d = e)
<1>1. /\ Len(d) \in Nat /\ \A i \in 1..Len(d) : d[i] \in Nat
      /\ Len(e) \in Nat /\ \A i \in 1..Len(e) : e[i] \in Nat
  BY LenProperties, ElementOfSeq
<1>2. /\ Reverse(d) = [i \in 1..Len(d) |-> d[(Len(d) - i) + 1]]
      /\ Reverse(e) = [i \in 1..Len(e) |-> e[(Len(e) - i) + 1]]
  BY DEF Reverse
<1>3. Reverse(d) \in [1..Len(d) -> Nat] /\ Reverse(e) \in [1..Len(e) -> Nat]
  BY <1>1, <1>2, SMTT(30)
<1>4. /\ Reverse(d) \in Seq(Nat) /\ Len(Reverse(d)) = Len(d)
      /\ Reverse(e) \in Seq(Nat) /\ Len(Reverse(e)) = Len(e)
  BY <1>1, <1>3, FunctionIsSequence
<1>5. ASSUME Reverse(d) = Reverse(e) PROVE d = e
  <2>1. Len(d) = Len(e)
    BY <1>4, <1>5
  <2>2. ASSUME NEW i \in 1..Len(d) PROVE d[i] = e[i]
    <3>1. PICK j \in 1..Len(d) : (Len(d) - j) + 1 = i
      <4>1. (Len(d) - i) + 1 \in 1..Len(d) /\ (Len(d) - ((Len(d) - i) + 1)) + 1 = i
        BY <1>1
      <4> QED
        BY <4>1
    <3>2. Reverse(d)[j] = d[i] /\ Reverse(e)[j] = e[i]
      BY <1>2, <2>1, <3>1
    <3> QED
      BY <1>5, <3>2
  <2> QED
    BY <2>1, <2>2, SeqEqual
<1> QED
  BY <1>4, <1>5

(* The items that claims of a type may list.                               *)
Item(type) == IF type \in DomainTypes THEN Seq(Nat) ELSE Nat

(* Both orders are strict and total.                                       *)
LEMMA LessOrders == \A type : OrdersItems(type, Item(type))
<1> SUFFICES ASSUME NEW type PROVE OrdersItems(type, Item(type))
  OBVIOUS
<1>1. CASE type \in DomainTypes
  <2>1. Item(type) = Seq(Nat)
    BY <1>1 DEF Item
  <2>2. \A d, e : Less(type, d, e) <=> Lexicographic(Reverse(d), Reverse(e))
    BY <1>1 DEF Less, DomainLess
  <2>3. ASSUME NEW d \in Seq(Nat) PROVE ~Less(type, d, d)
    BY <2>2, ReverseFacts, LexicographicIrreflexive
  <2>4. ASSUME NEW d \in Seq(Nat), NEW e \in Seq(Nat), NEW f \in Seq(Nat),
               Less(type, d, e), Less(type, e, f)
        PROVE  Less(type, d, f)
    <3>1. /\ Reverse(d) \in Seq(Nat) /\ Reverse(e) \in Seq(Nat)
          /\ Reverse(f) \in Seq(Nat)
      BY ReverseFacts
    <3>2. Lexicographic(Reverse(d), Reverse(e)) /\ Lexicographic(Reverse(e), Reverse(f))
      BY <2>2, <2>4
    <3>3. Lexicographic(Reverse(d), Reverse(f))
      BY <3>1, <3>2, LexicographicTransitive
    <3> QED
      BY <2>2, <3>3
  <2>5. ASSUME NEW d \in Seq(Nat), NEW e \in Seq(Nat), d # e
        PROVE  Less(type, d, e) \/ Less(type, e, d)
    <3>1. /\ Reverse(d) \in Seq(Nat) /\ Reverse(e) \in Seq(Nat)
          /\ Reverse(d) # Reverse(e)
      BY <2>5, ReverseFacts
    <3>2. \/ Lexicographic(Reverse(d), Reverse(e))
          \/ Lexicographic(Reverse(e), Reverse(d))
      BY <3>1, LexicographicTotal
    <3> QED
      BY <2>2, <3>2
  <2> QED
    BY <2>1, <2>3, <2>4, <2>5 DEF OrdersItems
<1>2. CASE type \notin DomainTypes
  <2>1. Item(type) = Nat
    BY <1>2 DEF Item
  <2>2. \A x, y : Less(type, x, y) <=> x < y
    BY <1>2 DEF Less
  <2> QED
    BY <2>1, <2>2 DEF OrdersItems
<1> QED
  BY <1>1, <1>2

(* What Sorted returns for the items of a claim.                           *)
LEMMA SortedItems ==
  ASSUME NEW type, NEW s \in Seq(Item(type))
  PROVE  /\ Sorted(type, s) \in Seq(Item(type))
         /\ Len(Sorted(type, s)) = Len(s)
         /\ Sorted(type, s) = <<>> <=> s = <<>>
         /\ InOrder(type, Sorted(type, s))
         /\ Sorted(type, Sorted(type, s)) = Sorted(type, s)
         /\ \E p \in Bijection(DOMAIN s, DOMAIN s) :
              \A i \in DOMAIN s : Sorted(type, s)[i] = s[p[i]]
<1> DEFINE S == Item(type)
           t == Sorted(type, s)
<1>1. OrdersItems(type, S)
  BY LessOrders
<1>2. /\ t \in Seq(S) /\ Len(t) = Len(s) /\ InOrder(type, t)
      /\ \E p \in Bijection(DOMAIN s, DOMAIN s) : \A i \in DOMAIN s : t[i] = s[p[i]]
  BY <1>1, SortedFacts
<1>3. Sorted(type, t) = t
  <2> HIDE DEF t
  <2> QED
    BY <1>1, <1>2, SortedAgain
<1>4. t = <<>> <=> s = <<>>
  <2> HIDE DEF t, S
  <2>1. (t = <<>> <=> Len(t) = 0) /\ (s = <<>> <=> Len(s) = 0)
    BY <1>2, EmptySeq DEF S
  <2> QED
    BY <1>2, <2>1
<1> QED
  BY <1>2, <1>3, <1>4

(* A set of three elements lists different ones.                           *)
LEMMA ThreeElements ==
  ASSUME NEW i, NEW j, NEW k
  PROVE  Cardinality({i, j, k}) = 3 <=> i # j /\ i # k /\ j # k
<1>1. {i, j, k} = ({i} \cup {j}) \cup {k}
  OBVIOUS
<1>2. IsFiniteSet({i}) /\ Cardinality({i}) = 1
  BY FS_Singleton
<1>3. /\ IsFiniteSet({i} \cup {j})
      /\ Cardinality({i} \cup {j}) = IF j \in {i} THEN 1 ELSE 1 + 1
  BY <1>2, FS_AddElement
<1>4. Cardinality(({i} \cup {j}) \cup {k})
        = IF k \in {i} \cup {j} THEN Cardinality({i} \cup {j})
          ELSE Cardinality({i} \cup {j}) + 1
  BY <1>3, FS_AddElement
<1>5. CASE i = j
  <2>1. Cardinality({i} \cup {j}) = 1
    BY <1>3, <1>5
  <2>2. Cardinality(({i} \cup {j}) \cup {k}) \in {1, 2}
    BY <1>4, <2>1
  <2> QED
    BY <1>1, <1>5, <2>2
<1>6. CASE i # j
  <2>1. Cardinality({i} \cup {j}) = 2
    BY <1>3, <1>6
  <2>2. Cardinality(({i} \cup {j}) \cup {k}) = IF k = i \/ k = j THEN 2 ELSE 3
    BY <1>4, <2>1
  <2> QED
    BY <1>1, <1>6, <2>2
<1> QED
  BY <1>5, <1>6

(* An address comes twice, and a third one is not larger.                  *)
Repeats(ips) ==
  \E i, j, k \in DOMAIN ips :
    i # j /\ i # k /\ j # k /\ ips[i] = ips[j] /\ ips[k] <= ips[i]

(* In ascending order, that shows at a third address or later.             *)
LEMMA RepeatsInOrder ==
  ASSUME NEW t \in Seq(Nat),
         \A i, j \in 1..Len(t) : i < j => t[i] <= t[j]
  PROVE  Repeats(t) <=> ~AddressesOrdered(t)
<1>1. Len(t) \in Nat /\ DOMAIN t = 1..Len(t) /\ \A i \in 1..Len(t) : t[i] \in Nat
  BY LenProperties, ElementOfSeq
<1>2. ASSUME ~AddressesOrdered(t) PROVE Repeats(t)
  <2>1. PICK i \in 3..Len(t) : ~(t[i - 1] < t[i])
    BY <1>2 DEF AddressesOrdered
  <2>2. /\ i \in 1..Len(t) /\ i - 1 \in 1..Len(t) /\ 1 \in 1..Len(t)
        /\ i - 1 < i /\ 1 < i
        /\ i # i - 1 /\ i # 1 /\ i - 1 # 1
    BY <1>1, <2>1
  <2>3. t[i - 1] <= t[i] /\ t[1] <= t[i] /\ t[i] \in Nat /\ t[i - 1] \in Nat
    BY <1>1, <2>2
  <2>4. t[i] = t[i - 1]
    BY <2>1, <2>3
  <2> QED
    BY <1>1, <2>2, <2>3, <2>4 DEF Repeats
<1>3. ASSUME AddressesOrdered(t), NEW i \in 1..Len(t), NEW j \in 1..Len(t), i < j,
             t[i] = t[j]
      PROVE  i = 1 /\ j = 2
  <2>1. CASE j <= 2
    BY <1>1, <1>3, <2>1
  <2>2. CASE j > 2
    <3>1. j \in 3..Len(t) /\ j - 1 \in 1..Len(t) /\ (i = j - 1 \/ i < j - 1)
      BY <1>1, <1>3, <2>2
    <3>2. t[j - 1] < t[j] /\ t[j] \in Nat /\ t[j - 1] \in Nat /\ t[i] \in Nat
      BY <1>1, <1>3, <3>1 DEF AddressesOrdered
    <3>3. t[i] <= t[j - 1]
      BY <3>1, <3>2
    <3> QED
      BY <1>3, <3>2, <3>3
  <2> QED
    BY <1>1, <2>1, <2>2
<1>4. ASSUME AddressesOrdered(t), NEW i \in 1..Len(t), NEW j \in 1..Len(t),
             NEW k \in 1..Len(t), i < j, k # i, k # j, t[i] = t[j], t[k] <= t[i]
      PROVE  FALSE
  <2>1. i = 1 /\ j = 2
    BY <1>3, <1>4
  <2>2. j < k
    BY <1>1, <1>4, <2>1
  <2>3. t[j] <= t[k] /\ t[j] \in Nat /\ t[k] \in Nat
    BY <1>1, <2>2
  <2>4. t[j] = t[k]
    BY <1>4, <2>3
  <2>5. j = 1
    BY <1>3, <1>4, <2>2, <2>4
  <2> QED
    BY <2>1, <2>5
<1>5. ASSUME AddressesOrdered(t), Repeats(t) PROVE FALSE
  <2>1. PICK i, j, k \in 1..Len(t) :
          i # j /\ i # k /\ j # k /\ t[i] = t[j] /\ t[k] <= t[i]
    BY <1>1, <1>5 DEF Repeats
  <2>2. CASE i < j
    BY <1>4, <1>5, <2>1, <2>2
  <2>3. CASE j < i
    <3>1. t[j] = t[i] /\ t[k] <= t[j] /\ k # j /\ k # i
      BY <2>1
    <3> QED
      BY <1>4, <1>5, <2>3, <3>1
  <2> QED
    BY <1>1, <2>1, <2>2, <2>3
<1> QED
  BY <1>2, <1>5

(* Order does not matter to whether an address is repeated.                *)
LEMMA RepeatsRearranged ==
  ASSUME NEW s \in Seq(Nat), NEW t \in Seq(Nat), Len(t) = Len(s),
         NEW p \in Bijection(DOMAIN s, DOMAIN s),
         \A i \in DOMAIN s : t[i] = s[p[i]]
  PROVE  Repeats(t) <=> Repeats(s)
<1> DEFINE D == DOMAIN s
<1>1. DOMAIN t = D
  BY LenProperties
<1> HIDE DEF D
<1>2. /\ p \in [D -> D]
      /\ \A i, j \in D : p[i] = p[j] => i = j
      /\ \A k \in D : \E i \in D : p[i] = k
  BY DEF D, Bijection, Injection, Surjection, IsInjective
<1>3. \A i \in D : p[i] \in D /\ t[i] = s[p[i]]
  BY <1>2 DEF D
<1>4. ASSUME Repeats(t) PROVE Repeats(s)
  <2>1. PICK i, j, k \in D :
          i # j /\ i # k /\ j # k /\ t[i] = t[j] /\ t[k] <= t[i]
    BY <1>1, <1>4 DEF Repeats
  <2>2. p[i] # p[j] /\ p[i] # p[k] /\ p[j] # p[k]
    BY <1>2, <2>1
  <2>3. s[p[i]] = s[p[j]] /\ s[p[k]] <= s[p[i]]
    BY <1>3, <2>1
  <2> QED
    BY <1>3, <2>2, <2>3 DEF Repeats, D
<1>5. ASSUME Repeats(s) PROVE Repeats(t)
  <2>1. PICK i, j, k \in D :
          i # j /\ i # k /\ j # k /\ s[i] = s[j] /\ s[k] <= s[i]
    BY <1>5 DEF Repeats, D
  <2>2. PICK a \in D : p[a] = i
    BY <1>2
  <2>3. PICK b \in D : p[b] = j
    BY <1>2
  <2>4. PICK c \in D : p[c] = k
    BY <1>2
  <2>5. a # b /\ a # c /\ b # c
    BY <2>1, <2>2, <2>3, <2>4
  <2>6. t[a] = t[b] /\ t[c] <= t[a]
    BY <1>3, <2>1, <2>2, <2>3, <2>4
  <2> QED
    BY <1>1, <2>5, <2>6 DEF Repeats
<1> QED
  BY <1>4, <1>5

(* Sorted addresses are accepted when none is repeated.                    *)
LEMMA AddressFacts ==
  ASSUME NEW type \in IpTypes, NEW ips \in Seq(Nat)
  PROVE  AddressesOrdered(Sorted(type, ips)) <=> ~Repeats(ips)
<1> DEFINE t == Sorted(type, ips)
<1>1. type \notin DomainTypes
  BY DEF IpTypes, DomainTypes, DnsClaimType, DnsWildcardClaimType, EnsClaimType,
         Ipv4ClaimType, Ipv6ClaimType
<1>2. Item(type) = Nat
  BY <1>1 DEF Item
<1>3. /\ t \in Seq(Nat) /\ Len(t) = Len(ips) /\ InOrder(type, t)
      /\ \E p \in Bijection(DOMAIN ips, DOMAIN ips) :
           \A i \in DOMAIN ips : t[i] = ips[p[i]]
  BY <1>2, SortedItems
<1> HIDE DEF t
<1>4. Repeats(t) <=> Repeats(ips)
  BY <1>3, RepeatsRearranged
<1>5. DOMAIN t = 1..Len(t) /\ \A i \in 1..Len(t) : t[i] \in Nat
  BY <1>3, LenProperties, ElementOfSeq
<1>6. ASSUME NEW i \in 1..Len(t), NEW j \in 1..Len(t), i < j PROVE t[i] <= t[j]
  <2>1. Less(type, t[i], t[j]) \/ t[i] = t[j]
    BY <1>3, <1>5, <1>6 DEF InOrder
  <2>2. t[i] < t[j] \/ t[i] = t[j]
    BY <1>1, <2>1 DEF Less
  <2>3. t[i] \in Nat /\ t[j] \in Nat
    BY <1>5
  <2> QED
    BY <2>2, <2>3
<1>7. Repeats(t) <=> ~AddressesOrdered(t)
  BY <1>3, <1>6, RepeatsInOrder
<1> QED
  BY <1>4, <1>7 DEF t

-----------------------------------------------------------------------------
(* The length of claims on the wire.                                       *)

WireClaim == [type : Nat, items : Seq(Nat) \cup Seq(Seq(Nat))]

(* What claims on the wire have at each position.                          *)
LEMMA WireFacts ==
  ASSUME NEW w \in Wires
  PROVE  /\ w \in Seq(WireClaim) /\ Len(w) \in Nat /\ DOMAIN w = 1..Len(w)
         /\ \A i \in 1..Len(w) : w[i] \in WireClaim /\ w[i].type \in Nat
                                   /\ Len(w[i].items) \in Nat
<1>1. w \in Seq(WireClaim)
  BY DEF Wires, WireClaim
<1>2. Len(w) \in Nat /\ DOMAIN w = 1..Len(w)
  BY <1>1, LenProperties
<1>3. ASSUME NEW i \in 1..Len(w)
      PROVE  w[i] \in WireClaim /\ w[i].type \in Nat /\ Len(w[i].items) \in Nat
  <2>1. w[i] \in WireClaim
    BY <1>1, <1>3, ElementOfSeq
  <2>2. w[i].type \in Nat /\ w[i].items \in Seq(Nat) \cup Seq(Seq(Nat))
    BY <2>1 DEF WireClaim
  <2>3. CASE w[i].items \in Seq(Nat)
    BY <2>1, <2>2, <2>3, LenProperties
  <2>4. CASE w[i].items \in Seq(Seq(Nat))
    BY <2>1, <2>2, <2>4, LenProperties
  <2> QED
    BY <2>2, <2>3, <2>4
<1> QED
  BY <1>1, <1>2, <1>3

(* f adds up the lengths of the first claims.                              *)
AddsUp(f, w) ==
  /\ f[0] = 0
  /\ \A n \in Nat : f[n + 1] = 1 + Len(w[n + 1].items) + f[n]

LEMMA WireLenAddsUp ==
  ASSUME NEW w
  PROVE  \E f : AddsUp(f, w) /\ WireLen(w) = f[Len(w)]
<1> DEFINE B == {0}
           add == [n \in Nat |-> 1 + Len(w[n].items)]
           below == [n \in Nat |-> n - 1]
           Equation(f) == f = [n \in Nat |-> IF n = 0 THEN 0
                                             ELSE 1 + Len(w[n].items) + f[n - 1]]
           upTo == CHOOSE f : Equation(f)
<1>1. WireLen(w) = upTo[Len(w)]
  BY DEF WireLen
<1>2. \E f : Equation(f)
  <2>1. ASSUME NEW n \in Nat \ B PROVE below[n] \in Nat /\ below[n] < n
    OBVIOUS
  <2> HIDE DEF B, add, below
  <2>2. PICK f : Satisfies(f, B, 0, add, below)
    BY <2>1, RecursionExists
  <2>3. ASSUME NEW n \in Nat
        PROVE  Value(f, n, B, 0, add, below)
                 = IF n = 0 THEN 0 ELSE 1 + Len(w[n].items) + f[n - 1]
    BY DEF Value, B, add, below
  <2>4. Equation(f)
    BY <2>2, <2>3 DEF Satisfies
  <2> QED
    BY <2>4
<1> HIDE DEF Equation
<1>3. Equation(upTo)
  BY <1>2, Zenon
<1> HIDE DEF upTo
<1>4. \A n \in Nat : upTo[n] = IF n = 0 THEN 0 ELSE 1 + Len(w[n].items) + upTo[n - 1]
  BY <1>3 DEF Equation
<1>5. ASSUME NEW n \in Nat
      PROVE  upTo[n + 1] = 1 + Len(w[n + 1].items) + upTo[n]
  <2>1. n + 1 \in Nat /\ n + 1 # 0 /\ (n + 1) - 1 = n
    OBVIOUS
  <2> QED
    BY <1>4, <2>1
<1>6. AddsUp(upTo, w)
  BY <1>4, <1>5 DEF AddsUp
<1> QED
  BY <1>1, <1>6

(* The sums are numbers.                                                   *)
LEMMA SumsAreNumbers ==
  ASSUME NEW w \in Wires, NEW f, AddsUp(f, w)
  PROVE  \A n \in 0..Len(w) : f[n] \in Nat
<1>1. Len(w) \in Nat /\ \A i \in 1..Len(w) : Len(w[i].items) \in Nat
  BY WireFacts
<1> DEFINE P == {n \in Nat : n <= Len(w) => f[n] \in Nat}
<1>2. ASSUME NEW n \in Nat, \A m \in Nat : m < n => m \in P, n <= Len(w)
      PROVE  f[n] \in Nat
  <2>1. CASE n = 0
    BY <2>1 DEF AddsUp
  <2>2. CASE n # 0
    <3>1. PICK m \in Nat : n = m + 1 /\ m < n /\ m <= Len(w)
      BY <1>1, <1>2, <2>2
    <3>2. f[m] \in Nat /\ n \in 1..Len(w)
      BY <1>1, <1>2, <2>2, <3>1
    <3>3. f[n] = 1 + Len(w[n].items) + f[m]
      BY <3>1 DEF AddsUp
    <3>4. Len(w[n].items) \in Nat
      BY <1>1, <3>2
    <3> QED
      BY <3>2, <3>3, <3>4
  <2> QED
    BY <2>1, <2>2
<1>3. \A n \in Nat : (\A m \in Nat : m < n => m \in P) => n \in P
  BY <1>2
<1> HIDE DEF P
<1>4. \A n \in Nat : n \in P
  BY <1>3, NumbersInduction
<1> QED
  BY <1>1, <1>4 DEF P

(* The claims v come in w, after the first k.                              *)
HasAfter(w, v, k) ==
  k + Len(v) <= Len(w) /\ \A i \in 1..Len(v) : w[k + i] = v[i]

(* There the sums grow as those of v.                                      *)
LEMMA SumsGrowAlike ==
  ASSUME NEW v \in Wires, NEW w \in Wires, NEW f, AddsUp(f, v), NEW g, AddsUp(g, w),
         NEW k \in Nat, HasAfter(w, v, k)
  PROVE  \A n \in 0..Len(v) : g[k + n] = g[k] + f[n]
<1>1. /\ Len(v) \in Nat /\ Len(w) \in Nat
      /\ \A i \in 1..Len(v) : Len(v[i].items) \in Nat
  BY WireFacts
<1>2. /\ \A n \in 0..Len(v) : f[n] \in Nat
      /\ g[k] \in Nat
  <2>1. k \in 0..Len(w)
    BY <1>1 DEF HasAfter
  <2> QED
    BY <2>1, SumsAreNumbers
<1> DEFINE P == {n \in Nat : n <= Len(v) => g[k + n] = g[k] + f[n]}
<1>3. ASSUME NEW n \in Nat, \A m \in Nat : m < n => m \in P, n <= Len(v)
      PROVE  g[k + n] = g[k] + f[n]
  <2>1. CASE n = 0
    <3>1. k + n = k /\ f[n] = 0
      BY <2>1 DEF AddsUp
    <3> QED
      BY <1>2, <3>1
  <2>2. CASE n # 0
    <3>1. PICK m \in Nat : n = m + 1 /\ m < n /\ m <= Len(v)
      BY <1>1, <1>3, <2>2
    <3>2. g[k + m] = g[k] + f[m] /\ n \in 1..Len(v) /\ m \in 0..Len(v)
      BY <1>1, <1>3, <2>2, <3>1
    <3>3. k + m \in Nat /\ (k + m) + 1 = k + n
      BY <3>1
    <3>4. g[k + n] = 1 + Len(w[k + n].items) + g[k + m]
      BY <3>3 DEF AddsUp
    <3>5. f[n] = 1 + Len(v[n].items) + f[m]
      BY <3>1 DEF AddsUp
    <3>6. w[k + n] = v[n] /\ Len(v[n].items) \in Nat /\ f[m] \in Nat
      BY <1>1, <1>2, <3>2 DEF HasAfter
    <3>7. g[k + n] = 1 + Len(v[n].items) + (g[k] + f[m]) /\ g[k] \in Nat
      BY <1>2, <3>2, <3>4, <3>6
    <3> QED
      BY <3>5, <3>6, <3>7
  <2> QED
    BY <2>1, <2>2
<1>4. \A n \in Nat : (\A m \in Nat : m < n => m \in P) => n \in P
  BY <1>3
<1> HIDE DEF P
<1>5. \A n \in Nat : n \in P
  BY <1>4, NumbersInduction
<1> QED
  BY <1>1, <1>5 DEF P

(* The length of one claim after another.                                  *)
LEMMA WireLenFacts ==
  ASSUME NEW v \in Wires, NEW w \in Wires
  PROVE  /\ v \o w \in Wires
         /\ WireLen(v) \in Nat
         /\ WireLen(v \o w) = WireLen(v) + WireLen(w)
<1>1. /\ v \in Seq(WireClaim) /\ Len(v) \in Nat
      /\ w \in Seq(WireClaim) /\ Len(w) \in Nat
  BY WireFacts
<1> DEFINE u == v \o w
<1>2. /\ u \in Wires /\ Len(u) = Len(v) + Len(w)
      /\ \A i \in 1..Len(v) : u[0 + i] = v[i]
      /\ \A i \in 1..Len(w) : u[Len(v) + i] = w[i]
  <2>1. u \in Wires
    BY <1>1, ConcatProperties DEF Wires, WireClaim
  <2> QED
    BY <1>1, <2>1
<1> HIDE DEF u
<1>3. PICK f : AddsUp(f, v) /\ WireLen(v) = f[Len(v)]
  BY WireLenAddsUp
<1>4. PICK g : AddsUp(g, w) /\ WireLen(w) = g[Len(w)]
  BY WireLenAddsUp
<1>5. PICK h : AddsUp(h, u) /\ WireLen(u) = h[Len(u)]
  BY WireLenAddsUp
<1>6. h[0 + Len(v)] = h[0] + f[Len(v)]
  <2>1. 0 \in Nat /\ HasAfter(u, v, 0) /\ Len(v) \in 0..Len(v)
    BY <1>1, <1>2 DEF HasAfter
  <2> QED
    BY <1>2, <1>3, <1>5, <2>1, SumsGrowAlike
<1>7. h[Len(v) + Len(w)] = h[Len(v)] + g[Len(w)]
  <2>1. Len(v) \in Nat /\ HasAfter(u, w, Len(v)) /\ Len(w) \in 0..Len(w)
    BY <1>1, <1>2 DEF HasAfter
  <2> QED
    BY <1>2, <1>4, <1>5, <2>1, SumsGrowAlike
<1>8. f[Len(v)] \in Nat /\ h[0] = 0
  <2>1. Len(v) \in 0..Len(v)
    BY <1>1
  <2> QED
    BY <1>3, <1>5, <2>1, SumsAreNumbers DEF AddsUp
<1>9. h[Len(v)] = f[Len(v)]
  <2>1. 0 + Len(v) = Len(v)
    BY <1>1
  <2> QED
    BY <1>6, <1>8, <2>1
<1> QED
  BY <1>2, <1>3, <1>4, <1>5, <1>7, <1>8, <1>9 DEF u

LEMMA WireLenSmall ==
  /\ <<>> \in Wires /\ WireLen(<<>>) = 0
  /\ \A claim \in WireClaim :
       <<claim>> \in Wires /\ WireLen(<<claim>>) = 1 + Len(claim.items)
<1>1. <<>> \in Wires /\ Len(<<>>) = 0
  BY DEF Wires
<1>2. PICK f : AddsUp(f, <<>>) /\ WireLen(<<>>) = f[Len(<<>>)]
  BY WireLenAddsUp
<1>3. WireLen(<<>>) = 0
  BY <1>1, <1>2 DEF AddsUp
<1>4. ASSUME NEW claim \in WireClaim
      PROVE  <<claim>> \in Wires /\ WireLen(<<claim>>) = 1 + Len(claim.items)
  <2>1. <<claim>> \in Wires /\ Len(<<claim>>) = 1 /\ <<claim>>[1] = claim
    BY DEF Wires, WireClaim
  <2>2. PICK g : AddsUp(g, <<claim>>) /\ WireLen(<<claim>>) = g[Len(<<claim>>)]
    BY WireLenAddsUp
  <2>3. g[0] = 0 /\ g[0 + 1] = 1 + Len(<<claim>>[0 + 1].items) + g[0]
    BY <2>2 DEF AddsUp
  <2>4. g[1] = 1 + Len(claim.items) + 0
    BY <2>1, <2>3
  <2>5. Len(claim.items) \in Nat
    BY <2>1, WireFacts
  <2> QED
    BY <2>1, <2>2, <2>4, <2>5
<1> QED
  BY <1>1, <1>3, <1>4

-----------------------------------------------------------------------------
(* Writing claims.                                                         *)

LEMMA TypeNumbers ==
  /\ DnsClaimType = 0 /\ DnsWildcardClaimType = 1 /\ EnsClaimType = 2
  /\ Ipv4ClaimType = 3 /\ Ipv6ClaimType = 4
  /\ DomainTypes = {0, 1, 2} /\ IpTypes = {3, 4} /\ KnownTypes = {0, 1, 2, 3, 4}
BY DEF DnsClaimType, DnsWildcardClaimType, EnsClaimType, Ipv4ClaimType,
       Ipv6ClaimType, DomainTypes, IpTypes, KnownTypes

(* The fields by number, and what they hold.                               *)
LEMMA FieldFacts ==
  ASSUME NEW c \in Claims
  PROVE  /\ Field(c, 0) = c.DNS /\ Field(c, 1) = c.DNSWildcard /\ Field(c, 2) = c.ENS
         /\ Field(c, 3) = c.IPv4 /\ Field(c, 4) = c.IPv6
         /\ \A type \in KnownTypes : Field(c, type) \in Seq(Item(type))
         /\ c.Unknown \in Seq(Nat)
<1>1. /\ Field(c, 0) = c.DNS /\ Field(c, 1) = c.DNSWildcard /\ Field(c, 2) = c.ENS
      /\ Field(c, 3) = c.IPv4 /\ Field(c, 4) = c.IPv6
  BY DEF Field, DnsClaimType, DnsWildcardClaimType, EnsClaimType, Ipv4ClaimType,
         Ipv6ClaimType
<1>2. /\ c.DNS \in Seq(Seq(Nat)) /\ c.DNSWildcard \in Seq(Seq(Nat))
      /\ c.ENS \in Seq(Seq(Nat)) /\ c.IPv4 \in Seq(Nat) /\ c.IPv6 \in Seq(Nat)
      /\ c.Unknown \in Seq(Nat)
  BY DEF Claims
<1>3. /\ Item(0) = Seq(Nat) /\ Item(1) = Seq(Nat) /\ Item(2) = Seq(Nat)
      /\ Item(3) = Nat /\ Item(4) = Nat
  BY TypeNumbers DEF Item
<1>4. ASSUME NEW type \in KnownTypes PROVE Field(c, type) \in Seq(Item(type))
  <2>1. type \in {0, 1, 2, 3, 4}
    BY TypeNumbers
  <2> QED
    BY <1>1, <1>2, <1>3, <2>1
<1> QED
  BY <1>1, <1>2, <1>4

(* Items of a known type, sorted or not, can be in a claim on the wire.    *)
LEMMA ItemsFacts ==
  ASSUME NEW type \in KnownTypes
  PROVE  Items(type) = Seq(Item(type)) /\ Items(type) \subseteq Seq(Nat) \cup Seq(Seq(Nat))
<1>1. CASE type \in DomainTypes
  BY <1>1 DEF Items, Item
<1>2. CASE type \notin DomainTypes
  <2>1. type \in IpTypes
    BY <1>2 DEF KnownTypes
  <2> QED
    BY <1>2, <2>1 DEF Items, Item
<1> QED
  BY <1>1, <1>2

(* How long the claim of a type is.                                        *)
Size(c, type) == IF Field(c, type) = <<>> THEN 0 ELSE 1 + Len(Field(c, type))

WrittenClaim(c, type) == [type |-> type, items |-> Sorted(type, Field(c, type))]

LEMMA WrittenFacts ==
  ASSUME NEW c \in Claims, NEW type \in KnownTypes
  PROVE  /\ Written(c, type) \in Wires
         /\ WireLen(Written(c, type)) = Size(c, type)
         /\ Size(c, type) \in Nat
         /\ Field(c, type) = <<>> => Written(c, type) = <<>>
         /\ Field(c, type) # <<>> => Written(c, type) = <<WrittenClaim(c, type)>>
         /\ WrittenClaim(c, type) \in WireClaim
<1> DEFINE claim == WrittenClaim(c, type)
<1>1. Field(c, type) \in Seq(Item(type))
  BY FieldFacts
<1>2. /\ Sorted(type, Field(c, type)) \in Seq(Item(type))
      /\ Len(Sorted(type, Field(c, type))) = Len(Field(c, type))
  BY <1>1, SortedItems
<1>3. type \in Nat
  BY TypeNumbers
<1>4. /\ claim \in WireClaim
      /\ claim.items = Sorted(type, Field(c, type))
  <2>1. Sorted(type, Field(c, type)) \in Seq(Nat) \cup Seq(Seq(Nat))
    BY <1>2, ItemsFacts
  <2> QED
    BY <1>3, <2>1 DEF WireClaim, WrittenClaim
<1>5. Len(Field(c, type)) \in Nat
  BY <1>1, LenProperties
<1>6. CASE Field(c, type) = <<>>
  <2>1. Written(c, type) = <<>> /\ Size(c, type) = 0
    BY <1>6 DEF Written, Size
  <2> QED
    BY <1>4, <1>6, <2>1, WireLenSmall
<1>7. CASE Field(c, type) # <<>>
  <2>1. Written(c, type) = <<claim>> /\ Size(c, type) = 1 + Len(Field(c, type))
    BY <1>7 DEF Written, Size, WrittenClaim
  <2> HIDE DEF claim
  <2>2. <<claim>> \in Wires /\ WireLen(<<claim>>) = 1 + Len(claim.items)
    BY <1>4, WireLenSmall
  <2> QED
    BY <1>2, <1>4, <1>5, <1>7, <2>1, <2>2 DEF claim
<1> QED
  BY <1>6, <1>7

(* w has the claims of c of the types below b, in this order.              *)
HasBelow(c, w, b) ==
  /\ w \in Wires
  /\ \A i, j \in 1..Len(w) : i < j => w[i].type < w[j].type
  /\ \A i \in 1..Len(w) :
       /\ w[i].type \in KnownTypes /\ w[i].type < b
       /\ Field(c, w[i].type) # <<>> /\ w[i] = WrittenClaim(c, w[i].type)
  /\ \A type \in KnownTypes :
       type < b /\ Field(c, type) # <<>> => \E i \in 1..Len(w) : w[i].type = type

LEMMA NoneBelow ==
  ASSUME NEW c
  PROVE  HasBelow(c, <<>>, 0)
<1>1. <<>> \in Wires /\ Len(<<>>) = 0
  BY WireLenSmall
<1> QED
  BY <1>1, TypeNumbers DEF HasBelow

LEMMA OneMoreBelow ==
  ASSUME NEW c \in Claims, NEW w, NEW b \in KnownTypes, HasBelow(c, w, b)
  PROVE  HasBelow(c, w \o Written(c, b), b + 1)
<1>1. /\ w \in Wires /\ w \in Seq(WireClaim) /\ Len(w) \in Nat
      /\ \A i \in 1..Len(w) : w[i].type \in Nat
  BY WireFacts DEF HasBelow
<1>2. b \in Nat /\ KnownTypes \subseteq Nat
  BY TypeNumbers
<1>3. CASE Field(c, b) = <<>>
  <2>1. Written(c, b) = <<>>
    BY <1>3, WrittenFacts
  <2>2. w \o Written(c, b) = w
    BY <1>1, <2>1, ConcatEmptySeq
  <2>3. \A t \in Nat : t < b => t < b + 1
    BY <1>2
  <2>4. \A t \in KnownTypes : t < b + 1 => t < b \/ t = b
    BY <1>2
  <2>5. HasBelow(c, w, b + 1)
    BY <1>1, <1>2, <1>3, <2>3, <2>4 DEF HasBelow
  <2> QED
    BY <2>2, <2>5
<1>4. CASE Field(c, b) # <<>>
  <2> DEFINE claim == WrittenClaim(c, b)
             u == w \o Written(c, b)
  <2>1. Written(c, b) = <<claim>> /\ claim \in WireClaim /\ claim.type = b
    BY <1>4, WrittenFacts DEF WrittenClaim
  <2> HIDE DEF claim
  <2>2. /\ u \in Wires /\ Len(u) = Len(w) + 1
        /\ \A i \in 1..Len(w) : u[i] = w[i]
        /\ u[Len(w) + 1] = claim
    <3>1. u \in Wires
      BY <1>1, <2>1, WireLenFacts, WireLenSmall
    <3>2. Len(<<claim>>) = 1 /\ <<claim>>[1] = claim /\ <<claim>> \in Seq(WireClaim)
      BY <2>1
    <3> QED
      BY <1>1, <2>1, <3>1, <3>2
  <2> HIDE DEF u
  <2>3. \A i \in 1..Len(u) : i \in 1..Len(w) \/ i = Len(w) + 1
    BY <1>1, <2>2
  <2>4. ASSUME NEW i \in 1..Len(u), NEW j \in 1..Len(u), i < j
        PROVE  u[i].type < u[j].type
    <3>1. i \in 1..Len(w)
      BY <1>1, <2>2, <2>4
    <3>2. CASE j \in 1..Len(w)
      BY <2>2, <2>4, <3>1, <3>2 DEF HasBelow
    <3>3. CASE j = Len(w) + 1
      BY <2>1, <2>2, <3>1, <3>3 DEF HasBelow
    <3> QED
      BY <2>3, <3>2, <3>3
  <2>5. ASSUME NEW i \in 1..Len(u)
        PROVE  /\ u[i].type \in KnownTypes /\ u[i].type < b + 1
               /\ Field(c, u[i].type) # <<>> /\ u[i] = WrittenClaim(c, u[i].type)
    <3>1. CASE i \in 1..Len(w)
      <4>1. /\ w[i].type \in KnownTypes /\ w[i].type < b
            /\ Field(c, w[i].type) # <<>> /\ w[i] = WrittenClaim(c, w[i].type)
            /\ u[i] = w[i] /\ w[i].type \in Nat
        BY <1>1, <2>2, <3>1 DEF HasBelow
      <4> QED
        BY <1>2, <4>1
    <3>2. CASE i = Len(w) + 1
      BY <1>2, <1>4, <2>1, <2>2, <3>2 DEF claim
    <3> QED
      BY <2>3, <3>1, <3>2
  <2>6. ASSUME NEW type \in KnownTypes, type < b + 1, Field(c, type) # <<>>
        PROVE  \E i \in 1..Len(u) : u[i].type = type
    <3>1. CASE type < b
      <4>1. PICK i \in 1..Len(w) : w[i].type = type
        BY <2>6, <3>1 DEF HasBelow
      <4> QED
        BY <1>1, <2>2, <4>1
    <3>2. CASE type = b
      <4>1. Len(w) + 1 \in 1..Len(u)
        BY <1>1, <2>2
      <4> QED
        BY <2>1, <2>2, <3>2, <4>1
    <3> QED
      BY <1>2, <2>6, <3>1, <3>2
  <2> QED
    BY <2>2, <2>4, <2>5, <2>6 DEF HasBelow, u
<1> QED
  BY <1>3, <1>4

(* The claims before the unknown ones, and these.                          *)
KnownPart(c) ==
  Written(c, DnsClaimType) \o Written(c, DnsWildcardClaimType)
    \o Written(c, EnsClaimType) \o Written(c, Ipv4ClaimType)
    \o Written(c, Ipv6ClaimType)

UnknownPart(c) == [i \in DOMAIN c.Unknown |-> [type |-> c.Unknown[i], items |-> <<>>]]

LEMMA KnownPartFacts ==
  ASSUME NEW c \in Claims
  PROVE  /\ HasBelow(c, KnownPart(c), 5)
         /\ KnownPart(c) \in Wires
         /\ WireLen(KnownPart(c)) = Size(c, 0) + Size(c, 1) + Size(c, 2)
                                      + Size(c, 3) + Size(c, 4)
<1> DEFINE W(type) == Written(c, type)
<1>1. \A type \in {0, 1, 2, 3, 4} :
        /\ W(type) \in Wires /\ WireLen(W(type)) = Size(c, type)
        /\ Size(c, type) \in Nat
  BY TypeNumbers, WrittenFacts
<1>2. <<>> \o W(0) = W(0)
  <2>1. W(0) \in Seq(WireClaim)
    BY <1>1, WireFacts
  <2> QED
    BY <2>1, ConcatEmptySeq
<1>3. HasBelow(c, W(0), 1)
  <2>1. 0 \in KnownTypes /\ 0 + 1 = 1
    BY TypeNumbers
  <2> QED
    BY <1>2, <2>1, NoneBelow, OneMoreBelow
<1>4. HasBelow(c, W(0) \o W(1), 2)
  <2>1. 1 \in KnownTypes /\ 1 + 1 = 2
    BY TypeNumbers
  <2> QED
    BY <1>3, <2>1, OneMoreBelow
<1>5. HasBelow(c, W(0) \o W(1) \o W(2), 3)
  <2>1. 2 \in KnownTypes /\ 2 + 1 = 3
    BY TypeNumbers
  <2> QED
    BY <1>4, <2>1, OneMoreBelow
<1>6. HasBelow(c, W(0) \o W(1) \o W(2) \o W(3), 4)
  <2>1. 3 \in KnownTypes /\ 3 + 1 = 4
    BY TypeNumbers
  <2> QED
    BY <1>5, <2>1, OneMoreBelow
<1>7. HasBelow(c, W(0) \o W(1) \o W(2) \o W(3) \o W(4), 5)
  <2>1. 4 \in KnownTypes /\ 4 + 1 = 5
    BY TypeNumbers
  <2> QED
    BY <1>6, <2>1, OneMoreBelow
<1>8. KnownPart(c) = W(0) \o W(1) \o W(2) \o W(3) \o W(4)
  BY TypeNumbers DEF KnownPart
<1> HIDE DEF W
<1>9. /\ W(0) \o W(1) \in Wires
      /\ WireLen(W(0) \o W(1)) = Size(c, 0) + Size(c, 1)
  BY <1>1, WireLenFacts
<1>10. /\ W(0) \o W(1) \o W(2) \in Wires
       /\ WireLen(W(0) \o W(1) \o W(2)) = Size(c, 0) + Size(c, 1) + Size(c, 2)
  BY <1>1, <1>9, WireLenFacts
<1>11. /\ W(0) \o W(1) \o W(2) \o W(3) \in Wires
       /\ WireLen(W(0) \o W(1) \o W(2) \o W(3))
            = Size(c, 0) + Size(c, 1) + Size(c, 2) + Size(c, 3)
  BY <1>1, <1>10, WireLenFacts
<1>12. /\ W(0) \o W(1) \o W(2) \o W(3) \o W(4) \in Wires
       /\ WireLen(W(0) \o W(1) \o W(2) \o W(3) \o W(4))
            = Size(c, 0) + Size(c, 1) + Size(c, 2) + Size(c, 3) + Size(c, 4)
  BY <1>1, <1>11, WireLenFacts
<1> QED
  BY <1>7, <1>8, <1>12

(* Unknown claims have types that no known one has.                        *)
LEMMA UnknownAboveKnown ==
  ASSUME NEW u \in Seq(Nat), UnknownOrdered(u)
  PROVE  \A k \in 1..Len(u) : u[k] > 4
<1>1. Len(u) \in Nat /\ DOMAIN u = 1..Len(u) /\ \A k \in 1..Len(u) : u[k] \in Nat
  BY LenProperties, ElementOfSeq
<1> DEFINE P == {k \in Nat : k \in 1..Len(u) => u[k] > 4}
<1>2. ASSUME NEW k \in Nat, \A m \in Nat : m < k => m \in P, k \in 1..Len(u)
      PROVE  u[k] > 4
  <2>1. u[k] > IF k = 1 THEN 4 ELSE u[k - 1]
    BY <1>1, <1>2, TypeNumbers DEF UnknownOrdered
  <2>2. CASE k = 1
    BY <2>1, <2>2
  <2>3. CASE k # 1
    <3>1. k - 1 \in Nat /\ k - 1 < k /\ k - 1 \in 1..Len(u)
      BY <1>1, <1>2, <2>3
    <3>2. u[k - 1] > 4 /\ u[k - 1] \in Nat /\ u[k] \in Nat
      BY <1>1, <1>2, <3>1
    <3> QED
      BY <2>1, <2>3, <3>2
  <2> QED
    BY <2>2, <2>3
<1>3. \A k \in Nat : (\A m \in Nat : m < k => m \in P) => k \in P
  BY <1>2
<1> HIDE DEF P
<1>4. \A k \in Nat : k \in P
  BY <1>3, NumbersInduction
<1> QED
  BY <1>1, <1>4 DEF P

(* What MarshalBinary writes, position by position.                        *)
LEMMA WireShape ==
  ASSUME NEW c \in Claims
  PROVE  LET w == Wire(c)
             k == KnownPart(c)
             n == Len(k)
         IN /\ w \in Wires /\ n \in Nat /\ Len(c.Unknown) \in Nat
            /\ Len(w) = n + Len(c.Unknown)
            /\ \A i \in 1..n : w[i] = k[i]
            /\ \A i \in 1..Len(c.Unknown) :
                 w[n + i] = [type |-> c.Unknown[i], items |-> <<>>]
            /\ UnknownPart(c) \in Wires
            /\ WireLen(w) = WireLen(k) + WireLen(UnknownPart(c))
<1> DEFINE k == KnownPart(c)
           v == UnknownPart(c)
<1>1. k \in Wires /\ k \in Seq(WireClaim) /\ Len(k) \in Nat
  BY KnownPartFacts, WireFacts
<1>2. /\ Len(c.Unknown) \in Nat /\ DOMAIN c.Unknown = 1..Len(c.Unknown)
      /\ \A i \in 1..Len(c.Unknown) : c.Unknown[i] \in Nat
  BY FieldFacts, LenProperties, ElementOfSeq
<1>3. v = [i \in 1..Len(c.Unknown) |-> [type |-> c.Unknown[i], items |-> <<>>]]
  BY <1>2 DEF UnknownPart
<1>4. ASSUME NEW i \in 1..Len(c.Unknown)
      PROVE  [type |-> c.Unknown[i], items |-> <<>>] \in WireClaim
  <2>1. <<>> \in Seq(Nat) /\ c.Unknown[i] \in Nat
    BY <1>2
  <2> QED
    BY <2>1 DEF WireClaim
<1> HIDE DEF k, v
<1>5. v \in [1..Len(c.Unknown) -> WireClaim]
  BY <1>3, <1>4
<1>6. v \in Seq(WireClaim) /\ Len(v) = Len(c.Unknown) /\ v \in Wires
  <2>1. v \in Seq(WireClaim) /\ Len(v) = Len(c.Unknown)
    BY <1>2, <1>5, FunctionIsSequence
  <2>2. Wires = Seq(WireClaim)
    BY DEF Wires, WireClaim
  <2> QED
    BY <2>1, <2>2
<1>7. Wire(c) = k \o v
  BY DEF Wire, k, v, KnownPart, UnknownPart
<1>8. /\ Len(k \o v) = Len(k) + Len(c.Unknown)
      /\ \A i \in 1..Len(k) : (k \o v)[i] = k[i]
      /\ \A i \in 1..Len(c.Unknown) : (k \o v)[Len(k) + i] = v[i]
  BY <1>1, <1>6
<1>9. k \o v \in Wires /\ WireLen(k \o v) = WireLen(k) + WireLen(v)
  BY <1>1, <1>6, WireLenFacts
<1>10. \A i \in 1..Len(c.Unknown) : v[i] = [type |-> c.Unknown[i], items |-> <<>>]
  BY <1>3
<1> QED
  BY <1>1, <1>2, <1>6, <1>7, <1>8, <1>9, <1>10 DEF k, v

(* Each claim of Wire(c) is a known one, or unknown and above the others.  *)
LEMMA WireClaims ==
  ASSUME NEW c \in Claims, UnknownOrdered(c.Unknown)
  PROVE  LET w == Wire(c)
             n == Len(KnownPart(c))
         IN /\ \A i \in 1..n :
                 /\ w[i].type \in KnownTypes
                 /\ Field(c, w[i].type) # <<>>
                 /\ w[i].items = Sorted(w[i].type, Field(c, w[i].type))
            /\ \A i \in 1..n : w[i].type <= 4
            /\ \A i \in 1..Len(w) :
                 i \notin 1..n => w[i].type > 4 /\ w[i].items = <<>>
            /\ \A i, j \in 1..n : i < j => w[i].type < w[j].type
            /\ \A type \in KnownTypes :
                 Field(c, type) # <<>> => \E i \in 1..n : w[i].type = type
<1> DEFINE w == Wire(c)
           k == KnownPart(c)
           n == Len(k)
<1>1. /\ n \in Nat /\ Len(c.Unknown) \in Nat
      /\ Len(w) = n + Len(c.Unknown)
      /\ \A i \in 1..n : w[i] = k[i]
      /\ \A i \in 1..Len(c.Unknown) :
           w[n + i] = [type |-> c.Unknown[i], items |-> <<>>]
  BY WireShape
<1>2. HasBelow(c, k, 5)
  BY KnownPartFacts
<1> HIDE DEF w, k
<1>3. ASSUME NEW i \in 1..n
      PROVE  /\ w[i].type \in KnownTypes
             /\ Field(c, w[i].type) # <<>>
             /\ w[i].items = Sorted(w[i].type, Field(c, w[i].type))
             /\ w[i].type <= 4
  <2>1. /\ k[i].type \in KnownTypes
        /\ Field(c, k[i].type) # <<>> /\ k[i] = WrittenClaim(c, k[i].type)
    BY <1>2 DEF HasBelow
  <2>2. k[i].items = Sorted(k[i].type, Field(c, k[i].type))
    BY <2>1 DEF WrittenClaim
  <2>3. k[i].type <= 4
    BY <2>1, TypeNumbers
  <2> QED
    BY <1>1, <2>1, <2>2, <2>3
<1>4. ASSUME NEW i \in 1..Len(w), i \notin 1..n
      PROVE  w[i].type > 4 /\ w[i].items = <<>>
  <2>1. PICK m \in 1..Len(c.Unknown) : i = n + m
    <3>1. i - n \in 1..Len(c.Unknown) /\ i = n + (i - n)
      BY <1>1, <1>4
    <3> QED
      BY <3>1
  <2>2. w[i] = [type |-> c.Unknown[m], items |-> <<>>]
    BY <1>1, <2>1
  <2>3. c.Unknown[m] > 4
    BY FieldFacts, UnknownAboveKnown
  <2> QED
    BY <2>2, <2>3
<1>5. \A i, j \in 1..n : i < j => w[i].type < w[j].type
  BY <1>1, <1>2 DEF HasBelow
<1>6. ASSUME NEW type \in KnownTypes, Field(c, type) # <<>>
      PROVE  \E i \in 1..n : w[i].type = type
  <2>1. type < 5
    BY TypeNumbers
  <2>2. \E i \in 1..n : k[i].type = type
    BY <1>2, <1>6, <2>1 DEF HasBelow
  <2> QED
    BY <1>1, <2>2
<1> QED
  BY <1>3, <1>4, <1>5, <1>6 DEF w, k

(* MarshalBinary writes the types in the order in which UnmarshalBinary    *)
(* wants them.                                                             *)
LEMMA WireOrdered ==
  ASSUME NEW c \in Claims, UnknownOrdered(c.Unknown)
  PROVE  TypesOrdered(Wire(c))
<1> DEFINE w == Wire(c)
           n == Len(KnownPart(c))
           u == c.Unknown
<1>1. /\ w \in Wires /\ n \in Nat /\ Len(u) \in Nat /\ Len(w) = n + Len(u)
      /\ \A i \in 1..Len(u) : w[n + i] = [type |-> u[i], items |-> <<>>]
  BY WireShape
<1>2. /\ \A i \in 1..n : w[i].type <= 4
      /\ \A i \in 1..Len(w) : i \notin 1..n => w[i].type > 4
      /\ \A i, j \in 1..n : i < j => w[i].type < w[j].type
  BY WireClaims
<1>3. \A i \in 1..Len(w) : w[i].type \in Nat
  BY <1>1, WireFacts
<1>4. u \in Seq(Nat) /\ DOMAIN u = 1..Len(u)
  BY FieldFacts, LenProperties
<1>5. UnknownOrdered(u)
  OBVIOUS
<1> HIDE DEF w, n, u
<1>6. ASSUME NEW i \in 2..Len(w) PROVE w[i].type > w[i - 1].type
  <2>1. i \in 1..Len(w) /\ i - 1 \in 1..Len(w) /\ i - 1 < i
    BY <1>1
  <2>2. w[i].type \in Nat /\ w[i - 1].type \in Nat
    BY <1>3, <2>1
  <2>3. CASE i \in 1..n
    <3>1. i - 1 \in 1..n
      BY <1>1, <2>1, <2>3
    <3>2. w[i - 1].type < w[i].type
      BY <1>2, <2>1, <2>3, <3>1
    <3> QED
      BY <2>2, <3>2
  <2>4. CASE i \notin 1..n /\ i - 1 \in 1..n
    <3>1. w[i].type > 4 /\ w[i - 1].type <= 4
      BY <1>2, <2>1, <2>4
    <3> QED
      BY <2>2, <3>1
  <2>5. CASE i \notin 1..n /\ i - 1 \notin 1..n
    <3>1. PICK m \in 1..Len(u) : i = n + m /\ m # 1 /\ m - 1 \in 1..Len(u)
                                   /\ i - 1 = n + (m - 1)
      <4>1. /\ i - n \in 1..Len(u) /\ i = n + (i - n) /\ i - n # 1
            /\ (i - n) - 1 \in 1..Len(u) /\ i - 1 = n + ((i - n) - 1)
        BY <1>1, <2>1, <2>5
      <4> QED
        BY <4>1
    <3>2. w[i].type = u[m] /\ w[i - 1].type = u[m - 1]
      <4>1. w[n + m] = [type |-> u[m], items |-> <<>>]
        BY <1>1
      <4>2. w[n + (m - 1)] = [type |-> u[m - 1], items |-> <<>>]
        BY <1>1, <3>1
      <4> QED
        BY <3>1, <4>1, <4>2
    <3>3. u[m] > IF m = 1 THEN Ipv6ClaimType ELSE u[m - 1]
      BY <1>4, <1>5 DEF UnknownOrdered
    <3> QED
      BY <3>1, <3>2, <3>3
  <2> QED
    BY <2>3, <2>4, <2>5
<1>7. ASSUME NEW i \in 2..Len(w)
      PROVE  w[i].type > IF i = 2 THEN 0 ELSE w[i - 1].type
  <2>1. w[i].type > w[i - 1].type
    BY <1>6
  <2>2. w[i].type \in Nat /\ w[i - 1].type \in Nat
    BY <1>1, <1>3
  <2>3. w[i].type > 0
    BY <2>1, <2>2
  <2> QED
    BY <2>1, <2>3
<1> QED
  BY <1>7 DEF TypesOrdered, w

-----------------------------------------------------------------------------
(* Reading claims.                                                         *)

(* The last claim of one of some types.                                    *)
LEMMA LastOfFacts ==
  ASSUME NEW w \in Wires, NEW types
  PROVE  /\ (\A i \in 1..Len(w) : w[i].type \notin types) => LastOf(w, types) = <<>>
         /\ \A i \in 1..Len(w) :
              /\ w[i].type \in types
              /\ \A j \in 1..Len(w) : j > i => w[j].type \notin types
              => LastOf(w, types) = w[i].items
<1> DEFINE I == {i \in 1..Len(w) : w[i].type \in types}
           last == IF I # {} THEN Max(I) ELSE 0
<1>1. Len(w) \in Nat
  BY WireFacts
<1>2. LastOf(w, types) = IF last = 0 THEN <<>> ELSE w[last].items
  BY DEF LastOf, SelectLastInSeq
<1>3. ASSUME \A i \in 1..Len(w) : w[i].type \notin types
      PROVE  LastOf(w, types) = <<>>
  <2>1. I = {}
    BY <1>3
  <2> QED
    BY <1>2, <2>1
<1>4. ASSUME NEW i \in 1..Len(w), w[i].type \in types,
             \A j \in 1..Len(w) : j > i => w[j].type \notin types
      PROVE  LastOf(w, types) = w[i].items
  <2>1. i \in I /\ \A j \in I : i >= j /\ j \in Int
    BY <1>1, <1>4
  <2> HIDE DEF I
  <2>2. Max(I) = i
    <3> DEFINE IsMax(x) == \A y \in I : x >= y
    <3>1. IsMax(i)
      BY <2>1
    <3>2. \A x \in I : IsMax(x) => x = i
      BY <2>1
    <3>3. Max(I) = CHOOSE x \in I : IsMax(x)
      BY DEF Max
    <3> HIDE DEF IsMax
    <3>4. Max(I) \in I /\ IsMax(Max(I))
      BY <2>1, <3>1, <3>3, Zenon
    <3> QED
      BY <3>2, <3>4
  <2>3. last = i /\ i # 0
    BY <1>1, <2>1, <2>2
  <2> QED
    BY <1>2, <2>3
<1> QED
  BY <1>3, <1>4

(* There is a last one, if there is any.                                   *)
LEMMA LastExists ==
  ASSUME NEW w \in Wires, NEW types, NEW k \in 1..Len(w), w[k].type \in types
  PROVE  \E i \in 1..Len(w) :
           w[i].type \in types /\ \A j \in 1..Len(w) : j > i => w[j].type \notin types
<1>1. Len(w) \in Nat
  BY WireFacts
<1> DEFINE T == {d \in Nat : Len(w) - d \in 1..Len(w) /\ w[Len(w) - d].type \in types}
<1>2. Len(w) - k \in T
  <2>1. Len(w) - k \in Nat /\ Len(w) - (Len(w) - k) = k
    BY <1>1
  <2> QED
    BY <2>1
<1>3. PICK d \in T : \A e \in T : d <= e
  <2> HIDE DEF T
  <2>1. T \subseteq Nat /\ T # {}
    BY <1>2 DEF T
  <2> QED
    BY <2>1, LeastNumber
<1>4. PICK i \in 1..Len(w) : i = Len(w) - d /\ w[i].type \in types
  BY <1>3
<1>5. ASSUME NEW j \in 1..Len(w), j > i, w[j].type \in types PROVE FALSE
  <2>1. Len(w) - j \in Nat /\ Len(w) - (Len(w) - j) = j
    BY <1>1
  <2>2. Len(w) - j \in T
    BY <1>5, <2>1
  <2>3. d <= Len(w) - j /\ d \in Nat
    BY <1>3, <2>2
  <2> QED
    BY <1>1, <1>4, <1>5, <2>3
<1> QED
  BY <1>4, <1>5

(* Claims of the right form are claims on the wire.                        *)
LEMMA IsWireFacts ==
  ASSUME NEW w, IsWire(w)
  PROVE  w \in Wires /\ \A i \in 1..Len(w) : w[i].items \in Items(w[i].type)
<1>1. w \in Seq(ToSet(w)) /\ DOMAIN w = 1..Len(w) /\ Len(w) \in Nat
  BY LenProperties DEF IsWire
<1>2. ASSUME NEW i \in 1..Len(w)
      PROVE  w[i] \in WireClaim /\ w[i].items \in Items(w[i].type)
  <2>1. /\ w[i].type \in Nat
        /\ w[i] \in [type : {w[i].type}, items : Items(w[i].type)]
    BY <1>1 DEF IsWire
  <2>2. Items(w[i].type) \subseteq Seq(Nat) \cup Seq(Seq(Nat))
    <3>1. {<<>>} \subseteq Seq(Nat)
      OBVIOUS
    <3> QED
      BY <3>1, Zenon DEF Items
  <2> DEFINE type == w[i].type
             S == Items(type)
             T == Seq(Nat) \cup Seq(Seq(Nat))
  <2>3. w[i] \in [type : {type}, items : S] /\ S \subseteq T /\ type \in Nat
    BY <2>1, <2>2
  <2> HIDE DEF type, S, T
  <2>4. w[i] \in [type : Nat, items : T] /\ w[i].items \in S
    BY <2>3
  <2> QED
    BY <2>4 DEF type, S, T, WireClaim
<1>3. w \in [1..Len(w) -> ToSet(w)]
  BY <1>1, LenProperties
<1>4. w \in [1..Len(w) -> WireClaim]
  BY <1>2, <1>3
<1>5. w \in Seq(WireClaim)
  BY <1>1, <1>4, FunctionIsSequence
<1>6. Wires = Seq(WireClaim)
  BY DEF Wires, WireClaim
<1> QED
  BY <1>2, <1>5, <1>6

(* What MarshalBinary writes is of the right form.                         *)
LEMMA WireIsWire ==
  ASSUME NEW c \in Claims, UnknownOrdered(c.Unknown)
  PROVE  IsWire(Wire(c))
<1> DEFINE w == Wire(c)
           n == Len(KnownPart(c))
<1>1. w \in Wires
  BY WireShape
<1>2. /\ \A i \in 1..n :
           /\ w[i].type \in KnownTypes
           /\ w[i].items = Sorted(w[i].type, Field(c, w[i].type))
      /\ \A i \in 1..Len(w) : i \notin 1..n => w[i].type > 4 /\ w[i].items = <<>>
  BY WireClaims
<1> HIDE DEF w, n
<1>3. /\ w \in Seq(WireClaim) /\ Len(w) \in Nat /\ DOMAIN w = 1..Len(w)
      /\ \A i \in 1..Len(w) : w[i] \in WireClaim /\ w[i].type \in Nat
  BY <1>1, WireFacts
<1>4. w \in Seq(ToSet(w))
  <2>1. w \in [1..Len(w) -> WireClaim]
    BY <1>3, LenProperties
  <2>2. \A i \in 1..Len(w) : w[i] \in ToSet(w)
    BY <1>3 DEF ToSet
  <2>3. w \in [1..Len(w) -> ToSet(w)]
    BY <2>1, <2>2
  <2> QED
    BY <1>3, <2>3, FunctionIsSequence
<1>5. ASSUME NEW i \in 1..Len(w)
      PROVE  w[i].items \in Items(w[i].type)
  <2>1. CASE i \in 1..n
    <3>1. PICK type \in KnownTypes :
            w[i].type = type /\ w[i].items = Sorted(type, Field(c, type))
      BY <1>2, <2>1
    <3>2. Field(c, type) \in Seq(Item(type))
      BY FieldFacts
    <3>3. Sorted(type, Field(c, type)) \in Seq(Item(type))
      BY <3>2, SortedItems
    <3> QED
      BY <3>1, <3>3, ItemsFacts
  <2>2. CASE i \notin 1..n
    <3>1. w[i].type > 4 /\ w[i].items = <<>> /\ w[i].type \in Nat
      BY <1>2, <1>3, <2>2
    <3>2. w[i].type \notin DomainTypes /\ w[i].type \notin IpTypes
      BY <3>1, TypeNumbers
    <3> QED
      BY <3>1, <3>2 DEF Items
  <2> QED
    BY <2>1, <2>2
<1>6. ASSUME NEW i \in DOMAIN w
      PROVE  w[i].type \in Nat
              /\ w[i] \in [type : {w[i].type}, items : Items(w[i].type)]
  <2>1. w[i] \in WireClaim /\ w[i].items \in Items(w[i].type)
    BY <1>3, <1>5
  <2> DEFINE S == Items(w[i].type)
  <2>2. w[i] \in [type : Nat, items : Seq(Nat) \cup Seq(Seq(Nat))] /\ w[i].items \in S
    BY <2>1 DEF WireClaim
  <2> HIDE DEF S
  <2>3. w[i] = [type |-> w[i].type, items |-> w[i].items]
    BY <2>2
  <2>4. w[i] \in [type : {w[i].type}, items : S] /\ w[i].type \in Nat
    BY <2>2, <2>3
  <2> QED
    BY <2>4 DEF S
<1> QED
  BY <1>4, <1>6 DEF IsWire, w

(* Unknown claims: where they are, and the one that comes k-th.            *)
Places(w) == {i \in DOMAIN w : w[i].type > Ipv6ClaimType}

IsPlace(w, k, i) == Cardinality({j \in Places(w) : j <= i}) = k

Place(w, k) == CHOOSE i \in Places(w) : IsPlace(w, k, i)

LEMMA UnknownOfFacts ==
  ASSUME NEW w
  PROVE  UnknownOf(w) = [k \in 1..Cardinality(Places(w)) |-> w[Place(w, k)].type]
BY DEF UnknownOf, Places, Place, IsPlace

(* There is a k-th one.                                                    *)
LEMMA PlaceExists ==
  ASSUME NEW w \in Wires, NEW k \in 1..Cardinality(Places(w))
  PROVE  Place(w, k) \in Places(w) /\ IsPlace(w, k, Place(w, k))
<1> DEFINE S == Places(w)
           R == {x \in Nat \X Nat : x[1] < x[2]}
<1>1. S \subseteq 1..Len(w) /\ Len(w) \in Nat
  BY WireFacts DEF Places
<1>2. IsFiniteSet(S)
  <2>1. IsFiniteSet(1..Len(w))
    BY <1>1, FS_Interval
  <2> QED
    BY <1>1, <2>1, FS_Subset
<1> HIDE DEF S
<1>3. \A x, y \in Nat : <<x, y>> \in R <=> x < y
  OBVIOUS
<1> HIDE DEF R
<1>4. S \subseteq Nat
  BY <1>1
<1>5. IsOrder(R, S)
  BY <1>3, <1>4 DEF IsOrder
<1>6. rank(R, S) \in Bijection(S, 1..Cardinality(S))
  BY <1>2, <1>5, RankFacts
<1>7. PICK x \in S : rank(R, S)[x] = k
  BY <1>6 DEF Bijection, Surjection, S
<1>8. {y \in S : y <= x} = UpTo(R, S, x)
  <2>1. \A y \in S : y <= x <=> <<y, x>> \in R \/ y = x
    BY <1>3, <1>4
  <2> QED
    BY <2>1 DEF UpTo
<1>9. Cardinality({y \in S : y <= x}) = k
  BY <1>7, <1>8 DEF rank
<1>10. \E i \in Places(w) : IsPlace(w, k, i)
  BY <1>9 DEF IsPlace, S
<1> QED
  BY <1>10, Zenon DEF Place

(* The types of the unknown claims are types.                              *)
LEMMA UnknownOfTyped ==
  ASSUME NEW w \in Wires
  PROVE  UnknownOf(w) \in Seq(Nat)
<1> DEFINE m == Cardinality(Places(w))
<1>1. Places(w) \subseteq 1..Len(w) /\ Len(w) \in Nat
  BY WireFacts DEF Places
<1>2. m \in Nat
  <2>1. IsFiniteSet(1..Len(w))
    BY <1>1, FS_Interval
  <2>2. IsFiniteSet(Places(w))
    BY <1>1, <2>1, FS_Subset
  <2> QED
    BY <2>2, FS_CardinalityType
<1>3. ASSUME NEW k \in 1..m PROVE w[Place(w, k)].type \in Nat
  <2>1. Place(w, k) \in 1..Len(w)
    BY <1>1, PlaceExists
  <2> QED
    BY <2>1, WireFacts
<1>4. UnknownOf(w) = [k \in 1..m |-> w[Place(w, k)].type]
  BY UnknownOfFacts
<1> HIDE DEF m
<1>5. UnknownOf(w) \in [1..m -> Nat]
  BY <1>3, <1>4
<1> QED
  BY <1>2, <1>5, FunctionIsSequence

(* Those that MarshalBinary has written are read back as they were.        *)
LEMMA UnknownOfWire ==
  ASSUME NEW c \in Claims, UnknownOrdered(c.Unknown)
  PROVE  UnknownOf(Wire(c)) = c.Unknown
<1> DEFINE w == Wire(c)
           n == Len(KnownPart(c))
           u == c.Unknown
           m == Len(u)
<1>1. /\ w \in Wires /\ n \in Nat /\ m \in Nat /\ Len(w) = n + m
      /\ \A i \in 1..m : w[n + i] = [type |-> u[i], items |-> <<>>]
  BY WireShape
<1>2. /\ \A i \in 1..n : w[i].type <= 4
      /\ \A i \in 1..Len(w) : i \notin 1..n => w[i].type > 4
  BY WireClaims
<1>3. u \in Seq(Nat) /\ u \in [1..m -> Nat]
  BY FieldFacts, LenProperties
<1>4. DOMAIN w = 1..Len(w) /\ \A i \in 1..Len(w) : w[i].type \in Nat
  BY <1>1, WireFacts
<1> HIDE DEF w, n, u, m
<1>5. Places(w) = (n + 1)..(n + m)
  <2>1. ASSUME NEW i \in 1..(n + m) PROVE w[i].type > 4 <=> i \in (n + 1)..(n + m)
    <3>1. CASE i \in 1..n
      BY <1>1, <1>2, <1>4, <3>1
    <3>2. CASE i \notin 1..n
      BY <1>1, <1>2, <3>2
    <3> QED
      BY <3>1, <3>2
  <2> QED
    BY <1>1, <1>4, <2>1, TypeNumbers DEF Places
<1>6. Cardinality(Places(w)) = m
  BY <1>1, <1>5, FS_Interval
<1>7. ASSUME NEW i \in 1..m PROVE Cardinality({j \in Places(w) : j <= n + i}) = i
  <2>1. {j \in Places(w) : j <= n + i} = (n + 1)..(n + i)
    BY <1>1, <1>5
  <2>2. /\ n + 1 \in Int /\ n + i \in Int /\ ~(n + 1 > n + i)
        /\ (n + i) - (n + 1) + 1 = i
    BY <1>1
  <2>3. Cardinality((n + 1)..(n + i)) = (n + i) - (n + 1) + 1
    BY <2>2, FS_Interval
  <2> QED
    BY <2>1, <2>2, <2>3
<1>8. ASSUME NEW k \in 1..m PROVE w[Place(w, k)].type = u[k]
  <2>1. Place(w, k) \in Places(w) /\ IsPlace(w, k, Place(w, k))
    BY <1>1, <1>6, PlaceExists
  <2>2. PICK i \in 1..m : Place(w, k) = n + i
    <3>1. Place(w, k) - n \in 1..m /\ Place(w, k) = n + (Place(w, k) - n)
      BY <1>1, <1>5, <2>1
    <3> QED
      BY <3>1
  <2>3. i = k
    BY <1>7, <2>1, <2>2 DEF IsPlace
  <2>4. w[n + k].type = u[k]
    <3>1. w[n + k] = [type |-> u[k], items |-> <<>>]
      BY <1>1
    <3> QED
      BY <3>1
  <2> QED
    BY <2>2, <2>3, <2>4
<1>9. UnknownOf(w) = [k \in 1..m |-> w[Place(w, k)].type]
  BY <1>6, UnknownOfFacts
<1>10. UnknownOf(w) = u
  BY <1>3, <1>8, <1>9
<1> QED
  BY <1>10 DEF w, u

(* What UnmarshalBinary reads are claims.                                  *)
LEMMA LastOfTyped ==
  ASSUME NEW w \in Wires, NEW types, NEW S, <<>> \in S,
         \A i \in 1..Len(w) : w[i].type \in types => w[i].items \in S
  PROVE  LastOf(w, types) \in S
<1>1. CASE \A i \in 1..Len(w) : w[i].type \notin types
  <2>1. LastOf(w, types) = <<>>
    BY <1>1, LastOfFacts
  <2> QED
    BY <2>1
<1>2. CASE \E k \in 1..Len(w) : w[k].type \in types
  <2>1. PICK k \in 1..Len(w) : w[k].type \in types
    BY <1>2
  <2>2. PICK i \in 1..Len(w) :
          w[i].type \in types /\ \A j \in 1..Len(w) : j > i => w[j].type \notin types
    BY <2>1, LastExists
  <2>3. LastOf(w, types) = w[i].items
    BY <2>2, LastOfFacts
  <2> QED
    BY <2>2, <2>3
<1> QED
  BY <1>1, <1>2

LEMMA UnmarshalTyped ==
  ASSUME NEW w, IsWire(w), UnmarshalClaims(w) # Error
  PROVE  UnmarshalClaims(w) \in Claims
<1>1. w \in Wires /\ \A i \in 1..Len(w) : w[i].items \in Items(w[i].type)
  BY IsWireFacts
<1>2. <<>> \in Seq(Nat) /\ <<>> \in Seq(Seq(Nat))
  OBVIOUS
<1>3. ASSUME NEW types, types \subseteq DomainTypes
      PROVE  LastOf(w, types) \in Seq(Seq(Nat))
  <2>1. \A i \in 1..Len(w) : w[i].type \in types => w[i].items \in Seq(Seq(Nat))
    BY <1>1, <1>3 DEF Items
  <2> QED
    BY <1>1, <1>2, <2>1, LastOfTyped
<1>4. ASSUME NEW types, types \subseteq IpTypes
      PROVE  LastOf(w, types) \in Seq(Nat)
  <2>1. \A type \in types : Items(type) = Seq(Nat)
    BY <1>4, TypeNumbers DEF Items
  <2>2. \A i \in 1..Len(w) : w[i].type \in types => w[i].items \in Seq(Nat)
    BY <1>1, <2>1
  <2> QED
    BY <1>1, <1>2, <2>2, LastOfTyped
<1>5. /\ LastOf(w, {DnsClaimType}) \in Seq(Seq(Nat))
      /\ LastOf(w, TypesReadAsENS) \in Seq(Seq(Nat))
  <2>1. {DnsClaimType} \subseteq DomainTypes /\ TypesReadAsENS \subseteq DomainTypes
    BY DEF TypesReadAsENS, DomainTypes
  <2> QED
    BY <1>3, <2>1
<1>6. LastOf(w, {Ipv4ClaimType}) \in Seq(Nat) /\ LastOf(w, {Ipv6ClaimType}) \in Seq(Nat)
  <2>1. {Ipv4ClaimType} \subseteq IpTypes /\ {Ipv6ClaimType} \subseteq IpTypes
    BY DEF IpTypes
  <2> QED
    BY <1>4, <2>1
<1>7. UnknownOf(w) \in Seq(Nat)
  BY <1>1, UnknownOfTyped
<1>8. UnmarshalClaims(w) =
        [DNS |-> LastOf(w, {DnsClaimType}), DNSWildcard |-> <<>>,
         ENS |-> LastOf(w, TypesReadAsENS), IPv4 |-> LastOf(w, {Ipv4ClaimType}),
         IPv6 |-> LastOf(w, {Ipv6ClaimType}), Unknown |-> UnknownOf(w)]
  BY DEF UnmarshalClaims
<1> QED
  BY <1>2, <1>5, <1>6, <1>7, <1>8 DEF Claims

(* The last claim of one of some types that MarshalBinary has written.     *)
LEMMA LastOfWire ==
  ASSUME NEW c \in Claims, UnknownOrdered(c.Unknown), NEW types \in SUBSET KnownTypes
  PROVE  /\ (\A type \in types : Field(c, type) = <<>>) => LastOf(Wire(c), types) = <<>>
         /\ \A type \in types :
              /\ Field(c, type) # <<>>
              /\ \A t \in types : t > type => Field(c, t) = <<>>
              => LastOf(Wire(c), types) = Sorted(type, Field(c, type))
<1> DEFINE w == Wire(c)
           n == Len(KnownPart(c))
<1>1. w \in Wires /\ n \in Nat /\ Len(w) \in Nat /\ n <= Len(w)
  BY WireShape
<1>2. /\ \A i \in 1..n :
           /\ w[i].type \in KnownTypes
           /\ Field(c, w[i].type) # <<>>
           /\ w[i].items = Sorted(w[i].type, Field(c, w[i].type))
      /\ \A i \in 1..Len(w) : i \notin 1..n => w[i].type > 4
      /\ \A i, j \in 1..n : i < j => w[i].type < w[j].type
      /\ \A type \in KnownTypes :
           Field(c, type) # <<>> => \E i \in 1..n : w[i].type = type
  BY WireClaims
<1> HIDE DEF w, n
<1>3. \A i \in 1..Len(w) : w[i].type \in types => i \in 1..n
  <2>1. \A type \in types : ~(type > 4)
    BY TypeNumbers
  <2>2. \A i \in 1..Len(w) : i \notin 1..n => w[i].type > 4
    BY <1>2
  <2> QED
    BY <2>1, <2>2
<1>4. ASSUME \A type \in types : Field(c, type) = <<>>
      PROVE  LastOf(w, types) = <<>>
  <2>1. \A i \in 1..Len(w) : w[i].type \notin types
    BY <1>2, <1>3, <1>4
  <2> QED
    BY <1>1, <2>1, LastOfFacts
<1>5. ASSUME NEW type \in types, Field(c, type) # <<>>,
             \A t \in types : t > type => Field(c, t) = <<>>
      PROVE  LastOf(w, types) = Sorted(type, Field(c, type))
  <2>1. PICK i \in 1..n : w[i].type = type
    BY <1>2, <1>5
  <2>2. i \in 1..Len(w)
    BY <1>1
  <2>3. ASSUME NEW j \in 1..Len(w), j > i PROVE w[j].type \notin types
    <3>1. SUFFICES ASSUME w[j].type \in types PROVE FALSE
      OBVIOUS
    <3>2. j \in 1..n /\ i < j
      BY <1>3, <2>3, <3>1
    <3>3. w[i].type < w[j].type
      BY <1>2, <3>2
    <3>4. w[j].type > type
      BY <2>1, <3>3
    <3> QED
      BY <1>2, <1>5, <3>1, <3>2, <3>4
  <2>4. LastOf(w, types) = w[i].items
    BY <1>1, <2>1, <2>2, <2>3, LastOfFacts
  <2> QED
    BY <1>2, <2>1, <2>4
<1> QED
  BY <1>4, <1>5 DEF w

(* All that sorting leaves of a list are its items.                        *)
LEMMA SortedElements ==
  ASSUME NEW type, NEW s \in Seq(Item(type))
  PROVE  \A x \in ToSet(Sorted(type, s)) : x \in ToSet(s)
<1>1. /\ Sorted(type, s) \in Seq(Item(type)) /\ Len(Sorted(type, s)) = Len(s)
      /\ \E p \in Bijection(DOMAIN s, DOMAIN s) :
           \A i \in DOMAIN s : Sorted(type, s)[i] = s[p[i]]
  BY SortedItems
<1>2. PICK p \in Bijection(DOMAIN s, DOMAIN s) :
        \A i \in DOMAIN s : Sorted(type, s)[i] = s[p[i]]
  BY <1>1
<1>3. DOMAIN s = 1..Len(s) /\ DOMAIN Sorted(type, s) = 1..Len(s)
  BY <1>1, LenProperties
<1>4. \A i \in DOMAIN s : p[i] \in DOMAIN s
  BY DEF Bijection, Injection
<1> QED
  BY <1>2, <1>3, <1>4 DEF ToSet

-----------------------------------------------------------------------------
(* The round trip of claims.                                               *)

(* The items that MarshalBinary checks.                                    *)
AllValid(c) ==
  \A type \in KnownTypes : \A x \in ToSet(Field(c, type)) : ValidItem(type, x)

LEMMA MarshalFacts ==
  ASSUME NEW c \in Claims
  PROVE  /\ MarshalClaims(c) # Error <=>
              AllValid(c) /\ UnknownOrdered(c.Unknown) /\ WireLen(Wire(c)) < L16
         /\ MarshalClaims(c) # Error => MarshalClaims(c) = Wire(c)
<1>1. Wire(c) # Error
  <2>1. Wire(c) \in Wires
    BY WireShape
  <2> QED
    BY <2>1, ErrorAssumption
<1> DEFINE P == AllValid(c) /\ UnknownOrdered(c.Unknown) /\ WireLen(Wire(c)) < L16
<1>2. MarshalClaims(c) = IF P THEN Wire(c) ELSE Error
  BY Zenon DEF MarshalClaims, AllValid
<1> HIDE DEF P
<1>3. (MarshalClaims(c) # Error <=> P) /\ (P => MarshalClaims(c) = Wire(c))
  BY <1>1, <1>2
<1> QED
  BY <1>3 DEF P

(* An address is repeated in one of the two lists.                         *)
LEMMA RepeatsFacts ==
  ASSUME NEW c \in Claims
  PROVE  RepeatsAddress(c) <=> Repeats(Field(c, 3)) \/ Repeats(Field(c, 4))
<1>1. \A type \in IpTypes :
        Repeats(Field(c, type)) <=>
          \E i, j, k \in DOMAIN Field(c, type) :
            /\ Cardinality({i, j, k}) = 3
            /\ Field(c, type)[i] = Field(c, type)[j]
            /\ Field(c, type)[k] <= Field(c, type)[i]
  <2>1. ASSUME NEW ips
        PROVE  Repeats(ips) <=>
                 \E i, j, k \in DOMAIN ips :
                   /\ Cardinality({i, j, k}) = 3
                   /\ ips[i] = ips[j] /\ ips[k] <= ips[i]
    <3>1. ASSUME Repeats(ips)
          PROVE  \E i, j, k \in DOMAIN ips :
                   /\ Cardinality({i, j, k}) = 3
                   /\ ips[i] = ips[j] /\ ips[k] <= ips[i]
      <4>1. PICK i, j, k \in DOMAIN ips :
              i # j /\ i # k /\ j # k /\ ips[i] = ips[j] /\ ips[k] <= ips[i]
        BY <3>1 DEF Repeats
      <4>2. i # j /\ i # k /\ j # k
        BY <4>1
      <4>3. Cardinality({i, j, k}) = 3
        BY <4>2, ThreeElements, Zenon
      <4> QED
        BY <4>1, <4>3
    <3>2. ASSUME NEW i \in DOMAIN ips, NEW j \in DOMAIN ips, NEW k \in DOMAIN ips,
                 Cardinality({i, j, k}) = 3, ips[i] = ips[j], ips[k] <= ips[i]
          PROVE  Repeats(ips)
      <4>1. i # j /\ i # k /\ j # k
        BY <3>2, ThreeElements
      <4> QED
        BY <3>2, <4>1 DEF Repeats
    <3> QED
      BY <3>1, <3>2
  <2> QED
    BY <2>1
<1>2. RepeatsAddress(c) <=> \E type \in IpTypes : Repeats(Field(c, type))
  BY <1>1, Zenon DEF RepeatsAddress
<1> QED
  BY <1>2, TypeNumbers

(* UnmarshalBinary refuses what MarshalBinary has written if an address is *)
(* repeated, and only then.                                                *)
LEMMA WireReadable ==
  ASSUME NEW c \in Claims, AllValid(c), UnknownOrdered(c.Unknown)
  PROVE  (\A i \in DOMAIN Wire(c) : ClaimReadable(Wire(c)[i])) <=> ~RepeatsAddress(c)
<1> DEFINE w == Wire(c)
           n == Len(KnownPart(c))
<1>1. w \in Wires /\ n \in Nat /\ Len(w) \in Nat /\ n <= Len(w)
  BY WireShape
<1>2. /\ \A i \in 1..n :
           /\ w[i].type \in KnownTypes
           /\ Field(c, w[i].type) # <<>>
           /\ w[i].items = Sorted(w[i].type, Field(c, w[i].type))
      /\ \A i \in 1..Len(w) : i \notin 1..n => w[i].type > 4
      /\ \A type \in KnownTypes :
           Field(c, type) # <<>> => \E i \in 1..n : w[i].type = type
  BY WireClaims
<1>3. DOMAIN w = 1..Len(w)
  BY <1>1, WireFacts
<1> HIDE DEF w, n
<1>4. ASSUME NEW i \in 1..n
      PROVE  ClaimReadable(w[i]) <=>
               (w[i].type \in IpTypes => ~Repeats(Field(c, w[i].type)))
  <2>1. PICK type \in KnownTypes :
          /\ w[i].type = type /\ Field(c, type) # <<>>
          /\ w[i].items = Sorted(type, Field(c, type))
    BY <1>2
  <2>2. Field(c, type) \in Seq(Item(type))
    BY FieldFacts
  <2>3. /\ Sorted(type, Field(c, type)) # <<>>
        /\ Sorted(type, Sorted(type, Field(c, type))) = Sorted(type, Field(c, type))
    BY <2>1, <2>2, SortedItems
  <2>4. \A x \in ToSet(Sorted(type, Field(c, type))) : ValidItem(type, x)
    BY <2>2, SortedElements DEF AllValid
  <2>5. CASE type \in DomainTypes
    <3>1. type \notin IpTypes
      BY <2>5, TypeNumbers
    <3> QED
      BY <2>1, <2>3, <2>4, <2>5, <3>1 DEF ClaimReadable
  <2>6. CASE type \in IpTypes
    <3>1. type \notin DomainTypes /\ Field(c, type) \in Seq(Nat)
      BY <2>2, <2>6, TypeNumbers DEF Item
    <3>2. AddressesOrdered(Sorted(type, Field(c, type))) <=> ~Repeats(Field(c, type))
      BY <2>6, <3>1, AddressFacts
    <3> QED
      BY <2>1, <2>3, <2>6, <3>1, <3>2 DEF ClaimReadable
  <2> QED
    BY <2>5, <2>6 DEF KnownTypes
<1>5. ASSUME NEW i \in 1..Len(w), i \notin 1..n
      PROVE  ClaimReadable(w[i])
  <2>1. w[i].type > 4
    BY <1>2, <1>5
  <2>2. w[i].type \notin DomainTypes /\ w[i].type \notin IpTypes
    BY <2>1, TypeNumbers
  <2> QED
    BY <2>2 DEF ClaimReadable
<1>6. RepeatsAddress(c) <=> \E type \in IpTypes : Repeats(Field(c, type))
  BY RepeatsFacts, TypeNumbers
<1>7. ASSUME NEW type \in IpTypes, Repeats(Field(c, type))
      PROVE  \E i \in 1..n : w[i].type = type
  <2>1. Field(c, type) # <<>>
    BY <1>7 DEF Repeats
  <2> QED
    BY <1>2, <2>1 DEF KnownTypes
<1>8. ASSUME RepeatsAddress(c) PROVE \E i \in DOMAIN w : ~ClaimReadable(w[i])
  <2>1. PICK type \in IpTypes : Repeats(Field(c, type))
    BY <1>6, <1>8
  <2>2. PICK i \in 1..n : w[i].type = type
    BY <1>7, <2>1
  <2>3. ~ClaimReadable(w[i])
    BY <1>4, <2>1, <2>2
  <2>4. i \in DOMAIN w
    BY <1>1, <1>3
  <2> QED
    BY <2>3, <2>4
<1>9. ASSUME ~RepeatsAddress(c), NEW i \in DOMAIN w PROVE ClaimReadable(w[i])
  BY <1>3, <1>4, <1>5, <1>6, <1>9
<1> QED
  BY <1>8, <1>9 DEF w

(* What is read back: sorted lists, and the wildcards as ENS if there are  *)
(* no other.                                                               *)
ReadBack(c) ==
  [DNS |-> Sorted(0, c.DNS), DNSWildcard |-> <<>>,
   ENS |-> IF c.ENS # <<>> THEN Sorted(2, c.ENS) ELSE Sorted(1, c.DNSWildcard),
   IPv4 |-> Sorted(3, c.IPv4), IPv6 |-> Sorted(4, c.IPv6), Unknown |-> c.Unknown]

LEMMA RoundTrip ==
  ASSUME NEW c \in Claims, MarshalClaims(c) # Error
  PROVE  UnmarshalClaims(Wire(c)) = IF RepeatsAddress(c) THEN Error ELSE ReadBack(c)
<1>1. AllValid(c) /\ UnknownOrdered(c.Unknown)
  BY MarshalFacts
<1>2. /\ TypesOrdered(Wire(c)) /\ UnknownOf(Wire(c)) = c.Unknown
      /\ (\A i \in DOMAIN Wire(c) : ClaimReadable(Wire(c)[i])) <=> ~RepeatsAddress(c)
  BY <1>1, WireOrdered, UnknownOfWire, WireReadable
<1>3. ASSUME NEW type \in KnownTypes
      PROVE  LastOf(Wire(c), {type}) = Sorted(type, Field(c, type))
  <2>1. {type} \in SUBSET KnownTypes
    OBVIOUS
  <2>2. CASE Field(c, type) = <<>>
    <3>1. LastOf(Wire(c), {type}) = <<>>
      BY <1>1, <2>1, <2>2, LastOfWire
    <3>2. Field(c, type) \in Seq(Item(type))
      BY FieldFacts
    <3>3. Sorted(type, Field(c, type)) = <<>>
      BY <2>2, <3>2, SortedItems
    <3> QED
      BY <3>1, <3>3
  <2>3. CASE Field(c, type) # <<>>
    <3>1. \A t \in {type} : ~(t > type)
      BY TypeNumbers
    <3>2. type \in {type}
      OBVIOUS
    <3> QED
      BY <1>1, <2>1, <2>3, <3>1, <3>2, LastOfWire
  <2> QED
    BY <2>2, <2>3
<1>4. /\ LastOf(Wire(c), {DnsClaimType}) = Sorted(0, c.DNS)
      /\ LastOf(Wire(c), {Ipv4ClaimType}) = Sorted(3, c.IPv4)
      /\ LastOf(Wire(c), {Ipv6ClaimType}) = Sorted(4, c.IPv6)
  BY <1>3, TypeNumbers, FieldFacts
<1>5. LastOf(Wire(c), TypesReadAsENS) =
        IF c.ENS # <<>> THEN Sorted(2, c.ENS) ELSE Sorted(1, c.DNSWildcard)
  <2>1. TypesReadAsENS = {1, 2} /\ {1, 2} \in SUBSET KnownTypes
    BY TypeNumbers DEF TypesReadAsENS
  <2>2. Field(c, 1) = c.DNSWildcard /\ Field(c, 2) = c.ENS
    BY FieldFacts
  <2>3. CASE Field(c, 2) # <<>>
    <3>1. \A t \in {1, 2} : t > 2 => Field(c, t) = <<>>
      OBVIOUS
    <3>2. LastOf(Wire(c), {1, 2}) = Sorted(2, Field(c, 2))
      BY <1>1, <2>1, <2>3, <3>1, LastOfWire
    <3> QED
      BY <2>1, <2>2, <2>3, <3>2
  <2>4. CASE Field(c, 2) = <<>> /\ Field(c, 1) # <<>>
    <3>1. \A t \in {1, 2} : t > 1 => Field(c, t) = <<>>
      BY <2>4
    <3>2. LastOf(Wire(c), {1, 2}) = Sorted(1, Field(c, 1))
      BY <1>1, <2>1, <2>4, <3>1, LastOfWire
    <3> QED
      BY <2>1, <2>2, <2>4, <3>2
  <2>5. CASE Field(c, 2) = <<>> /\ Field(c, 1) = <<>>
    <3>1. \A t \in {1, 2} : Field(c, t) = <<>>
      BY <2>5
    <3>2. LastOf(Wire(c), {1, 2}) = <<>>
      BY <1>1, <2>1, <3>1, LastOfWire
    <3>3. Field(c, 1) \in Seq(Item(1))
      BY FieldFacts, TypeNumbers
    <3>4. Sorted(1, Field(c, 1)) = <<>>
      BY <2>5, <3>3, SortedItems
    <3> QED
      BY <2>1, <2>2, <2>5, <3>2, <3>4
  <2> QED
    BY <2>3, <2>4, <2>5
<1> QED
  BY <1>2, <1>4, <1>5, Zenon DEF UnmarshalClaims, ReadBack

(* The claims read back are ones that can be written again.                *)
LEMMA ReadBackTyped ==
  ASSUME NEW c \in Claims
  PROVE  /\ ReadBack(c) \in Claims
         /\ \A type \in {0, 3, 4} :
              Field(ReadBack(c), type) = Sorted(type, Field(c, type))
         /\ Field(ReadBack(c), 1) = <<>>
         /\ Field(c, 2) # <<>> => Field(ReadBack(c), 2) = Sorted(2, Field(c, 2))
         /\ Field(c, 2) = <<>> => Field(ReadBack(c), 2) = Sorted(2, Field(c, 1))
         /\ ReadBack(c).Unknown = c.Unknown
<1>1. /\ Field(c, 0) = c.DNS /\ Field(c, 1) = c.DNSWildcard /\ Field(c, 2) = c.ENS
      /\ Field(c, 3) = c.IPv4 /\ Field(c, 4) = c.IPv6 /\ c.Unknown \in Seq(Nat)
  BY FieldFacts
<1>2. ASSUME NEW s PROVE Sorted(1, s) = Sorted(2, s)
  BY TypeNumbers DEF Sorted, InOrder, Less
<1>3. \A type \in KnownTypes : Sorted(type, Field(c, type)) \in Seq(Item(type))
  BY FieldFacts, SortedItems
<1>4. /\ Item(0) = Seq(Nat) /\ Item(1) = Seq(Nat) /\ Item(2) = Seq(Nat)
      /\ Item(3) = Nat /\ Item(4) = Nat
  BY TypeNumbers DEF Item
<1>5. /\ Sorted(0, c.DNS) \in Seq(Seq(Nat)) /\ Sorted(1, c.DNSWildcard) \in Seq(Seq(Nat))
      /\ Sorted(2, c.ENS) \in Seq(Seq(Nat))
      /\ Sorted(3, c.IPv4) \in Seq(Nat) /\ Sorted(4, c.IPv6) \in Seq(Nat)
  BY <1>1, <1>3, <1>4, TypeNumbers
<1>6. <<>> \in Seq(Seq(Nat))
  OBVIOUS
<1>7. ReadBack(c) \in Claims
  BY <1>1, <1>5, <1>6 DEF ReadBack, Claims
<1>8. /\ ReadBack(c).DNS = Sorted(0, c.DNS) /\ ReadBack(c).DNSWildcard = <<>>
      /\ c.ENS # <<>> => ReadBack(c).ENS = Sorted(2, c.ENS)
      /\ c.ENS = <<>> => ReadBack(c).ENS = Sorted(2, c.DNSWildcard)
      /\ ReadBack(c).IPv4 = Sorted(3, c.IPv4) /\ ReadBack(c).IPv6 = Sorted(4, c.IPv6)
      /\ ReadBack(c).Unknown = c.Unknown
  BY <1>2 DEF ReadBack
<1>9. /\ Field(ReadBack(c), 0) = ReadBack(c).DNS
      /\ Field(ReadBack(c), 1) = ReadBack(c).DNSWildcard
      /\ Field(ReadBack(c), 2) = ReadBack(c).ENS
      /\ Field(ReadBack(c), 3) = ReadBack(c).IPv4
      /\ Field(ReadBack(c), 4) = ReadBack(c).IPv6
  BY <1>7, FieldFacts
<1> QED
  BY <1>1, <1>7, <1>8, <1>9

LEMMA ReadBackValid ==
  ASSUME NEW c \in Claims, AllValid(c)
  PROVE  AllValid(ReadBack(c))
<1>1. ASSUME NEW type \in KnownTypes, NEW t \in KnownTypes,
             Field(ReadBack(c), type) = Sorted(type, Field(c, t)),
             Item(t) = Item(type), \A x : ValidItem(t, x) => ValidItem(type, x)
      PROVE  \A x \in ToSet(Field(ReadBack(c), type)) : ValidItem(type, x)
  <2>1. Field(c, t) \in Seq(Item(type))
    BY <1>1, FieldFacts
  <2>2. \A x \in ToSet(Sorted(type, Field(c, t))) : x \in ToSet(Field(c, t))
    BY <2>1, SortedElements
  <2> QED
    BY <1>1, <2>2 DEF AllValid
<1>2. ASSUME NEW type \in {0, 3, 4}
      PROVE  \A x \in ToSet(Field(ReadBack(c), type)) : ValidItem(type, x)
  <2>1. type \in KnownTypes /\ Field(ReadBack(c), type) = Sorted(type, Field(c, type))
    BY ReadBackTyped, TypeNumbers
  <2> QED
    BY <1>1, <2>1
<1>3. \A x \in ToSet(Field(ReadBack(c), 1)) : ValidItem(1, x)
  <2>1. Field(ReadBack(c), 1) = <<>>
    BY ReadBackTyped
  <2>2. ToSet(<<>>) = {}
    BY DEF ToSet
  <2> QED
    BY <2>1, <2>2
<1>4. \A x \in ToSet(Field(ReadBack(c), 2)) : ValidItem(2, x)
  <2>1. 1 \in KnownTypes /\ 2 \in KnownTypes /\ Item(1) = Item(2)
    BY TypeNumbers DEF Item
  <2>2. \A x : ValidItem(1, x) => ValidItem(2, x)
    BY TypeNumbers DEF ValidItem
  <2>3. CASE Field(c, 2) # <<>>
    <3>1. Field(ReadBack(c), 2) = Sorted(2, Field(c, 2))
      BY <2>3, ReadBackTyped
    <3> QED
      BY <1>1, <2>1, <3>1
  <2>4. CASE Field(c, 2) = <<>>
    <3>1. Field(ReadBack(c), 2) = Sorted(2, Field(c, 1))
      BY <2>4, ReadBackTyped
    <3> QED
      BY <1>1, <2>1, <2>2, <3>1
  <2> QED
    BY <2>3, <2>4
<1> QED
  BY <1>2, <1>3, <1>4, TypeNumbers DEF AllValid

(* They are not longer than those written.                                 *)
LEMMA ReadBackLength ==
  ASSUME NEW c \in Claims
  PROVE  /\ WireLen(Wire(ReadBack(c))) \in Nat /\ WireLen(Wire(c)) \in Nat
         /\ WireLen(Wire(ReadBack(c))) <= WireLen(Wire(c))
<1> DEFINE d == ReadBack(c)
<1>1. d \in Claims /\ d.Unknown = c.Unknown
  BY ReadBackTyped
<1>2. /\ WireLen(Wire(c)) = WireLen(KnownPart(c)) + WireLen(UnknownPart(c))
      /\ Wire(c) \in Wires /\ UnknownPart(c) \in Wires
  BY WireShape
<1>3. /\ WireLen(Wire(d)) = WireLen(KnownPart(d)) + WireLen(UnknownPart(d))
      /\ Wire(d) \in Wires
  BY <1>1, WireShape
<1>4. UnknownPart(d) = UnknownPart(c)
  BY <1>1 DEF UnknownPart
<1>5. /\ WireLen(KnownPart(c)) = Size(c, 0) + Size(c, 1) + Size(c, 2)
                                   + Size(c, 3) + Size(c, 4)
      /\ WireLen(KnownPart(d)) = Size(d, 0) + Size(d, 1) + Size(d, 2)
                                   + Size(d, 3) + Size(d, 4)
  BY <1>1, KnownPartFacts
<1>6. /\ \A type \in {0, 1, 2, 3, 4} : Size(c, type) \in Nat /\ Size(d, type) \in Nat
      /\ WireLen(UnknownPart(c)) \in Nat
  BY <1>1, <1>2, WrittenFacts, WireLenFacts, TypeNumbers
<1>7. ASSUME NEW type \in KnownTypes, NEW t \in KnownTypes,
             Field(d, type) = Sorted(type, Field(c, t)), Item(t) = Item(type)
      PROVE  Size(d, type) = Size(c, t)
  <2>1. Field(c, t) \in Seq(Item(type))
    BY <1>7, FieldFacts
  <2>2. /\ Sorted(type, Field(c, t)) = <<>> <=> Field(c, t) = <<>>
        /\ Len(Sorted(type, Field(c, t))) = Len(Field(c, t))
    BY <2>1, SortedItems
  <2> QED
    BY <1>7, <2>2 DEF Size
<1>8. Size(d, 0) = Size(c, 0) /\ Size(d, 3) = Size(c, 3) /\ Size(d, 4) = Size(c, 4)
  <2>1. \A type \in {0, 3, 4} : Field(d, type) = Sorted(type, Field(c, type))
    BY ReadBackTyped
  <2> QED
    BY <1>7, <2>1, TypeNumbers
<1>9. Size(d, 1) = 0
  BY ReadBackTyped DEF Size
<1>10. Size(d, 2) = Size(c, 2) \/ Size(d, 2) = Size(c, 1)
  <2>1. 1 \in KnownTypes /\ 2 \in KnownTypes /\ Item(1) = Item(2)
    BY TypeNumbers DEF Item
  <2>2. \/ Field(d, 2) = Sorted(2, Field(c, 2))
        \/ Field(d, 2) = Sorted(2, Field(c, 1))
    BY ReadBackTyped
  <2> QED
    BY <1>7, <2>1, <2>2
<1> HIDE DEF d
<1>11. WireLen(KnownPart(d)) <= WireLen(KnownPart(c))
        /\ WireLen(KnownPart(d)) \in Nat /\ WireLen(KnownPart(c)) \in Nat
  BY <1>5, <1>6, <1>8, <1>9, <1>10
<1>12. /\ WireLen(Wire(d)) \in Nat /\ WireLen(Wire(c)) \in Nat
       /\ WireLen(Wire(d)) <= WireLen(Wire(c))
  BY <1>2, <1>3, <1>4, <1>6, <1>11
<1> QED
  BY <1>12 DEF d

(* Reading back what was written and writing it again.                     *)
LEMMA ReadBackFacts ==
  ASSUME NEW c \in Claims, MarshalClaims(c) # Error
  PROVE  /\ ReadBack(c) \in Claims
         /\ MarshalClaims(ReadBack(c)) # Error
         /\ ReadBack(c).DNSWildcard = <<>>
         /\ RepeatsAddress(ReadBack(c)) <=> RepeatsAddress(c)
         /\ c.DNSWildcard = <<>> => Wire(ReadBack(c)) = Wire(c)
<1> DEFINE d == ReadBack(c)
<1>1. AllValid(c) /\ UnknownOrdered(c.Unknown) /\ WireLen(Wire(c)) < L16
  BY MarshalFacts
<1>2. d \in Claims /\ d.Unknown = c.Unknown /\ AllValid(d)
  BY <1>1, ReadBackTyped, ReadBackValid
<1>3. MarshalClaims(d) # Error
  <2>1. WireLen(Wire(d)) < L16
    BY <1>1, ReadBackLength, AssertionsAssumption
  <2> QED
    BY <1>1, <1>2, <2>1, MarshalFacts
<1>4. ASSUME NEW type \in IpTypes
      PROVE  Repeats(Field(d, type)) <=> Repeats(Field(c, type))
  <2>1. Field(d, type) = Sorted(type, Field(c, type))
    BY ReadBackTyped, TypeNumbers
  <2>2. Field(c, type) \in Seq(Nat) /\ Field(c, type) \in Seq(Item(type))
    BY FieldFacts, TypeNumbers DEF Item
  <2>3. /\ Sorted(type, Field(c, type)) \in Seq(Item(type))
        /\ Sorted(type, Sorted(type, Field(c, type))) = Sorted(type, Field(c, type))
    BY <2>2, SortedItems
  <2>4. Item(type) = Nat
    BY TypeNumbers DEF Item
  <2>5. AddressesOrdered(Sorted(type, Field(c, type))) <=> ~Repeats(Field(c, type))
    BY <2>2, AddressFacts
  <2>6. AddressesOrdered(Sorted(type, Field(d, type))) <=> ~Repeats(Field(d, type))
    BY <2>1, <2>3, <2>4, AddressFacts
  <2> QED
    BY <2>1, <2>3, <2>5, <2>6
<1>5. RepeatsAddress(d) <=> RepeatsAddress(c)
  BY <1>2, <1>4, RepeatsFacts, TypeNumbers
<1>6. ASSUME c.DNSWildcard = <<>> PROVE Wire(d) = Wire(c)
  <2>1. Field(c, 1) = <<>>
    BY <1>6, FieldFacts
  <2>2. Field(d, 1) = <<>>
    BY ReadBackTyped
  <2>3. ASSUME NEW type \in KnownTypes PROVE Field(d, type) = Sorted(type, Field(c, type))
    <3>1. Sorted(type, <<>>) = <<>>
      <4>1. <<>> \in Seq(Item(type))
        OBVIOUS
      <4> QED
        BY <4>1, SortedItems
    <3>2. CASE type \in {0, 3, 4}
      BY <3>2, ReadBackTyped
    <3>3. CASE type = 1
      BY <2>1, <2>2, <3>1, <3>3
    <3>4. CASE type = 2
      BY <2>1, <3>1, <3>4, ReadBackTyped
    <3> QED
      BY <3>2, <3>3, <3>4, TypeNumbers
  <2>4. ASSUME NEW type \in KnownTypes PROVE Written(d, type) = Written(c, type)
    <3>1. Field(c, type) \in Seq(Item(type))
      BY FieldFacts
    <3>2. /\ Sorted(type, Field(c, type)) = <<>> <=> Field(c, type) = <<>>
          /\ Sorted(type, Sorted(type, Field(c, type))) = Sorted(type, Field(c, type))
      BY <3>1, SortedItems
    <3>3. Field(d, type) = Sorted(type, Field(c, type))
      BY <2>3
    <3> QED
      BY <3>2, <3>3 DEF Written
  <2>5. /\ DnsClaimType \in KnownTypes /\ DnsWildcardClaimType \in KnownTypes
        /\ EnsClaimType \in KnownTypes
        /\ Ipv4ClaimType \in KnownTypes /\ Ipv6ClaimType \in KnownTypes
    BY DEF KnownTypes, DomainTypes, IpTypes
  <2> HIDE DEF d
  <2> QED
    BY <1>2, <2>4, <2>5, Zenon DEF Wire
<1>7. d.DNSWildcard = <<>>
  BY DEF ReadBack
<1> QED
  BY <1>2, <1>3, <1>5, <1>6, <1>7

-----------------------------------------------------------------------------
(* Assertions.                                                             *)

LEMMA SubjectFacts ==
  ASSUME NEW s \in Subjects \cup AbridgedSubjects
  PROVE  s.size \in Nat
BY DEF Subjects, AbridgedSubjects

(* Writing an assertion, abridged or not.                                  *)
LEMMA MarshalAssertion ==
  ASSUME NEW s \in Subjects \cup AbridgedSubjects, NEW c \in Claims
  PROVE  /\ Marshal([subject |-> s, claims |-> c]) # Error <=>
              MarshalClaims(c) # Error /\ s.size < L16
         /\ Marshal([subject |-> s, claims |-> c]) # Error =>
              Marshal([subject |-> s, claims |-> c]) = [subject |-> s, claims |-> Wire(c)]
<1> DEFINE w == [subject |-> s, claims |-> Wire(c)]
<1>1. w # Error
  <2>1. Wire(c) \in Wires
    BY WireShape
  <2>2. w \in [subject : Subjects \cup AbridgedSubjects, claims : Wires \cup Claims]
    BY <2>1
  <2> QED
    BY <2>2, ErrorAssumption
<1>2. s.size \in Nat /\ L16 \in Nat
  BY SubjectFacts, AssertionsAssumption
<1>3. s.size >= L16 <=> ~(s.size < L16)
  BY <1>2
<1>4. MarshalClaims(c) # Error => MarshalClaims(c) = Wire(c)
  BY MarshalFacts
<1>5. Marshal([subject |-> s, claims |-> c]) =
        IF MarshalClaims(c) = Error \/ s.size >= L16 THEN Error
        ELSE [subject |-> s, claims |-> MarshalClaims(c)]
  BY DEF Marshal
<1> QED
  BY <1>1, <1>3, <1>4, <1>5

(* Reading it back.                                                        *)
LEMMA UnmarshalAssertion ==
  ASSUME NEW s \in Subjects \cup AbridgedSubjects, NEW c \in Claims,
         MarshalClaims(c) # Error
  PROVE  /\ RepeatsAddress(c) => Unmarshal([subject |-> s, claims |-> Wire(c)]) = Error
         /\ ~RepeatsAddress(c) =>
              /\ Unmarshal([subject |-> s, claims |-> Wire(c)]) =
                   [subject |-> s, claims |-> ReadBack(c)]
              /\ [subject |-> s, claims |-> ReadBack(c)] # Error
<1>1. UnmarshalClaims(Wire(c)) = IF RepeatsAddress(c) THEN Error ELSE ReadBack(c)
  BY RoundTrip
<1>2. ReadBack(c) \in Claims
  BY ReadBackFacts
<1>3. ReadBack(c) # Error
  BY <1>2, ErrorAssumption
<1>4. [subject |-> s, claims |-> ReadBack(c)] # Error
  <2>1. [subject |-> s, claims |-> ReadBack(c)]
          \in [subject : Subjects \cup AbridgedSubjects, claims : Wires \cup Claims]
    BY <1>2
  <2> QED
    BY <2>1, ErrorAssumption
<1>5. Unmarshal([subject |-> s, claims |-> Wire(c)]) =
        IF UnmarshalClaims(Wire(c)) = Error THEN Error
        ELSE [subject |-> s, claims |-> UnmarshalClaims(Wire(c))]
  BY DEF Unmarshal
<1> QED
  BY <1>1, <1>3, <1>4, <1>5

Abridged(s) == [kind |-> "abridged", size |-> 1, hash |-> s]

LEMMA AbridgeFacts ==
  ASSUME NEW s \in Subjects, NEW c
  PROVE  /\ Abridge([subject |-> s, claims |-> c]) = [subject |-> Abridged(s), claims |-> c]
         /\ Abridged(s) \in AbridgedSubjects /\ Abridged(s).size = 1
BY DEF Abridge, Abridged, AbridgedSubjects

(* What it takes to accept an assertion.                                   *)
LEMMA AcceptedFacts ==
  ASSUME NEW a, Accepted(a)
  PROVE  /\ a.subject \in Subjects /\ a.claims \in Claims
         /\ a = [subject |-> a.subject, claims |-> a.claims]
         /\ a.subject.size \in Nat /\ a.subject.size < L16
         /\ MarshalClaims(a.claims) # Error
         /\ Marshal(a) = [subject |-> a.subject, claims |-> Wire(a.claims)]
<1>1. a \in [subject : Subjects, claims : Claims] /\ Marshal(a) # Error
  BY DEF Accepted
<1>2. PICK s \in Subjects, c \in Claims : a = [subject |-> s, claims |-> c]
  BY <1>1
<1>3. a.subject = s /\ a.claims = c
  BY <1>2
<1>4. s \in Subjects \cup AbridgedSubjects
  OBVIOUS
<1>5. /\ MarshalClaims(c) # Error /\ s.size < L16
      /\ Marshal(a) = [subject |-> s, claims |-> Wire(c)]
  BY <1>1, <1>2, <1>4, MarshalAssertion
<1>6. s.size \in Nat
  BY <1>4, SubjectFacts
<1> QED
  BY <1>2, <1>3, <1>5, <1>6

(* A record is read back when its length fits.                             *)
LEMMA RecordFacts ==
  ASSUME NEW a, Accepted(a)
  PROVE  LET r == Record(Marshal(a))
             size == ChecksumLen + a.subject.size + WireLen(Marshal(a).claims)
         IN /\ size \in Nat /\ size >= 1
            /\ size < L16 => UnmarshalRecord(r) = Unmarshal(Marshal(a))
            /\ ~(size < L16) => UnmarshalRecord(r) = Error
<1> DEFINE r == Record(Marshal(a))
           size == ChecksumLen + a.subject.size + WireLen(Marshal(a).claims)
<1>1. /\ a.claims \in Claims /\ a.subject.size \in Nat
      /\ Marshal(a) = [subject |-> a.subject, claims |-> Wire(a.claims)]
  BY AcceptedFacts
<1>2. Marshal(a).subject = a.subject /\ Marshal(a).claims = Wire(a.claims)
  BY <1>1
<1>3. WireLen(Marshal(a).claims) \in Nat
  BY <1>1, <1>2, ReadBackLength
<1>4. size \in Nat /\ size >= 1
  BY <1>1, <1>3 DEF ChecksumLen
<1>5. r = [prefix |-> size % L16, size |-> size, checksum |-> Checksum(Marshal(a)),
           body |-> Marshal(a)]
  BY <1>2 DEF Record
<1> HIDE DEF r, size
<1>6. r.prefix = size % L16 /\ r.size = size /\ r.body = Marshal(a)
  BY <1>5
<1>7. size % L16 = size <=> size < L16
  <2>1. L16 \in Nat \ {0}
    BY AssertionsAssumption
  <2>2. size % L16 \in 0..(L16 - 1)
    BY <1>4, <2>1
  <2>3. size < L16 => size % L16 = size
    BY <1>4, <2>1
  <2> QED
    BY <1>4, <2>1, <2>2, <2>3
<1> QED
  BY <1>4, <1>6, <1>7 DEF UnmarshalRecord, r, size

(* Which records can be issued, and the key that the index then has.       *)
LEMMA CanIssueFacts ==
  ASSUME NEW a, Accepted(a)
  PROVE  LET r == Record(Marshal(a))
         IN /\ CanIssue(r) <=>
                 /\ CanAbridge(a) /\ ~RepeatsAddress(a.claims)
                 /\ ChecksumLen + a.subject.size + WireLen(Marshal(a).claims) < L16
            /\ CanIssue(r) =>
                 /\ 1 < L16 /\ ~RepeatsAddress(a.claims)
                 /\ Key(Unmarshal(AbridgedWire(r))) =
                      [subject |-> Abridged(a.subject), claims |-> Wire(ReadBack(a.claims))]
<1> DEFINE r == Record(Marshal(a))
           size == ChecksumLen + a.subject.size + WireLen(Marshal(a).claims)
           s == a.subject
           c == a.claims
           d == ReadBack(c)
           t == Abridged(s)
           b == [subject |-> s, claims |-> d]
           x == [subject |-> t, claims |-> Wire(d)]
<1>1. /\ s \in Subjects /\ c \in Claims /\ MarshalClaims(c) # Error
      /\ Marshal(a) = [subject |-> s, claims |-> Wire(c)]
  BY AcceptedFacts
<1>2. /\ size \in Nat /\ size >= 1
      /\ size < L16 => UnmarshalRecord(r) = Unmarshal(Marshal(a))
      /\ ~(size < L16) => UnmarshalRecord(r) = Error
  BY RecordFacts
<1>3. /\ d \in Claims /\ MarshalClaims(d) # Error /\ d.DNSWildcard = <<>>
      /\ RepeatsAddress(d) <=> RepeatsAddress(c)
  BY <1>1, ReadBackFacts
<1>4. /\ ReadBack(d) \in Claims /\ MarshalClaims(ReadBack(d)) # Error
      /\ Wire(ReadBack(d)) = Wire(d)
  BY <1>3, ReadBackFacts
<1>5. /\ Abridge(b) = [subject |-> t, claims |-> d]
      /\ t \in AbridgedSubjects /\ t.size = 1
  BY <1>1, AbridgeFacts
<1>6. s \in Subjects \cup AbridgedSubjects /\ t \in Subjects \cup AbridgedSubjects
  BY <1>1, <1>5
<1>7. /\ RepeatsAddress(c) => Unmarshal(Marshal(a)) = Error
      /\ ~RepeatsAddress(c) => Unmarshal(Marshal(a)) = b /\ b # Error
  BY <1>1, <1>6, UnmarshalAssertion
<1>8. CanAbridge(b) <=> CanAbridge(a)
  BY DEF CanAbridge
<1> HIDE DEF r, size, s, c, d, t
<1>9. CASE size < L16 /\ ~RepeatsAddress(c)
  <2>1. UnmarshalRecord(r) = b /\ b # Error
    BY <1>2, <1>7, <1>9
  <2>2. 1 < L16
    BY <1>2, <1>9, AssertionsAssumption
  <2>3. AbridgedWire(r) = Marshal([subject |-> t, claims |-> d])
    BY <1>5, <2>1 DEF AbridgedWire
  <2>4. AbridgedWire(r) = x /\ AbridgedWire(r) # Error
    BY <1>3, <1>5, <1>6, <2>2, <2>3, MarshalAssertion
  <2>5. /\ Unmarshal(x) = [subject |-> t, claims |-> ReadBack(d)]
        /\ Unmarshal(x) # Error
    BY <1>3, <1>6, <1>9, UnmarshalAssertion
  <2>6. Key(Unmarshal(x)) = x
    <3>1. Marshal([subject |-> t, claims |-> ReadBack(d)]) # Error
      BY <1>4, <1>5, <1>6, <2>2, MarshalAssertion
    <3>2. Marshal([subject |-> t, claims |-> ReadBack(d)]) =
            [subject |-> t, claims |-> Wire(ReadBack(d))]
      BY <1>4, <1>6, <3>1, MarshalAssertion
    <3> QED
      BY <1>4, <2>5, <3>2 DEF Key
  <2> HIDE DEF b, x
  <2>7. CanIssue(r) <=> CanAbridge(a)
    BY <1>8, <2>1, <2>4, <2>5 DEF CanIssue
  <2> QED
    BY <1>9, <2>2, <2>4, <2>6, <2>7 DEF r, size, s, c, d, t, x
<1>10. CASE ~(size < L16) \/ RepeatsAddress(c)
  <2>1. UnmarshalRecord(r) = Error
    BY <1>2, <1>7, <1>10
  <2>2. ~CanIssue(r)
    BY <2>1 DEF CanIssue
  <2> QED
    BY <1>10, <2>2 DEF r, size, c
<1> QED
  BY <1>9, <1>10

-----------------------------------------------------------------------------
(* The invariant is kept.                                                  *)

(* The assertion that flags give, if it can be written.                    *)
LEMMA FlagsAccepted ==
  ASSUME NEW c \in FlagClaims, Marshal(FromFlags(c)) # Error
  PROVE  /\ Accepted(FromFlags(c)) /\ c \in Claims
         /\ FromFlags(c).claims = c /\ FromFlags(c).subject = Subject
<1>1. c \in Claims /\ Subject \in Subjects
  BY AssertionsAssumption
<1> QED
  BY <1>1 DEF Accepted, FromFlags

(* The assertion in a file of the right form, if it can be read and        *)
(* written.                                                                *)
LEMMA FileAccepted ==
  ASSUME NEW w, IsFile(w), Unmarshal(w) # Error, Marshal(Unmarshal(w)) # Error
  PROVE  Accepted(Unmarshal(w))
<1>1. w.subject \in Subjects /\ IsWire(w.claims)
  BY DEF IsFile
<1>2. /\ UnmarshalClaims(w.claims) # Error
      /\ Unmarshal(w) = [subject |-> w.subject, claims |-> UnmarshalClaims(w.claims)]
  BY DEF Unmarshal
<1>3. UnmarshalClaims(w.claims) \in Claims
  BY <1>1, <1>2, UnmarshalTyped
<1>4. Unmarshal(w) \in [subject : Subjects, claims : Claims]
  BY <1>1, <1>2, <1>3
<1> QED
  BY <1>4 DEF Accepted

(* What is written for an assertion is a file of the right form.           *)
LEMMA WrittenIsFile ==
  ASSUME NEW a, Accepted(a)
  PROVE  IsFile(Marshal(a))
<1>1. /\ a.subject \in Subjects /\ a.claims \in Claims
      /\ MarshalClaims(a.claims) # Error
      /\ Marshal(a) = [subject |-> a.subject, claims |-> Wire(a.claims)]
  BY AcceptedFacts
<1>2. IsWire(Wire(a.claims))
  BY <1>1, MarshalFacts, WireIsWire
<1> QED
  BY <1>1, <1>2 DEF IsFile

LEMMA InitRight ==
  ASSUME Init
  PROVE  IndInv
<1>1. FileRight
  BY DEF Init, FileRight
<1>2. QueueRight
  <2>1. queue = <<>> /\ asked = <<>> /\ DOMAIN <<>> = {}
    BY DEF Init
  <2>2. <<>> \in Seq([subject : Subjects, claims : Claims])
    OBVIOUS
  <2>3. [i \in DOMAIN asked |-> Record(Marshal(asked[i]))] = <<>>
    BY <2>1
  <2> QED
    BY <2>1, <2>2, <2>3 DEF QueueRight
<1>3. IssuedRight
  BY DEF Init, IssuedRight
<1> QED
  BY <1>1, <1>2, <1>3 DEF IndInv

(* What does not change.                                                   *)
LEMMA QueueKept ==
  ASSUME QueueRight, UNCHANGED <<queue, asked>>
  PROVE  QueueRight'
BY DEF QueueRight

LEMMA IssuedKept ==
  ASSUME IssuedRight, UNCHANGED <<issued, index>>
  PROVE  IssuedRight'
BY DEF IssuedRight

LEMMA FileKept ==
  ASSUME FileRight, UNCHANGED <<file, made, sum>>
  PROVE  FileRight'
BY DEF FileRight

LEMMA NewAssertionKeeps ==
  ASSUME IndInv, NEW c \in FlagClaims, NEW checksum, handleNewAssertion(c, checksum)
  PROVE  IndInv'
<1>1. /\ Marshal(FromFlags(c)) # Error
      /\ file' = Marshal(FromFlags(c)) /\ sum' = Checksum(Marshal(FromFlags(c)))
      /\ made' = c /\ UNCHANGED <<queue, asked>> /\ UNCHANGED <<issued, index>>
  BY DEF handleNewAssertion, Check
<1>2. IsFile(Marshal(FromFlags(c)))
  BY <1>1, FlagsAccepted, WrittenIsFile
<1>3. FileRight'
  BY <1>1, <1>2 DEF FileRight, Checksum
<1> QED
  BY <1>1, <1>3, QueueKept, IssuedKept DEF IndInv

LEMMA ReceiveFileKeeps ==
  ASSUME IndInv, NEW w \in FileInputs, ReceiveFile(w)
  PROVE  IndInv'
<1>1. /\ file' = w /\ made' = None
      /\ UNCHANGED <<queue, asked>> /\ UNCHANGED <<issued, index>>
  BY DEF ReceiveFile
<1>2. IsFile(w)
  BY AssertionsAssumption
<1>3. FileRight'
  BY <1>1, <1>2 DEF FileRight
<1> QED
  BY <1>1, <1>3, QueueKept, IssuedKept DEF IndInv

LEMMA QueueMultipleKeeps ==
  ASSUME IndInv, NEW a, NEW checksum, Accepted(a), QueueMultiple(a, checksum)
  PROVE  IndInv'
<1> DEFINE S == [subject : Subjects, claims : Claims]
<1>1. /\ queue' = Append(queue, Record(Marshal(a))) /\ asked' = Append(asked, a)
      /\ UNCHANGED <<file, made, sum>> /\ UNCHANGED <<issued, index>>
  BY DEF QueueMultiple
<1>2. /\ asked \in Seq(S) /\ \A i \in DOMAIN asked : Accepted(asked[i])
      /\ queue = [i \in DOMAIN asked |-> Record(Marshal(asked[i]))]
  BY DEF IndInv, QueueRight
<1>3. a \in S
  BY DEF Accepted
<1> HIDE DEF S
<1>4. PICK n \in Nat : n = Len(asked) /\ DOMAIN asked = 1..n
  BY <1>2, LenProperties
<1>5. /\ asked' \in Seq(S) /\ DOMAIN asked' = 1..(n + 1)
      /\ asked'[n + 1] = a /\ \A i \in 1..n : asked'[i] = asked[i]
  BY <1>1, <1>2, <1>3, <1>4
<1>6. \A i \in DOMAIN asked' : Accepted(asked'[i])
  BY <1>2, <1>4, <1>5
<1>7. queue' = [i \in DOMAIN asked' |-> Record(Marshal(asked'[i]))]
  <2> DEFINE R(x) == Record(Marshal(x))
  <2>1. queue = [i \in 1..n |-> R(asked[i])] /\ queue' = Append(queue, R(a))
    BY <1>1, <1>2, <1>4
  <2> HIDE DEF R
  <2> DEFINE T == {R(asked[i]) : i \in 1..n} \cup {R(a)}
  <2>2. queue \in [1..n -> T] /\ R(a) \in T
    BY <2>1
  <2> HIDE DEF T
  <2>3. queue \in Seq(T) /\ Len(queue) = n
    BY <2>2, FunctionIsSequence
  <2>4. queue' = [i \in 1..(n + 1) |-> IF i = n + 1 THEN R(a) ELSE queue[i]]
    <3>1. /\ queue' \in Seq(T) /\ Len(queue') = n + 1
          /\ \A i \in 1..n : queue'[i] = queue[i]
          /\ queue'[n + 1] = R(a)
      BY <2>1, <2>2, <2>3, AppendProperties
    <3>2. queue' \in [1..(n + 1) -> T]
      BY <3>1, LenProperties
    <3>3. \A i \in 1..(n + 1) : i # n + 1 => i \in 1..n
      OBVIOUS
    <3> QED
      BY <3>1, <3>2, <3>3
  <2>5. queue' = [i \in 1..(n + 1) |-> R(asked'[i])]
    BY <1>5, <2>1, <2>4
  <2> QED
    BY <1>5, <2>5 DEF R
<1>8. QueueRight'
  BY <1>5, <1>6, <1>7 DEF QueueRight, S
<1> QED
  BY <1>1, <1>8, FileKept, IssuedKept DEF IndInv

LEMMA QueueFlagsKeeps ==
  ASSUME IndInv, NEW c \in FlagClaims, NEW checksum, QueueFlags(c, checksum)
  PROVE  IndInv'
<1>1. QueueMultiple(FromFlags(c), checksum) /\ Marshal(FromFlags(c)) # Error
  BY DEF QueueFlags, QueueMultiple, Check
<1>2. Accepted(FromFlags(c))
  BY <1>1, FlagsAccepted
<1> QED
  BY <1>1, <1>2, QueueMultipleKeeps

LEMMA QueueFileKeeps ==
  ASSUME IndInv, NEW checksum, QueueFile(checksum)
  PROVE  IndInv'
<1>1. /\ QueueMultiple(Unmarshal(file), checksum) /\ file # None
      /\ Unmarshal(file) # Error /\ Marshal(Unmarshal(file)) # Error
  BY DEF QueueFile, QueueMultiple, Check
<1>2. IsFile(file)
  BY <1>1 DEF IndInv, FileRight
<1>3. Accepted(Unmarshal(file))
  BY <1>1, <1>2, FileAccepted
<1> QED
  BY <1>1, <1>3, QueueMultipleKeeps

LEMMA IssueKeeps ==
  ASSUME IndInv, Issue
  PROVE  IndInv'
<1>1. /\ \A i \in DOMAIN queue : CanIssue(queue[i])
      /\ index' = index \cup {Key(Unmarshal(AbridgedWire(r))) : r \in ToSet(queue)}
      /\ issued' = issued \cup ToSet(asked)
      /\ queue' = <<>> /\ asked' = <<>> /\ UNCHANGED <<file, made, sum>>
  BY DEF Issue
<1>2. /\ \A i \in DOMAIN asked : Accepted(asked[i])
      /\ queue = [i \in DOMAIN asked |-> Record(Marshal(asked[i]))]
  BY DEF IndInv, QueueRight
<1>3. QueueRight'
  <2>1. <<>> \in Seq([subject : Subjects, claims : Claims]) /\ DOMAIN <<>> = {}
    OBVIOUS
  <2>2. [i \in DOMAIN asked' |-> Record(Marshal(asked'[i]))] = <<>>
    BY <1>1, <2>1
  <2> QED
    BY <1>1, <2>1, <2>2 DEF QueueRight
<1>4. ASSUME NEW a \in issued'
      PROVE  /\ Accepted(a) /\ CanIssue(Record(Marshal(a)))
             /\ Key(Unmarshal(AbridgedWire(Record(Marshal(a))))) \in index'
  <2>1. CASE a \in issued
    <3>1. /\ Accepted(a) /\ CanIssue(Record(Marshal(a)))
          /\ Key(Unmarshal(AbridgedWire(Record(Marshal(a))))) \in index
      BY <2>1, Zenon DEF IndInv, IssuedRight
    <3> QED
      BY <1>1, <3>1
  <2>2. CASE a \in ToSet(asked)
    <3>1. PICK i \in DOMAIN asked : a = asked[i]
      BY <2>2 DEF ToSet
    <3>2. i \in DOMAIN queue /\ queue[i] = Record(Marshal(a))
      BY <1>2, <3>1
    <3>3. Record(Marshal(a)) \in ToSet(queue)
      BY <3>2 DEF ToSet
    <3>4. Key(Unmarshal(AbridgedWire(Record(Marshal(a))))) \in index'
      BY <1>1, <3>3
    <3> QED
      BY <1>1, <1>2, <3>1, <3>2, <3>4
  <2> QED
    BY <1>1, <2>1, <2>2
<1>5. IssuedRight'
  BY <1>4, Zenon DEF IssuedRight
<1> QED
  BY <1>1, <1>3, <1>5, FileKept DEF IndInv

(* What the queue, the file and the batches hold is right, whatever        *)
(* commands are run: each record of the queue is that of an assertion that *)
(* can be written, and what was issued has the key of what was read back.  *)
THEOREM AssertionsInvariant == Spec => []IndInv
<1>1. Init => IndInv
  BY InitRight
<1>2. IndInv /\ [Next]_vars => IndInv'
  <2> SUFFICES ASSUME IndInv, [Next]_vars PROVE IndInv'
    OBVIOUS
  <2>1. CASE \E c \in FlagClaims, checksum \in Checksums :
               handleNewAssertion(c, checksum)
    BY <2>1, NewAssertionKeeps
  <2>2. CASE \E w \in FileInputs : ReceiveFile(w)
    BY <2>2, ReceiveFileKeeps
  <2>3. CASE \E c \in FlagClaims, checksum \in Checksums : QueueFlags(c, checksum)
    BY <2>3, QueueFlagsKeeps
  <2>4. CASE \E checksum \in Checksums : QueueFile(checksum)
    BY <2>4, QueueFileKeeps
  <2>5. CASE Issue
    BY <2>5, IssueKeeps
  <2>6. CASE UNCHANGED vars
    <3>1. /\ UNCHANGED <<file, made, sum>> /\ UNCHANGED <<queue, asked>>
          /\ UNCHANGED <<issued, index>>
      BY <2>6 DEF vars
    <3> QED
      BY <3>1, FileKept, QueueKept, IssuedKept DEF IndInv
  <2> QED
    BY <2>1, <2>2, <2>3, <2>4, <2>5, <2>6 DEF Next
<1> QED
  BY <1>1, <1>2, PTL DEF Spec

(* WalkQueue, and so Issue, gets through the records of exactly those      *)
(* assertions whose subject can be abridged, that repeat no address except *)
(* in the first two places, and whose record fits its 16-bit length.       *)
THEOREM QueueIsReadable == Spec => []QueueReadable
<1>1. IndInv => QueueReadable
  <2> SUFFICES ASSUME IndInv, NEW i \in DOMAIN queue
               PROVE  CanIssue(queue[i]) <=>
                        /\ CanAbridge(asked[i])
                        /\ ~RepeatsAddress(asked[i].claims)
                        /\ ChecksumLen + asked[i].subject.size
                             + WireLen(Marshal(asked[i]).claims) < L16
    BY Zenon DEF QueueReadable
  <2>1. /\ \A j \in DOMAIN asked : Accepted(asked[j])
        /\ queue = [j \in DOMAIN asked |-> Record(Marshal(asked[j]))]
    BY DEF IndInv, QueueRight
  <2>2. Accepted(asked[i]) /\ queue[i] = Record(Marshal(asked[i]))
    BY <2>1
  <2> QED
    BY <2>2, CanIssueFacts
<1> QED
  BY <1>1, AssertionsInvariant, PTL

(* ca cert finds every assertion that was queued and issued, asked for as  *)
(* it was queued or as a relying party parses it, unless it has wildcards. *)
THEOREM IssuedIsFoundAgain == Spec => []FoundAgain
<1>1. IndInv => FoundAgain
  <2> SUFFICES ASSUME IndInv, NEW a \in issued, ~HasWildcard(a)
               PROVE  /\ Key(Abridge(a)) \in index
                      /\ Key(Abridge(Unmarshal(Marshal(a)))) \in index
    BY Zenon DEF FoundAgain
  <2> DEFINE s == a.subject
             c == a.claims
             t == Abridged(s)
             key == Key(Unmarshal(AbridgedWire(Record(Marshal(a)))))
  <2>1. Accepted(a) /\ CanIssue(Record(Marshal(a))) /\ key \in index
    BY Zenon DEF IndInv, IssuedRight
  <2>2. /\ 1 < L16 /\ ~RepeatsAddress(c)
        /\ key = [subject |-> t, claims |-> Wire(ReadBack(c))]
    BY <2>1, CanIssueFacts
  <2>3. /\ s \in Subjects /\ c \in Claims /\ MarshalClaims(c) # Error
        /\ a = [subject |-> s, claims |-> c]
        /\ Marshal(a) = [subject |-> s, claims |-> Wire(c)]
    BY <2>1, AcceptedFacts
  <2>4. c.DNSWildcard = <<>>
    BY DEF HasWildcard
  <2>5. /\ ReadBack(c) \in Claims /\ MarshalClaims(ReadBack(c)) # Error
        /\ Wire(ReadBack(c)) = Wire(c)
    BY <2>3, <2>4, ReadBackFacts
  <2>6. s \in Subjects \cup AbridgedSubjects
    BY <2>3
  <2>7. Unmarshal(Marshal(a)) = [subject |-> s, claims |-> ReadBack(c)]
    BY <2>2, <2>3, <2>6, UnmarshalAssertion
  <2> HIDE DEF s, c, t, key
  <2>8. /\ \A x : Abridge([subject |-> s, claims |-> x]) = [subject |-> t, claims |-> x]
        /\ t \in Subjects \cup AbridgedSubjects /\ t.size = 1
    BY <2>3, AbridgeFacts DEF t
  <2>9. Key(Abridge(a)) = [subject |-> t, claims |-> Wire(c)]
    <3>1. Key(Abridge(a)) = Marshal([subject |-> t, claims |-> c])
      BY <2>3, <2>8 DEF Key
    <3>2. Marshal([subject |-> t, claims |-> c]) = [subject |-> t, claims |-> Wire(c)]
      BY <2>2, <2>3, <2>8, MarshalAssertion
    <3> QED
      BY <3>1, <3>2
  <2>10. Key(Abridge(Unmarshal(Marshal(a)))) = [subject |-> t, claims |-> Wire(ReadBack(c))]
    <3> DEFINE d == ReadBack(c)
    <3>1. Abridge(Unmarshal(Marshal(a))) = [subject |-> t, claims |-> d]
      BY <2>7, <2>8
    <3>2. Marshal([subject |-> t, claims |-> d]) = [subject |-> t, claims |-> Wire(d)]
      BY <2>2, <2>5, <2>8, MarshalAssertion
    <3> QED
      BY <3>1, <3>2 DEF Key
  <2> QED
    BY <2>1, <2>2, <2>5, <2>9, <2>10
<1> QED
  BY <1>1, AssertionsInvariant, PTL

(* The file of new-assertion passes Check under the checksum printed, for  *)
(* flags in any order that list no wildcards and repeat no address.        *)
THEOREM ChecksumIsHeld == Spec => []ChecksumHolds
<1>1. IndInv => ChecksumHolds
  <2> SUFFICES ASSUME IndInv, made # None, made.DNSWildcard = <<>>, ~RepeatsAddress(made)
               PROVE  Check(Unmarshal(file), sum)
    BY Zenon DEF ChecksumHolds
  <2>1. /\ made \in FlagClaims /\ Marshal(FromFlags(made)) # Error
        /\ file = Marshal(FromFlags(made)) /\ sum = file
    BY DEF IndInv, FileRight
  <2>2. /\ Accepted(FromFlags(made)) /\ made \in Claims
        /\ FromFlags(made).claims = made /\ FromFlags(made).subject = Subject
    BY <2>1, FlagsAccepted
  <2>3. /\ Subject \in Subjects /\ MarshalClaims(made) # Error /\ Subject.size < L16
        /\ file = [subject |-> Subject, claims |-> Wire(made)]
    BY <2>1, <2>2, AcceptedFacts
  <2>4. Subject \in Subjects \cup AbridgedSubjects
    BY <2>3
  <2>5. /\ Unmarshal(file) = [subject |-> Subject, claims |-> ReadBack(made)]
        /\ Unmarshal(file) # Error
    BY <2>2, <2>3, <2>4, UnmarshalAssertion
  <2>6. /\ ReadBack(made) \in Claims /\ MarshalClaims(ReadBack(made)) # Error
        /\ Wire(ReadBack(made)) = Wire(made)
    BY <2>2, <2>3, ReadBackFacts
  <2>7. Marshal(Unmarshal(file)) # Error /\ Marshal(Unmarshal(file)) = file
    BY <2>3, <2>4, <2>5, <2>6, MarshalAssertion
  <2> QED
    BY <2>1, <2>5, <2>7 DEF Check, Checksum
<1> QED
  BY <1>1, AssertionsInvariant, PTL
=============================================================================
