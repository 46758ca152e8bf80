-------------------------- MODULE MerkleTreeProofs --------------------------
(***************************************************************************)
(* ComputeTree, AuthenticationPath and VerifyAuthenticationPath are        *)
(* correct for batches of every size: the tree is the one that the         *)
(* assertions define, the number of nodes the one that TreeNodeCount       *)
(* predicts, AuthenticationPath reads the level it means to, its paths are *)
(* accepted, and nothing else is.                                          *)
(***************************************************************************)
EXTENDS MerkleTree, Recursion, SequenceTheorems, TLAPS

-----------------------------------------------------------------------------
(* Sequences of anything.                                                  *)

(* A sequence has a length.                                                *)
LEMMA LengthFacts ==
  ASSUME NEW s, IsSequence(s)
  PROVE  Len(s) \in Nat /\ DOMAIN s = 1..Len(s)
BY LenProperties DEF IsSequence

(* A function on the first n numbers is a sequence.                        *)
LEMMA FunctionIsSequence ==
  ASSUME NEW n \in Nat, NEW s, DOMAIN s = 1..n, s = [k \in DOMAIN s |-> s[k]]
  PROVE  IsSequence(s) /\ Len(s) = n
<1> DEFINE S == {s[k] : k \in DOMAIN s}
<1>1. s \in [1..n -> S]
  OBVIOUS
<1>2. s \in Seq(S)
  BY <1>1, SeqDef
<1>3. Len(s) = n
  BY <1>2, LenProperties
<1> QED
  BY <1>2, <1>3 DEF IsSequence

(* Sequences can be taken to be over the same set.                         *)
LEMMA CommonSet ==
  ASSUME NEW s, NEW t, IsSequence(s), IsSequence(t)
  PROVE  \E S : s \in Seq(S) /\ t \in Seq(S)
<1> DEFINE S == {s[k] : k \in DOMAIN s}
           T == {t[k] : k \in DOMAIN t}
<1>1. s \in Seq(S) /\ t \in Seq(T)
  BY DEF IsSequence
<1>2. S \subseteq S \cup T /\ T \subseteq S \cup T
  OBVIOUS
<1> HIDE DEF S, T
<1>3. s \in Seq(S \cup T) /\ t \in Seq(S \cup T)
  BY <1>1, <1>2, SeqMonotonic
<1> QED
  BY <1>3

(* A member of Seq is a sequence.                                          *)
LEMMA MemberIsSequence ==
  ASSUME NEW S, NEW s \in Seq(S)
  PROVE  IsSequence(s)
<1>1. Len(s) \in Nat /\ DOMAIN s = 1..Len(s) /\ s = [k \in DOMAIN s |-> s[k]]
  BY LenProperties
<1> QED
  BY <1>1, FunctionIsSequence

(* The empty sequence.                                                     *)
LEMMA EmptyIsSequence == IsSequence(<<>>) /\ Len(<<>>) = 0
<1>1. <<>> \in Seq({})
  OBVIOUS
<1> QED
  BY <1>1, MemberIsSequence

(* What \o returns.                                                        *)
LEMMA ConcatFacts ==
  ASSUME NEW s, NEW t, IsSequence(s), IsSequence(t)
  PROVE  /\ IsSequence(s \o t)
         /\ Len(s \o t) = Len(s) + Len(t)
         /\ \A k \in 1..Len(s) : (s \o t)[k] = s[k]
         /\ \A k \in 1..Len(t) : (s \o t)[Len(s) + k] = t[k]
<1>1. PICK S : s \in Seq(S) /\ t \in Seq(S)
  BY CommonSet
<1>2. s \o t \in Seq(S) /\ Len(s) \in Nat /\ Len(t) \in Nat
  BY <1>1, ConcatProperties, LenProperties
<1>3. IsSequence(s \o t)
  BY <1>2, MemberIsSequence
<1> QED
  BY <1>1, <1>2, <1>3

(* What Append returns.                                                    *)
LEMMA AppendFacts ==
  ASSUME NEW s, NEW x, IsSequence(s)
  PROVE  /\ IsSequence(Append(s, x))
         /\ Len(Append(s, x)) = Len(s) + 1
         /\ \A k \in 1..Len(s) : Append(s, x)[k] = s[k]
         /\ Append(s, x)[Len(s) + 1] = x
<1> DEFINE S == {s[k] : k \in DOMAIN s} \cup {x}
<1>1. s \in Seq(S) /\ x \in S
  BY SeqMonotonic DEF IsSequence
<1> HIDE DEF S
<1>2. Append(s, x) \in Seq(S) /\ Len(s) \in Nat
  BY <1>1, AppendProperties, LenProperties
<1>3. IsSequence(Append(s, x))
  BY <1>2, MemberIsSequence
<1> QED
  BY <1>1, <1>2, <1>3, AppendProperties

(* What Head and Tail return.                                              *)
LEMMA TailFacts ==
  ASSUME NEW s, IsSequence(s), s # <<>>
  PROVE  /\ Len(s) \in Nat \ {0}
         /\ Head(s) = s[1]
         /\ IsSequence(Tail(s))
         /\ Len(Tail(s)) = Len(s) - 1
         /\ \A k \in 1..Len(Tail(s)) : Tail(s)[k] = s[k + 1]
<1> DEFINE S == {s[k] : k \in DOMAIN s}
<1>1. s \in Seq(S)
  BY DEF IsSequence
<1> HIDE DEF S
<1>2. Tail(s) \in Seq(S) /\ Len(s) \in Nat
  BY <1>1, HeadTailProperties, LenProperties
<1>3. IsSequence(Tail(s))
  BY <1>2, MemberIsSequence
<1>4. Len(s) # 0
  BY <1>1, EmptySeq
<1> QED
  BY <1>1, <1>2, <1>3, <1>4, HeadTailProperties

-----------------------------------------------------------------------------
(* Hashes.                                                                 *)

(* Hashes of different kinds are different, and a hash determines what it  *)
(* was computed from.                                                      *)
LEMMA HashNodeInjective ==
  ASSUME NEW a, NEW b, NEW i, NEW l, NEW c, NEW d, NEW j, NEW m,
         hashNode(a, b, i, l) = hashNode(c, d, j, m)
  PROVE  a = c /\ b = d /\ i = j /\ l = m
BY DEF hashNode

LEMMA HashInjective ==
  ASSUME NEW a, NEW i, NEW c, NEW j, Hash(a, i) = Hash(c, j)
  PROVE  a = c /\ i = j
BY DEF Hash

LEMMA HashKinds ==
  ASSUME NEW a, NEW b, NEW c, NEW i, NEW j, NEW k, NEW l, NEW m
  PROVE  /\ hashNode(a, b, i, l) # Hash(c, j)
         /\ hashNode(a, b, i, l) # hashEmpty(k, m)
         /\ Hash(c, j) # hashEmpty(k, m)
         /\ hashNode(a, b, i, l) # Stub
         /\ Hash(c, j) # Stub
         /\ hashEmpty(k, m) # Stub
<1>1. /\ hashNode(a, b, i, l)[1] = "node"
      /\ Hash(c, j)[1] = "leaf"
      /\ hashEmpty(k, m)[1] = "empty"
      /\ Stub[1] = "stub"
  BY DEF hashNode, Hash, hashEmpty, Stub
<1> QED
  BY <1>1

(* The children can be read off a node.                                    *)
LEMMA HashNodeParts ==
  ASSUME NEW a, NEW b, NEW i, NEW l
  PROVE  hashNode(a, b, i, l)[4] = a /\ hashNode(a, b, i, l)[5] = b
BY DEF hashNode

-----------------------------------------------------------------------------
(* Counting.                                                               *)

(* The number of nodes of a level, padded, and of the level above.         *)
LEMMA EvenFacts ==
  ASSUME NEW n \in Nat
  PROVE  /\ Even(n) \in Nat
         /\ n % 2 = 1 => Even(n) = n + 1
         /\ n % 2 # 1 => Even(n) = n
         /\ Even(n) \div 2 \in Nat
         /\ 2 * (Even(n) \div 2) = Even(n)
         /\ n # 0 => Even(n) \div 2 # 0
         /\ n >= 2 => Even(n) \div 2 < n
BY DEF Even

(* The sibling is in the same pair.                                        *)
LEMMA SiblingFacts ==
  ASSUME NEW i \in Nat
  PROVE  /\ sibling(i) \in Nat
         /\ sibling(i) \div 2 = i \div 2
         /\ i % 2 = 1 => i = 2 * (i \div 2) + 1 /\ sibling(i) = 2 * (i \div 2)
         /\ i % 2 # 1 => i = 2 * (i \div 2) /\ sibling(i) = 2 * (i \div 2) + 1
         /\ i \div 2 \in Nat /\ i \div 2 <= i
BY DEF sibling

(* Inside of a level, the parent is inside of the level above, and the     *)
(* sibling is inside of the padded level.                                  *)
LEMMA PairFacts ==
  ASSUME NEW n \in Nat, NEW i \in Nat, i < Even(n)
  PROVE  /\ i \div 2 < Even(n) \div 2
         /\ sibling(i) < Even(n)
BY EvenFacts, SiblingFacts DEF Even, sibling

(* TreeNodeCount goes on with the level above.                             *)
LEMMA CountFromUnfolds ==
  \A n \in Nat : CountFrom[n] = IF n <= 1 THEN 1
                                ELSE Even(n) + CountFrom[Even(n) \div 2]
<1> DEFINE B == {0, 1}
           add == [n \in Nat |-> Even(n)]
           below == [n \in Nat |-> Even(n) \div 2]
           Equation(f) == f = [n \in Nat |-> IF n <= 1 THEN 1
                                             ELSE Even(n) + f[Even(n) \div 2]]
<1>1. CountFrom = CHOOSE f : Equation(f)
  BY DEF CountFrom
<1>2. \E f : Equation(f)
  <2>1. ASSUME NEW n \in Nat \ B PROVE below[n] \in Nat /\ below[n] < n
    <3>1. n >= 2 /\ below[n] = Even(n) \div 2
      OBVIOUS
    <3> QED
      BY <3>1, EvenFacts
  <2> HIDE DEF B, add, below
  <2>2. PICK f : Satisfies(f, B, 1, add, below)
    BY <2>1, RecursionExists
  <2>3. ASSUME NEW n \in Nat
        PROVE  Value(f, n, B, 1, add, below)
                 = IF n <= 1 THEN 1 ELSE Even(n) + f[Even(n) \div 2]
    <3>1. n <= 1 <=> n \in B
      BY DEF B
    <3> QED
      BY <3>1 DEF Value, add, below
  <2>4. Equation(f)
    BY <2>2, <2>3 DEF Satisfies
  <2> QED
    BY <2>4
<1> HIDE DEF Equation
<1>3. Equation(CountFrom)
  BY <1>1, <1>2, Zenon
<1> QED
  BY <1>3 DEF Equation

(* TreeNodeCount is a number.                                              *)
LEMMA CountFromIsNumber == \A n \in Nat : CountFrom[n] \in Nat
<1> DEFINE P == {n \in Nat : CountFrom[n] \in Nat}
<1>1. ASSUME NEW n \in Nat, \A m \in Nat : m < n => m \in P
      PROVE  n \in P
  <2>1. CASE n <= 1
    BY <2>1, CountFromUnfolds
  <2>2. CASE n >= 2
    <3>1. Even(n) \in Nat /\ Even(n) \div 2 \in Nat /\ Even(n) \div 2 < n
      BY <2>2, EvenFacts
    <3>2. CountFrom[Even(n) \div 2] \in Nat
      BY <1>1, <3>1
    <3>3. CountFrom[n] = Even(n) + CountFrom[Even(n) \div 2]
      BY <2>2, CountFromUnfolds
    <3> QED
      BY <3>1, <3>2, <3>3
  <2> QED
    BY <2>1, <2>2
<1> HIDE DEF P
<1>2. \A n \in Nat : n \in P
  BY <1>1, NumbersInduction
<1> QED
  BY <1>2 DEF P

(* Recursive functions of the model, by name: the value at 0, and the      *)
(* value at n, given the one before.                                       *)
Base(name) ==
  IF name = "Pow2" THEN 1
  ELSE [i \in Nat |-> IF i * Pow2[0] >= nLeaves THEN hashEmpty(i, 0)
                      ELSE Hash(stream[i + 1], i)]

Further(name, n, before) ==
  IF name = "Pow2" THEN 2 * before
  ELSE [i \in Nat |-> IF i * Pow2[n] >= nLeaves THEN hashEmpty(i, n)
                      ELSE hashNode(before[2 * i], before[2 * i + 1], i, n)]

ValueAt(name, f, n) ==
  IF n = 0 THEN Base(name) ELSE Further(name, n, f[n - 1])

ValuesUpTo(name, f, n) == \A m \in 0..n : f[m] = ValueAt(name, f, m)

IsFunction(name, f) == f = [n \in Nat |-> ValueAt(name, f, n)]

(* Two functions with the same name agree.                                 *)
LEMMA ValuesUnique ==
  ASSUME NEW name, NEW f, NEW g, NEW k \in Nat, NEW l \in Nat,
         ValuesUpTo(name, f, k), ValuesUpTo(name, g, l)
  PROVE  \A n \in Nat : n <= k /\ n <= l => f[n] = g[n]
<1> DEFINE P == {n \in Nat : n <= k /\ n <= l => f[n] = g[n]}
<1>1. ASSUME NEW n \in Nat, \A m \in Nat : m < n => m \in P, n <= k, n <= l
      PROVE  f[n] = g[n]
  <2>1. n \in 0..k /\ n \in 0..l
    BY <1>1
  <2>2. f[n] = ValueAt(name, f, n) /\ g[n] = ValueAt(name, g, n)
    BY <2>1 DEF ValuesUpTo
  <2>3. CASE n = 0
    BY <2>2, <2>3 DEF ValueAt
  <2>4. CASE n # 0
    <3>1. n - 1 \in Nat /\ n - 1 < n /\ n - 1 <= k /\ n - 1 <= l
      BY <1>1, <2>4
    <3>2. f[n - 1] = g[n - 1]
      BY <1>1, <3>1
    <3> QED
      BY <2>2, <2>4, <3>2 DEF ValueAt
  <2> QED
    BY <2>3, <2>4
<1>2. \A n \in Nat : (\A m \in Nat : m < n => m \in P) => n \in P
  BY <1>1
<1> HIDE DEF P
<1>3. \A n \in Nat : n \in P
  BY <1>2, NumbersInduction
<1> QED
  BY <1>3 DEF P

(* For every number there is one that is right up to there.                *)
LEMMA ValuesExist ==
  ASSUME NEW name
  PROVE  \A n \in Nat : \E f : ValuesUpTo(name, f, n)
<1> DEFINE P == {n \in Nat : \E f : ValuesUpTo(name, f, n)}
<1>1. ASSUME NEW n \in Nat, \A m \in Nat : m < n => m \in P
      PROVE  \E f : ValuesUpTo(name, f, n)
  <2>1. \E f : \A m \in 0..(n - 1) : f[m] = ValueAt(name, f, m)
    <3>1. CASE n = 0
      BY <3>1
    <3>2. CASE n # 0
      <4>1. n - 1 \in Nat /\ n - 1 < n
        BY <3>2
      <4>2. n - 1 \in P
        BY <1>1, <4>1
      <4> QED
        BY <4>2 DEF ValuesUpTo
    <3> QED
      BY <3>1, <3>2
  <2>2. PICK g : \A m \in 0..(n - 1) : g[m] = ValueAt(name, g, m)
    BY <2>1
  <2> DEFINE f == [m \in 0..n |-> IF m = n THEN ValueAt(name, g, n) ELSE g[m]]
  <2>3. ASSUME NEW m \in 0..n PROVE f[m] = ValueAt(name, f, m)
    <3>1. m \in Nat /\ n \in 0..n
      OBVIOUS
    <3>2. f[m] = ValueAt(name, g, m)
      <4>1. CASE m = n
        BY <4>1
      <4>2. CASE m # n
        <5>1. m \in 0..(n - 1)
          BY <4>2
        <5> QED
          BY <2>2, <4>2, <5>1
      <4> QED
        BY <4>1, <4>2
    <3>3. CASE m = 0
      BY <3>2, <3>3 DEF ValueAt
    <3>4. CASE m # 0
      <4>1. m - 1 \in 0..n /\ m - 1 # n
        BY <3>1, <3>4
      <4>2. f[m - 1] = g[m - 1]
        BY <4>1
      <4> HIDE DEF f
      <4> QED
        BY <3>2, <3>4, <4>2 DEF ValueAt
    <3> QED
      BY <3>3, <3>4
  <2> HIDE DEF f
  <2>4. ValuesUpTo(name, f, n)
    BY <2>3 DEF ValuesUpTo
  <2> QED
    BY <2>4
<1>2. \A n \in Nat : (\A m \in Nat : m < n => m \in P) => n \in P
  BY <1>1
<1> HIDE DEF P
<1>3. \A n \in Nat : n \in P
  BY <1>2, NumbersInduction
<1> QED
  BY <1>3 DEF P

(* The function exists.                                                    *)
LEMMA FunctionExists ==
  ASSUME NEW name
  PROVE  \E f : IsFunction(name, f)
<1> DEFINE upTo(n) == CHOOSE g : ValuesUpTo(name, g, n)
           f == [n \in Nat |-> upTo(n)[n]]
<1>1. ASSUME NEW n \in Nat PROVE ValuesUpTo(name, upTo(n), n)
  <2>1. \E g : ValuesUpTo(name, g, n)
    BY ValuesExist, Zenon
  <2> QED
    BY <2>1, Zenon
<1>2. ASSUME NEW n \in Nat PROVE f[n] = ValueAt(name, f, n)
  <2> HIDE DEF upTo
  <2>1. f[n] = upTo(n)[n] /\ n \in 0..n
    OBVIOUS
  <2>2. upTo(n)[n] = ValueAt(name, upTo(n), n)
    BY <1>1, <2>1 DEF ValuesUpTo
  <2>3. CASE n = 0
    BY <2>1, <2>2, <2>3 DEF ValueAt
  <2>4. CASE n # 0
    <3>1. PICK m \in Nat : m = n - 1 /\ m <= n /\ m <= m
      BY <2>4
    <3>2. ValuesUpTo(name, upTo(n), n) /\ ValuesUpTo(name, upTo(m), m)
      BY <1>1, <3>1
    <3>3. upTo(n)[m] = upTo(m)[m]
      BY <3>1, <3>2, ValuesUnique
    <3>4. f[m] = upTo(m)[m]
      BY <3>1
    <3> HIDE DEF f
    <3> QED
      BY <2>1, <2>2, <2>4, <3>1, <3>3, <3>4 DEF ValueAt
  <2> QED
    BY <2>3, <2>4
<1> HIDE DEF upTo
<1>3. f = [n \in Nat |-> f[n]]
  OBVIOUS
<1> HIDE DEF f
<1>4. f = [n \in Nat |-> ValueAt(name, f, n)]
  BY <1>2, <1>3
<1> QED
  BY <1>4 DEF IsFunction

(* The powers of two.                                                      *)
LEMMA Pow2Facts ==
  /\ Pow2[0] = 1
  /\ \A l \in Nat : Pow2[l] \in Nat \ {0} /\ Pow2[l + 1] = 2 * Pow2[l]
<1> DEFINE Equation(f) == f = [n \in Nat |-> IF n = 0 THEN 1 ELSE 2 * f[n - 1]]
<1>1. Pow2 = CHOOSE f : Equation(f)
  BY DEF Pow2
<1>2. PICK f : IsFunction("Pow2", f)
  BY FunctionExists
<1>3. Equation(f)
  BY <1>2 DEF IsFunction, ValueAt, Base, Further
<1> HIDE DEF Equation
<1>4. Equation(Pow2)
  BY <1>1, <1>3, Zenon
<1>5. \A n \in Nat : Pow2[n] = IF n = 0 THEN 1 ELSE 2 * Pow2[n - 1]
  BY <1>4 DEF Equation
<1> DEFINE P == {n \in Nat : Pow2[n] \in Nat \ {0}}
<1>6. ASSUME NEW n \in Nat, \A m \in Nat : m < n => m \in P PROVE n \in P
  <2>1. CASE n = 0
    BY <1>5, <2>1
  <2>2. CASE n # 0
    <3>1. n - 1 \in P
      BY <1>6, <2>2
    <3>2. Pow2[n] = 2 * Pow2[n - 1]
      BY <1>5, <2>2
    <3> QED
      BY <3>1, <3>2
  <2> QED
    BY <2>1, <2>2
<1> HIDE DEF P
<1>7. \A n \in Nat : n \in P
  BY <1>6, NumbersInduction
<1>8. ASSUME NEW l \in Nat PROVE Pow2[l + 1] = 2 * Pow2[l]
  <2>1. l + 1 \in Nat /\ l + 1 # 0 /\ (l + 1) - 1 = l
    OBVIOUS
  <2> QED
    BY <1>5, <2>1
<1> QED
  BY <1>5, <1>7, <1>8 DEF P

(* A higher power of two is not smaller.                                   *)
LEMMA Pow2Monotonic ==
  ASSUME NEW l \in Nat, NEW m \in Nat, Pow2[l] < Pow2[m]
  PROVE  l < m
<1> DEFINE P == {d \in Nat : Pow2[m + d] >= Pow2[m]}
<1>1. ASSUME NEW d \in Nat, \A e \in Nat : e < d => e \in P PROVE d \in P
  <2>1. CASE d = 0
    BY <2>1, Pow2Facts
  <2>2. CASE d # 0
    <3>1. PICK e \in Nat : d = e + 1 /\ m + d = (m + e) + 1 /\ m + e \in Nat /\ e < d
      BY <2>2
    <3>2. Pow2[m + d] = 2 * Pow2[m + e] /\ Pow2[m + e] \in Nat /\ Pow2[m] \in Nat
      BY <3>1, Pow2Facts
    <3>3. Pow2[m + e] >= Pow2[m]
      BY <1>1, <3>1
    <3> QED
      BY <3>2, <3>3
  <2> QED
    BY <2>1, <2>2
<1> HIDE DEF P
<1>2. \A d \in Nat : d \in P
  BY <1>1, NumbersInduction
<1>3. ASSUME m <= l PROVE FALSE
  <2>1. PICK d \in Nat : l = m + d
    BY <1>3
  <2>2. Pow2[l] >= Pow2[m] /\ Pow2[l] \in Nat /\ Pow2[m] \in Nat
    BY <1>2, <2>1, Pow2Facts DEF P
  <2> QED
    BY <2>2
<1> QED
  BY <1>3

(* The uint8 of a level goes up by one, or starts again.                   *)
LEMMA NextLevelFacts ==
  ASSUME NEW l \in Nat, l < U8
  PROVE  /\ NextLevel(l) \in Nat /\ NextLevel(l) < U8
         /\ NextLevel(l) = l + 1 \/ NextLevel(l) = 0
         /\ l + 1 < U8 => NextLevel(l) = l + 1
<1>1. U8 \in Nat \ {0}
  BY MerkleAssumption
<1>2. CASE l + 1 < U8
  BY <1>1, <1>2 DEF NextLevel
<1>3. CASE ~(l + 1 < U8)
  <2>1. l + 1 = U8
    BY <1>1, <1>3
  <2>2. U8 % U8 = 0
    BY <1>1
  <2> QED
    BY <1>1, <1>3, <2>1, <2>2 DEF NextLevel
<1> QED
  BY <1>2, <1>3

(* Multiplication is monotonic.                                            *)
LEMMA ProductMonotonic ==
  ASSUME NEW x \in Int, NEW y \in Int, NEW p \in Nat, x <= y
  PROVE  x * p <= y * p
<1>1. (y - x) * p >= 0
  OBVIOUS
<1>2. (y - x) * p = y * p - x * p
  OBVIOUS
<1> QED
  BY <1>1, <1>2

(* The level above, in groups that are twice as large.                     *)
LEMMA HalvedGroups ==
  ASSUME NEW n \in Nat, NEW p \in Nat \ {0}, NEW w \in Nat \ {0},
         n <= w * p, (w - 1) * p < n
  PROVE  LET v == Even(w) \div 2
         IN n <= v * (2 * p) /\ (v - 1) * (2 * p) < n
<1> DEFINE v == Even(w) \div 2
<1>1. v \in Nat /\ (w = 2 * v \/ w = 2 * v - 1)
  BY EvenFacts DEF Even
<1> HIDE DEF v
<1>2. w <= 2 * v /\ 2 * (v - 1) <= w - 1
  BY <1>1
<1>3. w * p <= (2 * v) * p /\ (2 * (v - 1)) * p <= (w - 1) * p
  BY <1>1, <1>2, ProductMonotonic
<1>4. (2 * v) * p = v * (2 * p) /\ (2 * (v - 1)) * p = (v - 1) * (2 * p)
  BY <1>1
<1>5. w * p \in Int /\ (w - 1) * p \in Int /\ v * (2 * p) \in Int /\ (v - 1) * (2 * p) \in Int
  BY <1>1
<1> QED
  BY <1>3, <1>4, <1>5 DEF v

-----------------------------------------------------------------------------
(* The tree.                                                               *)

(* What the levels of a tree are like.                                     *)
LEMMA LevelFacts ==
  ASSUME LevelsRight, HasTree
  PROVE  /\ top \in Nat /\ Len(levels) = top + 1
         /\ \A l \in 0..top : start(l) \in Nat /\ count(l) \in Nat \ {0}
         /\ \A l \in 0..top : start(l) <= start(top)
<1>1. levels \in Seq([offset : Nat, nNodes : Nat \ {0}]) /\ levels # <<>>
  BY DEF LevelsRight
<1>2. Len(levels) \in Nat /\ Len(levels) # 0
  BY <1>1, EmptySeq, LenProperties
<1>3. top \in Nat /\ Len(levels) = top + 1
  BY <1>2 DEF top
<1>4. ASSUME NEW l \in 0..top
      PROVE  start(l) \in Nat /\ count(l) \in Nat \ {0}
  <2>1. l + 1 \in 1..Len(levels)
    BY <1>3
  <2>2. levels[l + 1] \in [offset : Nat, nNodes : Nat \ {0}]
    BY <1>1, <2>1, ElementOfSeq
  <2> QED
    BY <2>2 DEF start, count
<1>5. ASSUME NEW l \in 0..top PROVE start(l) <= start(top)
  <2>1. CASE l = top
    BY <1>4, <2>1
  <2>2. CASE l # top
    <3>1. l \in 0..top - 1
      BY <1>3, <2>2
    <3>2. start(l + 1) = start(l) + Even(count(l)) /\ start(l + 1) <= start(top)
      BY <3>1 DEF LevelsRight
    <3>3. start(l) \in Nat /\ count(l) \in Nat /\ start(top) \in Nat
      BY <1>3, <1>4
    <3>4. Even(count(l)) \in Nat
      BY <3>3, EvenFacts
    <3> QED
      BY <3>2, <3>3, <3>4
  <2> QED
    BY <2>1, <2>2
<1> QED
  BY <1>3, <1>4, <1>5

(* The nodes that hashLeaves writes.                                       *)
LEMMA LeavesEffect ==
  ASSUME IndInv, hashLeaves
  PROVE  /\ nLeaves \in Nat \ {0}
         /\ IsSequence(buf') /\ Len(buf') = nLeaves
         /\ \A i \in 0..nLeaves - 1 : buf'[i + 1] = Hash(stream[i + 1], i)
         /\ levels' = <<[offset |-> 0, nNodes |-> nLeaves]>>
<1>1. nLeaves \in Nat \ {0}
  BY LenProperties DEF IndInv, TypeOK, hashLeaves, nLeaves
<1>2. buf' = [k \in 1..nLeaves |-> Hash(stream[k], k - 1)]
  BY DEF hashLeaves
<1>3. IsSequence(buf') /\ Len(buf') = nLeaves
  BY <1>1, <1>2, FunctionIsSequence
<1>4. ASSUME NEW i \in 0..nLeaves - 1 PROVE buf'[i + 1] = Hash(stream[i + 1], i)
  <2>1. i + 1 \in 1..nLeaves /\ (i + 1) - 1 = i
    BY <1>1
  <2> QED
    BY <1>2, <2>1
<1> QED
  BY <1>1, <1>3, <1>4 DEF hashLeaves

(* The level above is not 0 again: there are enough numbers for all.       *)
LEMMA LevelAbove ==
  ASSUME IndInv, HashLevel
  PROVE  NextLevel(level) = level + 1 /\ level + 1 < U8
<1>1. HasTree /\ level = top /\ nNodes = count(top) /\ nNodes # 1
  BY DEF HashLevel, IndInv, BuildPosition, HasTree
<1>2. top \in Nat /\ count(top) \in Nat \ {0}
  BY <1>1, LevelFacts DEF IndInv
<1>3. (count(top) - 1) * Pow2[top] < nLeaves
  BY <1>1 DEF IndInv, LevelsFit
<1>4. U8 \in Nat \ {0} /\ U8 - 1 \in Nat /\ nLeaves \in Nat /\ nLeaves <= Pow2[U8 - 1]
  <2>1. stream \in Streams /\ stream \in Seq(Assertions)
    BY DEF IndInv, TypeOK
  <2> QED
    BY <2>1, MerkleAssumption, LenProperties DEF nLeaves
<1>5. Pow2[top] \in Nat /\ Pow2[U8 - 1] \in Nat
  BY <1>2, <1>4, Pow2Facts
<1>6. 1 * Pow2[top] <= (count(top) - 1) * Pow2[top]
  <2>1. count(top) - 1 \in Int /\ 1 <= count(top) - 1
    BY <1>1, <1>2
  <2> QED
    BY <1>5, <2>1, ProductMonotonic
<1>7. Pow2[top] < Pow2[U8 - 1]
  <2>1. (count(top) - 1) * Pow2[top] \in Int
    BY <1>2, <1>5
  <2> QED
    BY <1>3, <1>4, <1>5, <1>6, <2>1
<1>8. top < U8 - 1
  BY <1>2, <1>4, <1>7, Pow2Monotonic
<1>9. level \in Nat /\ level < U8 /\ level + 1 < U8
  BY <1>1, <1>2, <1>4, <1>8
<1> QED
  BY <1>9, NextLevelFacts

(* The nodes that a turn of the loop of ComputeTree adds.                  *)
LEMMA LevelEffect ==
  ASSUME IndInv, HashLevel
  PROVE  LET E == Even(nNodes)
         IN /\ nNodes \in Nat /\ nNodes >= 2 /\ offset \in Nat /\ level \in Nat
            /\ E \in Nat /\ E >= nNodes /\ E \div 2 \in Nat \ {0}
            /\ 2 * (E \div 2) = E
            /\ Len(buf) = offset + nNodes
            /\ IsSequence(buf') /\ Len(buf') = offset + E + (E \div 2)
            /\ \A k \in 1..Len(buf) : buf'[k] = buf[k]
            /\ nNodes % 2 = 1 =>
                 buf'[offset + nNodes + 1] = hashEmpty(nNodes, level)
            /\ \A i \in 0..(E \div 2) - 1 :
                 buf'[offset + E + i + 1]
                   = hashNode(buf'[offset + 2 * i + 1], buf'[offset + 2 * i + 2],
                              i, level + 1)
<1> DEFINE E == Even(nNodes)
<1>1. phase = "level" /\ nNodes # 1 /\ HasTree
  BY DEF HashLevel, IndInv, BuildPosition, HasTree
<1>2. /\ nNodes = count(top) /\ Len(buf) = offset + nNodes
      /\ offset \in Nat /\ level \in Nat /\ IsSequence(buf)
  BY <1>1 DEF IndInv, BuildPosition, TypeOK
<1>3. nNodes \in Nat /\ nNodes >= 2
  <2>1. top \in Nat /\ count(top) \in Nat \ {0}
    BY <1>1, LevelFacts DEF IndInv
  <2> QED
    BY <1>1, <1>2, <2>1
<1>4. /\ E \in Nat /\ E >= nNodes /\ E \div 2 \in Nat \ {0} /\ 2 * (E \div 2) = E
      /\ nNodes % 2 = 1 => E = nNodes + 1
      /\ nNodes % 2 # 1 => E = nNodes
  BY <1>3, EvenFacts
<1>5. /\ IsSequence(Padded) /\ Len(Padded) = offset + E
      /\ \A k \in 1..Len(buf) : Padded[k] = buf[k]
      /\ nNodes % 2 = 1 => Padded[offset + nNodes + 1] = hashEmpty(nNodes, level)
  <2>1. CASE nNodes % 2 = 1
    <3>1. Padded = Append(buf, hashEmpty(nNodes, level))
      BY <1>3, <1>4, <2>1 DEF Padded
    <3>2. /\ IsSequence(Padded) /\ Len(Padded) = Len(buf) + 1
          /\ \A k \in 1..Len(buf) : Padded[k] = buf[k]
          /\ Padded[Len(buf) + 1] = hashEmpty(nNodes, level)
      BY <1>2, <3>1, AppendFacts
    <3>3. Len(buf) + 1 = offset + E /\ Len(buf) + 1 = offset + nNodes + 1
      BY <1>2, <1>3, <1>4, <2>1
    <3> QED
      BY <3>2, <3>3
  <2>2. CASE nNodes % 2 # 1
    <3>1. Padded = buf
      BY <1>4, <2>2 DEF Padded
    <3> QED
      BY <1>2, <1>4, <2>2, <3>1
  <2> QED
    BY <2>1, <2>2
<1> DEFINE new == Parents(Padded)
           m == E \div 2
<1>6. new = [k \in 1..m |-> hashNode(Padded[offset + 2 * k - 1],
                                     Padded[offset + 2 * k], k - 1, level + 1)]
  BY LevelAbove DEF Parents
<1>7. IsSequence(new) /\ Len(new) = m
  <2> HIDE DEF new, m
  <2>1. m \in Nat
    BY <1>4 DEF m
  <2> QED
    BY <1>6, <2>1, FunctionIsSequence
<1>8. buf' = Padded \o new
  BY DEF HashLevel
<1> HIDE DEF new
<1>9. /\ IsSequence(buf') /\ Len(buf') = offset + E + m
      /\ \A k \in 1..(offset + E) : buf'[k] = Padded[k]
      /\ \A k \in 1..m : buf'[offset + E + k] = new[k]
  <2> HIDE DEF E, m
  <2>1. /\ IsSequence(buf') /\ Len(buf') = Len(Padded) + Len(new)
        /\ \A k \in 1..Len(Padded) : buf'[k] = Padded[k]
        /\ \A k \in 1..Len(new) : buf'[Len(Padded) + k] = new[k]
    <3> DEFINE s == Padded
    <3>1. IsSequence(s) /\ IsSequence(new)
      BY <1>5, <1>7
    <3> HIDE DEF s
    <3>2. /\ IsSequence(s \o new) /\ Len(s \o new) = Len(s) + Len(new)
          /\ \A k \in 1..Len(s) : (s \o new)[k] = s[k]
          /\ \A k \in 1..Len(new) : (s \o new)[Len(s) + k] = new[k]
      BY <3>1, ConcatFacts
    <3> QED
      BY <1>8, <3>2 DEF s
  <2> QED
    BY <1>5, <1>7, <2>1
<1> HIDE DEF E, m
<1>10. \A k \in 1..Len(buf) : buf'[k] = buf[k]
  BY <1>2, <1>3, <1>4, <1>5, <1>9
<1>11. ASSUME nNodes % 2 = 1
       PROVE  buf'[offset + nNodes + 1] = hashEmpty(nNodes, level)
  <2>1. E = nNodes + 1
    BY <1>4, <1>11
  <2>2. offset + nNodes + 1 \in 1..(offset + E)
    BY <1>2, <1>3, <2>1
  <2> QED
    BY <1>5, <1>9, <1>11, <2>2
<1>12. ASSUME NEW i \in 0..m - 1
       PROVE  buf'[offset + E + i + 1]
                = hashNode(buf'[offset + 2 * i + 1], buf'[offset + 2 * i + 2],
                           i, level + 1)
  <2>1. m \in Nat \ {0} /\ E \in Nat /\ 2 * m = E
    BY <1>4 DEF m
  <2>2. i + 1 \in 1..m /\ (i + 1) - 1 = i
    BY <2>1
  <2>3. /\ offset + 2 * (i + 1) - 1 = offset + 2 * i + 1
        /\ offset + 2 * (i + 1) = offset + 2 * i + 2
        /\ offset + 2 * i + 1 \in 1..(offset + E)
        /\ offset + 2 * i + 2 \in 1..(offset + E)
        /\ offset + E + (i + 1) = offset + E + i + 1
    BY <1>2, <2>1, <2>2
  <2>4. new[i + 1] = hashNode(Padded[offset + 2 * i + 1],
                              Padded[offset + 2 * i + 2], i, level + 1)
    BY <1>6, <2>2, <2>3
  <2>5. buf'[offset + E + i + 1] = new[i + 1]
    BY <1>9, <2>2, <2>3
  <2>6. /\ buf'[offset + 2 * i + 1] = Padded[offset + 2 * i + 1]
        /\ buf'[offset + 2 * i + 2] = Padded[offset + 2 * i + 2]
    BY <1>9, <2>3
  <2> QED
    BY <2>4, <2>5, <2>6
<1> QED
  BY <1>2, <1>3, <1>4, <1>9, <1>10, <1>11, <1>12 DEF E, m

(* The part of the invariant that is about ComputeTree.                    *)
TreeRight == LevelsRight /\ LevelsFit /\ NodesRight /\ BuildPosition /\ NodeCountRight

(* EmptyTree writes the tree of a batch without assertions.                *)
LEMMA TreeEmpty ==
  ASSUME IndInv, EmptyTree
  PROVE  TreeRight'
<1>1. /\ stream' = stream /\ nLeaves = 0 /\ phase' = "built"
      /\ buf' = <<hashEmpty(0, 0)>>
  BY DEF EmptyTree
<1>2. nLeaves' = 0
  BY <1>1 DEF nLeaves
<1>3. Len(buf') = 1 /\ CountFrom[0] = 1
  BY <1>1, CountFromUnfolds
<1> QED
  BY <1>1, <1>2, <1>3
     DEF TreeRight, LevelsRight, LevelsFit, NodesRight, BuildPosition,
         NodeCountRight, HasTree, TreeBuilt, TreeNodeCount

(* hashLeaves writes the lowest level.                                     *)
LEMMA TreeLeaves ==
  ASSUME IndInv, hashLeaves
  PROVE  TreeRight'
<1>1. /\ nLeaves \in Nat \ {0}
      /\ IsSequence(buf') /\ Len(buf') = nLeaves
      /\ \A i \in 0..nLeaves - 1 : buf'[i + 1] = Hash(stream[i + 1], i)
      /\ levels' = <<[offset |-> 0, nNodes |-> nLeaves]>>
  BY LeavesEffect
<1>2. /\ stream' = stream /\ nLeaves' = nLeaves /\ phase' = "level"
      /\ nNodes' = nLeaves /\ level' = level /\ offset' = offset
  BY DEF hashLeaves, nLeaves
<1>3. level = 0 /\ offset = 0
  BY DEF hashLeaves, IndInv, StartPosition
<1>4. top' = 0 /\ start(0)' = 0 /\ count(0)' = nLeaves
  BY <1>1 DEF top, start, count
<1>5. levels' \in Seq([offset : Nat, nNodes : Nat \ {0}]) /\ levels' # <<>>
  BY <1>1
<1>6. LevelsRight'
  BY <1>1, <1>2, <1>4, <1>5 DEF LevelsRight
<1>7. NodesRight'
  <2>1. ASSUME NEW i \in 0..nLeaves - 1 PROVE Node(0, i)' = Hash(stream[i + 1], i)
    <3>1. Node(0, i)' = buf'[0 + i + 1]
      BY <1>4 DEF Node
    <3>2. 0 + i + 1 = i + 1
      BY <1>1
    <3> QED
      BY <1>1, <3>1, <3>2
  <2> QED
    BY <1>2, <1>4, <2>1 DEF NodesRight
<1>8. BuildPosition'
  BY <1>1, <1>2, <1>3, <1>4, CountFromIsNumber DEF BuildPosition, TreeBuilt
<1>9. NodeCountRight'
  BY <1>2 DEF NodeCountRight, TreeBuilt
<1>10. LevelsFit'
  <2>1. Pow2[0] = 1 /\ U8 \in Nat \ {0}
    BY Pow2Facts, MerkleAssumption
  <2>2. 0 < U8 /\ nLeaves <= nLeaves * 1 /\ (nLeaves - 1) * 1 < nLeaves
    BY <1>1, <2>1
  <2>3. count(top)' = nLeaves
    BY <1>4 DEF count
  <2> QED
    BY <1>2, <1>4, <2>1, <2>2, <2>3 DEF LevelsFit
<1> QED
  BY <1>6, <1>7, <1>8, <1>9, <1>10 DEF TreeRight

(* A turn of the loop adds a level and keeps the ones below it.            *)
LEMMA LevelsKept ==
  ASSUME IndInv, HashLevel, NEW T, T = top
  PROVE  /\ HasTree /\ level = top /\ offset = start(top) /\ nNodes = count(top)
         /\ top \in Nat /\ top' = top + 1
         /\ levels' \in Seq([offset : Nat, nNodes : Nat \ {0}]) /\ levels' # <<>>
         /\ \A l \in 0..top : start(l)' = start(l) /\ count(l)' = count(l)
         /\ start(T + 1)' = offset + Even(nNodes)
         /\ count(T + 1)' = Even(nNodes) \div 2
<1> DEFINE E == Even(nNodes)
           R == [offset : Nat, nNodes : Nat \ {0}]
           r == [offset |-> offset + E, nNodes |-> E \div 2]
<1>1. /\ phase = "level" /\ HasTree /\ levels' = Append(levels, r)
      /\ level = top /\ offset = start(top) /\ nNodes = count(top)
  BY DEF HashLevel, IndInv, BuildPosition, HasTree
<1>2. offset + E \in Nat /\ E \div 2 \in Nat \ {0}
  <2>1. offset \in Nat /\ E \in Nat /\ E \div 2 \in Nat \ {0}
    BY LevelEffect, Zenon
  <2> HIDE DEF E
  <2> QED
    BY <2>1
<1> HIDE DEF E
<1>3. r \in R
  BY <1>2
<1>4. levels \in Seq(R) /\ top \in Nat /\ Len(levels) = top + 1
  BY <1>1, LevelFacts DEF IndInv, LevelsRight
<1> HIDE DEF R, r
<1>5. /\ levels' \in Seq(R) /\ Len(levels') = top + 2 /\ levels' # <<>>
      /\ \A k \in 1..top + 1 : levels'[k] = levels[k]
      /\ levels'[top + 2] = r
  BY <1>1, <1>3, <1>4, AppendProperties
<1>6. top' = top + 1
  BY <1>4, <1>5 DEF top
<1>7. \A l \in 0..top : start(l)' = start(l) /\ count(l)' = count(l)
  <2>1. \A l \in 0..top : l + 1 \in 1..top + 1
    BY <1>4
  <2> QED
    BY <1>5, <2>1 DEF start, count
<1>8. start(T + 1)' = offset + E /\ count(T + 1)' = E \div 2
  <2>1. levels'[(T + 1) + 1] = r
    BY <1>4, <1>5
  <2> QED
    BY <2>1 DEF start, count, r
<1> QED
  BY <1>1, <1>4, <1>5, <1>6, <1>7, <1>8 DEF R, E

LEMMA TreeLevel ==
  ASSUME IndInv, HashLevel
  PROVE  TreeRight'
<1> PICK T : T = top
  OBVIOUS
<1> DEFINE E == Even(nNodes)
           m == E \div 2
<1>1. /\ HasTree /\ level = T /\ offset = start(T) /\ nNodes = count(T)
      /\ T \in Nat /\ top' = T + 1
      /\ levels' \in Seq([offset : Nat, nNodes : Nat \ {0}]) /\ levels' # <<>>
      /\ \A l \in 0..T : start(l)' = start(l) /\ count(l)' = count(l)
      /\ start(T + 1)' = offset + E /\ count(T + 1)' = m
  BY LevelsKept
<1>2. /\ nNodes \in Nat /\ nNodes >= 2 /\ offset \in Nat /\ level \in Nat
      /\ E \in Nat /\ E >= nNodes /\ m \in Nat \ {0} /\ 2 * m = E
      /\ Len(buf) = offset + nNodes
      /\ Len(buf') = offset + E + m
      /\ \A k \in 1..Len(buf) : buf'[k] = buf[k]
      /\ nNodes % 2 = 1 => buf'[offset + nNodes + 1] = hashEmpty(nNodes, level)
      /\ \A i \in 0..m - 1 :
           buf'[offset + E + i + 1]
             = hashNode(buf'[offset + 2 * i + 1], buf'[offset + 2 * i + 2], i, level + 1)
  BY LevelEffect
<1>3. /\ stream' = stream /\ nLeaves' = nLeaves /\ phase = "level" /\ phase' = "level"
      /\ nNodes' = m /\ offset' = offset + E /\ level' = level + 1
  BY LevelAbove DEF HashLevel, nLeaves
<1>4. nLeaves # 0 /\ offset + CountFrom[nNodes] = CountFrom[nLeaves]
  BY <1>3 DEF IndInv, BuildPosition
<1>5. /\ \A l \in 0..T : start(l) \in Nat /\ count(l) \in Nat \ {0}
      /\ \A l \in 0..T : start(l) <= start(T)
  BY <1>1, LevelFacts DEF IndInv
<1>6. /\ start(0) = 0 /\ count(0) = nLeaves
      /\ \A l \in 0..T - 1 : /\ count(l) # 1
                               /\ start(l + 1) = start(l) + Even(count(l))
                               /\ count(l + 1) = Even(count(l)) \div 2
  BY <1>1 DEF IndInv, LevelsRight
<1>7. CountFrom[nNodes] = E + CountFrom[m] /\ CountFrom[m] \in Nat
  <2>1. nNodes \in Nat /\ ~(nNodes <= 1) /\ m \in Nat
    BY <1>2
  <2> QED
    BY <2>1, CountFromUnfolds, CountFromIsNumber
<1> HIDE DEF E, m
<1>8. LevelsRight'
  <2>1. ASSUME NEW l \in 0..T
        PROVE  /\ count(l)' # 1
               /\ start(l + 1)' = start(l)' + Even(count(l)')
               /\ count(l + 1)' = Even(count(l)') \div 2
               /\ start(l + 1)' <= start(T + 1)'
    <3>1. start(l)' = start(l) /\ count(l)' = count(l)
      BY <1>1
    <3>2. CASE l = T
      <4>1. count(l)' = nNodes /\ start(l)' = offset
        BY <1>1, <3>1, <3>2
      <4>2. start(l + 1)' = offset + E /\ count(l + 1)' = m
        BY <1>1, <3>2
      <4>3. offset + E <= offset + E /\ nNodes # 1
        BY <1>2
      <4> QED
        BY <1>1, <4>1, <4>2, <4>3 DEF E, m
    <3>3. CASE l # T
      <4>1. l \in 0..T - 1 /\ l + 1 \in 0..T
        BY <1>1, <3>3
      <4>2. start(l + 1)' = start(l + 1) /\ count(l + 1)' = count(l + 1)
        BY <1>1, <4>1
      <4>3. start(l + 1) <= start(T) /\ start(l + 1) \in Nat /\ start(T) \in Nat
        BY <1>1, <1>5, <4>1
      <4>4. /\ count(l) # 1 /\ start(l + 1) = start(l) + Even(count(l))
            /\ count(l + 1) = Even(count(l)) \div 2
        BY <1>6, <4>1
      <4>5. start(T + 1)' = start(T) + E /\ E \in Nat
        BY <1>1, <1>2
      <4>6. start(l + 1) <= start(T) + E
        BY <4>3, <4>5
      <4> QED
        BY <3>1, <4>2, <4>4, <4>5, <4>6
    <3> QED
      BY <3>2, <3>3
  <2>2. start(0)' = 0 /\ count(0)' = nLeaves
    BY <1>1, <1>6
  <2>3. (T + 1) - 1 = T
    BY <1>1
  <2> QED
    BY <1>1, <1>3, <2>1, <2>2, <2>3 DEF LevelsRight, Even
<1>9. ASSUME NEW l \in 0..T, NEW i \in Nat, start(l) + i < Len(buf)
      PROVE  Node(l, i)' = Node(l, i)
  <2>1. start(l)' = start(l) /\ start(l) \in Nat
    BY <1>1, <1>5
  <2>2. start(l) + i + 1 \in 1..Len(buf)
    BY <1>2, <1>9, <2>1
  <2> QED
    BY <1>2, <2>1, <2>2 DEF Node
<1>10. ASSUME NEW l \in 0..T - 1, NEW i \in Nat, i < Even(count(l))
       PROVE  start(l) + i < Len(buf)
  <2>1. l \in 0..T /\ l + 1 \in 0..T
    BY <1>1
  <2>2. start(l + 1) = start(l) + Even(count(l)) /\ start(l + 1) <= start(T)
    BY <1>5, <1>6, <2>1
  <2>3. start(l) \in Nat /\ count(l) \in Nat
    BY <1>5, <2>1
  <2>4. Even(count(l)) \in Nat
    BY <2>3, EvenFacts
  <2>5. start(T) \in Nat /\ start(T) <= Len(buf)
    <3>1. offset <= Len(buf) /\ offset \in Nat
      BY <1>2
    <3> QED
      BY <1>1, <3>1
  <2>6. Len(buf) \in Nat
    BY <1>2
  <2> QED
    BY <1>10, <2>2, <2>3, <2>4, <2>5, <2>6
<1>11. NodesRight'
  <2>1. ASSUME NEW i \in 0..nLeaves - 1 PROVE Node(0, i)' = Hash(stream[i + 1], i)
    <3>1. Node(0, i) = Hash(stream[i + 1], i)
      BY <1>1 DEF IndInv, NodesRight
    <3>2. start(0) + i < Len(buf) /\ i \in Nat
      <4>1. nLeaves \in Nat /\ i \in Nat /\ i < nLeaves
        BY <1>1, <1>5, <1>6
      <4>2. CASE T = 0
        BY <1>1, <1>2, <1>6, <4>1, <4>2
      <4>3. CASE T # 0
        <5>1. 0 \in 0..T - 1
          BY <1>1, <4>3
        <5>2. i < Even(count(0))
          BY <1>6, <4>1 DEF Even
        <5> QED
          BY <1>10, <4>1, <5>1, <5>2
      <4> QED
        BY <4>1, <4>2, <4>3
    <3> QED
      BY <1>1, <1>9, <3>1, <3>2
  <2>2. ASSUME NEW l \in 0..T
        PROVE  /\ (count(l) % 2 = 1 => Node(l, count(l)) = hashEmpty(count(l), l))'
               /\ \A i \in 0..count(l + 1)' - 1 :
                    Node(l + 1, i)'
                      = hashNode(Node(l, 2 * i)', Node(l, 2 * i + 1)', i, l + 1)
    <3>1. count(l)' = count(l) /\ count(l) \in Nat
      BY <1>1, <1>5
    <3>2. CASE l = T
      <4>1. start(l)' = offset /\ start(l + 1)' = offset + E /\ count(l + 1)' = m
        BY <1>1, <3>2
      <4>2. \A i \in Nat : Node(l, i)' = buf'[offset + i + 1]
        BY <4>1 DEF Node
      <4>3. \A i \in Nat : Node(l + 1, i)' = buf'[offset + E + i + 1]
        BY <4>1 DEF Node
      <4>4. ASSUME count(l) % 2 = 1 PROVE Node(l, count(l))' = hashEmpty(count(l), l)
        BY <1>1, <1>2, <3>1, <3>2, <4>2, <4>4
      <4>5. ASSUME NEW i \in 0..m - 1
            PROVE  Node(l + 1, i)'
                     = hashNode(Node(l, 2 * i)', Node(l, 2 * i + 1)', i, l + 1)
        <5>1. i \in Nat /\ 2 * i \in Nat /\ 2 * i + 1 \in Nat
          BY <1>2
        <5>2. /\ Node(l + 1, i)' = buf'[offset + E + i + 1]
              /\ Node(l, 2 * i)' = buf'[offset + 2 * i + 1]
              /\ Node(l, 2 * i + 1)' = buf'[offset + (2 * i + 1) + 1]
          BY <4>2, <4>3, <5>1
        <5>3. offset + (2 * i + 1) + 1 = offset + 2 * i + 2
          BY <1>2, <5>1
        <5> QED
          BY <1>1, <1>2, <3>2, <5>2, <5>3
      <4> QED
        BY <3>1, <4>1, <4>4, <4>5 DEF Node
    <3>3. CASE l # T
      <4>1. l \in 0..T - 1 /\ l + 1 \in 0..T
        BY <1>1, <3>3
      <4>2. /\ count(l) % 2 = 1 => Node(l, count(l)) = hashEmpty(count(l), l)
            /\ \A i \in 0..count(l + 1) - 1 :
                 Node(l + 1, i) = hashNode(Node(l, 2 * i), Node(l, 2 * i + 1), i, l + 1)
        BY <1>1, <4>1 DEF IndInv, NodesRight
      <4>3. /\ count(l + 1)' = count(l + 1) /\ count(l + 1) = Even(count(l)) \div 2
            /\ count(l + 1) \in Nat
        BY <1>1, <1>5, <1>6, <4>1
      <4>4. ASSUME count(l) % 2 = 1 PROVE Node(l, count(l))' = Node(l, count(l))
        <5>1. count(l) < Even(count(l))
          BY <3>1, <4>4 DEF Even
        <5> QED
          BY <1>9, <1>10, <3>1, <4>1, <5>1
      <4>5. ASSUME NEW i \in 0..count(l + 1) - 1
            PROVE  /\ Node(l + 1, i)' = Node(l + 1, i)
                   /\ Node(l, 2 * i)' = Node(l, 2 * i)
                   /\ Node(l, 2 * i + 1)' = Node(l, 2 * i + 1)
        <5>1. 2 * count(l + 1) = Even(count(l))
          BY <3>1, <4>3, EvenFacts
        <5>2. /\ i \in Nat /\ 2 * i \in Nat /\ 2 * i + 1 \in Nat /\ i < count(l + 1)
              /\ 2 * i < Even(count(l)) /\ 2 * i + 1 < Even(count(l))
          BY <4>3, <5>1
        <5>3. /\ Node(l, 2 * i)' = Node(l, 2 * i)
              /\ Node(l, 2 * i + 1)' = Node(l, 2 * i + 1)
          BY <1>9, <1>10, <4>1, <5>2
        <5>4. start(l + 1) + i < Len(buf)
          <6>1. CASE l + 1 = T
            <7>1. start(l + 1) = offset /\ count(l + 1) = nNodes
              BY <1>1, <6>1
            <7>2. Len(buf) = offset + nNodes /\ offset \in Nat /\ nNodes \in Nat
              BY <1>2
            <7> QED
              BY <5>2, <7>1, <7>2
          <6>2. CASE l + 1 # T
            <7>1. l + 1 \in 0..T - 1
              BY <1>1, <4>1, <6>2
            <7>2. i < Even(count(l + 1))
              BY <4>3, <5>2 DEF Even
            <7> QED
              BY <1>10, <5>2, <7>1, <7>2
          <6> QED
            BY <6>1, <6>2
        <5> QED
          BY <1>9, <4>1, <5>2, <5>3, <5>4
      <4> QED
        BY <3>1, <4>2, <4>3, <4>4, <4>5 DEF Node
    <3> QED
      BY <3>2, <3>3
  <2>3. (T + 1) - 1 = T
    BY <1>1
  <2> QED
    BY <1>1, <1>3, <2>1, <2>2, <2>3 DEF NodesRight
<1>12. BuildPosition'
  <2>1. offset + E + CountFrom[m] = CountFrom[nLeaves]
    BY <1>2, <1>4, <1>7
  <2> QED
    BY <1>1, <1>2, <1>3, <1>4, <2>1 DEF BuildPosition, TreeBuilt
<1>13. NodeCountRight'
  BY <1>3 DEF NodeCountRight, TreeBuilt
<1>14. LevelsFit'
  <2>1. T + 1 < U8
    BY <1>1, LevelAbove
  <2>2. nLeaves <= count(T) * Pow2[T] /\ (count(T) - 1) * Pow2[T] < nLeaves
    BY <1>1 DEF IndInv, LevelsFit
  <2>3. Pow2[T] \in Nat \ {0} /\ Pow2[T + 1] = 2 * Pow2[T]
    BY <1>1, Pow2Facts
  <2>4. nLeaves \in Nat /\ nNodes \in Nat \ {0}
    BY <1>1, <1>2, <1>5, <1>6
  <2>5. nLeaves <= m * Pow2[T + 1] /\ (m - 1) * Pow2[T + 1] < nLeaves
    BY <1>1, <2>2, <2>3, <2>4, HalvedGroups DEF E, m
  <2>6. count(top)' = m
    BY <1>1 DEF count
  <2> QED
    BY <1>1, <1>3, <2>1, <2>5, <2>6 DEF LevelsFit
<1> QED
  BY <1>8, <1>11, <1>12, <1>13, <1>14 DEF TreeRight

(* The loop ends with as many nodes as TreeNodeCount predicts.             *)
LEMMA TreeDone ==
  ASSUME IndInv, HashDone
  PROVE  TreeRight'
<1>1. /\ phase = "level" /\ nNodes = 1 /\ phase' = "built"
      /\ stream' = stream /\ buf' = buf /\ levels' = levels
  BY DEF HashDone, tree
<1>2. /\ nLeaves # 0 /\ offset = start(top) /\ nNodes = count(top)
      /\ Len(buf) = offset + nNodes
      /\ offset + CountFrom[nNodes] = CountFrom[nLeaves]
  BY <1>1 DEF IndInv, BuildPosition
<1>3. HasTree /\ LevelsRight /\ LevelsFit /\ NodesRight
  BY <1>1, <1>2 DEF IndInv, HasTree
<1>4. /\ nLeaves' = nLeaves /\ top' = top /\ HasTree'
      /\ \A l : start(l)' = start(l) /\ count(l)' = count(l)
      /\ \A l, i : Node(l, i)' = Node(l, i)
  BY <1>1, <1>3 DEF nLeaves, top, start, count, Node, HasTree
<1>5. LevelsRight'
  BY <1>1, <1>3, <1>4 DEF LevelsRight
<1>6. NodesRight'
  BY <1>1, <1>3, <1>4 DEF NodesRight
<1>7. start(top)' = start(top) /\ count(top)' = count(top)
  BY <1>1 DEF start, count, top
<1>8. BuildPosition'
  BY <1>1, <1>2, <1>4, <1>7 DEF BuildPosition, TreeBuilt
<1>9. CountFrom[1] = 1
  BY CountFromUnfolds
<1>10. NodeCountRight'
  BY <1>1, <1>2, <1>4, <1>9 DEF NodeCountRight, TreeNodeCount
<1>11. LevelsFit'
  BY <1>3, <1>4, <1>7 DEF LevelsFit
<1> QED
  BY <1>5, <1>6, <1>8, <1>10, <1>11 DEF TreeRight

(* Once it is there, nothing changes the tree.                             *)
LEMMA TreeStays ==
  ASSUME IndInv, TreeBuilt, TreeBuilt',
         UNCHANGED <<stream, buf, levels>>
  PROVE  /\ TreeRight'
         /\ nLeaves' = nLeaves /\ top' = top
         /\ \A l : start(l)' = start(l) /\ count(l)' = count(l)
         /\ \A l, i : Node(l, i)' = Node(l, i)
<1>1. /\ nLeaves' = nLeaves /\ top' = top /\ (HasTree' <=> HasTree)
      /\ \A l : start(l)' = start(l) /\ count(l)' = count(l)
      /\ \A l, i : Node(l, i)' = Node(l, i)
  BY DEF nLeaves, top, start, count, Node, HasTree, TreeBuilt
<1>2. LevelsRight /\ LevelsFit /\ NodesRight /\ BuildPosition /\ NodeCountRight
  BY DEF IndInv
<1>3. LevelsRight'
  BY <1>1, <1>2 DEF LevelsRight
<1>4. NodesRight'
  BY <1>1, <1>2 DEF NodesRight
<1>5. start(top)' = start(top) /\ count(top)' = count(top)
  BY DEF start, count, top
<1>6. BuildPosition'
  BY <1>1, <1>2, <1>5 DEF BuildPosition, TreeBuilt
<1>7. NodeCountRight'
  BY <1>1, <1>2 DEF NodeCountRight
<1>8. LevelsFit'
  BY <1>1, <1>2, <1>5 DEF LevelsFit
<1> QED
  BY <1>1, <1>3, <1>4, <1>6, <1>7, <1>8 DEF TreeRight

(* ComputeTree keeps the invariant: no path is there yet.                  *)
LEMMA BuildStep ==
  ASSUME IndInv, ComputeTree
  PROVE  IndInv'
<1>1. TreeRight'
  BY TreeEmpty, TreeLeaves, TreeLevel, TreeDone DEF ComputeTree
<1>2. /\ phase \in {"hash", "level"} /\ phase' \in {"level", "built"}
      /\ UNCHANGED <<stream, index, proof, check>>
  BY DEF ComputeTree, EmptyTree, hashLeaves, HashLevel, HashDone, tree, cursor
<1>3. TypeOK'
  <2>1. TypeOK
    BY DEF IndInv
  <2>2. CASE EmptyTree
    <3>1. buf' = <<hashEmpty(0, 0)>>
      BY <2>2 DEF EmptyTree
    <3>2. buf' \in Seq({hashEmpty(0, 0)})
      BY <3>1
    <3>3. IsSequence(buf')
      BY <3>2, MemberIsSequence
    <3> QED
      BY <1>2, <2>1, <2>2, <3>3
         DEF TypeOK, EmptyTree, cursor, proof, check, IsSequence
  <2>3. CASE hashLeaves
    <3>1. IsSequence(buf') /\ nLeaves \in Nat
      BY <2>3, LeavesEffect
    <3> QED
      BY <1>2, <2>1, <2>3, <3>1 DEF TypeOK, hashLeaves, proof, check, IsSequence
  <2>4. CASE HashLevel
    <3>1. /\ IsSequence(buf') /\ offset \in Nat /\ Even(nNodes) \in Nat
          /\ Even(nNodes) \div 2 \in Nat /\ level \in Nat
          /\ NextLevel(level) = level + 1 /\ level + 1 < U8
      BY <2>4, LevelEffect, LevelAbove
    <3>2. offset + Even(nNodes) \in Nat /\ level + 1 \in Nat
      BY <3>1
    <3> QED
      BY <1>2, <2>1, <2>4, <3>1, <3>2 DEF TypeOK, HashLevel, proof, check, IsSequence
  <2>5. CASE HashDone
    BY <1>2, <2>1, <2>5 DEF TypeOK, HashDone, tree, cursor, proof, check, IsSequence
  <2> QED
    BY <2>2, <2>3, <2>4, <2>5 DEF ComputeTree
<1>4. StartPosition'
  BY <1>2 DEF StartPosition
<1>5. PathRight'
  <2>1. IsSequence(path) /\ leaf = -1
    BY <1>2 DEF IndInv, PathRight
  <2>2. IsSequence(path') /\ leaf' = -1
    BY <1>2, <2>1 DEF proof
  <2> QED
    BY <1>2, <2>2 DEF PathRight, IsSequence
<1>6. ReadsLevel' /\ HashTagged' /\ OnTreeIsRight' /\ Complete' /\ Sound'
  BY <1>2 DEF ReadsLevel, HashTagged, OnTreeIsRight, Complete, Sound
<1> QED
  BY <1>1, <1>3, <1>4, <1>5, <1>6 DEF IndInv, TreeRight

-----------------------------------------------------------------------------
(* AuthenticationPath.                                                     *)

(* What the tree is like when paths are read from it.                      *)
LEMMA BuiltFacts ==
  ASSUME IndInv, TreeBuilt, nLeaves # 0
  PROVE  /\ nLeaves \in Nat /\ top \in Nat /\ count(0) = nLeaves /\ start(0) = 0
         /\ \A l \in 0..top : start(l) \in Nat /\ count(l) \in Nat \ {0}
         /\ \A l \in 0..top - 1 :
              /\ count(l) # 1
              /\ start(l + 1) = start(l) + Even(count(l))
              /\ count(l + 1) = Even(count(l)) \div 2
              /\ start(l + 1) <= start(top)
         /\ count(top) = 1 /\ Len(buf) = start(top) + 1
<1>1. HasTree
  BY DEF HasTree, TreeBuilt
<1>2. nLeaves \in Nat
  BY LenProperties DEF IndInv, TypeOK, nLeaves
<1>3. top \in Nat /\ \A l \in 0..top : start(l) \in Nat /\ count(l) \in Nat \ {0}
  BY <1>1, LevelFacts DEF IndInv
<1> QED
  BY <1>1, <1>2, <1>3 DEF IndInv, LevelsRight, BuildPosition

(* Below the top, a padded level lies inside of the buffer.                *)
LEMMA InsideBuffer ==
  ASSUME IndInv, TreeBuilt, nLeaves # 0,
         NEW l \in 0..top - 1, NEW i \in Nat, i < Even(count(l))
  PROVE  start(l) \in Nat /\ start(l) + i + 1 \in 1..Len(buf)
<1>1. /\ top \in Nat /\ start(l + 1) = start(l) + Even(count(l))
      /\ start(l + 1) <= start(top) /\ Len(buf) = start(top) + 1
  BY BuiltFacts
<1>2. start(l) \in Nat /\ count(l) \in Nat /\ start(top) \in Nat
  <2>1. l \in 0..top /\ top \in 0..top
    BY <1>1
  <2> QED
    BY <2>1, BuiltFacts
<1>3. Even(count(l)) \in Nat
  BY <1>2, EvenFacts
<1> QED
  BY <1>1, <1>2, <1>3

(* The parts of the invariant that are about paths, and about proofs.      *)
PathParts == PathRight /\ ReadsLevel
VerifyParts == HashTagged /\ OnTreeIsRight /\ Complete /\ Sound

(* An index past the leaves is refused: there is no path any more.         *)
LEMMA RefusedStep ==
  ASSUME IndInv, NEW i \in Nat, NEW len \in {0, 1}, PathRefused(i, len)
  PROVE  IndInv'
<1>1. /\ TreeBuilt /\ phase' = "built" /\ TreeBuilt'
      /\ UNCHANGED <<stream, buf, level, levels, offset, nNodes, index, header>>
      /\ leaf' = -1 /\ path' = <<>> /\ claim' = NoClaim
  BY DEF PathRefused, IsBuilt, TreeBuilt, tree, cursor
<1>2. TreeRight'
  BY <1>1, TreeStays
<1>3. IsSequence(<<>>)
  BY EmptyIsSequence
<1>4. TypeOK'
  BY <1>1 DEF IndInv, TypeOK, NoClaim, IsSequence
<1>5. PathParts'
  BY <1>1, <1>3 DEF PathParts, PathRight, ReadsLevel, IsSequence
<1>6. VerifyParts' /\ StartPosition'
  BY <1>1 DEF VerifyParts, HashTagged, OnTreeIsRight, Complete, Sound, StartPosition
<1> QED
  BY <1>2, <1>4, <1>5, <1>6 DEF IndInv, TreeRight, PathParts, VerifyParts

(* A path starts at the leaf, on the lowest level.                         *)
LEMMA StartStep ==
  ASSUME IndInv, NEW i \in Nat, NEW len \in {0, 1}, PathStart(i, len)
  PROVE  IndInv'
<1>1. /\ TreeBuilt /\ phase' = "path" /\ TreeBuilt'
      /\ UNCHANGED <<stream, buf, level, levels>>
      /\ i < nLeaves /\ header' = len /\ leaf' = i /\ path' = <<>>
      /\ offset' = len /\ nNodes' = nLeaves /\ index' = i
      /\ claim' = NoClaim
  BY DEF PathStart, IsBuilt, TreeBuilt, tree, Skip
<1>2. nLeaves \in Nat
  BY LenProperties DEF IndInv, TypeOK, nLeaves
<1>3. nLeaves # 0
  BY <1>1, <1>2
<1>4. /\ TreeRight' /\ nLeaves' = nLeaves /\ top' = top
      /\ \A l : start(l)' = start(l) /\ count(l)' = count(l)
  BY <1>1, TreeStays
<1>5. top \in Nat /\ count(0) = nLeaves /\ start(0) = 0
  BY <1>1, <1>3, BuiltFacts
<1>6. IsSequence(<<>>) /\ Len(<<>>) = 0
  BY EmptyIsSequence
<1>7. TypeOK'
  BY <1>1, <1>2 DEF IndInv, TypeOK, NoClaim, IsSequence
<1>8. ReadsLevel'
  <2>1. levels'[Len(path') + 1].offset = 0 /\ levels'[Len(path') + 1].nNodes = nLeaves
    <3>1. Len(path') + 1 = 0 + 1 /\ levels' = levels
      BY <1>1
    <3> QED
      BY <1>5, <3>1 DEF start, count
  <2>2. sibling(i) < Even(nLeaves)
    <3>1. i < Even(nLeaves)
      BY <1>1, <1>2 DEF Even
    <3> QED
      BY <1>2, <3>1, PairFacts
  <2>3. sibling(index)' = sibling(i) /\ Even(nNodes)' = Even(nLeaves)
    BY <1>1 DEF sibling, Even
  <2> QED
    BY <1>1, <2>1, <2>2, <2>3 DEF ReadsLevel
<1>9. PathRight'
  <2> DEFINE trail == [l \in 0..0 |-> i]
  <2>1. trail \in [0..0 -> 0..i] /\ trail[0] = i
    OBVIOUS
  <2>2. IsTrail(trail)'
    <3>1. Len(path') = 0 /\ leaf' = i
      BY <1>1
    <3>2. \A l \in 0..0 : trail[l] < count(l)'
      BY <1>1, <1>4, <1>5
    <3> HIDE DEF trail
    <3> QED
      BY <2>1, <3>1, <3>2 DEF IsTrail
  <2> HIDE DEF trail
  <2>3. Len(path') = 0 /\ IsSequence(path') /\ i \in 0..nLeaves - 1 /\ i # -1
    BY <1>1, <1>2, <1>6
  <2>4. \E t \in [0..Len(path') -> 0..leaf'] :
          IsTrail(t)' /\ (phase' = "path" => index' = t[Len(path')])
    BY <1>1, <2>1, <2>2, <2>3
  <2> QED
    BY <1>1, <1>4, <1>5, <2>1, <2>2, <2>3 DEF PathRight, IsSequence
<1>10. VerifyParts' /\ StartPosition'
  BY <1>1 DEF VerifyParts, HashTagged, OnTreeIsRight, Complete, Sound, StartPosition
<1> QED
  BY <1>4, <1>7, <1>8, <1>9, <1>10 DEF IndInv, TreeRight, VerifyParts

(* Where AuthenticationPath is when it goes on.                            *)
LEMMA PathPosition ==
  ASSUME IndInv, phase = "path"
  PROVE  /\ TreeBuilt /\ nLeaves # 0 /\ leaf # -1 /\ leaf \in Nat
         /\ Len(path) \in Nat /\ Len(path) <= top
         /\ offset = header + start(Len(path)) /\ nNodes = count(Len(path))
         /\ index \in Nat /\ index < nNodes
         /\ nNodes = 1 => Len(path) = top
         /\ nNodes # 1 => Len(path) < top /\ sibling(index) < Even(nNodes)
<1>1. TreeBuilt /\ leaf # -1
  BY DEF TreeBuilt, IndInv, PathRight
<1>2. /\ leaf \in 0..nLeaves - 1 /\ Len(path) <= top /\ IsSequence(path)
      /\ index \in Nat
  BY <1>1 DEF IndInv, PathRight, TypeOK
<1>3. leaf \in Nat /\ nLeaves # 0 /\ Len(path) \in Nat
  <2>1. nLeaves \in Nat
    BY LenProperties DEF IndInv, TypeOK, nLeaves
  <2> QED
    BY <1>2, <2>1, LengthFacts
<1>4. /\ offset = header + start(Len(path)) /\ nNodes = count(Len(path))
      /\ index < nNodes
      /\ nNodes # 1 => sibling(index) < Even(nNodes)
  BY DEF IndInv, ReadsLevel, start, count
<1>5. /\ top \in Nat /\ count(top) = 1
      /\ \A l \in 0..top - 1 : count(l) # 1
  BY <1>1, <1>3, BuiltFacts
<1>6. nNodes # 1 => Len(path) < top
  BY <1>2, <1>3, <1>4, <1>5
<1>7. ASSUME nNodes = 1 PROVE Len(path) = top
  <2>1. ~(Len(path) \in 0..top - 1)
    BY <1>4, <1>5, <1>7
  <2> QED
    BY <1>2, <1>3, <1>5, <2>1
<1> QED
  BY <1>1, <1>2, <1>3, <1>4, <1>6, <1>7

(* Both implementations read the sibling, with or without a header.        *)
LEMMA ReadsSibling ==
  ASSUME IndInv, phase = "path", nNodes # 1
  PROVE  NodeAt(offset + sibling(index)) = Node(Len(path), sibling(index))
<1> DEFINE l == Len(path)
           i == sibling(index)
<1>1. /\ TreeBuilt /\ nLeaves # 0 /\ l \in Nat /\ l < top
      /\ offset = header + start(l) /\ nNodes = count(l) /\ index \in Nat
      /\ i < Even(count(l))
  BY PathPosition
<1>2. i \in Nat
  BY <1>1, SiblingFacts
<1>3. top \in Nat
  BY <1>1, BuiltFacts
<1> HIDE DEF l, i
<1>4. l \in 0..top - 1
  BY <1>1, <1>3
<1>5. start(l) \in Nat /\ start(l) + i + 1 \in 1..Len(buf)
  BY <1>1, <1>2, <1>4, InsideBuffer
<1>6. header \in {0, 1} /\ IsSequence(buf)
  BY DEF IndInv, TypeOK
<1>7. CASE header = 0
  <2>1. offset + i + 1 = start(l) + i + 1
    BY <1>1, <1>2, <1>5, <1>7
  <2>2. NodeAt(offset + i) = buf[offset + i + 1]
    BY <1>7 DEF NodeAt
  <2> QED
    BY <2>1, <2>2 DEF Node, l, i
<1>8. CASE header = 1
  <2> DEFINE k == start(l) + i + 1
  <2>1. offset + i + 1 = 1 + k
    BY <1>1, <1>2, <1>5, <1>8
  <2>2. NodeAt(offset + i) = WriteTo[offset + i + 1]
    BY <1>8 DEF NodeAt
  <2>3. IsSequence(<<nLeaves>>) /\ Len(<<nLeaves>>) = 1
    <3>1. <<nLeaves>> \in Seq({nLeaves})
      OBVIOUS
    <3> QED
      BY <3>1, MemberIsSequence
  <2>4. \A j \in 1..Len(buf) : WriteTo[1 + j] = buf[j]
    BY <1>6, <2>3, ConcatFacts DEF WriteTo
  <2>5. WriteTo[1 + k] = buf[k]
    BY <1>5, <2>4
  <2> QED
    BY <2>1, <2>2, <2>5 DEF Node, l, i
<1> QED
  BY <1>6, <1>7, <1>8

(* The path is extended by the sibling, the trail by the parent.           *)
LEMMA StepStep ==
  ASSUME IndInv, PathStep
  PROVE  IndInv'
<1> PICK n : n = Len(path)
  OBVIOUS
<1>1. /\ phase = "path" /\ phase' = "path" /\ nNodes # 1 /\ TreeBuilt /\ TreeBuilt'
      /\ UNCHANGED <<stream, buf, level, levels, header, leaf, claim>>
      /\ path' = Append(path, NodeAt(offset + sibling(index)))
      /\ offset' = offset + Even(nNodes) /\ nNodes' = Even(nNodes) \div 2
      /\ index' = sibling(index) \div 2
  BY DEF PathStep, TreeBuilt, tree, check
<1>2. /\ nLeaves # 0 /\ leaf # -1 /\ leaf \in Nat /\ n \in Nat
      /\ offset = header + start(n) /\ nNodes = count(n)
      /\ index \in Nat /\ index < nNodes /\ n < top
  BY <1>1, PathPosition
<1>3. /\ TreeRight' /\ nLeaves' = nLeaves /\ top' = top
      /\ \A l : start(l)' = start(l) /\ count(l)' = count(l)
      /\ \A l, i : Node(l, i)' = Node(l, i)
  BY <1>1, TreeStays
<1>4. top \in Nat /\ n \in 0..top - 1 /\ n \in 0..top /\ n + 1 \in 0..top
  BY <1>1, <1>2, BuiltFacts
<1>5. /\ start(n) \in Nat /\ count(n) \in Nat
      /\ start(n + 1) = start(n) + Even(count(n))
      /\ count(n + 1) = Even(count(n)) \div 2
      /\ start(n + 1) \in Nat /\ count(n + 1) \in Nat \ {0}
  BY <1>1, <1>2, <1>4, BuiltFacts
<1>6. index' = index \div 2 /\ index' \in Nat /\ index' < count(n + 1)
  <2>1. index' = index \div 2 /\ index' \in Nat
    BY <1>1, <1>2, SiblingFacts
  <2>2. index < Even(count(n))
    BY <1>2, <1>5 DEF Even
  <2>3. index \div 2 < Even(count(n)) \div 2
    BY <1>2, <1>5, <2>2, PairFacts
  <2> QED
    BY <1>5, <2>1, <2>3
<1>7. IsSequence(path) /\ header \in {0, 1}
  BY DEF IndInv, PathRight, TypeOK
<1>8. /\ IsSequence(path') /\ Len(path') = n + 1
      /\ \A k \in 1..n : path'[k] = path[k]
      /\ path'[n + 1] = Node(n, sibling(index))
  BY <1>1, <1>7, AppendFacts, ReadsSibling
<1>9. offset' = header + start(n + 1) /\ nNodes' = count(n + 1) /\ offset' \in Nat
  <2>1. Even(count(n)) \in Nat
    BY <1>5, EvenFacts
  <2> QED
    <3>1. /\ offset' = offset + Even(nNodes) /\ nNodes' = Even(nNodes) \div 2
          /\ offset = header + start(n) /\ nNodes = count(n)
      BY <1>1, <1>2
    <3>2. start(n) \in Nat /\ header \in Nat
      BY <1>5, <1>7
    <3>3. offset' = header + (start(n) + Even(count(n))) /\ offset' \in Nat
      BY <2>1, <3>1, <3>2
    <3> QED
      BY <1>5, <3>1, <3>3
<1>10. TypeOK'
  BY <1>1, <1>5, <1>6, <1>9 DEF IndInv, TypeOK, IsSequence
<1>11. ReadsLevel'
  <2>1. /\ levels'[Len(path') + 1].offset = start(n + 1)
        /\ levels'[Len(path') + 1].nNodes = count(n + 1)
    BY <1>1, <1>8 DEF start, count
  <2>2. sibling(index)' < Even(nNodes)'
    <3>1. index' < Even(nNodes') /\ nNodes' \in Nat
      <4>1. /\ nNodes' = count(n + 1) /\ count(n + 1) \in Nat \ {0}
            /\ index' \in Nat /\ index' < count(n + 1)
        BY <1>5, <1>6, <1>9
      <4>2. PICK c \in Nat : c = count(n + 1)
        BY <4>1
      <4>3. Even(c) = c + 1 \/ Even(c) = c
        BY EvenFacts, Zenon
      <4> QED
        BY <4>1, <4>2, <4>3
    <3>2. sibling(index') < Even(nNodes')
      BY <1>6, <3>1, PairFacts
    <3> QED
      BY <3>2 DEF sibling, Even
  <2> QED
    BY <1>1, <1>6, <1>9, <2>1, <2>2 DEF ReadsLevel
<1>12. PathRight'
  <2>1. /\ leaf \in 0..nLeaves - 1
        /\ \E t \in [0..n -> 0..leaf] : IsTrail(t) /\ index = t[n]
    BY <1>1, <1>2 DEF IndInv, PathRight
  <2>2. PICK old \in [0..n -> 0..leaf] : IsTrail(old) /\ index = old[n]
    BY <2>1
  <2> PICK trail :
        trail = [l \in 0..n + 1 |-> IF l = n + 1 THEN index \div 2 ELSE old[l]]
    OBVIOUS
  <2>3. /\ trail \in [0..n + 1 -> 0..leaf]
        /\ trail[n + 1] = index \div 2
        /\ \A l \in 0..n : trail[l] = old[l]
    <3>1. index \in 0..leaf
      BY <1>2, <2>2
    <3>2. index \div 2 \in 0..leaf
      BY <1>2, <3>1, SiblingFacts
    <3>3. \A l \in 0..n : l \in 0..n + 1 /\ l # n + 1 /\ old[l] \in 0..leaf
      BY <1>2, <2>2
    <3>4. \A l \in 0..n + 1 : l # n + 1 => l \in 0..n
      BY <1>2
    <3>5. n + 1 \in 0..n + 1
      BY <1>2
    <3> QED
      BY <3>2, <3>3, <3>4, <3>5
  <2>4. trail[0] = leaf' /\ trail[n] = index
    BY <1>1, <1>2, <2>2, <2>3 DEF IsTrail
  <2>5. ASSUME NEW l \in 0..n + 1 PROVE trail[l] < count(l)'
    <3>1. CASE l = n + 1
      BY <1>3, <1>6, <2>3, <3>1
    <3>2. CASE l # n + 1
      <4>1. l \in 0..n
        BY <1>2, <3>2
      <4> QED
        BY <1>3, <2>2, <2>3, <4>1 DEF IsTrail
    <3> QED
      BY <3>1, <3>2
  <2>6. ASSUME NEW l \in 0..n
        PROVE  /\ trail[l + 1] = trail[l] \div 2
               /\ path'[l + 1] = Node(l, sibling(trail[l]))
    <3>1. CASE l = n
      BY <1>8, <2>3, <2>4, <3>1
    <3>2. CASE l # n
      <4>1. l \in 0..n - 1 /\ l + 1 \in 0..n /\ l + 1 \in 1..n
        BY <1>2, <3>2
      <4>2. old[l + 1] = old[l] \div 2 /\ path[l + 1] = Node(l, sibling(old[l]))
        BY <2>2, <4>1 DEF IsTrail
      <4> QED
        BY <1>8, <2>3, <4>1, <4>2
    <3> QED
      BY <3>1, <3>2
  <2>7. IsTrail(trail)'
    <3>1. Len(path') - 1 = n
      BY <1>2, <1>8
    <3>2. \A l \in 0..n : Node(l, sibling(trail[l]))' = Node(l, sibling(trail[l]))
      BY <1>3
    <3>3. \A l \in 0..Len(path') : trail[l] < count(l)'
      BY <1>8, <2>5
    <3>4. \A l \in 0..Len(path') - 1 :
            /\ trail[l + 1] = trail[l] \div 2
            /\ path'[l + 1] = Node(l, sibling(trail[l]))'
      <4> TAKE l \in 0..Len(path') - 1
      <4>1. l \in 0..n
        BY <3>1
      <4>2. trail[l + 1] = trail[l] \div 2 /\ path'[l + 1] = Node(l, sibling(trail[l]))
        BY <2>6, <4>1
      <4> QED
        BY <3>2, <4>1, <4>2
    <3> QED
      BY <2>4, <3>3, <3>4, Zenon DEF IsTrail
  <2>8. (\E t \in [0..Len(path) -> 0..leaf] :
           /\ IsTrail(t)
           /\ phase = "path" => index = t[Len(path)]
           /\ phase = "verify" /\ HonestProof => FollowsTrail(t))'
    BY <1>1, <1>6, <1>8, <2>3, <2>7
  <2>9. n + 1 <= top
    BY <1>2, <1>4
  <2> QED
    <3>1. (IsSequence(path) /\ leaf \in 0..nLeaves - 1 /\ Len(path) <= top)'
      BY <1>1, <1>3, <1>8, <2>1, <2>9 DEF IsSequence
    <3>2. phase' = "path" /\ leaf' # -1
      BY <1>1, <1>2
    <3> QED
      BY <2>8, <3>1, <3>2 DEF PathRight
<1>13. VerifyParts' /\ StartPosition'
  BY <1>1 DEF VerifyParts, HashTagged, OnTreeIsRight, Complete, Sound, StartPosition
<1> QED
  BY <1>3, <1>10, <1>11, <1>12, <1>13 DEF IndInv, TreeRight, VerifyParts

(* A trail stays a trail while the tree and the path stay.                 *)
LEMMA TrailStays ==
  ASSUME NEW t, IsTrail(t), UNCHANGED <<buf, levels, leaf, path>>
  PROVE  IsTrail(t)'
<1>1. /\ \A l : count(l)' = count(l)
      /\ \A l, i : Node(l, i)' = Node(l, i)
  BY DEF count, Node, start
<1> QED
  BY <1>1 DEF IsTrail

(* At the top, the path is finished.                                       *)
LEMMA DoneStep ==
  ASSUME IndInv, PathDone
  PROVE  IndInv'
<1>1. /\ phase = "path" /\ phase' = "proved" /\ nNodes = 1 /\ TreeBuilt /\ TreeBuilt'
      /\ UNCHANGED <<stream, buf, level, levels, offset, nNodes, index, header, leaf,
                     path, claim>>
  BY DEF PathDone, TreeBuilt, tree, cursor, proof, check
<1>2. TreeRight' /\ nLeaves' = nLeaves /\ top' = top
  BY <1>1, TreeStays
<1>3. Len(path) = top
  BY <1>1, PathPosition
<1>4. TypeOK'
  BY <1>1 DEF IndInv, TypeOK, IsSequence
<1>5. PathRight'
  <2>1. /\ IsSequence(path) /\ leaf # -1 /\ leaf \in 0..nLeaves - 1
        /\ Len(path) <= top
        /\ \E t \in [0..Len(path) -> 0..leaf] : IsTrail(t)
    BY <1>1 DEF IndInv, PathRight
  <2>2. PICK t \in [0..Len(path) -> 0..leaf] : IsTrail(t)
    BY <2>1
  <2>3. IsTrail(t)' /\ t \in [0..Len(path') -> 0..leaf']
    BY <1>1, <2>2, TrailStays
  <2>4. (\E u \in [0..Len(path) -> 0..leaf] :
           /\ IsTrail(u)
           /\ phase = "path" => index = u[Len(path)]
           /\ phase = "verify" /\ HonestProof => FollowsTrail(u))'
    BY <1>1, <2>3
  <2>5. (IsSequence(path) /\ leaf # -1 /\ leaf \in 0..nLeaves - 1
           /\ Len(path) <= top /\ Len(path) = top)'
    BY <1>1, <1>2, <1>3, <2>1 DEF IsSequence
  <2> QED
    BY <1>1, <2>4, <2>5 DEF PathRight
<1>6. ReadsLevel' /\ VerifyParts' /\ StartPosition'
  BY <1>1 DEF ReadsLevel, VerifyParts, HashTagged, OnTreeIsRight, Complete, Sound,
              StartPosition
<1> QED
  BY <1>2, <1>4, <1>5, <1>6 DEF IndInv, TreeRight, VerifyParts

-----------------------------------------------------------------------------
(* VerifyAuthenticationPath.                                               *)

(* Below the top, what the padded levels hold.                             *)
LEMMA NodeKinds ==
  ASSUME IndInv, TreeBuilt, nLeaves # 0,
         NEW l \in 0..top, NEW i \in Nat, i < Wide(l)
  PROVE  \/ l = 0 /\ i < nLeaves /\ Node(l, i) = Hash(stream[i + 1], i)
         \/ /\ l # 0 /\ l - 1 \in 0..top - 1 /\ i < count(l)
            /\ Node(l, i) = hashNode(Node(l - 1, 2 * i), Node(l - 1, 2 * i + 1), i, l)
         \/ Node(l, i) = hashEmpty(i, l)
<1>1. /\ nLeaves \in Nat /\ top \in Nat /\ count(0) = nLeaves /\ count(l) \in Nat
  BY BuiltFacts
<1>2. /\ \A k \in 0..nLeaves - 1 : Node(0, k) = Hash(stream[k + 1], k)
      /\ \A m \in 0..top - 1 :
           /\ count(m) % 2 = 1 => Node(m, count(m)) = hashEmpty(count(m), m)
           /\ \A k \in 0..count(m + 1) - 1 :
                Node(m + 1, k) = hashNode(Node(m, 2 * k), Node(m, 2 * k + 1), k, m + 1)
  BY DEF IndInv, NodesRight, HasTree, TreeBuilt
<1>3. CASE i < count(l)
  <2>1. CASE l = 0
    <3>1. i < nLeaves /\ i \in 0..nLeaves - 1
      BY <1>1, <1>3, <2>1
    <3> QED
      BY <1>2, <2>1, <3>1
  <2>2. CASE l # 0
    <3>1. l - 1 \in 0..top - 1 /\ (l - 1) + 1 = l /\ i \in 0..count(l) - 1
      BY <1>1, <1>3, <2>2
    <3>2. PICK m : m = l - 1
      OBVIOUS
    <3>3. m \in 0..top - 1 /\ m + 1 = l
      BY <3>1, <3>2
    <3>4. Node(l, i) = hashNode(Node(m, 2 * i), Node(m, 2 * i + 1), i, l)
      BY <1>2, <3>1, <3>3
    <3> QED
      BY <1>3, <2>2, <3>1, <3>2, <3>4
  <2> QED
    BY <2>1, <2>2
<1>4. CASE ~(i < count(l))
  <2>1. l < top /\ i < Even(count(l))
    BY <1>4 DEF Wide
  <2>2. count(l) % 2 = 1 /\ i = count(l)
    BY <1>1, <1>4, <2>1 DEF Even
  <2>3. l \in 0..top - 1
    BY <1>1, <2>1
  <2> QED
    BY <1>2, <2>2, <2>3
<1> QED
  BY <1>3, <1>4

(* Verification starts with the hash of the claimed assertion.  Of the     *)
(* path that comes with it nothing is assumed.                             *)
LEMMA VerifyStartStep ==
  ASSUME IndInv, phase \in {"built", "proved"},
         NEW i \in Nat, NEW aa, NEW p, VerifyStart(i, aa, p)
  PROVE  IndInv'
<1>1. /\ phase' = "verify" /\ TreeBuilt /\ TreeBuilt'
      /\ UNCHANGED <<stream, buf, levels, offset, nNodes, header, leaf, path>>
      /\ claim' = [index |-> i, aa |-> aa, path |-> p]
      /\ rest' = p /\ index' = i /\ level' = 0 /\ h' = Hash(aa, i)
  BY DEF VerifyStart, TreeBuilt, proof
<1>2. /\ TreeRight' /\ nLeaves' = nLeaves /\ top' = top
      /\ \A l : start(l)' = start(l) /\ count(l)' = count(l)
      /\ \A l, k : Node(l, k)' = Node(l, k)
  BY <1>1, TreeStays
<1>3. TypeOK'
  BY <1>1, MerkleAssumption DEF IndInv, TypeOK, IsSequence
<1>4. HashTagged'
  BY <1>1 DEF HashTagged
<1>5. OnTreeIsRight'
  <2>1. ASSUME nLeaves # 0, i < Wide(0), Hash(aa, i) = Node(0, i)
        PROVE  i < nLeaves /\ aa = stream[i + 1]
    <3>1. 0 \in 0..top
      BY <1>1, <2>1, BuiltFacts
    <3>2. \/ i < nLeaves /\ Node(0, i) = Hash(stream[i + 1], i)
          \/ Node(0, i) = hashEmpty(i, 0)
      BY <1>1, <2>1, <3>1, NodeKinds
    <3> QED
      BY <2>1, <3>2, HashInjective, HashKinds
  <2>2. Wide(level)' = Wide(0) /\ Node(level, index)' = Node(0, i)
    BY <1>1 DEF Wide, Node, start, count, top
  <2> QED
    BY <1>1, <1>2, <2>1, <2>2 DEF OnTreeIsRight, ClaimRight
<1>6. PathRight'
  <2>1. IsSequence(path)' /\ (phase \in {"path", "proved"} => leaf # -1)'
    BY <1>1 DEF IndInv, PathRight, IsSequence
  <2>2. ASSUME leaf # -1
        PROVE  (/\ leaf \in 0..nLeaves - 1
                /\ Len(path) <= top
                /\ phase # "path" => Len(path) = top
                /\ \E t \in [0..Len(path) -> 0..leaf] :
                     /\ IsTrail(t)
                     /\ phase = "path" => index = t[Len(path)]
                     /\ phase = "verify" /\ HonestProof => FollowsTrail(t))'
    <3>1. /\ phase = "proved" /\ leaf \in 0..nLeaves - 1 /\ Len(path) <= top
          /\ Len(path) = top
          /\ \E t \in [0..Len(path) -> 0..leaf] : IsTrail(t)
      BY <2>2 DEF IndInv, PathRight
    <3>2. PICK t \in [0..Len(path) -> 0..leaf] : IsTrail(t)
      BY <3>1
    <3>3. IsTrail(t)' /\ t \in [0..Len(path') -> 0..leaf']
      BY <1>1, <3>2, TrailStays
    <3>4. IsSequence(path) /\ Len(path) \in Nat
      BY LengthFacts DEF IndInv, PathRight
    <3>5. ASSUME HonestProof' PROVE FollowsTrail(t)'
      <4>1. i = leaf /\ p = path /\ aa = stream[leaf + 1]
        BY <1>1, <3>5 DEF HonestProof
      <4>2. /\ level' = 0 /\ index' = t[0] /\ index' = leaf
            /\ IsSequence(rest') /\ rest' = path
        BY <1>1, <3>2, <3>4, <4>1 DEF IsTrail
      <4>3. h' = Node(0, leaf)
        <5>1. HasTree
          <6>1. nLeaves \in Nat
            BY LenProperties DEF IndInv, TypeOK, nLeaves
          <6> QED
            BY <1>1, <3>1, <6>1 DEF HasTree, TreeBuilt
        <5>2. Node(0, leaf) = Hash(stream[leaf + 1], leaf)
          BY <3>1, <5>1 DEF IndInv, NodesRight
        <5> QED
          BY <1>1, <4>1, <5>2
      <4>4. Node(level, index)' = Node(0, leaf)
        BY <1>1, <4>1 DEF Node, start
      <4>5. (level <= Len(path) /\ index = t[level] /\ h = Node(level, index))'
        BY <1>1, <3>4, <4>2, <4>3, <4>4
      <4>6. (/\ IsSequence(rest) /\ Len(rest) = Len(path) - level
             /\ \A k \in 1..Len(rest) : rest[k] = path[level + k])'
        <5>1. Len(path) - 0 = Len(path) /\ \A k \in 1..Len(path) : 0 + k = k
          BY <3>4
        <5> QED
          BY <1>1, <4>2, <5>1 DEF IsSequence
      <4> QED
        BY <4>5, <4>6 DEF FollowsTrail
    <3>6. (\E u \in [0..Len(path) -> 0..leaf] :
             /\ IsTrail(u)
             /\ phase = "path" => index = u[Len(path)]
             /\ phase = "verify" /\ HonestProof => FollowsTrail(u))'
      BY <1>1, <3>3, <3>5
    <3>7. (leaf \in 0..nLeaves - 1 /\ Len(path) <= top /\ Len(path) = top)'
      BY <1>1, <1>2, <3>1
    <3> QED
      BY <3>6, <3>7
  <2>3. leaf' = leaf /\ phase' = "verify"
    BY <1>1
  <2> QED
    BY <2>1, <2>2, <2>3 DEF PathRight
<1>7. ReadsLevel' /\ Complete' /\ Sound' /\ StartPosition'
  BY <1>1 DEF ReadsLevel, Complete, Sound, StartPosition
<1> QED
  BY <1>2, <1>3, <1>4, <1>5, <1>6, <1>7 DEF IndInv, TreeRight

(* Where an honest proof is while it is verified.                          *)
LEMMA HonestPosition ==
  ASSUME IndInv, phase = "verify", HonestProof
  PROVE  /\ TreeBuilt /\ nLeaves # 0 /\ leaf # -1
         /\ level \in Nat /\ Len(path) = top /\ top \in Nat
         /\ \E t \in [0..Len(path) -> 0..leaf] : IsTrail(t) /\ FollowsTrail(t)
<1>1. leaf \in 0..nLeaves - 1 /\ nLeaves \in Nat
  BY LenProperties DEF HonestProof, IndInv, TypeOK, nLeaves
<1>2. TreeBuilt /\ nLeaves # 0 /\ leaf # -1
  BY <1>1 DEF TreeBuilt
<1>3. top \in Nat /\ level \in Nat
  BY <1>2, BuiltFacts DEF IndInv, TypeOK
<1> QED
  BY <1>2, <1>3 DEF IndInv, PathRight

(* The next node of an honest proof is the sibling of the one that was     *)
(* computed, and the hash of both is the node above them.                  *)
LEMMA HonestNext ==
  ASSUME IndInv, phase = "verify", rest # <<>>,
         NEW t \in [0..Len(path) -> 0..leaf], IsTrail(t), FollowsTrail(t),
         TreeBuilt, nLeaves # 0, Len(path) = top
  PROVE  /\ level \in 0..top - 1 /\ IsSequence(rest)
         /\ index \in Nat /\ index < count(level) /\ sibling(index) < Even(count(level))
         /\ Head(rest) = Node(level, sibling(index)) /\ h = Node(level, index)
         /\ t[level + 1] = index \div 2 /\ index \div 2 < count(level + 1)
<1>1. /\ level \in Nat /\ top \in Nat /\ index \in Nat
  BY BuiltFacts DEF IndInv, TypeOK
<1>2. /\ level <= Len(path) /\ index = t[level] /\ h = Node(level, index)
      /\ IsSequence(rest) /\ Len(rest) = Len(path) - level
      /\ \A k \in 1..Len(rest) : rest[k] = path[level + k]
  BY DEF FollowsTrail
<1>3. Len(rest) \in Nat \ {0} /\ Head(rest) = rest[1]
  BY <1>2, TailFacts
<1>4. level \in 0..top - 1 /\ level \in 0..top /\ level + 1 \in 0..top
  BY <1>1, <1>2, <1>3
<1>5. Head(rest) = path[level + 1]
  BY <1>2, <1>3
<1>6. /\ t[level] < count(level) /\ t[level + 1] < count(level + 1)
      /\ t[level + 1] = t[level] \div 2
      /\ path[level + 1] = Node(level, sibling(t[level]))
  BY <1>4 DEF IsTrail
<1>7. sibling(index) < Even(count(level))
  <2>1. count(level) \in Nat
    BY <1>4, BuiltFacts
  <2>2. index < Even(count(level))
    BY <1>1, <1>2, <1>6, <2>1 DEF Even
  <2> QED
    BY <1>1, <2>1, <2>2, PairFacts
<1> QED
  BY <1>1, <1>2, <1>4, <1>5, <1>6, <1>7

(* One turn of the loop of verification.                                   *)
LEMMA VerifyStepStep ==
  ASSUME IndInv, VerifyStep
  PROVE  IndInv'
<1> PICK j : j = index \div 2
  OBVIOUS
<1> PICK m : m = NextLevel(level)
  OBVIOUS
<1>1. /\ phase = "verify" /\ phase' = "verify" /\ TreeBuilt /\ TreeBuilt'
      /\ rest # <<>> /\ rest' = Tail(rest) /\ level' = m /\ index' = j
      /\ UNCHANGED <<stream, buf, levels, offset, nNodes, header, leaf, path, claim>>
  BY DEF VerifyStep, TreeBuilt, proof
<1>2. /\ index % 2 = 1 => h' = hashNode(Head(rest), h, j, m)
      /\ index % 2 # 1 => h' = hashNode(h, Head(rest), j, m)
  BY DEF VerifyStep, IsRight
<1>3. /\ level \in Nat /\ index \in Nat /\ j \in Nat /\ m \in Nat /\ m < U8
      /\ m = level + 1 \/ m = 0
      /\ level + 1 < U8 => m = level + 1
  <2>1. level \in Nat /\ level < U8 /\ index \in Nat
    BY DEF IndInv, TypeOK
  <2> QED
    BY <2>1, SiblingFacts, NextLevelFacts
<1>4. /\ TreeRight' /\ nLeaves' = nLeaves /\ top' = top
      /\ \A l : start(l)' = start(l) /\ count(l)' = count(l)
      /\ \A l, k : Node(l, k)' = Node(l, k)
  BY <1>1, TreeStays
<1>5. TypeOK'
  BY <1>1, <1>3 DEF IndInv, TypeOK, IsSequence
<1>6. PICK a, b : h' = hashNode(a, b, j, m)
  BY <1>2
<1>7. HashTagged'
  <2>1. h' = hashNode(h'[4], h'[5], j, m)
    BY <1>6, HashNodeParts
  <2>2. (h = hashNode(h[4], h[5], index, level))'
    BY <1>1, <2>1 DEF hashNode
  <2> QED
    BY <1>1, <1>3, <2>2 DEF HashTagged
<1>8. OnTreeIsRight'
  <2>1. ASSUME nLeaves # 0, m <= top, j < Wide(m), h' = Node(m, j)
        PROVE  ClaimRight
    <3>1. top \in Nat
      BY <1>1, <2>1, BuiltFacts
    <3>7. m \in 0..top /\ h' # hashEmpty(j, m) /\ \A c, k : h' # Hash(c, k)
      BY <1>3, <1>6, <2>1, <3>1, HashKinds
    <3>8. m # 0
      BY <1>1, <1>3, <2>1, <3>7, NodeKinds
    <3>2. m \in 0..top /\ level \in 0..top - 1 /\ level \in 0..top /\ m - 1 = level
      BY <1>3, <2>1, <3>1, <3>8
    <3>3. /\ j < count(m)
          /\ Node(m, j) = hashNode(Node(level, 2 * j), Node(level, 2 * j + 1), j, m)
      <4>1. /\ h' # hashEmpty(j, m)
            /\ \A c, k : h' # Hash(c, k)
        BY <1>6, HashKinds
      <4> QED
        BY <1>1, <1>3, <2>1, <3>2, <4>1, NodeKinds
    <3>4. h = Node(level, index)
      <4>1. CASE index % 2 = 1
        <5>1. index = 2 * j + 1
          BY <1>3, <4>1, SiblingFacts
        <5>2. h = Node(level, 2 * j + 1)
          BY <1>2, <2>1, <3>3, <4>1, HashNodeInjective
        <5> QED
          BY <5>1, <5>2
      <4>2. CASE index % 2 # 1
        <5>1. index = 2 * j
          BY <1>3, <4>2, SiblingFacts
        <5>2. h = Node(level, 2 * j)
          BY <1>2, <2>1, <3>3, <4>2, HashNodeInjective
        <5> QED
          BY <5>1, <5>2
      <4> QED
        BY <4>1, <4>2
    <3>5. index < Wide(level)
      <4>1. count(level) \in Nat /\ count(m) = Even(count(level)) \div 2
        BY <1>1, <2>1, <3>2, BuiltFacts
      <4>2. 2 * count(m) = Even(count(level)) /\ count(m) \in Nat
        BY <4>1, EvenFacts
      <4>3. index <= 2 * j + 1
        BY <1>3
      <4>4. index < Even(count(level))
        BY <1>3, <3>3, <4>2, <4>3
      <4>5. level < top
        BY <3>1, <3>2
      <4> QED
        BY <4>4, <4>5 DEF Wide
    <3>6. level <= top
      BY <3>1, <3>2
    <3> QED
      BY <1>1, <2>1, <3>4, <3>5, <3>6 DEF IndInv, OnTreeIsRight
  <2>2. Wide(level)' = Wide(m) /\ Node(level, index)' = Node(m, j)
    BY <1>1 DEF Wide, Node, start, count, top
  <2>3. ClaimRight => ClaimRight'
    BY <1>1 DEF ClaimRight, nLeaves
  <2> QED
    BY <1>1, <1>4, <2>1, <2>2, <2>3 DEF OnTreeIsRight
<1>9. PathRight'
  <2>1. /\ IsSequence(path)' /\ phase' = "verify" /\ leaf' = leaf
        /\ HonestProof' <=> HonestProof
    BY <1>1 DEF IndInv, PathRight, IsSequence, HonestProof, nLeaves
  <2>2. ASSUME leaf # -1
        PROVE  (/\ leaf \in 0..nLeaves - 1
                /\ Len(path) <= top
                /\ phase # "path" => Len(path) = top
                /\ \E t \in [0..Len(path) -> 0..leaf] :
                     /\ IsTrail(t)
                     /\ phase = "path" => index = t[Len(path)]
                     /\ phase = "verify" /\ HonestProof => FollowsTrail(t))'
    <3>1. /\ leaf \in 0..nLeaves - 1 /\ Len(path) <= top /\ Len(path) = top
          /\ \E t \in [0..Len(path) -> 0..leaf] :
               IsTrail(t) /\ (HonestProof => FollowsTrail(t))
      BY <1>1, <2>2 DEF IndInv, PathRight
    <3>2. PICK t \in [0..Len(path) -> 0..leaf] :
            IsTrail(t) /\ (HonestProof => FollowsTrail(t))
      BY <3>1
    <3>3. IsTrail(t)' /\ t \in [0..Len(path') -> 0..leaf']
      BY <1>1, <3>2, TrailStays
    <3>4. ASSUME HonestProof PROVE FollowsTrail(t)'
      <4>1. TreeBuilt /\ nLeaves # 0 /\ top \in Nat
        BY <1>1, <3>4, HonestPosition
      <4>2. /\ level \in 0..top - 1 /\ IsSequence(rest) /\ index \in Nat
            /\ Head(rest) = Node(level, sibling(index)) /\ h = Node(level, index)
            /\ t[level + 1] = j /\ j < count(level + 1)
        BY <1>1, <3>1, <3>2, <3>4, <4>1, HonestNext
      <4>12. m = level + 1 /\ t[m] = j /\ j < count(m)
        <5>1. top < U8 /\ U8 \in Nat
          BY <1>1, <4>1, MerkleAssumption DEF IndInv, LevelsFit, HasTree, TreeBuilt
        <5>2. level + 1 < U8
          BY <4>1, <4>2, <5>1
        <5> QED
          BY <1>3, <4>2, <5>2
      <4>3. h' = hashNode(Node(level, 2 * j), Node(level, 2 * j + 1), j, m)
        <5>1. CASE index % 2 = 1
          <6>1. index = 2 * j + 1 /\ sibling(index) = 2 * j
            BY <4>2, <4>12, <5>1, SiblingFacts
          <6> QED
            BY <1>2, <4>2, <4>12, <5>1, <6>1
        <5>2. CASE index % 2 # 1
          <6>1. index = 2 * j /\ sibling(index) = 2 * j + 1
            BY <4>2, <4>12, <5>2, SiblingFacts
          <6> QED
            BY <1>2, <4>2, <4>12, <5>2, <6>1
        <5> QED
          BY <5>1, <5>2
      <4>4. Node(m, j) = hashNode(Node(level, 2 * j), Node(level, 2 * j + 1), j, m)
        <5>1. m \in 0..top /\ count(m) \in Nat
          <6>1. m \in 0..top
            BY <4>1, <4>2, <4>12
          <6> QED
            BY <1>1, <4>1, <6>1, BuiltFacts
        <5>2. j \in 0..count(m) - 1
          BY <1>3, <4>2, <4>12, <5>1
        <5> QED
          BY <1>1, <4>1, <4>2, <4>12, <5>2 DEF IndInv, NodesRight, HasTree, TreeBuilt
      <4>5. Node(level, index)' = Node(m, j)
        BY <1>1 DEF Node, start
      <4>6. /\ IsSequence(Tail(rest)) /\ Len(Tail(rest)) = Len(rest) - 1
            /\ \A k \in 1..Len(Tail(rest)) : Tail(rest)[k] = rest[k + 1]
            /\ Len(rest) = top - level
            /\ \A k \in 1..Len(rest) : rest[k] = path[level + k]
            /\ Len(rest) \in Nat
        BY <1>1, <3>1, <3>2, <3>4, <4>2, <4>12, TailFacts DEF FollowsTrail
      <4>7. Len(rest') = top - m
        BY <1>1, <1>3, <4>1, <4>2, <4>6, <4>12
      <4>8. ASSUME NEW k \in 1..Len(rest') PROVE rest'[k] = path[m + k]
        <5>1. /\ k \in Nat /\ k \in 1..Len(Tail(rest)) /\ k + 1 \in 1..Len(rest)
              /\ level + (k + 1) = m + k
          BY <1>1, <1>3, <4>2, <4>6, <4>12
        <5> QED
          BY <1>1, <4>6, <5>1
      <4>9. m <= top
        BY <4>1, <4>2, <4>12
      <4>10. (level <= Len(path) /\ index = t[level] /\ h = Node(level, index))'
        BY <1>1, <3>1, <4>2, <4>12, <4>3, <4>4, <4>5, <4>9
      <4>11. (/\ IsSequence(rest) /\ Len(rest) = Len(path) - level
              /\ \A k \in 1..Len(rest) : rest[k] = path[level + k])'
        BY <1>1, <3>1, <4>6, <4>7, <4>8 DEF IsSequence
      <4> QED
        BY <4>10, <4>11 DEF FollowsTrail
    <3>5. (\E u \in [0..Len(path) -> 0..leaf] :
             /\ IsTrail(u)
             /\ phase = "path" => index = u[Len(path)]
             /\ phase = "verify" /\ HonestProof => FollowsTrail(u))'
      BY <2>1, <3>3, <3>4
    <3>6. (leaf \in 0..nLeaves - 1 /\ Len(path) <= top /\ Len(path) = top)'
      BY <1>1, <1>4, <3>1
    <3> QED
      BY <3>5, <3>6
  <2> QED
    BY <2>1, <2>2 DEF PathRight
<1>10. ReadsLevel' /\ Complete' /\ Sound' /\ StartPosition'
  BY <1>1 DEF ReadsLevel, Complete, Sound, StartPosition
<1> QED
  BY <1>4, <1>5, <1>7, <1>8, <1>9, <1>10 DEF IndInv, TreeRight

(* A verdict leaves the tree and the path alone.                           *)
LEMMA VerdictKeeps ==
  ASSUME IndInv, phase = "verify", phase' \in {"valid", "rejected"},
         UNCHANGED <<tree, cursor, proof, check>>
  PROVE  TreeRight' /\ TypeOK' /\ PathRight' /\ StartPosition'
<1>1. /\ TreeBuilt /\ TreeBuilt'
      /\ UNCHANGED <<stream, buf, level, levels, offset, nNodes, index, header, leaf,
                     path, claim>>
  BY DEF TreeBuilt, tree, cursor, proof, check
<1>2. TreeRight' /\ nLeaves' = nLeaves /\ top' = top
  BY <1>1, TreeStays
<1>3. TypeOK' /\ StartPosition'
  BY <1>1 DEF IndInv, TypeOK, IsSequence, StartPosition
<1>4. PathRight'
  <2>1. IsSequence(path)' /\ leaf' = leaf
    BY <1>1 DEF IndInv, PathRight, IsSequence
  <2>2. ASSUME leaf # -1
        PROVE  (/\ leaf \in 0..nLeaves - 1
                /\ Len(path) <= top
                /\ phase # "path" => Len(path) = top
                /\ \E t \in [0..Len(path) -> 0..leaf] :
                     /\ IsTrail(t)
                     /\ phase = "path" => index = t[Len(path)]
                     /\ phase = "verify" /\ HonestProof => FollowsTrail(t))'
    <3>1. /\ leaf \in 0..nLeaves - 1 /\ Len(path) <= top /\ Len(path) = top
          /\ \E t \in [0..Len(path) -> 0..leaf] : IsTrail(t)
      BY <2>2 DEF IndInv, PathRight
    <3>2. PICK t \in [0..Len(path) -> 0..leaf] : IsTrail(t)
      BY <3>1
    <3>3. IsTrail(t)' /\ t \in [0..Len(path') -> 0..leaf']
      BY <1>1, <3>2, TrailStays
    <3>4. (\E u \in [0..Len(path) -> 0..leaf] :
             /\ IsTrail(u)
             /\ phase = "path" => index = u[Len(path)]
             /\ phase = "verify" /\ HonestProof => FollowsTrail(u))'
      BY <3>3
    <3>5. (leaf \in 0..nLeaves - 1 /\ Len(path) <= top /\ Len(path) = top)'
      BY <1>1, <1>2, <3>1
    <3> QED
      BY <3>4, <3>5
  <2> QED
    BY <2>1, <2>2 DEF PathRight
<1> QED
  BY <1>2, <1>3, <1>4

(* No path that AuthenticationPath made is truncated: its nodes are        *)
(* hashes.                                                                 *)
LEMMA TruncatedStep ==
  ASSUME IndInv, VerifyTruncated
  PROVE  IndInv'
<1>1. /\ phase = "verify" /\ rest # <<>> /\ Head(rest) = Stub /\ phase' = "rejected"
      /\ UNCHANGED <<tree, cursor, proof, check>>
  BY DEF VerifyTruncated
<1>2. TreeRight' /\ TypeOK' /\ PathRight' /\ StartPosition'
  BY <1>1, VerdictKeeps
<1>3. ASSUME HonestProof PROVE FALSE
  <2>1. /\ TreeBuilt /\ nLeaves # 0 /\ Len(path) = top /\ top \in Nat
        /\ \E t \in [0..Len(path) -> 0..leaf] : IsTrail(t) /\ FollowsTrail(t)
    BY <1>1, <1>3, HonestPosition
  <2>2. PICK t \in [0..Len(path) -> 0..leaf] : IsTrail(t) /\ FollowsTrail(t)
    BY <2>1
  <2>3. /\ level \in 0..top - 1 /\ index \in Nat
        /\ sibling(index) < Even(count(level))
        /\ Head(rest) = Node(level, sibling(index))
    BY <1>1, <2>1, <2>2, HonestNext
  <2>4. sibling(index) \in Nat /\ level \in 0..top /\ level < top
    BY <2>1, <2>3, SiblingFacts
  <2>5. sibling(index) < Wide(level)
    BY <2>3, <2>4 DEF Wide
  <2>6. Node(level, sibling(index)) # Stub
    <3>1. PICK i \in Nat : i = sibling(index)
      BY <2>4
    <3>2. \/ Node(level, i) = Hash(stream[i + 1], i)
          \/ Node(level, i)
               = hashNode(Node(level - 1, 2 * i), Node(level - 1, 2 * i + 1), i, level)
          \/ Node(level, i) = hashEmpty(i, level)
      BY <2>1, <2>4, <2>5, <3>1, NodeKinds
    <3>3. Node(level, i) # Stub
      BY <3>2, HashKinds, Zenon
    <3> QED
      BY <3>1, <3>3
  <2> QED
    BY <1>1, <2>3, <2>6
<1>4. Complete'
  <2>1. HonestProof' <=> HonestProof
    BY <1>1 DEF HonestProof, nLeaves, tree, proof, check
  <2> QED
    BY <1>3, <2>1 DEF Complete
<1>5. ReadsLevel' /\ HashTagged' /\ OnTreeIsRight' /\ Sound'
  BY <1>1 DEF ReadsLevel, HashTagged, OnTreeIsRight, Sound
<1> QED
  BY <1>2, <1>4, <1>5 DEF IndInv, TreeRight

(* An honest proof ends at the root.                                       *)
LEMMA HonestEnds ==
  ASSUME IndInv, phase = "verify", rest = <<>>, HonestProof
  PROVE  IsRoot
<1>1. /\ TreeBuilt /\ nLeaves # 0 /\ Len(path) = top /\ top \in Nat /\ level \in Nat
      /\ \E t \in [0..Len(path) -> 0..leaf] : IsTrail(t) /\ FollowsTrail(t)
  BY HonestPosition
<1>2. PICK t \in [0..Len(path) -> 0..leaf] : IsTrail(t) /\ FollowsTrail(t)
  BY <1>1
<1>3. Len(rest) = 0
  BY EmptyIsSequence
<1>4. /\ level <= Len(path) /\ index = t[level] /\ h = Node(level, index)
      /\ Len(rest) = Len(path) - level
  BY <1>2 DEF FollowsTrail
<1>5. level = top /\ index \in Nat
  BY <1>1, <1>3, <1>4 DEF IndInv, TypeOK
<1>6. top \in 0..Len(path)
  BY <1>1
<1>7. index < count(top)
  BY <1>2, <1>4, <1>5, <1>6 DEF IsTrail
<1>8. count(top) = 1 /\ Len(buf) = start(top) + 1 /\ start(top) \in Nat
  BY <1>1, BuiltFacts
<1>9. index = 0
  BY <1>5, <1>7, <1>8
<1>10. Node(top, 0) = Root
  BY <1>8 DEF Node, Root
<1> QED
  BY <1>4, <1>5, <1>9, <1>10 DEF IsRoot

(* A hash that is equal to the root was computed at its level.             *)
LEMMA RootIsRight ==
  ASSUME IndInv, phase = "verify", IsRoot
  PROVE  ClaimRight
<1>1. index = 0 /\ h = Root /\ TreeBuilt
  BY DEF IsRoot, TreeBuilt
<1>2. /\ level \in Nat
      /\ \/ level = 0 /\ h = Hash(claim.aa, claim.index)
         \/ h = hashNode(h[4], h[5], index, level)
  BY DEF IndInv, TypeOK, HashTagged
<1>3. nLeaves # 0
  <2>1. ASSUME nLeaves = 0 PROVE FALSE
    <3>1. buf = <<hashEmpty(0, 0)>>
      BY <1>1, <2>1 DEF IndInv, BuildPosition
    <3>2. h = hashEmpty(0, 0)
      BY <1>1, <3>1 DEF Root
    <3> QED
      BY <1>2, <3>2, HashKinds
  <2> QED
    BY <2>1
<1>4. /\ top \in Nat /\ count(top) = 1 /\ Len(buf) = start(top) + 1
      /\ start(top) \in Nat
  BY <1>1, <1>3, BuiltFacts
<1>5. h = Node(top, 0)
  BY <1>1, <1>4 DEF Node, Root
<1>6. top \in 0..top /\ Wide(top) = 1 /\ 0 < Wide(top)
  BY <1>4 DEF Wide
<1>7. \/ top = 0 /\ Node(top, 0) = Hash(stream[0 + 1], 0)
      \/ /\ top # 0
         /\ Node(top, 0) = hashNode(Node(top - 1, 2 * 0), Node(top - 1, 2 * 0 + 1), 0, top)
      \/ Node(top, 0) = hashEmpty(0, top)
  BY <1>1, <1>3, <1>6, NodeKinds
<1>8. level = top
  <2>1. CASE level = 0 /\ h = Hash(claim.aa, claim.index)
    BY <1>2, <1>5, <1>7, <2>1, HashKinds
  <2>2. CASE h = hashNode(h[4], h[5], index, level)
    <3>1. Node(top, 0)
            = hashNode(Node(top - 1, 2 * 0), Node(top - 1, 2 * 0 + 1), 0, top)
      BY <1>5, <1>7, <2>2, HashKinds
    <3> QED
      BY <1>5, <2>2, <3>1, HashNodeInjective
  <2> QED
    BY <1>2, <2>1, <2>2
<1>9. level <= top /\ index < Wide(level) /\ h = Node(level, index)
  BY <1>1, <1>4, <1>5, <1>6, <1>8
<1> QED
  BY <1>3, <1>9 DEF IndInv, OnTreeIsRight

LEMMA VerdictStep ==
  ASSUME IndInv, VerifyDone
  PROVE  IndInv'
<1>1. /\ phase = "verify" /\ rest = <<>> /\ UNCHANGED <<tree, cursor, proof, check>>
      /\ IsRoot => phase' = "valid"
      /\ ~IsRoot => phase' = "rejected"
  BY DEF VerifyDone
<1>2. phase' \in {"valid", "rejected"}
  BY <1>1
<1>3. TreeRight' /\ TypeOK' /\ PathRight' /\ StartPosition'
  BY <1>1, <1>2, VerdictKeeps
<1>4. (HonestProof' <=> HonestProof) /\ (ClaimRight' <=> ClaimRight)
  BY <1>1 DEF HonestProof, ClaimRight, nLeaves, tree, proof, check
<1>5. Complete'
  <2>1. phase' = "rejected" => ~HonestProof
    BY <1>1, HonestEnds
  <2> QED
    BY <1>4, <2>1 DEF Complete
<1>6. Sound'
  <2>1. phase' = "valid" => ClaimRight
    BY <1>1, RootIsRight
  <2> QED
    BY <1>4, <2>1 DEF Sound, ClaimRight
<1>7. ReadsLevel' /\ HashTagged' /\ OnTreeIsRight'
  BY <1>2 DEF ReadsLevel, HashTagged, OnTreeIsRight
<1> QED
  BY <1>3, <1>5, <1>6, <1>7 DEF IndInv, TreeRight

-----------------------------------------------------------------------------
(* The invariant.                                                          *)

LEMMA InvInitially == Init => IndInv
<1> SUFFICES ASSUME Init PROVE IndInv
  OBVIOUS
<1>1. /\ phase = "hash" /\ stream \in Streams /\ stream \in Seq(Assertions) /\ leaf = -1
      /\ buf = <<>> /\ path = <<>> /\ level = 0 /\ offset = 0
  BY MerkleAssumption DEF Init
<1>2. IsSequence(buf) /\ IsSequence(path)
  BY <1>1, EmptyIsSequence
<1>3. TypeOK /\ StartPosition
  BY <1>1, <1>2, MerkleAssumption DEF Init, TypeOK, NoClaim, StartPosition
<1>4. TreeRight
  BY <1>1 DEF TreeRight, LevelsRight, LevelsFit, NodesRight, BuildPosition, NodeCountRight, HasTree,
              TreeBuilt
<1>5. PathParts /\ VerifyParts
  BY <1>1, <1>2 DEF PathParts, PathRight, ReadsLevel, VerifyParts, HashTagged,
                    OnTreeIsRight, Complete, Sound
<1> QED
  BY <1>3, <1>4, <1>5 DEF IndInv, TreeRight, PathParts, VerifyParts

LEMMA InvStep == IndInv /\ [Next]_vars => IndInv'
<1> SUFFICES ASSUME IndInv, [Next]_vars PROVE IndInv'
  OBVIOUS
<1>1. CASE ComputeTree
  BY <1>1, BuildStep
<1>2. CASE AuthenticationPath
  <2>1. 0..MaxIndex \subseteq Nat
    BY MerkleAssumption
  <2> QED
    BY <1>2, <2>1, RefusedStep, StartStep, StepStep, DoneStep DEF AuthenticationPath
<1>3. CASE VerifyAuthenticationPath
  <2>1. 0..MaxIndex \subseteq Nat
    BY MerkleAssumption
  <2> QED
    BY <1>3, <2>1, VerifyStartStep, VerifyStepStep, TruncatedStep, VerdictStep
       DEF VerifyAuthenticationPath
<1>4. CASE UNCHANGED vars
  <2>1. /\ UNCHANGED <<stream, phase, buf, level, offset, nNodes, levels>>
        /\ UNCHANGED <<header, index, leaf, path, claim, rest, h>>
    BY <1>4 DEF vars, tree, cursor, proof, check
  <2>2. TypeOK' /\ StartPosition'
    BY <2>1 DEF IndInv, TypeOK, IsSequence, StartPosition
  <2>3. LevelsRight' /\ LevelsFit' /\ BuildPosition' /\ NodeCountRight'
    BY <2>1 DEF IndInv, LevelsRight, LevelsFit, BuildPosition, NodeCountRight, HasTree, TreeBuilt,
                TreeNodeCount, nLeaves, top, start, count
  <2>4. NodesRight'
    BY <2>1 DEF IndInv, NodesRight, HasTree, nLeaves, top, start, count, Node
  <2>5. PathRight'
    <3>1. /\ nLeaves' = nLeaves /\ top' = top
          /\ \A l : count(l)' = count(l)
          /\ \A l, i : Node(l, i)' = Node(l, i)
      BY <2>1 DEF nLeaves, top, start, count, Node
    <3>2. HonestProof' <=> HonestProof
      BY <2>1, <3>1 DEF HonestProof
    <3>3. \A trail : IsTrail(trail)' <=> IsTrail(trail)
      BY <2>1, <3>1 DEF IsTrail
    <3>4. \A trail : FollowsTrail(trail)' <=> FollowsTrail(trail)
      BY <2>1, <3>1 DEF FollowsTrail, IsSequence
    <3> QED
      BY <2>1, <3>1, <3>2, <3>3, <3>4 DEF IndInv, PathRight, IsSequence
  <2>6. ReadsLevel' /\ HashTagged' /\ OnTreeIsRight' /\ Complete' /\ Sound'
    BY <2>1 DEF IndInv, ReadsLevel, HashTagged, OnTreeIsRight, Complete, Sound, ClaimRight,
                HonestProof, Wide, nLeaves, top, start, count, Node, hashNode, sibling,
                Even
  <2> QED
    BY <2>2, <2>3, <2>4, <2>5, <2>6 DEF IndInv
<1> QED
  BY <1>1, <1>2, <1>3, <1>4 DEF Next

(* The invariant of ComputeTree, AuthenticationPath and                    *)
(* VerifyAuthenticationPath holds for batches of every size.               *)
THEOREM TreeInvariant == Spec => []IndInv
BY InvInitially, InvStep, PTL DEF Spec

(* TreeNodeCount is the number of nodes that ComputeTree wrote, whatever   *)
(* the number of leaves.                                                   *)
THEOREM NodesAreCounted == Spec => []NodeCountRight
<1>1. IndInv => NodeCountRight
  BY DEF IndInv
<1> QED
  BY <1>1, TreeInvariant, PTL

(* AuthenticationPath, on a tree in memory or on a file, never reads past  *)
(* the level it is at.                                                     *)
THEOREM PathReadsItsLevel == Spec => []ReadsLevel
<1>1. IndInv => ReadsLevel
  BY DEF IndInv
<1> QED
  BY <1>1, TreeInvariant, PTL

(* VerifyAuthenticationPath accepts the path of every leaf.                *)
THEOREM PathsAreAccepted == Spec => []Complete
<1>1. IndInv => Complete
  BY DEF IndInv
<1> QED
  BY <1>1, TreeInvariant, PTL

(* VerifyAuthenticationPath accepts no assertion where the batch has       *)
(* another one or none, whatever path is presented.                        *)
THEOREM NothingElseIsAccepted == Spec => []Sound
<1>1. IndInv => Sound
  BY DEF IndInv
<1> QED
  BY <1>1, TreeInvariant, PTL

-----------------------------------------------------------------------------
(* The tree that the assertions define.                                    *)

(* The nodes of the tree that is defined.                                  *)
LEMMA SubtreeFacts ==
  \A l \in Nat, i \in Nat :
    Subtree[l][i] =
      IF i * Pow2[l] >= nLeaves THEN hashEmpty(i, l)
      ELSE IF l = 0 THEN Hash(stream[i + 1], i)
      ELSE hashNode(Subtree[l - 1][2 * i], Subtree[l - 1][2 * i + 1], i, l)
<1> DEFINE Equation(f) ==
      f = [l \in Nat |->
            [i \in Nat |->
               IF i * Pow2[l] >= nLeaves THEN hashEmpty(i, l)
               ELSE IF l = 0 THEN Hash(stream[i + 1], i)
               ELSE hashNode(f[l - 1][2 * i], f[l - 1][2 * i + 1], i, l)]]
<1>1. Subtree = CHOOSE f : Equation(f)
  BY DEF Subtree
<1>2. PICK f : IsFunction("Subtree", f)
  BY FunctionExists
<1>3. ASSUME NEW l \in Nat
      PROVE  ValueAt("Subtree", f, l)
               = [i \in Nat |->
                    IF i * Pow2[l] >= nLeaves THEN hashEmpty(i, l)
                    ELSE IF l = 0 THEN Hash(stream[i + 1], i)
                    ELSE hashNode(f[l - 1][2 * i], f[l - 1][2 * i + 1], i, l)]
  <2>1. CASE l = 0
    <3>1. ValueAt("Subtree", f, l) = Base("Subtree")
      BY <2>1 DEF ValueAt
    <3> QED
      BY <2>1, <3>1 DEF Base
  <2>2. CASE l # 0
    <3>1. ValueAt("Subtree", f, l) = Further("Subtree", l, f[l - 1])
      BY <2>2 DEF ValueAt
    <3> QED
      BY <2>2, <3>1 DEF Further
  <2> QED
    BY <2>1, <2>2
<1>4. Equation(f)
  BY <1>2, <1>3 DEF IsFunction
<1> HIDE DEF Equation
<1>5. Equation(Subtree)
  BY <1>1, <1>4, Zenon
<1>6. Subtree = [l \in Nat |->
            [i \in Nat |->
               IF i * Pow2[l] >= nLeaves THEN hashEmpty(i, l)
               ELSE IF l = 0 THEN Hash(stream[i + 1], i)
               ELSE hashNode(Subtree[l - 1][2 * i], Subtree[l - 1][2 * i + 1], i, l)]]
  BY <1>5 DEF Equation
<1> QED
  BY <1>6

(* How many nodes come before a level.                                     *)
LEMMA BeforeFacts ==
  /\ Before[0] = 0
  /\ \A l \in Nat : Before[l + 1] = LevelWidth(l) + Before[l]
<1> DEFINE B == {0}
           add == [n \in Nat |-> LevelWidth(n - 1)]
           below == [n \in Nat |-> n - 1]
           Equation(f) == f = [n \in Nat |-> IF n = 0 THEN 0
                                             ELSE LevelWidth(n - 1) + f[n - 1]]
<1>1. Before = CHOOSE f : Equation(f)
  BY DEF Before
<1>2. \E f : Equation(f)
  <2>1. ASSUME NEW n \in Nat \ B PROVE below[n] \in Nat /\ below[n] < n
    OBVIOUS
  <2> HIDE DEF B, add, below
  <2>2. PICK f : Satisfies(f, B, 0, add, below)
    BY <2>1, RecursionExists
  <2>3. ASSUME NEW n \in Nat
        PROVE  Value(f, n, B, 0, add, below)
                 = IF n = 0 THEN 0 ELSE LevelWidth(n - 1) + f[n - 1]
    BY DEF Value, B, add, below
  <2>4. Equation(f)
    BY <2>2, <2>3 DEF Satisfies
  <2> QED
    BY <2>4
<1> HIDE DEF Equation
<1>3. Equation(Before)
  BY <1>1, <1>2, Zenon
<1>4. \A n \in Nat : Before[n] = IF n = 0 THEN 0
                                 ELSE LevelWidth(n - 1) + Before[n - 1]
  BY <1>3 DEF Equation
<1>5. ASSUME NEW l \in Nat PROVE Before[l + 1] = LevelWidth(l) + Before[l]
  <2>1. l + 1 \in Nat /\ l + 1 # 0 /\ (l + 1) - 1 = l
    OBVIOUS
  <2> QED
    BY <1>4, <2>1
<1> QED
  BY <1>4, <1>5

(* Division that rounds up.                                                *)
LEMMA RoundedUp ==
  ASSUME NEW n \in Nat, NEW p \in Nat \ {0}, NEW w \in Nat,
         n <= w * p, (w - 1) * p < n
  PROVE  (n + p - 1) \div p = w
<1>1. w * p <= n + p - 1 /\ n + p - 1 < w * p + p
  OBVIOUS
<1> QED
  BY <1>1

(* The levels of the tree that was built have the width that is defined,   *)
(* and there are at most as many as leaves.                                *)
LEMMA CountIsWidth ==
  ASSUME IndInv, TreeBuilt, nLeaves # 0
  PROVE  \A l \in 0..top :
           /\ nLeaves <= count(l) * Pow2[l] /\ (count(l) - 1) * Pow2[l] < nLeaves
           /\ Width(l) = count(l)
           /\ count(l) + l <= nLeaves
<1>1. /\ nLeaves \in Nat /\ top \in Nat /\ count(0) = nLeaves
      /\ \A l \in 0..top : count(l) \in Nat \ {0}
      /\ \A l \in 0..top - 1 : count(l) # 1 /\ count(l + 1) = Even(count(l)) \div 2
  BY BuiltFacts
<1> DEFINE Fits(l) == /\ nLeaves <= count(l) * Pow2[l]
                      /\ (count(l) - 1) * Pow2[l] < nLeaves
                      /\ count(l) + l <= nLeaves
           P == {l \in Nat : l <= top => Fits(l)}
<1>2. ASSUME NEW l \in Nat, \A m \in Nat : m < l => m \in P, l <= top
      PROVE  Fits(l)
  <2>1. CASE l = 0
    <3>1. Pow2[l] = 1 /\ count(l) = nLeaves
      BY <1>1, <2>1, Pow2Facts
    <3> QED
      BY <1>1, <2>1, <3>1
  <2>2. CASE l # 0
    <3>1. PICK m \in Nat : l = m + 1
      BY <2>2
    <3>2. m \in 0..top - 1 /\ m \in 0..top /\ m < l /\ m <= top
      BY <1>1, <1>2, <3>1
    <3>3. Fits(m)
      BY <1>2, <3>2
    <3>4. /\ Pow2[m] \in Nat \ {0} /\ Pow2[l] = 2 * Pow2[m]
          /\ count(m) \in Nat \ {0} /\ count(m) # 1
          /\ count(l) = Even(count(m)) \div 2
      BY <1>1, <3>1, <3>2, Pow2Facts
    <3>5. nLeaves <= count(l) * Pow2[l] /\ (count(l) - 1) * Pow2[l] < nLeaves
      BY <1>1, <3>3, <3>4, HalvedGroups
    <3>6. count(l) < count(m) /\ count(l) \in Nat
      <4>1. count(m) \in Nat /\ count(m) >= 2
        BY <3>4
      <4> QED
        BY <3>4, <4>1, EvenFacts
    <3> QED
      BY <1>1, <3>1, <3>3, <3>4, <3>5, <3>6
  <2> QED
    BY <2>1, <2>2
<1>3. \A l \in Nat : (\A m \in Nat : m < l => m \in P) => l \in P
  BY <1>2
<1> HIDE DEF P
<1>4. \A l \in Nat : l \in P
  BY <1>3, NumbersInduction
<1>5. ASSUME NEW l \in 0..top PROVE Fits(l) /\ Width(l) = count(l)
  <2>1. l \in Nat /\ l <= top
    BY <1>1
  <2>2. Fits(l)
    BY <1>4, <2>1 DEF P
  <2>3. Pow2[l] \in Nat \ {0} /\ count(l) \in Nat
    BY <1>1, <2>1, Pow2Facts
  <2> QED
    BY <1>1, <2>2, <2>3, RoundedUp DEF Width
<1> QED
  BY <1>5

(* The top level is the lowest with one node.                              *)
LEMMA TopIsHeight ==
  ASSUME IndInv, TreeBuilt, nLeaves # 0
  PROVE  Height = top
<1> DEFINE IsHeight(l) == Width(l) <= 1 /\ \A m \in 0..l - 1 : Width(m) > 1
<1>1. /\ nLeaves \in Nat /\ top \in Nat /\ count(top) = 1
      /\ \A l \in 0..top : count(l) \in Nat \ {0}
      /\ \A l \in 0..top - 1 : count(l) # 1
  BY BuiltFacts
<1>2. \A l \in 0..top : Width(l) = count(l) /\ count(l) + l <= nLeaves
  BY CountIsWidth
<1>3. top \in 0..nLeaves /\ IsHeight(top)
  <2>1. top \in 0..top
    BY <1>1
  <2>2. Width(top) = 1 /\ 1 + top <= nLeaves
    BY <1>1, <1>2, <2>1
  <2>3. ASSUME NEW m \in 0..top - 1 PROVE Width(m) > 1
    <3>1. m \in 0..top
      BY <1>1
    <3>2. Width(m) = count(m) /\ count(m) \in Nat \ {0} /\ count(m) # 1
      BY <1>1, <1>2, <3>1
    <3> QED
      BY <3>2
  <2> QED
    BY <1>1, <2>2, <2>3
<1>4. ASSUME NEW l \in 0..nLeaves, IsHeight(l) PROVE l = top
  <2>1. CASE l < top
    <3>1. l \in 0..top /\ l \in 0..top - 1
      BY <1>1, <2>1
    <3>2. Width(l) = count(l) /\ count(l) \in Nat \ {0} /\ count(l) # 1
      BY <1>1, <1>2, <3>1
    <3> QED
      BY <1>4, <3>2
  <2>2. CASE top < l
    <3>1. top \in 0..l - 1 /\ top \in 0..top
      BY <1>1, <2>2
    <3>2. Width(top) > 1 /\ Width(top) = 1
      BY <1>1, <1>2, <1>4, <3>1
    <3> QED
      BY <3>2
  <2> QED
    BY <1>1, <2>1, <2>2
<1> HIDE DEF IsHeight
<1>5. Height = CHOOSE l \in 0..nLeaves : IsHeight(l)
  BY DEF Height, IsHeight
<1>6. Height \in 0..nLeaves /\ IsHeight(Height)
  BY <1>3, <1>5, Zenon
<1> QED
  BY <1>4, <1>6

(* Each level starts after all nodes of those below it.                    *)
LEMMA StartIsBefore ==
  ASSUME IndInv, TreeBuilt, nLeaves # 0
  PROVE  \A l \in 0..top : Before[l] = start(l) /\ LevelWidth(l) = Wide(l)
<1>1. /\ top \in Nat /\ start(0) = 0 /\ count(top) = 1
      /\ \A l \in 0..top : start(l) \in Nat /\ count(l) \in Nat \ {0}
      /\ \A l \in 0..top - 1 : start(l + 1) = start(l) + Even(count(l))
  BY BuiltFacts
<1>2. \A l \in 0..top : Width(l) = count(l)
  BY CountIsWidth
<1>3. Height = top
  BY TopIsHeight
<1>4. ASSUME NEW l \in 0..top
      PROVE  LevelWidth(l) = Wide(l) /\ (l < top => LevelWidth(l) = Even(count(l)))
  <2>1. CASE l = top
    BY <1>1, <1>3, <2>1 DEF LevelWidth, Wide
  <2>2. CASE l # top
    <3>1. l < top /\ Width(l) = count(l) /\ count(l) \in Nat
      BY <1>1, <1>2, <2>2
    <3>2. Even(count(l)) = count(l) + (count(l) % 2)
      BY <3>1 DEF Even
    <3> QED
      BY <1>3, <3>1, <3>2 DEF LevelWidth, Wide
  <2> QED
    BY <2>1, <2>2
<1> DEFINE P == {l \in Nat : l <= top => Before[l] = start(l)}
<1>5. ASSUME NEW l \in Nat, \A m \in Nat : m < l => m \in P, l <= top
      PROVE  Before[l] = start(l)
  <2>1. CASE l = 0
    BY <1>1, <2>1, BeforeFacts
  <2>2. CASE l # 0
    <3>1. PICK m \in Nat : l = m + 1
      BY <2>2
    <3>2. m \in 0..top - 1 /\ m \in 0..top /\ m < l /\ m <= top /\ m < top
      BY <1>1, <1>5, <3>1
    <3>3. Before[m] = start(m)
      BY <1>5, <3>2
    <3>4. Before[l] = Even(count(m)) + start(m)
      BY <1>4, <3>1, <3>2, <3>3, BeforeFacts
    <3>5. start(l) = start(m) + Even(count(m)) /\ start(m) \in Nat /\ count(m) \in Nat
      BY <1>1, <3>1, <3>2
    <3>6. Even(count(m)) \in Nat
      BY <3>5, EvenFacts
    <3> QED
      BY <3>4, <3>5, <3>6
  <2> QED
    BY <2>1, <2>2
<1>6. \A l \in Nat : (\A m \in Nat : m < l => m \in P) => l \in P
  BY <1>5
<1> HIDE DEF P
<1>7. \A l \in Nat : l \in P
  BY <1>6, NumbersInduction
<1>8. ASSUME NEW l \in 0..top PROVE Before[l] = start(l)
  BY <1>1, <1>7 DEF P
<1> QED
  BY <1>4, <1>8

(* A node of a level is empty exactly when it is past the count.           *)
LEMMA EmptyPastCount ==
  ASSUME IndInv, TreeBuilt, nLeaves # 0, NEW l \in 0..top, NEW i \in Nat
  PROVE  i * Pow2[l] >= nLeaves <=> i >= count(l)
<1>1. /\ nLeaves \in Nat /\ top \in Nat /\ count(l) \in Nat \ {0}
  BY BuiltFacts
<1>2. nLeaves <= count(l) * Pow2[l] /\ (count(l) - 1) * Pow2[l] < nLeaves
  BY CountIsWidth
<1>3. Pow2[l] \in Nat
  BY <1>1, Pow2Facts
<1>4. CASE i >= count(l)
  <2>1. count(l) * Pow2[l] <= i * Pow2[l]
    BY <1>1, <1>3, <1>4, ProductMonotonic
  <2>2. count(l) * Pow2[l] \in Int /\ i * Pow2[l] \in Int
    BY <1>1, <1>3
  <2> QED
    BY <1>1, <1>2, <1>4, <2>1, <2>2
<1>5. CASE ~(i >= count(l))
  <2>1. i <= count(l) - 1 /\ count(l) - 1 \in Int
    BY <1>1, <1>5
  <2>2. i * Pow2[l] <= (count(l) - 1) * Pow2[l]
    BY <1>3, <2>1, ProductMonotonic
  <2>3. (count(l) - 1) * Pow2[l] \in Int /\ i * Pow2[l] \in Int
    BY <1>3, <2>1
  <2> QED
    BY <1>1, <1>2, <1>5, <2>2, <2>3
<1> QED
  BY <1>4, <1>5

(* Every node that was written is the one that is defined.                 *)
LEMMA NodeIsSubtree ==
  ASSUME IndInv, TreeBuilt, nLeaves # 0
  PROVE  \A l \in 0..top : \A i \in Nat : i < Wide(l) => Node(l, i) = Subtree[l][i]
<1>1. /\ nLeaves \in Nat /\ top \in Nat /\ count(0) = nLeaves /\ count(top) = 1
      /\ \A l \in 0..top : count(l) \in Nat \ {0}
      /\ \A l \in 0..top - 1 : count(l + 1) = Even(count(l)) \div 2
  BY BuiltFacts
<1>2. /\ \A k \in 0..nLeaves - 1 : Node(0, k) = Hash(stream[k + 1], k)
      /\ \A m \in 0..top - 1 :
           /\ count(m) % 2 = 1 => Node(m, count(m)) = hashEmpty(count(m), m)
           /\ \A k \in 0..count(m + 1) - 1 :
                Node(m + 1, k) = hashNode(Node(m, 2 * k), Node(m, 2 * k + 1), k, m + 1)
  BY DEF IndInv, NodesRight, HasTree, TreeBuilt
<1> DEFINE P == {l \in Nat : l <= top =>
                   \A i \in Nat : i < Wide(l) => Node(l, i) = Subtree[l][i]}
<1>3. ASSUME NEW l \in Nat, \A m \in Nat : m < l => m \in P, l <= top,
             NEW i \in Nat, i < Wide(l)
      PROVE  Node(l, i) = Subtree[l][i]
  <2>1. l \in 0..top /\ count(l) \in Nat
    BY <1>1, <1>3
  <2>2. i * Pow2[l] >= nLeaves <=> i >= count(l)
    BY <2>1, EmptyPastCount
  <2>3. CASE i >= count(l)
    <3>1. l < top /\ i < Even(count(l))
      BY <1>3, <2>1, <2>3 DEF Wide
    <3>2. count(l) % 2 = 1 /\ i = count(l) /\ l \in 0..top - 1
      BY <1>1, <2>1, <2>3, <3>1 DEF Even
    <3>3. Node(l, i) = hashEmpty(i, l)
      BY <1>2, <3>2
    <3>4. Subtree[l][i] = hashEmpty(i, l)
      BY <2>2, <2>3, SubtreeFacts
    <3> QED
      BY <3>3, <3>4
  <2>4. CASE ~(i >= count(l)) /\ l = 0
    <3>1. i \in 0..nLeaves - 1
      BY <1>1, <2>4
    <3>2. Node(l, i) = Hash(stream[i + 1], i)
      BY <1>2, <2>4, <3>1
    <3>3. Subtree[l][i] = Hash(stream[i + 1], i)
      BY <2>2, <2>4, SubtreeFacts
    <3> QED
      BY <3>2, <3>3
  <2>5. CASE ~(i >= count(l)) /\ l # 0
    <3>1. PICK m \in Nat : l = m + 1 /\ m = l - 1
      BY <2>5
    <3>2. m \in 0..top - 1 /\ m \in 0..top /\ m < l /\ m <= top /\ m < top
      BY <1>1, <1>3, <3>1
    <3>3. i \in 0..count(l) - 1
      BY <2>1, <2>5
    <3>4. Node(l, i) = hashNode(Node(m, 2 * i), Node(m, 2 * i + 1), i, l)
      BY <1>2, <3>1, <3>2, <3>3
    <3>5. /\ 2 * i \in Nat /\ 2 * i + 1 \in Nat
          /\ 2 * i < Wide(m) /\ 2 * i + 1 < Wide(m)
      <4>1. count(l) = Even(count(m)) \div 2 /\ count(m) \in Nat
        BY <1>1, <3>1, <3>2
      <4>2. Even(count(m)) \in Nat /\ 2 * count(l) = Even(count(m))
        BY <4>1, EvenFacts
      <4>3. Wide(m) = Even(count(m))
        BY <3>2 DEF Wide
      <4> QED
        BY <2>1, <3>3, <4>2, <4>3
    <3>6. Node(m, 2 * i) = Subtree[m][2 * i] /\ Node(m, 2 * i + 1) = Subtree[m][2 * i + 1]
      <4>1. m \in P
        BY <1>3, <3>2
      <4> QED
        BY <3>2, <3>5, <4>1
    <3>7. Subtree[l][i] = hashNode(Subtree[m][2 * i], Subtree[m][2 * i + 1], i, l)
      BY <2>2, <2>5, <3>1, SubtreeFacts
    <3> QED
      BY <3>4, <3>6, <3>7
  <2> QED
    BY <2>3, <2>4, <2>5
<1>4. \A l \in Nat : (\A m \in Nat : m < l => m \in P) => l \in P
  BY <1>3
<1> HIDE DEF P
<1>5. \A l \in Nat : l \in P
  BY <1>4, NumbersInduction
<1>6. \A l \in 0..top : l \in P /\ l \in Nat /\ l <= top
  BY <1>1, <1>5
<1> QED
  BY <1>6 DEF P

(* A batch without assertions.                                             *)
LEMMA EmptyAsDefined ==
  ASSUME IndInv, nLeaves = 0
  PROVE  TreeAsDefined
<1> DEFINE IsHeight(l) == Width(l) <= 1 /\ \A m \in 0..l - 1 : Width(m) > 1
<1>1. ASSUME TreeBuilt
      PROVE  buf = <<hashEmpty(0, 0)>>
  BY <1>1 DEF IndInv, BuildPosition
<1>2. Pow2[0] = 1
  BY Pow2Facts
<1>3. Width(0) = 0
  BY <1>2 DEF Width
<1>4. IsHeight(0)
  BY <1>3
<1>5. Height = CHOOSE l \in 0..nLeaves : IsHeight(l)
  BY DEF Height
<1> HIDE DEF IsHeight
<1>6. 0 \in 0..nLeaves /\ \A l \in 0..nLeaves : l = 0
  OBVIOUS
<1>7. Height \in 0..nLeaves
  BY <1>4, <1>5, <1>6, Zenon
<1>8. Height = 0
  BY <1>6, <1>7
<1>9. LevelWidth(0) = 1 /\ LevelWidth(Height) = 1
  BY <1>8 DEF LevelWidth
<1>10. Before[0] = 0 /\ Before[Height] = 0
  BY <1>8, BeforeFacts
<1>11. Subtree[0][0] = hashEmpty(0, 0)
  BY <1>2, SubtreeFacts
<1>12. ASSUME TreeBuilt
       PROVE  Len(buf) = 1 /\ buf[1] = hashEmpty(0, 0)
  BY <1>1, <1>12
<1> QED
  BY <1>8, <1>9, <1>10, <1>11, <1>12 DEF TreeAsDefined

(* The tree is as defined in every state.                                  *)
LEMMA BuiltAsDefined ==
  ASSUME IndInv, nLeaves # 0
  PROVE  TreeAsDefined
<1> SUFFICES ASSUME TreeBuilt
             PROVE  /\ Len(buf) = Before[Height] + LevelWidth(Height)
                    /\ \A l \in 0..Height : \A i \in 0..LevelWidth(l) - 1 :
                         buf[Before[l] + i + 1] = Subtree[l][i]
  BY DEF TreeAsDefined
<1>1. /\ top \in Nat /\ count(top) = 1 /\ Len(buf) = start(top) + 1
      /\ \A l \in 0..top : count(l) \in Nat \ {0}
  BY BuiltFacts
<1>2. Height = top
  BY TopIsHeight
<1>3. \A l \in 0..top : Before[l] = start(l) /\ LevelWidth(l) = Wide(l)
  BY StartIsBefore
<1>4. top \in 0..top /\ Wide(top) = 1
  BY <1>1 DEF Wide
<1>5. ASSUME NEW l \in 0..top, NEW i \in 0..LevelWidth(l) - 1
      PROVE  buf[Before[l] + i + 1] = Subtree[l][i]
  <2>1. LevelWidth(l) = Wide(l) /\ Before[l] = start(l) /\ count(l) \in Nat
    BY <1>1, <1>3
  <2>2. Wide(l) \in Nat
    BY <2>1, EvenFacts DEF Wide
  <2>3. i \in Nat /\ i < Wide(l)
    BY <2>1, <2>2
  <2>4. Node(l, i) = Subtree[l][i]
    BY <2>3, NodeIsSubtree
  <2> QED
    BY <2>1, <2>4 DEF Node
<1> QED
  BY <1>1, <1>2, <1>3, <1>4, <1>5

(* ComputeTree writes the tree that the assertions define, for batches of  *)
(* every size: all nodes of every level, each at its place and nothing     *)
(* else.                                                                   *)
THEOREM TreeIsAsDefined == Spec => []TreeAsDefined
<1>1. IndInv => TreeAsDefined
  BY EmptyAsDefined, BuiltAsDefined
<1> QED
  BY <1>1, TreeInvariant, PTL
=============================================================================
