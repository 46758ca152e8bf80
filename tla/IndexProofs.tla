---------------------------- MODULE IndexProofs -----------------------------
(***************************************************************************)
(* ComputeIndex and Search are correct for every key length and batch.     *)
(*                                                                         *)
(* IndInv says what the two loops of ComputeIndex have done so far, and    *)
(* between which keys Search still looks (Bracket).  GuessInside is the    *)
(* arithmetic of the interpolation: the rounded guess stays in [i, j].     *)
(***************************************************************************)
EXTENDS Index, Recursion, SequenceTheorems, TLAPS

(* The rounded guess lies in the interval.                                 *)
LEMMA GuessInside ==
  ASSUME NEW n \in Nat, NEW x \in Nat, NEW y \in Nat, x <= n, n <= y, x < y,
         NEW lo \in Nat, NEW hi \in Nat, lo <= hi
  PROVE  lo + ((n - x) * (hi - lo) + (y - x) \div 2) \div (y - x) \in lo..hi
<1> DEFINE d == y - x
           u == n - x
           m == hi - lo
           w == u * m + d \div 2
           q == w \div d
<1>1. d \in Nat /\ d > 0 /\ u \in Nat /\ u <= d /\ m \in Nat
  OBVIOUS
<1>2. d \div 2 \in Nat /\ d \div 2 < d
  BY <1>1
<1> HIDE DEF d, u, m
<1>3. u * m \in Nat
  BY <1>1
<1>4. u * m <= d * m
  <2>1. PICK c \in Nat : d = u + c
    <3>1. d - u \in Nat /\ d = u + (d - u)
      BY <1>1
    <3> QED
      BY <3>1
  <2>2. d * m = u * m + c * m /\ c * m >= 0
    BY <1>1, <2>1
  <2> QED
    BY <1>1, <1>3, <2>2
<1>5. d * (m + 1) = d * m + d /\ d * m \in Nat
  BY <1>1
<1>6. w \in Nat /\ w < d * (m + 1)
  BY <1>1, <1>2, <1>3, <1>4, <1>5
<1> HIDE DEF w
<1>7. q \in Int /\ q >= 0 /\ d * q <= w
  BY <1>1, <1>6
<1> HIDE DEF q
<1>8. q <= m
  <2>1. ASSUME m + 1 <= q PROVE FALSE
    <3>1. PICK c \in Nat : q = m + 1 + c
      <4>1. q - (m + 1) \in Nat /\ q = m + 1 + (q - (m + 1))
        BY <1>1, <1>7, <2>1
      <4> QED
        BY <4>1
    <3>2. d * q = d * (m + 1) + d * c /\ d * c >= 0 /\ d * q \in Int
      BY <1>1, <3>1
    <3> QED
      BY <1>1, <1>5, <1>6, <1>7, <3>2
  <2> QED
    BY <1>1, <1>7, <2>1
<1>9. lo + q \in lo..hi
  BY <1>1, <1>7, <1>8 DEF m
<1> QED
  BY <1>9 DEF q, w, d, u, m

(* Search probes inside of its interval.                                   *)
LEMMA ProbeStaysInside == TypeOK /\ Bracket => ProbeInside
<1> SUFFICES ASSUME TypeOK, Bracket, phase = "probe"
             PROVE  intGuess \in i..j
  BY DEF ProbeInside
<1>1. /\ i \in Nat /\ j \in Nat /\ i <= j
      /\ a \in Nat /\ b \in Nat /\ needle \in Nat
      /\ a <= needle /\ needle <= b /\ a < b
  BY IndexAssumption DEF TypeOK, Bracket, Keys
<1> QED
  BY <1>1, GuessInside DEF intGuess

-----------------------------------------------------------------------------
(* The steps of ComputeIndex.                                              *)

(* Reading appends the entry of the next assertion.                        *)
LEMMA ReadStep ==
  ASSUME TypeOK, EntriesRead, ReadAssertion
  PROVE  /\ entries' \in Seq(Entry)
         /\ offset' \in Nat
         /\ EntriesRead'
<1> DEFINE key == stream[Len(entries) + 1]
           e == [key |-> key, seqno |-> Len(entries), offset |-> offset]
<1>1. /\ phase = "read" /\ Len(entries) < Len(stream)
      /\ entries' = Append(entries, e) /\ offset' = offset + Size[key]
      /\ UNCHANGED <<stream, phase, pos, lastKey, file>>
  BY DEF ReadAssertion, NextOffset
<1>2. entries \in Seq(Entry) /\ stream \in Seq(Keys) /\ offset \in Nat
      /\ Len(entries) \in Nat /\ Len(stream) \in Nat
  BY LenProperties DEF TypeOK
<1>3. key \in Keys
  BY <1>1, <1>2, ElementOfSeq
<1>4. e \in Entry
  BY <1>2, <1>3 DEF Entry
<1>5. offset' \in Nat
  <2>1. Size[key] \in Nat
    BY <1>3, IndexAssumption
  <2> QED
    BY <1>1, <1>2, <2>1
<1> HIDE DEF e, key
<1>6. /\ entries' \in Seq(Entry)
      /\ Len(entries') = Len(entries) + 1
      /\ DOMAIN entries' = 1..(Len(entries) + 1)
      /\ \A k \in 1..Len(entries) : entries'[k] = entries[k]
      /\ entries'[Len(entries) + 1] = e
      /\ DOMAIN entries = 1..Len(entries)
  BY <1>1, <1>2, <1>4, AppendProperties, LenProperties
<1>7. e.key = stream[Len(entries) + 1] /\ e.seqno = Len(entries)
  BY DEF e, key
<1>8. EntriesRead'
  <2>1. \A k \in 1..(Len(entries) + 1) :
          entries'[k].key = stream[k] /\ entries'[k].seqno = k - 1
    <3>1. ASSUME NEW k \in 1..Len(entries)
          PROVE  entries'[k].key = stream[k] /\ entries'[k].seqno = k - 1
      BY <1>1, <1>6 DEF EntriesRead
    <3>2. Len(entries) = (Len(entries) + 1) - 1
      BY <1>2
    <3>3. 1..(Len(entries) + 1) = 1..Len(entries) \cup {Len(entries) + 1}
      BY <1>2
    <3> QED
      BY <1>6, <1>7, <3>1, <3>2, <3>3
  <2> QED
    BY <1>1, <1>2, <1>6, <2>1 DEF EntriesRead
<1> QED
  BY <1>5, <1>6, <1>8

(* Sorting permutes the entries.                                           *)
LEMMA SortStep ==
  ASSUME TypeOK, EntriesRead, Sort
  PROVE  /\ entries' \in Seq(Entry)
         /\ Len(entries') = Len(entries)
         /\ EntriesSorted' /\ FileSoFar'
<1>1. /\ phase = "read" /\ phase' = "write" /\ Len(entries) = Len(stream)
      /\ SortedByKey(entries')
      /\ UNCHANGED <<stream, offset, pos, lastKey, file>>
  BY DEF Sort
<1>2. PICK f \in Bijection(DOMAIN entries, DOMAIN entries) :
        entries' = [k \in DOMAIN entries |-> entries[f[k]]]
  BY DEF Sort
<1>3. /\ entries \in Seq(Entry) /\ stream \in Seq(Keys) /\ Len(entries) \in Nat
      /\ DOMAIN entries = 1..Len(entries) /\ DOMAIN stream = 1..Len(entries)
      /\ \A k \in DOMAIN entries : entries[k] \in Entry
  BY <1>1, LenProperties, ElementOfSeq DEF TypeOK
<1>4. /\ f \in [DOMAIN entries -> DOMAIN entries]
      /\ \A k \in DOMAIN entries : \E l \in DOMAIN entries : f[l] = k
  BY DEF Bijection, Injection, Surjection
<1>5. DOMAIN entries' = DOMAIN entries
      /\ \A k \in DOMAIN entries : entries'[k] = entries[f[k]] /\ entries'[k] \in Entry
  BY <1>2, <1>3, <1>4
<1>6. entries' \in [1..Len(entries) -> Entry]
  BY <1>2, <1>3, <1>5
<1>7. entries' \in Seq(Entry) /\ Len(entries') = Len(entries)
  BY <1>3, <1>6, SeqDef
<1>8. \A k \in DOMAIN entries :
        entries[k].key = stream[k] /\ entries[k].seqno = k - 1
  BY <1>1 DEF EntriesRead
<1>9. \A k \in DOMAIN entries' : IsEntryOf(entries[f[k]])
  <2>1. ASSUME NEW l \in DOMAIN entries PROVE IsEntryOf(entries[l])
    <3>1. entries[l].key = stream[l] /\ entries[l].seqno = l - 1 /\ l \in Int
      BY <1>3, <1>8
    <3>2. entries[l].seqno + 1 = l
      BY <3>1
    <3> QED
      BY <1>3, <3>1, <3>2 DEF IsEntryOf
  <2> QED
    BY <1>4, <1>5, <2>1
<1>10. KeysOf(entries') = Range(stream)
  <2>1. \A k \in DOMAIN entries' : entries'[k].key = stream[f[k]]
    BY <1>4, <1>5, <1>8
  <2>2. KeysOf(entries') \subseteq Range(stream)
    BY <1>3, <1>4, <1>5, <2>1, SMTT(30) DEF KeysOf, Range
  <2>3. ASSUME NEW x \in Range(stream) PROVE x \in KeysOf(entries')
    <3>1. PICK k \in DOMAIN entries : x = stream[k]
      BY <1>3, <2>3 DEF Range
    <3>2. PICK l \in DOMAIN entries : f[l] = k
      BY <1>4
    <3> QED
      BY <1>5, <2>1, <3>1, <3>2 DEF KeysOf
  <2> QED
    BY <2>2, <2>3
<1>11. EntriesSorted'
  BY <1>1, <1>5, <1>9, <1>10 DEF EntriesSorted, IsEntryOf, KeysOf
<1>12. FileSoFar'
  <2>1. file' = <<>> /\ pos' = 0 /\ lastKey' = 0
    BY <1>1 DEF EntriesRead
  <2>2. KeysSeen' = {} /\ KeysOf(file') = {} /\ DOMAIN file' = {}
    BY <2>1 DEF KeysSeen, KeysOf
  <2> QED
    BY <1>1, <2>1, <2>2 DEF FileSoFar, StrictlySorted, Written
<1> QED
  BY <1>7, <1>11, <1>12

(* Writing skips a key seen before and appends a new one, which is larger. *)
LEMMA WriteStep ==
  ASSUME TypeOK, EntriesSorted, FileSoFar, WriteEntry
  PROVE  /\ file' \in Seq(Entry) /\ lastKey' \in Keys
         /\ pos' \in 0..Len(entries)
         /\ FileSoFar'
<1> DEFINE e == entries[pos + 1]
<1>1. /\ phase = "write" /\ pos < Len(entries) /\ pos' = pos + 1
      /\ UNCHANGED <<stream, phase, entries>>
      /\ IF lastKey = e.key THEN UNCHANGED <<lastKey, file>>
         ELSE lastKey' = e.key /\ file' = Append(file, e)
  BY DEF WriteEntry, IsDuplicate
<1>2. /\ entries \in Seq(Entry) /\ file \in Seq(Entry)
      /\ Len(entries) \in Nat /\ pos \in Nat /\ Len(file) \in Nat
      /\ DOMAIN entries = 1..Len(entries) /\ DOMAIN file = 1..Len(file)
      /\ lastKey \in Keys
  BY LenProperties DEF TypeOK
<1>k. lastKey \in Nat /\ \A k \in Keys : k \in Nat
  BY <1>2, IndexAssumption DEF Keys
<1>3. pos + 1 \in DOMAIN entries /\ pos' \in 0..Len(entries)
  BY <1>1, <1>2
<1>4. e \in Entry
  BY <1>2, <1>3, ElementOfSeq
<1>5. e.key \in Keys /\ e.key \in Nat
  BY <1>4, <1>k DEF Entry
<1>6. IsEntryOf(e)
  BY <1>1, <1>3 DEF EntriesSorted
<1>7. \A k \in 1..pos : k \in DOMAIN entries /\ entries[k].key <= e.key
  BY <1>1, <1>2, <1>3 DEF EntriesSorted, SortedByKey
<1>8. KeysSeen' = KeysSeen \cup {e.key}
  <2>1. 1..(pos + 1) = 1..pos \cup {pos + 1}
    BY <1>2
  <2>2. KeysSeen' = {entries[k].key : k \in 1..(pos + 1)}
    BY <1>1 DEF KeysSeen
  <2> QED
    BY <2>1, <2>2 DEF KeysSeen
<1>9. /\ StrictlySorted(file) /\ KeysOf(file) = KeysSeen \ {0}
      /\ \A k \in DOMAIN file : file[k].key <= lastKey /\ IsEntryOf(file[k])
      /\ lastKey \in KeysSeen \cup {0}
  BY <1>1 DEF FileSoFar
<1>10. ~Written'
  BY <1>1 DEF Written
<1> HIDE DEF e
<1>11. CASE lastKey = e.key
  <2>1. UNCHANGED <<lastKey, file>>
    BY <1>1, <1>11
  <2>2. KeysSeen' \ {0} = KeysSeen \ {0} /\ KeysSeen \subseteq KeysSeen'
    BY <1>8, <1>9, <1>11
  <2> QED
    BY <1>1, <1>2, <1>3, <1>9, <1>10, <2>1, <2>2
       DEF FileSoFar, StrictlySorted, KeysOf, IsEntryOf
<1>12. CASE lastKey # e.key
  <2>1. lastKey' = e.key /\ file' = Append(file, e)
    BY <1>1, <1>12
  <2>2. lastKey < e.key
    <3>1. lastKey <= e.key
      <4>1. CASE lastKey = 0
        BY <1>5, <4>1
      <4>2. CASE lastKey \in KeysSeen
        BY <1>7, <4>2 DEF KeysSeen
      <4> QED
        BY <1>9, <4>1, <4>2
    <3> QED
      BY <1>k, <1>5, <1>12, <3>1
  <2>3. /\ file' \in Seq(Entry)
        /\ DOMAIN file' = 1..(Len(file) + 1)
        /\ \A k \in 1..Len(file) : file'[k] = file[k]
        /\ file'[Len(file) + 1] = e
    BY <1>2, <1>4, <2>1, AppendProperties, LenProperties
  <2>4. 1..(Len(file) + 1) = 1..Len(file) \cup {Len(file) + 1}
    BY <1>2
  <2>5. \A k \in DOMAIN file : file[k].key \in Nat /\ file[k].key < e.key
    <3>1. ASSUME NEW k \in DOMAIN file PROVE file[k].key \in Nat
      <4>1. file[k] \in Entry
        BY <1>2, ElementOfSeq
      <4> QED
        BY <1>k, <4>1 DEF Entry
    <3> QED
      BY <1>k, <1>5, <1>9, <2>2, <3>1
  <2>6. StrictlySorted(file')
    <3> SUFFICES ASSUME NEW k \in DOMAIN file', NEW l \in DOMAIN file', k < l
                 PROVE  file'[k].key < file'[l].key
      BY DEF StrictlySorted
    <3>1. k \in DOMAIN file
      BY <1>2, <2>3
    <3>2. CASE l \in DOMAIN file
      BY <1>2, <1>9, <2>3, <3>1, <3>2 DEF StrictlySorted
    <3>3. CASE l = Len(file) + 1
      BY <1>2, <2>3, <2>5, <3>1, <3>3
    <3> QED
      BY <1>2, <2>3, <2>4, <3>2, <3>3
  <2>7. KeysOf(file') = KeysOf(file) \cup {e.key}
    BY <1>2, <2>3, <2>4 DEF KeysOf
  <2>8. KeysOf(file') = KeysSeen' \ {0}
    <3>1. e.key # 0
      BY <1>k, <1>5, <2>2
    <3> QED
      BY <1>8, <1>9, <2>7, <3>1
  <2>9. \A k \in DOMAIN file' : file'[k].key <= e.key /\ IsEntryOf(file'[k])
    <3>1. ASSUME NEW k \in 1..Len(file)
          PROVE  file'[k].key <= e.key /\ IsEntryOf(file'[k])
      BY <1>2, <1>5, <1>9, <2>3, <2>5
    <3>2. e.key <= e.key
      BY <1>5
    <3> QED
      BY <1>6, <2>3, <2>4, <3>1, <3>2
  <2>10. \A k \in DOMAIN file' : file'[k].key <= lastKey' /\ IsEntryOf(file[k])'
    BY <1>1, <2>1, <2>9 DEF IsEntryOf
  <2>11. lastKey' \in KeysSeen'
    BY <1>8, <2>1
  <2> QED
    BY <1>2, <1>3, <1>5, <1>10, <2>1, <2>3, <2>6, <2>8, <2>10, <2>11
       DEF FileSoFar
<1> QED
  BY <1>11, <1>12

-----------------------------------------------------------------------------
(* The steps of Search.                                                    *)

(* What ComputeIndex leaves is what IndexExact asks for.                   *)
LEMMA FileExact == EntriesSorted /\ FileSoFar /\ TypeOK => IndexExact
<1> SUFFICES ASSUME EntriesSorted, FileSoFar, TypeOK, Written
             PROVE  /\ StrictlySorted(file)
                    /\ KeysOf(file) = Range(stream) \ {0}
                    /\ \A k \in DOMAIN file : IsEntryOf(file[k])
  BY DEF IndexExact
<1>1. phase # "read" /\ pos = Len(entries)
  BY DEF Written, FileSoFar
<1>2. DOMAIN entries = 1..pos
  BY <1>1, LenProperties DEF TypeOK
<1>3. KeysSeen = Range(stream)
  BY <1>1, <1>2 DEF KeysSeen, KeysOf, EntriesSorted
<1> QED
  BY <1>1, <1>3 DEF FileSoFar

(* A key that falls between two neighbours is not in the file.             *)
LEMMA Gap ==
  ASSUME file \in Seq(Entry), StrictlySorted(file), NEW n \in Nat,
         NEW g \in -1..(Len(file) - 1),
         g >= 0 => KeyAt(g) < n,
         g < Len(file) - 1 => n < KeyAt(g + 1)
  PROVE  n \notin KeysOf(file)
<1> SUFFICES ASSUME NEW k \in DOMAIN file, file[k].key = n PROVE FALSE
  BY DEF KeysOf
<1>1. Len(file) \in Nat /\ DOMAIN file = 1..Len(file)
  BY LenProperties
<1>2. \A l \in DOMAIN file : file[l].key \in Nat
  <2>1. ASSUME NEW l \in DOMAIN file PROVE file[l].key \in Nat
    <3>1. file[l] \in Entry
      BY <1>1, ElementOfSeq
    <3>2. file[l].key \in Keys
      BY <3>1 DEF Entry
    <3> QED
      BY <3>2, IndexAssumption DEF Keys
  <2> QED
    BY <2>1
<1>3. CASE k <= g + 1
  <2>1. g + 1 \in DOMAIN file /\ file[g + 1].key < n
    BY <1>1, <1>3 DEF KeyAt
  <2>2. k < g + 1 => file[k].key < file[g + 1].key
    BY <2>1 DEF StrictlySorted
  <2>3. k = g + 1 \/ k < g + 1
    BY <1>1, <1>3
  <2> QED
    BY <1>2, <2>1, <2>2, <2>3
<1>4. CASE ~(k <= g + 1)
  <2>1. g + 2 \in DOMAIN file /\ n < file[g + 2].key
    <3>1. g < Len(file) - 1 /\ g + 1 + 1 = g + 2
      BY <1>1, <1>4
    <3> QED
      BY <1>1, <1>4, <3>1 DEF KeyAt
  <2>2. g + 2 < k => file[g + 2].key < file[k].key
    BY <2>1 DEF StrictlySorted
  <2>3. k = g + 2 \/ g + 2 < k
    BY <1>1, <1>4
  <2> QED
    BY <1>2, <2>1, <2>2, <2>3
<1> QED
  BY <1>3, <1>4

(* What a probe reads.                                                     *)
LEMMA ProbeFacts ==
  ASSUME TypeOK, Bracket, phase = "probe"
  PROVE  /\ intGuess \in i..j /\ intGuess \in Nat
         /\ i \in Nat /\ j \in Nat /\ j < Len(file) /\ Len(file) \in Nat
         /\ intGuess + 1 \in DOMAIN file
         /\ KeyAt(intGuess) \in Keys /\ KeyAt(intGuess) \in Nat
         /\ needle \in Nat /\ a \in Nat /\ b \in Nat
<1>1. intGuess \in i..j
  BY ProbeStaysInside DEF ProbeInside
<1>2. /\ i \in Nat /\ j \in Nat /\ j < Len(file) /\ Len(file) \in Nat
      /\ DOMAIN file = 1..Len(file) /\ file \in Seq(Entry)
  BY LenProperties DEF TypeOK, Bracket
<1>3. needle \in Nat /\ a \in Nat /\ b \in Nat
  BY IndexAssumption DEF TypeOK, Keys
<1> DEFINE g == intGuess
<1>4. g \in i..j
  BY <1>1
<1> HIDE DEF g
<1>5. g \in Nat /\ g + 1 \in 1..Len(file)
  BY <1>2, <1>4
<1>6. file[g + 1] \in Entry
  BY <1>2, <1>5, ElementOfSeq
<1>7. KeyAt(g) \in Keys /\ KeyAt(g) \in Nat
  BY <1>6, IndexAssumption DEF KeyAt, Entry, Keys
<1> QED
  BY <1>2, <1>3, <1>4, <1>5, <1>7 DEF g

(* A probe that reads a smaller key keeps the bracket, or ends the search  *)
(* rightly.                                                                *)
LEMMA BelowStep ==
  ASSUME TypeOK, Bracket, IndexExact, ProbeBelow
  PROVE  /\ a' \in Keys /\ i' \in 0..Len(file)
         /\ Bracket' /\ Answer'
         /\ phase' \in {"probe", "absent"}
         /\ phase' = "probe" => j' - i' < j - i
<1> DEFINE g == intGuess
<1>1. /\ phase = "probe" /\ KeyAt(g) < needle /\ a' = KeyAt(g) /\ i' = g + 1
      /\ phase' = (IF g + 1 > j THEN "absent" ELSE "probe")
      /\ UNCHANGED <<stream, file, needle, j, b>>
  BY DEF ProbeBelow, Above, Finished
<1>2. /\ g \in i..j /\ g \in Nat
      /\ i \in Nat /\ j \in Nat /\ j < Len(file) /\ Len(file) \in Nat
      /\ KeyAt(g) \in Keys /\ KeyAt(g) \in Nat
      /\ needle \in Nat /\ a \in Nat /\ b \in Nat
  BY <1>1, ProbeFacts
<1>3. /\ needle <= b
      /\ j < Len(file) - 1 => b = KeyAt(j + 1) /\ needle < b
  BY <1>1 DEF Bracket
<1> HIDE DEF g
<1>4. CASE g + 1 > j
  <2>1. g = j /\ phase' = "absent" /\ g \in -1..(Len(file) - 1)
    BY <1>1, <1>2, <1>4
  <2>2. Written /\ file \in Seq(Entry)
    BY <1>1 DEF Written, TypeOK
  <2>3. StrictlySorted(file) /\ KeysOf(file) = Range(stream) \ {0}
    BY <2>2 DEF IndexExact
  <2>4. needle \notin KeysOf(file)
    BY <1>1, <1>2, <1>3, <2>1, <2>2, <2>3, Gap
  <2>5. Answer' /\ Bracket'
    BY <1>1, <2>1, <2>3, <2>4 DEF Answer, Bracket
  <2> QED
    BY <1>1, <1>2, <2>1, <2>5
<1>5. CASE ~(g + 1 > j)
  <2>1. phase' = "probe" /\ i' <= j /\ i' > 0 /\ i' - 1 = g
    BY <1>1, <1>2, <1>5
  <2>2. KeyAt(i - 1)' = KeyAt(g) /\ KeyAt(j + 1)' = KeyAt(j + 1)
    BY <1>1, <2>1 DEF KeyAt
  <2>3. Bracket'
    BY <1>1, <1>2, <1>3, <2>1, <2>2 DEF Bracket
  <2>4. Answer'
    BY <2>1 DEF Answer
  <2> QED
    BY <1>1, <1>2, <2>1, <2>3, <2>4
<1> QED
  BY <1>4, <1>5

(* The same for a probe that reads a larger key.                           *)
LEMMA AboveStep ==
  ASSUME TypeOK, Bracket, IndexExact, ProbeAbove
  PROVE  /\ b' \in Keys /\ j' \in -1..Len(file)
         /\ Bracket' /\ Answer'
         /\ phase' \in {"probe", "absent"}
         /\ phase' = "probe" => j' - i' < j - i
<1> DEFINE g == intGuess
<1>1. /\ phase = "probe" /\ KeyAt(g) > needle /\ b' = KeyAt(g) /\ j' = g - 1
      /\ phase' = (IF i > g - 1 THEN "absent" ELSE "probe")
      /\ UNCHANGED <<stream, file, needle, i, a>>
  BY DEF ProbeAbove, UpperKey, Finished
<1>2. /\ g \in i..j /\ g \in Nat
      /\ i \in Nat /\ j \in Nat /\ j < Len(file) /\ Len(file) \in Nat
      /\ KeyAt(g) \in Keys /\ KeyAt(g) \in Nat
      /\ needle \in Nat /\ a \in Nat /\ b \in Nat
  BY <1>1, ProbeFacts
<1>3. /\ a <= needle
      /\ i > 0 => a = KeyAt(i - 1) /\ a < needle
  BY <1>1 DEF Bracket
<1> HIDE DEF g
<1>4. CASE i > g - 1
  <2>1. g = i /\ phase' = "absent" /\ g - 1 \in -1..(Len(file) - 1)
        /\ g - 1 + 1 = g
    BY <1>1, <1>2, <1>4
  <2>2. Written /\ file \in Seq(Entry)
    BY <1>1 DEF Written, TypeOK
  <2>3. StrictlySorted(file) /\ KeysOf(file) = Range(stream) \ {0}
    BY <2>2 DEF IndexExact
  <2>4. g - 1 >= 0 => KeyAt(g - 1) < needle
    BY <1>2, <1>3, <2>1
  <2>5. needle < KeyAt(g - 1 + 1)
    BY <1>1, <1>2, <2>1
  <2>6. needle \notin KeysOf(file)
    BY <1>2, <2>1, <2>2, <2>3, <2>4, <2>5, Gap
  <2>7. Answer' /\ Bracket'
    BY <1>1, <2>1, <2>3, <2>6 DEF Answer, Bracket
  <2> QED
    BY <1>1, <1>2, <2>1, <2>7
<1>5. CASE ~(i > g - 1)
  <2>1. phase' = "probe" /\ i <= j' /\ j' < Len(file) - 1 /\ j' + 1 = g
    BY <1>1, <1>2, <1>5
  <2>2. KeyAt(i - 1)' = KeyAt(i - 1) /\ KeyAt(j + 1)' = KeyAt(g)
    BY <1>1, <2>1 DEF KeyAt
  <2>3. Bracket'
    BY <1>1, <1>2, <1>3, <2>1, <2>2 DEF Bracket
  <2>4. Answer'
    BY <2>1 DEF Answer
  <2> QED
    BY <1>1, <1>2, <2>1, <2>3, <2>4
<1> QED
  BY <1>4, <1>5

(* A hit returns an assertion with the key.                                *)
LEMMA FoundStep ==
  ASSUME TypeOK, Bracket, IndexExact, Found
  PROVE  result' \in Entry /\ Answer' /\ Bracket'
<1> DEFINE e == file[intGuess + 1]
<1>1. /\ phase = "probe" /\ e.key = needle /\ phase' = "found" /\ result' = e
      /\ UNCHANGED <<stream, file, needle>>
  BY DEF Found, KeyAt
<1>2. intGuess + 1 \in DOMAIN file /\ file \in Seq(Entry)
  BY <1>1, ProbeFacts DEF TypeOK
<1>3. e \in Entry
  BY <1>2, ElementOfSeq, LenProperties
<1>4. IsEntryOf(e)
  BY <1>1, <1>2 DEF IndexExact, Written
<1> QED
  BY <1>1, <1>3, <1>4 DEF Answer, Bracket, IsEntryOf

(* A search starts with the whole file.                                    *)
LEMMA StartStep ==
  ASSUME TypeOK, NEW n \in Keys, SearchStart(n)
  PROVE  /\ i' \in 0..Len(file) /\ j' \in -1..Len(file)
         /\ a' \in Keys /\ b' \in Keys
         /\ Bracket' /\ Answer'
<1>1. /\ Len(file) # 0 /\ phase' = "probe" /\ needle' = n /\ file' = file
      /\ i' = 0 /\ j' = Len(file) - 1 /\ a' = 0 /\ b' = KeyMax
  BY DEF SearchStart, HasReader
<1>2. Len(file) \in Nat /\ Len(file) > 0
  BY <1>1, LenProperties DEF TypeOK
<1>3. KeyMax \in Nat /\ KeyMax > 0 /\ n \in 0..KeyMax
  BY IndexAssumption DEF Keys
<1>4. Bracket'
  BY <1>1, <1>2, <1>3 DEF Bracket
<1> QED
  BY <1>1, <1>2, <1>3, <1>4 DEF Answer, Keys

(* Nothing is found in an empty file, and rightly so.                      *)
LEMMA EmptyStep ==
  ASSUME TypeOK, IndexExact, NEW n \in Keys, SearchEmpty(n)
  PROVE  Answer' /\ Bracket'
<1>1. /\ Written /\ file = <<>> /\ phase' = "absent" /\ stream' = stream
  BY EmptySeq DEF TypeOK, SearchEmpty, HasReader, CanSearch, Written
<1>2. KeysOf(file) = {}
  BY <1>1 DEF KeysOf
<1>3. Range(stream) \ {0} = {}
  BY <1>1, <1>2 DEF IndexExact
<1> QED
  BY <1>1, <1>3 DEF Answer, Bracket

(* Steps that leave the index alone keep what is known of it.              *)
LEMMA IndexUnchanged ==
  ASSUME EntriesRead, EntriesSorted, FileSoFar, Written, Written',
         UNCHANGED <<stream, building, file>>
  PROVE  EntriesRead' /\ EntriesSorted' /\ FileSoFar'
<1>1. UNCHANGED <<stream, entries, pos, lastKey, file>>
      /\ phase # "read" /\ phase' # "read"
  BY DEF building, Written
<1> QED
  BY <1>1, SMTT(30) DEF EntriesRead, EntriesSorted, FileSoFar, IsEntryOf, KeysOf, KeysSeen,
              SortedByKey, StrictlySorted, Written

(* The invariant holds at first ...                                        *)
LEMMA InitIndInv == Init => IndInv
<1> SUFFICES ASSUME Init PROVE IndInv
  OBVIOUS
<1>1. stream \in Seq(Keys) /\ KeyMax \in Nat \ {0}
  BY IndexAssumption DEF Init
<1>2. <<>> \in Seq(Entry) /\ Len(<<>>) = 0 /\ Len(stream) \in Nat
  BY <1>1, LenProperties
<1>3. TypeOK
  BY <1>1, <1>2 DEF Init, TypeOK, Keys
<1>4. EntriesRead /\ EntriesSorted /\ FileSoFar /\ Bracket /\ Answer
  BY <1>2 DEF Init, EntriesRead, EntriesSorted, FileSoFar, Bracket, Answer
<1> QED
  BY <1>3, <1>4 DEF IndInv

(* ... and every step preserves it.                                        *)
LEMMA StepIndInv == IndInv /\ [Next]_vars => IndInv'
<1> SUFFICES ASSUME IndInv, [Next]_vars PROVE IndInv'
  OBVIOUS
<1> USE DEF building, searching
<1>0. /\ TypeOK /\ EntriesRead /\ EntriesSorted /\ FileSoFar
      /\ Bracket /\ Answer /\ IndexExact
  BY FileExact DEF IndInv
<1>1. CASE ReadAssertion
  <2>1. phase' = "read" /\ UNCHANGED <<stream, phase, pos, lastKey, file, searching>>
    BY <1>1 DEF ReadAssertion
  <2>2. entries' \in Seq(Entry) /\ offset' \in Nat /\ EntriesRead'
    BY <1>0, <1>1, ReadStep
  <2>3. pos' = 0 /\ pos' \in 0..Len(entries')
    BY <2>1, <2>2, LenProperties DEF EntriesRead
  <2>4. TypeOK'
    BY <1>0, <2>1, <2>2, <2>3 DEF TypeOK
  <2> QED
    BY <2>1, <2>2, <2>4 DEF IndInv, EntriesSorted, FileSoFar, Bracket, Answer
<1>2. CASE Sort
  <2>1. phase' = "write" /\ UNCHANGED <<stream, offset, pos, lastKey, file, searching>>
    BY <1>2 DEF Sort
  <2>2. /\ entries' \in Seq(Entry) /\ Len(entries') = Len(entries)
        /\ EntriesSorted' /\ FileSoFar'
    BY <1>0, <1>2, SortStep
  <2>3. TypeOK'
    BY <1>0, <2>1, <2>2 DEF TypeOK
  <2> QED
    BY <2>1, <2>2, <2>3 DEF IndInv, EntriesRead, Bracket, Answer
<1>3. CASE WriteEntry
  <2>1. phase' = "write" /\ UNCHANGED <<stream, phase, offset, entries, searching>>
    BY <1>3 DEF WriteEntry
  <2>2. /\ file' \in Seq(Entry) /\ lastKey' \in Keys
        /\ pos' \in 0..Len(entries) /\ FileSoFar'
    BY <1>0, <1>3, WriteStep
  <2>3. i' \in 0..Len(file') /\ j' \in -1..Len(file')
    <3>1. file' = file \/ file' = Append(file, entries[pos + 1])
      BY <1>3 DEF WriteEntry
    <3>2. entries[pos + 1] \in Entry
      <4>1. pos + 1 \in 1..Len(entries) /\ entries \in Seq(Entry)
        BY <1>0, <1>3, LenProperties DEF WriteEntry, TypeOK
      <4> QED
        BY <4>1, ElementOfSeq
    <3>3. Len(file') = Len(file) \/ Len(file') = Len(file) + 1
      BY <1>0, <3>1, <3>2, AppendProperties DEF TypeOK
    <3>4. Len(file) \in Nat /\ i \in 0..Len(file) /\ j \in -1..Len(file)
      BY <1>0, LenProperties DEF TypeOK
    <3>5. i' = i /\ j' = j
      BY <2>1
    <3> QED
      BY <3>3, <3>4, <3>5
  <2>4. TypeOK'
    BY <1>0, <2>1, <2>2, <2>3 DEF TypeOK
  <2>5. EntriesSorted'
    BY <1>0, <1>3, <2>1
       DEF WriteEntry, EntriesSorted, SortedByKey, KeysOf, IsEntryOf
  <2> QED
    BY <2>1, <2>2, <2>4, <2>5 DEF IndInv, EntriesRead, Bracket, Answer
<1>4. CASE WriteDone
  <2>1. /\ phase = "write" /\ pos = Len(entries) /\ phase' = "ready"
        /\ UNCHANGED <<stream, offset, entries, pos, lastKey, file, searching>>
    BY <1>4 DEF WriteDone
  <2>2. TypeOK'
    BY <1>0, <2>1 DEF TypeOK
  <2>3. EntriesSorted'
    BY <1>0, <2>1 DEF EntriesSorted, SortedByKey, KeysOf, IsEntryOf
  <2>4. FileSoFar'
    <3>1. KeysSeen' = KeysSeen /\ KeysOf(file)' = KeysOf(file)
          /\ StrictlySorted(file)' = StrictlySorted(file)
      BY <2>1 DEF KeysSeen, KeysOf, StrictlySorted
    <3>2. \A k \in DOMAIN file : IsEntryOf(file[k])' = IsEntryOf(file[k])
      BY <2>1 DEF IsEntryOf
    <3> QED
      BY <1>0, <2>1, <3>1, <3>2 DEF FileSoFar
  <2> QED
    BY <2>1, <2>2, <2>3, <2>4 DEF IndInv, EntriesRead, Bracket, Answer
<1>5. ASSUME NEW n \in Keys, SearchEmpty(n) PROVE IndInv'
  <2>1. /\ phase' = "absent" /\ needle' = n /\ result' = Nil /\ Written /\ Written'
        /\ UNCHANGED <<stream, building, file, i, j, a, b>>
    BY <1>5 DEF SearchEmpty, CanSearch, Written
  <2>2. TypeOK'
    BY <1>0, <2>1 DEF TypeOK
  <2>3. EntriesRead' /\ EntriesSorted' /\ FileSoFar'
    BY <1>0, <2>1, IndexUnchanged
  <2>4. Answer' /\ Bracket'
    BY <1>0, <1>5, EmptyStep
  <2> QED
    BY <2>2, <2>3, <2>4 DEF IndInv
<1>6. ASSUME NEW n \in Keys, SearchStart(n) PROVE IndInv'
  <2>1. /\ phase' = "probe" /\ needle' = n /\ result' = Nil /\ Written /\ Written'
        /\ UNCHANGED <<stream, building, file>>
    BY <1>6 DEF SearchStart, CanSearch, Written
  <2>2. /\ i' \in 0..Len(file) /\ j' \in -1..Len(file)
        /\ a' \in Keys /\ b' \in Keys /\ Bracket' /\ Answer'
    BY <1>0, <1>6, StartStep
  <2>3. TypeOK'
    BY <1>0, <2>1, <2>2 DEF TypeOK
  <2>4. EntriesRead' /\ EntriesSorted' /\ FileSoFar'
    BY <1>0, <2>1, IndexUnchanged
  <2> QED
    BY <2>2, <2>3, <2>4 DEF IndInv
<1>7. CASE Found
  <2>1. /\ phase' = "found" /\ Written /\ Written'
        /\ UNCHANGED <<stream, building, file, needle, i, j, a, b>>
    BY <1>7 DEF Found, Written
  <2>2. result' \in Entry /\ Answer' /\ Bracket'
    BY <1>0, <1>7, FoundStep
  <2>3. TypeOK'
    BY <1>0, <2>1, <2>2 DEF TypeOK
  <2>4. EntriesRead' /\ EntriesSorted' /\ FileSoFar'
    BY <1>0, <2>1, IndexUnchanged
  <2> QED
    BY <2>2, <2>3, <2>4 DEF IndInv
<1>8. CASE ProbeBelow
  <2>1. Written /\ UNCHANGED <<stream, building, file, needle, j, b, result>>
    BY <1>8 DEF ProbeBelow, Written
  <2>2. /\ a' \in Keys /\ i' \in 0..Len(file) /\ Bracket' /\ Answer'
        /\ phase' \in {"probe", "absent"}
    BY <1>0, <1>8, BelowStep
  <2>3. TypeOK'
    BY <1>0, <2>1, <2>2 DEF TypeOK
  <2>4. EntriesRead' /\ EntriesSorted' /\ FileSoFar'
    BY <1>0, <2>1, <2>2, IndexUnchanged DEF Written
  <2> QED
    BY <2>2, <2>3, <2>4 DEF IndInv
<1>9. CASE ProbeAbove
  <2>1. Written /\ UNCHANGED <<stream, building, file, needle, i, a, result>>
    BY <1>9 DEF ProbeAbove, Written
  <2>2. /\ b' \in Keys /\ j' \in -1..Len(file) /\ Bracket' /\ Answer'
        /\ phase' \in {"probe", "absent"}
    BY <1>0, <1>9, AboveStep
  <2>3. TypeOK'
    BY <1>0, <2>1, <2>2 DEF TypeOK
  <2>4. EntriesRead' /\ EntriesSorted' /\ FileSoFar'
    BY <1>0, <2>1, <2>2, IndexUnchanged DEF Written
  <2> QED
    BY <2>2, <2>3, <2>4 DEF IndInv
<1>10. CASE UNCHANGED vars
  <2> USE <1>0, <1>10 DEF vars
  <2>1. TypeOK' /\ EntriesRead'
    BY DEF TypeOK, EntriesRead
  <2>2. EntriesSorted'
    BY DEF EntriesSorted, IsEntryOf, KeysOf, SortedByKey
  <2>3. FileSoFar'
    <3>1. CASE phase = "read"
      BY <3>1 DEF FileSoFar
    <3>2. CASE phase # "read"
      <4>1. KeysSeen' = KeysSeen /\ KeysOf(file)' = KeysOf(file)
            /\ StrictlySorted(file)' = StrictlySorted(file)
            /\ Written' = Written
        BY DEF KeysSeen, KeysOf, StrictlySorted, Written
      <4>2. \A k \in DOMAIN file : IsEntryOf(file[k])' = IsEntryOf(file[k])
        BY DEF IsEntryOf
      <4> QED
        BY <3>2, <4>1, <4>2 DEF FileSoFar
    <3> QED
      BY <3>1, <3>2
  <2>4. Bracket' /\ Answer'
    BY DEF Bracket, Answer, KeyAt, IsEntryOf
  <2> QED
    BY <2>1, <2>2, <2>3, <2>4 DEF IndInv
<1> QED
  BY <1>1, <1>2, <1>3, <1>4, <1>5, <1>6, <1>7, <1>8, <1>9, <1>10
     DEF Next, Compute, Search, Probe

(* The inductive invariant holds in every reachable state.                 *)
THEOREM Invariance == Spec => []IndInv
BY InitIndInv, StepIndInv, PTL DEF Spec

(* ComputeIndex writes each key of the batch once and in order.            *)
THEOREM IndexIsExact == Spec => []IndexExact
<1>1. IndInv => IndexExact
  BY FileExact DEF IndInv
<1> QED
  BY <1>1, Invariance, PTL

(* Search finds a key exactly if the batch has an assertion with it.       *)
THEOREM SearchIsCorrect == Spec => []Answer
<1>1. IndInv => Answer
  BY DEF IndInv
<1> QED
  BY <1>1, Invariance, PTL

(* The key that Search looks for is never outside of its interval (the     *)
(* updates of i, j, a and b).                                              *)
THEOREM SearchKeepsBracket == Spec => []Bracket
<1>1. IndInv => Bracket
  BY DEF IndInv
<1> QED
  BY <1>1, Invariance, PTL

(* Search reads only inside of its interval, hence of the file, whatever   *)
(* the keys are (the rounded interpolation of intGuess).                   *)
THEOREM SearchReadsInside == Spec => []ProbeInside
<1>1. IndInv => ProbeInside
  BY ProbeStaysInside DEF IndInv
<1> QED
  BY <1>1, Invariance, PTL

(* Every probe of Search that does not decide it narrows the interval, so  *)
(* that it ends after at most as many probes as there are entries.         *)
THEOREM SearchShrinks == Spec => Shrinks
<1>1. IndInv /\ [Next]_vars =>
        [phase = "probe" /\ phase' = "probe" => j' - i' < j - i]_vars
  <2> SUFFICES ASSUME IndInv, Next, phase = "probe", phase' = "probe"
               PROVE  j' - i' < j - i
    OBVIOUS
  <2>1. TypeOK /\ Bracket /\ IndexExact
    BY FileExact DEF IndInv
  <2>2. ProbeBelow \/ ProbeAbove
    BY DEF Next, Compute, ReadAssertion, Sort, WriteEntry, WriteDone, Search,
           SearchEmpty, SearchStart, CanSearch, Probe, Found
  <2> QED
    BY <2>1, <2>2, BelowStep, AboveStep
<1> QED
  BY <1>1, Invariance, PTL DEF Spec, Shrinks

-----------------------------------------------------------------------------
(* The offsets.                                                            *)

(* BytesBefore sums up the lengths.                                        *)
LEMMA BytesBeforeUnfolds ==
  /\ BytesBefore[0] = 0
  /\ \A n \in Nat : BytesBefore[n + 1] = Size[stream[n + 1]] + BytesBefore[n]
<1> DEFINE add == [n \in Nat |-> Size[stream[n]]]
           below == [n \in Nat |-> n - 1]
           Equation(f) == f = [n \in Nat |-> IF n = 0 THEN 0
                                             ELSE Size[stream[n]] + f[n - 1]]
<1>1. BytesBefore = CHOOSE f : Equation(f)
  BY DEF BytesBefore
<1>2. \E f : Equation(f)
  <2>1. \A n \in Nat \ {0} : below[n] \in Nat /\ below[n] < n
    OBVIOUS
  <2> HIDE DEF add, below
  <2>2. PICK f : Satisfies(f, {0}, 0, add, below)
    BY <2>1, RecursionExists
  <2>3. ASSUME NEW n \in Nat
        PROVE  Value(f, n, {0}, 0, add, below)
                 = IF n = 0 THEN 0 ELSE Size[stream[n]] + f[n - 1]
    BY DEF Value, add, below
  <2>4. Equation(f)
    BY <2>2, <2>3 DEF Satisfies
  <2> QED
    BY <2>4
<1> HIDE DEF Equation
<1>3. Equation(BytesBefore)
  BY <1>1, <1>2, Zenon
<1>4. \A n \in Nat : BytesBefore[n] = IF n = 0 THEN 0
                                      ELSE Size[stream[n]] + BytesBefore[n - 1]
  BY <1>3 DEF Equation
<1>5. ASSUME NEW n \in Nat
      PROVE  BytesBefore[n + 1] = Size[stream[n + 1]] + BytesBefore[n]
  <2>1. n + 1 \in Nat /\ n + 1 # 0 /\ (n + 1) - 1 = n
    OBVIOUS
  <2> QED
    BY <1>4, <2>1
<1> QED
  BY <1>4, <1>5

(* Every step keeps the offsets right.                                     *)
LEMMA OffsetsStep ==
  ASSUME IndInv, OffsetsSoFar, [Next]_vars
  PROVE  OffsetsSoFar'
<1> USE DEF building, searching
<1>0. /\ stream' = stream
      /\ entries \in Seq(Entry) /\ Len(entries) \in Nat
      /\ DOMAIN entries = 1..Len(entries)
      /\ file \in Seq(Entry) /\ Len(file) \in Nat /\ DOMAIN file = 1..Len(file)
      /\ stream \in Seq(Keys) /\ offset \in Nat /\ pos \in 0..Len(entries)
  BY LenProperties
     DEF IndInv, TypeOK, Next, Compute, Search, Probe, ReadAssertion, Sort,
         WriteEntry, WriteDone, SearchEmpty, SearchStart, Found, ProbeBelow,
         ProbeAbove, vars
<1>1. BytesBefore' = BytesBefore
  BY <1>0 DEF BytesBefore
<1>2. ASSUME UNCHANGED <<entries, file>>,
             phase' = "read" => phase = "read" /\ offset' = offset
      PROVE  OffsetsSoFar'
  BY <1>1, <1>2 DEF OffsetsSoFar, OffsetsRight
<1>3. CASE ReadAssertion
  <2> DEFINE key == stream[Len(entries) + 1]
             e == [key |-> key, seqno |-> Len(entries), offset |-> offset]
  <2>1. /\ phase = "read" /\ Len(entries) < Len(stream)
        /\ entries' = Append(entries, e)
        /\ offset' = offset + Size[key] /\ file' = file
    BY <1>3 DEF ReadAssertion, NextOffset
  <2>2. /\ offset = BytesBefore[Len(entries)]
        /\ \A k \in 1..Len(entries) :
             entries[k].offset = BytesBefore[entries[k].seqno]
        /\ OffsetsRight
    BY <1>0, <2>1 DEF OffsetsSoFar
  <2>3. e.offset = BytesBefore[e.seqno] /\ e.seqno = Len(entries)
    BY <2>2
  <2>4. key \in Keys /\ Size[key] \in Nat
    <3>1. key \in Keys
      BY <1>0, <2>1, ElementOfSeq
    <3> QED
      BY <3>1, IndexAssumption
  <2>5. offset' = BytesBefore[Len(entries) + 1]
    <3>1. BytesBefore[Len(entries) + 1] = Size[key] + BytesBefore[Len(entries)]
      BY <1>0, BytesBeforeUnfolds
    <3> HIDE DEF key
    <3> QED
      BY <1>0, <2>1, <2>2, <2>4, <3>1
  <2> HIDE DEF key, e
  <2>6. /\ Len(entries') = Len(entries) + 1
        /\ DOMAIN entries' = 1..(Len(entries) + 1)
        /\ \A k \in 1..Len(entries) : entries'[k] = entries[k]
        /\ entries'[Len(entries) + 1] = e
    BY <1>0, <2>1
  <2>7. \A k \in 1..(Len(entries) + 1) :
          entries'[k].offset = BytesBefore[entries'[k].seqno]
    <3>1. 1..(Len(entries) + 1) = 1..Len(entries) \cup {Len(entries) + 1}
      BY <1>0
    <3> QED
      BY <2>2, <2>3, <2>6, <3>1
  <2>8. OffsetsRight'
    BY <1>1, <2>1, <2>2 DEF OffsetsRight
  <2> QED
    BY <1>1, <2>5, <2>6, <2>7, <2>8 DEF OffsetsSoFar
<1>4. CASE Sort
  <2>1. phase' = "write" /\ file' = file
    BY <1>4 DEF Sort
  <2>2. PICK f \in Bijection(DOMAIN entries, DOMAIN entries) :
          entries' = [k \in DOMAIN entries |-> entries[f[k]]]
    BY <1>4 DEF Sort
  <2>3. \A k \in DOMAIN entries : f[k] \in DOMAIN entries
    BY DEF Bijection, Injection
  <2>4. \A k \in DOMAIN entries' :
          entries'[k].offset = BytesBefore[entries'[k].seqno]
    BY <2>2, <2>3 DEF OffsetsSoFar
  <2> QED
    BY <1>1, <2>1, <2>4 DEF OffsetsSoFar, OffsetsRight
<1>5. CASE WriteEntry
  <2>1. /\ phase' = "write" /\ entries' = entries /\ pos < Len(entries)
        /\ file' = file \/ file' = Append(file, entries[pos + 1])
    BY <1>5 DEF WriteEntry
  <2>2. pos + 1 \in DOMAIN entries
    BY <1>0, <2>1
  <2>3. OffsetsRight'
    <3>1. CASE file' = file
      BY <1>1, <3>1 DEF OffsetsSoFar, OffsetsRight
    <3>2. CASE file' = Append(file, entries[pos + 1])
      <4>1. /\ DOMAIN file' = 1..Len(file) \cup {Len(file) + 1}
            /\ \A k \in 1..Len(file) : file'[k] = file[k]
            /\ file'[Len(file) + 1] = entries[pos + 1]
        BY <1>0, <3>2
      <4>2. entries[pos + 1].offset = BytesBefore[entries[pos + 1].seqno]
        BY <2>2 DEF OffsetsSoFar
      <4>3. \A k \in 1..Len(file) : file[k].offset = BytesBefore[file[k].seqno]
        BY <1>0 DEF OffsetsSoFar, OffsetsRight
      <4> QED
        BY <1>1, <4>1, <4>2, <4>3 DEF OffsetsRight
    <3> QED
      BY <2>1, <3>1, <3>2
  <2> QED
    BY <1>1, <2>1, <2>3 DEF OffsetsSoFar
<1>6. CASE WriteDone \/ Search \/ Probe \/ UNCHANGED vars
  BY <1>2, <1>6
     DEF WriteDone, Search, SearchEmpty, SearchStart, Probe, Found, ProbeBelow,
         ProbeAbove, vars
<1> QED
  BY <1>3, <1>4, <1>5, <1>6 DEF Next, Compute

(* The offset written for a key is where an assertion with it begins, for  *)
(* every batch and all lengths (ComputeIndex).                             *)
THEOREM OffsetsAreRight == Spec => []OffsetsRight
<1>1. Init => OffsetsSoFar
  <2> SUFFICES ASSUME Init PROVE OffsetsSoFar
    OBVIOUS
  <2>1. /\ phase = "read" /\ offset = 0 /\ entries = <<>> /\ file = <<>>
        /\ Len(entries) = 0
    BY DEF Init
  <2> QED
    BY <2>1, BytesBeforeUnfolds DEF OffsetsSoFar, OffsetsRight
<1>2. IndInv /\ OffsetsSoFar /\ [Next]_vars => OffsetsSoFar'
  BY OffsetsStep
<1>3. OffsetsSoFar => OffsetsRight
  BY DEF OffsetsSoFar
<1> QED
  BY <1>1, <1>2, <1>3, Invariance, PTL DEF Spec
=============================================================================
