--------------------------- MODULE DecoderProofs ----------------------------
(***************************************************************************)
(* That unmarshal delivers what is in the stream and nothing else, for any *)
(* stream, any sizes of the buffer and of records, and any reads.          *)
(***************************************************************************)
EXTENDS Decoder, TLAPS

-----------------------------------------------------------------------------
(* Streams.                                                                *)

LEMMA StreamFacts ==
  ASSUME TypeOK
  PROVE  /\ stream.ends \in Seq(Nat) /\ stream.size \in Nat
         /\ Records = 1..Len(stream.ends)
         /\ \A i \in Records : stream.ends[i] \in Nat /\ stream.kind[i] \in Kinds
         /\ \A i \in Records : stream.ends[i] - Start(stream, i) \in 1..MaxSize
         /\ \A i \in Records : \A j \in 1..i - 1 : stream.ends[j] < stream.ends[i]
         /\ Len(stream.ends) = 0 => stream.size = 0
         /\ Len(stream.ends) # 0 => stream.size <= stream.ends[Len(stream.ends)]
  BY DecoderAssumption, SMTT(30) DEF TypeOK, Records, Last

LEMMA StartTyped ==
  ASSUME TypeOK
  PROVE  /\ Len(stream.ends) \in Nat
         /\ \A i \in 1..Len(stream.ends) + 1 : Start(stream, i) \in Nat
         /\ \A i \in Records : Start(stream, i) \in Nat
         /\ \A i \in Records : Start(stream, i) < stream.ends[i]
  <1>1. Len(stream.ends) \in Nat
    BY StreamFacts
  <1>2. ASSUME NEW i \in 1..Len(stream.ends) + 1 PROVE Start(stream, i) \in Nat
    <2>1. CASE i = 1
      BY <2>1 DEF Start
    <2>2. CASE i # 1
      <3>1. i - 1 \in Records
        BY <1>1, <2>2, StreamFacts
      <3> QED
        BY <2>2, <3>1, StreamFacts DEF Start
    <2> QED
      BY <2>1, <2>2
  <1>3. \A i \in Records : i \in 1..Len(stream.ends) + 1
    BY <1>1, StreamFacts
  <1>4. ASSUME NEW i \in Records PROVE Start(stream, i) < stream.ends[i]
    <2>1. /\ Start(stream, i) \in Nat /\ stream.ends[i] \in Nat
          /\ stream.ends[i] - Start(stream, i) \in 1..MaxSize
      BY <1>2, <1>3, StreamFacts
    <2> QED
      BY <2>1, DecoderAssumption
  <1> QED
    BY <1>1, <1>2, <1>3, <1>4

(* Records do not begin at the same place.                                 *)
LEMMA StartDistinct ==
  ASSUME TypeOK, NEW i \in Records, NEW j \in 1..Len(stream.ends) + 1,
         Start(stream, i) = Start(stream, j)
  PROVE  i = j
  <1>1. ASSUME NEW a \in Records, NEW b \in 1..Len(stream.ends) + 1, a < b
        PROVE  Start(stream, a) < Start(stream, b)
    <2>1. a \in 1..Len(stream.ends) /\ Len(stream.ends) \in Nat
      BY StreamFacts, StartTyped
    <2>2. b - 1 \in Records /\ a \in 1..b - 1 /\ b # 1
      BY <1>1, <2>1, StreamFacts
    <2>3. Start(stream, b) = stream.ends[b - 1]
      BY <2>2 DEF Start
    <2>4. stream.ends[a] \in Nat /\ stream.ends[b - 1] \in Nat
      BY <2>2, StreamFacts
    <2>5. a # b - 1 => a \in 1..(b - 1) - 1
      BY <2>1, <2>2
    <2>6. stream.ends[a] <= stream.ends[b - 1]
      <3>1. CASE a = b - 1
        BY <2>4, <3>1
      <3>2. CASE a # b - 1
        <4>1. stream.ends[a] < stream.ends[b - 1]
          BY <2>2, <2>5, <3>2, StreamFacts
        <4> QED
          BY <2>4, <4>1
      <3> QED
        BY <3>1, <3>2
    <2>7. Start(stream, a) < stream.ends[a] /\ Start(stream, a) \in Nat
      BY StartTyped
    <2> QED
      BY <2>3, <2>4, <2>6, <2>7
  <1>2. /\ i \in 1..Len(stream.ends) /\ Len(stream.ends) \in Nat
        /\ Start(stream, i) \in Nat /\ Start(stream, j) \in Nat
    BY StreamFacts, StartTyped
  <1>3. ~(i < j)
    BY <1>1, <1>2
  <1>4. ~(j < i)
    <2> SUFFICES ASSUME j < i PROVE FALSE
      OBVIOUS
    <2>1. j \in Records /\ i \in 1..Len(stream.ends) + 1
      BY <1>2, StreamFacts
    <2> QED
      BY <1>1, <1>2, <2>1
  <1> QED
    BY <1>2, <1>3, <1>4

LEMMA BytesAre ==
  ASSUME TypeOK, NEW i \in Records
  PROVE  /\ Bytes(i) \in Seq(Nat)
         /\ Len(Bytes(i)) = stream.ends[i] - Start(stream, i)
         /\ \A k \in 1..Len(Bytes(i)) : Bytes(i)[k] = Start(stream, i) + k
  <1> DEFINE n == stream.ends[i] - Start(stream, i)
             b == Start(stream, i)
  <1>1. n \in Nat /\ b \in Nat
    BY StreamFacts, StartTyped
  <1> HIDE DEF n, b
  <1>2. [k \in 1..n |-> b + k] \in Seq(Nat) /\ Len([k \in 1..n |-> b + k]) = n
    BY <1>1
  <1> QED
    BY <1>1, <1>2 DEF Bytes, n, b

LEMMA PrefixIff ==
  ASSUME NEW a \in Seq(Nat), NEW b \in Seq(Nat)
  PROVE  IsPrefix(a, b) <=> Len(a) <= Len(b) /\ \A k \in 1..Len(a) : a[k] = b[k]
  BY DEF IsPrefix

-----------------------------------------------------------------------------
(* What the buffer holds.                                                  *)

LEMMA SliceIs ==
  ASSUME TypeOK, Window, pc = "decode"
  PROVE  /\ s \in Seq(Nat) /\ Len(s) = len
         /\ \A k \in 1..len : s[k] = offset + k
  <1>1. /\ buf \in Seq(Nat) /\ Len(buf) \in Nat
        /\ from \in Nat /\ len \in Nat /\ from + len <= Len(buf)
        /\ \A k \in 1..len : buf[k + from] = offset + k
    BY DEF TypeOK, Window
  <1>2. Len(SubSeq(buf, from + 1, from + len)) = len
    BY <1>1
  <1>3. SubSeq(buf, from + 1, from + len) \in Seq(Nat)
    BY <1>1
  <1>4. ASSUME NEW k \in 1..len PROVE SubSeq(buf, from + 1, from + len)[k] = offset + k
    <2>1. SubSeq(buf, from + 1, from + len)[k] = buf[k + from]
      BY <1>1, <1>2
    <2> QED
      BY <1>1, <2>1
  <1> QED
    BY <1>2, <1>3, <1>4 DEF s

(* A record is decoded exactly if it is the one that is due, and all of it *)
(* was read.                                                               *)
LEMMA DecodesIff ==
  ASSUME TypeOK, Window, pc = "decode", NEW i \in Records
  PROVE  Decodes(i) <=> i = Due /\ stream.ends[i] <= pos
  <1> DEFINE n == Len(Bytes(i))
  <1>1. /\ n \in Nat \ {0} /\ n = stream.ends[i] - Start(stream, i)
        /\ stream.ends[i] \in Nat /\ Start(stream, i) \in Nat
        /\ Due \in 1..Len(stream.ends) + 1
        /\ offset = Start(stream, Due) /\ pos = offset + len
        /\ offset \in Nat /\ len \in Nat
    <2>1. /\ n = stream.ends[i] - Start(stream, i)
          /\ stream.ends[i] \in Nat /\ Start(stream, i) \in Nat
          /\ Start(stream, i) < stream.ends[i]
      BY BytesAre, StreamFacts, StartTyped
    <2>2. n \in Nat \ {0}
      BY <2>1
    <2> QED
      BY <2>1, <2>2 DEF Window, TypeOK
  <1>2. Decodes(i) <=> n <= len /\ \A k \in 1..n : Bytes(i)[k] = s[k]
    BY SliceIs, BytesAre, PrefixIff DEF Decodes
  <1>3. ASSUME Decodes(i) PROVE i = Due /\ stream.ends[i] <= pos
    <2>1. n <= len /\ Bytes(i)[1] = s[1]
      BY <1>1, <1>2, <1>3, SMTT(30)
    <2>2. Start(stream, i) = offset
      <3>1. 1 \in 1..n /\ 1 \in 1..len
        BY <1>1, <2>1, SMTT(30)
      <3>2. Bytes(i)[1] = Start(stream, i) + 1
        BY <3>1, BytesAre
      <3>3. s[1] = offset + 1
        BY <3>1, SliceIs
      <3>4. Start(stream, i) \in Nat /\ offset \in Nat
        BY <1>1
      <3>5. Start(stream, i) + 1 = offset + 1
        BY <2>1, <3>2, <3>3
      <3> QED
        BY <3>4, <3>5
    <2>3. i = Due
      BY <1>1, <2>2, StartDistinct
    <2> QED
      BY <1>1, <2>1, <2>2, <2>3
  <1>4. ASSUME i = Due, stream.ends[i] <= pos PROVE Decodes(i)
    <2>1. n <= len
      BY <1>1, <1>4
    <2>2. ASSUME NEW k \in 1..n PROVE Bytes(i)[k] = s[k]
      <3>1. k \in 1..len
        BY <1>1, <2>1, SMTT(30)
      <3>2. s[k] = offset + k
        BY <3>1, SliceIs
      <3>3. Bytes(i)[k] = Start(stream, i) + k
        BY BytesAre
      <3> QED
        BY <1>1, <1>4, <3>2, <3>3
    <2> QED
      BY <1>2, <2>1, <2>2
  <1> QED
    BY <1>3, <1>4

(* What is in the buffer is too short exactly if it is empty, or the       *)
(* record that is due goes on, or claims to.                               *)
LEMMA TruncatedIff ==
  ASSUME TypeOK, Window, pc = "decode"
  PROVE  IsTruncated <=>
           \/ len = 0
           \/ Due \in Records /\ (stream.ends[Due] > pos \/ stream.kind[Due] = "short")
  <1>1. /\ Due \in 1..Len(stream.ends) + 1
        /\ offset = Start(stream, Due) /\ pos = offset + len
        /\ offset \in Nat /\ len \in Nat /\ pos \in Nat
    BY DEF Window, TypeOK
  <1>2. s = <<>> <=> len = 0
    BY SliceIs, <1>1
  <1>3. ASSUME NEW i \in Records, len # 0
        PROVE  IsStrictPrefix(s, Bytes(i)) <=> i = Due /\ stream.ends[i] > pos
    <2> DEFINE n == Len(Bytes(i))
    <2>1. /\ n \in Nat /\ n = stream.ends[i] - Start(stream, i)
          /\ stream.ends[i] \in Nat /\ Start(stream, i) \in Nat
      BY BytesAre, StreamFacts, StartTyped
    <2>2. IsPrefix(s, Bytes(i)) <=> len <= n /\ \A k \in 1..len : s[k] = Bytes(i)[k]
      BY SliceIs, BytesAre, PrefixIff
    <2>3. ASSUME IsStrictPrefix(s, Bytes(i)) PROVE i = Due /\ stream.ends[i] > pos
      <3>1. len <= n /\ s[1] = Bytes(i)[1]
        BY <1>1, <1>3, <2>2, <2>3 DEF IsStrictPrefix
      <3>2. Start(stream, i) = offset
        <4>1. 1 \in 1..n /\ 1 \in 1..len
          BY <1>1, <1>3, <2>1, <3>1, SMTT(30)
        <4>2. Bytes(i)[1] = Start(stream, i) + 1
          BY <4>1, BytesAre
        <4>3. s[1] = offset + 1
          BY <4>1, SliceIs
        <4> QED
          BY <1>1, <2>1, <3>1, <4>2, <4>3
      <3>3. i = Due
        BY <1>1, <3>2, StartDistinct
      <3>4. len # n
        <4> SUFFICES ASSUME len = n PROVE FALSE
          OBVIOUS
        <4>1. s = Bytes(i)
          BY <2>2, <2>3, SliceIs, BytesAre DEF IsStrictPrefix
        <4> QED
          BY <2>3, <4>1 DEF IsStrictPrefix
      <3> QED
        BY <1>1, <2>1, <3>1, <3>2, <3>3, <3>4, SMTT(30)
    <2>4. ASSUME i = Due, stream.ends[i] > pos PROVE IsStrictPrefix(s, Bytes(i))
      <3>1. len < n
        BY <1>1, <2>1, <2>4
      <3>2. ASSUME NEW k \in 1..len PROVE s[k] = Bytes(i)[k]
        <4>1. k \in 1..n
          BY <1>1, <2>1, <3>1, SMTT(30)
        <4>2. s[k] = offset + k
          BY SliceIs
        <4>3. Bytes(i)[k] = Start(stream, i) + k
          BY <4>1, BytesAre
        <4> QED
          BY <1>1, <2>4, <4>2, <4>3
      <3>3. s # Bytes(i)
        BY <3>1, SliceIs
      <3> QED
        BY <1>1, <2>1, <2>2, <3>1, <3>2, <3>3, SMTT(30) DEF IsStrictPrefix
    <2> QED
      BY <2>3, <2>4
  <1>4. \A i \in Records : stream.ends[i] \in Nat
    BY StreamFacts
  <1>5. (\E i \in Records : Decodes(i) /\ stream.kind[i] = "short")
          <=> Due \in Records /\ stream.ends[Due] <= pos /\ stream.kind[Due] = "short"
    BY DecodesIff
  <1>6. CASE len = 0
    BY <1>2, <1>6 DEF IsTruncated
  <1>7. CASE len # 0
    BY <1>1, <1>2, <1>3, <1>4, <1>5, <1>7 DEF IsTruncated
  <1> QED
    BY <1>6, <1>7

(* Bytes in the buffer belong to a record.                                 *)
LEMMA DueExists ==
  ASSUME TypeOK, Window, len # 0
  PROVE  Due \in Records
  <1>1. Due \in 1..Len(stream.ends) + 1 /\ offset = Start(stream, Due)
        /\ pos = offset + len /\ pos <= stream.size /\ len \in Nat /\ offset \in Nat
    BY StreamFacts DEF Window, TypeOK
  <1>2. Due # Len(stream.ends) + 1
    <2> SUFFICES ASSUME Due = Len(stream.ends) + 1 PROVE FALSE
      OBVIOUS
    <2>1. CASE Len(stream.ends) = 0
      BY <1>1, <2>1, StreamFacts
    <2>2. CASE Len(stream.ends) # 0
      <3>1. offset = stream.ends[Len(stream.ends)]
        BY <1>1, <2>2, StreamFacts DEF Start
      <3> QED
        BY <1>1, <2>2, <3>1, StreamFacts
    <2> QED
      BY <2>1, <2>2
  <1> QED
    BY <1>1, <1>2, StreamFacts

(* When more is needed, the record that is due is not complete, or claims  *)
(* not to be.                                                              *)
LEMMA MoreNeeded ==
  ASSUME TypeOK, Window, pc = "decode", IsTruncated, Due \in Records
  PROVE  stream.ends[Due] > pos \/ stream.kind[Due] = "short"
  <1>1. CASE len = 0
    <2>1. /\ Start(stream, Due) < stream.ends[Due]
          /\ Start(stream, Due) \in Nat /\ stream.ends[Due] \in Nat
      BY StartTyped, StreamFacts
    <2>2. pos = Start(stream, Due)
      BY <1>1 DEF Window, TypeOK
    <2> QED
      BY <2>1, <2>2
  <1>2. CASE len # 0
    BY <1>2, TruncatedIff
  <1> QED
    BY <1>1, <1>2

-----------------------------------------------------------------------------
(* The inductive invariant.                                                *)

LEMMA InitInv == Init => IndInv
  <1> SUFFICES ASSUME Init PROVE IndInv
    OBVIOUS
  <1>1. Zeros(InitLen) \in Seq(Nat) /\ Len(Zeros(InitLen)) = InitLen
    BY DecoderAssumption DEF Zeros
  <1>2. stream.ends \in Seq(Nat) /\ stream.size \in Nat
    BY DecoderAssumption DEF Init
  <1>3. TypeOK
    BY <1>1, <1>2, DecoderAssumption DEF Init, TypeOK
  <1>4. Window
    BY <1>2 DEF Init, Window, Due, Start
  <1> QED
    BY <1>1, <1>3, <1>4
       DEF Init, IndInv, Pending, Filled, DeliveredRight, NothingDropped, HonestError

(* A return leaves everything else alone.                                  *)
LEMMA ReturnKeeps ==
  ASSUME IndInv, NEW result \in {"callback", "bad", "unexpected", "nil", "io"}, Return(result)
  PROVE  /\ pc' = result
         /\ (TypeOK /\ Window /\ Pending /\ Filled /\ DeliveredRight)'
         /\ Due' = Due /\ Records' = Records
         /\ UNCHANGED <<stream, full, idles, pos>>
  BY DEF IndInv, Return, input, slice, TypeOK, Window, Pending, Filled, DeliveredRight,
         Complete, Due, Records

(* Errors of the reader or the callback.                                   *)
LEMMA FailsInv ==
  ASSUME IndInv, CallbackFails \/ ReadFails PROVE IndInv'
  <1>1. PICK result \in {"callback", "io"} : Return(result)
    BY DEF CallbackFails, ReadFails
  <1> QED
    BY <1>1, ReturnKeeps DEF IndInv, NothingDropped, HonestError

LEMMA RefuseInv ==
  ASSUME IndInv, Refuse PROVE IndInv'
  <1>1. TypeOK /\ Window /\ pc = "decode" /\ ~IsTruncated /\ ~Decoded /\ Return("bad")
    BY DEF IndInv, Refuse
  <1>2. len # 0 /\ Due \in Records
    BY <1>1, TruncatedIff, DueExists
  <1>3. stream.ends[Due] \in Nat /\ pos \in Nat /\ stream.size \in Nat /\ pos <= stream.size
    BY <1>1, <1>2, StreamFacts DEF TypeOK
  <1>4. stream.ends[Due] <= pos /\ stream.kind[Due] # "short"
    BY <1>1, <1>2, <1>3, TruncatedIff
  <1>5. Complete(Due)
    BY <1>2, <1>3, <1>4 DEF Complete
  <1>6. stream.kind[Due] # "ok"
    BY <1>1, <1>2, <1>4, DecodesIff DEF Decoded
  <1>7. stream.kind[Due] = "bad"
    BY <1>1, <1>2, <1>4, <1>6, StreamFacts DEF Kinds
  <1> QED
    BY <1>1, <1>2, <1>5, <1>7, ReturnKeeps DEF IndInv, NothingDropped, HonestError, Complete

LEMMA GiveUpInv ==
  ASSUME IndInv, GiveUp PROVE IndInv'
  <1>1. /\ TypeOK /\ Window /\ Filled /\ pc = "decode" /\ IsTruncated
        /\ from = 0 /\ Len(buf) > MaxSize /\ Return("unexpected")
    BY DEF IndInv, GiveUp, Advanced, AtLimit
  <1>2. ASSUME full PROVE Due \in Records /\ (Complete(Due) => stream.kind[Due] = "short")
    <2>1. len > 0 /\ (len = Len(buf) \/ pos = stream.size)
      BY <1>1, <1>2, DecoderAssumption DEF Filled
    <2>2. len # 0 /\ len \in Nat
      BY <1>1, <2>1 DEF TypeOK
    <2>3. Due \in Records
      BY <1>1, <2>2, DueExists
    <2>4. /\ stream.ends[Due] \in Nat /\ Start(stream, Due) \in Nat
          /\ stream.ends[Due] - Start(stream, Due) \in 1..MaxSize
          /\ pos = Start(stream, Due) + len
      BY <1>1, <2>3, StreamFacts, StartTyped DEF Window
    <2>5. CASE len = Len(buf)
      <3>1. stream.ends[Due] <= pos
        BY <1>1, <2>2, <2>4, <2>5, DecoderAssumption
      <3> QED
        BY <1>1, <2>2, <2>3, <2>4, <3>1, MoreNeeded
    <2>6. CASE pos = stream.size
      <3>1. Complete(Due) => stream.ends[Due] <= pos
        BY <2>6 DEF Complete
      <3> QED
        BY <1>1, <2>2, <2>3, <2>4, <3>1, MoreNeeded
    <2> QED
      BY <2>1, <2>5, <2>6
  <1> QED
    BY <1>1, <1>2, ReturnKeeps DEF IndInv, NothingDropped, HonestError, Complete

LEMMA ReadNothingInv ==
  ASSUME IndInv, ReadNothing PROVE IndInv'
  <1>1. /\ TypeOK /\ Pending /\ pc = "read" /\ Return("nil")
        /\ Room = 0 \/ Remaining = 0 \/ idles
    BY DEF IndInv, ReadNothing, MayReadNothing
  <1>2. ~idles => pos = stream.size /\ pos \in Nat
    BY <1>1, StreamFacts DEF Pending, Room, Remaining, TypeOK
  <1>3. ~idles /\ Complete(Due) => stream.kind[Due] = "short"
    BY <1>1, <1>2, StreamFacts DEF Complete, Pending
  <1> QED
    BY <1>1, <1>3, ReturnKeeps DEF IndInv, NothingDropped, HonestError, Complete

LEMMA DeliverInv ==
  ASSUME IndInv, Deliver PROVE IndInv'
  <1>1. TypeOK /\ Window /\ pc = "decode" /\ DeliveredRight
    BY DEF IndInv, Deliver
  <1>2. PICK i \in Records :
          /\ Decodes(i)
          /\ got' = Append(got, [record |-> i, offset |-> offset])
          /\ from' = from + Len(Bytes(i))
          /\ len' = len - Len(Bytes(i))
          /\ offset' = offset + Len(Bytes(i))
    BY DEF Deliver
  <1>3. UNCHANGED <<stream, full, idles, pos, buf, pc>>
    BY DEF Deliver, input
  <1> DEFINE n == Len(Bytes(i))
  <1>4. i = Due /\ stream.ends[i] <= pos
    BY <1>1, <1>2, DecodesIff
  <1>5. /\ n = stream.ends[i] - Start(stream, i) /\ stream.ends[i] \in Nat
        /\ Start(stream, i) \in Nat /\ Start(stream, i) < stream.ends[i]
    BY <1>1, BytesAre, StreamFacts, StartTyped
  <1>6. /\ offset = Start(stream, i) /\ pos = offset + len
        /\ \A k \in 1..len : buf[k + from] = offset + k
    BY <1>1, <1>4 DEF Window
  <1>7. /\ pos \in Nat /\ stream.size \in Nat /\ pos <= stream.size
        /\ from \in Nat /\ len \in Nat /\ offset \in Nat
        /\ buf \in Seq(Nat) /\ Len(buf) \in Nat /\ from + len <= Len(buf)
        /\ got \in Seq([record : Nat, offset : Nat])
    BY <1>1, StreamFacts DEF TypeOK
  <1> HIDE DEF n
  <1>8. n \in Nat /\ n # 0 /\ n <= len /\ offset + n = stream.ends[i]
    <2>1. /\ n = stream.ends[i] - offset /\ offset < stream.ends[i]
          /\ stream.ends[i] \in Nat /\ stream.ends[i] <= offset + len
      BY <1>4, <1>5, <1>6
    <2>2. offset \in Nat /\ len \in Nat
      BY <1>7
    <2> QED
      BY <2>1, <2>2
  <1>9. from' = from + n /\ len' = len - n /\ offset' = offset + n
    BY <1>2 DEF n
  <1>10. i \in Nat /\ i \in 1..Len(stream.ends) /\ Len(stream.ends) \in Nat
    BY <1>1, StreamFacts, StartTyped
  <1>11. TypeOK'
    <2>1. [record |-> i, offset |-> offset] \in [record : Nat, offset : Nat]
      BY <1>7, <1>10
    <2>2. got' \in Seq([record : Nat, offset : Nat])
      BY <1>2, <1>7, <2>1
    <2>3. from' \in Nat /\ len' \in Nat /\ offset' \in Nat /\ from' + len' <= Len(buf)
      BY <1>7, <1>8, <1>9
    <2> QED
      BY <1>1, <1>3, <2>2, <2>3 DEF TypeOK
  <1>12. Due' = Due + 1 /\ Len(got') = Due /\ Due = Len(got) + 1 /\ Len(got) \in Nat
    BY <1>2, <1>7 DEF Due
  <1>13. Window'
    <2>1. pos = offset' + len'
      BY <1>6, <1>7, <1>8, <1>9
    <2>2. ASSUME NEW k \in 1..len' PROVE buf[k + from'] = offset' + k
      <3>0. /\ n \in Nat /\ n <= len /\ len \in Nat /\ from \in Nat /\ offset \in Nat
            /\ from' = from + n /\ offset' = offset + n /\ k \in 1..len - n
        BY <1>7, <1>8, <1>9
      <3>1. k + n \in 1..len /\ (k + n) + from = k + from'
        BY <3>0
      <3>2. buf[(k + n) + from] = offset + (k + n)
        BY <1>6, <3>1
      <3>3. offset + (k + n) = offset' + k
        BY <3>0
      <3> QED
        BY <3>1, <3>2, <3>3
    <2>3. Due' \in 1..Len(stream.ends) + 1
      BY <1>4, <1>10, <1>12
    <2>4. Start(stream, Due') = stream.ends[i]
      BY <1>4, <1>10, <1>12 DEF Start
    <2> QED
      BY <1>1, <1>3, <1>8, <1>9, <2>1, <2>2, <2>3, <2>4 DEF Window
  <1>14. DeliveredRight'
    <2>1. Complete(i)
      BY <1>4, <1>5, <1>7 DEF Complete
    <2>2. ASSUME NEW j \in DOMAIN got'
          PROVE  Complete(j) /\ got'[j] = [record |-> j, offset |-> Start(stream, j)]
      <3>1. j \in 1..Len(got) + 1
        BY <1>2, <1>7, <2>2
      <3>2. CASE j = Len(got) + 1
        <4>1. j = i /\ got'[j] = [record |-> i, offset |-> offset]
          BY <1>2, <1>4, <1>7, <1>12, <3>2
        <4> QED
          BY <1>6, <2>1, <4>1
      <3>3. CASE j # Len(got) + 1
        <4>1. j \in DOMAIN got /\ got'[j] = got[j]
          <5>1. j \in 1..Len(got)
            BY <1>12, <3>1, <3>3
          <5>2. j \in DOMAIN got
            BY <1>7, <5>1
          <5> QED
            BY <1>2, <1>7, <5>1, <5>2
        <4> QED
          BY <1>1, <4>1 DEF DeliveredRight
      <3> QED
        BY <3>2, <3>3
    <2> QED
      BY <1>3, <2>2 DEF DeliveredRight, Complete, Records
  <1>15. (Pending /\ Filled /\ NothingDropped /\ HonestError)'
    BY <1>1, <1>3, <1>7, <1>8, <1>9 DEF Pending, Filled, NothingDropped, HonestError
  <1> QED
    BY <1>11, <1>13, <1>14, <1>15 DEF IndInv

(* What is common to the two steps that prepare a read.                    *)
LEMMA PrepareInv ==
  ASSUME IndInv, pc = "decode", IsTruncated, pc' = "read",
         UNCHANGED <<stream, full, idles, pos, from, len, offset, got>>,
         buf' \in Seq(Nat), Len(buf') >= Len(buf), len < Len(buf'),
         \A k \in 1..len : buf'[k] = offset + k
  PROVE  IndInv'
  <1>1. TypeOK /\ Window
    BY DEF IndInv
  <1>2. TypeOK'
    BY <1>1, DecoderAssumption, SMTT(30) DEF TypeOK
  <1>3. Window'
    BY <1>1 DEF Window, Due, TypeOK
  <1>4. Pending'
    BY <1>1, MoreNeeded DEF Pending, Due, Records
  <1>5. (Filled /\ NothingDropped /\ HonestError)'
    BY DEF Filled, NothingDropped, HonestError
  <1>6. DeliveredRight'
    BY DEF IndInv, DeliveredRight, Complete, Records
  <1> QED
    BY <1>2, <1>3, <1>4, <1>5, <1>6 DEF IndInv

LEMMA MoveToFrontInv ==
  ASSUME IndInv, MoveToFront PROVE IndInv'
  <1>1. /\ TypeOK /\ Window /\ pc = "decode" /\ IsTruncated /\ from # 0
        /\ buf' = Moved /\ pc' = "read"
        /\ UNCHANGED <<stream, full, idles, pos, from, len, offset, got>>
    BY DEF IndInv, MoveToFront, Advanced, input, slice
  <1>2. /\ buf \in Seq(Nat) /\ Len(buf) \in Nat /\ DOMAIN buf = 1..Len(buf)
        /\ from \in Nat /\ len \in Nat /\ from + len <= Len(buf)
    BY <1>1 DEF TypeOK
  <1>3. s \in Seq(Nat) /\ Len(s) = len /\ \A k \in 1..len : s[k] = offset + k
    BY <1>1, SliceIs
  <1>4. \A k \in 1..Len(buf) : (IF k <= len THEN s[k] ELSE buf[k]) \in Nat
    BY <1>2, <1>3
  <1>5. buf' = [k \in 1..Len(buf) |-> IF k <= len THEN s[k] ELSE buf[k]]
    BY <1>1, <1>2 DEF Moved
  <1>6. buf' \in Seq(Nat) /\ Len(buf') = Len(buf)
    BY <1>2, <1>4, <1>5
  <1>7. len < Len(buf)
    BY <1>1, <1>2
  <1>8. \A k \in 1..len : buf'[k] = offset + k
    BY <1>2, <1>3, <1>5, <1>7
  <1> QED
    BY <1>1, <1>2, <1>6, <1>7, <1>8, PrepareInv

LEMMA GrowInv ==
  ASSUME IndInv, Grow PROVE IndInv'
  <1>1. /\ TypeOK /\ Window /\ pc = "decode" /\ IsTruncated /\ from = 0
        /\ buf' = buf \o Zeros(Len(buf)) /\ pc' = "read"
        /\ UNCHANGED <<stream, full, idles, pos, from, len, offset, got>>
    BY DEF IndInv, Grow, Grown, Advanced, input, slice
  <1>2. /\ buf \in Seq(Nat) /\ Len(buf) \in Nat /\ Len(buf) > 0
        /\ len \in Nat /\ len <= Len(buf)
        /\ \A k \in 1..len : buf[k] = offset + k
    BY <1>1, DecoderAssumption, SMTT(30) DEF TypeOK, Window
  <1>3. Zeros(Len(buf)) \in Seq(Nat) /\ Len(Zeros(Len(buf))) = Len(buf)
    BY <1>2 DEF Zeros
  <1>4. buf' \in Seq(Nat) /\ Len(buf') = Len(buf) + Len(buf)
    <2>1. \A z \in Seq(Nat) : buf \o z \in Seq(Nat) /\ Len(buf \o z) = Len(buf) + Len(z)
      BY <1>2
    <2> QED
      BY <1>1, <1>3, <2>1
  <1>5. \A k \in 1..len : buf'[k] = offset + k
    BY <1>1, <1>2, <1>3
  <1>6. len < Len(buf') /\ Len(buf') >= Len(buf)
    BY <1>2, <1>4
  <1> QED
    BY <1>1, <1>4, <1>5, <1>6, PrepareInv

LEMMA ReadInv ==
  ASSUME IndInv, NEW n \in Nat, Read(n) PROVE IndInv'
  <1>1. /\ TypeOK /\ Window /\ pc = "read" /\ pc' = "decode"
        /\ n \in 1..Smaller(Room, Remaining)
        /\ full => n = Smaller(Room, Remaining)
        /\ buf' = [k \in DOMAIN buf |-> IF k \in len + 1..len + n THEN pos + k - len ELSE buf[k]]
        /\ pos' = pos + n /\ from' = 0 /\ len' = len + n
        /\ UNCHANGED <<stream, full, idles, offset, got>>
    BY DEF IndInv, Read, input
  <1>2. /\ buf \in Seq(Nat) /\ Len(buf) \in Nat /\ DOMAIN buf = 1..Len(buf)
        /\ len \in Nat /\ pos \in Nat /\ offset \in Nat /\ stream.size \in Nat
        /\ pos <= stream.size /\ len <= Len(buf)
        /\ pos = offset + len
        /\ \A k \in 1..len : buf[k] = offset + k
    BY <1>1, StreamFacts, SMTT(30) DEF TypeOK, Window
  <1>3. /\ n >= 1 /\ n <= Len(buf) - len /\ n <= stream.size - pos
        /\ full => n = Len(buf) - len \/ n = stream.size - pos
    <2> DEFINE m == Smaller(Room, Remaining)
    <2>1. /\ Room \in Int /\ Room = Len(buf) - len
          /\ Remaining \in Int /\ Remaining = stream.size - pos
      BY <1>2 DEF Room, Remaining
    <2>2. m \in Int /\ m <= Room /\ m <= Remaining /\ (m = Room \/ m = Remaining)
      BY <2>1 DEF Smaller
    <2>3. n \in 1..m /\ (full => n = m)
      BY <1>1
    <2> HIDE DEF m
    <2>4. n >= 1 /\ n <= m
      BY <2>2, <2>3
    <2> QED
      BY <2>1, <2>2, <2>3, <2>4
  <1>4. /\ from' = 0 /\ len' \in Nat /\ len' > 0 /\ len' <= Len(buf) /\ Len(buf) \in Nat
         /\ pos' \in 0..stream.size
    <2>1. pos' = pos + n /\ from' = 0 /\ len' = len + n
      BY <1>1
    <2>2. /\ len \in Nat /\ pos \in Nat /\ Len(buf) \in Nat /\ stream.size \in Nat
      BY <1>2
    <2> QED
      BY <1>3, <2>1, <2>2
  <1>5. \A k \in 1..Len(buf) :
          (IF k \in len + 1..len + n THEN pos + k - len ELSE buf[k]) \in Nat
    BY <1>2
  <1>6. buf' \in Seq(Nat) /\ Len(buf') = Len(buf)
    BY <1>1, <1>2, <1>5, SMTT(30)
  <1>7. ASSUME NEW k \in 1..len' PROVE buf'[k + from'] = offset' + k
    <2>1. k \in 1..Len(buf) /\ k \in Nat /\ k + from' = k
      BY <1>4
    <2>2. CASE k <= len
      BY <1>1, <1>2, <2>1, <2>2
    <2>3. CASE ~(k <= len)
      <3>1. buf'[k] = pos + k - len
        BY <1>1, <1>2, <2>1, <2>3
      <3> QED
        BY <1>1, <1>2, <2>1, <3>1
    <2> QED
      BY <2>2, <2>3
  <1>8. TypeOK'
    BY <1>1, <1>6, <1>4 DEF TypeOK
  <1>9. Window'
    <2>1. pos' = offset' + len'
      BY <1>1, <1>2
    <2>2. Due' = Due /\ stream' = stream /\ offset' = offset /\ pc' = "decode"
      BY <1>1 DEF Due
    <2>3. Due \in 1..Len(stream.ends) + 1 /\ offset = Start(stream, Due)
      BY <1>1 DEF Window
    <2> QED
      BY <1>7, <2>1, <2>2, <2>3 DEF Window
  <1>10. Filled'
    <2>1. len' > 0
      BY <1>4
    <2>2. full => len' = Len(buf') \/ pos' = stream.size
      BY <1>1, <1>2, <1>3, <1>6
    <2> QED
      BY <1>1, <2>1, <2>2 DEF Filled
  <1>11. (Pending /\ NothingDropped /\ HonestError)'
    BY <1>1 DEF Pending, NothingDropped, HonestError
  <1>12. DeliveredRight'
    BY <1>1 DEF IndInv, DeliveredRight, Complete, Records
  <1> QED
    BY <1>8, <1>9, <1>10, <1>11, <1>12 DEF IndInv

LEMMA StepInv == IndInv /\ [Next]_vars => IndInv'
  <1> SUFFICES ASSUME IndInv, [Next]_vars PROVE IndInv'
    OBVIOUS
  <1>1. CASE UNCHANGED vars
    BY <1>1 DEF vars, input, slice, IndInv, TypeOK, Window, Pending, Filled, DeliveredRight,
                NothingDropped, HonestError, Complete, Due, Records
  <1>2. CASE \E n \in 1..stream.size : Read(n)
    <2>1. \A n \in 1..stream.size : n \in Nat
      BY StreamFacts DEF IndInv
    <2> QED
      BY <1>2, <2>1, ReadInv
  <1> QED
    BY <1>1, <1>2, DeliverInv, RefuseInv, MoveToFrontInv, GrowInv, GiveUpInv, ReadNothingInv,
       FailsInv DEF Next, Step

LEMMA InductiveInv == Spec => []IndInv
  BY InitInv, StepInv, PTL DEF Spec

-----------------------------------------------------------------------------
(* Theorems.                                                               *)

(* f is called on the complete records, in order, each once and with its   *)
(* offset.                                                                 *)
THEOREM DeliversRight == Spec => []DeliveredRight
  BY InductiveInv, PTL DEF IndInv

(* When unmarshal returns nil, no well-formed record has been left out, if *)
(* Read returns bytes as long as there are some.                           *)
THEOREM DropsNothing == Spec => []NothingDropped
  BY InductiveInv, PTL DEF IndInv

(* An error is about the record that is due; a complete and well-formed    *)
(* one never outgrows the buffer, if every read fills it.                  *)
THEOREM ErrsHonestly == Spec => []HonestError
  BY InductiveInv, PTL DEF IndInv
=============================================================================
