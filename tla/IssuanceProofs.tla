--------------------------- MODULE IssuanceProofs ---------------------------
(***************************************************************************)
(* The safety properties of Issuance hold for all parameters, any number   *)
(* of runs, calls and faults.                                              *)
(*                                                                         *)
(* None of them is inductive by itself.  IndInv adds what a run knows from *)
(* one of its steps to the next: it owns the lock (Owner), so the stored   *)
(* batches, its list of them and the queue stay as it saw them; its loop   *)
(* variable is the next number of the log (LoopPosition); the pass it made *)
(* is still what should be published (PassResult), and the queue it drops  *)
(* is what it published (QueueIssued).  Each conjunct has a lemma that     *)
(* says which of the others it needs; StepIndInv puts them together.       *)
(***************************************************************************)
EXTENDS Issuance, SequenceTheorems, FiniteSetTheorems, TLAPS

-----------------------------------------------------------------------------
(* Facts about the operators.                                              *)

(* listBatchRange of consecutive numbers returns their bounds.             *)
LEMMA RangeOfInterval ==
  ASSUME NEW b \in Nat, NEW e \in Nat, b <= e
  PROVE  /\ RangeOf(b..e) = [begin |-> b, end |-> e + 1]
         /\ IsRange(b..e)
         /\ b..e # {}
<1>1. b \in b..e /\ e \in b..e
  OBVIOUS
<1>2. (CHOOSE x \in b..e : \A n \in b..e : x <= n) = b
  BY <1>1
<1>3. (CHOOSE x \in b..e : \A n \in b..e : n <= x) = e
  BY <1>1
<1>4. b..e # {}
  BY <1>1
<1>5. RangeOf(b..e) = [begin |-> b, end |-> e + 1]
  BY <1>2, <1>3, <1>4 DEF RangeOf
<1> QED
  BY <1>1, <1>4, <1>5 DEF IsRange

(* The bounds of any set of numbers without a gap are numbers.             *)
LEMMA RangeOfType ==
  ASSUME NEW S \in SUBSET Nat, IsRange(S)
  PROVE  RangeOf(S).begin \in Nat /\ RangeOf(S).end \in Nat
<1>1. CASE S = {}
  BY <1>1 DEF RangeOf, NoBatches
<1>2. CASE S # {}
  <2>1. PICK b \in S, e \in S : S = b..e
    BY <1>2 DEF IsRange
  <2>2. b \in Nat /\ e \in Nat /\ b <= e
    BY <2>1
  <2>3. RangeOf(b..e) = [begin |-> b, end |-> e + 1]
    BY <2>2, RangeOfInterval
  <2> QED
    BY <2>1, <2>2, <2>3
<1> QED
  BY <1>1, <1>2

(* StoredBatches returns uint32 numbers.                                   *)
LEMMA StoredType ==
  ASSUME NEW t \in Nat
  PROVE  StoredBatches(t).begin \in Nat /\ StoredBatches(t).end \in Nat
<1>1. CASE t < StartTime
  BY <1>1 DEF StoredBatches, BatchesBack, NoBatches
<1>2. CASE ~(t < StartTime)
  <2>1. CurrentNumber(t) \in Int
    BY ParamsAssumption DEF CurrentNumber
  <2>2. \A x \in Int : x % U32 \in Nat
    BY ParamsAssumption
  <2> QED
    BY <1>2, <2>1, <2>2, ParamsAssumption DEF StoredBatches, BatchesBack
<1> QED
  BY <1>1, <1>2

(* newTreeHeads shifts the heads by one place and puts the root last.      *)
LEMMA NewTreeHeadsShift ==
  ASSUME NEW prev \in Heads, NEW root \in Nat \X Seq(Submissions)
  PROVE  /\ newTreeHeads(prev, root) \in Heads
         /\ newTreeHeads(prev, root) =
              [i \in 1..ValidityWindowSize |->
                 IF i < ValidityWindowSize THEN prev[i + 1] ELSE root]
<1> DEFINE new == newTreeHeads(prev, root)
<1>1. prev \in Seq(Nat \X Seq(Submissions))
  BY SeqDef, ParamsAssumption DEF Heads
<1>2. Len(prev) = ValidityWindowSize
  BY <1>1, LenProperties, ParamsAssumption DEF Heads
<1>3. /\ new \in Seq(Nat \X Seq(Submissions))
      /\ Len(new) = ValidityWindowSize
      /\ \A i \in 1..ValidityWindowSize :
           new[i] = IF i < ValidityWindowSize THEN prev[i + 1] ELSE root
  BY <1>1, <1>2, ParamsAssumption DEF newTreeHeads
<1>4. new \in [1..ValidityWindowSize -> Nat \X Seq(Submissions)]
  BY <1>3, LenProperties
<1> HIDE DEF new
<1>5. new \in Heads
  BY <1>4 DEF Heads
<1>6. new = [i \in 1..ValidityWindowSize |->
               IF i < ValidityWindowSize THEN prev[i + 1] ELSE root]
  BY <1>3, <1>4
<1> QED
  BY <1>5, <1>6 DEF new

(* The heads before the epoch make a full window.                          *)
LEMMA PreEpochType == PreEpochRoots \in Heads
<1>1. <<>> \in Seq(Submissions)
  OBVIOUS
<1> QED
  BY <1>1 DEF PreEpochRoots, Heads, Root

-----------------------------------------------------------------------------
(* Types.                                                                  *)

(* The bounds are numbers.                                                 *)
LEMMA BoundsType == MaxTime \in Nat /\ MaxFaults \in Nat
BY IssuanceAssumption

(* What listBatchNumbers returns is a set of numbers.                      *)
LEMMA ListType ==
  ASSUME TypeOK, NEW p \in Proc
  PROVE  listBatchNumbers(p) \in SUBSET Nat
BY DEF TypeOK, HandleType, DiskType, listBatchNumbers

(* A readable queue holds only submissions.                                *)
LEMMA ReadableType ==
  ASSUME TypeOK, Readable(queue)
  PROVE  queue \in Seq(Submissions)
<1>1. queue \in Seq(Submissions \cup {Garbled})
  BY DEF TypeOK, DiskType
<1>2. \A i \in 1..Len(queue) : queue[i] \in Submissions
  BY <1>1 DEF Readable
<1> QED
  BY <1>1, <1>2

(* A pass of issueBatchTo that can read its inputs makes a batch.          *)
LEMMA PassType ==
  ASSUME TypeOK, NEW p \in Proc, CanIssueBatch(p), NEW o \in Outcomes
  PROVE  issueBatchTo(p, o) \in Batches
<1>1. o \in SUBSET Files
  BY IssuanceAssumption
<1>2. Contents(p) \in Seq(Submissions)
  BY ReadableType DEF Contents, CanIssueBatch
<1>3. prevHeads(p) \in Heads
  <2>1. CASE cur[p] = 0
    BY <2>1, PreEpochType DEF prevHeads
  <2>2. CASE cur[p] # 0
    BY <2>2 DEF prevHeads, CanIssueBatch, TypeOK, DiskType, Batches
  <2> QED
    BY <2>1, <2>2
<1>4. Root(cur[p], Contents(p)) \in Nat \X Seq(Submissions)
  BY <1>2 DEF Root, TypeOK, HandleType
<1>5. newTreeHeads(prevHeads(p), Root(cur[p], Contents(p))) \in Heads
  BY <1>3, <1>4, NewTreeHeadsShift
<1> QED
  BY <1>1, <1>2, <1>5 DEF issueBatchTo, Batches

(* Appending whole records, or some and a torn one, keeps a queue a queue. *)
LEMMA QueueAppendType ==
  ASSUME NEW q \in Seq(Submissions \cup {Garbled}), NEW as \in Calls
  PROVE  /\ Range(as) \subseteq Submissions
         /\ q \o as \in Seq(Submissions \cup {Garbled})
         /\ \A k \in 0..Len(as) - 1, torn \in {<<>>, <<Garbled>>} :
              /\ SubSeq(as, 1, k) \in Seq(Submissions \cup {Garbled})
              /\ torn \in Seq(Submissions \cup {Garbled})
              /\ q \o SubSeq(as, 1, k) \in Seq(Submissions \cup {Garbled})
              /\ q \o SubSeq(as, 1, k) \o torn \in Seq(Submissions \cup {Garbled})
<1> DEFINE T == Submissions \cup {Garbled}
<1>1. as \in Seq(Submissions)
  BY IssuanceAssumption
<1>2. Range(as) \subseteq Submissions
  BY <1>1, RangeOfSeq
<1>3. as \in Seq(T)
  BY <1>1, SeqMonotonic
<1>4. q \in Seq(T) /\ Garbled \in T
  OBVIOUS
<1> HIDE DEF T
<1>5. q \o as \in Seq(T)
  BY <1>3, <1>4, ConcatProperties
<1>6. ASSUME NEW k \in 0..Len(as) - 1 PROVE SubSeq(as, 1, k) \in Seq(T)
  <2> DEFINE n == Len(as)
  <2>1. n \in Nat /\ k \in 0..n - 1
    BY <1>3, LenProperties
  <2>2. \A i \in 1..n : as[i] \in T
    BY <1>3, ElementOfSeq
  <2> HIDE DEF n
  <2>3. 1 \in Int /\ k \in Int
    BY <2>1
  <2>4. \A i \in 1..k : i \in 1..n
    BY <2>1
  <2>5. \A i \in 1..k : as[i] \in T
    BY <2>2, <2>4
  <2> QED
    BY <2>3, <2>5, SubSeqProperties, Zenon
<1>7. <<>> \in Seq(T) /\ <<Garbled>> \in Seq(T)
  BY <1>4
<1>8. ASSUME NEW k \in 0..Len(as) - 1, NEW torn \in {<<>>, <<Garbled>>}
      PROVE  /\ SubSeq(as, 1, k) \in Seq(T) /\ torn \in Seq(T)
             /\ q \o SubSeq(as, 1, k) \in Seq(T)
             /\ q \o SubSeq(as, 1, k) \o torn \in Seq(T)
  <2>1. torn \in Seq(T)
    BY <1>7, Zenon
  <2>2. SubSeq(as, 1, k) \in Seq(T)
    BY <1>6, Zenon
  <2>3. q \o SubSeq(as, 1, k) \in Seq(T)
    BY <2>2, <1>4, ConcatProperties, Zenon
  <2>4. q \o SubSeq(as, 1, k) \o torn \in Seq(T)
    BY <2>1, <2>3, ConcatProperties, Zenon
  <2> QED
    BY <2>1, <2>2, <2>3, <2>4
<1> QED
  BY <1>2, <1>5, <1>8 DEF T

(* What is in two sequences is in one after the other.                     *)
LEMMA RangeOfBoth ==
  ASSUME NEW T, NEW s \in Seq(T), NEW t \in Seq(T)
  PROVE  Range(s \o t) = Range(s) \cup Range(t)
BY RangeConcatenation, ZenonT(60)

(* A call that succeeds adds its records to the queue.                     *)
LEMMA QueueAppendAdds ==
  ASSUME NEW q \in Seq(Submissions \cup {Garbled}), NEW as \in Calls
  PROVE  Range(q \o as) = Range(q) \cup Range(as)
<1> DEFINE T == Submissions \cup {Garbled}
<1>1. q \in Seq(T) /\ as \in Seq(T)
  BY IssuanceAssumption, SeqMonotonic
<1> HIDE DEF T
<1> QED
  BY <1>1, RangeOfBoth, ZenonT(40)

(* A call that fails half way leaves the earlier records in place.         *)
LEMMA QueueAppendKeeps ==
  ASSUME NEW q \in Seq(Submissions \cup {Garbled}), NEW as \in Calls,
         NEW k \in 0..Len(as) - 1, NEW torn \in {<<>>, <<Garbled>>}
  PROVE  Range(q) \subseteq Range(q \o SubSeq(as, 1, k) \o torn)
<1> DEFINE T == Submissions \cup {Garbled}
           mid == q \o SubSeq(as, 1, k)
<1>1. /\ mid \in Seq(T) /\ torn \in Seq(T)
      /\ q \in Seq(T) /\ SubSeq(as, 1, k) \in Seq(T)
  BY QueueAppendType
<1> DEFINE part == SubSeq(as, 1, k)
<1> HIDE DEF T, part
<1>2. Range(mid) = Range(q) \cup Range(SubSeq(as, 1, k))
  <2>1. q \in Seq(T) /\ part \in Seq(T)
    BY <1>1 DEF part
  <2>2. Range(q \o part) = Range(q) \cup Range(part)
    BY <2>1, RangeOfBoth
  <2> QED
    BY <2>2 DEF part
<1> HIDE DEF mid
<1>3. Range(mid \o torn) = Range(mid) \cup Range(torn)
  <2>1. mid \in Seq(T) /\ torn \in Seq(T)
    BY <1>1
  <2> QED
    BY <2>1, RangeOfBoth
<1> QED
  BY <1>2, <1>3 DEF mid

(* When Issue returns or the run ends, the handle is left well formed.     *)
LEMMA ReturnType ==
  ASSUME TypeOK, NEW p \in Proc, Return(p) \/ Exit(p),
         cache' \in [Proc -> (SUBSET Nat) \cup {Nil}]
  PROVE  HandleType'
BY BoundsType DEF TypeOK, HandleType, Return, Exit, ForgetCall, Goto, Labels

(* Every step keeps the types.                                             *)
LEMMA TypeStep ==
  ASSUME TypeOK, PassResult, [Next]_vars
  PROVE  TypeOK'
<1> USE BoundsType DEF vars, clock, disk, handle, history, callers
<1>1. ASSUME NEW p \in Proc, Open(p) PROVE TypeOK'
  BY <1>1 DEF Open, Goto, Labels, TypeOK, ClockType, DiskType, HandleType,
              HistoryType
<1>2. ASSUME NEW p \in Proc, Close(p) PROVE TypeOK'
  <2>1. HandleType'
    BY <1>2, ReturnType DEF Close, Exit, TypeOK, HandleType
  <2> QED
    BY <1>2, <2>1 DEF Close, TypeOK, ClockType, DiskType, HistoryType
<1>3. ASSUME NEW p \in Proc, Crash(p) PROVE TypeOK'
  <2>1. HandleType'
    BY <1>3, ReturnType DEF Crash, Exit, TypeOK, HandleType
  <2> QED
    BY <1>3, <2>1 DEF Crash, MayFail, TypeOK, ClockType, DiskType, HistoryType
<1>4. ASSUME NEW p \in Proc, NEW as \in Calls, QueueMultiple(p, as)
      PROVE  TypeOK'
  <2>1. DiskType'
    BY <1>4, QueueAppendType DEF QueueMultiple, TypeOK, DiskType
  <2>2. HistoryType'
    BY <1>4, QueueAppendType DEF QueueMultiple, TypeOK, HistoryType, DiskType
  <2> QED
    BY <1>4, <2>1, <2>2 DEF QueueMultiple, TypeOK, ClockType, HandleType
<1>5. ASSUME NEW p \in Proc, NEW as \in Calls, QueueMultipleFails(p, as)
      PROVE  TypeOK'
  <2>1. DiskType'
    BY <1>5, QueueAppendType DEF QueueMultipleFails, TypeOK, DiskType
  <2>2. HistoryType'
    BY <1>5, QueueAppendType
       DEF QueueMultipleFails, TypeOK, HistoryType, DiskType
  <2>3. ClockType'
    BY <1>5 DEF QueueMultipleFails, MayFail, TypeOK, ClockType
  <2> QED
    BY <1>5, <2>1, <2>2, <2>3 DEF QueueMultipleFails, TypeOK, HandleType
<1>6. ASSUME NEW p \in Proc, IssueRefused(p) PROVE TypeOK'
  <2>1. HandleType'
    BY <1>6, ListType DEF IssueRefused, TypeOK, HandleType
  <2> QED
    BY <1>6, <2>1 DEF IssueRefused, TypeOK, ClockType, DiskType, HistoryType
<1>7. ASSUME NEW p \in Proc, IssueNothing(p) PROVE TypeOK'
  <2>1. HandleType'
    BY <1>7, ListType
       DEF IssueNothing, Goto, Labels, TypeOK, HandleType, ClockType
  <2> QED
    BY <1>7, <2>1 DEF IssueNothing, TypeOK, ClockType, DiskType, HistoryType
<1>8. ASSUME NEW p \in Proc, IssueStart(p) PROVE TypeOK'
  <2>1. toCreateBegin(p) \in Nat
    BY <1>8, ListType, RangeOfType DEF IssueStart, IssueRefuses, toCreateBegin
  <2>2. StoredBatches(now).end \in Nat
    BY StoredType DEF TypeOK, ClockType
  <2>3. HandleType'
    BY <1>8, <2>1, <2>2, ListType
       DEF IssueStart, Goto, Labels, TypeOK, HandleType, ClockType
  <2> QED
    BY <1>8, <2>3 DEF IssueStart, TypeOK, ClockType, DiskType, HistoryType
<1>9. ASSUME NEW p \in Proc, MakeFirst(p) PROVE TypeOK'
  <2>1. HandleType'
    BY <1>9, PassType DEF MakeFirst, Goto, Labels, TypeOK, HandleType
  <2> QED
    BY <1>9, <2>1 DEF MakeFirst, TypeOK, ClockType, DiskType, HistoryType
<1>10. ASSUME NEW p \in Proc, MakeSecond(p) PROVE TypeOK'
  <2>1. HandleType'
    BY <1>10, PassType DEF MakeSecond, Goto, Labels, TypeOK, HandleType
  <2> QED
    BY <1>10, <2>1 DEF MakeSecond, TypeOK, ClockType, DiskType, HistoryType
<1>11. ASSUME NEW p \in Proc, Publish(p) PROVE TypeOK'
  <2>0. pc[p] = "publish"
    BY <1>11 DEF Publish
  <2>1. dir1[p] \in Batches
    BY <2>0 DEF PassResult, PassAt
  <2>2. HistoryType'
    BY <1>11, <2>1 DEF Publish, Batches, TypeOK, HistoryType
  <2>3. DiskType'
    BY <1>11, <2>1 DEF Publish, TypeOK, DiskType, HandleType
  <2>4. HandleType'
    BY <1>11
       DEF Publish, Goto, Labels, AfterPublish, PublishCache, TypeOK, HandleType
  <2> QED
    BY <1>11, <2>2, <2>3, <2>4 DEF Publish, TypeOK, ClockType
<1>12. ASSUME NEW p \in Proc, DropQueue(p) PROVE TypeOK'
  BY <1>12, SMTT(30) DEF DropQueue, dropQueue, Goto, Labels, TypeOK, ClockType, DiskType,
               HandleType, HistoryType
<1>13. ASSUME NEW p \in Proc, UpdateLatest(p) PROVE TypeOK'
  BY <1>13, SMTT(30) DEF UpdateLatest, updateLatest, Goto, Labels, TypeOK, ClockType,
               DiskType, HandleType, HistoryType
<1>14. ASSUME NEW p \in Proc, NothingToDrop(p) PROVE TypeOK'
  <2>1. HandleType'
    BY <1>14, ReturnType DEF NothingToDrop, TypeOK, HandleType
  <2> QED
    BY <1>14, <2>1 DEF NothingToDrop, TypeOK, ClockType, DiskType, HistoryType
<1>15. ASSUME NEW p \in Proc, StartDrop(p) PROVE TypeOK'
  <2>1. IsRange(listBatchNumbers(p))
    BY <1>15 DEF StartDrop, DropRefuses
  <2>2. /\ RangeOf(listBatchNumbers(p)).begin \in Nat
        /\ RangeOf(listBatchNumbers(p)).end \in Nat
    BY <2>1, ListType, RangeOfType
  <2>3. HandleType'
    BY <1>15, <2>2 DEF StartDrop, Goto, Labels, TypeOK, HandleType
  <2> QED
    BY <1>15, <2>3 DEF StartDrop, TypeOK, ClockType, DiskType, HistoryType
<1>16. ASSUME NEW p \in Proc, Remove(p) PROVE TypeOK'
  <2>1. DiskType'
    BY <1>16 DEF Remove, Restrict, TypeOK, DiskType
  <2>2. HandleType'
    BY <1>16 DEF Remove, TypeOK, HandleType
  <2>3. HistoryType'
    BY <1>16 DEF Remove, TypeOK, HistoryType, HandleType
  <2> QED
    BY <1>16, <2>1, <2>2, <2>3 DEF Remove, TypeOK, ClockType
<1>17. ASSUME NEW p \in Proc, RemoveFails(p) PROVE TypeOK'
  <2>1. DiskType'
    <3>1. PICK left \in SUBSET dirs[cur[p]].files :
            dirs' = [dirs EXCEPT ![cur[p]].files = left]
      BY <1>17 DEF RemoveFails
    <3>2. dirs' \in [DOMAIN dirs' -> Batches] /\ DOMAIN dirs' \subseteq Nat
      BY <3>1 DEF Batches, TypeOK, DiskType
    <3> QED
      BY <1>17, <3>2 DEF RemoveFails, TypeOK, DiskType
  <2>2. HandleType'
    BY <1>17, ReturnType DEF RemoveFails, TypeOK, HandleType
  <2>3. ClockType'
    BY <1>17 DEF RemoveFails, MayFail, TypeOK, ClockType
  <2> QED
    BY <1>17, <2>1, <2>2, <2>3 DEF RemoveFails, TypeOK, HistoryType
<1>18. ASSUME NEW p \in Proc, RemoveDone(p) PROVE TypeOK'
  <2>1. HandleType'
    BY <1>18, ReturnType DEF RemoveDone, TypeOK, HandleType
  <2> QED
    BY <1>18, <2>1 DEF RemoveDone, TypeOK, ClockType, DiskType, HistoryType
<1>19. ASSUME NEW p \in Proc, StepFails(p) PROVE TypeOK'
  <2>1. cache' \in [Proc -> (SUBSET Nat) \cup {Nil}]
    BY <1>19 DEF StepFails, PublishCache, TypeOK, HandleType
  <2>2. HandleType'
    BY <1>19, <2>1, ReturnType DEF StepFails
  <2>3. ClockType'
    BY <1>19 DEF StepFails, MayFail, TypeOK, ClockType
  <2> QED
    BY <1>19, <2>2, <2>3 DEF StepFails, TypeOK, DiskType, HistoryType
<1>20. ASSUME NEW p \in Proc, StepRefused(p) PROVE TypeOK'
  <2>1. cache' \in [Proc -> (SUBSET Nat) \cup {Nil}]
    <3>1. cache' \in {PublishCache(p), cache,
                      [cache EXCEPT ![p] = listBatchNumbers(p)]}
      BY <1>20 DEF StepRefused
    <3> QED
      BY <3>1, ListType DEF PublishCache, TypeOK, HandleType
  <2>2. HandleType'
    BY <1>20, <2>1, ReturnType DEF StepRefused
  <2> QED
    BY <1>20, <2>2 DEF StepRefused, TypeOK, ClockType, DiskType, HistoryType
<1>21. CASE Tick
  BY <1>21, SMTT(30) DEF Tick, TypeOK, ClockType, DiskType, HandleType, HistoryType
<1>22. CASE ClockBack
  <2>1. ClockType'
    BY <1>22 DEF ClockBack, MayFail, TypeOK, ClockType
  <2> QED
    BY <1>22, <2>1 DEF ClockBack, TypeOK, DiskType, HandleType, HistoryType
<1>23. CASE UNCHANGED vars
  BY <1>23 DEF TypeOK, ClockType, DiskType, HandleType, HistoryType
<1> QED
  BY <1>1, <1>2, <1>3, <1>4, <1>5, <1>6, <1>7, <1>8, <1>9, <1>10, <1>11,
     <1>12, <1>13, <1>14, <1>15, <1>16, <1>17, <1>18, <1>19, <1>20, <1>21,
     <1>22, <1>23
     DEF Next, Queueing, Issue, IssueStep, Fault

-----------------------------------------------------------------------------
(* The lock.                                                               *)

(* Only the owner of the lock has a handle open.                           *)
LEMMA Alone ==
  ASSUME Owner, NEW p \in Proc, NEW q \in Proc, pc[p] # "idle", q # p
  PROVE  pc[q] = "idle" /\ cache[q] = Nil
BY DEF Owner

(* Every step keeps the lock with the run that has the handle.             *)
LEMMA OwnerStep ==
  ASSUME TypeOK, Owner, [Next]_vars
  PROVE  Owner'
<1> USE DEF vars, clock, disk, handle, history, callers, Goto, Owner
<1>0. /\ pc \in [Proc -> Labels]
      /\ cache \in [Proc -> (SUBSET Nat) \cup {Nil}]
  BY DEF TypeOK, HandleType
<1>1. ASSUME NEW p \in Proc, Open(p) PROVE Owner'
  BY <1>0, <1>1 DEF Open, TryLock
<1>2. ASSUME NEW p \in Proc, Close(p) PROVE Owner'
  <2>1. \A q \in Proc : pc'[q] = "idle" /\ cache'[q] = Nil
    BY <1>0, <1>2, Alone DEF Close, Exit
  <2> QED
    BY <2>1
<1>3. ASSUME NEW p \in Proc, Crash(p) PROVE Owner'
  BY <1>0, <1>3 DEF Crash, Exit
<1>4. ASSUME NEW p \in Proc, NEW as \in Calls,
             QueueMultiple(p, as) \/ QueueMultipleFails(p, as)
      PROVE  Owner'
  BY <1>4 DEF QueueMultiple, QueueMultipleFails
<1>5. ASSUME NEW p \in Proc, Issue(p) PROVE Owner'
  BY <1>0, <1>5 DEF Issue, IssueRefused, IssueNothing, IssueStart
<1>6. ASSUME NEW p \in Proc,
             MakeFirst(p) \/ MakeSecond(p) \/ DropQueue(p) \/ UpdateLatest(p)
      PROVE  Owner'
  BY <1>0, <1>6 DEF MakeFirst, MakeSecond, DropQueue, UpdateLatest
<1>7. ASSUME NEW p \in Proc, Publish(p) PROVE Owner'
  BY <1>0, <1>7 DEF Publish, AfterPublish, PublishCache
<1>8. ASSUME NEW p \in Proc,
             StartDrop(p) \/ NothingToDrop(p) \/ Remove(p) \/ RemoveDone(p)
               \/ RemoveFails(p)
      PROVE  Owner'
  BY <1>0, <1>8 DEF StartDrop, NothingToDrop, Remove, RemoveDone, RemoveFails,
                    Return
<1>9. ASSUME NEW p \in Proc, StepFails(p) PROVE Owner'
  BY <1>0, <1>9 DEF StepFails, Return, PublishCache
<1>10. ASSUME NEW p \in Proc, StepRefused(p) PROVE Owner'
  <2>1. pc[p] # "idle" /\ pc' = [pc EXCEPT ![p] = "open"] /\ lock' = lock
    BY <1>10 DEF StepRefused, Return
  <2>2. cache' \in {PublishCache(p), cache,
                    [cache EXCEPT ![p] = listBatchNumbers(p)]}
    BY <1>10 DEF StepRefused
  <2>3. \A q \in Proc : q # p => cache'[q] = cache[q]
    BY <1>0, <2>2 DEF PublishCache
  <2> QED
    BY <1>0, <2>1, <2>3
<1>11. CASE Tick \/ ClockBack
  BY <1>11 DEF Tick, ClockBack
<1>12. CASE UNCHANGED vars
  BY <1>12
<1> QED
  BY <1>1, <1>2, <1>3, <1>4, <1>5, <1>6, <1>7, <1>8, <1>9, <1>10, <1>11, <1>12
     DEF Next, Queueing, IssueStep, Fault

-----------------------------------------------------------------------------
(* The batches on disk.                                                    *)

(* Batches come and go in three places only.                               *)
LEMMA BatchSteps ==
  ASSUME [Next]_vars
  PROVE  \/ UNCHANGED <<dirs, log, first>>
         \/ \E p \in Proc : Publish(p) \/ Remove(p) \/ RemoveFails(p)
BY DEF Next, Queueing, Issue, IssueStep, Fault, vars, clock, disk, handle,
       history, callers, Open, Close, Crash, QueueMultiple,
       QueueMultipleFails, IssueRefused, IssueNothing, IssueStart, MakeFirst,
       MakeSecond, DropQueue, UpdateLatest, NothingToDrop, StartDrop,
       RemoveDone, StepFails, StepRefused, Tick, ClockBack

(* What listBatchRange finds is the tail of the log that is stored.        *)
LEMMA ExistingBatches ==
  ASSUME TypeOK, StoredTail, CacheFresh, NEW p \in Proc
  PROVE  /\ listBatchNumbers(p) = DOMAIN dirs
         /\ RangeOf(DOMAIN dirs).end = Len(log)
         /\ log # <<>> => /\ DOMAIN dirs # {}
                          /\ RangeOf(DOMAIN dirs).begin = first
         /\ log = <<>> => DOMAIN dirs = {}
<1>1. listBatchNumbers(p) = DOMAIN dirs
  BY DEF listBatchNumbers, CacheFresh
<1>2. Len(log) \in Nat /\ first \in Nat
  BY LenProperties DEF TypeOK, HistoryType
<1>3. CASE log = <<>>
  <2>1. first = 0 /\ Len(log) = 0
    BY <1>3, <1>2 DEF StoredTail
  <2>2. DOMAIN dirs = {}
    BY <2>1 DEF StoredTail, Contiguous, Newest
  <2> QED
    BY <1>1, <1>3, <2>1, <2>2 DEF RangeOf, NoBatches
<1>4. CASE log # <<>>
  <2>1. first < Len(log)
    BY <1>4 DEF StoredTail
  <2>2. Len(log) - 1 \in Nat /\ first <= Len(log) - 1
    BY <1>2, <2>1
  <2>3. DOMAIN dirs = first..(Len(log) - 1)
    BY DEF StoredTail, Contiguous, Newest
  <2>4. /\ RangeOf(DOMAIN dirs) = [begin |-> first, end |-> Len(log) - 1 + 1]
        /\ DOMAIN dirs # {}
    BY <1>2, <2>2, <2>3, RangeOfInterval
  <2> QED
    BY <1>1, <1>2, <1>4, <2>4
<1> QED
  BY <1>3, <1>4

(* Publish appends one batch at the end of the stored ones.                *)
LEMMA PublishEffect ==
  ASSUME TypeOK, StoredTail, LoopPosition, NEW p \in Proc, Publish(p)
  PROVE  /\ cur[p] = Len(log)
         /\ Len(log) \in Nat
         /\ Len(log') = Len(log) + 1
         /\ log'[Len(log) + 1] = dir1[p].aas
         /\ \A i \in 1..Len(log) : log'[i] = log[i]
         /\ first' = first
         /\ DOMAIN dirs' = first..Len(log)
         /\ dirs'[Len(log)] = dir1[p]
         /\ \A n \in DOMAIN dirs : dirs'[n] = dirs[n]
<1>1. pc[p] = "publish" /\ log' = Append(log, dir1[p].aas) /\ first' = first
  BY DEF Publish
<1>2. cur[p] = Len(log)
  BY <1>1 DEF LoopPosition, LoopAt
<1>3. log \in Seq(Seq(Submissions)) /\ Len(log) \in Nat /\ first \in Nat
  BY LenProperties DEF TypeOK, HistoryType
<1>4. /\ Len(log') = Len(log) + 1
      /\ log'[Len(log) + 1] = dir1[p].aas
      /\ \A i \in 1..Len(log) : log'[i] = log[i]
  BY <1>1, <1>3
<1>5. DOMAIN dirs = first..(Len(log) - 1) /\ first <= Len(log)
  BY <1>3 DEF StoredTail, Contiguous, Newest
<1>6. dirs' = [n \in DOMAIN dirs \cup {cur[p]} |->
                 IF n = cur[p] THEN dir1[p] ELSE dirs[n]]
  BY DEF Publish
<1>7. DOMAIN dirs' = first..Len(log)
  BY <1>2, <1>3, <1>5, <1>6
<1>8. Len(log) \notin DOMAIN dirs
  BY <1>3, <1>5
<1> QED
  BY <1>1, <1>2, <1>3, <1>4, <1>6, <1>7, <1>8

(* Remove takes away the oldest batch, never the newest.                   *)
LEMMA RemoveEffect ==
  ASSUME TypeOK, StoredTail, LoopPosition, NEW p \in Proc,
         Remove(p) \/ RemoveFails(p)
  PROVE  /\ cur[p] = first
         /\ first \in Nat /\ Len(log) \in Nat
         /\ first + 1 < Len(log)
         /\ first < StoredBatches(dt[p]).begin
         /\ log' = log
<1>1. pc[p] = "remove" /\ IsOld(p) /\ log' = log
  BY DEF Remove, RemoveFails, history
<1>2. /\ cur[p] = first
      /\ lim[p] = Len(log)
      /\ first < Len(log)
      /\ ~AreAllPast(StoredBatches(dt[p]), Newest)
  BY <1>1 DEF LoopPosition, LoopAt
<1>3. Len(log) \in Nat /\ first \in Nat
  BY LenProperties DEF TypeOK, HistoryType
<1>4. AreAllPast(StoredBatches(dt[p]), first)
  BY <1>1, <1>2 DEF IsOld
<1>5. first # Newest
  BY <1>2, <1>4
<1>6. first < StoredBatches(dt[p]).begin
  BY <1>2, <1>4 DEF AreAllPast
<1> QED
  BY <1>1, <1>2, <1>3, <1>5, <1>6 DEF Newest

(* Every step leaves the batches on disk without a gap.                    *)
LEMMA StoredStep ==
  ASSUME TypeOK, StoredTail, LoopPosition, [Next]_vars
  PROVE  StoredTail'
<1>0. Len(log) \in Nat /\ first \in Nat
  BY LenProperties DEF TypeOK, HistoryType
<1>1. CASE UNCHANGED <<dirs, log, first>>
  BY <1>1 DEF StoredTail, Contiguous, Newest
<1>2. ASSUME NEW p \in Proc, Publish(p) PROVE StoredTail'
  <2>1. /\ Len(log') = Len(log) + 1 /\ first' = first
        /\ DOMAIN dirs' = first..Len(log)
    BY <1>2, PublishEffect
  <2>2. first <= Len(log)
    BY <1>0 DEF StoredTail
  <2> QED
    BY <1>0, <2>1, <2>2 DEF StoredTail, Contiguous, Newest
<1>3. ASSUME NEW p \in Proc, Remove(p) PROVE StoredTail'
  <2>1. cur[p] = first /\ first + 1 < Len(log) /\ log' = log
    BY <1>3, RemoveEffect
  <2>2. first' = first + 1 /\ DOMAIN dirs' = DOMAIN dirs \ {first}
    BY <1>3, <2>1 DEF Remove, Restrict
  <2>3. DOMAIN dirs = first..(Len(log) - 1)
    BY DEF StoredTail, Contiguous, Newest
  <2>4. DOMAIN dirs' = (first + 1)..(Len(log) - 1)
    BY <1>0, <2>2, <2>3
  <2> QED
    BY <1>0, <2>1, <2>2, <2>4 DEF StoredTail, Contiguous, Newest
<1>4. ASSUME NEW p \in Proc, RemoveFails(p) PROVE StoredTail'
  <2>1. log' = log /\ first' = first /\ DOMAIN dirs' = DOMAIN dirs
    BY <1>4 DEF RemoveFails, history
  <2> QED
    BY <2>1 DEF StoredTail, Contiguous, Newest
<1> QED
  BY <1>1, <1>2, <1>3, <1>4, BatchSteps

(* Every step leaves a cached list of batches up to date, or cleared.      *)
LEMMA CacheStep ==
  ASSUME TypeOK, Owner, CacheFresh, LoopPosition, [Next]_vars
  PROVE  CacheFresh'
<1> USE DEF vars, clock, disk, handle, history, callers
<1>0. cache \in [Proc -> (SUBSET Nat) \cup {Nil}]
  BY DEF TypeOK, HandleType
<1>1. ASSUME NEW p \in Proc, UNCHANGED dirs,
             cache' \in {cache, PublishCache(p),
                         [cache EXCEPT ![p] = listBatchNumbers(p)]}
      PROVE  CacheFresh'
  <2>1. listBatchNumbers(p) = DOMAIN dirs
    BY DEF listBatchNumbers, CacheFresh
  <2> QED
    BY <1>0, <1>1, <2>1 DEF CacheFresh, PublishCache
<1>2. ASSUME NEW p \in Proc, pc[p] # "idle", cache'[p] = Nil,
             \A q \in Proc : q # p => cache'[q] = cache[q]
      PROVE  CacheFresh'
  BY <1>2, Alone DEF CacheFresh
<1>3. ASSUME NEW p \in Proc, Publish(p) PROVE CacheFresh'
  BY <1>0, <1>2, <1>3 DEF Publish, PublishCache
<1>4. ASSUME NEW p \in Proc, Remove(p) \/ RemoveFails(p) PROVE CacheFresh'
  <2>1. pc[p] = "remove" /\ cache' = cache
    BY <1>4 DEF Remove, RemoveFails
  <2>2. cache[p] = Nil
    BY <2>1 DEF LoopPosition, LoopAt
  <2> QED
    BY <1>2, <2>1, <2>2
<1>5. ASSUME NEW p \in Proc,
             Open(p) \/ MakeFirst(p) \/ MakeSecond(p) \/ DropQueue(p)
               \/ UpdateLatest(p) \/ RemoveDone(p)
      PROVE  CacheFresh'
  BY <1>1, <1>5
     DEF Open, MakeFirst, MakeSecond, DropQueue, UpdateLatest, RemoveDone
<1>6. ASSUME NEW p \in Proc, Close(p) \/ Crash(p) PROVE CacheFresh'
  BY <1>1, <1>6 DEF Close, Crash, Exit, PublishCache
<1>7. ASSUME NEW p \in Proc, NEW as \in Calls,
             QueueMultiple(p, as) \/ QueueMultipleFails(p, as)
      PROVE  CacheFresh'
  BY <1>1, <1>7 DEF QueueMultiple, QueueMultipleFails
<1>8. ASSUME NEW p \in Proc, Issue(p) \/ NothingToDrop(p) \/ StartDrop(p)
      PROVE  CacheFresh'
  BY <1>1, <1>8 DEF Issue, IssueRefused, IssueNothing, IssueStart,
                    NothingToDrop, StartDrop, PublishCache
<1>9. ASSUME NEW p \in Proc, StepFails(p) \/ StepRefused(p) PROVE CacheFresh'
  <2>1. /\ UNCHANGED dirs
        /\ cache' \in {cache, PublishCache(p),
                       [cache EXCEPT ![p] = listBatchNumbers(p)]}
    BY <1>9 DEF StepFails, StepRefused
  <2> QED
    BY <1>1, <2>1
<1>10. CASE Tick \/ ClockBack \/ UNCHANGED vars
  BY <1>10 DEF Tick, ClockBack, CacheFresh
<1> QED
  BY <1>3, <1>4, <1>5, <1>6, <1>7, <1>8, <1>9, <1>10
     DEF Next, Queueing, IssueStep, Fault

-----------------------------------------------------------------------------
(* The loops.                                                              *)

(* The steps after which some run is in the middle of Issue.               *)
LoopStep(p) ==
  \/ IssueNothing(p) \/ IssueStart(p) \/ MakeFirst(p) \/ MakeSecond(p)
  \/ Publish(p) \/ DropQueue(p) \/ UpdateLatest(p) \/ StartDrop(p) \/ Remove(p)

AtRest == \A q \in Proc : pc[q] \in {"idle", "open"}

(* After any other step no run is inside Issue, or nothing that Issue      *)
(* looks at has changed.                                                   *)
LEMMA OtherSteps ==
  ASSUME TypeOK, Owner, [Next]_vars
  PROVE  \/ AtRest'
         \/ UNCHANGED <<disk, pc, handle, history>>
         \/ \E p \in Proc : LoopStep(p)
<1> USE DEF vars, clock, disk, handle, history, callers, Goto
<1>0. pc \in [Proc -> Labels]
  BY DEF TypeOK, HandleType
<1>1. ASSUME NEW p \in Proc, pc[p] # "idle",
             \E l \in {"idle", "open"} : pc' = [pc EXCEPT ![p] = l]
      PROVE  AtRest'
  BY <1>0, <1>1, Alone DEF AtRest
<1>2. ASSUME NEW p \in Proc, Open(p) PROVE AtRest'
  <2>1. \A q \in Proc : pc[q] = "idle"
    BY <1>2 DEF Open, TryLock, Owner
  <2> QED
    BY <1>0, <1>2, <2>1 DEF Open, AtRest
<1>3. ASSUME NEW p \in Proc, Close(p) \/ Crash(p) PROVE AtRest'
  BY <1>1, <1>3 DEF Close, Crash, Exit
<1>4. ASSUME NEW p \in Proc, pc[p] = "open", pc' = pc PROVE AtRest'
  BY <1>0, <1>4, Alone DEF AtRest
<1>5. ASSUME NEW p \in Proc, Queueing(p) PROVE AtRest'
  BY <1>4, <1>5 DEF Queueing, QueueMultiple, QueueMultipleFails
<1>6. ASSUME NEW p \in Proc, IssueRefused(p) PROVE AtRest'
  BY <1>4, <1>6 DEF IssueRefused
<1>8. ASSUME NEW p \in Proc, NothingToDrop(p) \/ RemoveDone(p) \/ RemoveFails(p)
      PROVE  AtRest'
  BY <1>1, <1>8 DEF NothingToDrop, RemoveDone, RemoveFails, Return
<1>9. ASSUME NEW p \in Proc, StepFails(p) \/ StepRefused(p) PROVE AtRest'
  <2>1. pc[p] # "idle" /\ pc' = [pc EXCEPT ![p] = "open"]
    BY <1>9 DEF StepFails, StepRefused, Return
  <2> QED
    BY <1>1, <2>1
<1>10. CASE Tick \/ ClockBack \/ UNCHANGED vars
  BY <1>10 DEF Tick, ClockBack
<1> QED
  BY <1>2, <1>3, <1>5, <1>6, <1>8, <1>9, <1>10
     DEF Next, Issue, IssueStep, Fault, LoopStep

(* A step of a run does not disturb the others, which have no handle.      *)
LEMMA LoopStepAlone ==
  ASSUME TypeOK, Owner, NEW p \in Proc, LoopStep(p)
  PROVE  \A q \in Proc : q # p => pc'[q] = "idle"
<1>1. pc[p] # "idle"
  BY DEF LoopStep, IssueNothing, IssueStart, MakeFirst, MakeSecond, Publish,
         DropQueue, UpdateLatest, StartDrop, Remove
<1>2. \A q \in Proc : q # p => pc'[q] = pc[q]
  BY DEF LoopStep, IssueNothing, IssueStart, MakeFirst, MakeSecond, Publish,
         DropQueue, UpdateLatest, StartDrop, Remove, Goto, TypeOK, HandleType
<1> QED
  BY <1>1, <1>2, Alone

(* Every step keeps the loops where they should be.                        *)
LEMMA LoopPositionStep ==
  ASSUME TypeOK, Owner, StoredTail, CacheFresh, LoopPosition, [Next]_vars
  PROVE  LoopPosition'
<1> USE DEF vars, clock, disk, handle, history, callers, Goto
<1>0. Len(log) \in Nat /\ first \in Nat
  BY LenProperties DEF TypeOK, HistoryType
<1>h. /\ pc \in [Proc -> Labels]
      /\ dt \in [Proc -> 0..MaxTime]
      /\ cache \in [Proc -> (SUBSET Nat) \cup {Nil}]
      /\ cur \in [Proc -> Nat] /\ lim \in [Proc -> Nat]
  BY DEF TypeOK, HandleType
<1>1. CASE AtRest'
  BY <1>1 DEF AtRest, LoopPosition, LoopAt
<1>2. CASE UNCHANGED <<disk, pc, handle, history>>
  BY <1>2 DEF LoopPosition, LoopAt, Newest
<1>3. ASSUME NEW p \in Proc, LoopStep(p), LoopAt(p)' PROVE LoopPosition'
  BY <1>3, LoopStepAlone DEF LoopPosition, LoopAt
<1>i. ASSUME NEW p \in Proc, ~IssueRefuses(p)
      PROVE  /\ toCreateBegin(p) = Len(log)
             /\ StoredBatches(now).end \in Nat
             /\ Len(log) <= StoredBatches(now).end
             /\ first <= StoredBatches(now).begin
  <2>1. toCreateBegin(p) = Len(log)
    BY ExistingBatches DEF toCreateBegin
  <2>2. StoredBatches(now).end \in Nat /\ StoredBatches(now).begin \in Nat
    BY StoredType DEF TypeOK, ClockType
  <2>3. CASE log = <<>>
    BY <1>0, <2>1, <2>2, <2>3 DEF StoredTail
  <2>4. CASE log # <<>>
    <3>1. /\ listBatchNumbers(p) # {}
          /\ RangeOf(listBatchNumbers(p)).begin = first
          /\ RangeOf(listBatchNumbers(p)).end = Len(log)
      BY <2>4, ExistingBatches
    <3>2. /\ ~(RangeOf(listBatchNumbers(p)).begin > StoredBatches(now).begin)
          /\ ~(RangeOf(listBatchNumbers(p)).end > StoredBatches(now).end)
      BY <1>i, <3>1 DEF IssueRefuses, ClockDisagrees
    <3> QED
      BY <1>0, <2>1, <2>2, <3>1, <3>2
  <2> QED
    BY <2>3, <2>4
<1>a. ASSUME NEW p \in Proc, IssueNothing(p) PROVE LoopAt(p)'
  <2>1. /\ pc'[p] = "dropOld" /\ dt'[p] = now
        /\ log' = log /\ first' = first
        /\ toCreateBegin(p) = StoredBatches(now).end /\ ~IssueRefuses(p)
    BY <1>h, <1>a DEF IssueNothing
  <2> QED
    BY <1>i, <2>1 DEF LoopAt
<1>4. ASSUME NEW p \in Proc, IssueStart(p) PROVE LoopAt(p)'
  <2>1. /\ pc'[p] = "make1" /\ cur'[p] = toCreateBegin(p)
        /\ lim'[p] = StoredBatches(now).end /\ dt'[p] = now
        /\ log' = log /\ first' = first
        /\ toCreateBegin(p) # StoredBatches(now).end /\ ~IssueRefuses(p)
    BY <1>h, <1>4 DEF IssueStart
  <2> QED
    BY <1>0, <1>i, <2>1 DEF LoopAt
<1>5. ASSUME NEW p \in Proc, MakeFirst(p) PROVE LoopAt(p)'
  BY <1>h, <1>5 DEF MakeFirst, LoopPosition, LoopAt
<1>6. ASSUME NEW p \in Proc, MakeSecond(p) PROVE LoopAt(p)'
  BY <1>h, <1>6 DEF MakeSecond, LoopPosition, LoopAt
<1>7. ASSUME NEW p \in Proc, Publish(p) PROVE LoopAt(p)'
  <2>1. pc'[p] \in {"dropQueue", "updateLatest"}
    BY <1>h, <1>7 DEF Publish, AfterPublish
  <2>2. Len(log') = Len(log) + 1
    BY <1>7, PublishEffect
  <2>3. /\ cur[p] = Len(log) /\ cur[p] < lim[p]
        /\ lim[p] = StoredBatches(dt[p]).end
        /\ first <= StoredBatches(dt[p]).begin
        /\ cur' = cur /\ lim' = lim /\ dt' = dt /\ first' = first
    BY <1>7 DEF Publish, LoopPosition, LoopAt
  <2> QED
    BY <1>0, <2>1, <2>2, <2>3 DEF LoopAt, Newest
<1>8. ASSUME NEW p \in Proc, DropQueue(p) PROVE LoopAt(p)'
  BY <1>h, <1>8 DEF DropQueue, LoopPosition, LoopAt, Newest
<1>9. ASSUME NEW p \in Proc, UpdateLatest(p) PROVE LoopAt(p)'
  <2>1. /\ cur[p] = Len(log) - 1 /\ lim[p] = StoredBatches(dt[p]).end
        /\ cur[p] < lim[p] /\ first <= StoredBatches(dt[p]).begin
        /\ cur'[p] = cur[p] + 1
        /\ lim' = lim /\ dt' = dt /\ log' = log /\ first' = first
        /\ pc'[p] = IF cur[p] + 1 < lim[p] THEN "make1" ELSE "dropOld"
    BY <1>h, <1>9 DEF UpdateLatest, LoopPosition, LoopAt, Newest
  <2> QED
    BY <1>0, <1>h, <2>1 DEF LoopAt
<1>10. ASSUME NEW p \in Proc, StartDrop(p) PROVE LoopAt(p)'
  <2>1. listBatchNumbers(p) # {} /\ ~DropRefuses(p)
    BY <1>10 DEF StartDrop
  <2>2. log # <<>>
    BY <2>1, ExistingBatches
  <2>3. /\ RangeOf(listBatchNumbers(p)).begin = first
        /\ RangeOf(listBatchNumbers(p)).end = Len(log)
    BY <2>2, ExistingBatches
  <2>4. ~AreAllPast(StoredBatches(dt[p]), Newest)
    BY <2>1, <2>3 DEF DropRefuses, Newest
  <2>5. first < Len(log)
    BY <2>2 DEF StoredTail
  <2>7. /\ Len(log) = StoredBatches(dt[p]).end
        /\ first <= StoredBatches(dt[p]).begin
    BY <1>10 DEF StartDrop, LoopPosition, LoopAt
  <2>6. /\ pc'[p] = "remove" /\ cur'[p] = first /\ lim'[p] = Len(log)
        /\ cache'[p] = Nil /\ log' = log /\ first' = first /\ dt' = dt
    BY <1>h, <1>10, <2>3 DEF StartDrop
  <2> QED
    BY <2>4, <2>5, <2>6, <2>7 DEF LoopAt, Newest
<1>11. ASSUME NEW p \in Proc, Remove(p) PROVE LoopAt(p)'
  <2>1. /\ cur[p] = first /\ first + 1 < Len(log) /\ log' = log
        /\ first < StoredBatches(dt[p]).begin
    BY <1>11, RemoveEffect
  <2>2. /\ pc[p] = "remove" /\ pc' = pc /\ lim' = lim /\ dt' = dt
        /\ cache' = cache /\ cur'[p] = first + 1 /\ first' = first + 1
    BY <1>h, <1>11, <2>1 DEF Remove
  <2>3. /\ lim[p] = Len(log) /\ cache[p] = Nil
        /\ Len(log) = StoredBatches(dt[p]).end
        /\ ~AreAllPast(StoredBatches(dt[p]), Newest)
    BY <2>2 DEF LoopPosition, LoopAt
  <2>4. StoredBatches(dt[p]).begin \in Nat
    BY <1>h, StoredType, BoundsType
  <2> QED
    BY <1>0, <2>1, <2>2, <2>3, <2>4 DEF LoopAt, Newest
<1>12. ASSUME NEW p \in Proc, LoopStep(p) PROVE LoopPosition'
  BY <1>3, <1>a, <1>4, <1>5, <1>6, <1>7, <1>8, <1>9, <1>10, <1>11, <1>12
     DEF LoopStep
<1> QED
  BY <1>1, <1>2, <1>12, OtherSteps

-----------------------------------------------------------------------------
(* Contents and windows.                                                   *)

(* The heads that issueBatchTo starts from end with the batch before.      *)
LEMMA PrevHeadsWindow ==
  ASSUME TypeOK, StoredTail, LoopPosition, WindowChain, NEW p \in Proc,
         pc[p] = "make1", CanIssueBatch(p)
  PROVE  /\ prevHeads(p) \in Heads
         /\ prevHeads(p) =
              [i \in 1..ValidityWindowSize |->
                 HeadOf(cur[p] - 1 - ValidityWindowSize + i)]
<1>0. /\ cur[p] \in Nat /\ ValidityWindowSize \in Nat
      /\ dirs \in [DOMAIN dirs -> Batches]
  BY ParamsAssumption DEF TypeOK, HandleType, DiskType
<1>1. CASE cur[p] = 0
  <2>1. \A i \in 1..ValidityWindowSize :
          HeadOf(cur[p] - 1 - ValidityWindowSize + i) = Root(0, <<>>)
    BY <1>0, <1>1 DEF HeadOf
  <2> QED
    BY <1>1, <2>1, PreEpochType DEF prevHeads, PreEpochRoots
<1>2. CASE cur[p] # 0
  <2>1. cur[p] - 1 \in DOMAIN dirs
    BY <1>2 DEF CanIssueBatch
  <2>2. prevHeads(p) = dirs[cur[p] - 1].heads
    BY <1>2 DEF prevHeads
  <2>3. dirs[cur[p] - 1] \in Batches
    BY <1>0, <2>1
  <2> QED
    BY <2>1, <2>2, <2>3 DEF WindowChain, Batches
<1> QED
  BY <1>1, <1>2

(* Every step keeps the result of the first pass right.                    *)
LEMMA PassResultStep ==
  ASSUME TypeOK, Owner, StoredTail, LoopPosition, PassResult, WindowChain,
         [Next]_vars
  PROVE  PassResult'
<1> USE DEF vars, clock, disk, handle, history, callers, Goto
<1>h. /\ pc \in [Proc -> Labels]
      /\ cur \in [Proc -> Nat] /\ lim \in [Proc -> Nat]
      /\ dir1 \in [Proc -> Batches \cup {Nil}]
  BY DEF TypeOK, HandleType
<1>1. CASE AtRest'
  BY <1>1 DEF AtRest, PassResult, PassAt
<1>2. CASE UNCHANGED <<disk, pc, handle, history>>
  BY <1>2 DEF PassResult, PassAt, Contents, Empty, HeadOf
<1>3. ASSUME NEW p \in Proc, LoopStep(p), PassAt(p)' PROVE PassResult'
  BY <1>3, LoopStepAlone DEF PassResult, PassAt
<1>4. ASSUME NEW p \in Proc, MakeFirst(p) PROVE PassAt(p)'
  <2>1. PICK o \in Outcomes : dir1' = [dir1 EXCEPT ![p] = issueBatchTo(p, o)]
    BY <1>4 DEF MakeFirst
  <2>2. pc[p] = "make1" /\ CanIssueBatch(p) /\ cur' = cur /\ lim' = lim
          /\ queue' = queue /\ log' = log
    BY <1>4 DEF MakeFirst
  <2>3. dir1'[p] = issueBatchTo(p, o) /\ issueBatchTo(p, o) \in Batches
    BY <1>h, <2>1, <2>2, PassType
  <2>4. Contents(p)' = Contents(p) /\ \A n : HeadOf(n)' = HeadOf(n)
    BY <2>2 DEF Contents, Empty, HeadOf
  <2>5. dir1'[p].files = o /\ dir1'[p].aas = Contents(p)
    BY <2>3 DEF issueBatchTo
  <2>6. Contents(p) \in Seq(Submissions)
    BY <2>2, ReadableType DEF Contents, CanIssueBatch
  <2>7. Root(cur[p], Contents(p)) \in Nat \X Seq(Submissions)
    BY <1>h, <2>6 DEF Root
  <2>8. dir1'[p].heads =
          [i \in 1..ValidityWindowSize |->
             IF i < ValidityWindowSize THEN prevHeads(p)[i + 1]
             ELSE Root(cur[p], Contents(p))]
    <3>1. dir1'[p].heads =
            newTreeHeads(prevHeads(p), Root(cur[p], Contents(p)))
      BY <2>3 DEF issueBatchTo
    <3>2. prevHeads(p) \in Heads
      BY <2>2, PrevHeadsWindow
    <3> QED
      BY <2>7, <3>1, <3>2, NewTreeHeadsShift
  <2>9. \A i \in 1..ValidityWindowSize :
          i < ValidityWindowSize =>
            prevHeads(p)[i + 1] = HeadOf(cur[p] - ValidityWindowSize + i)
    <3>1. ValidityWindowSize \in Nat /\ cur[p] \in Nat
      BY <1>h, ParamsAssumption
    <3>2. \A j \in 1..ValidityWindowSize :
            prevHeads(p)[j] = HeadOf(cur[p] - 1 - ValidityWindowSize + j)
      BY <2>2, PrevHeadsWindow
    <3>3. ASSUME NEW i \in 1..ValidityWindowSize, i < ValidityWindowSize
          PROVE  /\ i + 1 \in 1..ValidityWindowSize
                 /\ cur[p] - 1 - ValidityWindowSize + (i + 1)
                      = cur[p] - ValidityWindowSize + i
      BY <3>1, <3>3
    <3> QED
      BY <3>2, <3>3
  <2>10. dir1'[p].heads =
           [i \in 1..ValidityWindowSize |->
              IF i < ValidityWindowSize
              THEN HeadOf(cur[p] - ValidityWindowSize + i)
              ELSE Root(cur[p], Contents(p))]
    BY <2>8, <2>9
  <2> QED
    BY <2>2, <2>3, <2>4, <2>5, <2>10 DEF PassAt
<1>5. ASSUME NEW p \in Proc, MakeSecond(p) PROVE PassAt(p)'
  BY <1>5 DEF MakeSecond, PassResult, PassAt, Contents, Empty, HeadOf
<1>6. ASSUME NEW p \in Proc,
             IssueNothing(p) \/ IssueStart(p) \/ Publish(p) \/ DropQueue(p)
               \/ UpdateLatest(p) \/ StartDrop(p) \/ Remove(p)
      PROVE  PassAt(p)'
  BY <1>h, <1>6 DEF IssueNothing, IssueStart, Publish, AfterPublish, DropQueue, UpdateLatest,
                    StartDrop, Remove, PassAt
<1>7. ASSUME NEW p \in Proc, LoopStep(p) PROVE PassResult'
  BY <1>3, <1>4, <1>5, <1>6, <1>7 DEF LoopStep
<1> QED
  BY <1>1, <1>2, <1>7, OtherSteps

(* Every step keeps the stored windows chained.                            *)
LEMMA WindowChainStep ==
  ASSUME TypeOK, StoredTail, LoopPosition, PassResult, WindowChain, [Next]_vars
  PROVE  WindowChain'
<1>0. Len(log) \in Nat /\ first \in Nat /\ ValidityWindowSize \in Nat
  BY LenProperties, ParamsAssumption DEF TypeOK, HistoryType
<1>1. CASE UNCHANGED <<dirs, log, first>>
  BY <1>1 DEF WindowChain, HeadOf
<1>2. ASSUME NEW p \in Proc, Publish(p) PROVE WindowChain'
  <2>0. PICK N \in Nat : N = Len(log)
    BY <1>0
  <2>1. /\ cur[p] = N
        /\ log'[N + 1] = dir1[p].aas
        /\ \A i \in 1..N : log'[i] = log[i]
        /\ DOMAIN dirs' = first..N
        /\ dirs'[N] = dir1[p]
        /\ \A n \in DOMAIN dirs : dirs'[n] = dirs[n]
    BY <1>2, <2>0, PublishEffect
  <2>2. DOMAIN dirs = first..(N - 1)
    BY <2>0 DEF StoredTail, Contiguous, Newest
  <2>3. \A n \in Int : n < N => HeadOf(n)' = HeadOf(n)
    BY <1>0, <2>1 DEF HeadOf
  <2>4. HeadOf(N)' = Root(N, dir1[p].aas)
    BY <1>0, <2>1 DEF HeadOf
  <2>5. ASSUME NEW n \in DOMAIN dirs
        PROVE  /\ dirs'[n].aas = log'[n + 1]
               /\ dirs'[n].heads = [i \in 1..ValidityWindowSize |->
                                      HeadOf(n - ValidityWindowSize + i)']
    <3>1. n \in Nat /\ n < N /\ n + 1 \in 1..N
      BY <1>0, <2>2
    <3>2. \A i \in 1..ValidityWindowSize :
            HeadOf(n - ValidityWindowSize + i)' = HeadOf(n - ValidityWindowSize + i)
      BY <1>0, <3>1, <2>3
    <3>3. /\ dirs[n].aas = log[n + 1]
          /\ dirs[n].heads = [i \in 1..ValidityWindowSize |->
                                HeadOf(n - ValidityWindowSize + i)]
      BY DEF WindowChain
    <3> QED
      BY <2>1, <3>1, <3>2, <3>3
  <2>6. /\ dirs'[N].aas = log'[N + 1]
        /\ dirs'[N].heads =
             [i \in 1..ValidityWindowSize |->
                HeadOf(N - ValidityWindowSize + i)']
    <3>1. /\ dir1[p].aas = Contents(p)
          /\ dir1[p].heads =
               [i \in 1..ValidityWindowSize |->
                  IF i < ValidityWindowSize
                  THEN HeadOf(cur[p] - ValidityWindowSize + i)
                  ELSE Root(cur[p], Contents(p))]
      BY <1>2 DEF Publish, PassResult, PassAt
    <3>2. \A i \in 1..ValidityWindowSize :
            HeadOf(N - ValidityWindowSize + i)' =
              IF i < ValidityWindowSize
              THEN HeadOf(N - ValidityWindowSize + i)
              ELSE Root(N, dir1[p].aas)
      BY <1>0, <2>3, <2>4
    <3> QED
      BY <2>1, <3>1, <3>2
  <2>7. \A n \in DOMAIN dirs' : n \in DOMAIN dirs \/ n = N
    BY <1>0, <2>1, <2>2
  <2> QED
    BY <2>5, <2>6, <2>7 DEF WindowChain
<1>3. ASSUME NEW p \in Proc, Remove(p) PROVE WindowChain'
  <2>1. /\ log' = log
        /\ \A n \in DOMAIN dirs' : n \in DOMAIN dirs /\ dirs'[n] = dirs[n]
    BY <1>3 DEF Remove, Restrict
  <2> QED
    BY <2>1 DEF WindowChain, HeadOf
<1>4. ASSUME NEW p \in Proc, RemoveFails(p) PROVE WindowChain'
  <2>1. PICK left \in SUBSET dirs[cur[p]].files :
          dirs' = [dirs EXCEPT ![cur[p]].files = left]
    BY <1>4 DEF RemoveFails
  <2>2. dirs \in [DOMAIN dirs -> Batches]
    BY DEF TypeOK, DiskType
  <2>3. DOMAIN dirs' = DOMAIN dirs
    BY <2>1
  <2>4. \A n \in DOMAIN dirs : /\ dirs'[n].aas = dirs[n].aas
                               /\ dirs'[n].heads = dirs[n].heads
    BY <2>1, <2>2 DEF Batches
  <2>5. log' = log
    BY <1>4 DEF RemoveFails, history
  <2> QED
    BY <2>3, <2>4, <2>5 DEF WindowChain, HeadOf
<1> QED
  BY <1>1, <1>2, <1>3, <1>4, BatchSteps

-----------------------------------------------------------------------------
(* The queue.                                                              *)

(* What a publishing run holds is what it read from the queue.             *)
LEMMA PublishedContents ==
  ASSUME PassResult, NEW p \in Proc, Publish(p)
  PROVE  dir1[p].aas = Contents(p)
BY DEF Publish, PassResult, PassAt

(* Every step keeps the queue and the newest batch the same until          *)
(* dropQueue truncates it.                                                 *)
LEMMA QueueIssuedStep ==
  ASSUME TypeOK, Owner, StoredTail, LoopPosition, PassResult, QueueIssued,
         [Next]_vars
  PROVE  QueueIssued'
<1> USE DEF vars, clock, disk, handle, history, callers, Goto
<1>h. pc \in [Proc -> Labels]
  BY DEF TypeOK, HandleType
<1>1. CASE AtRest'
  BY <1>1 DEF AtRest, QueueIssued
<1>2. CASE UNCHANGED <<disk, pc, handle, history>>
  BY <1>2 DEF QueueIssued
<1>3. ASSUME NEW p \in Proc, LoopStep(p), pc'[p] # "dropQueue"
      PROVE  QueueIssued'
  BY <1>3, LoopStepAlone DEF QueueIssued
<1>4. ASSUME NEW p \in Proc, Publish(p) PROVE QueueIssued'
  <2>1. \A q \in Proc : q # p => pc'[q] = "idle"
    BY <1>4, LoopStepAlone DEF LoopStep
  <2>2. log'[Len(log')] = Contents(p) /\ queue' = queue
    <3>1. Len(log') = Len(log) + 1 /\ log'[Len(log) + 1] = dir1[p].aas
      BY <1>4, PublishEffect
    <3>2. dir1[p].aas = Contents(p)
      BY <1>4, PublishedContents
    <3>3. queue' = queue
      BY <1>4 DEF Publish
    <3> QED
      BY <3>1, <3>2, <3>3
  <2>3. pc'[p] = "dropQueue" => Contents(p) = queue
    BY <1>h, <1>4 DEF Publish, AfterPublish, Contents
  <2> QED
    BY <2>1, <2>2, <2>3 DEF QueueIssued
<1>5. ASSUME NEW p \in Proc, LoopStep(p), ~Publish(p)
      PROVE  pc'[p] # "dropQueue"
  BY <1>h, <1>5 DEF LoopStep, IssueNothing, IssueStart, MakeFirst, MakeSecond,
                    DropQueue, UpdateLatest, StartDrop, Remove
<1> QED
  BY <1>1, <1>2, <1>3, <1>4, <1>5, OtherSteps

(* The queue and the callers' view of it change in three places only.      *)
LEMMA QueueSteps ==
  ASSUME [Next]_vars
  PROVE  \/ UNCHANGED <<queue, acked>>
         \/ \E p \in Proc, as \in Calls :
              QueueMultiple(p, as) \/ QueueMultipleFails(p, as)
         \/ \E p \in Proc : DropQueue(p)
BY ZenonT(40) DEF Next, Queueing, Issue, IssueStep, Fault, vars, clock, disk, handle,
       history, callers, Open, Close, Crash, IssueRefused, IssueNothing,
       IssueStart, MakeFirst, MakeSecond, Publish, UpdateLatest,
       NothingToDrop, StartDrop, Remove, RemoveFails, RemoveDone, StepFails,
       StepRefused, Tick, ClockBack

(* What has been published stays published.                                *)
LEMMA PublishedGrows ==
  ASSUME TypeOK, StoredTail, LoopPosition, [Next]_vars
  PROVE  Published \subseteq Published'
<1>0. log \in Seq(Seq(Submissions)) /\ Len(log) \in Nat
      /\ DOMAIN log = 1..Len(log)
  BY LenProperties DEF TypeOK, HistoryType
<1>1. CASE log' = log
  BY <1>1 DEF Published
<1>2. ASSUME NEW p \in Proc, Publish(p) PROVE Published \subseteq Published'
  <2>1. \A i \in DOMAIN log : log'[i] = log[i]
    BY <1>0, <1>2, PublishEffect
  <2>2. log' = Append(log, dir1[p].aas)
    BY <1>2 DEF Publish
  <2>3. DOMAIN log \subseteq DOMAIN log'
    BY <1>0, <2>2
  <2> QED
    BY <2>1, <2>3 DEF Published
<1>3. log' = log \/ \E p \in Proc : Publish(p)
  BY BatchSteps, RemoveEffect
<1> QED
  BY <1>1, <1>2, <1>3

(* Every step keeps acknowledged submissions queued or published.          *)
LEMMA NoLostStep ==
  ASSUME TypeOK, StoredTail, LoopPosition, QueueIssued, NoLostSubmission,
         [Next]_vars
  PROVE  NoLostSubmission'
<1>0. queue \in Seq(Submissions \cup {Garbled})
  BY DEF TypeOK, DiskType
<1>1. CASE UNCHANGED <<queue, acked>>
  BY <1>1, PublishedGrows DEF NoLostSubmission
<1>2. ASSUME NEW p \in Proc, NEW as \in Calls, QueueMultiple(p, as)
      PROVE  NoLostSubmission'
  <2>1. Range(queue \o as) = Range(queue) \cup Range(as)
    BY <1>0, QueueAppendAdds
  <2>2. Range(queue') = Range(queue) \cup Range(as)
    BY <1>2, <2>1 DEF QueueMultiple
  <2>3. acked' = acked \cup Range(as)
    BY <1>2 DEF QueueMultiple
  <2> QED
    BY <2>2, <2>3, PublishedGrows DEF NoLostSubmission
<1>3. ASSUME NEW p \in Proc, NEW as \in Calls, QueueMultipleFails(p, as)
      PROVE  NoLostSubmission'
  <2>1. PICK k \in 0..Len(as) - 1, torn \in {<<>>, <<Garbled>>} :
          queue' = queue \o SubSeq(as, 1, k) \o torn
    BY <1>3 DEF QueueMultipleFails
  <2>2. Range(queue) \subseteq Range(queue')
    BY <1>0, <2>1, QueueAppendKeeps
  <2>3. acked' = acked
    BY <1>3 DEF QueueMultipleFails
  <2> QED
    BY <2>2, <2>3, PublishedGrows DEF NoLostSubmission
<1>4. ASSUME NEW p \in Proc, DropQueue(p) PROVE NoLostSubmission'
  <2>1. pc[p] = "dropQueue" /\ queue' = <<>> /\ acked' = acked /\ log' = log
    BY <1>4 DEF DropQueue, dropQueue, history, callers
  <2>2. queue = log[Len(log)]
    BY <2>1 DEF QueueIssued
  <2>3. Len(log) \in DOMAIN log
    <3>1. cur[p] = Len(log) - 1 /\ cur[p] \in Nat
      BY <2>1 DEF LoopPosition, LoopAt, Newest, TypeOK, HandleType
    <3>2. Len(log) \in Nat /\ DOMAIN log = 1..Len(log)
      BY LenProperties DEF TypeOK, HistoryType
    <3> QED
      BY <3>1, <3>2
  <2>4. Range(queue) \subseteq Published
    BY <2>2, <2>3 DEF Published
  <2>5. Published' = Published
    BY <2>1 DEF Published
  <2> QED
    BY <2>1, <2>4, <2>5 DEF NoLostSubmission
<1> QED
  BY <1>1, <1>2, <1>3, <1>4, QueueSteps

-----------------------------------------------------------------------------
(* The storage window.                                                     *)

(* Later times have later batches.                                         *)
LEMMA DivMonotone ==
  ASSUME NEW d \in Nat \ {0}, NEW x \in Nat, NEW y \in Nat, x <= y
  PROVE  x \div d \in Nat /\ y \div d \in Nat /\ x \div d <= y \div d
<1> DEFINE a == x \div d
           b == y \div d
<1>1. a \in Int /\ b \in Int /\ a >= 0 /\ b >= 0
  OBVIOUS
<1>2. d * a <= x /\ y < d * (b + 1)
  OBVIOUS
<1> HIDE DEF a, b
<1>3. d * a < d * (b + 1)
  BY <1>1, <1>2
<1>4. ~(b + 1 <= a)
  <2>1. ASSUME b + 1 <= a PROVE FALSE
    <3>1. PICK c \in Nat : a = b + 1 + c
      <4>1. a - (b + 1) \in Nat /\ a = b + 1 + (a - (b + 1))
        BY <1>1, <2>1
      <4> QED
        BY <4>1
    <3>2. d * a = d * (b + 1) + d * c /\ d * c >= 0
      BY <1>1, <3>1
    <3> QED
      BY <1>1, <1>3, <3>2
  <2> QED
    BY <2>1
<1> QED
  BY <1>1, <1>4 DEF a, b

(* The storage window only moves forward in time, and batch numbers are    *)
(* not truncated in the time considered.                                   *)
LEMMA StoredMonotone ==
  ASSUME NEW t \in 0..MaxTime, NEW u \in 0..MaxTime, t <= u
  PROVE  /\ StoredBatches(t).begin <= StoredBatches(u).begin
         /\ StoredBatches(t).end <= StoredBatches(u).end
<1>0. MaxTime \in Nat /\ StartTime \in Nat /\ BatchDuration \in Nat \ {0}
      /\ StorageWindowSize \in Nat /\ U32 \in Nat \ {0}
  BY ParamsAssumption, BoundsType
<1>1. CASE t < StartTime
  BY <1>0, <1>1, StoredType DEF StoredBatches, BatchesBack, NoBatches
<1>2. CASE t >= StartTime
  <2>1. t - StartTime \in Nat /\ u - StartTime \in Nat
        /\ t - StartTime <= u - StartTime /\ u >= StartTime
    BY <1>0, <1>2
  <2>2. /\ CurrentNumber(t) \in Nat /\ CurrentNumber(u) \in Nat
        /\ CurrentNumber(t) <= CurrentNumber(u)
    BY <1>0, <2>1, DivMonotone DEF CurrentNumber
  <2>3. CurrentNumber(t) < U32 /\ CurrentNumber(u) < U32
    BY <1>2, <2>1, NoWrapAssumption
  <2>4. \A x \in Nat : x < U32 => x % U32 = x
    BY <1>0
  <2>5. ASSUME NEW v \in 0..MaxTime, v >= StartTime, CurrentNumber(v) \in Nat,
               CurrentNumber(v) < U32
        PROVE  StoredBatches(v) =
                 [begin |-> IF CurrentNumber(v) - StorageWindowSize < 0 THEN 0
                            ELSE CurrentNumber(v) - StorageWindowSize,
                  end   |-> CurrentNumber(v)]
    BY <1>0, <2>4, <2>5 DEF StoredBatches, BatchesBack
  <2> QED
    BY <1>0, <1>2, <2>1, <2>2, <2>3, <2>5
<1> QED
  BY <1>0, <1>1, <1>2

(* The latest time seen only grows.                                        *)
LEMMA HiGrows ==
  ASSUME TypeOK, TypeOK', [Next]_vars
  PROVE  hi \in 0..MaxTime /\ hi' \in 0..MaxTime /\ hi <= hi'
<1>1. hi \in 0..MaxTime /\ hi' \in 0..MaxTime
  BY DEF TypeOK, ClockType
<1>2. hi' = hi \/ Tick
  BY ZenonT(40) DEF Next, Queueing, Issue, IssueStep, Fault, vars, clock, disk, handle,
       history, callers, Open, Close, Crash, QueueMultiple,
       QueueMultipleFails, IssueRefused, IssueNothing, IssueStart, MakeFirst,
       MakeSecond, Publish, DropQueue, UpdateLatest, NothingToDrop, StartDrop,
       Remove, RemoveFails, RemoveDone, StepFails, StepRefused, ClockBack
<1> QED
  BY <1>1, <1>2, BoundsType DEF Tick

(* Every step keeps all times within what the clock has shown.             *)
LEMMA ClockSeenStep ==
  ASSUME TypeOK, TypeOK', ClockSeen, [Next]_vars
  PROVE  ClockSeen'
<1> USE DEF vars, clock, disk, handle, history, callers
<1>0. /\ now \in Nat /\ hi \in Nat /\ hi' \in Nat /\ hi <= hi'
      /\ dt \in [Proc -> Nat] /\ dt' \in [Proc -> Nat]
  BY HiGrows, BoundsType DEF TypeOK, ClockType, HandleType
<1>1. now' <= hi'
  <2>1. CASE UNCHANGED <<now, hi>>
    BY <2>1 DEF ClockSeen
  <2>2. CASE Tick
    BY <1>0, <2>2 DEF Tick
  <2>3. CASE ClockBack
    BY <1>0, <2>3 DEF ClockBack, ClockSeen
  <2>4. UNCHANGED <<now, hi>> \/ Tick \/ ClockBack
    BY ZenonT(40) DEF Next, Queueing, Issue, IssueStep, Fault, Open, Close, Crash,
       QueueMultiple, QueueMultipleFails, IssueRefused, IssueNothing,
       IssueStart, MakeFirst, MakeSecond, Publish, DropQueue, UpdateLatest,
       NothingToDrop, StartDrop, Remove, RemoveFails, RemoveDone, StepFails,
       StepRefused
  <2> QED
    BY <2>1, <2>2, <2>3, <2>4
<1>2. dt' = dt \/ \E p \in Proc : \E t \in {0, now} : dt' = [dt EXCEPT ![p] = t]
  BY ZenonT(40) DEF Next, Queueing, Issue, IssueStep, Fault, Open, Close, Crash, Exit,
       Return, ForgetCall, QueueMultiple, QueueMultipleFails, IssueRefused,
       IssueNothing, IssueStart, MakeFirst, MakeSecond, Publish, DropQueue,
       UpdateLatest, NothingToDrop, StartDrop, Remove, RemoveFails,
       RemoveDone, StepFails, StepRefused, Tick, ClockBack
<1>3. \A p \in Proc : dt'[p] <= hi
  BY <1>0, <1>2 DEF ClockSeen
<1> QED
  BY <1>0, <1>1, <1>3 DEF ClockSeen

(* Every step respects the storage window: nothing is published early or   *)
(* removed too soon, and the newest batch can be chained to.               *)
LEMMA StorageStep ==
  ASSUME TypeOK, TypeOK', StoredTail, LoopPosition, PassResult, ClockSeen,
         NewestReady, RetainedWindow, CanContinue, [Next]_vars
  PROVE  NewestReady' /\ RetainedWindow' /\ CanContinue'
<1>0. /\ Len(log) \in Nat /\ first \in Nat
      /\ StoredBatches(hi).begin \in Nat /\ StoredBatches(hi).end \in Nat
      /\ StoredBatches(hi').begin \in Nat /\ StoredBatches(hi').end \in Nat
      /\ dirs \in [DOMAIN dirs -> Batches]
  BY LenProperties, HiGrows, StoredType, BoundsType, SMTT(30)
     DEF TypeOK, HistoryType, DiskType
<1>1. /\ StoredBatches(hi).begin <= StoredBatches(hi').begin
      /\ StoredBatches(hi).end <= StoredBatches(hi').end
  BY HiGrows, StoredMonotone
<1>2. \A p \in Proc :
        /\ StoredBatches(dt[p]).begin \in Nat /\ StoredBatches(dt[p]).end \in Nat
        /\ StoredBatches(dt[p]).begin <= StoredBatches(hi).begin
        /\ StoredBatches(dt[p]).end <= StoredBatches(hi).end
  BY StoredMonotone, StoredType, BoundsType
     DEF ClockSeen, TypeOK, ClockType, HandleType
<1>3. CASE UNCHANGED <<dirs, log, first>>
  BY <1>0, <1>1, <1>3 DEF NewestReady, RetainedWindow, CanContinue, Newest
<1>4. ASSUME NEW p \in Proc, Publish(p)
      PROVE  NewestReady' /\ RetainedWindow' /\ CanContinue'
  <2>1. /\ cur[p] = Len(log) /\ Len(log') = Len(log) + 1
        /\ DOMAIN dirs' = first..Len(log)
        /\ dirs'[Len(log)] = dir1[p]
        /\ \A n \in DOMAIN dirs : dirs'[n] = dirs[n]
    BY <1>4, PublishEffect
  <2>2. cur[p] < lim[p] /\ lim[p] = StoredBatches(dt[p]).end
    BY <1>4 DEF Publish, LoopPosition, LoopAt
  <2>3. dir1[p].files \in Outcomes
    BY <1>4 DEF Publish, PassResult, PassAt
  <2>4. NewestReady'
    BY <1>0, <1>1, <1>2, <2>1, <2>2 DEF NewestReady, Newest
  <2>5. ASSUME NEW n \in StoredBatches(hi').begin..Len(log)
        PROVE  n \in DOMAIN dirs' /\ dirs'[n].files \in Outcomes
    <3>1. CASE n = Len(log)
      <4>1. first <= Len(log)
        BY <1>0 DEF StoredTail
      <4> QED
        BY <1>0, <2>1, <2>3, <3>1, <4>1
    <3>2. CASE n < Len(log)
      <4>1. n \in StoredBatches(hi).begin..(Len(log) - 1)
        BY <1>0, <1>1, <3>2
      <4>2. n \in DOMAIN dirs /\ dirs[n].files \in Outcomes
        BY <4>1 DEF RetainedWindow, Newest
      <4>3. DOMAIN dirs \subseteq DOMAIN dirs'
        BY <1>0, <2>1 DEF StoredTail, Contiguous, Newest
      <4> QED
        BY <2>1, <4>2, <4>3
    <3> QED
      BY <1>0, <3>1, <3>2
  <2>6. RetainedWindow'
    BY <1>0, <2>1, <2>5 DEF RetainedWindow, Newest
  <2>7. CanContinue'
    <3>1. first <= Len(log)
      BY <1>0 DEF StoredTail
    <3> QED
      BY <1>0, <2>1, <2>3, <3>1, IssuanceAssumption DEF CanContinue, Newest
  <2> QED
    BY <2>4, <2>6, <2>7
<1>5. ASSUME NEW p \in Proc, Remove(p) \/ RemoveFails(p)
      PROVE  NewestReady' /\ RetainedWindow' /\ CanContinue'
  <2>1. /\ cur[p] = first /\ first + 1 < Len(log) /\ log' = log
        /\ first < StoredBatches(dt[p]).begin
    BY <1>5, RemoveEffect
  <2>2. \A n \in DOMAIN dirs :
          n # first => n \in DOMAIN dirs' /\ dirs'[n] = dirs[n]
    BY <1>0, <1>5, <2>1 DEF Remove, RemoveFails, Restrict
  <2>3. NewestReady'
    BY <1>0, <1>1, <2>1 DEF NewestReady, Newest
  <2>4. RetainedWindow'
    <3>1. ASSUME NEW n \in StoredBatches(hi').begin..(Len(log) - 1)
          PROVE  n \in DOMAIN dirs' /\ dirs'[n].files \in Outcomes
      <4>1. n \in StoredBatches(hi).begin..(Len(log) - 1) /\ n # first
        BY <1>0, <1>1, <1>2, <2>1
      <4>2. n \in DOMAIN dirs /\ dirs[n].files \in Outcomes
        BY <4>1 DEF RetainedWindow, Newest
      <4> QED
        BY <2>2, <4>1, <4>2
    <3> QED
      BY <2>1, <3>1 DEF RetainedWindow, Newest
  <2>5. CanContinue'
    BY <1>0, <2>1, <2>2 DEF CanContinue, Newest
  <2> QED
    BY <2>3, <2>4, <2>5
<1> QED
  BY <1>3, <1>4, <1>5, BatchSteps

-----------------------------------------------------------------------------
(* The inductive invariant holds initially.                                *)
LEMMA InitIndInv == Init => IndInv
<1> SUFFICES ASSUME Init PROVE IndInv
  OBVIOUS
<1>1. TypeOK
  BY BoundsType DEF Init, TypeOK, ClockType, DiskType, HandleType, HistoryType,
                    Labels
<1>2. Len(log) = 0 /\ DOMAIN dirs = {} /\ log = <<>> /\ first = 0
  BY DEF Init
<1>3. AtRest
  BY DEF Init, AtRest
<1>4. Owner /\ CacheFresh /\ ClockSeen /\ NoLostSubmission
  BY DEF Init, Owner, CacheFresh, ClockSeen, NoLostSubmission
<1>5. LoopPosition /\ PassResult /\ QueueIssued
  BY <1>3 DEF AtRest, LoopPosition, LoopAt, PassResult, PassAt, QueueIssued
<1>6. StoredTail /\ WindowChain /\ CanContinue
  BY <1>2 DEF StoredTail, Contiguous, Newest, WindowChain, CanContinue
<1>7. StoredBatches(hi).begin \in Nat /\ StoredBatches(hi).end \in Nat
  BY StoredType DEF Init
<1>8. NewestReady /\ RetainedWindow
  BY <1>2, <1>7 DEF NewestReady, RetainedWindow, Newest
<1> QED
  BY <1>1, <1>4, <1>5, <1>6, <1>8 DEF IndInv

(* Every step keeps the inductive invariant.                               *)
LEMMA StepIndInv == IndInv /\ [Next]_vars => IndInv'
<1> SUFFICES ASSUME IndInv, [Next]_vars PROVE IndInv'
  OBVIOUS
<1> USE DEF IndInv
<1>1. TypeOK'
  BY TypeStep
<1>2. Owner'
  BY OwnerStep
<1>3. StoredTail'
  BY StoredStep
<1>4. CacheFresh'
  BY CacheStep
<1>5. LoopPosition'
  BY LoopPositionStep
<1>6. PassResult'
  BY PassResultStep
<1>7. QueueIssued'
  BY QueueIssuedStep
<1>8. ClockSeen'
  BY <1>1, ClockSeenStep
<1>9. WindowChain'
  BY WindowChainStep
<1>10. NoLostSubmission'
  BY NoLostStep
<1>11. NewestReady' /\ RetainedWindow' /\ CanContinue'
  BY <1>1, StorageStep
<1> QED
  BY <1>1, <1>2, <1>3, <1>4, <1>5, <1>6, <1>7, <1>8, <1>9, <1>10, <1>11

(* The inductive invariant holds in every reachable state.                 *)
THEOREM Invariance == Spec => []IndInv
BY InitIndInv, StepIndInv, PTL DEF Spec

(* Types are kept for every set of runs, calls and parameters; no torn     *)
(* record is ever published (issueBatchTo).                                *)
THEOREM TypeCorrect == Spec => []TypeOK
<1>1. IndInv => TypeOK
  BY DEF IndInv
<1> QED
  BY <1>1, Invariance, PTL

(* Two runs never have the CA open together (Open, Close, lock).           *)
THEOREM MutualExclusion == Spec => []OneHandle
<1>1. IndInv => OneHandle
  BY DEF IndInv, Owner, OneHandle
<1> QED
  BY <1>1, Invariance, PTL

(* An acknowledged submission is queued or published, whatever crashes     *)
(* (QueueMultiple, issueBatch, dropQueue).                                 *)
THEOREM NothingLost == Spec => []NoLostSubmission
<1>1. IndInv => NoLostSubmission
  BY DEF IndInv
<1> QED
  BY <1>1, Invariance, PTL

(* Every stored validity window holds the heads of the batches up to its   *)
(* own (issueBatchTo, newTreeHeads).                                       *)
THEOREM WindowsChained == Spec => []WindowChain
<1>1. IndInv => WindowChain
  BY DEF IndInv
<1> QED
  BY <1>1, Invariance, PTL

(* The batches on disk have no gap, whatever was interrupted               *)
(* (listBatchRange, dropOldBatches).                                       *)
THEOREM DirectoryTrusted == Spec => []Contiguous
<1>1. IndInv => Contiguous
  BY DEF IndInv, StoredTail
<1> QED
  BY <1>1, Invariance, PTL

(* No handle has an outdated list of the batches (listBatchNumbers,        *)
(* batchNumbersCache).                                                     *)
THEOREM CacheTrusted == Spec => []CacheFresh
<1>1. IndInv => CacheFresh
  BY DEF IndInv
<1> QED
  BY <1>1, Invariance, PTL

(* A number below a quotient leaves room for one more divisor.             *)
LEMMA DivRoom ==
  ASSUME NEW d \in Nat \ {0}, NEW x \in Nat, NEW n \in Nat, n <= x \div d
  PROVE  d * n <= x
<1> DEFINE a == x \div d
<1>1. a \in Int /\ a >= n /\ d * a <= x
  OBVIOUS
<1> HIDE DEF a
<1>2. PICK c \in Nat : a = n + c
  <2>1. a - n \in Nat /\ a = n + (a - n)
    BY <1>1
  <2> QED
    BY <2>1
<1>3. d * a = d * n + d * c /\ d * c >= 0
  BY <1>2
<1> QED
  BY <1>1, <1>3

(* The batches that are ready have periods that are over (StoredBatches).  *)
LEMMA ReadyIsOver == IndInv => NotEarly
<1> SUFFICES ASSUME IndInv, log # <<>>
             PROVE  StartTime + BatchDuration * Len(log) <= hi
  BY DEF NotEarly
<1>0. /\ StartTime \in Nat /\ BatchDuration \in Nat \ {0}
      /\ StorageWindowSize \in Nat /\ U32 \in Nat \ {0}
  BY ParamsAssumption
<1>1. Len(log) \in Nat /\ Len(log) > 0
  BY EmptySeq DEF IndInv, TypeOK, HistoryType
<1>2. hi \in 0..MaxTime /\ MaxTime \in Nat
  BY IssuanceAssumption DEF IndInv, TypeOK, ClockType
<1>3. Len(log) - 1 < StoredBatches(hi).end
  BY DEF IndInv, NewestReady, Newest
<1>4. hi >= StartTime
  BY <1>0, <1>1, <1>2, <1>3 DEF StoredBatches, BatchesBack, NoBatches
<1>5. StoredBatches(hi).end = CurrentNumber(hi) % U32
  BY <1>0, <1>2, <1>4 DEF StoredBatches, BatchesBack
<1>6. hi - StartTime \in Nat
  BY <1>0, <1>2, <1>4
<1>7. CurrentNumber(hi) \in Nat
  BY <1>0, <1>6, DivMonotone DEF CurrentNumber
<1>8. CurrentNumber(hi) < U32
  BY <1>2, <1>4, NoWrapAssumption
<1>9. CurrentNumber(hi) % U32 = CurrentNumber(hi)
  BY <1>0, <1>7, <1>8
<1>10. Len(log) <= (hi - StartTime) \div BatchDuration
  BY <1>1, <1>3, <1>5, <1>7, <1>9 DEF CurrentNumber
<1>11. BatchDuration * Len(log) <= hi - StartTime
  BY <1>0, <1>1, <1>6, <1>10, DivRoom
<1>12. BatchDuration * Len(log) \in Nat
  BY <1>0, <1>1
<1> QED
  BY <1>0, <1>2, <1>11, <1>12

(* No batch is published before its period is over (Issue).                *)
THEOREM NeverEarly == Spec => []NotEarly
BY ReadyIsOver, Invariance, PTL

(* No batch of the storage window is removed (dropOldBatches).             *)
THEOREM StorageWindowKept == Spec => []RetainedWindow
<1>1. IndInv => RetainedWindow
  BY DEF IndInv
<1> QED
  BY <1>1, Invariance, PTL

(* The next batch can always be chained to the newest one                  *)
(* (dropOldBatches, issueBatchTo).                                         *)
THEOREM NeverStuck == Spec => []CanContinue
<1>1. IndInv => CanContinue
  BY DEF IndInv
<1> QED
  BY <1>1, Invariance, PTL

-----------------------------------------------------------------------------
(* What the faults cost: repeated submissions and a symlink that lags.     *)

(* A call that fails half way brings records of its own and a torn one.    *)
LEMMA QueueAppendBrings ==
  ASSUME NEW q \in Seq(Submissions \cup {Garbled}), NEW as \in Calls,
         NEW k \in 0..Len(as) - 1, NEW torn \in {<<>>, <<Garbled>>}
  PROVE  Range(q \o SubSeq(as, 1, k) \o torn)
           \subseteq Range(q) \cup Range(as) \cup {Garbled}
<1> DEFINE T == Submissions \cup {Garbled}
           mid == q \o SubSeq(as, 1, k)
<1>1. /\ mid \in Seq(T) /\ torn \in Seq(T)
      /\ q \in Seq(T) /\ SubSeq(as, 1, k) \in Seq(T)
  BY QueueAppendType
<1>2. as \in Seq(Submissions) /\ Len(as) \in Nat
  BY IssuanceAssumption, LenProperties
<1>3. Range(SubSeq(as, 1, k)) \subseteq Range(as)
  <2> DEFINE n == Len(as)
  <2>1. n \in Nat /\ k \in 0..n - 1 /\ DOMAIN as = 1..n
    BY <1>2, LenProperties
  <2> HIDE DEF n
  <2>2. 1..k \subseteq DOMAIN as /\ k \in 0..n
    BY <2>1
  <2>3. SubSeq(as, 1, k) = Restrict(as, 1..k)
    BY <1>2, <2>2, SubSeqRestrict, Zenon DEF n
  <2> QED
    BY <2>2, <2>3 DEF Range, Restrict
<1>4. Range(torn) \subseteq {Garbled}
  BY DEF Range
<1> DEFINE part == SubSeq(as, 1, k)
<1> HIDE DEF T, part
<1>5. Range(mid) = Range(q) \cup Range(SubSeq(as, 1, k))
  <2>1. q \in Seq(T) /\ part \in Seq(T)
    BY <1>1 DEF part
  <2>2. Range(q \o part) = Range(q) \cup Range(part)
    BY <2>1, RangeOfBoth
  <2> QED
    BY <2>2 DEF part
<1> HIDE DEF mid
<1>6. Range(mid \o torn) = Range(mid) \cup Range(torn)
  <2>1. mid \in Seq(T) /\ torn \in Seq(T)
    BY <1>1
  <2> QED
    BY <2>1, RangeOfBoth
<1> QED
  BY <1>3, <1>4, <1>5, <1>6 DEF mid

(* Either a step queues, publishes, truncates the queue or moves the       *)
(* symlink, or these stay, and a run that is between the Rename and        *)
(* updateLatest leaves that place only with a fault.                       *)
LEMMA CountedSteps ==
  ASSUME TypeOK, Owner, [Next]_vars
  PROVE  \/ \E p \in Proc, as \in Calls :
              QueueMultiple(p, as) \/ QueueMultipleFails(p, as)
         \/ \E p \in Proc : Publish(p) \/ DropQueue(p) \/ UpdateLatest(p)
         \/ /\ UNCHANGED <<queue, sent, log, latest>>
            /\ \/ faults' = faults + 1 /\ AtRest'
               \/ /\ faults' \in {faults, faults + 1}
                  /\ \A q \in Proc, l \in {"dropQueue", "updateLatest"} :
                       pc'[q] = l <=> pc[q] = l
<1> DEFINE Kept == UNCHANGED <<queue, sent, log, latest>>
           Failed == faults' = faults + 1 /\ AtRest'
           Stays == /\ faults' \in {faults, faults + 1}
                    /\ \A q \in Proc, l \in {"dropQueue", "updateLatest"} :
                         pc'[q] = l <=> pc[q] = l
<1> USE DEF vars, clock, disk, handle, history, callers, Goto
<1>0. pc \in [Proc -> Labels]
  BY DEF TypeOK, HandleType
<1>1. ASSUME NEW p \in Proc, NEW b \in Labels, faults' \in {faults, faults + 1},
             pc[p] \notin {"dropQueue", "updateLatest"},
             b \notin {"dropQueue", "updateLatest"},
             pc' = [pc EXCEPT ![p] = b]
      PROVE  Stays
  BY <1>0, <1>1
<1>2. ASSUME NEW p \in Proc, pc[p] # "idle", faults' = faults + 1,
             \E l \in {"idle", "open"} : pc' = [pc EXCEPT ![p] = l]
      PROVE  Failed
  BY <1>0, <1>2, Alone DEF AtRest
<1>3. ASSUME NEW p \in Proc, Open(p) \/ Close(p) PROVE Kept /\ Stays
  BY <1>1, <1>3 DEF Open, Close, Exit, Labels
<1>4. ASSUME NEW p \in Proc, Fault(p) PROVE Kept /\ Failed
  <2>1. CASE Crash(p)
    BY <1>2, <2>1 DEF Crash, Exit
  <2>2. CASE StepFails(p)
    BY <1>2, <2>2 DEF StepFails, Return
  <2>3. CASE RemoveFails(p)
    BY <1>2, <2>3 DEF RemoveFails, Return
  <2> QED
    BY <1>4, <2>1, <2>2, <2>3 DEF Fault
<1>5. ASSUME NEW p \in Proc, Issue(p) PROVE Kept /\ Stays
  BY <1>1, <1>5 DEF Issue, IssueRefused, IssueNothing, IssueStart, Labels
<1>6. ASSUME NEW p \in Proc, MakeFirst(p) \/ MakeSecond(p) PROVE Kept /\ Stays
  BY <1>1, <1>6 DEF MakeFirst, MakeSecond, Labels
<1>7. ASSUME NEW p \in Proc, NothingToDrop(p) \/ StartDrop(p) \/ RemoveDone(p)
      PROVE  Kept /\ Stays
  BY <1>1, <1>7 DEF NothingToDrop, StartDrop, RemoveDone, Return, Labels
<1>8. ASSUME NEW p \in Proc, Remove(p) PROVE Kept /\ Stays
  BY <1>8 DEF Remove
<1>9. ASSUME NEW p \in Proc, StepRefused(p) PROVE Kept /\ Stays
  <2>1. /\ pc[p] \in {"make1", "make2", "publish", "dropOld"}
        /\ Return(p) /\ faults' = faults /\ Kept
    BY <1>9 DEF StepRefused
  <2> QED
    BY <1>1, <2>1 DEF Return, Labels
<1>10. CASE Tick \/ ClockBack \/ UNCHANGED vars
  BY <1>10 DEF Tick, ClockBack
<1> QED
  BY <1>3, <1>4, <1>5, <1>6, <1>7, <1>8, <1>9, <1>10
     DEF Next, Queueing, IssueStep

(* The positions of the log at which a submission occurs can be counted.   *)
LEMMA OccurrencesFinite ==
  ASSUME TypeOK, NEW s
  PROVE  /\ IsFiniteSet(Occurrences(s))
         /\ Cardinality(Occurrences(s)) \in Nat
<1>1. Len(log) \in Nat /\ DOMAIN log = 1..Len(log)
  BY LenProperties DEF TypeOK, HistoryType
<1>2. IsFiniteSet(1..Len(log)) /\ Occurrences(s) \in SUBSET (1..Len(log))
  BY <1>1, FS_Interval DEF Occurrences
<1> QED
  BY <1>2, FS_Subset, FS_CardinalityType

(* Publish adds at most one occurrence, and only of what the batch holds.  *)
LEMMA PublishOccurrences ==
  ASSUME TypeOK, StoredTail, LoopPosition, PassResult,
         NEW p \in Proc, Publish(p), NEW s
  PROVE  /\ s \notin Range(Contents(p)) => Occurrences(s)' = Occurrences(s)
         /\ Cardinality(Occurrences(s)') \in Nat
         /\ Cardinality(Occurrences(s)') <= Cardinality(Occurrences(s)) + 1
<1>1. log \in Seq(Seq(Submissions)) /\ Len(log) \in Nat
  BY LenProperties DEF TypeOK, HistoryType
<1>2. /\ log' = Append(log, dir1[p].aas)
      /\ log'[Len(log) + 1] = Contents(p)
      /\ \A i \in 1..Len(log) : log'[i] = log[i]
  BY PublishEffect, PublishedContents DEF Publish
<1>3. DOMAIN log = 1..Len(log) /\ DOMAIN log' = 1..(Len(log) + 1)
  BY <1>1, <1>2
<1>4. Occurrences(s)' = IF s \in Range(Contents(p))
                        THEN Occurrences(s) \cup {Len(log) + 1}
                        ELSE Occurrences(s)
  BY <1>1, <1>2, <1>3 DEF Occurrences
<1>5. /\ IsFiniteSet(Occurrences(s)) /\ Cardinality(Occurrences(s)) \in Nat
      /\ Cardinality(Occurrences(s) \cup {Len(log) + 1})
           \in {Cardinality(Occurrences(s)), Cardinality(Occurrences(s)) + 1}
  BY OccurrencesFinite, FS_AddElement
<1> QED
  BY <1>4, <1>5

(* Every step keeps the count of repeated submissions.                     *)
LEMMA RepeatsStep ==
  ASSUME TypeOK, Owner, StoredTail, LoopPosition, PassResult, RepeatsCounted,
         [Next]_vars
  PROVE  RepeatsCounted'
<1> USE DEF vars, clock, disk, handle, history, callers, Goto
<1>0. /\ pc \in [Proc -> Labels] /\ faults \in Nat
      /\ queue \in Seq(Submissions \cup {Garbled})
  BY BoundsType DEF TypeOK, HandleType, ClockType, DiskType
<1> DEFINE N(s) == Cardinality(Occurrences(s))
<1>n. \A s \in Submissions : N(s) \in Nat
  BY OccurrencesFinite
<1>i. \A s \in Submissions :
        /\ N(s) <= 1 + faults
        /\ s \in Range(queue) /\ ~IsAt({"dropQueue"}) => N(s) <= faults
        /\ s \notin sent => Occurrences(s) = {} /\ s \notin Range(queue)
  BY DEF RepeatsCounted
<1>u. ASSUME log' = log PROVE \A s : Occurrences(s)' = Occurrences(s)
  BY <1>u DEF Occurrences
<1>1. ASSUME NEW p \in Proc, NEW as \in Calls,
             QueueMultiple(p, as) \/ QueueMultipleFails(p, as)
      PROVE  RepeatsCounted'
  <2>1. /\ pc[p] = "open" /\ pc' = pc /\ log' = log
        /\ sent' = sent \cup Range(as) /\ Range(as) \cap sent = {}
        /\ faults' \in {faults, faults + 1}
    BY <1>1 DEF QueueMultiple, QueueMultipleFails, IsFresh
  <2>2. Range(queue') \subseteq Range(queue) \cup Range(as) \cup {Garbled}
    <3>1. CASE QueueMultiple(p, as)
      <4>1. Range(queue \o as) = Range(queue) \cup Range(as)
        BY <1>0, QueueAppendAdds
      <4>2. queue' = queue \o as
        BY <3>1 DEF QueueMultiple
      <4> QED
        BY <4>1, <4>2
    <3>2. CASE QueueMultipleFails(p, as)
      BY <1>0, <3>2, QueueAppendBrings DEF QueueMultipleFails
    <3> QED
      BY <1>1, <3>1, <3>2
  <2>3. ~IsAt({"dropQueue"}) /\ Garbled \notin Submissions
    BY <2>1, Alone, IssuanceAssumption DEF IsAt
  <2>4. ASSUME NEW s \in Submissions
        PROVE  /\ N(s) <= 1 + faults'
               /\ s \in Range(queue') => N(s) <= faults'
               /\ s \notin sent' => Occurrences(s) = {} /\ s \notin Range(queue')
    <3>1. s \in Range(as) => N(s) = 0
      BY <1>i, <2>1, FS_EmptySet
    <3>2. s \in Range(queue') => s \in Range(queue) \/ s \in Range(as)
      BY <2>2, <2>3
    <3>3. s \notin sent' => s \notin sent /\ s \notin Range(as)
      BY <2>1
    <3>4. /\ N(s) \in Nat /\ N(s) <= 1 + faults
          /\ s \in Range(queue) => N(s) <= faults
      BY <1>n, <1>i, <2>3
    <3>5. s \notin sent' => Occurrences(s) = {} /\ s \notin Range(queue')
      BY <1>i, <3>2, <3>3
    <3>6. faults' \in Nat /\ faults <= faults' /\ faults \in Nat
      BY <1>0, <2>1
    <3> HIDE DEF N
    <3>7. s \in Range(queue') => (N(s) = 0 \/ N(s) <= faults)
      BY <3>1, <3>2, <3>4, Zenon
    <3>8. N(s) <= 1 + faults' /\ (N(s) = 0 \/ N(s) <= faults => N(s) <= faults')
      BY <3>4, <3>6
    <3> QED
      BY <3>5, <3>7, <3>8, Zenon
  <2> QED
    BY <1>u, <2>1, <2>4 DEF RepeatsCounted
<1>2. ASSUME NEW p \in Proc, Publish(p) PROVE RepeatsCounted'
  <2>1. /\ pc[p] = "publish" /\ queue' = queue /\ sent' = sent
        /\ faults' = faults /\ pc'[p] = AfterPublish(p)
    BY <1>0, <1>2 DEF Publish
  <2>2. ~IsAt({"dropQueue"})
    BY <2>1, Alone DEF IsAt
  <2>3. Contents(p) = <<>> \/ (Contents(p) = queue /\ IsAt({"dropQueue"})')
    BY <2>1 DEF Contents, AfterPublish, IsAt
  <2>4. ASSUME NEW s \in Submissions
        PROVE  /\ Cardinality(Occurrences(s)') <= 1 + faults
               /\ s \in Range(queue) /\ ~IsAt({"dropQueue"})' =>
                    Cardinality(Occurrences(s)') <= faults
               /\ s \notin sent => Occurrences(s)' = {} /\ s \notin Range(queue)
    <3>1. /\ s \notin Range(Contents(p)) => Occurrences(s)' = Occurrences(s)
          /\ Cardinality(Occurrences(s)') \in Nat
          /\ Cardinality(Occurrences(s)') <= N(s) + 1
      BY <1>2, PublishOccurrences
    <3>2. s \in Range(Contents(p)) => s \in Range(queue) /\ IsAt({"dropQueue"})'
      BY <2>3 DEF Range
    <3>3. CASE s \notin Range(Contents(p))
      BY <1>i, <2>2, <3>1, <3>3
    <3>4. CASE s \in Range(Contents(p))
      <4>1. N(s) <= faults /\ s \in sent
        BY <1>i, <2>2, <3>2, <3>4
      <4> DEFINE m == Cardinality(Occurrences(s)')
      <4>2. m \in Nat /\ N(s) \in Nat /\ m <= N(s) + 1
        BY <1>n, <3>1
      <4> HIDE DEF N, m
      <4>3. m <= 1 + faults
        BY <1>0, <4>1, <4>2
      <4> QED
        BY <3>2, <3>4, <4>1, <4>3 DEF m
    <3> QED
      BY <3>3, <3>4
  <2> QED
    BY <2>1, <2>4 DEF RepeatsCounted
<1>3. ASSUME NEW p \in Proc, DropQueue(p) PROVE RepeatsCounted'
  <2>1. /\ queue' = <<>> /\ log' = log /\ sent' = sent /\ faults' = faults
    BY <1>3 DEF DropQueue, dropQueue
  <2>2. Range(queue') = {}
    BY <2>1 DEF Range
  <2> QED
    BY <1>i, <1>u, <2>1, <2>2 DEF RepeatsCounted
<1>4. ASSUME UNCHANGED <<queue, sent, log>>, faults' \in {faults, faults + 1},
             IsAt({"dropQueue"}) => IsAt({"dropQueue"})' \/ faults' = faults + 1
      PROVE  RepeatsCounted'
  <2>1. ASSUME NEW s \in Submissions
        PROVE  /\ N(s) <= 1 + faults'
               /\ s \in Range(queue) /\ ~IsAt({"dropQueue"})' => N(s) <= faults'
    <3> HIDE DEF N
    <3> QED
      BY <1>0, <1>i, <1>n, <1>4
  <2> QED
    BY <1>i, <1>u, <1>4, <2>1 DEF RepeatsCounted
<1>5. ASSUME NEW p \in Proc, UpdateLatest(p) PROVE RepeatsCounted'
  <2>1. /\ UNCHANGED <<queue, sent, log, faults>> /\ pc[p] = "updateLatest"
    BY <1>5 DEF UpdateLatest
  <2>2. ~IsAt({"dropQueue"})
    BY <2>1, Alone DEF IsAt
  <2> QED
    BY <1>4, <2>1, <2>2
<1> QED
  BY <1>1, <1>2, <1>3, <1>4, <1>5, CountedSteps DEF IsAt

(* Every step keeps the symlink within its bound.                          *)
LEMMA LagStep ==
  ASSUME TypeOK, Owner, StoredTail, LoopPosition, LagCounted, [Next]_vars
  PROVE  LagCounted'
<1> USE DEF vars, clock, disk, handle, history, callers, Goto
<1> DEFINE Behind == {"dropQueue", "updateLatest"}
<1>0. /\ pc \in [Proc -> Labels] /\ cur \in [Proc -> Nat]
      /\ faults \in Nat /\ Len(log) \in Nat /\ latest \in Nat \cup {Nil}
  BY BoundsType, LenProperties
     DEF TypeOK, HandleType, ClockType, DiskType, HistoryType
<1>1. Lag \in Int /\ Lag <= 1 + faults /\ (~IsAt(Behind) => Lag <= faults)
  BY <1>0 DEF Lag, Newest, LagCounted
<1>2. ASSUME UNCHANGED <<log, latest>>, faults' \in {faults, faults + 1},
             IsAt(Behind) => IsAt(Behind)' \/ faults' = faults + 1
      PROVE  LagCounted'
  <2>1. Lag' = Lag /\ Lag \in Int /\ Lag <= 1 + faults
    BY <1>1, <1>2 DEF Lag, Newest
  <2>2. faults \in Nat /\ faults' \in Nat /\ faults <= faults'
    BY <1>0, <1>2
  <2>3. ~IsAt(Behind)' => Lag <= faults \/ faults' = faults + 1
    BY <1>1, <1>2
  <2>4. \A x \in Int, f, g \in Nat :
          f <= g /\ x <= 1 + f => x <= 1 + g /\ (x <= f \/ g = f + 1 => x <= g)
    OBVIOUS
  <2>5. Lag <= 1 + faults' /\ (Lag <= faults \/ faults' = faults + 1 => Lag <= faults')
    BY <2>1, <2>2, <2>4
  <2> QED
    BY <2>1, <2>3, <2>5, Zenon DEF LagCounted
<1>3. ASSUME NEW p \in Proc, NEW as \in Calls,
             QueueMultiple(p, as) \/ QueueMultipleFails(p, as)
      PROVE  LagCounted'
  <2>1. UNCHANGED <<log, latest, pc>> /\ faults' \in {faults, faults + 1}
    BY <1>3 DEF QueueMultiple, QueueMultipleFails
  <2> QED
    BY <1>2, <2>1 DEF IsAt
<1>4. ASSUME NEW p \in Proc, Publish(p) PROVE LagCounted'
  <2>1. /\ pc[p] = "publish" /\ latest' = latest /\ faults' = faults
        /\ pc'[p] \in Behind
    BY <1>0, <1>4 DEF Publish, AfterPublish
  <2>2. ~IsAt(Behind) /\ IsAt(Behind)'
    BY <2>1, Alone DEF IsAt
  <2>3. Lag' = Lag + 1
    BY <1>0, <1>4, <2>1, PublishEffect DEF Lag, Newest
  <2>4. Lag \in Int /\ Lag <= faults
    BY <1>1, <2>2
  <2>5. Lag' <= 1 + faults'
    BY <1>0, <2>1, <2>3, <2>4
  <2> QED
    BY <2>2, <2>5 DEF LagCounted
<1>5. ASSUME NEW p \in Proc, DropQueue(p) PROVE LagCounted'
  <2>1. UNCHANGED <<log, latest, faults>> /\ pc'[p] = "updateLatest"
    BY <1>0, <1>5 DEF DropQueue
  <2> QED
    BY <1>2, <2>1 DEF IsAt
<1>6. ASSUME NEW p \in Proc, UpdateLatest(p) PROVE LagCounted'
  <2>1. /\ pc[p] = "updateLatest" /\ latest' = cur[p]
        /\ UNCHANGED <<log, faults>>
    BY <1>6 DEF UpdateLatest, updateLatest
  <2>2. cur[p] = Newest /\ cur[p] \in Nat
    BY <1>0, <2>1 DEF LoopPosition, LoopAt
  <2>3. Lag' = 0
    BY <1>0, <2>1, <2>2, IssuanceAssumption DEF Lag, Newest
  <2> QED
    BY <1>0, <2>1, <2>3 DEF LagCounted
<1> QED
  BY <1>2, <1>3, <1>4, <1>5, <1>6, CountedSteps DEF IsAt

(* Both counts hold in every reachable state.                              *)
THEOREM FaultsCounted == Spec => [](RepeatsCounted /\ LagCounted)
<1>1. Init => RepeatsCounted /\ LagCounted
  <2> SUFFICES ASSUME Init PROVE RepeatsCounted /\ LagCounted
    OBVIOUS
  <2>1. log = <<>> /\ queue = <<>> /\ faults = 0 /\ latest = Nil
    BY DEF Init
  <2>2. Range(queue) = {} /\ \A s : Occurrences(s) = {}
    BY <2>1 DEF Range, Occurrences
  <2>3. \A s : Cardinality(Occurrences(s)) = 0
    BY <2>2, FS_EmptySet
  <2>4. RepeatsCounted
    BY <2>1, <2>2, <2>3 DEF RepeatsCounted
  <2>5. Lag = 0
    BY <2>1 DEF Lag, Newest
  <2> QED
    BY <2>1, <2>4, <2>5 DEF LagCounted
<1>2. IndInv /\ (RepeatsCounted /\ LagCounted) /\ [Next]_vars
        => (RepeatsCounted /\ LagCounted)'
  BY RepeatsStep, LagStep DEF IndInv
<1> QED
  BY <1>1, <1>2, Invariance, PTL DEF Spec

(* A submission is issued once, and at most once more for each fault       *)
(* (issueBatch, dropQueue).                                                *)
THEOREM RepeatsBounded == Spec => []DuplicateBound
<1>1. RepeatsCounted => DuplicateBound
  BY DEF RepeatsCounted, DuplicateBound
<1> QED
  BY <1>1, FaultsCounted, PTL

(* The latest symlink is behind by the batch being issued and by one more  *)
(* for each fault at most (updateLatest).                                  *)
THEOREM SymlinkFollows == Spec => []LatestLag
<1>1. TypeOK /\ LagCounted => LatestLag
  <2> SUFFICES ASSUME TypeOK, LagCounted PROVE LatestLag
    OBVIOUS
  <2>1. /\ faults \in Nat /\ Len(log) \in Nat /\ latest \in Nat \cup {Nil}
    BY BoundsType, LenProperties DEF TypeOK, ClockType, DiskType, HistoryType
  <2>2. Lag \in Int
    BY <2>1 DEF Lag, Newest
  <2> QED
    BY <2>1, <2>2 DEF LagCounted, LatestLag
<1> QED
  BY <1>1, FaultsCounted, TypeCorrect, PTL

-----------------------------------------------------------------------------
(* Issuance implements BatchLog, and a call of Issue that succeeds leaves  *)
(* exactly the storage window on disk.  Both follow, step by step, from    *)
(* the inductive invariant.                                                *)

(* The abstract log starts empty too.                                      *)
LEMMA InitMaps == Init => Abstract!Init
<1> SUFFICES ASSUME Init PROVE Abstract!Init
  OBVIOUS
<1>1. log = <<>> /\ first = 0 /\ queue = <<>>
  BY DEF Init
<1>2. Range(queue) = {}
  BY <1>1 DEF Range
<1> QED
  BY <1>1, <1>2 DEF Abstract!Init

(* Queueing, complete or torn, is an Accept.                               *)
LEMMA QueueMaps ==
  ASSUME TypeOK, TypeOK', NEW p \in Proc, NEW as \in Calls,
         QueueMultiple(p, as) \/ QueueMultipleFails(p, as)
  PROVE  Abstract!Accept
<1>0. queue \in Seq(Submissions \cup {Garbled})
      /\ queue' \in Seq(Submissions \cup {Garbled})
  BY DEF TypeOK, DiskType
<1>1. Range(queue) \subseteq Range(queue')
  <2>1. CASE QueueMultiple(p, as)
    <3>1. Range(queue \o as) = Range(queue) \cup Range(as)
      BY <1>0, QueueAppendAdds
    <3>2. Range(queue') = Range(queue) \cup Range(as)
      BY <2>1, <3>1 DEF QueueMultiple
    <3> QED
      BY <3>2
  <2>2. CASE QueueMultipleFails(p, as)
    <3>1. PICK k \in 0..Len(as) - 1, torn \in {<<>>, <<Garbled>>} :
            queue' = queue \o SubSeq(as, 1, k) \o torn
      BY <2>2 DEF QueueMultipleFails
    <3> QED
      BY <1>0, <3>1, QueueAppendKeeps
  <2> QED
    BY <2>1, <2>2
<1>2. Range(queue') \subseteq Submissions \cup {Garbled}
  BY <1>0, RangeOfSeq
<1>3. UNCHANGED <<log, first>>
  BY DEF QueueMultiple, QueueMultipleFails, history
<1> QED
  BY <1>1, <1>2, <1>3 DEF Abstract!Accept

(* Renaming a batch into place is a Publish of queued submissions.         *)
LEMMA PublishMaps ==
  ASSUME IndInv, NEW p \in Proc, Publish(p)
  PROVE  Abstract!Publish
<1>1. /\ Len(log) \in Nat
      /\ Len(log') = Len(log) + 1
      /\ log'[Len(log) + 1] = dir1[p].aas
      /\ first' = first
  BY PublishEffect DEF IndInv
<1>2. log' = Append(log, dir1[p].aas) /\ queue' = queue
  BY DEF Publish
<1>3. dir1[p].aas = Contents(p)
  BY PublishedContents DEF IndInv
<1>4. dir1[p].aas \in Seq(Submissions)
  BY DEF IndInv, PassResult, PassAt, Publish, Batches
<1>5. Range(dir1[p].aas) \subseteq Submissions /\ Garbled \notin Submissions
  BY <1>4, RangeOfSeq, IssuanceAssumption
<1>6. Range(dir1[p].aas) \subseteq Range(queue)
  BY <1>3 DEF Contents, Range
<1>7. log'[Len(log')] = dir1[p].aas
  BY <1>1
<1>8. Range(log'[Len(log')]) \subseteq Range(queue) \ {Garbled}
  BY <1>5, <1>6, <1>7
<1> QED
  BY <1>1, <1>2, <1>7, <1>8 DEF Abstract!Publish, Abstract!Range, Range

(* Truncating the queue retires what the newest batch certifies.           *)
LEMMA DropMaps ==
  ASSUME IndInv, NEW p \in Proc, DropQueue(p)
  PROVE  Abstract!Retire
<1>1. pc[p] = "dropQueue" /\ queue' = <<>> /\ log' = log /\ first' = first
  BY DEF DropQueue, dropQueue, history
<1>2. queue = log[Len(log)]
  BY <1>1 DEF IndInv, QueueIssued
<1>3. Len(log) \in DOMAIN log
  <2>1. cur[p] = Len(log) - 1 /\ cur[p] \in Nat
    BY <1>1 DEF IndInv, LoopPosition, LoopAt, Newest, TypeOK, HandleType
  <2>2. Len(log) \in Nat /\ DOMAIN log = 1..Len(log)
    BY LenProperties DEF IndInv, TypeOK, HistoryType
  <2> QED
    BY <2>1, <2>2
<1>4. Range(queue) \subseteq Abstract!PublishedIn(log)
  <2>1. Range(queue) = Abstract!Range(log[Len(log)])
    BY <1>2 DEF Range, Abstract!Range
  <2> QED
    BY <1>3, <2>1 DEF Abstract!PublishedIn
<1>5. Range(queue') = {}
  BY <1>1 DEF Range
<1> QED
  BY <1>1, <1>4, <1>5 DEF Abstract!Retire

(* Removing a directory prunes the abstract log.                           *)
LEMMA RemoveMaps ==
  ASSUME IndInv, NEW p \in Proc, Remove(p)
  PROVE  Abstract!Prune
<1>1. /\ cur[p] = first /\ first + 1 < Len(log) /\ log' = log
  BY RemoveEffect DEF IndInv
<1>2. first' = cur[p] + 1 /\ queue' = queue
  BY DEF Remove
<1> QED
  BY <1>1, <1>2 DEF Abstract!Prune

(* Every step of the CA is a step of the abstract log, or invisible to it. *)
LEMMA StepMaps ==
  ASSUME IndInv, IndInv', [Next]_vars
  PROVE  [Abstract!Next]_(Abstract!vars)
<1>1. ASSUME NEW p \in Proc, Publish(p) PROVE Abstract!Next
  BY <1>1, PublishMaps DEF Abstract!Next
<1>2. ASSUME NEW p \in Proc, Remove(p) PROVE Abstract!Next
  BY <1>2, RemoveMaps DEF Abstract!Next
<1>3. ASSUME NEW p \in Proc, DropQueue(p) PROVE Abstract!Next
  BY <1>3, DropMaps DEF Abstract!Next
<1>4. ASSUME NEW p \in Proc, NEW as \in Calls,
             QueueMultiple(p, as) \/ QueueMultipleFails(p, as)
      PROVE  Abstract!Next
  BY <1>4, QueueMaps DEF Abstract!Next, IndInv
<1>5. ASSUME NEW p \in Proc, RemoveFails(p) PROVE UNCHANGED <<log, first>>
  BY <1>5 DEF RemoveFails, history
<1>6. CASE UNCHANGED queue /\ UNCHANGED <<log, first>>
  BY <1>6 DEF Abstract!vars
<1> QED
  BY <1>1, <1>2, <1>3, <1>4, <1>5, <1>6, BatchSteps, QueueSteps

(* The CA implements the append-only log of batches: whatever is killed or *)
(* fails, batches appear one after the other and hold only what is queued, *)
(* nothing leaves the queue before it is published, and the newest batch   *)
(* is never removed (QueueMultiple, issueBatch, dropQueue, dropOldBatches).*)
THEOREM Refinement == Spec => ImplementsBatchLog
<1>1. Init => Abstract!Init
  BY InitMaps
<1>2. IndInv /\ IndInv' /\ [Next]_vars => [Abstract!Next]_(Abstract!vars)
  BY StepMaps
<1> QED
  BY <1>1, <1>2, Invariance, PTL DEF Spec, ImplementsBatchLog, Abstract!Spec

-----------------------------------------------------------------------------
(* A call of Issue that succeeds.                                          *)

(* Once there is a batch to store, the storage window holds at least one.  *)
LEMMA StoredNonEmpty ==
  ASSUME NEW t \in 0..MaxTime, StoredBatches(t).end # 0
  PROVE  StoredBatches(t).begin < StoredBatches(t).end
<1>0. MaxTime \in Nat /\ StartTime \in Nat /\ BatchDuration \in Nat \ {0}
      /\ StorageWindowSize \in Nat \ {0} /\ U32 \in Nat \ {0}
  BY ParamsAssumption, BoundsType DEF Validate
<1>1. t >= StartTime
  BY <1>0 DEF StoredBatches, BatchesBack, NoBatches
<1>2. CurrentNumber(t) \in Nat
  <2>1. t - StartTime \in Nat
    BY <1>0, <1>1
  <2> QED
    BY <1>0, <2>1, DivMonotone DEF CurrentNumber
<1>3. CurrentNumber(t) < U32
  BY <1>1, NoWrapAssumption
<1>4. \A x \in Nat : x < U32 => x % U32 = x
  BY <1>0
<1>5. StoredBatches(t) =
        [begin |-> IF CurrentNumber(t) - StorageWindowSize < 0 THEN 0
                   ELSE CurrentNumber(t) - StorageWindowSize,
         end   |-> CurrentNumber(t)]
  BY <1>0, <1>1, <1>2, <1>3, <1>4 DEF StoredBatches, BatchesBack
<1> QED
  BY <1>0, <1>2, <1>5

(* No other run moves a run that is inside Issue.                          *)
LEMMA SuccessSteps ==
  ASSUME TypeOK, Owner, [Next]_vars, NEW p \in Proc, IssueSucceeds(p)
  PROVE  \/ NothingToDrop(p) \/ RemoveDone(p)
         \/ StepRefused(p) /\ pc[p] = "dropOld" /\ DropRefuses(p)
<1> USE DEF vars, clock, disk, handle, history, callers, Goto, Return, Exit
<1>0. pc \in [Proc -> Labels] /\ pc[p] \in {"dropOld", "remove"} /\ pc' # pc
      /\ pc'[p] = "open" /\ faults' = faults /\ faults \in Nat
  BY DEF TypeOK, HandleType, ClockType, IssueSucceeds
<1>1. ASSUME NEW q \in Proc, pc[q] # "idle" PROVE q = p
  BY <1>0, <1>1, Alone
<1>2. ASSUME NEW q \in Proc, Open(q) PROVE FALSE
  BY <1>0, <1>2 DEF Open, TryLock, Owner
<1>3. ASSUME NEW q \in Proc, pc[q] \in Labels \ {"idle", "dropOld", "remove"}
      PROVE  FALSE
  BY <1>0, <1>1, <1>3
<1>4. ASSUME NEW q \in Proc, Close(q) \/ Queueing(q) \/ Issue(q) PROVE FALSE
  BY <1>3, <1>4 DEF Close, Queueing, QueueMultiple, QueueMultipleFails, Issue,
                    IssueRefused, IssueNothing, IssueStart, Labels
<1>5. ASSUME NEW q \in Proc, MakeFirst(q) \/ MakeSecond(q) \/ Publish(q)
               \/ DropQueue(q) \/ UpdateLatest(q)
      PROVE  FALSE
  BY <1>3, <1>5 DEF MakeFirst, MakeSecond, Publish, DropQueue, UpdateLatest,
                    Labels
<1>6. ASSUME NEW q \in Proc, Crash(q) \/ StepFails(q) \/ RemoveFails(q)
      PROVE  FALSE
  BY <1>0, <1>6 DEF Crash, StepFails, RemoveFails
<1>7. ASSUME NEW q \in Proc, StartDrop(q) \/ Remove(q) PROVE FALSE
  BY <1>0, <1>1, <1>7 DEF StartDrop, Remove
<1>8. ASSUME NEW q \in Proc, StepRefused(q)
      PROVE  StepRefused(p) /\ pc[p] = "dropOld" /\ DropRefuses(p)
  <2>1. q = p
    BY <1>1, <1>8 DEF StepRefused
  <2> QED
    BY <1>0, <1>8, <2>1 DEF StepRefused
<1>9. ASSUME NEW q \in Proc, NothingToDrop(q) \/ RemoveDone(q)
      PROVE  NothingToDrop(p) \/ RemoveDone(p)
  BY <1>1, <1>9 DEF NothingToDrop, RemoveDone
<1>10. ~(Tick \/ ClockBack \/ UNCHANGED vars)
  BY <1>0 DEF Tick, ClockBack
<1> QED
  BY <1>2, <1>4, <1>5, <1>6, <1>7, <1>8, <1>9, <1>10
     DEF Next, IssueStep, Fault

(* dropOldBatches never refuses within a call of Issue, and it stops at    *)
(* the first stored batch.                                                 *)
LEMMA SuccessEffect ==
  ASSUME IndInv, [Next]_vars, NEW p \in Proc, IssueSucceeds(p)
  PROVE  DOMAIN dirs' = StoredBatches(dt[p]).begin..(StoredBatches(dt[p]).end - 1)
<1> DEFINE begin == StoredBatches(dt[p]).begin
           end == StoredBatches(dt[p]).end
<1>0. dt[p] \in 0..MaxTime /\ dt[p] \in Nat /\ Len(log) \in Nat /\ first \in Nat
  BY LenProperties, BoundsType DEF IndInv, TypeOK, HandleType, HistoryType
<1>1. begin \in Nat /\ end \in Nat
  BY <1>0, StoredType
<1>2. Len(log) = end /\ first <= begin
  BY DEF IndInv, LoopPosition, LoopAt, IssueSucceeds
<1>3. /\ listBatchNumbers(p) = DOMAIN dirs
      /\ RangeOf(DOMAIN dirs).end = Len(log)
      /\ log # <<>> => DOMAIN dirs # {}
      /\ log = <<>> => DOMAIN dirs = {}
  BY ExistingBatches DEF IndInv
<1>4. DOMAIN dirs = first..(Len(log) - 1)
  BY DEF IndInv, StoredTail, Contiguous, Newest
<1>5. end # 0 => begin < end
  BY <1>0, StoredNonEmpty
<1> HIDE DEF begin, end
<1>6. CASE NothingToDrop(p)
  <2>1. dirs' = dirs /\ log = <<>>
    BY <1>3, <1>6 DEF NothingToDrop, disk
  <2>2. end = 0
    BY <1>2, <2>1
  <2>3. begin..(end - 1) = {}
    BY <1>1, <2>2
  <2> QED
    BY <1>3, <2>1, <2>3 DEF begin, end
<1>7. CASE RemoveDone(p)
  <2>1. dirs' = dirs /\ pc[p] = "remove" /\ ~IsOld(p)
    BY <1>7 DEF RemoveDone, disk
  <2>2. cur[p] = first /\ lim[p] = Len(log) /\ first < Len(log)
    BY <2>1 DEF IndInv, LoopPosition, LoopAt
  <2>3. ~(first < begin)
    BY <2>1, <2>2 DEF IsOld, AreAllPast, begin, end
  <2>4. first = begin
    BY <1>0, <1>1, <1>2, <2>3
  <2> QED
    BY <1>2, <1>4, <2>1, <2>4 DEF begin, end
<1>8. CASE pc[p] = "dropOld" /\ DropRefuses(p)
  <2>1. DOMAIN dirs # {}
    BY <1>3, <1>8 DEF DropRefuses
  <2>2. first <= Len(log) - 1 /\ Len(log) - 1 \in Nat
    BY <1>0, <1>4, <2>1
  <2>3. IsRange(DOMAIN dirs)
    BY <1>0, <1>4, <2>2, RangeOfInterval
  <2>4. begin = end \/ Len(log) - 1 < begin
    BY <1>3, <1>8, <2>3 DEF DropRefuses, AreAllPast, begin, end
  <2>5. begin < end
    BY <1>0, <1>2, <1>5, <2>2
  <2> QED
    BY <1>0, <1>1, <1>2, <2>4, <2>5
<1> QED
  BY <1>6, <1>7, <1>8, SuccessSteps DEF IndInv

(* When Issue returns success, the directory holds the storage window of   *)
(* the time it started at, no more and no less (Issue, dropOldBatches).    *)
THEOREM IssueIsComplete == Spec => IssueComplete
<1>1. IndInv /\ [Next]_vars =>
        [\A p \in Proc : IssueSucceeds(p) =>
           LET stored == StoredBatches(dt[p])
           IN DOMAIN dirs' = stored.begin..stored.end - 1]_vars
  BY SuccessEffect
<1> QED
  BY <1>1, Invariance, PTL DEF Spec, IssueComplete
=============================================================================
