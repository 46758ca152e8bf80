--------------------------- MODULE CreationProofs ---------------------------
(***************************************************************************)
(* That what Open accepts is complete, consistent and lasting, for any     *)
(* number of runs and any options.                                         *)
(***************************************************************************)
EXTENDS Creation, TLAPS

-----------------------------------------------------------------------------
(* The order of the writes of New.                                         *)

LEMMA OrderSet ==
  ToSet(Order) =
    {"lock", "key", "keyData", "batches", "tmp", "queue", "params", "paramsData", "made"}
  BY DEF Order, ToSet

LEMMA OrderDistinct ==
  \A i, j \in 1..9 : Order[i] = Order[j] => i = j
  BY DEF Order

LEMMA OrderLen == Len(Order) = 9
  BY DEF Order

(* Each step has one step after it.                                        *)
LEMMA FollowingIs ==
  ASSUME NEW i \in 1..8 PROVE Following(Order[i]) = Order[i + 1]
  <1>1. Order[i + 1] \in ToSet(Order)
    BY OrderLen DEF ToSet, Order
  <1>2. \E j \in 1..Len(Order) - 1 : Order[j] = Order[i] /\ Order[j + 1] = Order[i + 1]
    BY OrderLen
  <1>3. \A next : (\E j \in 1..Len(Order) - 1 : Order[j] = Order[i] /\ Order[j + 1] = next)
                    => next = Order[i + 1]
    BY OrderLen, OrderDistinct
  <1> QED
    BY <1>1, <1>2, <1>3 DEF Following

LEMMA Successors ==
  /\ Following("lock") = "key"
  /\ Following("key") = "keyData"
  /\ Following("keyData") = "batches"
  /\ Following("batches") = "tmp"
  /\ Following("tmp") = "queue"
  /\ Following("queue") = "params"
  /\ Following("params") = "paramsData"
  /\ Following("paramsData") = "made"
  <1>1. Following(Order[1]) = Order[2] /\ Following(Order[2]) = Order[3]
    BY FollowingIs
  <1>2. Following(Order[3]) = Order[4] /\ Following(Order[4]) = Order[5]
    BY FollowingIs
  <1>3. Following(Order[5]) = Order[6] /\ Following(Order[6]) = Order[7]
    BY FollowingIs
  <1>4. Following(Order[7]) = Order[8] /\ Following(Order[8]) = Order[9]
    BY FollowingIs
  <1>5. /\ Order[1] = "lock" /\ Order[2] = "key" /\ Order[3] = "keyData"
        /\ Order[4] = "batches" /\ Order[5] = "tmp" /\ Order[6] = "queue"
        /\ Order[7] = "params" /\ Order[8] = "paramsData" /\ Order[9] = "made"
    BY DEF Order
  <1> QED
    BY <1>1, <1>2, <1>3, <1>4, <1>5

(* The sizes that accepted options stand for are natural numbers.          *)
LEMMA ParamsTyped ==
  ASSUME TypeOK, NEW o \in Options, AcceptsOptions(o)
  PROVE  /\ NextKey \in Nat
         /\ ParamsOf(o) \in CAParamsRecord
         /\ ParamsOf(o).PublicKey = NextKey
         /\ CA(ParamsOf(o))!Validate
  <1>1. NextKey \in Nat
    BY DEF TypeOK, NextKey
  <1>2. /\ Batch(o) \in Int /\ Batch(o) > 0
        /\ LifetimeOf(o) \in Int /\ Storage(o) \in Int
    BY CreationAssumption DEF AcceptsOptions, ChecksOptions, Batch, LifetimeOf, Storage, Or
  <1>3. /\ Batch(o) \div Second \in Int /\ LifetimeOf(o) \div Second \in Int
        /\ LifetimeOf(o) \div Batch(o) \in Int /\ Storage(o) \div Batch(o) \in Int
    BY <1>2, CreationAssumption
  <1>4. \A n \in Int : n % U64 \in Nat
    BY CreationAssumption
  <1> QED
    BY <1>1, <1>3, <1>4 DEF ParamsOf, CAParamsRecord, AcceptsOptions

-----------------------------------------------------------------------------
(* The inductive invariant.                                                *)

LEMMA InitInv == Init => IndInv
  BY CreationAssumption, OrderSet
     DEF Init, IndInv, TypeOK, Owner, Prepared, InNew, Progress, FirstOnly, Matching,
         Steps, Written

LEMMA StartInv ==
  ASSUME IndInv, NEW p \in Runs, NEW o \in Options, NewStart(p, o)
  PROVE  IndInv'
  <1> USE OrderSet, CreationAssumption
  <1>0. /\ NextKey \in Nat /\ ParamsOf(o) \in CAParamsRecord
        /\ ParamsOf(o).PublicKey = NextKey /\ CA(ParamsOf(o))!Validate
    BY ParamsTyped DEF IndInv, NewStart
  <1>1. TypeOK'
    BY <1>0 DEF IndInv, TypeOK, NewStart, Goto, disk, Steps, HandleRecord
  <1>2. Owner'
    BY DEF IndInv, TypeOK, Owner, NewStart, Goto, disk
  <1>3. Prepared'
    BY <1>0 DEF IndInv, TypeOK, Prepared, InNew, NewStart, Goto, HandleRecord
  <1>4. Progress'
    BY DEF IndInv, TypeOK, Progress, NewStart, Goto, disk
  <1>5. FirstOnly' /\ Matching'
    BY DEF IndInv, TypeOK, FirstOnly, Matching, NewStart, Goto, disk
  <1> QED
    BY <1>1, <1>2, <1>3, <1>4, <1>5 DEF IndInv

LEMMA LockInv ==
  ASSUME IndInv, NEW p \in Runs, NewLock(p)
  PROVE  IndInv'
  <1> USE OrderSet, Successors, CreationAssumption
  <1>1. TypeOK'
    BY DEF IndInv, TypeOK, NewLock, Goto, Steps
  <1>2. Owner'
    BY DEF IndInv, TypeOK, Owner, NewLock, TryLock, Goto
  <1>3. Prepared'
    BY DEF IndInv, TypeOK, Prepared, InNew, NewLock, Goto
  <1>4. Progress'
    BY DEF IndInv, TypeOK, Progress, NewLock, Goto
  <1>5. FirstOnly' /\ Matching'
    BY DEF IndInv, TypeOK, FirstOnly, Matching, NewLock, Goto
  <1> QED
    BY <1>1, <1>2, <1>3, <1>4, <1>5 DEF IndInv

(* The end of a run, with or without the lock.                             *)
LEMMA EndsInv ==
  ASSUME IndInv, NEW p \in Runs, Ends(p),
         \/ lock' = lock
         \/ pc[p] \notin {"idle", "lock"} /\ lock' = None
  PROVE  IndInv'
  <1> USE OrderSet, CreationAssumption
  <1>1. TypeOK'
    BY DEF IndInv, TypeOK, Ends, Goto, Steps
  <1>2. Owner'
    BY DEF IndInv, TypeOK, Owner, Ends, Goto
  <1>3. Prepared'
    BY DEF IndInv, TypeOK, Prepared, InNew, Ends, Goto
  <1>4. Progress'
    BY DEF IndInv, TypeOK, Progress, Ends, Goto
  <1>5. FirstOnly' /\ Matching'
    BY DEF IndInv, TypeOK, FirstOnly, Matching, Ends, Goto
  <1> QED
    BY <1>1, <1>2, <1>3, <1>4, <1>5 DEF IndInv

LEMMA CreateKeyInv ==
  ASSUME IndInv, NEW p \in Runs, CreateKey(p)
  PROVE  IndInv'
  <1> USE OrderSet, Successors, CreationAssumption
  <1>1. TypeOK'
    BY DEF IndInv, TypeOK, CreateKey, Goto, Steps
  <1>2. Owner'
    BY DEF IndInv, TypeOK, Owner, CreateKey, Goto
  <1>3. Prepared'
    BY DEF IndInv, TypeOK, Prepared, InNew, CreateKey, Goto
  <1>4. Progress'
    BY DEF IndInv, TypeOK, Progress, CreateKey, Goto
  <1>5. FirstOnly' /\ Matching'
    BY DEF IndInv, TypeOK, Owner, FirstOnly, Matching, CreateKey, CanWriteKey, Goto
  <1> QED
    BY <1>1, <1>2, <1>3, <1>4, <1>5 DEF IndInv

LEMMA WriteKeyInv ==
  ASSUME IndInv, NEW p \in Runs, WriteKey(p)
  PROVE  IndInv'
  <1> USE OrderSet, Successors, CreationAssumption
  <1>0. handle[p] \in HandleRecord
    BY DEF IndInv, TypeOK, Prepared, InNew, WriteKey
  <1>1. TypeOK'
    BY <1>0 DEF IndInv, TypeOK, WriteKey, Goto, Steps, HandleRecord
  <1>2. Owner'
    BY DEF IndInv, TypeOK, Owner, WriteKey, Goto
  <1>3. Prepared'
    BY DEF IndInv, TypeOK, Prepared, InNew, WriteKey, Goto
  <1>4. Progress'
    BY DEF IndInv, TypeOK, Progress, WriteKey, Goto
  <1>5. FirstOnly' /\ Matching'
    BY <1>0 DEF IndInv, TypeOK, Owner, FirstOnly, Matching, WriteKey, Goto, HandleRecord
  <1> QED
    BY <1>1, <1>2, <1>3, <1>4, <1>5 DEF IndInv

LEMMA MakeInv ==
  ASSUME IndInv, NEW p \in Runs, NEW what \in Written, Make(p, what)
  PROVE  IndInv'
  <1> USE OrderSet, Successors, CreationAssumption
  <1>1. TypeOK'
    BY DEF IndInv, TypeOK, Make, Goto, Steps, Written
  <1>2. Owner'
    BY DEF IndInv, TypeOK, Owner, Make, Goto, Written
  <1>3. Prepared'
    BY DEF IndInv, TypeOK, Prepared, InNew, Make, Goto, Written
  <1>4. Progress'
    BY DEF IndInv, TypeOK, Progress, Make, Goto, Written
  <1>5. FirstOnly' /\ Matching'
    BY DEF IndInv, TypeOK, FirstOnly, Matching, Make, Goto, Written
  <1> QED
    BY <1>1, <1>2, <1>3, <1>4, <1>5 DEF IndInv

LEMMA CreateParamsInv ==
  ASSUME IndInv, NEW p \in Runs, CreateParams(p)
  PROVE  IndInv'
  <1> USE OrderSet, Successors, CreationAssumption
  <1>1. TypeOK'
    BY DEF IndInv, TypeOK, CreateParams, Goto, Steps
  <1>2. Owner'
    BY DEF IndInv, TypeOK, Owner, CreateParams, Goto
  <1>3. Prepared'
    BY DEF IndInv, TypeOK, Prepared, InNew, CreateParams, Goto
  <1>4. Progress'
    BY DEF IndInv, TypeOK, Progress, CreateParams, Goto, Written
  <1>5. FirstOnly' /\ Matching'
    <2>1. \A q \in Runs \ {p} : pc[q] \in {"idle", "lock"}
      BY DEF IndInv, Owner, CreateParams
    <2>2. ~root => key # None
      BY DEF IndInv, TypeOK, FirstOnly, Prepared, InNew, CreateParams, HandleRecord
    <2> QED
      BY <2>1, <2>2 DEF IndInv, TypeOK, FirstOnly, Matching, CreateParams, Goto
  <1> QED
    BY <1>1, <1>2, <1>3, <1>4, <1>5 DEF IndInv

LEMMA WriteParamsInv ==
  ASSUME IndInv, NEW p \in Runs, WriteParams(p)
  PROVE  IndInv'
  <1> USE OrderSet, Successors, CreationAssumption
  <1>0. /\ handle[p] \in HandleRecord
        /\ handle[p].params \in CAParamsRecord
        /\ handle[p].params.PublicKey = handle[p].signer
        /\ handle[p].signer \in Nat
        /\ CA(handle[p].params)!Validate
    BY DEF IndInv, TypeOK, Prepared, InNew, WriteParams, HandleRecord
  <1>1. TypeOK'
    BY <1>0 DEF IndInv, TypeOK, WriteParams, Goto, Steps
  <1>2. Owner'
    BY DEF IndInv, TypeOK, Owner, WriteParams, Goto
  <1>3. Prepared'
    BY DEF IndInv, TypeOK, Prepared, InNew, WriteParams, Goto
  <1>4. Progress'
    BY ZenonT(40) DEF IndInv, TypeOK, Progress, WriteParams, Goto, Written
  <1>5. FirstOnly' /\ Matching'
    <2>1. \A q \in Runs \ {p} : pc[q] \in {"idle", "lock"}
      BY DEF IndInv, Owner, WriteParams
    <2>2. ~root => key = handle[p].signer /\ made = None
      BY DEF IndInv, TypeOK, FirstOnly, Matching, WriteParams
    <2>3. FirstOnly'
      BY <1>0, <2>1, <2>2 DEF IndInv, TypeOK, FirstOnly, WriteParams, Goto
    <2>4. Matching'
      BY <1>0, <2>2 DEF Matching, WriteParams
    <2> QED
      BY <2>3, <2>4
  <1> QED
    BY <1>1, <1>2, <1>3, <1>4, <1>5 DEF IndInv

LEMMA OpenInv ==
  ASSUME IndInv, NEW p \in Runs, Open(p)
  PROVE  IndInv'
  <1> USE OrderSet, CreationAssumption
  <1>0. [signer |-> key, params |-> params] \in HandleRecord
    BY DEF IndInv, TypeOK, Open, CanOpen, HandleRecord
  <1>1. TypeOK'
    BY <1>0 DEF IndInv, TypeOK, Open, Goto, Steps
  <1>2. Owner'
    BY DEF IndInv, TypeOK, Owner, Open, TryLock, Goto
  <1>3. Prepared'
    BY DEF IndInv, TypeOK, Prepared, InNew, Open, Goto
  <1>4. Progress'
    BY DEF IndInv, TypeOK, Progress, Open, Goto
  <1>5. FirstOnly' /\ Matching'
    BY <1>0 DEF IndInv, TypeOK, FirstOnly, Matching, Open, CanOpen, Goto, HandleRecord
  <1> QED
    BY <1>1, <1>2, <1>3, <1>4, <1>5 DEF IndInv

LEMMA OpenFailsInv ==
  ASSUME IndInv, NEW p \in Runs, OpenFails(p)
  PROVE  IndInv'
  <1> USE OrderSet, CreationAssumption
  <1>1. TypeOK'
    BY DEF IndInv, TypeOK, OpenFails, Goto, Steps
  <1>2. Owner'
    BY DEF IndInv, TypeOK, Owner, OpenFails, TryLock, Goto
  <1>3. Prepared'
    BY DEF IndInv, TypeOK, Prepared, InNew, OpenFails, Goto
  <1>4. Progress'
    BY DEF IndInv, TypeOK, Progress, OpenFails, Goto
  <1>5. FirstOnly' /\ Matching'
    BY DEF IndInv, TypeOK, FirstOnly, Matching, OpenFails, Goto
  <1> QED
    BY <1>1, <1>2, <1>3, <1>4, <1>5 DEF IndInv

LEMMA StepInv == IndInv /\ [Next]_vars => IndInv'
  <1> SUFFICES ASSUME IndInv, [Next]_vars PROVE IndInv'
    OBVIOUS
  <1>1. ASSUME NEW p \in Runs, New(p) PROVE IndInv'
    <2>1. CASE NewBusy(p) \/ NewFails(p)
      BY <2>1, EndsInv, OrderSet DEF NewBusy, NewFails, Unlock
    <2>2. CASE \E what \in {"batches", "tmp", "queue"} : Make(p, what)
      BY <2>2, MakeInv DEF Written
    <2> QED
      BY <1>1, <2>1, <2>2, StartInv, LockInv, CreateKeyInv, WriteKeyInv, CreateParamsInv,
         WriteParamsInv DEF New
  <1>2. ASSUME NEW p \in Runs, Close(p) \/ Exit(p) PROVE IndInv'
    BY <1>2, EndsInv DEF Close, Exit, Unlock
  <1>3. CASE UNCHANGED vars
    BY <1>3 DEF vars, disk, IndInv, TypeOK, Owner, Prepared, InNew, Progress, FirstOnly,
                Matching
  <1> QED
    BY <1>1, <1>2, <1>3, OpenInv, OpenFailsInv DEF Next

LEMMA InductiveInv == Spec => []IndInv
  BY InitInv, StepInv, PTL DEF Spec

-----------------------------------------------------------------------------
(* Theorems.                                                               *)

(* A directory that Open accepts is complete, wherever runs of New failed  *)
(* or were killed, as root or not.                                         *)
THEOREM OpensCompleteOnly == Spec => []OpenedIsComplete
  <1>1. IndInv => OpenedIsComplete
    BY DEF IndInv, Progress, OpenedIsComplete, CanOpen
  <1> QED
    BY <1>1, InductiveInv, PTL

(* Unless mtc runs as root, whoever has the CA open signs with the key     *)
(* that ca-params publishes.                                               *)
THEOREM SignsWithPublishedKey == Spec => []SignerPublished
  <1>1. IndInv => SignerPublished
    <2> SUFFICES ASSUME IndInv, ~root, NEW p \in Runs, HasHandle(p)
                 PROVE  params.PublicKey = handle[p].signer
      BY DEF SignerPublished
    <2>1. CASE pc[p] = "made"
      BY <2>1, OrderSet DEF IndInv, FirstOnly, Prepared, InNew
    <2>2. CASE pc[p] = "opened"
      BY <2>2 DEF IndInv, FirstOnly, Matching
    <2> QED
      BY <2>1, <2>2 DEF HasHandle
  <1> QED
    BY <1>1, InductiveInv, PTL

(* Unless mtc runs as root, no later call of New changes what New has made *)
(* or keeps it from being opened.                                          *)
THEOREM MadeForGood == Spec => []MadeStaysOpenable
  <1>1. IndInv => MadeStaysOpenable
    <2> SUFFICES ASSUME IndInv, ~root, made # None PROVE params = made /\ CanOpen
      BY DEF MadeStaysOpenable
    <2>1. params \in CAParamsRecord /\ params = made /\ params.PublicKey = key /\ CA(params)!Validate
      BY DEF IndInv, Matching
    <2>2. key \in Nat
      BY <2>1 DEF CAParamsRecord
    <2> QED
      BY <2>1, <2>2, CreationAssumption DEF CanOpen
  <1> QED
    BY <1>1, InductiveInv, PTL
=============================================================================
