---------------------------- MODULE LookupProofs ----------------------------
(***************************************************************************)
(* CertificateFor is right for any number and contents of batches.         *)
(*                                                                         *)
(* IndInv says that the batches newer than the loop variable do not hold   *)
(* the key, and that the files a handle has open are those on disk.  The   *)
(* latter is what stops the loop at the oldest batch: it goes on past it,  *)
(* but finds neither an open index nor one that it could open.             *)
(***************************************************************************)
EXTENDS Lookup, TLAPS

(* The loop variable, counting down from the newest batch.                 *)
LEMMA CountDown ==
  /\ \A n \in 0..U32 - 1 : n % U32 = n
  /\ (-1) % U32 = U32 - 1
  /\ U32 \in Nat /\ U32 > 1
<1>1. U32 \in Nat /\ U32 > 1
  BY LookupAssumption
<1>2. \A n \in 0..U32 - 1 : n % U32 = n
  BY <1>1
<1>3. (-1) % U32 = U32 - 1
  BY <1>1
<1> QED
  BY <1>1, <1>2, <1>3

(* The loop variable, past the oldest batch.                               *)
LEMMA PastTheEnd ==
  ASSUME TypeOK, batch = (first - 1) % U32, Stored # {}
  PROVE  /\ batch \notin Stored
         /\ first = 0 => ~Continues
<1>1. first \in Nat /\ End \in Nat /\ End < U32 - 1 /\ first < End
  BY LookupAssumption DEF TypeOK, Stored, End
<1>2. CASE first = 0
  <2>1. batch = U32 - 1
    BY <1>1, <1>2, CountDown
  <2> QED
    BY <1>1, <1>2, <2>1, CountDown DEF Stored, Continues
<1>3. CASE first # 0
  <2>1. batch = first - 1
    BY <1>1, <1>3, CountDown
  <2> QED
    BY <1>1, <1>3, <2>1 DEF Stored
<1> QED
  BY <1>2, <1>3

(* The index of a batch finds exactly the keys it holds.                   *)
LEMMA IndexOfBatch ==
  ASSUME TypeOK, IndexesRight, NEW n \in Stored
  PROVE  /\ n + 1 \in DOMAIN log
         /\ DOMAIN log[n + 1].index = Range(log[n + 1].keys)
         /\ \A k \in DOMAIN log[n + 1].index :
              /\ log[n + 1].index[k] \in DOMAIN log[n + 1].keys
              /\ log[n + 1].keys[log[n + 1].index[k]] = k
<1>1. n + 1 \in DOMAIN log
  BY DEF TypeOK, Stored, End
<1>2. log[n + 1].index \in IndexFiles(log[n + 1].keys)
  BY <1>1 DEF IndexesRight
<1> QED
  BY <1>1, <1>2 DEF IndexFiles

(* The keys of a batch, by sequence number.                                *)
LEMMA KeysOfBatch ==
  ASSUME TypeOK, NEW n \in DOMAIN log
  PROVE  log[n].keys \in Seq(Keys)
<1>1. log[n] \in BatchFiles
  BY DEF TypeOK
<1>2. log[n].keys \in Contents
  BY <1>1 DEF BatchFiles
<1> QED
  BY <1>2, LookupAssumption

(* What a handle reads through indexFor and treeFor is that of the batch.  *)
LEMMA Opened ==
  ASSUME OpenFilesStored
  PROVE  /\ CanOpen(indices, "index") =>
              batch \in Stored /\ indexFor = log[batch + 1].index
         /\ CanOpen(trees, "tree") =>
              batch \in Stored /\ treeFor = log[batch + 1].keys
BY DEF OpenFilesStored, CanOpen, OnDisk, indexFor, treeFor

LEMMA Initially == Init => IndInv
<1> SUFFICES ASSUME Init PROVE IndInv
  OBVIOUS
<1>1. TypeOK
  BY CountDown, LookupAssumption DEF Init, TypeOK, End
<1>2. IndexesRight /\ OpenFilesStored
  BY DEF Init, IndexesRight, OpenFilesStored
<1>3. SearchAt /\ ProofAt /\ StoredIsFound
  BY DEF Init, SearchAt, ProofAt, StoredIsFound
<1> QED
  BY <1>1, <1>2, <1>3 DEF IndInv

-----------------------------------------------------------------------------
(* Steps between calls: nothing is being searched for afterwards.          *)

LEMMA IdleStep ==
  ASSUME IndInv, Idle, TypeOK', IndexesRight', OpenFilesStored'
  PROVE  IndInv'
BY DEF Idle, IndInv, SearchAt, ProofAt, StoredIsFound

LEMMA PublishStep ==
  ASSUME IndInv, NEW keys \in Contents, Publish(keys)
  PROVE  IndInv'
<1>0. PICK f \in IndexFiles(keys) :
        log' = Append(log, [keys |-> keys, index |-> f])
  BY DEF Publish
<1> DEFINE e == [keys |-> keys, index |-> f]
<1>1. log \in Seq(BatchFiles) /\ e \in BatchFiles
  BY <1>0 DEF IndInv, TypeOK, BatchFiles
<1> HIDE DEF e
<1>2. log' = Append(log, e)
  BY <1>0 DEF e
<1>3. /\ log' \in Seq(BatchFiles)
      /\ End \in Nat /\ End' = End + 1
      /\ DOMAIN log = 1..End /\ DOMAIN log' = 1..End + 1
      /\ \A n \in 1..End : log'[n] = log[n]
      /\ log'[End + 1] = e
  BY <1>1, <1>2 DEF End
<1>4. TypeOK'
  BY <1>3, LookupAssumption DEF IndInv, TypeOK, Publish, Idle, files
<1>5. IndexesRight'
  BY <1>0, <1>3 DEF IndInv, IndexesRight, e
<1>6. OpenFilesStored'
  <2>1. \A n \in Stored : n \in Stored' /\ log'[n + 1] = log[n + 1]
    BY <1>3 DEF IndInv, TypeOK, Stored, Publish
  <2> QED
    BY <2>1 DEF IndInv, OpenFilesStored, Publish, files
<1> QED
  BY <1>4, <1>5, <1>6, IdleStep DEF Publish

LEMMA CloseFirstStep ==
  ASSUME OpenFilesStored, CloseFirst, UNCHANGED log, Stored \ {first} \subseteq Stored'
  PROVE  OpenFilesStored'
BY DEF OpenFilesStored, CloseFirst, closeBatch, Restrict

LEMMA CloseFirstType ==
  ASSUME TypeOK, CloseFirst
  PROVE  /\ DOMAIN indices' \subseteq Nat /\ DOMAIN trees' \subseteq Nat
         /\ closed' \subseteq Files
BY DEF TypeOK, CloseFirst, closeBatch, Restrict

LEMMA CloseFirstFailsStep ==
  ASSUME IndInv, CloseFirstFails
  PROVE  IndInv'
<1>0. /\ UNCHANGED <<log, first, lost, trees>> /\ Idle
      /\ indices' = indices \/ indices' = closeBatch(indices, first)
      /\ closed' \subseteq Files
  BY DEF IndInv, TypeOK, CloseFirstFails, disk, Files
<1>1. /\ DOMAIN indices' \subseteq DOMAIN indices
      /\ \A n \in DOMAIN indices' : indices'[n] = indices[n]
  BY <1>0 DEF closeBatch, Restrict
<1>2. TypeOK'
  BY <1>0, <1>1 DEF IndInv, TypeOK, Idle, End
<1>3. IndexesRight'
  BY <1>0 DEF IndInv, IndexesRight
<1>4. OpenFilesStored'
  BY <1>0, <1>1 DEF IndInv, OpenFilesStored, Stored, End
<1> QED
  BY <1>0, <1>2, <1>3, <1>4, IdleStep

LEMMA RemoveStep ==
  ASSUME IndInv, Remove
  PROVE  IndInv'
<1>1. TypeOK'
  BY CloseFirstType DEF IndInv, TypeOK, Remove, Idle, End
<1>2. IndexesRight'
  BY DEF IndInv, IndexesRight, Remove
<1>3. OpenFilesStored'
  <2>1. Stored \ {first} \subseteq Stored'
    BY DEF IndInv, TypeOK, Remove, Stored, End
  <2> QED
    BY <2>1, CloseFirstStep DEF IndInv, Remove
<1> QED
  BY <1>1, <1>2, <1>3, IdleStep DEF Remove

LEMMA RemoveFailsStep ==
  ASSUME IndInv, RemoveFails
  PROVE  IndInv'
<1>1. TypeOK'
  BY CloseFirstType DEF IndInv, TypeOK, RemoveFails, Idle, End
<1>2. IndexesRight'
  BY DEF IndInv, IndexesRight, RemoveFails
<1>3. OpenFilesStored'
  BY CloseFirstStep DEF IndInv, RemoveFails, Stored, End
<1> QED
  BY <1>1, <1>2, <1>3, IdleStep DEF RemoveFails

LEMMA ReopenStep ==
  ASSUME IndInv, Reopen
  PROVE  IndInv'
<1>1. TypeOK'
  BY DEF IndInv, TypeOK, Reopen, Idle, End, disk
<1>2. IndexesRight' /\ OpenFilesStored'
  BY DEF IndInv, IndexesRight, OpenFilesStored, Reopen, disk
<1> QED
  BY <1>1, <1>2, IdleStep DEF Reopen

-----------------------------------------------------------------------------
(* The steps of CertificateFor.                                            *)

LEMMA CertificateForStep ==
  ASSUME IndInv, NEW k \in Keys, CertificateFor(k)
  PROVE  IndInv'
<1>0. UNCHANGED disk /\ UNCHANGED files
  BY DEF CertificateFor
<1>1. End \in Nat /\ first \in Nat /\ End < U32 - 1
  BY LookupAssumption DEF IndInv, TypeOK, End
<1>2. IndexesRight' /\ OpenFilesStored' /\ Stored' = Stored /\ End' = End
  BY <1>0 DEF IndInv, IndexesRight, OpenFilesStored, Stored, End, disk, files
<1>3. CASE Stored = {}
  <2>1. phase' = "absent" /\ cert' = Nil /\ key' = k /\ batch' = batch
    BY <1>3 DEF CertificateFor
  <2>2. TypeOK'
    BY <1>0, <2>1 DEF IndInv, TypeOK, End, disk, files
  <2> QED
    BY <1>2, <1>3, <2>1, <2>2 DEF IndInv, SearchAt, ProofAt, StoredIsFound
<1>4. CASE Stored # {}
  <2>1. phase' = "search" /\ cert' = Nil /\ key' = k /\ batch' = StartBatch
    BY <1>4 DEF CertificateFor
  <2>2. batch' = End - 1 /\ End - 1 \in Stored
    BY <1>1, <1>4, <2>1, CountDown DEF StartBatch, Stored
  <2>3. TypeOK'
    BY <1>0, <1>1, <2>1, <2>2, CountDown DEF IndInv, TypeOK, End, disk, files, Stored
  <2>4. SearchAt'
    BY <1>1, <1>2, <1>4, <2>2 DEF SearchAt
  <2> QED
    BY <1>2, <2>1, <2>3, <2>4 DEF IndInv, ProofAt, StoredIsFound
<1> QED
  BY <1>3, <1>4

(* A step that leaves the disk and the files alone and returns no          *)
(* certificate.                                                            *)
LEMMA NoCertificateStep ==
  ASSUME IndInv, UNCHANGED disk, UNCHANGED <<key, batch, closed>>,
         phase' \in {"absent", "error"}, cert' \in {cert, Nil},
         DOMAIN indices' \subseteq Nat, DOMAIN trees' \subseteq Nat,
         OpenFilesStored',
         \A n \in Stored : Intact(n) => ~Holds(n, key)
  PROVE  IndInv'
<1>1. TypeOK'
  BY DEF IndInv, TypeOK, End, disk
<1>2. IndexesRight'
  BY DEF IndInv, IndexesRight, disk
<1>3. StoredIsFound'
  BY DEF StoredIsFound, Intact, Stored, End, Holds, disk
<1> QED
  BY <1>1, <1>2, <1>3 DEF IndInv, SearchAt, ProofAt

LEMMA SearchDoneStep ==
  ASSUME IndInv, SearchDone
  PROVE  IndInv'
<1>1. ~(batch \in Stored)
  BY DEF IndInv, TypeOK, SearchDone, Continues, Stored, End
<1>2. \A n \in Stored : ~Holds(n, key)
  BY <1>1 DEF IndInv, SearchAt, SearchDone
<1>3. OpenFilesStored' /\ DOMAIN indices' \subseteq Nat /\ DOMAIN trees' \subseteq Nat
  BY DEF IndInv, TypeOK, OpenFilesStored, Stored, End, SearchDone, disk, files
<1> QED
  BY <1>2, <1>3, NoCertificateStep DEF SearchDone, Return, files

LEMMA SearchErrorStep ==
  ASSUME IndInv, SearchError
  PROVE  IndInv'
<1>1. OpenFilesStored' /\ DOMAIN indices' \subseteq Nat /\ DOMAIN trees' \subseteq Nat
  BY DEF IndInv, TypeOK, OpenFilesStored, Stored, End, SearchError, disk, files
<1>2. CASE batch \in Stored
  <2>1. batch = first /\ ~Intact(first)
    BY <1>2 DEF SearchError, CanSearch, IsClosed, CanOpen, OnDisk, Intact
  <2>2. ~(batch = (first - 1) % U32)
    BY <1>2, PastTheEnd DEF IndInv
  <2>3. \A n \in Stored : n # first => ~Holds(n, key)
    BY <1>2, <2>1, <2>2 DEF IndInv, SearchAt, SearchError, Stored, TypeOK, End
  <2> QED
    BY <1>1, <2>1, <2>3, NoCertificateStep DEF SearchError, Return, files
<1>3. CASE batch \notin Stored
  <2>1. \A n \in Stored : ~Holds(n, key)
    BY <1>3 DEF IndInv, SearchAt, SearchError
  <2> QED
    BY <1>1, <2>1, NoCertificateStep DEF SearchError, Return, files
<1> QED
  BY <1>2, <1>3

(* The search is at a batch on disk as long as it can open an index.       *)
LEMMA SearchInside ==
  ASSUME IndInv, phase = "search", CanOpen(indices, "index")
  PROVE  /\ batch \in Stored
         /\ indexFor = log[batch + 1].index
         /\ \A n \in batch + 1..End - 1 : ~Holds(n, key)
<1>1. batch \in Stored /\ indexFor = log[batch + 1].index
  BY Opened DEF IndInv
<1>2. ~(batch = (first - 1) % U32)
  BY <1>1, PastTheEnd DEF IndInv
<1> QED
  BY <1>1, <1>2 DEF IndInv, SearchAt

LEMMA IndexOpened ==
  ASSUME IndInv, UNCHANGED <<disk, trees>>, batch \in Stored,
         indices' = With(indices, batch, log[batch + 1].index)
  PROVE  OpenFilesStored' /\ DOMAIN indices' \subseteq Nat /\ IndexesRight'
<1>1. OpenFilesStored'
  BY DEF IndInv, OpenFilesStored, With, Stored, End, disk
<1>2. DOMAIN indices' \subseteq Nat
  BY DEF IndInv, TypeOK, With
<1>3. IndexesRight'
  BY DEF IndInv, IndexesRight, disk
<1> QED
  BY <1>1, <1>2, <1>3

LEMMA SearchHitStep ==
  ASSUME IndInv, SearchHit
  PROVE  IndInv'
<1>1. /\ batch \in Stored /\ indexFor = log[batch + 1].index
      /\ \A n \in batch + 1..End - 1 : ~Holds(n, key)
  BY SearchInside DEF SearchHit, CanSearch
<1>2. OpenFilesStored' /\ DOMAIN indices' \subseteq Nat /\ IndexesRight'
  BY <1>1, IndexOpened DEF SearchHit, disk
<1>3. log[batch + 1].keys \in Seq(Keys)
  BY <1>1, IndexOfBatch, KeysOfBatch DEF IndInv
<1>4. /\ indexFor[key] \in DOMAIN log[batch + 1].keys
      /\ log[batch + 1].keys[indexFor[key]] = key
  BY <1>1, IndexOfBatch DEF IndInv, SearchHit
<1> DEFINE s == indexFor[key]
<1>5. s \in Nat /\ s - 1 \in Nat /\ (s - 1) + 1 = s
  BY <1>3, <1>4
<1>6. cert' = [batch |-> batch, seqno |-> s - 1]
  BY DEF SearchHit
<1>7. batch \in Nat
  BY DEF IndInv, TypeOK
<1> HIDE DEF s
<1>8. /\ cert' \in [batch : Nat, seqno : Nat]
      /\ cert'.batch = batch /\ cert'.seqno + 1 = s
  BY <1>5, <1>6, <1>7
<1>9. TypeOK'
  BY <1>2, <1>8 DEF IndInv, TypeOK, SearchHit, End, disk
<1>10. ProofAt'
  BY <1>1, <1>4, <1>8 DEF ProofAt, SearchHit, Stored, End, Holds, disk, s
<1> QED
  BY <1>2, <1>9, <1>10 DEF IndInv, SearchAt, StoredIsFound, SearchHit

LEMMA SearchMissStep ==
  ASSUME IndInv, SearchMiss
  PROVE  IndInv'
<1>1. /\ batch \in Stored /\ indexFor = log[batch + 1].index
      /\ \A n \in batch + 1..End - 1 : ~Holds(n, key)
  BY SearchInside DEF SearchMiss, CanSearch
<1>2. OpenFilesStored' /\ DOMAIN indices' \subseteq Nat /\ IndexesRight'
  BY <1>1, IndexOpened DEF SearchMiss, disk
<1>3. ~Holds(batch, key)
  BY <1>1, IndexOfBatch DEF IndInv, SearchMiss, Holds
<1>4. first \in Nat /\ End \in Nat /\ batch \in Nat /\ End < U32 - 1
  BY LookupAssumption DEF IndInv, TypeOK, End
<1>5. \A n \in batch..End - 1 : ~Holds(n, key)
  BY <1>1, <1>3, <1>4
<1>6. batch' = (batch - 1) % U32
  BY DEF SearchMiss, Older
<1>7. batch' \in 0..U32 - 1
  BY <1>4, <1>6, CountDown
<1>8. TypeOK'
  BY <1>2, <1>7 DEF IndInv, TypeOK, SearchMiss, End, disk
<1>9. SearchAt'
  <2>0. UNCHANGED <<Stored, End, first, log, key>> /\ phase' = "search"
    BY DEF SearchMiss, Stored, End, disk
  <2>1. CASE batch = first
    BY <1>1, <1>4, <1>5, <1>6, <2>0, <2>1 DEF SearchAt, Stored, Holds
  <2>2. CASE batch # first
    <3>1. batch - 1 \in Stored /\ batch - 1 \in 0..U32 - 1
      BY <1>1, <1>4, <2>2, CountDown DEF Stored
    <3>2. batch' = batch - 1
      BY <1>6, <3>1, CountDown
    <3>3. \A n \in batch' + 1..End - 1 : ~Holds(n, key)
      BY <1>4, <1>5, <3>2
    <3> QED
      BY <1>1, <2>0, <3>1, <3>2, <3>3 DEF SearchAt, Holds
  <2> QED
    BY <2>1, <2>2
<1> QED
  BY <1>2, <1>8, <1>9 DEF IndInv, ProofAt, StoredIsFound, SearchMiss

LEMMA ProveStep ==
  ASSUME IndInv, Prove
  PROVE  IndInv'
<1>1. batch \in Stored /\ treeFor = log[batch + 1].keys
  BY Opened DEF IndInv, Prove
<1>2. OpenFilesStored'
  BY <1>1 DEF IndInv, OpenFilesStored, Prove, With, Stored, End, disk
<1>3. DOMAIN trees' \subseteq Nat
  BY DEF IndInv, TypeOK, Prove, With
<1>4. cert.seqno < Len(treeFor)
  <2>1. log[batch + 1].keys \in Seq(Keys)
    BY <1>1, IndexOfBatch, KeysOfBatch DEF IndInv
  <2>2. cert.seqno \in Nat /\ cert.seqno + 1 \in DOMAIN log[batch + 1].keys
    BY DEF IndInv, ProofAt, Prove
  <2> QED
    BY <1>1, <2>1, <2>2
<1>5. CASE IsClosed("tree") => Len(treeFor) = 1
  <2>1. phase' = "found" /\ UNCHANGED <<key, batch, cert, disk, indices, closed>>
    BY <1>4, <1>5 DEF Prove, Return
  <2>2. TypeOK' /\ IndexesRight'
    BY <1>3, <2>1 DEF IndInv, TypeOK, IndexesRight, End, disk
  <2>3. ProofAt'
    BY <2>1 DEF IndInv, ProofAt, Prove, Stored, End, Holds, disk
  <2> QED
    BY <1>2, <2>1, <2>2, <2>3 DEF IndInv, SearchAt, StoredIsFound
<1>6. CASE ~(IsClosed("tree") => Len(treeFor) = 1)
  <2>1. /\ phase' = "error" /\ cert' = Nil
        /\ UNCHANGED <<key, batch, disk, indices, closed>>
    BY <1>6 DEF Prove, Return
  <2>2. batch = first /\ ~Intact(first)
    BY <1>6 DEF IsClosed, Intact
  <2>3. \A n \in Stored : n # first => ~Holds(n, key)
    BY <2>2 DEF IndInv, ProofAt, Prove, Stored, TypeOK, End
  <2>4. DOMAIN indices' \subseteq Nat
    BY <2>1 DEF IndInv, TypeOK
  <2> QED
    BY <1>2, <1>3, <2>1, <2>2, <2>3, <2>4, NoCertificateStep
<1> QED
  BY <1>5, <1>6

LEMMA ProveErrorStep ==
  ASSUME IndInv, ProveError
  PROVE  IndInv'
<1>1. OpenFilesStored' /\ DOMAIN indices' \subseteq Nat /\ DOMAIN trees' \subseteq Nat
  BY DEF IndInv, TypeOK, OpenFilesStored, Stored, End, ProveError, disk, files
<1>2. batch = first /\ ~Intact(first)
  BY DEF IndInv, ProofAt, ProveError, CanOpen, OnDisk, Intact
<1>3. \A n \in Stored : n # first => ~Holds(n, key)
  BY <1>2 DEF IndInv, ProofAt, ProveError, Stored, TypeOK, End
<1> QED
  BY <1>1, <1>2, <1>3, NoCertificateStep DEF ProveError, Return, files

LEMMA StutterStep ==
  ASSUME IndInv, UNCHANGED vars
  PROVE  IndInv'
BY DEF vars, disk, files, call, IndInv, TypeOK, IndexesRight, OpenFilesStored,
       SearchAt, ProofAt, StoredIsFound, Intact, Stored, End, Holds

-----------------------------------------------------------------------------
(* The search never skips a batch and never reads a removed one, for any   *)
(* number of batches, contents, removals and calls (aaByKey, closeBatch).  *)
THEOREM Invariance == Spec => []IndInv
<1>1. IndInv /\ [Next]_vars => IndInv'
  BY PublishStep, CloseFirstFailsStep, RemoveStep, RemoveFailsStep, ReopenStep,
     CertificateForStep, SearchDoneStep, SearchErrorStep, SearchHitStep, SearchMissStep,
     ProveStep, ProveErrorStep, StutterStep
     DEF Next, Step, aaByKey
<1> QED
  BY Initially, <1>1, PTL DEF Spec

(* A certificate that CertificateFor returns is that of the newest batch   *)
(* on disk that has the assertion.                                         *)
THEOREM CertificatesAreRight == Spec => []CertificateRight
<1>1. IndInv => CertificateRight
  BY DEF IndInv, ProofAt, CertificateRight
<1> QED
  BY Invariance, <1>1, PTL

(* CertificateFor finds what is stored.                                    *)
THEOREM NothingMissed == Spec => []StoredIsFound
<1>1. IndInv => StoredIsFound
  BY DEF IndInv
<1> QED
  BY Invariance, <1>1, PTL

(* No file of a removed batch stays open (closeBatch).                     *)
THEOREM FilesAreClosed == Spec => []OpenFilesStored
<1>1. IndInv => OpenFilesStored
  BY DEF IndInv
<1> QED
  BY Invariance, <1>1, PTL
=============================================================================
