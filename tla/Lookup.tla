------------------------------- MODULE Lookup -------------------------------
(***************************************************************************)
(* Certificates for issued assertions: CertificateFor searches the batches *)
(* on disk for the key of an assertion, newest first, with the index and   *)
(* tree files that the handle keeps open from one call to the next.        *)
(*                                                                         *)
(* An assertion is abstracted to its key.  What Search finds in one index  *)
(* is that of module Index, the range of the batches on disk that of       *)
(* module Issuance (Contiguous, CacheFresh), and a certificate is the      *)
(* batch and sequence number that its proof is made of.  One handle at a   *)
(* time has the CA open (OneHandle): batches come and go between calls.    *)
(***************************************************************************)
EXTENDS Integers, Sequences, Functions

CONSTANTS
  Keys,        \* keys of assertions
  Contents,    \* keys that a batch may hold, by sequence number
  MaxBatches,  \* bound on the number of batches published
  U32,         \* modulus of a batch number's uint32 (2^32 in the code)
  Nil          \* no certificate

ASSUME LookupAssumption ==
  /\ Contents \subseteq Seq(Keys)
  /\ MaxBatches \in Nat
  /\ U32 \in Nat
  /\ MaxBatches < U32 - 1

VARIABLES
  log,      \* batches ever published: their keys, and their index file
  first,    \* number of the oldest batch on disk
  lost,     \* files an interrupted RemoveAll has taken from that batch
  indices,  \* open index files, by batch number
  trees,    \* open tree files, by batch number
  closed,   \* those of the oldest batch that are closed, but still there
  phase,    \* what CertificateFor does next, or what it returned last
  key,      \* the key looked for
  batch,    \* loop variable of aaByKey
  cert      \* the certificate returned, or the proof being made for it

disk  == <<log, first, lost>>
files == <<indices, trees, closed>>
call  == <<phase, key, batch, cert>>
vars == <<disk, files, call>>

Files == {"index", "tree"}

End == Len(log)

Stored == first..End - 1

(* An index file leads from every key to an assertion that has it.         *)
IndexFiles(keys) ==
  {f \in [Range(keys) -> DOMAIN keys] : \A k \in DOMAIN f : keys[f[k]] = k}

(* Whether a file of batch n can be opened.                                *)
OnDisk(n, file) == n \in Stored /\ ~(n = first /\ file \in lost)

Init ==
  /\ log = <<>> /\ first = 0 /\ lost = {}
  /\ indices = <<>> /\ trees = <<>> /\ closed = {}
  /\ phase = "idle" /\ key \in Keys /\ batch = 0 /\ cert = Nil

-----------------------------------------------------------------------------
(* Between calls of CertificateFor.                                        *)

IsIdle == phase \in {"idle", "found", "absent", "error"}

Idle == phase' = "idle" /\ cert' = Nil /\ UNCHANGED <<key, batch>>

(* issueBatch adds a batch.                                                *)
Publish(keys) ==
  /\ IsIdle
  /\ End < MaxBatches
  /\ \E f \in IndexFiles(keys) :
       log' = Append(log, [keys |-> keys, index |-> f])
  /\ Idle
  /\ UNCHANGED <<first, lost, files>>

\* Files of the batch stay open.
closeBatch_Keep(open, n) == open

(* The open files without those of the given batch.                        *)
closeBatch(open, n) == Restrict(open, DOMAIN open \ {n})

CloseFirst ==
  /\ indices' = closeBatch(indices, first)
  /\ trees' = closeBatch(trees, first)
  /\ closed' = {}

(* Close of a file may fail, once: it is closed then (mmap.ReaderAt), and  *)
(* a second Close returns nil.                                             *)
CloseFails(file, open) == first \in DOMAIN open /\ file \notin closed

(* closeBatch stops at the index, unless that is empty and has no reader,  *)
(* or at the tree when the index is closed: the file stays in its map, and *)
(* nothing is removed from the disk.                                       *)
CloseFirstFails ==
  /\ IsIdle
  /\ first + 1 < End
  /\ \/ /\ CloseFails("index", indices)
        /\ DOMAIN indices[first] # {}
        /\ closed' = closed \cup {"index"}
        /\ UNCHANGED indices
     \/ /\ CloseFails("tree", trees)
        /\ closed' = {"tree"}
        /\ indices' = closeBatch(indices, first)
  /\ Idle
  /\ UNCHANGED <<disk, trees>>

(* dropOldBatches removes the oldest batch, never the newest one.          *)
Remove ==
  /\ IsIdle
  /\ first + 1 < End
  /\ CloseFirst
  /\ first' = first + 1
  /\ lost' = {}
  /\ Idle
  /\ UNCHANGED log

(* RemoveAll stops half way: the directory is still there.                 *)
RemoveFails ==
  /\ IsIdle
  /\ first + 1 < End
  /\ CloseFirst
  /\ \E gone \in SUBSET Files : lost' = lost \cup gone
  /\ Idle
  /\ UNCHANGED <<log, first>>

(* Close, and Open by the next run of the program.                         *)
Reopen ==
  /\ IsIdle
  /\ indices' = <<>> /\ trees' = <<>> /\ closed' = {}
  /\ Idle
  /\ UNCHANGED disk

-----------------------------------------------------------------------------
(* CertificateFor and aaByKey.                                             *)

Return(answer) == phase' = answer /\ UNCHANGED <<key, batch>>

\* The search begins with the last but one batch.
StartBatch_Previous == (End - 2) % U32

StartBatch == (End - 1) % U32

CertificateFor(k) ==
  /\ IsIdle
  /\ key' = k
  /\ cert' = Nil
  /\ IF Stored = {}
     THEN phase' = "absent" /\ UNCHANGED batch
     ELSE phase' = "search" /\ batch' = StartBatch
  /\ UNCHANGED <<disk, files>>

(* The loop condition: at the end, batch has wrapped around.               *)
Continues == batch <= End

\* The number does not wrap around.
Older_Saturating == IF batch = 0 THEN 0 ELSE batch - 1

Older == (batch - 1) % U32

With(open, n, content) ==
  [m \in DOMAIN open \cup {n} |-> IF m = n THEN content ELSE open[m]]

(* The index of the batch, from the cache or else from the disk.           *)
indexFor == IF batch \in DOMAIN indices THEN indices[batch] ELSE log[batch + 1].index

CanOpen(open, file) == batch \in DOMAIN open \/ OnDisk(batch, file)

IsClosed(file) == batch = first /\ file \in closed

CanSearch == CanOpen(indices, "index") /\ ~IsClosed("index")

SearchDone ==
  /\ phase = "search"
  /\ ~Continues
  /\ Return("absent")
  /\ UNCHANGED <<disk, files, cert>>

(* The key is in the index of this batch: on to its tree.                  *)
SearchHit ==
  /\ phase = "search"
  /\ Continues
  /\ CanSearch
  /\ key \in DOMAIN indexFor
  /\ indices' = With(indices, batch, indexFor)
  /\ cert' = [batch |-> batch, seqno |-> indexFor[key] - 1]
  /\ phase' = "prove"
  /\ UNCHANGED <<disk, trees, closed, key, batch>>

SearchMiss ==
  /\ phase = "search"
  /\ Continues
  /\ CanSearch
  /\ key \notin DOMAIN indexFor
  /\ indices' = With(indices, batch, indexFor)
  /\ batch' = Older
  /\ UNCHANGED <<disk, trees, closed, phase, key, cert>>

SearchError ==
  /\ phase = "search"
  /\ Continues
  /\ ~CanSearch
  /\ Return("error")
  /\ UNCHANGED <<disk, files, cert>>

(* The nodes in the tree file are those of the keys of the batch.          *)
treeFor == IF batch \in DOMAIN trees THEN trees[batch] ELSE log[batch + 1].keys

(* AuthenticationPath makes the proof, for a number the tree has; it reads *)
(* no node if there is only one.                                           *)
Prove ==
  /\ phase = "prove"
  /\ CanOpen(trees, "tree")
  /\ trees' = With(trees, batch, treeFor)
  /\ IF cert.seqno < Len(treeFor) /\ (IsClosed("tree") => Len(treeFor) = 1)
     THEN Return("found") /\ UNCHANGED cert
     ELSE Return("error") /\ cert' = Nil
  /\ UNCHANGED <<disk, indices, closed>>

ProveError ==
  /\ phase = "prove"
  /\ ~CanOpen(trees, "tree")
  /\ Return("error")
  /\ cert' = Nil
  /\ UNCHANGED <<disk, files>>

aaByKey == SearchDone \/ SearchHit \/ SearchMiss \/ SearchError

Step == aaByKey \/ Prove \/ ProveError

Next ==
  \/ \E keys \in Contents : Publish(keys)
  \/ CloseFirstFails
  \/ Remove
  \/ RemoveFails
  \/ Reopen
  \/ \E k \in Keys : CertificateFor(k)
  \/ Step

Spec == Init /\ [][Next]_vars

(* A call that has begun goes on until it returns.                         *)
FairSpec == Spec /\ WF_vars(Step)

-----------------------------------------------------------------------------
(* Properties.                                                             *)

BatchFiles ==
  [keys : Contents, index : UNION {IndexFiles(keys) : keys \in Contents}]

(* Every variable has its type; the loop variable stays a uint32.          *)
TypeOK ==
  /\ log \in Seq(BatchFiles) /\ End <= MaxBatches
  /\ first \in Nat /\ (first < End \/ first = 0)
  /\ lost \subseteq Files /\ closed \subseteq Files
  /\ DOMAIN indices \subseteq Nat /\ DOMAIN trees \subseteq Nat
  /\ phase \in {"idle", "search", "prove", "found", "absent", "error"}
  /\ key \in Keys
  /\ batch \in 0..U32 - 1
  /\ cert \in [batch : Nat, seqno : Nat] \cup {Nil}

Holds(n, k) == k \in Range(log[n + 1].keys)

(* Every open file is that of a batch still on disk, with its contents:    *)
(* dropOldBatches closes what it removes, and keeps what it cannot close,  *)
(* so the files a handle has open are bounded by the storage window and    *)
(* never answer for a batch removed.                                       *)
OpenFilesStored ==
  /\ \A n \in DOMAIN indices : n \in Stored /\ indices[n] = log[n + 1].index
  /\ \A n \in DOMAIN trees : n \in Stored /\ trees[n] = log[n + 1].keys

(* A certificate names a batch on disk that has the assertion under that   *)
(* sequence number, and no newer batch has it: it is the one that expires  *)
(* last.                                                                   *)
CertificateRight ==
  phase = "found" =>
    /\ cert.batch \in Stored
    /\ cert.seqno + 1 \in DOMAIN log[cert.batch + 1].keys
    /\ log[cert.batch + 1].keys[cert.seqno + 1] = key
    /\ \A n \in cert.batch + 1..End - 1 : ~Holds(n, key)

(* A batch all of whose files can be read.                                 *)
Intact(n) == n = first => lost = {} /\ closed = {}

(* CertificateFor misses nothing: an assertion in a batch whose files are  *)
(* all there gets its certificate, whatever was removed, interrupted or    *)
(* kept open before.  Only the oldest batch can fail to be intact.         *)
StoredIsFound ==
  phase \in {"absent", "error"} => \A n \in Stored : Intact(n) => ~Holds(n, key)

(* Every call returns: counting down, batch wraps around and stops.        *)
Returns == phase \in {"search", "prove"} ~> IsIdle

-----------------------------------------------------------------------------
(* The inductive invariant behind these properties: how far the search is. *)

IndexesRight ==
  \A n \in DOMAIN log : log[n].index \in IndexFiles(log[n].keys)

(* The batches newer than the loop variable do not hold the key; if it has *)
(* left the batches on disk, it has done so at their older end.            *)
SearchAt ==
  phase = "search" =>
    /\ Stored # {}
    /\ \/ batch \in Stored /\ \A n \in batch + 1..End - 1 : ~Holds(n, key)
       \/ /\ batch = (first - 1) % U32
          /\ \A n \in Stored : ~Holds(n, key)

ProofAt ==
  phase \in {"prove", "found"} =>
    /\ cert \in [batch : Nat, seqno : Nat]
    /\ cert.batch = batch /\ batch \in Stored
    /\ cert.seqno + 1 \in DOMAIN log[batch + 1].keys
    /\ log[batch + 1].keys[cert.seqno + 1] = key
    /\ \A n \in batch + 1..End - 1 : ~Holds(n, key)

IndInv ==
  /\ TypeOK /\ IndexesRight /\ OpenFilesStored /\ SearchAt /\ ProofAt
  /\ StoredIsFound

-----------------------------------------------------------------------------
(* What an error message promises, and the code does not do.               *)

(* CertificateFor: a key on no batch is answered "no assertion with key    *)
(* ... on record", not with an I/O error.                                  *)
UnknownIsAbsent ==
  phase = "error" => ~Intact(first) \/ \E n \in Stored : Holds(n, key)
=============================================================================
