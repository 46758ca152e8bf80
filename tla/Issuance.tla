------------------------------ MODULE Issuance ------------------------------
(***************************************************************************)
(* The private state of a Merkle Tree CA (package ca): several runs of the *)
(* mtc command share one directory, guarded by a lock file.  A run opens a *)
(* handle, queues assertions or issues batches, and closes the handle; it  *)
(* may fail or be killed between any two steps that change the disk.       *)
(*                                                                         *)
(* A submission is one record that QueueMultiple was asked to write; two   *)
(* records are different submissions even if they certify the same thing.  *)
(* A tree head is abstracted to <<batch number, contents>>, that is, hashes*)
(* do not collide (the batch number is hashed into every node).            *)
(***************************************************************************)
EXTENDS CAParams, Sequences, FiniteSets, Functions

CONSTANTS
  Proc,         \* runs of the mtc command, identified by their pid
  Submissions,  \* assertions that callers queue
  Unreadable,   \* submissions that can be queued but not abridged again
  Garbled,      \* a torn record in the queue file
  Calls,        \* sequences of submissions a QueueMultiple call may carry
  Cron,         \* the run of "mtc ca issue" that is started again and again
  Outcomes,     \* sets of files that a pass of issueBatchTo may get right
  MaxTime,      \* last second considered
  MaxFaults,    \* bound on kills, I/O errors and clock steps
  Nil           \* no process, no symlink, nothing cached

Files == {"tree", "signed-validity-window", "abridged-assertions", "index"}

ASSUME IssuanceAssumption ==
  /\ Nil \notin Proc \cup Nat
  /\ Cron \in Proc
  /\ Unreadable \subseteq Submissions
  /\ Garbled \notin Submissions
  /\ Calls \subseteq Seq(Submissions)
  /\ Outcomes \subseteq SUBSET Files
  /\ Files \in Outcomes
  /\ \A o \in Outcomes : "signed-validity-window" \in o
  /\ MaxTime \in Nat
  /\ MaxFaults \in Nat

(* Batch numbers do not outgrow their uint32 in the time considered.       *)
ASSUME NoWrapAssumption ==
  \A t \in 0..MaxTime : t >= StartTime => CurrentNumber(t) < U32

VARIABLES
  now,     \* wall clock, in seconds
  \* The directory of the CA.
  queue,   \* records of the queue file
  latest,  \* batch number the symlink batches/latest names, or Nil
  dirs,    \* batches/<number>: function from the numbers that exist
  lock,    \* owner recorded in the lock file, or Nil
  \* Each run of mtc, and the handle it has open.
  pc,      \* what the run does next
  dt,      \* Issue: the time it took as its own
  cache,   \* batchNumbersCache: a set of numbers, or Nil
  cur,     \* loop variable of issue and dropOldBatches
  lim,     \* end of the range that loop runs over
  dir1,    \* result of the first pass of issueBatch
  dir2,    \* result of the second pass
  \* History, for the properties and the bounds.
  log,     \* contents of every batch ever published, in order
  first,   \* number of batches removed so far
  sent,    \* submissions some call tried to queue
  acked,   \* submissions whose call returned success
  hi,      \* latest time the clock has shown
  faults   \* kills, errors and clock steps so far

disk    == <<queue, latest, dirs>>
handle  == <<dt, cache, cur, lim, dir1, dir2>>
history == <<log, first>>
callers == <<sent, acked>>
clock   == <<now, hi>>
vars == <<clock, disk, lock, pc, handle, history, callers, faults>>

-----------------------------------------------------------------------------
(* Contents of the files.                                                  *)

(* Root of the Merkle tree over the assertions of batch n.                 *)
Root(n, aas) == <<n, aas>>

(* The heads before batch 0: the root of an empty batch 0, repeated.       *)
PreEpochRoots == [i \in 1..ValidityWindowSize |-> Root(0, <<>>)]

newTreeHeads(prevHeads, root) == Append(Tail(prevHeads), root)

\* Errors of WalkQueue are ignored.
Readable_Unchecked(q) == TRUE

(* WalkQueue with the callback of issueBatchTo gets through all records.   *)
Readable(q) == \A i \in DOMAIN q : q[i] \in Submissions \ Unreadable

(* listBatchNumbers: the cache if there is one, else the directories.      *)
listBatchNumbers(p) == IF cache[p] # Nil THEN cache[p] ELSE DOMAIN dirs

IsRange(S) == S = {} \/ \E b, e \in S : S = b..e

(* listBatchRange, for numbers without a gap.                              *)
RangeOf(S) ==
  IF S = {} THEN NoBatches
  ELSE [begin |-> CHOOSE b \in S : \A n \in S : b <= n,
        end   |-> 1 + CHOOSE e \in S : \A n \in S : n <= e]

-----------------------------------------------------------------------------
Init ==
  /\ now = 0 /\ hi = 0
  /\ queue = <<>> /\ latest = Nil /\ dirs = <<>>
  /\ lock = Nil
  /\ pc = [p \in Proc |-> "idle"]
  /\ dt = [p \in Proc |-> 0]
  /\ cache = [p \in Proc |-> Nil]
  /\ cur = [p \in Proc |-> 0]
  /\ lim = [p \in Proc |-> 0]
  /\ dir1 = [p \in Proc |-> Nil]
  /\ dir2 = [p \in Proc |-> Nil]
  /\ log = <<>> /\ first = 0
  /\ sent = {} /\ acked = {}
  /\ faults = 0

Goto(p, label) == pc' = [pc EXCEPT ![p] = label]

MayFail == faults < MaxFaults

(* The local variables of Issue go away.                                   *)
ForgetCall(p) ==
  /\ dt' = [dt EXCEPT ![p] = 0]
  /\ cur' = [cur EXCEPT ![p] = 0]
  /\ lim' = [lim EXCEPT ![p] = 0]
  /\ dir1' = [dir1 EXCEPT ![p] = Nil]
  /\ dir2' = [dir2 EXCEPT ![p] = Nil]

(* Issue returns to its caller.                                            *)
Return(p) == Goto(p, "open") /\ ForgetCall(p)

(* The run ends and its memory with it.                                    *)
Exit(p) ==
  /\ Goto(p, "idle")
  /\ ForgetCall(p)
  /\ cache' = [cache EXCEPT ![p] = Nil]

\* The lock file is taken over whoever holds it.
TryLock_Always == TRUE

(* The lock is free, or was left behind by a process that is gone.  That   *)
(* the package takes over such a lock in one step, and never one that      *)
(* another run has just taken over, is assumed.                            *)
TryLock == \A q \in Proc : lock = q => pc[q] = "idle"

Open(p) ==
  /\ pc[p] = "idle"
  /\ TryLock
  /\ lock' = p
  /\ Goto(p, "open")
  /\ UNCHANGED <<clock, disk, handle, history, callers, faults>>

Close(p) ==
  /\ pc[p] = "open"
  /\ lock' = Nil
  /\ Exit(p)
  /\ UNCHANGED <<clock, disk, history, callers, faults>>

(* The run is killed: the lock file stays.                                 *)
Crash(p) ==
  /\ pc[p] # "idle"
  /\ MayFail
  /\ faults' = faults + 1
  /\ Exit(p)
  /\ UNCHANGED <<clock, disk, lock, history, callers>>

-----------------------------------------------------------------------------
(* Queueing.  Each call brings submissions not seen before.                *)

IsFresh(as) == IsInjective(as) /\ Range(as) \cap sent = {}

QueueMultiple(p, as) ==
  /\ pc[p] = "open"
  /\ IsFresh(as)
  /\ queue' = queue \o as
  /\ sent' = sent \cup Range(as)
  /\ acked' = acked \cup Range(as)
  /\ UNCHANGED <<clock, latest, dirs, lock, pc, handle, history, faults>>

(* An error or a kill (this step, then Crash) stops the call: what bufio   *)
(* had flushed by then is on disk, the last record perhaps in part.        *)
QueueMultipleFails(p, as) ==
  /\ pc[p] = "open"
  /\ IsFresh(as)
  /\ MayFail
  /\ faults' = faults + 1
  /\ \E k \in 0..Len(as) - 1, torn \in {<<>>, <<Garbled>>} :
       queue' = queue \o SubSeq(as, 1, k) \o torn
  /\ sent' = sent \cup Range(as)
  /\ UNCHANGED <<clock, latest, dirs, lock, pc, handle, history, acked>>

-----------------------------------------------------------------------------
(* Issue: which batches to create.                                         *)

(* Batches that should still be there are missing, or batches exist that   *)
(* should not exist yet.                                                   *)
ClockDisagrees(existing, stored) ==
  \/ existing.begin > stored.begin
  \/ existing.end > stored.end

IssueRefuses(p) ==
  LET numbers == listBatchNumbers(p)
  IN \/ ~IsRange(numbers)
     \/ numbers # {} /\ ClockDisagrees(RangeOf(numbers), StoredBatches(now))

(* Issue creates the batches from here to the end of the stored ones.      *)
toCreateBegin(p) == RangeOf(listBatchNumbers(p)).end

IssueRefused(p) ==
  /\ pc[p] = "open"
  /\ IssueRefuses(p)
  /\ cache' = [cache EXCEPT ![p] = listBatchNumbers(p)]
  /\ UNCHANGED <<clock, disk, lock, pc, dt, cur, lim, dir1, dir2, history,
                 callers, faults>>

(* No batch is ready: straight on to dropOldBatches.                       *)
IssueNothing(p) ==
  /\ pc[p] = "open"
  /\ ~IssueRefuses(p)
  /\ toCreateBegin(p) = StoredBatches(now).end
  /\ dt' = [dt EXCEPT ![p] = now]
  /\ cache' = [cache EXCEPT ![p] = listBatchNumbers(p)]
  /\ Goto(p, "dropOld")
  /\ UNCHANGED <<clock, disk, lock, cur, lim, dir1, dir2, history, callers,
                 faults>>

IssueStart(p) ==
  /\ pc[p] = "open"
  /\ ~IssueRefuses(p)
  /\ toCreateBegin(p) # StoredBatches(now).end
  /\ dt' = [dt EXCEPT ![p] = now]
  /\ cache' = [cache EXCEPT ![p] = listBatchNumbers(p)]
  /\ cur' = [cur EXCEPT ![p] = toCreateBegin(p)]
  /\ lim' = [lim EXCEPT ![p] = StoredBatches(now).end]
  /\ Goto(p, "make1")
  /\ UNCHANGED <<clock, disk, lock, dir1, dir2, history, callers, faults>>

-----------------------------------------------------------------------------
(* issueBatch: one batch, made twice, published, and the queue drained.    *)

\* The last batch of the range does not drain the queue either.
Empty_Always(p) == cur[p] <= lim[p] - 1

(* All batches of the range but the last are issued empty.                 *)
Empty(p) == cur[p] < lim[p] - 1

(* issueBatchTo can read what it needs.                                    *)
CanIssueBatch(p) ==
  /\ cur[p] # 0 => /\ cur[p] - 1 \in DOMAIN dirs
                   /\ "signed-validity-window" \in dirs[cur[p] - 1].files
  /\ ~Empty(p) => Readable(queue)

\* The previous window is looked up through the latest symlink.
prevHeads_Latest(p) ==
  IF latest \in DOMAIN dirs THEN dirs[latest].heads ELSE PreEpochRoots

prevHeads(p) == IF cur[p] = 0 THEN PreEpochRoots ELSE dirs[cur[p] - 1].heads

Contents(p) == IF Empty(p) THEN <<>> ELSE queue

(* The directory a pass writes, with the given files as they should be.    *)
issueBatchTo(p, outcome) ==
  [aas   |-> Contents(p),
   heads |-> newTreeHeads(prevHeads(p), Root(cur[p], Contents(p))),
   files |-> outcome]

MakeFirst(p) ==
  /\ pc[p] = "make1"
  /\ CanIssueBatch(p)
  /\ \E o \in Outcomes : dir1' = [dir1 EXCEPT ![p] = issueBatchTo(p, o)]
  /\ Goto(p, "make2")
  /\ UNCHANGED <<clock, disk, lock, dt, cache, cur, lim, dir2, history,
                 callers, faults>>

MakeSecond(p) ==
  /\ pc[p] = "make2"
  /\ CanIssueBatch(p)
  /\ \E o \in Outcomes : dir2' = [dir2 EXCEPT ![p] = issueBatchTo(p, o)]
  /\ Goto(p, "publish")
  /\ UNCHANGED <<clock, disk, lock, dt, cache, cur, lim, dir1, history,
                 callers, faults>>

\* The list of batches is not invalidated.
PublishCache_Keep(p) == cache

PublishCache(p) == [cache EXCEPT ![p] = Nil]

\* An empty batch truncates the queue too.
AfterPublish_Always(p) == "dropQueue"

(* Only a batch that drained the queue truncates it.                       *)
AfterPublish(p) == IF Empty(p) THEN "updateLatest" ELSE "dropQueue"

(* The files of the two passes are the same.                               *)
assertFilesEqual(p) == dir1[p] = dir2[p]

(* The verdict of assertFilesEqual is replaced by that of Rename before    *)
(* anything looks at it, so that it does not guard this step.              *)
Publish(p) ==
  /\ pc[p] = "publish"
  /\ cur[p] \notin DOMAIN dirs
  /\ cache' = PublishCache(p)
  /\ dirs' = [n \in DOMAIN dirs \cup {cur[p]} |->
                IF n = cur[p] THEN dir1[p] ELSE dirs[n]]
  /\ log' = Append(log, dir1[p].aas)
  /\ dir1' = [dir1 EXCEPT ![p] = Nil]
  /\ dir2' = [dir2 EXCEPT ![p] = Nil]
  /\ Goto(p, AfterPublish(p))
  /\ UNCHANGED <<clock, queue, latest, lock, dt, cur, lim, first, callers,
                 faults>>

\* The queue is not truncated.
dropQueue_Keep == queue

dropQueue == <<>>

DropQueue(p) ==
  /\ pc[p] = "dropQueue"
  /\ queue' = dropQueue
  /\ Goto(p, "updateLatest")
  /\ UNCHANGED <<clock, latest, dirs, lock, handle, history, callers, faults>>

\* Only a batch that drained the queue moves the symlink.
updateLatest_NotEmpty(p) == IF Empty(p) THEN latest ELSE cur[p]

updateLatest(p) == cur[p]

(* The end of issueBatch, and on to the next batch of the range.           *)
UpdateLatest(p) ==
  /\ pc[p] = "updateLatest"
  /\ latest' = updateLatest(p)
  /\ cur' = [cur EXCEPT ![p] = @ + 1]
  /\ Goto(p, IF cur[p] + 1 < lim[p] THEN "make1" ELSE "dropOld")
  /\ UNCHANGED <<clock, queue, dirs, lock, dt, cache, lim, dir1, dir2, history,
                 callers, faults>>

-----------------------------------------------------------------------------
(* dropOldBatches.                                                         *)

(* It gives up when the numbers have a gap, or when every batch is older   *)
(* than the stored ones: "would delete all existing batches".              *)
DropRefuses(p) ==
  LET numbers == listBatchNumbers(p)
  IN /\ numbers # {}
     /\ \/ ~IsRange(numbers)
        \/ AreAllPast(StoredBatches(dt[p]), RangeOf(numbers).end - 1)

NothingToDrop(p) ==
  /\ pc[p] = "dropOld"
  /\ listBatchNumbers(p) = {}
  /\ cache' = [cache EXCEPT ![p] = {}]
  /\ Return(p)
  /\ UNCHANGED <<clock, disk, lock, history, callers, faults>>

StartDrop(p) ==
  /\ pc[p] = "dropOld"
  /\ listBatchNumbers(p) # {}
  /\ ~DropRefuses(p)
  /\ cache' = [cache EXCEPT ![p] = Nil]
  /\ cur' = [cur EXCEPT ![p] = RangeOf(listBatchNumbers(p)).begin]
  /\ lim' = [lim EXCEPT ![p] = RangeOf(listBatchNumbers(p)).end]
  /\ Goto(p, "remove")
  /\ UNCHANGED <<clock, disk, lock, dt, dir1, dir2, history, callers, faults>>

\* Every batch of the range is taken for old.
IsOld_Always(p) == cur[p] < lim[p]

\* Batches are removed as soon as they have expired.
IsOld_Active(p) == cur[p] < lim[p] /\ AreAllPast(ActiveBatches(dt[p]), cur[p])

IsOld(p) == cur[p] < lim[p] /\ AreAllPast(StoredBatches(dt[p]), cur[p])

Remove(p) ==
  /\ pc[p] = "remove"
  /\ IsOld(p)
  /\ dirs' = Restrict(dirs, DOMAIN dirs \ {cur[p]})
  /\ first' = cur[p] + 1
  /\ cur' = [cur EXCEPT ![p] = @ + 1]
  /\ UNCHANGED <<clock, queue, latest, lock, pc, dt, cache, lim, dir1, dir2,
                 log, callers, faults>>

\* The loop goes on after an error of RemoveAll.
RemoveFails_Ignored(p) ==
  /\ pc[p] = "remove"
  /\ IsOld(p)
  /\ MayFail
  /\ faults' = faults + 1
  /\ cur' = [cur EXCEPT ![p] = @ + 1]
  /\ UNCHANGED <<clock, disk, lock, pc, dt, cache, lim, dir1, dir2, history,
                 callers>>

(* RemoveAll stops with some of the files gone.                            *)
RemoveFails(p) ==
  /\ pc[p] = "remove"
  /\ IsOld(p)
  /\ MayFail
  /\ faults' = faults + 1
  /\ \E left \in SUBSET dirs[cur[p]].files :
       dirs' = [dirs EXCEPT ![cur[p]].files = left]
  /\ Return(p)
  /\ UNCHANGED <<clock, queue, latest, lock, cache, history, callers>>

(* Issue returns success.                                                  *)
RemoveDone(p) ==
  /\ pc[p] = "remove"
  /\ ~IsOld(p)
  /\ Return(p)
  /\ UNCHANGED <<clock, disk, lock, cache, history, callers, faults>>

-----------------------------------------------------------------------------
(* An error ends Issue early; the handle stays usable.                     *)

(* An I/O error where the next step would have worked.                     *)
StepFails(p) ==
  /\ pc[p] \in {"make1", "make2", "publish", "dropQueue", "updateLatest",
                "dropOld"}
  /\ MayFail
  /\ faults' = faults + 1
  /\ cache' = IF pc[p] = "publish" THEN PublishCache(p) ELSE cache
  /\ Return(p)
  /\ UNCHANGED <<clock, disk, lock, history, callers>>

(* The previous window or the queue cannot be read, the directory to       *)
(* publish is in use, or dropOldBatches refuses; no fault is needed for    *)
(* that.  A panic in Abridge comes here too: the deferred calls clean up   *)
(* and close the handle.                                                   *)
StepRefused(p) ==
  /\ \/ pc[p] \in {"make1", "make2"} /\ ~CanIssueBatch(p)
     \/ pc[p] = "publish" /\ cur[p] \in DOMAIN dirs
     \/ pc[p] = "dropOld" /\ DropRefuses(p)
  /\ cache' = CASE pc[p] = "publish" -> PublishCache(p)
                [] pc[p] = "dropOld" -> [cache EXCEPT ![p] = listBatchNumbers(p)]
                [] OTHER -> cache
  /\ Return(p)
  /\ UNCHANGED <<clock, disk, lock, history, callers, faults>>

-----------------------------------------------------------------------------
Tick ==
  /\ now < MaxTime
  /\ now' = now + 1
  /\ hi' = IF now' > hi THEN now' ELSE hi
  /\ UNCHANGED <<disk, lock, pc, handle, history, callers, faults>>

(* Somebody sets the clock back.                                           *)
ClockBack ==
  /\ MayFail
  /\ faults' = faults + 1
  /\ now' \in 0..now - 1
  /\ UNCHANGED <<hi, disk, lock, pc, handle, history, callers>>

Queueing(p) ==
  \E as \in Calls : QueueMultiple(p, as) \/ QueueMultipleFails(p, as)

Issue(p) == IssueRefused(p) \/ IssueNothing(p) \/ IssueStart(p)

(* The steps that a run takes once it is inside Issue.                     *)
IssueStep(p) ==
  \/ MakeFirst(p) \/ MakeSecond(p) \/ Publish(p) \/ DropQueue(p)
  \/ UpdateLatest(p) \/ NothingToDrop(p) \/ StartDrop(p) \/ Remove(p)
  \/ RemoveDone(p) \/ StepRefused(p)

Fault(p) == Crash(p) \/ StepFails(p) \/ RemoveFails(p)

Next ==
  \/ \E p \in Proc : Open(p) \/ Close(p) \/ Queueing(p) \/ Issue(p)
                     \/ IssueStep(p) \/ Fault(p)
  \/ Tick
  \/ ClockBack

Spec == Init /\ [][Next]_vars

(* A run that is inside Issue goes on, every run closes its handle in the  *)
(* end (the deferred Close), time passes, and the cron job gets the lock   *)
(* and calls Issue over and over.                                          *)
Fairness ==
  /\ \A p \in Proc : WF_vars(IssueStep(p)) /\ SF_vars(Close(p))
  /\ SF_vars(Open(Cron))
  /\ SF_vars(Issue(Cron))
  /\ WF_vars(Tick)

FairSpec == Spec /\ Fairness

-----------------------------------------------------------------------------
(* Properties.                                                             *)

Published == UNION {Range(log[i]) : i \in DOMAIN log}

Newest == Len(log) - 1

Heads == [1..ValidityWindowSize -> Nat \X Seq(Submissions)]

Batches == [aas : Seq(Submissions), heads : Heads, files : SUBSET Files]

Labels == {"idle", "open", "make1", "make2", "publish", "dropQueue",
           "updateLatest", "dropOld", "remove"}

ClockType ==
  now \in 0..MaxTime /\ hi \in 0..MaxTime /\ faults \in 0..MaxFaults

DiskType ==
  /\ queue \in Seq(Submissions \cup {Garbled})
  /\ latest \in Nat \cup {Nil}
  /\ dirs \in [DOMAIN dirs -> Batches] /\ DOMAIN dirs \subseteq Nat
  /\ lock \in Proc \cup {Nil}

HandleType ==
  /\ pc \in [Proc -> Labels]
  /\ dt \in [Proc -> 0..MaxTime]
  /\ cache \in [Proc -> (SUBSET Nat) \cup {Nil}]
  /\ cur \in [Proc -> Nat] /\ lim \in [Proc -> Nat]
  /\ dir1 \in [Proc -> Batches \cup {Nil}]
  /\ dir2 \in [Proc -> Batches \cup {Nil}]

HistoryType ==
  /\ log \in Seq(Seq(Submissions)) /\ first \in Nat
  /\ sent \subseteq Submissions /\ acked \subseteq sent

(* Every variable has the type its declaration names; in particular, what  *)
(* is published never holds a torn record.                                 *)
TypeOK == ClockType /\ DiskType /\ HandleType /\ HistoryType

(* Only one run has the CA open, also when a lock left by a killed run is  *)
(* taken over (TryLock).                                                   *)
OneHandle ==
  \A p, q \in Proc : pc[p] # "idle" /\ pc[q] # "idle" => p = q

(* The batches on disk are the newest ones, without a gap: listBatchRange  *)
(* never reports "Missing batches", whatever was interrupted before.       *)
Contiguous == DOMAIN dirs = first..Newest

(* The tree head of batch n; before the epoch, that of an empty batch 0.   *)
HeadOf(n) == IF n < 0 THEN Root(0, <<>>) ELSE Root(n, log[n + 1])

(* The validity window stored with batch n holds the heads of n and of the *)
(* ValidityWindowSize - 1 batches published before it, in that order, even *)
(* when those were issued by other runs, before a crash, or are no longer  *)
(* on disk; and the batch holds what was published.                        *)
WindowChain ==
  \A n \in DOMAIN dirs :
    /\ dirs[n].aas = log[n + 1]
    /\ dirs[n].heads =
         [i \in 1..ValidityWindowSize |-> HeadOf(n - ValidityWindowSize + i)]

(* A submission whose QueueMultiple returned success is in the queue until *)
(* it is in a published batch: dropQueue drops only what was issued.       *)
NoLostSubmission == acked \subseteq Range(queue) \cup Published

Occurrences(s) == {i \in DOMAIN log : s \in Range(log[i])}

(* Without a fault a submission is issued once; each fault, which may hit  *)
(* between the Rename and dropQueue, repeats it at most once more.         *)
DuplicateBound == \A s \in Submissions : Cardinality(Occurrences(s)) <= 1 + faults

(* Whenever a handle has batchNumbersCache set, it lists the directories   *)
(* that exist.                                                             *)
CacheFresh == \A p \in Proc : cache[p] # Nil => cache[p] = DOMAIN dirs

(* Every published batch of the storage window, for the latest time anyone *)
(* can have seen, is still there with the files it was published with.     *)
RetainedWindow ==
  \A n \in StoredBatches(hi).begin..Newest :
    n \in DOMAIN dirs /\ dirs[n].files \in Outcomes

(* The window of the newest batch is there, however old it is and whatever *)
(* went wrong, so that the next batch can be chained to it: the state the  *)
(* comment in dropOldBatches says is hard to recover from is not reached.  *)
CanContinue ==
  log # <<>> => /\ Newest \in DOMAIN dirs
                /\ "signed-validity-window" \in dirs[Newest].files

(* No batch is published before its period is over, by the latest time the *)
(* clock has shown: whoever reads it can no longer be late for it.         *)
NotEarly == log # <<>> => StartTime + BatchDuration * Len(log) <= hi

(* How many batches the latest symlink is behind.                          *)
Lag == Newest - (IF latest = Nil THEN -1 ELSE latest)

(* The latest symlink lags the newest batch by at most the batch that is   *)
(* being issued, and one more for each fault, which may hit between the    *)
(* Rename and updateLatest.                                                *)
LatestLag == Lag <= 1 + faults

IssueSucceeds(p) ==
  /\ pc[p] \in {"dropOld", "remove"}
  /\ pc'[p] = "open"
  /\ faults' = faults

(* When Issue returns success, the batches on disk are exactly the ones of *)
(* the storage window at the time it started.                              *)
IssueComplete ==
  [][\A p \in Proc : IssueSucceeds(p) =>
       LET stored == StoredBatches(dt[p])
       IN DOMAIN dirs' = stored.begin..stored.end - 1]_vars

(* Issuance implements the abstract log of batches.                        *)
Abstract == INSTANCE BatchLog WITH pending <- Range(queue) \ {Garbled}
ImplementsBatchLog == Abstract!Spec

(* A batch is still to come before the last second considered.             *)
MoreToCome == Len(log) < CurrentNumber(MaxTime)

(* As long as the queue stays readable, what is in it gets published: no   *)
(* crash, stale lock or stepped clock stops issuance for good.             *)
QueuedIsIssued ==
  \A s \in Submissions :
    (s \in Range(queue) /\ Readable(queue) /\ MoreToCome)
      ~> (s \in Published \/ ~Readable(queue))

-----------------------------------------------------------------------------
(* The inductive invariant behind these properties: what a run knows       *)
(* between its steps because it holds the lock.                            *)

(* A run with an open handle owns the lock file, a run without one has     *)
(* nothing cached.                                                         *)
Owner ==
  \A p \in Proc : /\ pc[p] # "idle" => lock = p
                  /\ pc[p] = "idle" => cache[p] = Nil

(* The stored batches reach up to the newest one, which is never removed.  *)
StoredTail ==
  /\ Contiguous
  /\ first < Len(log) \/ (first = 0 /\ log = <<>>)

(* Where the loops of issue and dropOldBatches are.                        *)
LoopAt(p) ==
  /\ pc[p] \in {"make1", "make2", "publish"} =>
       cur[p] = Len(log) /\ cur[p] < lim[p]
  /\ pc[p] \in {"dropQueue", "updateLatest"} =>
       cur[p] = Newest /\ cur[p] < lim[p]
  /\ pc[p] \in {"make1", "make2", "publish", "dropQueue", "updateLatest"} =>
       lim[p] = StoredBatches(dt[p]).end
  /\ pc[p] \notin {"idle", "open"} => first <= StoredBatches(dt[p]).begin
  /\ pc[p] \in {"dropOld", "remove"} => Len(log) = StoredBatches(dt[p]).end
  /\ pc[p] = "remove" =>
       /\ cur[p] = first
       /\ lim[p] = Len(log)
       /\ first < Len(log)
       /\ cache[p] = Nil
       /\ ~AreAllPast(StoredBatches(dt[p]), Newest)

LoopPosition == \A p \in Proc : LoopAt(p)

(* What the first pass wrote is still right when it is published.          *)
PassAt(p) ==
  pc[p] \in {"make2", "publish"} =>
    /\ dir1[p] \in Batches
    /\ dir1[p].files \in Outcomes
    /\ dir1[p].aas = Contents(p)
    /\ dir1[p].heads =
         [i \in 1..ValidityWindowSize |->
            IF i < ValidityWindowSize
            THEN HeadOf(cur[p] - ValidityWindowSize + i)
            ELSE Root(cur[p], Contents(p))]

PassResult == \A p \in Proc : PassAt(p)

(* dropQueue truncates what the newest batch holds.                        *)
QueueIssued == \A p \in Proc : pc[p] = "dropQueue" => queue = log[Len(log)]

(* The newest batch is one of those that were ready.                       *)
NewestReady == Newest < StoredBatches(hi).end

(* The clock has shown every time a run acts on.                           *)
ClockSeen == now <= hi /\ \A p \in Proc : dt[p] <= hi

IndInv ==
  /\ TypeOK /\ Owner /\ StoredTail /\ CacheFresh /\ LoopPosition /\ PassResult
  /\ QueueIssued /\ ClockSeen /\ WindowChain /\ NoLostSubmission
  /\ NewestReady /\ RetainedWindow /\ CanContinue

(* Some run is between the Rename and the end of the given steps.          *)
IsAt(labels) == \E p \in Proc : pc[p] \in labels

(* What is queued has been issued once per fault, or once more when the    *)
(* batch with it is out and the queue is about to be truncated; nothing is *)
(* queued or issued before a call brings it.                               *)
RepeatsCounted ==
  \A s \in Submissions :
    /\ Cardinality(Occurrences(s)) <= 1 + faults
    /\ s \in Range(queue) /\ ~IsAt({"dropQueue"}) =>
         Cardinality(Occurrences(s)) <= faults
    /\ s \notin sent => Occurrences(s) = {} /\ s \notin Range(queue)

(* The symlink is behind by the faults, and by one batch while it is out   *)
(* and the symlink has not moved yet.                                      *)
LagCounted ==
  /\ Lag <= 1 + faults
  /\ ~IsAt({"dropQueue", "updateLatest"}) => Lag <= faults

-----------------------------------------------------------------------------
(* What comments and documentation say, and the code does not do.          *)

(* ca.go, issueBatch: "We perform issuance twice, and compare results."    *)
PassesAgree ==
  [][\A p \in Proc : pc[p] = "publish" /\ log' # log => assertFilesEqual(p)]_vars

(* ca.go, Issue: "Issue queued assertions into new batch."                 *)
EveryQueuedIssued ==
  \A s \in Submissions \ Unreadable :
    (s \in acked /\ MoreToCome) ~> s \in Published
=============================================================================
