# A verification of the Merkle Tree CA

This directory models the core of this repository, an implementation of Merkle
Tree Certificates: a CA that queues assertions, issues them in batches, keeps the
batches for a while, and hands out inclusion proofs as certificates. The models
are TLA+ modules; TLC checks them on small instances, and TLAPS proves the
properties that matter most for all instances.

Line numbers below are those of the files in `src/`; `PROJECT.json` maps every
definition to its lines.

## 1. The system

| Part | Where | State | Operations |
|---|---|---|---|
| Issuance | `ca/ca.go` | a directory: `queue`, `batches/<n>`, the symlink `latest`, the lock file; per handle `batchNumbersCache` | `Open`, `Close`, `Queue`, `QueueMultiple`, `Issue` (`issue`, `issueBatch`, `issueBatchTo`, `updateLatest`, `dropOldBatches`) |
| CA parameters | `mtc.go` | none (constants of a CA) | `StoredBatches`, `ActiveBatches`, `BatchRange`, `Validate`, `NextBatchAt` |
| Index | `ca/index.go` | the index file of a batch | `ComputeIndex`, `OpenIndex`, `Search` |
| Merkle tree | `mtc.go`, `ca/tree.go` | the tree, in memory or in a file | `ComputeTree`, `WriteTo`, `AuthenticationPath` (twice), `VerifyAuthenticationPath` |
| Certificates | `ca/ca.go` | per handle, the index and tree files it has open | `CertificateFor`, `aaByKey`, `indexFor`, `treeFor`, `closeBatch` |
| Creation | `ca/ca.go` | the directory: `signing.key`, `ca-params`, `queue`, `batches`, `tmp` | `New`, the reading of files in `Open` |
| Assertions | `mtc.go`, `ca/ca.go`, `cmd/mtc/main.go` | assertion files, the length-prefixed and checksummed records of `queue` | `MarshalBinary`, `UnmarshalBinary` of `Claims`, `Assertion`, `AbridgedAssertion`, `QueuedAssertion`; `Abridge`, `Key`, `Check`, `WalkQueue` |
| Stream decoder | `utils.go` | a buffer that is refilled | `unmarshal` |
| Wire formats of the rest | `mtc.go` | none | `MarshalBinary`, `UnmarshalBinary` of parameters, windows, certificates |
| Signatures | `signature.go` | none | key generation, sign, verify |
| Command line | `cmd/mtc/main.go` | none | one `Open`, one operation, a deferred `Close` per run |
| HTTP front end | `server/server.go` | files named after requests | starts `mtc` |

**How they interact.** Every run of `mtc` opens the CA directory under an
exclusive lock, does one thing and closes it. `Issue` reads the clock once, works
out which batches are due (`StoredBatches`), makes each one *twice* in temporary
directories (drain the queue, `ComputeTree`, `ComputeIndex`, sign the window that
continues the previous batch's), renames the first into place, truncates the
queue, moves `latest`, and at the end removes the batches that have left the
storage window. `CertificateFor` looks for the key of an assertion in the index
files, newest batch first, and reads its authentication path from the tree file.
An assertion is encoded and decoded again at each station: `new-assertion` writes it
to a file and prints a checksum, `ca queue` reads that file and appends a record to the
queue, `Issue` reads the record, abridges the assertion and appends it to the batch,
`unmarshal` decodes the batch for the tree and again for the index, and `ca cert`
computes the key once more from what it is given.

**What is hard.** There are no threads. The difficulties are several processes
on one directory, a process that dies between two system calls that belong
together (rename, truncate, symlink, remove), a queue that is read and truncated
in different steps, a clock that stops, jumps or is set back, values cached in a
handle from one call to the next, encodings that have to be inverse to each other, and
arithmetic at boundaries (batch ranges, interpolation, odd levels of a tree, a buffer
that is just full, 16-bit lengths). `PROJECT.json` lists them under `hazards`,
each at its line.

**What makes each part correct.**

- Issuance: one handle at a time; nothing acknowledged is lost; a submission is
  issued once unless a fault repeats it; the batches on disk are contiguous, are
  those of the storage window after a successful `Issue`, never early and never
  removed too soon; each validity window continues the one before it; issuance
  can always go on.
- Index: exact for every batch; the search is right, stays inside the file and
  returns.
- Merkle tree: what the definition says; honest proofs verify and nothing else.
- Certificates: the newest batch that has the assertion; none is missed.
- Creation: a directory that can be opened is complete and consistent, and stays so.
- Assertions: what is accepted can be issued, and is found again by whoever has the
  assertion, the checksum or the certificate.
- Stream decoder: every record once, in order, at its offset; errors only for what is
  wrong; it returns.

## 2. The modules

| Module | Models | Size |
|---|---|---|
| `CAParams` | parameters, time to batch numbers | constants only |
| `BatchLog` | what issuance promises: pending submissions, a log of batches that only grows at its end, a stored tail that only shrinks at its beginning | abstract |
| `Issuance` (extends `CAParams`, instantiates `BatchLog`) | the CA directory and the runs of `mtc` that share it | concrete |
| `Index` | `ComputeIndex` and `Search` | concrete |
| `MerkleTree` | `ComputeTree`, both `AuthenticationPath`, verification; the tree as a recursive definition (`Subtree`) | concrete |
| `Lookup` | `CertificateFor` over the batches on disk; uses the results of `Index` and `Issuance` as its premises | concrete |
| `Decoder` | `unmarshal`, which `hashLeaves`, `ComputeIndex` and the inspection of a batch read through; `Index` and `MerkleTree` take what it delivers as their input | concrete |
| `Assertions` | the path of an assertion through the codecs and the queue; it says which submissions `Issuance` calls `Unreadable` | concrete |
| `Creation` (instantiates `CAParams`) | `New` and `Open`; `Issuance` starts in the state `New` leaves | concrete |
| `MCIssuance`, `MCIndex`, `MCMerkleTree`, `MCLookup`, `MCDecoder`, `MCAssertions`, `MCCreation` | constants for TLC | |
| `IssuanceProofs` (with the refinement), `IndexProofs`, `MerkleTreeProofs`, `LookupProofs`, `DecoderProofs`, `AssertionsProofs`, `CreationProofs` | theorems | |
| `Recursion` | induction and recursion over numbers, for the proofs | lemmas |

Definitions named `Name_Variant`, next to the definition `Name`, are plausible
mistakes in it. Each property is checked to fail under one of them (`mutants` in
`PROJECT.json`); nothing else uses them.

### Issuance

`pc[p]` says where run `p` is: `idle` (no handle), `open`, or inside `Issue` at
one of `make1`, `make2` (the two calls of `issueBatchTo`), `publish` (the rename),
`dropQueue`, `updateLatest`, `dropOld`, `remove`. Each step between two of these
changes the disk at most once, so that `Crash` can come between any two changes.
`dt`, `cache`, `cur`, `lim`, `dir1`, `dir2` are the Go variables of the same role.
`Issue` without anything to do, and its refusals ("Missing batches", "should not
exist yet"), are actions of their own.

- `queue` is a sequence of submissions. `QueueMultipleFails` leaves a prefix of
  the call, perhaps with half a record (`Garbled`), as `bufio` would;
  `Unreadable` submissions are those that are written without complaint but
  rejected, or panic, when `WalkQueue`'s callback reads them back.
- `dirs[n]` holds the assertions of the batch, its window of heads and the set of
  files that are there and right. A head is `<<batch, contents>>`: SHA-256 does
  not collide.
- `Outcomes` says which files a pass may get right. It is all of them, except in
  the run about the two passes, where a pass may write a wrong tree.
- `TryLock` is the external `lockfile` package: it succeeds if there is no lock or
  the recorded process is gone. Taking over a lock that a killed run left is assumed
  to be one step: that two runs which find it at the same time do not both end up with
  it is the package's business, and `OneHandle` and all that rests on it depend on that.
  A reused process id is not considered.
- A panic in `Issue` ends the run through its deferred calls; here the call ends
  (`StepRefused`) and the run closes.
- `log`, `first`, `sent`, `acked`, `hi` and `faults` are history.

### Index, MerkleTree, Lookup

`Index` runs through one batch: read, sort (any order of equal keys), write, then
any number of searches; an empty file has no reader (`HasReader`). Keys are numbers,
which is what `Search` makes of hashes.
The key 0 is never written, because `lastKey` starts with it; the properties say
so.

`MerkleTree` builds level by level into one buffer as the code does. The two
`AuthenticationPath` functions differ in a header in front of the nodes, and are
one action with the length of the header as a parameter. Hashes are terms, with
tag, index and level; issuer and batch number are constant within a batch. A level is
a `uint8` and wraps around at `U8`, which a long path makes it do. A tree file is opened
only if it has the size that its header says (`OpenTree`). A verifier is given any index,
any assertion and any path in `Presented`, a constant operator of which nothing is assumed,
not even that its members are sequences; what TLC presents is listed in section 3.

`Lookup` has one handle and lets batches come and go between calls, as `OneHandle`
allows. `indices` and `trees` map batch numbers to what the files contained when
they were opened, as a memory map does. `batch` is a `uint32` and wraps around.
When `closeBatch` cannot close a file (`CloseFirstFails`), the file is `closed` but stays
in its map, and the batch on disk, until `dropOldBatches` comes again: a second `Close`
of the memory map returns nil. Until then the index of that batch cannot be searched, and
its tree gives no path but the empty one of a single leaf. The map `aas` of a handle is
never filled by the code and is left out, and files of a batch can be missing only after
an interrupted `RemoveAll`; other read errors are not considered.

### Decoder, Assertions, Creation

`Decoder` represents a byte by its position in the stream, so that the contents of the
buffer show whether a byte was lost, repeated or moved. `from` and `len` say where the
Go slice `s` lies in `buf`; the code's comparison of two capacities is `from # 0`. A
read returns as many bytes as fit, like that of a file (`full`), or any positive
number, and a reader that `idles` may return none, without an error, while there are more
to come. A record is well-formed, refused, or refused with `ErrTruncated` although it is
complete, which a TLS subject that is too short does (`mtc.go:929`). The one `msg` that is
decoded into again and again is not modelled: no callback keeps it.

`Assertions` has claims as the code has them, one list per type, with names as sequences
of labels and addresses as numbers. The wire is a sequence of typed claims, with a
length, since lengths of 16 bits are checked in some places and truncated in another.
The checks are those of the code, including the ones that do not look at the first
claim and the first address, and the branch that reads wildcards into ENS. A checksum is
the bytes it is made of; `--checksum`, with flags or with a file, is absent or what
`new-assertion` printed last. `asked` is history: what the caller meant by each record.
`--debug-repeat` and an invalid hexadecimal `--checksum` (whose error is discarded at
`main.go:135`) are left out. Who writes assertion files by other means than
`new-assertion` is `ReceiveFile`.

`Creation` has one step per change of the disk: a file is created empty and then
filled. A run is anywhere in the list `Order`. The options are checked as in `New`, with
durations in units smaller than a second and results in `uint64`, and the parameters
that come out are validated by `CAParams`. `root` says whether the mode 0400 of
`signing.key` keeps `New` from overwriting it; the properties about it are for runs that
are not root. `made` is history: the parameters of the first `New` that succeeded.

## 3. What TLC checks

| Run | Question | Bounds | Distinct states |
|---|---|---|---|
| `issuance` | 11 invariants, `IssueComplete`, refinement of `BatchLog` | 2 runs, 2 submissions, 7 s of 1 s batches, windows of 2 and 4, 2 faults | 723 000 |
| `issuance_live` | a readable queue is issued | 2 runs, 2 submissions, 4 s, 1 fault, windows of 1 and 2 | 21 000 |
| `index` | exactness, search, termination | keys 0..7, all batches up to 4 keys, increasing ones of 5 | 239 000 |
| `merkle_tree` | tree against its definition, completeness, soundness | 0 to 9 leaves, two assertions, claimed indices up to 10, levels modulo `U8` = 5 | 745 000 |
| `lookup` | certificates, open files, termination | 4 batches, empty, single and with duplicates; `U32` = 8 | 275 000 |
| `decoder` | delivery, loss, errors, termination | up to 3 records of 1, 2, 4 and 5 bytes, at most one refused, the last cut anywhere; buffer of 1 byte, `maxSize` 5; any sizes of reads, and none | 268 000 |
| `assertions` | what can be issued, found again, checked | 65 sets of claims, 30 files; `L16` = 9; one assertion in the queue | 10 700 |
| `creation` | complete, consistent, lasting | 3 runs, 3 key pairs, 24 combinations of options | 73 000 |
| `passes_agree`, `every_queued_issued`, `unknown_is_absent`, `claims_survive` | violations, section 5 | | |

**Why the bounds are enough.** In `issuance`, seven seconds fill the storage
window of four batches and make the fifth push out the first, with room for a pause
in between that makes a range of empty batches; two faults allow a kill inside the
recovery from a kill; two runs are all that a lock can confuse. `faults` bounds
kills, I/O errors and clock steps together. In `index`, five positions are enough for
several probes on either side; eight keys leave gaps at both ends. Nine leaves
make a tree of five levels, three of which are padded, and use all levels that `U8` = 5
has. A verifier is presented (`MCPresented`) with the path last made, whole, shortened,
extended by a node, with a node replaced, or cut inside a hash, and without one with any
two nodes of a tree of up to four leaves and with paths of `U8` and more hashes, after
which the level starts again from 0. In `lookup`, four batches allow two
removals with the search still crossing two batches, and `U32` is just large
enough for the number to wrap around outside of them. In `decoder`, the buffer doubles
from 1 to 8, beyond `maxSize`, and records of every size up to it meet every position
of the boundary. In `assertions` each record is written and read for itself, so
that one in the queue is enough; what one that cannot be read does to its neighbours is
`every_queued_issued`. Lists of up to three addresses in every order reach the place from
which repetitions are refused, and `L16` is such that a record can outgrow it while its
parts fit. In `creation`, three runs are one that makes the CA, one that tries again and
one that opens; runs are interchangeable (`MCSymmetry`).

`CHECK_DEADLOCK FALSE` stands in the configurations of `Issuance`, where time is
bounded and the system may rest with every submission used, of `Decoder`, whose one call
returns, and of `Assertions`, where the number of submissions is bounded. The other
runs check deadlock.

**Fairness.** `Issuance`: a run inside `Issue` goes on (it is a sequential program),
each run closes its handle in the end (the deferred `Close` of every command), time
passes, and one run, `Cron`, gets the lock and calls `Issue` again and again: strong
fairness, since others may hold the lock in between. This is what the documentation
expects of whoever operates a CA. `Index` and `Lookup`: a call that has begun goes
on. `Decoder`: likewise, and a read returns bytes, nothing or the end of the stream;
errors of the reader and of the callback are not needed for it to return.

## 4. What is proved

All for arbitrary constants that satisfy the `ASSUME`s.

**Issuance** (`IssuanceProofs`). From `ParamsAssumption` (what
`Validate` and `New` check), `IssuanceAssumption` and `NoWrapAssumption` (batch numbers
stay below 2^32). The properties are not inductive as they stand: that a step of
`Issue` does no harm depends on what earlier steps found, and on nobody having
changed it since. `IndInv` adds

- `Owner`: whoever has a handle owns the lock file;
- `LoopPosition`: where the loops are relative to the log and to the window of the
  time `dt` at which `Issue` began;
- `PassResult`: what the first pass wrote is still what should be published;
- `QueueIssued`: before `dropQueue`, the queue is what the newest batch holds;
- `StoredTail`, `ClockSeen`, `NewestReady`.

Every action preserves each part, one lemma per action. From it follow `TypeOK`,
`OneHandle`, `NoLostSubmission`, `WindowChain`, `Contiguous`, `CacheFresh`, `NotEarly`,
`RetainedWindow` and `CanContinue`, the action property `IssueComplete`, and that
`Issuance` implements `BatchLog` under the mapping
`pending <- Range(queue) \ {Garbled}`.

The two bounds that count faults need to know where a fault can hit. `RepeatsCounted`
says that a submission has been published at most `faults` times while it is in a
queue that has not just been published, and once more between the rename and the
truncation (`dropQueue`); `LagCounted` does the same for `latest` between the rename and
`updateLatest`. Whoever leaves these places without finishing does so by a fault, which
pays for the repetition. `DuplicateBound` and `LatestLag` follow (`FaultsCounted`).

**Index** (`IndexProofs`). `IndexExact`, `OffsetsRight`, `Answer`, `Bracket`,
`ProbeInside` and `Shrinks`, for any key length and batch. `GuessInside` is the
arithmetic of the rounded interpolation; `Bracket` together with the sortedness of the
file is what makes the search right. `OffsetsSoFar` says that while the batch is read,
`offset` is the sum `BytesBefore` of the sizes so far, and so is the offset of each entry.

**MerkleTree** (`MerkleTreeProofs`). `TreeAsDefined`, `NodeCountRight`, `ReadsLevel`,
`Complete` and `Sound`, for any batches, claimed indices and presented paths. From
`MerkleAssumption`, which is about types and says that a batch has at most 2^(`U8` - 1)
assertions (in the code `U8` is 256, and the number of assertions a `uint64`), and hashes
without collisions. `IndInv` describes the finished tree and how far each
function is:

- `LevelsRight`: each level starts where the padded one below ends, and has half its nodes;
- `LevelsFit`: the levels of the tree are below `U8`, since a level with two nodes
  has more than 2^level leaves under it; a level in a hash of the tree is therefore the
  level itself and not what is left of it modulo `U8`;
- `NodesRight`: each node is the hash of the two below it, and a level of odd length
  ends in an empty node;
- `BuildPosition`: the nodes that ComputeTree has written and those `TreeNodeCount` still
  expects from here add up to `TreeNodeCount` of the leaves, which is `NodeCountRight` at
  the end;
- `PathRight`: there is a trail of indices from the leaf upwards, each half of the one
  before and inside of its level, and the path holds their siblings. While an honest
  proof is verified, the hash is the tree's node on that trail, hence the root at the end;
- `HashTagged`, `OnTreeIsRight`: the hash computed so far is that of the claim at level 0,
  or carries its index and level, and if the tree has it at that place, the claim is
  right. A step backwards is injectivity: if the new hash is a node of the tree, the old
  one is its child. At the end, a hash that equals the root has the root's level, since
  levels are hashed in. A path so long that the level wraps around is no exception: a hash
  at level 0 that was made of two others is not that of a leaf.

`TreeAsDefined` compares the buffer with `Subtree`, which defines the tree from the root
downwards, as the hash of its two halves. `LevelWidth` of a level, the leaves divided by a
power of two and rounded up, is how many nodes `LevelsRight` says it has; `Before` adds these
up, padding included, to where the level starts. With that, `NodesRight` is the equation of
`Subtree` at each node, and the theorem is an induction over levels.

For `Sound` nothing is assumed of the path: `Presented` is an arbitrary operator in the
theorem, and what `MCMerkleTree` gives for it limits the run of TLC only.

**Recursion.** The library's induction theorems take operators as parameters, which the
installed provers cannot instantiate. `Recursion` states what is needed with sets and functions
instead: a set of numbers that is not empty has a least element (from `WFMin`), induction, and
that a recursive function whose argument decreases and that adds something at each turn exists
and satisfies its equation (`RecursionExists`). `TreeNodeCount` (`CountFromUnfolds`) and the
offsets of the index (`BytesBeforeUnfolds`) are of this form.

**Lookup** (`LookupProofs`). `CertificateRight`, `StoredIsFound` and
`OpenFilesStored`, for any number of batches and of failures to close a file. `SearchAt` says that batches newer than
the loop variable do not hold the key; `OpenFilesStored` is needed because the loop
does not stop at the oldest batch, only at a file it cannot open.

**Decoder** (`DecoderProofs`). `DeliveredRight`, `NothingDropped` and `HonestError`, for any
stream, any sizes of records and of the buffer, and any reads (`NothingDropped` for readers
that do not idle). From `DecoderAssumption`:
records end in increasing order and have at most `maxSize` bytes, and the buffer is not
larger than that to begin with. `Window` says what the buffer holds; from it follows that a
record is decoded exactly if it is the one that is due and was read completely
(`DecodesIff`), and when decoding asks for more (`TruncatedIff`). `Pending` keeps that
for the read, which may turn out to be at the end of the stream, and `Filled` is why the
limit of the buffer is reached with a full buffer only.

**Assertions** (`AssertionsProofs`). `QueueReadable`, `FoundAgain` and `ChecksumHolds`, for
claims of any length, any labels and addresses, any modulus `L16` and any order of commands.
From `AssertionsAssumption` (flags give claims, and files hold claims of the right form) and
`ErrorAssumption` (`Error` is none of the values that functions return otherwise). The argument
is the round trip of claims:

- Sorting. `sort.Slice` is specified by what it leaves: a rearrangement in order. Domain
  names from the last label on, and addresses, are strictly and totally ordered
  (`LessOrders`), so that a rearrangement in order exists (`SortExists`, by rank) and is
  unique (`SortedAgain`, by counting: `NoRoom`). Hence sorting twice is sorting once.
- Addresses. `AddressFacts`: the check that skips the first two addresses accepts a sorted
  list exactly if no address comes twice with a third one that is not larger, wherever they
  stood before sorting.
- Writing. `WireShape`, `WireClaims`, `WireOrdered`: the types are written in the order that
  is checked when they are read, and `WireLen` adds up.
- Reading. `LastOfWire`, `UnknownOfWire`: each field is read from the claim it was written to,
  but for wildcards, which end up in ENS unless there are ENS names.
- `RoundTrip` and `ReadBackFacts`: what was written is refused for a repeated address and
  otherwise read back sorted; that can be written again, is not longer, and gives the same
  bytes if there were no wildcards.

`IndInv` says that the queue has the record of each assertion asked for, all of which can be
written (`QueueRight`), that a file is of the right form and what its checksum is of
(`FileRight`), and that what was issued could be and has its key in the index
(`IssuedRight`). `CanIssueFacts` turns this into the three conditions of `QueueReadable`:
the length of a record, taken modulo `L16`, is right exactly if it is below `L16`. TLC
has checked `IndInv` on the run `assertions`.

**Creation** (`CreationProofs`). `OpenedIsComplete`, `SignerPublished` and
`MadeStaysOpenable`, for any number of runs and any options. From `CreationAssumption`,
which is about types only. `Owner` says that whoever is past the lock has it, `Prepared`
that what New is about to write is valid and belongs to its key, `Progress` what was
written before the parameters, and `FirstOnly` that without root only the first to
create the key file goes on, so that it finds no parameters; `Matching` follows.

**Only model-checked.** The liveness properties (`QueuedIsIssued`, `Terminates`,
`Returns`, `UnmarshalReturns`), since fairness is out of the prover's reach. Every safety
property that a run checks is also proved.

## 5. Where code and documentation disagree

- `passes_agree`: `ca.go:723` "We perform issuance twice, and compare results." The
  result of the comparison (`ca.go:756`) is overwritten by that of `Rename`.
- `every_queued_issued`: `ca.go:630` "Issue queued assertions into new batch." One
  record that was accepted but cannot be read back blocks all others for good. Such are,
  by `QueueReadable`, records that outgrow their 16-bit length, subjects that cannot be
  abridged, and lists in which, after sorting, an address is repeated elsewhere than in
  the first two places (those two are never compared, and their repetition is accepted).
- `unknown_is_absent`: `ca.go:568` "no assertion with key %x on record". Once batch 0
  is gone, an unknown assertion ends in an I/O error, because the loop at `ca.go:603`
  does not stop at the oldest batch.
- `claims_survive`: `mtc_test.go:259` round-trips claims, wildcards among them. The branch
  at `mtc.go:1363` repeats the condition of the one before it, so that wildcards
  are read into ENS, and are lost if there is an ENS claim as well. `FoundAgain` and
  `ChecksumHolds` except wildcards for this reason: the checksum that `new-assertion`
  prints does not fit the file that it writes when `ca queue` reads it.

- `index`: `index.go:85` "During the search, we're in an interval [i, j], where
  the keys of i and j are a and b, and a < hash < b." The loop starts with a = 0 and
  b = 0xff...ff, which need not be keys of the file, and the key looked for may be equal to
  either; after a probe, a is the key at i - 1, or b the one at j + 1. This is `Bracket`, the
  invariant that does hold and that is enough; since keys increase, it contradicts that
  of the comment as soon as the interval has become smaller. The search itself is right.

Met on the way, and not a disagreement with what is written down:

- After a kill between `Rename` and `updateLatest`, an `Issue` that has nothing to create
  succeeds and leaves `latest` behind the newest batch; `LatestLag` says by how much.
- "This shouldn't be possible" (`utils.go:73`): it is, for a reader that returns a few
  bytes at a time, and for a stream cut inside of a record when the buffer has
  reached its limit. A stream that is cut otherwise is accepted. `HonestError` says
  when the message is right.
- A `Read` that returns no bytes and no error before the end of the stream (an `io.Reader` is
  discouraged from it, but may) makes `unmarshal` return nil there (`utils.go:84`), as if the
  stream were over. No reader that the repository passes to it does this; `NothingDropped`
  is about those that do not.
- A kill inside `New` after `signing.key` was created leaves a directory on which neither
  `Open` nor, unless run as root, `New` succeeds; it has to be removed by hand.
- `New` run as root on an existing CA replaces its key, its queue and its parameters, and a
  kill in between leaves a key that `Open` accepts with parameters it does not belong to.
- A negative `--storage-duration` passes the checks of `New` and `Validate`
  (`ca.go:1032`), and `StoredBatches` then returns a range that begins after its end.

## 6. What is not modelled, and what could come next

Not modelled: hash collisions; the signature schemes, which are calls into libraries
without state; temporary directories (they may leak when a run is killed); reuse of
process ids; the field by field encoding of windows and certificates; the printing and
inspection of the command line; the HTTP front end, which only starts `mtc` and keeps
files named after its requests; `NextBatchAt`, which serves a log message; conversions
to `int64`.

`CAParams`, `BatchLog`, `Issuance`, `Index`, `MerkleTree`, `Lookup`, `Decoder`, `Assertions`
and `Creation` are modelled and their safety properties proved. What could come next is the
composition: `Lookup` takes the results of `Index` and `Issuance`, and `Issuance` the set
`Unreadable` that `Assertions` characterises, as premises that are stated but not
instantiated.
