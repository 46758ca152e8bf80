------------------------------ MODULE Creation ------------------------------
(***************************************************************************)
(* The creation of a CA directory by New (mtc ca new) and its loading by   *)
(* Open (every other command), by several runs of mtc that may fail or be  *)
(* killed between any two changes of the disk.                             *)
(*                                                                         *)
(* A file is created, or truncated, and then filled: until then it is      *)
(* Empty.  A key pair is a number, which stands for its public part too.   *)
(* Durations are in units of 1/Second of a second.                         *)
(***************************************************************************)
EXTENDS Integers, SequencesExt

CONSTANTS
  Runs,             \* runs of mtc
  Options,          \* NewOpts given: batch, lifetime, storage
  DefaultBatch,     \* BatchDuration if none is given
  DefaultLifetime,  \* Lifetime if none is given
  Second,           \* units of duration in a second
  U64,              \* modulus of uint64
  MaxKeys,          \* bound on the number of key pairs generated
  Empty,            \* contents of a file before it is written
  None              \* no such file, no such run

CAParamsRecord ==
  [PublicKey : Nat, BatchDuration : Nat, Lifetime : Nat,
   ValidityWindowSize : Nat, StorageWindowSize : Nat]

HandleRecord == [signer : Nat, params : CAParamsRecord]

ASSUME CreationAssumption ==
  /\ None \notin Runs
  /\ None # Empty
  /\ {None, Empty} \cap Nat = {} /\ {None, Empty} \cap CAParamsRecord = {}
  /\ None \notin HandleRecord
  /\ Options \subseteq [batch : Int, lifetime : Int, storage : Int]
  /\ Second \in Nat \ {0} /\ U64 \in Nat \ {0}
  /\ DefaultBatch \in Int /\ DefaultLifetime \in Int
  /\ MaxKeys \in Nat

VARIABLES
  root,     \* whether mtc runs as root, which file modes do not stop
  lock,     \* the run named in the lock file
  key,      \* signing.key, of mode 0400
  params,   \* ca-params
  present,  \* what else is there: batches, tmp, queue
  pc,       \* what each run does next
  handle,   \* what each run has in memory: signer and params
  keys,     \* number of key pairs generated
  made      \* history: the parameters of the first New that succeeded

disk == <<lock, key, params, present>>
vars == <<root, disk, pc, handle, keys, made>>

\* ca-params before the queue.
Order_ParamsFirst ==
  <<"lock", "key", "keyData", "batches", "tmp", "params", "paramsData", "queue", "made">>

(* The order in which New writes.                                          *)
Order ==
  <<"lock", "key", "keyData", "batches", "tmp", "queue", "params", "paramsData", "made">>

Following(step) ==
  CHOOSE next \in ToSet(Order) :
    \E i \in 1..Len(Order) - 1 : Order[i] = step /\ Order[i + 1] = next

Init ==
  /\ root \in BOOLEAN
  /\ lock = None /\ key = None /\ params = None /\ present = {}
  /\ pc = [p \in Runs |-> "idle"]
  /\ handle = [p \in Runs |-> None]
  /\ keys = 0 /\ made = None

-----------------------------------------------------------------------------
(* The parameters that options stand for.  Sizes are uint64.               *)

Or(x, default) == IF x = 0 THEN default ELSE x

Batch(o) == Or(o.batch, DefaultBatch)
LifetimeOf(o) == Or(o.lifetime, DefaultLifetime)
Storage(o) == Or(o.storage, 2 * LifetimeOf(o))

(* GenerateSigningKeypair.                                                 *)
NextKey == keys + 1

ParamsOf(o) ==
  [PublicKey          |-> NextKey,
   BatchDuration      |-> (Batch(o) \div Second) % U64,
   Lifetime           |-> (LifetimeOf(o) \div Second) % U64,
   ValidityWindowSize |-> (LifetimeOf(o) \div Batch(o)) % U64,
   StorageWindowSize  |-> (Storage(o) \div Batch(o)) % U64]

CA(par) == INSTANCE CAParams WITH
  StartTime <- 0, U32 <- 1,
  BatchDuration <- par.BatchDuration, Lifetime <- par.Lifetime,
  ValidityWindowSize <- par.ValidityWindowSize,
  StorageWindowSize <- par.StorageWindowSize

(* The checks of New on its options.                                       *)
ChecksOptions(o) ==
  /\ Batch(o) % Second = 0
  /\ Batch(o) > 0
  /\ LifetimeOf(o) >= Batch(o)
  /\ LifetimeOf(o) % Batch(o) = 0
  /\ Storage(o) % Batch(o) = 0

\* The parameters are not validated before they are written.
AcceptsOptions_Unvalidated(o) == ChecksOptions(o)

AcceptsOptions(o) == ChecksOptions(o) /\ CA(ParamsOf(o))!Validate

-----------------------------------------------------------------------------
(* The lock file: a lock left by a run that is gone is taken over.         *)
TryLock == lock \in {None} \cup {p \in Runs : pc[p] = "idle"}

Goto(p, step) == pc' = [pc EXCEPT ![p] = step]

(* The run ends, and what it had in memory is gone.                        *)
Ends(p) ==
  /\ Goto(p, "idle")
  /\ handle' = [handle EXCEPT ![p] = None]
  /\ UNCHANGED <<root, key, params, present, keys, made>>

(* The lock file is removed first.                                         *)
Unlock(p) == lock' = None /\ Ends(p)

-----------------------------------------------------------------------------
(* New.                                                                    *)

(* Checks the options and generates the key pair.                          *)
NewStart(p, o) ==
  /\ pc[p] = "idle"
  /\ AcceptsOptions(o)
  /\ keys < MaxKeys
  /\ keys' = NextKey
  /\ handle' = [handle EXCEPT ![p] = [signer |-> NextKey, params |-> ParamsOf(o)]]
  /\ Goto(p, "lock")
  /\ UNCHANGED <<root, disk, made>>

NewLock(p) ==
  /\ pc[p] = "lock"
  /\ TryLock
  /\ lock' = p
  /\ Goto(p, Following("lock"))
  /\ UNCHANGED <<root, key, params, present, handle, keys, made>>

(* Another run has the lock.                                               *)
NewBusy(p) ==
  /\ pc[p] = "lock"
  /\ ~TryLock
  /\ Ends(p) /\ UNCHANGED lock

\* The key is written with mode 0600.
CanWriteKey_Always == TRUE

(* A file of mode 0400 can be opened for writing by root only.             *)
CanWriteKey == key = None \/ root

CreateKey(p) ==
  /\ pc[p] = "key"
  /\ CanWriteKey
  /\ key' = Empty
  /\ Goto(p, Following("key"))
  /\ UNCHANGED <<root, lock, params, present, handle, keys, made>>

WriteKey(p) ==
  /\ pc[p] = "keyData"
  /\ key' = handle[p].signer
  /\ Goto(p, Following("keyData"))
  /\ UNCHANGED <<root, lock, params, present, handle, keys, made>>

(* The directories of the batches and for temporary files; the queue.      *)
Make(p, what) ==
  /\ pc[p] = what
  /\ present' = present \cup {what}
  /\ Goto(p, Following(what))
  /\ UNCHANGED <<root, lock, key, params, handle, keys, made>>

CreateParams(p) ==
  /\ pc[p] = "params"
  /\ params' = Empty
  /\ Goto(p, Following("params"))
  /\ UNCHANGED <<root, lock, key, present, handle, keys, made>>

WriteParams(p) ==
  /\ pc[p] = "paramsData"
  /\ params' = handle[p].params
  /\ made' = IF made = None THEN handle[p].params ELSE made
  /\ Goto(p, Following("paramsData"))
  /\ UNCHANGED <<root, lock, key, present, handle, keys>>

(* A step of New fails: the deferred call unlocks.                         *)
NewFails(p) == pc[p] \in ToSet(Order) \ {"lock", "made"} /\ Unlock(p)

New(p) ==
  \/ \E o \in Options : NewStart(p, o)
  \/ NewLock(p)
  \/ NewBusy(p)
  \/ CreateKey(p)
  \/ WriteKey(p)
  \/ \E what \in {"batches", "tmp", "queue"} : Make(p, what)
  \/ CreateParams(p)
  \/ WriteParams(p)
  \/ NewFails(p)

-----------------------------------------------------------------------------
(* Open.                                                                   *)

(* Both files can be read and parsed, and the parameters are valid.        *)
CanOpen ==
  /\ params \notin {None, Empty}
  /\ CA(params)!Validate
  /\ key \notin {None, Empty}

Open(p) ==
  /\ pc[p] = "idle"
  /\ TryLock
  /\ CanOpen
  /\ lock' = p
  /\ handle' = [handle EXCEPT ![p] = [signer |-> key, params |-> params]]
  /\ Goto(p, "opened")
  /\ UNCHANGED <<root, key, params, present, keys, made>>

(* Open returns an error, and keeps the lock.                              *)
OpenFails(p) ==
  /\ pc[p] = "idle"
  /\ TryLock
  /\ ~CanOpen
  /\ lock' = p
  /\ Goto(p, "failed")
  /\ UNCHANGED <<root, key, params, present, handle, keys, made>>

Close(p) == pc[p] \in {"made", "opened"} /\ Unlock(p)

(* The run ends after an error, or is killed; the lock file stays.         *)
Exit(p) == pc[p] # "idle" /\ Ends(p) /\ UNCHANGED lock

Next ==
  \E p \in Runs : New(p) \/ Open(p) \/ OpenFails(p) \/ Close(p) \/ Exit(p)

Spec == Init /\ [][Next]_vars

-----------------------------------------------------------------------------
(* Properties.                                                             *)

Written == {"batches", "tmp", "queue"}

Steps == ToSet(Order) \cup {"idle", "opened", "failed"}

(* The values of the variables.                                            *)
TypeOK ==
  /\ root \in BOOLEAN
  /\ lock \in Runs \cup {None}
  /\ key \in Nat \cup {Empty, None}
  /\ params \in CAParamsRecord \cup {Empty, None}
  /\ present \subseteq Written
  /\ pc \in [Runs -> Steps]
  /\ handle \in [Runs -> HandleRecord \cup {None}]
  /\ keys \in Nat
  /\ made \in CAParamsRecord \cup {None}

(* A directory that Open accepts is complete: New writes ca-params last,   *)
(* so one it was killed in, or failed in, is never taken for a CA.         *)
OpenedIsComplete == CanOpen => present = Written

HasHandle(p) == pc[p] \in {"made", "opened"}

(* A run that has the CA open signs with the key whose public part is in   *)
(* ca-params, though both files are written separately and by any run that *)
(* tries; Open does not compare them.  Root is not kept from overwriting   *)
(* the key of an existing CA.                                              *)
SignerPublished ==
  ~root => \A p \in Runs : HasHandle(p) => params.PublicKey = handle[p].signer

(* What New has made stays as it is and can be opened, whatever other      *)
(* options New is called with later, and wherever that call ends.          *)
MadeStaysOpenable == ~root /\ made # None => params = made /\ CanOpen

-----------------------------------------------------------------------------
(* What makes them hold.                                                   *)

(* Whoever has gone beyond the lock owns it.                               *)
Owner == \A p \in Runs : pc[p] \notin {"idle", "lock"} => lock = p

InNew(p) == pc[p] \in ToSet(Order)

(* What a run of New is about to write is valid and belongs together.      *)
Prepared ==
  \A p \in Runs : InNew(p) =>
    /\ handle[p] # None
    /\ handle[p].params.PublicKey = handle[p].signer
    /\ CA(handle[p].params)!Validate

(* How far each run of New has come with the directories and the queue,    *)
(* which nobody removes.                                                   *)
Progress ==
  /\ \A p \in Runs :
       /\ pc[p] \in {"tmp", "queue", "params", "paramsData", "made"} => "batches" \in present
       /\ pc[p] \in {"queue", "params", "paramsData", "made"} => "tmp" \in present
       /\ pc[p] \in {"params", "paramsData", "made"} => "queue" \in present
  /\ params # None => present = Written

(* Unless it is root, a run that got to write the key was the first to, so *)
(* that it finds no parameters, and the others stop at the key.            *)
FirstOnly ==
  ~root =>
    /\ key = None => params = None
    /\ \A p \in Runs :
         /\ pc[p] \in {"keyData", "batches", "tmp", "queue", "params"} => params = None
         /\ pc[p] = "keyData" => key = Empty
         /\ pc[p] \in {"batches", "tmp", "queue", "params", "paramsData", "made"} =>
              key = handle[p].signer
         /\ pc[p] = "paramsData" => params = Empty
         /\ pc[p] = "made" => params = handle[p].params
         /\ pc[p] = "opened" =>
              handle[p] # None /\ handle[p].signer = key /\ params \in CAParamsRecord

(* What is in ca-params is what New has made, and goes with the key.       *)
Matching ==
  ~root =>
    /\ made # None <=> params \in CAParamsRecord
    /\ params \in CAParamsRecord =>
         /\ params = made
         /\ params.PublicKey = key
         /\ CA(params)!Validate

IndInv == TypeOK /\ Owner /\ Prepared /\ Progress /\ FirstOnly /\ Matching
=============================================================================
