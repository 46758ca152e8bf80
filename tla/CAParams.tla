------------------------------ MODULE CAParams ------------------------------
(***************************************************************************)
(* The public parameters of a Merkle Tree CA (CAParams in mtc.go) and the  *)
(* arithmetic that turns a wall-clock time into batch numbers.             *)
(*                                                                         *)
(* Times and durations are whole seconds, as in the ca-params file.  Batch *)
(* number n covers the seconds                                             *)
(*     StartTime + n*BatchDuration .. StartTime + (n+1)*BatchDuration - 1  *)
(* and may be issued once that period is over.                             *)
(***************************************************************************)
EXTENDS Integers

CONSTANTS
  StartTime,          \* second at which batch 0 begins
  BatchDuration,      \* seconds per batch
  Lifetime,           \* seconds an assertion stays valid
  ValidityWindowSize, \* number of tree heads in a signed validity window
  StorageWindowSize,  \* number of past batches the CA keeps serving
  U32                 \* modulus of a batch number's uint32 (2^32 in the code)

(***************************************************************************)
(* CAParams.Validate, without the bounds on the issuer's name.  Every set  *)
(* of parameters the CA runs with has passed it (Open parses ca-params,    *)
(* which ends in Validate), and New refuses a BatchDuration that is not    *)
(* positive or exceeds the Lifetime.  Numbers are natural numbers here:    *)
(* StorageWindowSize is assumed to fit the int64 it is converted to, which *)
(* a negative StorageDuration given to New does not.                       *)
(***************************************************************************)
Validate ==
  /\ Lifetime % BatchDuration = 0
  /\ ValidityWindowSize = Lifetime \div BatchDuration
  /\ StorageWindowSize >= 2 * ValidityWindowSize

ASSUME ParamsAssumption ==
  /\ StartTime \in Nat
  /\ BatchDuration \in Nat \ {0}
  /\ Lifetime \in Nat
  /\ Lifetime >= BatchDuration
  /\ ValidityWindowSize \in Nat \ {0}
  /\ StorageWindowSize \in Nat
  /\ U32 \in Nat \ {0}
  /\ Validate

-----------------------------------------------------------------------------
(* BatchRange: the numbers begin, ..., end - 1.                            *)

NoBatches == [begin |-> 0, end |-> 0]

\* AreAllPast off by one: also calls the first batch of the range past.
AreAllPast_Inclusive(r, batch) == r.begin = r.end \/ batch <= r.begin

(* Whether every batch of the range comes after the given one.             *)
AreAllPast(r, batch) == r.begin = r.end \/ batch < r.begin

-----------------------------------------------------------------------------
CurrentNumber(ts) == (ts - StartTime) \div BatchDuration

(* The range that ends before the current batch and reaches back over the  *)
(* given number of batches: the common body of StoredBatches and           *)
(* ActiveBatches.  Numbers are truncated to uint32 as the code does.       *)
BatchesBack(ts, size) ==
  IF ts < StartTime
  THEN NoBatches
  ELSE LET start == CurrentNumber(ts) - size
       IN [begin |-> (IF start < 0 THEN 0 ELSE start) % U32,
           end   |-> CurrentNumber(ts) % U32]

\* StoredBatches off by one: counts the batch still being filled as ready.
StoredBatches_Current(ts) ==
  LET r == BatchesBack(ts, StorageWindowSize)
  IN IF ts < StartTime THEN r ELSE [r EXCEPT !.end = @ + 1]

(* Batches that are expected to be available at the given time; the last   *)
(* few might not yet have been published.                                  *)
StoredBatches(ts) == BatchesBack(ts, StorageWindowSize)

(* Batches that are not expired, and either issued or ready.               *)
ActiveBatches(ts) == BatchesBack(ts, ValidityWindowSize)
=============================================================================
