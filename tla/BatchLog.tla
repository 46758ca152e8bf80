------------------------------ MODULE BatchLog ------------------------------
(***************************************************************************)
(* What the CA promises its users, without files, processes or crashes.    *)
(*                                                                         *)
(* Submissions are accepted into a pending set.  Batches are published one *)
(* after the other in an append-only log; a batch holds only submissions   *)
(* that are pending.  A submission stops being pending only after it has   *)
(* been published.  Old batches stop being stored from the front, and the  *)
(* newest one is always stored.                                            *)
(***************************************************************************)
EXTENDS Integers, Sequences, Functions

CONSTANT Submissions  \* the accepted requests for certification

VARIABLES
  log,      \* contents of batch 0, 1, 2, ..., each a sequence of submissions
  first,    \* number of the oldest batch still stored
  pending   \* submissions waiting to be published

vars == <<log, first, pending>>

(* Everything that some batch of the log l certifies.                      *)
PublishedIn(l) == UNION {Range(l[i]) : i \in DOMAIN l}

Init ==
  /\ log = <<>>
  /\ first = 0
  /\ pending = {}

Accept ==
  /\ pending \subseteq pending'
  /\ pending' \subseteq Submissions
  /\ UNCHANGED <<log, first>>

Publish ==
  /\ Len(log') = Len(log) + 1
  /\ log' = Append(log, log'[Len(log')])
  /\ Range(log'[Len(log')]) \subseteq pending
  /\ UNCHANGED <<first, pending>>

Retire ==
  /\ pending' \subseteq pending
  /\ pending \ pending' \subseteq PublishedIn(log)
  /\ UNCHANGED <<log, first>>

Prune ==
  /\ first' = first + 1
  /\ first' < Len(log)
  /\ UNCHANGED <<log, pending>>

Next == Accept \/ Publish \/ Retire \/ Prune

Spec == Init /\ [][Next]_vars
=============================================================================
