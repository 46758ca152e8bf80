------------------------------ MODULE MCIndex -------------------------------
(* Index with small constants, for TLC.                                    *)
EXTENDS Index, FiniteSets

(* Assertions of one or two bytes.                                         *)
MCSize == [k \in Keys |-> 1 + (k % 2)]

Increasing(s) == \A k, l \in DOMAIN s : k < l => s[k] < s[l]

(* All short batches, in any order and with duplicates, and longer ones of *)
(* different keys, which leave more positions to search.                   *)
MCStreams ==
  UNION {[1..n -> Keys] : n \in 0..4} \cup {s \in [1..5 -> Keys] : Increasing(s)}
=============================================================================
