---------------------------- MODULE MCMerkleTree ----------------------------
(* MerkleTree with small constants, for TLC.                               *)
EXTENDS MerkleTree, SequencesExt

CONSTANTS a, b

(* All small batches, and larger ones up to the next power of two.         *)
MCStreams ==
  UNION {[1..n -> Assertions] : n \in 0..4}
    \cup {[k \in 1..n |-> IF k = n THEN b ELSE a] : n \in 5..9}

(* A hash that is not in the tree.                                         *)
Foreign == <<"foreign">>

(* The path made last: whole, shortened, with a node too many or replaced, *)
(* or cut off inside of a hash.  Without one, paths of any two nodes of    *)
(* small trees, and paths of one hash so long that the level wraps around. *)
MCPresented(p, nodes) ==
  LET prefixes == {SubSeq(p, 1, n) : n \in 0..Len(p)}
      extra == {Stub, Foreign, nodes[1], Last(nodes)}
      any == IF Len(nodes) <= 8 THEN ToSet(nodes) ELSE {}
  IN prefixes
       \cup {Append(q, x) : q \in prefixes, x \in extra}
       \cup {ReplaceAt(p, n, Foreign) : n \in DOMAIN p}
       \cup IF p # <<>> THEN {}
            ELSE {<<x, y>> : x, y \in any}
                   \cup {[k \in 1..n |-> x] : n \in U8..U8 + 2, x \in extra \ {Stub}}
=============================================================================
