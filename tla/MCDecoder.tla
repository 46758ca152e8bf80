----------------------------- MODULE MCDecoder ------------------------------
(* Decoder with small constants, for TLC.                                  *)
EXTENDS Decoder

(* Up to three records of sizes from the smallest to the maximal, at most  *)
(* one of which is refused, and every place where the stream can be cut in *)
(* the last.                                                               *)
Sizes == {1, 2, 4, MaxSize}

Ends(sizes) ==
  [i \in DOMAIN sizes |-> FoldLeft(LAMBDA a, b : a + b, 0, SubSeq(sizes, 1, i))]

MCStreams ==
  {[ends |-> <<>>, kind |-> <<>>, size |-> 0]} \cup
  UNION {LET n == Len(sizes)
             oneBad(i, k) == [j \in 1..n |-> IF j = i THEN k ELSE "ok"]
         IN [ends : {Ends(sizes)},
             kind : {oneBad(i, k) : i \in 1..n, k \in Kinds},
             size : Start([ends |-> Ends(sizes)], n) + 1..Ends(sizes)[n]]
           : sizes \in UNION {[1..n -> Sizes] : n \in 1..3}}
=============================================================================
