------------------------------ MODULE MCLookup ------------------------------
(* Lookup with small constants, for TLC.                                   *)
EXTENDS Lookup

CONSTANTS a, b

(* An empty batch, one with one assertion, and one with a duplicate.       *)
MCContents == {<<>>, <<a>>, <<b, a, b>>}
=============================================================================
