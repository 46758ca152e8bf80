---------------------------- MODULE MCCreation ------------------------------
(* Creation with small constants, for TLC.                                 *)
EXTENDS Creation

(* Options that are left out, fractions of a second, lifetimes that are no *)
(* multiple, and storage too short or negative.                            *)
MCOptions ==
  [batch : {-2, 0, 1, 4}, lifetime : {0, 6}, storage : {-4, 0, 4}]

MCSymmetry == Permutations(Runs)
=============================================================================
