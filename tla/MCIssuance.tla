----------------------------- MODULE MCIssuance -----------------------------
(* Issuance with small constants, for TLC.                                 *)
EXTENDS Issuance, TLC

CONSTANTS a, b, x, p1, p2

MCCalls == {<<a>>, <<b>>, <<a, b>>}
MCCallsOne == {<<a>>}
MCCallsPoison == {<<a>>, <<x>>}

(* Every pass gets all files right, or one pass gets the tree wrong.       *)
AllRight == {Files}
TreeMayBeWrong == {Files, Files \ {"tree"}}

ProcSymmetry == Permutations(Proc)
=============================================================================
