----------------------------- MODULE MCN5Writers -----------------------------
(***************************************************************************)
(* Instances of N5Writers: two runs, one channel. The channels are compared *)
(* one by one, a second one adds no case.                                  *)
(***************************************************************************)
EXTENDS N5Writers, TLC

RunSymmetry == Permutations(Runs)
=============================================================================
