------------------------------ MODULE MCN5Check ------------------------------
(***************************************************************************)
(* Instances of N5Check.                                                   *)
(***************************************************************************)
EXTENDS N5Check, TLC

AnnotatorSymmetry == Permutations(Annotators)
=============================================================================
