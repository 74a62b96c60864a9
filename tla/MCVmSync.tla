------------------------------ MODULE MCVmSync ------------------------------
(* Model-checking instance of VmSync.                                      *)
EXTENDS VmSync, TLC

Symmetry == Permutations(Run)
=============================================================================
