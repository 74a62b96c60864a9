------------------------ MODULE MCDeletionRequests ------------------------
(* Model-checking instance of DeletionRequests.                            *)
EXTENDS DeletionRequests, TLC

Symmetry == Permutations(Reqs)
=============================================================================
