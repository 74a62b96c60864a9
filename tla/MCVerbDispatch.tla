-------------------------- MODULE MCVerbDispatch --------------------------
(* Model-checking instance of VerbDispatch.                                *)
EXTENDS VerbDispatch, TLC

Symmetry ==
    Permutations(Reqs) \cup Permutations(IdemKeys)
        \cup Permutations(JournalIds) \cup Permutations(Flights)
=============================================================================
