------------------------ MODULE MCIdempotencyCache ------------------------
(* Model-checking instance of IdempotencyCache.                            *)
EXTENDS IdempotencyCache, TLC
=============================================================================
