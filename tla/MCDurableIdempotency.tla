------------------------ MODULE MCDurableIdempotency ------------------------
EXTENDS DurableIdempotencyRefinement, TLC
RequestSymmetry == Permutations(Requests)
=============================================================================
