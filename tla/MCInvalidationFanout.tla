---------------------- MODULE MCInvalidationFanout ----------------------
(* Small instances of InvalidationFanout for TLC: one or two replicas that *)
(* write and one that reads.                                               *)
EXTENDS InvalidationFanout, TLC

CONSTANTS a, b, c, k1, k2

KeySymmetry == Permutations(Keys)
WriterSymmetry == Permutations(Writers)
Symmetry == KeySymmetry \cup WriterSymmetry
=============================================================================
