------------------------- MODULE MCCacheCoherence -------------------------
(* The small instance of CacheCoherence for TLC. *)
EXTENDS CacheCoherence

CONSTANTS r1, r2, k1, k2, s1

(* Every key on one stripe: an invalidation of one key also refuses the     *)
(* fills of the other.                                                      *)
OneStripe == [k \in Keys |-> s1]
=============================================================================
