----------------------------- MODULE MCRequestTx -----------------------------
(* A create with a key, sent again whenever its caller is left without an   *)
(* answer, beside another request: its own retry while it may still run, a  *)
(* different request that reuses the key, a create without one, or a read.  *)
EXTENDS RequestTx

CONSTANTS first, other, key, p1, p2

Ask(k, p) == [key |-> k, print |-> p]
MCMixes ==
    {[q \in Requests |-> IF q = first THEN Ask(key, p1) ELSE a] :
        a \in {Ask(key, p1), Ask(key, p2), Ask(NoKey, p2), Ask(Read, p2)}}
=============================================================================
