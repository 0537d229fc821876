---------------------------- MODULE MCStreamStop ----------------------------
(* Four kinds of behaviour: the begin handshake, an approval, a stop and    *)
(* the server's Shutdown; a stop from another replica while Redis and the   *)
(* owner fail; the same with a Shutdown; and an approval while the owner    *)
(* loses its key.                                                           *)
EXTENDS StreamStop

Allow(b, c, s, a, d, f, t) ==
    [begins |-> b, cards |-> c, stops |-> s, asks |-> a, shutdowns |-> d, faults |-> f, clock |-> t]
MCBudgets ==
    {Allow(1, 1, 1, 0, 1, 0, 0), Allow(0, 0, 0, 1, 0, 1, 1), Allow(0, 0, 0, 1, 1, 0, 1),
     Allow(0, 1, 0, 0, 0, 1, 1)}
=============================================================================
