----------------------------- MODULE KeyedCreate -----------------------------
(***************************************************************************)
(* What a caller of the API may rely on, whatever fails behind it: a create *)
(* sent with an Idempotency-Key happens at most once in each retention      *)
(* window, a success reports a create that is there, a key is refused only  *)
(* when another request has used it, and only an answer that says "not done"*)
(* or "not known" is taken back by a new attempt.  RequestTx, with          *)
(* its transactions, locks, records and crashes, implements it.             *)
(***************************************************************************)
EXTENDS Naturals

CONSTANTS Requests, Keys, NoKey, Read, Omitted, Data, None

VARIABLES
    asks,       \* [Requests -> [key, print]]
    created,    \* the creates that have happened
    window,     \* [Keys -> retention windows that have ended]
    told        \* [Requests -> what the caller was told last, or None]

vars == <<asks, created, window, told>>

Init ==
    /\ created = {}
    /\ window = [k \in Keys |-> 0]
    /\ told = [q \in Requests |-> None]

(* One create happens, and some caller asked for it. *)
Create ==
    /\ \E r \in created' \ created :
         /\ created' = created \cup {r}
         /\ asks[r.by] = [key |-> r.key, print |-> r.print]
         /\ r.key \in Keys =>
              r.window = window[r.key] /\ \A s \in created : s.key = r.key => s.window # r.window
    /\ UNCHANGED <<window, told>>

(* A key that was used may be used afresh after its window. *)
WindowEnds(k) ==
    /\ \E r \in created : r.key = k /\ r.window = window[k]
    /\ window' = [window EXCEPT ![k] = @ + 1]
    /\ UNCHANGED <<created, told>>

(* The creates a success of q may report. *)
Mine(q) == {r \in created : r.key = asks[q].key /\ r.print = asks[q].print}
Others(q) == {r \in created : r.key = asks[q].key /\ r.print # asks[q].print}

(* What the caller may be told.  409, 500 and 503 promise nothing. *)
True(q, resp) ==
    /\ resp.code = 200 => IF asks[q].key = Read THEN resp.body = Data
                          ELSE resp.body \in Mine(q) \/ (resp.body = Omitted /\ Mine(q) # {})
    /\ resp.code = 422 => asks[q].key \in Keys /\ Others(q) # {}

Tell(q) ==
    /\ told[q] = None /\ told'[q] # None
    /\ True(q, told'[q])
    /\ \A p \in Requests \ {q} : told'[p] = told[p]
    /\ UNCHANGED <<created, window>>

(* A final answer stands; the others are followed by another attempt. *)
TryAgain(q) ==
    /\ told[q] # None /\ told[q].code \in {409, 500, 503}
    /\ told' = [told EXCEPT ![q] = None]
    /\ UNCHANGED <<created, window>>

Next ==
    /\ \/ Create
       \/ \E k \in Keys : WindowEnds(k)
       \/ \E q \in Requests : Tell(q) \/ TryAgain(q)
    /\ UNCHANGED asks

Spec == Init /\ [][Next]_vars
=============================================================================
