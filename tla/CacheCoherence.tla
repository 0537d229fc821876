--------------------------- MODULE CacheCoherence ---------------------------
(***************************************************************************)
(* One replica's read-through cache kept coherent with the database:       *)
(*                                                                         *)
(*   - txhook.Registry, the post-commit / post-rollback work of a          *)
(*     transaction (internal/platform/txhook);                             *)
(*   - eventbus.Bus.Publish, which runs a Sync subscriber (a cache          *)
(*     invalidation) at once and again when the transaction ends           *)
(*     (internal/platform/eventbus);                                       *)
(*   - eventbus.Gen, the striped generations that fence a fill;            *)
(*   - cache.Typed.GetOrFill over cache.SizedLRU: single flight, fill,     *)
(*     conditional store (core/cache).                                     *)
(*                                                                         *)
(* Requests interleave at the granularity of the code's atomic steps: one  *)
(* atomic load or add, one critical section of the LRU's mutex, one        *)
(* database statement.  A cached value is the version of the row it was    *)
(* read from.                                                              *)
(***************************************************************************)
EXTENDS Integers, Sequences, FiniteSets

CONSTANTS
    Reqs,               \* requests (and remote deliveries) of this replica
    Keys,               \* cache keys, each its own fence
    AllKeys,            \* the scope of an event that concerns every key
    Stripes,            \* the counters of Gen (256 in the code)
    StripeOf,           \* the counter a key hashes to
    None,               \* no value, no request
    MaxOps,             \* bound: reads and writes started, in all
    MaxFlightAttempts   \* times a caller joins flights whose leader left

ASSUME CoherenceAssumption ==
    /\ AllKeys \notin Keys
    /\ None \notin Reqs
    /\ None \notin Nat
    /\ StripeOf \in [Keys -> Stripes]
    /\ MaxOps \in Nat
    /\ MaxFlightAttempts \in Nat

VARIABLES
    committed,   \* [Keys -> version]: what a statement of another transaction reads
    durable,     \* [Keys -> set of versions that were ever committed]
    last,        \* [Keys -> the last version written]
    priv,        \* [Reqs -> [Keys -> version or None]]: uncommitted writes
    overtaken,   \* history: [Keys -> versions a late commit replaced since the
                 \* key's fence last moved]
    reg,         \* [Reqs -> state of the request's txhook.Registry]
    published,   \* [Reqs -> BOOLEAN]: Registry.published
    hooks,       \* [Reqs -> Seq(Scopes)]: the passes registered, in order
    pass,        \* [Reqs -> which delivery of the invalidation is running]
    entry,       \* [Keys -> version or None]: the LRU
    lock,        \* holder of SizedLRU.mu across steps, or None
    gen, genAll, \* Gen.stripes, Gen.all
    flight,      \* [Keys -> leader of the key's flight, or None]
    pc, cur,     \* where each request is, and the scope or key it works on
    captured,    \* [Reqs -> generation captured before the fill]
    seen,        \* [Reqs -> stripe part of a Load whose second half is to come]
    val,         \* [Reqs -> version its fill read]
    tries, ops   \* flights joined so far; reads and writes started

vars == <<committed, durable, last, priv, overtaken, reg, published, hooks, pass,
          entry, lock, gen, genAll, flight, pc, cur, captured, seen, val, tries, ops>>
dbVars   == <<committed, durable, last, priv, overtaken>>
txVars   == <<reg, published, hooks, pass>>
genVars  == <<gen, genAll>>
fillVars == <<flight, captured, seen, val, tries>>

Scopes == Keys \cup {AllKeys}
Covers(s) == IF s = AllKeys THEN Keys ELSE {s} \cap Keys

Init ==
    /\ committed = [k \in Keys |-> 0]
    /\ durable = [k \in Keys |-> {0}]
    /\ last = [k \in Keys |-> 0]
    /\ priv = [r \in Reqs |-> [k \in Keys |-> None]]
    /\ overtaken = [k \in Keys |-> {}]
    /\ reg = [r \in Reqs |-> "none"]
    /\ published = [r \in Reqs |-> FALSE]
    /\ hooks = [r \in Reqs |-> <<>>]
    /\ pass = [r \in Reqs |-> "Immediate"]
    /\ entry = [k \in Keys |-> None]
    /\ lock = None
    /\ gen = [s \in Stripes |-> 0]
    /\ genAll = 0
    /\ flight = [k \in Keys |-> None]
    /\ pc = [r \in Reqs |-> "idle"]
    /\ cur = [r \in Reqs |-> AllKeys]
    /\ captured = [r \in Reqs |-> 0]
    /\ seen = [r \in Reqs |-> 0]
    /\ val = [r \in Reqs |-> 0]
    /\ tries = [r \in Reqs |-> 0]
    /\ ops = 0

Goto(r, label) == pc' = [pc EXCEPT ![r] = label]

----------------------------------------------------------------------------
(* Transactions and their registries. *)

(* A request starts, in a transaction with a fresh registry or without one. *)
Begin(r) ==
    /\ pc[r] = "idle"
    /\ \E state \in {"none", "pending"} : reg' = [reg EXCEPT ![r] = state]
    /\ Goto(r, "run")
    /\ UNCHANGED <<dbVars, published, hooks, pass, entry, lock, genVars,
                   fillVars, cur, ops>>

(* The event names a scope; the write touches every row it covers.  A row   *)
(* written by an open transaction is locked until that transaction ends.    *)
Mutate(r, s) ==
    /\ pc[r] = "run"
    /\ ops < MaxOps
    /\ \A k \in Covers(s), o \in Reqs \ {r} : priv[o][k] = None
    /\ last' = [k \in Keys |-> IF k \in Covers(s) THEN last[k] + 1 ELSE last[k]]
    /\ \/ /\ reg[r] = "pending"
          /\ priv' = [priv EXCEPT ![r] =
                       [k \in Keys |-> IF k \in Covers(s) THEN last'[k] ELSE @[k]]]
          /\ UNCHANGED <<committed, durable>>
       \/ /\ reg[r] = "none"
          /\ committed' = [k \in Keys |-> IF k \in Covers(s) THEN last'[k]
                                          ELSE committed[k]]
          /\ durable' = [k \in Keys |-> IF k \in Covers(s) THEN durable[k] \cup {last'[k]}
                                        ELSE durable[k]]
          /\ UNCHANGED priv
    /\ ops' = ops + 1
    /\ cur' = [cur EXCEPT ![r] = s]
    /\ Goto(r, "publish")
    /\ UNCHANGED <<overtaken, txVars, entry, lock, genVars, fillVars>>

(* Publish marks the transaction before the first delivery. *)
Publish(r) ==
    /\ pc[r] = "publish"
    /\ published' = [published EXCEPT ![r] = @ \/ reg[r] = "pending"]
    /\ pass' = [pass EXCEPT ![r] = "Immediate"]
    /\ Goto(r, "bump")
    /\ UNCHANGED <<dbVars, reg, hooks, entry, lock, genVars, fillVars, cur, ops>>

(* The transaction's statements take effect for everyone, in one step. *)
ApplyWrites(r) ==
    /\ committed' = [k \in Keys |-> IF priv[r][k] # None THEN priv[r][k]
                                    ELSE committed[k]]
    /\ durable' = [k \in Keys |-> IF priv[r][k] # None THEN durable[k] \cup {priv[r][k]}
                                  ELSE durable[k]]

ForgetWrites(r) == priv' = [priv EXCEPT ![r] = [k \in Keys |-> None]]

(* The transaction commits before the first response byte; its hooks wait  *)
(* until the handler has returned.                                         *)
Commit(r) ==
    /\ pc[r] = "run"
    /\ reg[r] = "pending"
    /\ ApplyWrites(r)
    /\ ForgetWrites(r)
    /\ Goto(r, "committed")
    /\ UNCHANGED <<last, overtaken, txVars, entry, lock, genVars, fillVars, cur, ops>>

(* Mutant: the registry is marked committed and its hooks are forgotten. *)
RunHooksForgets(r) ==
    /\ pc[r] = "committed"
    /\ reg[r] = "pending"
    /\ reg' = [reg EXCEPT ![r] = "committed"]
    /\ Goto(r, "done")
    /\ UNCHANGED <<dbVars, published, hooks, pass, entry, lock, genVars, fillVars,
                   cur, ops>>

(* Registry.Commit: from now on the hooks run, on their Committed pass. *)
RunHooks(r) ==
    /\ pc[r] = "committed"
    /\ reg[r] = "pending"
    /\ reg' = [reg EXCEPT ![r] = "committed"]
    /\ pass' = [pass EXCEPT ![r] = "Committed"]
    /\ Goto(r, "hooks")
    /\ UNCHANGED <<dbVars, published, hooks, entry, lock, genVars, fillVars,
                   cur, ops>>

(* Registry.Abort: the OnRollback passes run, the rest is dropped. *)
Abort(r) ==
    /\ reg' = [reg EXCEPT ![r] = "aborted"]
    /\ pass' = [pass EXCEPT ![r] = "RolledBack"]
    /\ Goto(r, "hooks")

(* An error response, a failed mutation, a panic or a cancelled request. *)
Rollback(r) ==
    /\ pc[r] \in {"run", "publish", "cancelled"}
    /\ reg[r] = "pending"
    /\ ForgetWrites(r)
    /\ Abort(r)
    /\ UNCHANGED <<committed, durable, last, overtaken, published, hooks, entry,
                   lock, genVars, fillVars, cur, ops>>

(* Commit returned an error: the registry is aborted, and what became of   *)
(* the transaction is not known here.  The database holds its writes, and  *)
(* the locks of its rows, until it has decided.                            *)
CommitFails(r) ==
    /\ pc[r] = "run"
    /\ reg[r] = "pending"
    /\ Abort(r)
    /\ UNCHANGED <<dbVars, published, hooks, entry, lock, genVars, fillVars, cur, ops>>

(* The database decides a transaction whose COMMIT got no answer, at once  *)
(* or after the abort's passes have run: a commit the replica was not told *)
(* of, or a rollback.                                                      *)
EndLimbo(r) ==
    /\ reg[r] = "aborted"
    /\ \E k \in Keys : priv[r][k] # None
    /\ \/ /\ ApplyWrites(r)
          /\ overtaken' = [k \in Keys |-> IF priv[r][k] # None
                                          THEN overtaken[k] \cup {committed[k]}
                                          ELSE overtaken[k]]
       \/ UNCHANGED <<committed, durable, overtaken>>
    /\ ForgetWrites(r)
    /\ UNCHANGED <<last, txVars, entry, lock, genVars, fillVars, pc, cur, ops>>

(* A request without a transaction just ends. *)
End(r) ==
    /\ pc[r] \in {"run", "cancelled"}
    /\ reg[r] = "none"
    /\ Goto(r, "done")
    /\ UNCHANGED <<dbVars, txVars, entry, lock, genVars, fillVars, cur, ops>>

NextHook(r) ==
    /\ pc[r] = "hooks"
    /\ hooks[r] # <<>>
    /\ cur' = [cur EXCEPT ![r] = Head(hooks[r])]
    /\ hooks' = [hooks EXCEPT ![r] = Tail(@)]
    /\ Goto(r, "bump")
    /\ UNCHANGED <<dbVars, reg, published, pass, entry, lock, genVars, fillVars, ops>>

HooksDone(r) ==
    /\ pc[r] = "hooks"
    /\ hooks[r] = <<>>
    /\ Goto(r, "done")
    /\ UNCHANGED <<dbVars, txVars, entry, lock, genVars, fillVars, cur, ops>>

----------------------------------------------------------------------------
(* The invalidation a Sync subscriber runs: the fence first, then the entry. *)

(* A peer's invalidation or a resync: Bus.DeliverRemote, in no transaction. *)
DeliverRemote(r, s) ==
    /\ pc[r] = "idle"
    /\ cur' = [cur EXCEPT ![r] = s]
    /\ pass' = [pass EXCEPT ![r] = "Remote"]
    /\ Goto(r, "bump")
    /\ UNCHANGED <<dbVars, reg, published, hooks, entry, lock, genVars, fillVars, ops>>

Bump(r) ==
    /\ pc[r] = "bump"
    /\ IF cur[r] = AllKeys
       THEN genAll' = genAll + 1 /\ UNCHANGED gen
       ELSE gen' = [gen EXCEPT ![StripeOf[cur[r]]] = @ + 1] /\ UNCHANGED genAll
    /\ overtaken' = [k \in Keys |-> IF k \in Covers(cur[r]) THEN {} ELSE overtaken[k]]
    /\ Goto(r, "drop")
    /\ UNCHANGED <<committed, durable, last, priv, txVars, entry, lock, fillVars,
                   cur, ops>>

(* Where a request goes on after each delivery of the invalidation. *)
AfterPass(p) == IF p = "Immediate" THEN "run"
                ELSE IF p = "Remote" THEN "done" ELSE "hooks"

(* Mutant: the entry is dropped once, with no pass after the transaction. *)
DropOnce(r) ==
    /\ pc[r] = "drop"
    /\ lock = None
    /\ entry' = [k \in Keys |-> IF k \in Covers(cur[r]) THEN None ELSE entry[k]]
    /\ Goto(r, AfterPass(pass[r]))
    /\ UNCHANGED <<dbVars, txVars, lock, genVars, fillVars, cur, ops>>

(* Delete (or Clear), under the mutex.  The pass is then over: an Immediate *)
(* one inside a transaction registers the pass that follows its outcome.    *)
Drop(r) ==
    /\ pc[r] = "drop"
    /\ lock = None
    /\ entry' = [k \in Keys |-> IF k \in Covers(cur[r]) THEN None ELSE entry[k]]
    /\ hooks' = IF pass[r] = "Immediate" /\ reg[r] = "pending"
                THEN [hooks EXCEPT ![r] = Append(@, cur[r])] ELSE hooks
    /\ Goto(r, AfterPass(pass[r]))
    /\ UNCHANGED <<dbVars, reg, published, pass, lock, genVars, fillVars, cur, ops>>

----------------------------------------------------------------------------
(* GetOrFill. *)

Lookup(r, k) ==
    /\ pc[r] = "run"
    /\ ops < MaxOps
    /\ lock = None
    /\ ops' = ops + 1
    /\ cur' = [cur EXCEPT ![r] = k]
    /\ tries' = [tries EXCEPT ![r] = 0]
    /\ Goto(r, IF entry[k] # None THEN "run" ELSE "miss")
    /\ UNCHANGED <<dbVars, txVars, entry, lock, genVars, flight, captured, seen, val>>

(* flights.Do: the first caller leads, the others wait for its outcome; a   *)
(* caller that has joined too many abandoned flights fills outside one.     *)
JoinOrLead(r) ==
    /\ pc[r] = "miss"
    /\ \/ /\ tries[r] < MaxFlightAttempts
          /\ flight[cur[r]] = None
          /\ flight' = [flight EXCEPT ![cur[r]] = r]
          /\ Goto(r, "recheck")
       \/ /\ tries[r] < MaxFlightAttempts
          /\ flight[cur[r]] # None
          /\ Goto(r, "joined")
          /\ UNCHANGED flight
       \/ /\ tries[r] = MaxFlightAttempts
          /\ Goto(r, "load")
          /\ UNCHANGED flight
    /\ UNCHANGED <<dbVars, txVars, entry, lock, genVars, cur, captured, seen,
                   val, tries, ops>>

Joined(k) == {j \in Reqs : pc[j] = "joined" /\ cur[j] = k}

(* Mutant: the flight of a leader that is gone keeps its record. *)
FinishKeepsFlight(r, label, gone) ==
    LET woken == IF flight[cur[r]] = r THEN Joined(cur[r]) ELSE {}
    IN  /\ flight' = IF flight[cur[r]] = r /\ ~gone THEN [flight EXCEPT ![cur[r]] = None]
                     ELSE flight
        /\ pc' = [j \in Reqs |-> IF j = r THEN label ELSE IF j \notin woken THEN pc[j]
                                 ELSE IF gone THEN "miss" ELSE "run"]
        /\ tries' = [j \in Reqs |-> IF gone /\ j \in woken THEN tries[j] + 1 ELSE tries[j]]

(* Mutant: the callers that joined a leader that is gone are not woken. *)
FinishStrandsJoined(r, label, gone) ==
    /\ flight' = IF flight[cur[r]] = r THEN [flight EXCEPT ![cur[r]] = None] ELSE flight
    /\ pc' = [j \in Reqs |-> IF j = r THEN label
                             ELSE IF ~gone /\ flight[cur[r]] = r /\ j \in Joined(cur[r])
                                  THEN "run" ELSE pc[j]]
    /\ UNCHANGED tries

(* The fill of r is over and r goes to label; if r led a flight, the callers *)
(* that joined return with it, or go round again when the leader is gone.    *)
Finish(r, label, gone) ==
    LET k == cur[r]
        leads == flight[k] = r
        woken == IF leads THEN Joined(k) ELSE {}
    IN  /\ flight' = IF leads THEN [flight EXCEPT ![k] = None] ELSE flight
        /\ pc' = [j \in Reqs |-> IF j = r THEN label
                                 ELSE IF j \notin woken THEN pc[j]
                                 ELSE IF gone THEN "miss" ELSE "run"]
        /\ tries' = [j \in Reqs |-> IF gone /\ j \in woken THEN tries[j] + 1
                                    ELSE tries[j]]

Recheck(r) ==
    /\ pc[r] = "recheck"
    /\ lock = None
    /\ IF entry[cur[r]] # None
       THEN Finish(r, "run", FALSE)
       ELSE Goto(r, "load") /\ UNCHANGED <<flight, tries>>
    /\ UNCHANGED <<dbVars, txVars, entry, lock, genVars, cur, captured, seen, val, ops>>

(* Gen.Load: the key's stripe, then the counter of all keys. *)
LoadStripe(r) ==
    /\ pc[r] = "load"
    /\ seen' = [seen EXCEPT ![r] = gen[StripeOf[cur[r]]]]
    /\ Goto(r, "loadAll")
    /\ UNCHANGED <<dbVars, txVars, entry, lock, genVars, flight, cur, captured,
                   val, tries, ops>>

LoadAll(r) ==
    /\ pc[r] = "loadAll"
    /\ captured' = [captured EXCEPT ![r] = seen[r] + genAll]
    /\ Goto(r, "fetch")
    /\ UNCHANGED <<dbVars, txVars, entry, lock, genVars, flight, cur, seen, val,
                   tries, ops>>

(* Mutant: the read does not fall back to the committed row. *)
FetchOwnOnly(r) ==
    /\ pc[r] = "fetch"
    /\ val' = [val EXCEPT ![r] = priv[r][cur[r]]]
    /\ Goto(r, "store")
    /\ UNCHANGED <<dbVars, txVars, entry, lock, genVars, flight, cur, captured,
                   seen, tries, ops>>

(* The fill reads the row: its own transaction's write, or the committed one. *)
Fetch(r) ==
    /\ pc[r] = "fetch"
    /\ val' = [val EXCEPT ![r] = IF priv[r][cur[r]] # None THEN priv[r][cur[r]]
                                 ELSE committed[cur[r]]]
    /\ Goto(r, "store")
    /\ UNCHANGED <<dbVars, txVars, entry, lock, genVars, flight, cur, captured,
                   seen, tries, ops>>

FetchFails(r) ==
    /\ pc[r] = "fetch"
    /\ Finish(r, "run", FALSE)
    /\ UNCHANGED <<dbVars, txVars, entry, lock, genVars, cur, captured, seen, val, ops>>

(* The leader's context ended before its fill returned. *)
FetchAbandoned(r) ==
    /\ pc[r] = "fetch"
    /\ Finish(r, "cancelled", TRUE)
    /\ UNCHANGED <<dbVars, txVars, entry, lock, genVars, cur, captured, seen, val, ops>>

(* Mutant: FillOK does not ask whether the transaction announced a change. *)
PublishedIgnored(r) == FALSE

Published(r) == reg[r] = "pending" /\ published[r]

(* storeIf takes the mutex and asks FillOK: Published first, then Load,    *)
(* whose two halves are two steps here too.                                *)
StoreIf(r) ==
    /\ pc[r] = "store"
    /\ lock = None
    /\ IF Published(r)
       THEN Finish(r, "run", FALSE) /\ UNCHANGED <<lock, seen>>
       ELSE /\ lock' = r
            /\ seen' = [seen EXCEPT ![r] = gen[StripeOf[cur[r]]]]
            /\ Goto(r, "compare")
            /\ UNCHANGED <<flight, tries>>
    /\ UNCHANGED <<dbVars, txVars, entry, genVars, cur, captured, val, ops>>

Compare(r) ==
    /\ pc[r] = "compare"
    /\ IF seen[r] + genAll = captured[r]
       THEN Goto(r, "put") /\ UNCHANGED <<lock, flight, tries>>
       ELSE Finish(r, "run", FALSE) /\ lock' = None
    /\ UNCHANGED <<dbVars, txVars, entry, genVars, cur, captured, seen, val, ops>>

(* A value over the per-entry ceiling still removes the one it replaces. *)
Put(r) ==
    /\ pc[r] = "put"
    /\ \E stored \in {val[r], None} : entry' = [entry EXCEPT ![cur[r]] = stored]
    /\ lock' = None
    /\ Finish(r, "run", FALSE)
    /\ UNCHANGED <<dbVars, txVars, genVars, cur, captured, seen, val, ops>>

(* An entry leaves by its TTL (on access) or to make room. *)
Evict(k) ==
    /\ lock = None
    /\ entry[k] # None
    /\ entry' = [entry EXCEPT ![k] = None]
    /\ UNCHANGED <<dbVars, txVars, lock, genVars, fillVars, pc, cur, ops>>

----------------------------------------------------------------------------
Invalidation(r) == Publish(r) \/ Bump(r) \/ Drop(r)
Ending(r) == Commit(r) \/ RunHooks(r) \/ Rollback(r) \/ CommitFails(r) \/ End(r)
Hook(r) == NextHook(r) \/ HooksDone(r)
Fill(r) ==
    \/ JoinOrLead(r) \/ Recheck(r) \/ LoadStripe(r) \/ LoadAll(r) \/ Fetch(r)
    \/ FetchFails(r) \/ FetchAbandoned(r) \/ StoreIf(r) \/ Compare(r) \/ Put(r)

Next ==
    \/ \E r \in Reqs :
        \/ Begin(r) \/ Invalidation(r) \/ Ending(r) \/ Hook(r) \/ Fill(r)
        \/ EndLimbo(r)
        \/ \E s \in Scopes : Mutate(r, s) \/ DeliverRemote(r, s)
        \/ \E k \in Keys : Lookup(r, k)
    \/ \E k \in Keys : Evict(k)

Spec == Init /\ [][Next]_vars

(* A started request's goroutine keeps running and, in the end, ends its   *)
(* transaction; nobody is obliged to start a request, to write or to read. *)
Fairness == \A r \in Reqs :
    WF_vars(Invalidation(r) \/ Ending(r) \/ Hook(r) \/ Fill(r))

FairSpec == Spec /\ Fairness

----------------------------------------------------------------------------
(* Properties. *)

Versions == Nat \cup {None}
Labels == {"idle", "run", "publish", "bump", "drop", "committed", "hooks",
           "cancelled", "done", "miss", "joined", "recheck", "load", "loadAll",
           "fetch", "store", "compare", "put"}

TypeDb ==
    /\ committed \in [Keys -> Nat]
    /\ durable \in [Keys -> SUBSET Nat]
    /\ last \in [Keys -> Nat]
    /\ priv \in [Reqs -> [Keys -> Versions]]
    /\ overtaken \in [Keys -> SUBSET Nat]

TypeTx ==
    /\ reg \in [Reqs -> {"none", "pending", "committed", "aborted"}]
    /\ published \in [Reqs -> BOOLEAN]
    /\ hooks \in [Reqs -> Seq(Scopes)]
    /\ pass \in [Reqs -> {"Immediate", "Committed", "RolledBack", "Remote"}]

TypeCache ==
    /\ entry \in [Keys -> Versions]
    /\ lock \in Reqs \cup {None}
    /\ gen \in [Stripes -> Nat]
    /\ genAll \in Nat

TypeCalls ==
    /\ pc \in [Reqs -> Labels]
    /\ cur \in [Reqs -> Scopes]
    /\ captured \in [Reqs -> Nat]
    /\ seen \in [Reqs -> Nat]
    /\ val \in [Reqs -> Nat]

TypeFlights ==
    /\ flight \in [Keys -> Reqs \cup {None}]
    /\ tries \in [Reqs -> Nat]
    /\ ops \in Nat

(* Every variable has its type. *)
TypeOK == TypeDb /\ TypeTx /\ TypeCache /\ TypeCalls /\ TypeFlights

(* A pass over k waits in r's registry. *)
Registered(r, k) == \E i \in 1..Len(hooks[r]) : k \in Covers(hooks[r][i])

(* r still has an invalidation of k to run whose fence bump is to come; a   *)
(* write inside a transaction counts once its first pass has begun.         *)
OwesBump(r, k) ==
    \/ Registered(r, k)
    \/ /\ pc[r] = "bump" \/ (pc[r] = "publish" /\ reg[r] = "none")
       /\ k \in Covers(cur[r])

(* r still has a deletion of k to perform. *)
OwesDrop(r, k) == OwesBump(r, k) \/ (pc[r] = "drop" /\ k \in Covers(cur[r]))

(* A cached value differs from the committed row only while a request still *)
(* has to drop the key: once the passes of Publish have run, no fill that   *)
(* overlapped them has left a stale value behind (Gen, FillGuard).  The one *)
(* exception is the version a commit of unknown outcome replaced when the   *)
(* database applied it after the registry had been aborted, and only until  *)
(* the key's fence moves again.                                             *)
Coherent ==
    \A k \in Keys : entry[k] \in {None, committed[k]} \cup overtaken[k]
                        \/ \E r \in Reqs : OwesDrop(r, k)

(* A version no transaction committed is never in the shared cache, neither *)
(* while its writer is open nor after it rolled back: a fill of a           *)
(* transaction that published a change is refused (txhook.Published).       *)
NoUncommittedEntry ==
    \A k \in Keys : entry[k] # None => entry[k] \in durable[k]

(* A flight's record is owned by a live leader: nobody waits on a flight    *)
(* whose leader has left it.                                                *)
FlightsAreLed ==
    \A k \in Keys :
        /\ flight[k] # None =>
             /\ cur[flight[k]] = k
             /\ pc[flight[k]] \in {"recheck", "load", "loadAll", "fetch",
                                   "store", "compare", "put"}
        /\ flight[k] = None => Joined(k) = {}

(* A caller of GetOrFill returns, whether it leads, joins, or joins flights *)
(* whose leaders leave.                                                     *)
CallsReturn ==
    \A r \in Reqs : pc[r] = "miss" ~> pc[r] \in {"run", "cancelled"}

(* A stale entry does not stay: it is dropped, or overwritten by the        *)
(* committed value, once the requests that published the change have ended; *)
(* only what a late commit replaced may stay for its TTL.                   *)
StaleEntriesGo ==
    \A k \in Keys : entry[k] \notin {None, committed[k]} \cup overtaken[k]
                        ~> entry[k] \in {None, committed[k]}
=============================================================================
