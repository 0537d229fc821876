------------------------ MODULE CacheCoherence_proof ------------------------
(***************************************************************************)
(* Proofs about CacheCoherence, for every set of requests, keys and        *)
(* stripes.                                                                *)
(***************************************************************************)
EXTENDS CacheCoherence, TLAPS

Filling == {"miss", "joined", "recheck", "load", "loadAll", "fetch", "store",
            "compare", "put"}

(* The mutex is held across steps only by the fill between its check and   *)
(* its store.                                                              *)
LockOwned == \A r \in Reqs : pc[r] \in {"compare", "put"} => lock = r

(* GetOrFill works on one key. *)
CallKeys == \A r \in Reqs : pc[r] \in Filling => cur[r] \in Keys

(* Until a transaction has ended, the pass under way is the Immediate one,  *)
(* and afterwards nothing is left to commit, unless the commit failed and   *)
(* the database has not decided it yet.                                     *)
InPhase(r) ==
    /\ pc[r] \notin {"hooks", "bump", "drop", "done"} => pass[r] = "Immediate"
    /\ pc[r] \in {"idle", "committed", "hooks", "done"} \/ pass[r] # "Immediate"
         => reg[r] = "aborted" \/ \A k \in Keys : priv[r][k] = None
    /\ reg[r] = "aborted" =>
         pc[r] \in {"hooks", "bump", "drop", "done"} /\ pass[r] = "RolledBack"

PassPhase == \A r \in Reqs : InPhase(r)

(* A write that is open is announced: its transaction is marked, unless it  *)
(* is about to be, and the pass that follows its outcome is registered, or  *)
(* will be by the pass under way.                                          *)
Announced(r, k) ==
    /\ reg[r] = "pending"
    /\ published[r] \/ pc[r] = "publish"
    /\ \/ Registered(r, k)
       \/ pc[r] \in {"publish", "bump", "drop"} /\ k \in Covers(cur[r])

WritesAnnounced ==
    \A r \in Reqs, k \in Keys :
        priv[r][k] # None /\ reg[r] # "aborted" => Announced(r, k)

CommittedDurable == \A k \in Keys : committed[k] \in durable[k]

(* The generation of a key now. *)
Now(k) == gen[StripeOf[k]] + genAll

(* Generations only grow. *)
GenBounds ==
    \A r \in Reqs :
        /\ pc[r] \in {"loadAll", "compare"} => seen[r] <= gen[StripeOf[cur[r]]]
        /\ pc[r] \in {"fetch", "store"} => captured[r] <= Now(cur[r])
        /\ pc[r] = "compare" => captured[r] <= seen[r] + genAll

(* What a fill holds is a committed version, or it will be refused. *)
FillCommitted ==
    \A r \in Reqs :
        /\ pc[r] = "store" => Published(r) \/ val[r] \in durable[cur[r]]
        /\ pc[r] \in {"compare", "put"} => val[r] \in durable[cur[r]]

(* The version is the committed one, or the one a late commit replaced      *)
(* since the key's fence last moved.                                        *)
Fresh(k, v) == v = committed[k] \/ v \in overtaken[k]

(* What a fill holds is fresh, or someone still has to bump its fence, or *)
(* its fence has moved; past the check, someone still has to drop the key.  *)
FillFresh ==
    \A r \in Reqs :
        /\ pc[r] = "store" /\ captured[r] = Now(cur[r]) =>
             \/ Published(r)
             \/ Fresh(cur[r], val[r])
             \/ \E w \in Reqs : OwesBump(w, cur[r])
        /\ pc[r] = "put" \/ (pc[r] = "compare" /\ seen[r] + genAll = captured[r]) =>
             \/ Fresh(cur[r], val[r])
             \/ \E w \in Reqs : OwesDrop(w, cur[r])

(* What a request owes, it owes until it has done it. *)
OwesPersist ==
    \A w \in Reqs, k \in Keys :
        /\ OwesBump(w, k) => OwesBump(w, k)' \/ (Bump(w) /\ k \in Covers(cur[w]))
        /\ OwesDrop(w, k) => OwesDrop(w, k)' \/ (Drop(w) /\ k \in Covers(cur[w]))

(* What was fresh stays so, unless the key's fence is yet to move, or has   *)
(* just been moved by a request that still has to drop the key.             *)
FreshKept ==
    \A k \in Keys : \A v :
        Fresh(k, v) => \/ Fresh(k, v)'
                       \/ \E w \in Reqs : OwesBump(w, k)'
                       \/ \E w \in Reqs : Bump(w) /\ k \in Covers(cur[w])

SameFill(q) ==
    /\ val'[q] = val[q] /\ cur'[q] = cur[q] /\ captured'[q] = captured[q]
    /\ reg'[q] = reg[q] /\ published'[q] = published[q]

(* How a fill gets to each of its stages. *)
EarlyStages ==
    \A q \in Reqs : pc'[q] \in {"loadAll", "fetch"} =>
        \/ pc'[q] = "loadAll" /\ LoadStripe(q)
        \/ pc'[q] = "fetch" /\ LoadAll(q)
        \/ /\ pc'[q] = pc[q] /\ cur'[q] = cur[q]
           /\ seen'[q] = seen[q] /\ captured'[q] = captured[q]

FillStages ==
    \A q \in Reqs :
        /\ pc'[q] = "store" => Fetch(q) \/ (pc[q] = "store" /\ SameFill(q))
        /\ pc'[q] = "compare" =>
             StoreIf(q) \/ (pc[q] = "compare" /\ SameFill(q) /\ seen'[q] = seen[q])
        /\ pc'[q] = "put" => Compare(q) \/ (pc[q] = "put" /\ SameFill(q))

GensGrown ==
    /\ \A s \in Stripes : gen[s] <= gen'[s]
    /\ genAll <= genAll'

Inv == /\ TypeOK /\ LockOwned /\ CallKeys /\ PassPhase /\ WritesAnnounced
       /\ CommittedDurable /\ GenBounds /\ FillCommitted /\ FillFresh
       /\ Coherent /\ NoUncommittedEntry

----------------------------------------------------------------------------
(* Lemmas about single steps. *)

(* A step of a fill of r touches neither the database nor the registries    *)
(* nor the generations, and moves no other request but those that joined.   *)
FillOnly(r) ==
    /\ UNCHANGED <<committed, durable, last, priv, overtaken, reg, published, hooks,
                   pass, gen, genAll, cur>>
    /\ pc[r] \in Filling \ {"joined"}
    /\ pc' \in [Reqs -> Labels]
    /\ pc'[r] \in Filling \cup {"run", "cancelled"}
    /\ \A j \in Reqs \ {r} :
         pc'[j] = pc[j] \/ (pc[j] = "joined" /\ pc'[j] \in {"miss", "run"})

(* The end of a fill moves its caller to where it returns, and of the *)
(* others only callers that had joined its flight.                    *)
LEMMA FinishMoves ==
    ASSUME TypeCalls, NEW r \in Reqs, NEW label \in Labels, NEW gone \in BOOLEAN,
           Finish(r, label, gone)
    PROVE  /\ pc' \in [Reqs -> Labels]
           /\ pc'[r] = label
           /\ \A j \in Reqs \ {r} :
                pc'[j] = pc[j] \/ (pc[j] = "joined" /\ pc'[j] \in {"miss", "run"})
  BY DEF TypeCalls, Labels, Finish, Joined

(* A step of GetOrFill touches no row, transaction or generation, and no *)
(* program counter but the caller's and those of callers that joined.    *)
LEMMA FillIsLocal ==
    ASSUME TypeCalls, NEW r \in Reqs, Fill(r)
    PROVE  FillOnly(r)
<1> USE DEF TypeCalls, Labels, Filling, FillOnly, Goto, dbVars, txVars, genVars
<1>1. CASE JoinOrLead(r) BY <1>1 DEF JoinOrLead
<1>2. CASE LoadStripe(r) \/ LoadAll(r) \/ Fetch(r)
  BY <1>2 DEF LoadStripe, LoadAll, Fetch
<1>3. ASSUME NEW label \in {"run", "cancelled"}, NEW gone \in BOOLEAN,
             Finish(r, label, gone), pc[r] \in Filling \ {"joined"},
             UNCHANGED <<dbVars, txVars, genVars, cur>>
      PROVE  FillOnly(r)
  <2>1. label \in Labels OBVIOUS
  <2> QED BY <1>3, <2>1, FinishMoves
<1>4. CASE Recheck(r)
  <2>1. CASE entry[cur[r]] # None
    <3>1. Finish(r, "run", FALSE) BY <1>4, <2>1 DEF Recheck
    <3> QED BY <1>4, <1>3, <3>1 DEF Recheck
  <2>2. CASE entry[cur[r]] = None BY <1>4, <2>2 DEF Recheck
  <2> QED BY <2>1, <2>2
<1>5. CASE FetchFails(r) BY <1>5, <1>3 DEF FetchFails
<1>6. CASE FetchAbandoned(r) BY <1>6, <1>3 DEF FetchAbandoned
<1>7. CASE StoreIf(r)
  <2>1. CASE Published(r)
    <3>1. Finish(r, "run", FALSE) BY <1>7, <2>1 DEF StoreIf
    <3> QED BY <1>7, <1>3, <3>1 DEF StoreIf
  <2>2. CASE ~Published(r) BY <1>7, <2>2 DEF StoreIf
  <2> QED BY <2>1, <2>2
<1>8. CASE Compare(r)
  <2>1. CASE seen[r] + genAll = captured[r] BY <1>8, <2>1 DEF Compare
  <2>2. CASE seen[r] + genAll # captured[r]
    <3>1. Finish(r, "run", FALSE) BY <1>8, <2>2 DEF Compare
    <3> QED BY <1>8, <1>3, <3>1 DEF Compare
  <2> QED BY <2>1, <2>2
<1>9. CASE Put(r) BY <1>9, <1>3 DEF Put
<1> QED BY <1>1, <1>2, <1>4, <1>5, <1>6, <1>7, <1>8, <1>9 DEF Fill

(* What waits in a registry, as it is left alone, extended and taken from. *)
LEMMA RegisteredKept ==
    ASSUME NEW r, NEW k, hooks'[r] = hooks[r]
    PROVE  Registered(r, k)' <=> Registered(r, k)
  BY DEF Registered

(* Registering a hook keeps the passes that were registered and adds the *)
(* keys of the new one.                                                  *)
LEMMA RegisteredAppend ==
    ASSUME TypeTx, NEW r \in Reqs, NEW k, NEW s \in Scopes,
           hooks'[r] = Append(hooks[r], s)
    PROVE  Registered(r, k) \/ k \in Covers(s) => Registered(r, k)'
<1> DEFINE h == hooks[r]
<1>1. h \in Seq(Scopes) BY DEF TypeTx
<1>2. /\ Len(Append(h, s)) = Len(h) + 1
      /\ Append(h, s)[Len(h) + 1] = s
      /\ \A i \in 1..Len(h) : Append(h, s)[i] = h[i]
  BY <1>1
<1>3. Len(h) \in Nat BY <1>1
<1> HIDE DEF h
<1>4. hooks'[r] = Append(h, s) BY DEF h
<1>5. CASE k \in Covers(s)
  <2>1. Len(h) + 1 \in 1..Len(hooks'[r]) BY <1>2, <1>3, <1>4
  <2> QED BY <1>2, <1>4, <1>5, <2>1 DEF Registered
<1>6. CASE Registered(r, k)
  <2>1. PICK i \in 1..Len(h) : k \in Covers(h[i]) BY <1>6 DEF Registered, h
  <2>2. i \in 1..Len(hooks'[r]) /\ hooks'[r][i] = h[i] BY <1>2, <1>3, <1>4, <2>1
  <2> QED BY <2>1, <2>2 DEF Registered
<1> QED BY <1>5, <1>6

(* Taking the first hook loses no registered pass but that hook's own. *)
LEMMA RegisteredTail ==
    ASSUME TypeTx, NEW r \in Reqs, NEW k, hooks[r] # <<>>,
           hooks'[r] = Tail(hooks[r])
    PROVE  Registered(r, k) => k \in Covers(Head(hooks[r])) \/ Registered(r, k)'
<1> SUFFICES ASSUME Registered(r, k), k \notin Covers(Head(hooks[r]))
             PROVE  Registered(r, k)'
  OBVIOUS
<1>1. hooks[r] \in Seq(Scopes) BY DEF TypeTx
<1>2. PICK i \in 1..Len(hooks[r]) : k \in Covers(hooks[r][i]) BY DEF Registered
<1>3. i # 1 BY <1>1, <1>2
<1>4. /\ Len(hooks'[r]) = Len(hooks[r]) - 1
      /\ i - 1 \in 1..Len(hooks'[r])
      /\ hooks'[r][i - 1] = hooks[r][i]
  BY <1>1, <1>2, <1>3
<1> QED BY <1>2, <1>4 DEF Registered

----------------------------------------------------------------------------
(* Types. *)

(* The rows, committed, private and durable, keep their types. *)
LEMMA TypeDbStep == Inv /\ [Next]_vars => TypeDb'
<1> USE CoherenceAssumption DEF dbVars, Versions
<1> SUFFICES ASSUME Inv, [Next]_vars PROVE TypeDb' OBVIOUS
<1>0. TypeDb /\ TypeCalls BY DEF Inv, TypeOK
<1> USE DEF TypeDb
<1>1. ASSUME NEW r \in Reqs, NEW s \in Scopes, Mutate(r, s) PROVE TypeDb'
  <2>1. last' \in [Keys -> Nat] BY <1>0, <1>1 DEF Mutate
  <2>2. committed' \in [Keys -> Nat] BY <1>0, <1>1, <2>1 DEF Mutate
  <2>3. durable' \in [Keys -> SUBSET Nat]
    <3>1. CASE reg[r] = "pending" BY <1>0, <1>1, <3>1 DEF Mutate
    <3>2. CASE reg[r] = "none"
      <4>1. \A k \in Keys : durable[k] \cup {last'[k]} \in SUBSET Nat BY <1>0, <2>1
      <4>2. durable' = [k \in Keys |-> IF k \in Covers(s) THEN durable[k] \cup {last'[k]}
                                       ELSE durable[k]]
        BY <1>1, <3>2 DEF Mutate
      <4> QED BY <1>0, <4>1, <4>2
    <3> QED BY <1>1, <3>1, <3>2 DEF Mutate
  <2>4. priv' \in [Reqs -> [Keys -> Versions]]
    <3>1. CASE reg[r] = "pending"
      <4> DEFINE mine == [k \in Keys |-> IF k \in Covers(s) THEN last'[k] ELSE priv[r][k]]
      <4>1. priv' = [priv EXCEPT ![r] = mine] BY <1>1, <3>1 DEF Mutate
      <4>2. mine \in [Keys -> Versions] BY <1>0, <2>1
      <4> QED BY <1>0, <4>1, <4>2
    <3>2. CASE reg[r] = "none" BY <1>0, <1>1, <3>2 DEF Mutate
    <3> QED BY <1>1, <3>1, <3>2 DEF Mutate
  <2>5. overtaken' = overtaken BY <1>1 DEF Mutate
  <2> QED BY <1>0, <2>1, <2>2, <2>3, <2>4, <2>5
<1>2. ASSUME NEW r \in Reqs, Commit(r) \/ EndLimbo(r) \/ Rollback(r) PROVE TypeDb'
  <2>1. ASSUME ApplyWrites(r)
        PROVE  committed' \in [Keys -> Nat] /\ durable' \in [Keys -> SUBSET Nat]
    <3>1. \A k \in Keys : priv[r][k] # None => priv[r][k] \in Nat BY <1>0
    <3>2. \A k \in Keys : priv[r][k] # None => durable[k] \cup {priv[r][k]} \in SUBSET Nat
      BY <1>0, <3>1
    <3>3. \A k \in Keys : durable[k] \in SUBSET Nat BY <1>0
    <3>4. durable' \in [Keys -> SUBSET Nat] BY <2>1, <3>2, <3>3 DEF ApplyWrites
    <3> QED BY <1>0, <2>1, <3>1, <3>4 DEF ApplyWrites
  <2>2. last' = last /\ priv' \in [Reqs -> [Keys -> Versions]]
    BY <1>0, <1>2 DEF Commit, EndLimbo, Rollback, ForgetWrites
  <2>3. ApplyWrites(r) \/ UNCHANGED <<committed, durable>>
    BY <1>2 DEF Commit, EndLimbo, Rollback
  <2>4. overtaken' \in [Keys -> SUBSET Nat]
    <3>1. CASE overtaken' = overtaken BY <1>0, <3>1
    <3>2. CASE overtaken' = [k \in Keys |-> IF priv[r][k] # None
                                            THEN overtaken[k] \cup {committed[k]}
                                            ELSE overtaken[k]]
      <4>1. \A k \in Keys : /\ overtaken[k] \cup {committed[k]} \in SUBSET Nat
                             /\ overtaken[k] \in SUBSET Nat
        BY <1>0
      <4> QED BY <3>2, <4>1
    <3> QED BY <1>2, <3>1, <3>2 DEF Commit, EndLimbo, Rollback
  <2> QED BY <1>0, <2>1, <2>2, <2>3, <2>4
<1>b. ASSUME NEW r \in Reqs, Bump(r) PROVE TypeDb'
  <2>1. overtaken' = [k \in Keys |-> IF k \in Covers(cur[r]) THEN {} ELSE overtaken[k]]
        /\ UNCHANGED <<committed, durable, last, priv>>
    BY <1>b DEF Bump
  <2>2. \A k \in Keys : {} \in SUBSET Nat /\ overtaken[k] \in SUBSET Nat BY <1>0
  <2> QED BY <1>0, <2>1, <2>2
<1>3. CASE UNCHANGED dbVars BY <1>0, <1>3
<1>4. ASSUME NEW r \in Reqs, Begin(r) \/ Publish(r) \/ Drop(r) \/ RunHooks(r)
                             \/ CommitFails(r) \/ End(r) \/ Hook(r)
      PROVE  UNCHANGED dbVars
  BY <1>4 DEF Begin, Publish, Drop, RunHooks, CommitFails, End, Hook, NextHook, HooksDone
<1>5. ASSUME NEW r \in Reqs, Fill(r) PROVE UNCHANGED dbVars
  BY <1>0, <1>5, FillIsLocal DEF FillOnly
<1>6. ASSUME NEW r \in Reqs, NEW s \in Scopes, DeliverRemote(r, s) PROVE UNCHANGED dbVars
  BY <1>6 DEF DeliverRemote
<1>7. ASSUME NEW r \in Reqs, NEW k \in Keys, Lookup(r, k) PROVE UNCHANGED dbVars
  BY <1>7 DEF Lookup
<1>8. ASSUME NEW k \in Keys, Evict(k) PROVE UNCHANGED dbVars BY <1>8 DEF Evict
<1>9. CASE UNCHANGED vars BY <1>3, <1>9 DEF vars
<1> QED BY <1>1, <1>2, <1>b, <1>3, <1>4, <1>5, <1>6, <1>7, <1>8, <1>9
        DEF Next, Invalidation, Ending

(* The transactions, their hooks and their marks keep their types. *)
LEMMA TypeTxStep == Inv /\ [Next]_vars => TypeTx'
<1> USE CoherenceAssumption DEF txVars, Scopes
<1> SUFFICES ASSUME Inv, [Next]_vars PROVE TypeTx' OBVIOUS
<1>0. TypeTx /\ TypeCalls BY DEF Inv, TypeOK
<1> USE DEF TypeTx, TypeCalls
<1>1. ASSUME NEW r \in Reqs, Begin(r) \/ Publish(r) \/ Bump(r) PROVE TypeTx'
  BY <1>0, <1>1 DEF Begin, Publish, Bump
<1>2. ASSUME NEW r \in Reqs, Drop(r) PROVE TypeTx' BY <1>0, <1>2 DEF Drop
<1>3. ASSUME NEW r \in Reqs, Ending(r) PROVE TypeTx'
  BY <1>0, <1>3 DEF Ending, Commit, RunHooks, Rollback, CommitFails, End, Abort
<1>4. ASSUME NEW r \in Reqs, Hook(r) PROVE TypeTx'
  <2>1. CASE NextHook(r)
    <3>1. Tail(hooks[r]) \in Seq(Scopes) BY <1>0, <2>1 DEF NextHook
    <3> QED BY <1>0, <2>1, <3>1 DEF NextHook
  <2>2. CASE HooksDone(r) BY <1>0, <2>2 DEF HooksDone
  <2> QED BY <1>4, <2>1, <2>2 DEF Hook
<1>5. ASSUME NEW r \in Reqs, NEW s \in Scopes, Mutate(r, s) \/ DeliverRemote(r, s)
      PROVE  TypeTx'
  BY <1>0, <1>5 DEF Mutate, DeliverRemote
<1>6. ASSUME NEW r \in Reqs, NEW k \in Keys, Lookup(r, k) PROVE TypeTx'
  BY <1>0, <1>6 DEF Lookup
<1>7. ASSUME NEW r \in Reqs, Fill(r) PROVE TypeTx'
  BY <1>0, <1>7, FillIsLocal DEF FillOnly
<1>8. ASSUME NEW k \in Keys, Evict(k) PROVE TypeTx' BY <1>0, <1>8 DEF Evict
<1>9. CASE UNCHANGED vars BY <1>0, <1>9 DEF vars
<1>e. ASSUME NEW r \in Reqs, EndLimbo(r) PROVE TypeTx'
  BY <1>0, <1>e DEF EndLimbo
<1> QED BY <1>e, <1>1, <1>2, <1>3, <1>4, <1>5, <1>6, <1>7, <1>8, <1>9 DEF Next, Invalidation

(* The entries, the mutex of the cache and the generations keep their *)
(* types.                                                             *)
LEMMA TypeCacheStep == Inv /\ [Next]_vars => TypeCache'
<1> USE CoherenceAssumption DEF genVars, Versions, Scopes
<1> SUFFICES ASSUME Inv, [Next]_vars PROVE TypeCache' OBVIOUS
<1>0. TypeCache /\ TypeCalls /\ CallKeys BY DEF Inv, TypeOK
<1> USE DEF TypeCache, TypeCalls
<1>1. ASSUME NEW r \in Reqs, Bump(r) \/ Drop(r) PROVE TypeCache'
  <2>1. CASE Bump(r)
    <3>1. entry' = entry /\ lock' = lock BY <2>1 DEF Bump
    <3>2. CASE cur[r] = AllKeys BY <1>0, <2>1, <3>1, <3>2 DEF Bump
    <3>3. CASE cur[r] # AllKeys
      <4>1. genAll' = genAll /\ gen' = [gen EXCEPT ![StripeOf[cur[r]]] = @ + 1]
        BY <2>1, <3>3 DEF Bump
      <4>2. StripeOf[cur[r]] \in Stripes BY <1>0, <3>3
      <4> QED BY <1>0, <3>1, <4>1, <4>2
    <3> QED BY <3>2, <3>3
  <2>2. CASE Drop(r) BY <1>0, <2>2 DEF Drop
  <2> QED BY <1>1, <2>1, <2>2
<1>2. CASE UNCHANGED <<entry, lock, genVars>> BY <1>0, <1>2
<1>3. ASSUME NEW r \in Reqs, Begin(r) \/ Publish(r) \/ Ending(r) \/ Hook(r)
      PROVE  UNCHANGED <<entry, lock, genVars>>
  BY <1>3 DEF Begin, Publish, Ending, Commit, RunHooks, Rollback, CommitFails, End,
     Hook, NextHook, HooksDone
<1>4. ASSUME NEW r \in Reqs, JoinOrLead(r) \/ Recheck(r) \/ LoadStripe(r) \/ LoadAll(r)
                             \/ Fetch(r) \/ FetchFails(r) \/ FetchAbandoned(r)
      PROVE  UNCHANGED <<entry, lock, genVars>>
  BY <1>4 DEF JoinOrLead, Recheck, LoadStripe, LoadAll, Fetch, FetchFails, FetchAbandoned
<1>5. ASSUME NEW r \in Reqs, StoreIf(r) \/ Compare(r) \/ Put(r) PROVE TypeCache'
  BY <1>0, <1>5 DEF StoreIf, Compare, Put, CallKeys, Filling
<1>6. ASSUME NEW r \in Reqs, NEW s \in Scopes, Mutate(r, s) \/ DeliverRemote(r, s)
      PROVE  UNCHANGED <<entry, lock, genVars>>
  BY <1>6 DEF Mutate, DeliverRemote
<1>7. ASSUME NEW r \in Reqs, NEW k \in Keys, Lookup(r, k) PROVE UNCHANGED <<entry, lock, genVars>>
  BY <1>7 DEF Lookup
<1>8. ASSUME NEW k \in Keys, Evict(k) PROVE TypeCache' BY <1>0, <1>8 DEF Evict
<1>9. CASE UNCHANGED vars BY <1>2, <1>9 DEF vars
<1>e. ASSUME NEW r \in Reqs, EndLimbo(r) PROVE UNCHANGED <<entry, lock, genVars>>
  BY <1>e DEF EndLimbo
<1> QED BY <1>e, <1>1, <1>2, <1>3, <1>4, <1>5, <1>6, <1>7, <1>8, <1>9
        DEF Next, Invalidation, Fill

(* What the calls hold in their locals keeps its type. *)
LEMMA TypeCallsStep == Inv /\ [Next]_vars => TypeCalls'
<1> USE CoherenceAssumption DEF fillVars, Goto, Scopes
<1> SUFFICES ASSUME Inv, [Next]_vars PROVE TypeCalls' OBVIOUS
<1>0. TypeCalls /\ TypeDb /\ TypeTx /\ TypeCache /\ CallKeys BY DEF Inv, TypeOK
<1> USE DEF TypeCalls
<1>1. ASSUME NEW r \in Reqs, Begin(r) \/ Publish(r) \/ Bump(r) \/ Drop(r) PROVE TypeCalls'
  BY <1>0, <1>1 DEF Begin, Publish, Bump, Drop, AfterPass, Labels
<1>2. ASSUME NEW r \in Reqs, Ending(r) PROVE TypeCalls'
  BY <1>0, <1>2 DEF Ending, Commit, RunHooks, Rollback, CommitFails, End, Abort, Labels
<1>3. ASSUME NEW r \in Reqs, Hook(r) PROVE TypeCalls'
  <2>1. CASE NextHook(r)
    <3>1. Head(hooks[r]) \in Scopes BY <1>0, <2>1 DEF NextHook, TypeTx
    <3> QED BY <1>0, <2>1, <3>1 DEF NextHook, Labels
  <2>2. CASE HooksDone(r) BY <1>0, <2>2 DEF HooksDone, Labels
  <2> QED BY <1>3, <2>1, <2>2 DEF Hook
<1>4. ASSUME NEW r \in Reqs, NEW s \in Scopes, Mutate(r, s) \/ DeliverRemote(r, s)
      PROVE  TypeCalls'
  BY <1>0, <1>4 DEF Mutate, DeliverRemote, Labels
<1>5. ASSUME NEW r \in Reqs, NEW k \in Keys, Lookup(r, k) PROVE TypeCalls'
  BY <1>0, <1>5 DEF Lookup, Labels
<1>6. ASSUME NEW r \in Reqs, Fill(r) PROVE TypeCalls'
  <2>1. pc' \in [Reqs -> Labels] /\ cur' = cur BY <1>0, <1>6, FillIsLocal DEF FillOnly
  <2>2. captured' \in [Reqs -> Nat] /\ seen' \in [Reqs -> Nat]
    <3>1. CASE JoinOrLead(r) \/ Recheck(r) \/ Fetch(r) \/ FetchFails(r) \/ FetchAbandoned(r)
               \/ Compare(r) \/ Put(r)
      BY <1>0, <3>1 DEF JoinOrLead, Recheck, Fetch, FetchFails, FetchAbandoned, Compare, Put
    <3>2. CASE LoadStripe(r) \/ LoadAll(r) \/ StoreIf(r)
      <4>1. cur[r] \in Keys
        BY <1>0, <3>2 DEF LoadStripe, LoadAll, StoreIf, CallKeys, Filling
      <4>2. gen[StripeOf[cur[r]]] \in Nat /\ genAll \in Nat BY <1>0, <4>1 DEF TypeCache
      <4>3. CASE LoadStripe(r) BY <1>0, <4>2, <4>3 DEF LoadStripe
      <4>4. CASE LoadAll(r) BY <1>0, <4>2, <4>4 DEF LoadAll
      <4>5. CASE StoreIf(r) BY <1>0, <4>2, <4>5 DEF StoreIf
      <4> QED BY <3>2, <4>3, <4>4, <4>5
    <3> QED BY <1>6, <3>1, <3>2 DEF Fill
  <2>3. val' \in [Reqs -> Nat]
    <3>1. CASE Fetch(r)
      <4>1. cur[r] \in Keys BY <1>0, <3>1 DEF Fetch, CallKeys, Filling
      <4> QED BY <1>0, <3>1, <4>1 DEF Fetch, TypeDb, Versions
    <3>2. CASE val' = val BY <1>0, <3>2
    <3> QED BY <1>6, <3>1, <3>2 DEF Fill, JoinOrLead, Recheck, LoadStripe, LoadAll,
               FetchFails, FetchAbandoned, StoreIf, Compare, Put
  <2> QED BY <1>0, <2>1, <2>2, <2>3
<1>7. ASSUME NEW k \in Keys, Evict(k) PROVE TypeCalls' BY <1>0, <1>7 DEF Evict
<1>8. CASE UNCHANGED vars BY <1>0, <1>8 DEF vars
<1>e. ASSUME NEW r \in Reqs, EndLimbo(r) PROVE TypeCalls'
  BY <1>0, <1>e DEF EndLimbo
<1> QED BY <1>e, <1>1, <1>2, <1>3, <1>4, <1>5, <1>6, <1>7, <1>8 DEF Next, Invalidation

(* The flights and the count of operations keep their types. *)
LEMMA TypeFlightsStep == Inv /\ [Next]_vars => TypeFlights'
<1> USE CoherenceAssumption DEF fillVars
<1> SUFFICES ASSUME Inv, [Next]_vars PROVE TypeFlights' OBVIOUS
<1>0. TypeFlights /\ TypeCalls /\ CallKeys BY DEF Inv, TypeOK
<1> USE DEF TypeFlights, TypeCalls
<1>1. ASSUME NEW r \in Reqs, NEW label, NEW gone, Finish(r, label, gone), ops' = ops
      PROVE  TypeFlights'
  <2>1. flight' \in [Keys -> Reqs \cup {None}] BY <1>0, <1>1 DEF Finish
  <2>2. tries' \in [Reqs -> Nat]
    <3> DEFINE more(j) == tries[j] + 1
    <3>1. PICK hit \in SUBSET Reqs :
            tries' = [j \in Reqs |-> IF j \in hit THEN more(j) ELSE tries[j]]
      <4> DEFINE hit == {j \in Reqs : gone /\ j \in (IF flight[cur[r]] = r
                                                    THEN Joined(cur[r]) ELSE {})}
      <4>1. tries' = [j \in Reqs |-> IF j \in hit THEN more(j) ELSE tries[j]]
        BY <1>1 DEF Finish
      <4> QED BY <4>1
    <3> QED BY <1>0, <3>1
  <2> QED BY <1>0, <1>1, <2>1, <2>2
<1>2. CASE UNCHANGED <<flight, tries, ops>> BY <1>0, <1>2
<1>3. ASSUME NEW r \in Reqs, Begin(r) \/ Invalidation(r) \/ Ending(r) \/ Hook(r)
      PROVE  UNCHANGED <<flight, tries, ops>>
  BY <1>3 DEF Begin, Invalidation, Publish, Bump, Drop, Ending, Commit, RunHooks, Rollback,
     CommitFails, End, Hook, NextHook, HooksDone
<1>4. ASSUME NEW r \in Reqs, JoinOrLead(r) PROVE TypeFlights'
  BY <1>0, <1>4 DEF JoinOrLead
<1>5. ASSUME NEW r \in Reqs, LoadStripe(r) \/ LoadAll(r) \/ Fetch(r)
      PROVE  UNCHANGED <<flight, tries, ops>>
  BY <1>5 DEF LoadStripe, LoadAll, Fetch
<1>6. ASSUME NEW r \in Reqs, Recheck(r) \/ FetchFails(r) \/ FetchAbandoned(r) \/ StoreIf(r)
                             \/ Compare(r) \/ Put(r)
      PROVE  \/ \E label, gone : Finish(r, label, gone) /\ ops' = ops
             \/ UNCHANGED <<flight, tries, ops>>
  BY <1>6 DEF Recheck, FetchFails, FetchAbandoned, StoreIf, Compare, Put
<1>7. ASSUME NEW r \in Reqs, NEW s \in Scopes, Mutate(r, s) \/ DeliverRemote(r, s)
      PROVE  TypeFlights'
  BY <1>0, <1>7 DEF Mutate, DeliverRemote
<1>8. ASSUME NEW r \in Reqs, NEW k \in Keys, Lookup(r, k) PROVE TypeFlights'
  BY <1>0, <1>8 DEF Lookup
<1>9. ASSUME NEW k \in Keys, Evict(k) PROVE TypeFlights' BY <1>0, <1>9 DEF Evict
<1>10. CASE UNCHANGED vars BY <1>2, <1>10 DEF vars
<1>e. ASSUME NEW r \in Reqs, EndLimbo(r) PROVE UNCHANGED <<flight, tries, ops>>
  BY <1>e DEF EndLimbo
<1> QED BY <1>e, <1>1, <1>2, <1>3, <1>4, <1>5, <1>6, <1>7, <1>8, <1>9, <1>10 DEF Next, Fill

(* How a caller comes to be behind its read: by Fetch, storeIf or Compare, *)
(* or it was there before and nothing it holds has changed.                *)
LEMMA FillStage == Inv /\ [Next]_vars => FillStages
<1> USE CoherenceAssumption DEF Goto, dbVars, txVars, genVars, fillVars, Labels
<1> SUFFICES ASSUME Inv, [Next]_vars, NEW q \in Reqs,
                    pc'[q] \in {"store", "compare", "put"}
    PROVE  \/ pc'[q] = "store" /\ Fetch(q)
           \/ pc'[q] = "compare" /\ StoreIf(q)
           \/ pc'[q] = "put" /\ Compare(q)
           \/ pc'[q] = pc[q] /\ SameFill(q) /\ seen'[q] = seen[q]
  BY DEF FillStages
<1> DEFINE Same == pc'[q] = pc[q] /\ SameFill(q) /\ seen'[q] = seen[q]
<1>0. TypeTx /\ TypeCalls BY DEF Inv, TypeOK
<1> USE DEF TypeTx, TypeCalls, SameFill
<1>1. ASSUME NEW r \in Reqs, Begin(r) \/ Publish(r) \/ Bump(r) \/ Drop(r) PROVE Same
  BY <1>0, <1>1 DEF Begin, Publish, Bump, Drop, AfterPass
<1>2. ASSUME NEW r \in Reqs, Ending(r) \/ Hook(r) PROVE Same
  BY <1>0, <1>2 DEF Ending, Hook, Commit, RunHooks, Rollback, CommitFails, End, Abort,
     NextHook, HooksDone
<1>3. ASSUME NEW r \in Reqs, NEW s \in Scopes, Mutate(r, s) \/ DeliverRemote(r, s) PROVE Same
  BY <1>0, <1>3 DEF Mutate, DeliverRemote
<1>4. ASSUME NEW r \in Reqs, NEW k \in Keys, Lookup(r, k) PROVE Same
  BY <1>0, <1>4 DEF Lookup
<1>5. ASSUME NEW r \in Reqs, Fill(r), r # q PROVE Same
  <2>1. FillOnly(r) BY <1>0, <1>5, FillIsLocal
  <2>2. pc'[q] = pc[q] BY <1>5, <2>1 DEF FillOnly
  <2>3. val'[q] = val[q] /\ captured'[q] = captured[q] /\ seen'[q] = seen[q]
    BY <1>0, <1>5 DEF Fill, JoinOrLead, Recheck, LoadStripe, LoadAll, Fetch, FetchFails,
       FetchAbandoned, StoreIf, Compare, Put
  <2> QED BY <2>1, <2>2, <2>3 DEF FillOnly
<1>6. ASSUME Fill(q)
      PROVE  \/ pc'[q] = "store" /\ Fetch(q)
             \/ pc'[q] = "compare" /\ StoreIf(q)
             \/ pc'[q] = "put" /\ Compare(q)
  <2>1. CASE JoinOrLead(q) BY <1>0, <2>1 DEF JoinOrLead
  <2>2. CASE Recheck(q) BY <1>0, <2>2 DEF Recheck, Finish
  <2>3. CASE LoadStripe(q) \/ LoadAll(q) \/ Fetch(q)
    BY <1>0, <2>3 DEF LoadStripe, LoadAll, Fetch
  <2>4. CASE FetchFails(q) \/ FetchAbandoned(q) \/ Put(q)
    BY <1>0, <2>4 DEF FetchFails, FetchAbandoned, Put, Finish
  <2>5. CASE StoreIf(q)
    <3>1. CASE Published(q) BY <1>0, <2>5, <3>1 DEF StoreIf, Finish
    <3>2. CASE ~Published(q) BY <1>0, <2>5, <3>2 DEF StoreIf
    <3> QED BY <3>1, <3>2
  <2>6. CASE Compare(q)
    <3>1. CASE seen[q] + genAll = captured[q] BY <1>0, <2>6, <3>1 DEF Compare
    <3>2. CASE seen[q] + genAll # captured[q] BY <1>0, <2>6, <3>2 DEF Compare, Finish
    <3> QED BY <3>1, <3>2
  <2> QED BY <1>6, <2>1, <2>2, <2>3, <2>4, <2>5, <2>6 DEF Fill
<1>7. ASSUME NEW k \in Keys, Evict(k) PROVE Same BY <1>0, <1>7 DEF Evict
<1>8. CASE UNCHANGED vars BY <1>0, <1>8 DEF vars
<1>e. ASSUME NEW r \in Reqs, EndLimbo(r) PROVE Same
  BY <1>0, <1>e DEF EndLimbo
<1> QED BY <1>e, <1>1, <1>2, <1>3, <1>4, <1>5, <1>6, <1>7, <1>8 DEF Next, Invalidation

(* The same for a caller between its two loads of the generations and its *)
(* read.                                                                  *)
LEMMA EarlyStage == Inv /\ [Next]_vars => EarlyStages
<1> USE CoherenceAssumption DEF Goto, dbVars, txVars, genVars, fillVars, Labels
<1> SUFFICES ASSUME Inv, [Next]_vars, NEW q \in Reqs, pc'[q] \in {"loadAll", "fetch"}
    PROVE  \/ pc'[q] = "loadAll" /\ LoadStripe(q)
           \/ pc'[q] = "fetch" /\ LoadAll(q)
           \/ /\ pc'[q] = pc[q] /\ cur'[q] = cur[q]
              /\ seen'[q] = seen[q] /\ captured'[q] = captured[q]
  BY DEF EarlyStages
<1> DEFINE Same == /\ pc'[q] = pc[q] /\ cur'[q] = cur[q]
                   /\ seen'[q] = seen[q] /\ captured'[q] = captured[q]
<1>0. TypeCalls BY DEF Inv, TypeOK
<1> USE DEF TypeCalls
<1>1. ASSUME NEW r \in Reqs, Begin(r) \/ Publish(r) \/ Bump(r) \/ Drop(r) PROVE Same
  BY <1>0, <1>1 DEF Begin, Publish, Bump, Drop, AfterPass
<1>2. ASSUME NEW r \in Reqs, Ending(r) \/ Hook(r) PROVE Same
  BY <1>0, <1>2 DEF Ending, Hook, Commit, RunHooks, Rollback, CommitFails, End, Abort,
     NextHook, HooksDone
<1>3. ASSUME NEW r \in Reqs, NEW s \in Scopes, Mutate(r, s) \/ DeliverRemote(r, s) PROVE Same
  BY <1>0, <1>3 DEF Mutate, DeliverRemote
<1>4. ASSUME NEW r \in Reqs, NEW k \in Keys, Lookup(r, k) PROVE Same
  BY <1>0, <1>4 DEF Lookup
<1>5. ASSUME NEW r \in Reqs, Fill(r), r # q PROVE Same
  <2>1. FillOnly(r) BY <1>0, <1>5, FillIsLocal
  <2>2. pc'[q] = pc[q] /\ cur'[q] = cur[q] BY <1>5, <2>1 DEF FillOnly
  <2>3. captured'[q] = captured[q] /\ seen'[q] = seen[q]
    BY <1>0, <1>5 DEF Fill, JoinOrLead, Recheck, LoadStripe, LoadAll, Fetch, FetchFails,
       FetchAbandoned, StoreIf, Compare, Put
  <2> QED BY <2>2, <2>3
<1>6. ASSUME Fill(q)
      PROVE  (pc'[q] = "loadAll" /\ LoadStripe(q)) \/ (pc'[q] = "fetch" /\ LoadAll(q))
  <2>1. CASE JoinOrLead(q) BY <1>0, <2>1 DEF JoinOrLead
  <2>2. CASE Recheck(q) BY <1>0, <2>2 DEF Recheck, Finish
  <2>3. CASE LoadStripe(q) \/ LoadAll(q) \/ Fetch(q)
    BY <1>0, <2>3 DEF LoadStripe, LoadAll, Fetch
  <2>4. CASE FetchFails(q) \/ FetchAbandoned(q) \/ Put(q)
    BY <1>0, <2>4 DEF FetchFails, FetchAbandoned, Put, Finish
  <2>5. CASE StoreIf(q)
    <3>1. CASE Published(q) BY <1>0, <2>5, <3>1 DEF StoreIf, Finish
    <3>2. CASE ~Published(q) BY <1>0, <2>5, <3>2 DEF StoreIf
    <3> QED BY <3>1, <3>2
  <2>6. CASE Compare(q)
    <3>1. CASE seen[q] + genAll = captured[q] BY <1>0, <2>6, <3>1 DEF Compare
    <3>2. CASE seen[q] + genAll # captured[q] BY <1>0, <2>6, <3>2 DEF Compare, Finish
    <3> QED BY <3>1, <3>2
  <2> QED BY <1>6, <2>1, <2>2, <2>3, <2>4, <2>5, <2>6 DEF Fill
<1>7. ASSUME NEW k \in Keys, Evict(k) PROVE Same BY <1>0, <1>7 DEF Evict
<1>8. CASE UNCHANGED vars BY <1>0, <1>8 DEF vars
<1>e. ASSUME NEW r \in Reqs, EndLimbo(r) PROVE Same
  BY <1>0, <1>e DEF EndLimbo
<1> QED BY <1>e, <1>1, <1>2, <1>3, <1>4, <1>5, <1>6, <1>7, <1>8 DEF Next, Invalidation

----------------------------------------------------------------------------
(* Locks, keys, generations and versions. *)

(* Whoever compares or puts holds the mutex of the cache. *)
LEMMA LockOwnedStep == Inv /\ [Next]_vars => LockOwned'
<1> USE CoherenceAssumption DEF Goto
<1> SUFFICES ASSUME Inv, [Next]_vars, NEW q \in Reqs, pc'[q] \in {"compare", "put"}
             PROVE  lock' = q
  BY DEF LockOwned
<1>0. TypeCalls /\ TypeCache /\ LockOwned BY DEF Inv, TypeOK
<1>1. FillStages BY FillStage
<1>2. CASE StoreIf(q) /\ pc'[q] = "compare"
  <2>1. ~Published(q) BY <1>0, <1>2 DEF StoreIf, Finish, TypeCalls
  <2> QED BY <1>2, <2>1 DEF StoreIf
<1>3. CASE Compare(q) /\ pc'[q] = "put"
  BY <1>0, <1>3 DEF Compare, Finish, TypeCalls, LockOwned
<1>4. CASE pc[q] \in {"compare", "put"} /\ pc'[q] = pc[q]
  <2>1. lock = q BY <1>0, <1>4 DEF LockOwned
  <2>2. ASSUME NEW r \in Reqs, StoreIf(r) \/ Compare(r) \/ Put(r) PROVE lock' = lock
    <3>1. ~StoreIf(r) BY <2>1 DEF StoreIf
    <3>2. pc[r] \in {"compare", "put"} BY <2>2, <3>1 DEF Compare, Put
    <3>3. r = q BY <1>0, <2>1, <3>2 DEF LockOwned
    <3>4. ~Put(q) BY <1>0, <1>4 DEF Put, Finish, TypeCalls
    <3>5. ASSUME Compare(q) PROVE FALSE
      <4>1. pc[q] = "compare" BY <3>5 DEF Compare
      <4>2. CASE seen[q] + genAll = captured[q]
        BY <1>0, <1>4, <3>5, <4>1, <4>2 DEF Compare, TypeCalls
      <4>3. CASE seen[q] + genAll # captured[q]
        BY <1>0, <1>4, <3>5, <4>1, <4>3 DEF Compare, Finish, TypeCalls
      <4> QED BY <4>2, <4>3
    <3> QED BY <2>2, <3>1, <3>3, <3>4, <3>5
  <2>3. ASSUME NEW r \in Reqs, Begin(r) \/ Invalidation(r) \/ Ending(r) \/ Hook(r)
        PROVE  lock' = lock
    BY <2>3 DEF Begin, Invalidation, Publish, Bump, Drop, Ending, Commit, RunHooks, Rollback,
       CommitFails, End, Hook, NextHook, HooksDone
  <2>4. ASSUME NEW r \in Reqs, JoinOrLead(r) \/ Recheck(r) \/ LoadStripe(r) \/ LoadAll(r)
                               \/ Fetch(r) \/ FetchFails(r) \/ FetchAbandoned(r)
        PROVE  lock' = lock
    BY <2>4 DEF JoinOrLead, Recheck, LoadStripe, LoadAll, Fetch, FetchFails, FetchAbandoned
  <2>5. ASSUME NEW r \in Reqs, NEW s \in Scopes, Mutate(r, s) \/ DeliverRemote(r, s)
        PROVE  lock' = lock
    BY <2>5 DEF Mutate, DeliverRemote
  <2>6. ASSUME NEW r \in Reqs, NEW k \in Keys, Lookup(r, k) PROVE lock' = lock
    BY <2>6 DEF Lookup
  <2>7. ASSUME NEW k \in Keys, Evict(k) PROVE lock' = lock BY <2>7 DEF Evict
  <2>8. ASSUME UNCHANGED vars PROVE lock' = lock BY <2>8 DEF vars
  <2>e. ASSUME NEW r \in Reqs, EndLimbo(r) PROVE lock' = lock BY <2>e DEF EndLimbo
  <2>9. lock' = lock
    BY <2>e, <2>2, <2>3, <2>4, <2>5, <2>6, <2>7, <2>8 DEF Next, Fill
  <2> QED BY <2>1, <2>9
<1> QED BY <1>1, <1>2, <1>3, <1>4 DEF FillStages

(* A caller of GetOrFill has a key in hand. *)
LEMMA CallKeysStep == Inv /\ [Next]_vars => CallKeys'
<1> USE CoherenceAssumption DEF Goto, Labels, Filling
<1> SUFFICES ASSUME Inv, [Next]_vars, NEW q \in Reqs, pc'[q] \in Filling
             PROVE  cur'[q] \in Keys
  BY DEF CallKeys
<1>0. TypeCalls /\ (pc[q] \in Filling => cur[q] \in Keys) BY DEF Inv, TypeOK, CallKeys
<1> USE DEF TypeCalls
<1>1. ASSUME NEW r \in Reqs, Begin(r) \/ Publish(r) \/ Bump(r) \/ Drop(r)
      PROVE  cur'[q] \in Keys
  BY <1>0, <1>1 DEF Begin, Publish, Bump, Drop, AfterPass
<1>2. ASSUME NEW r \in Reqs, Ending(r) \/ Hook(r) PROVE cur'[q] \in Keys
  BY <1>0, <1>2 DEF Ending, Commit, RunHooks, Rollback, CommitFails, End, Abort, Hook,
     NextHook, HooksDone
<1>3. ASSUME NEW r \in Reqs, NEW s \in Scopes, Mutate(r, s) \/ DeliverRemote(r, s)
      PROVE  cur'[q] \in Keys
  BY <1>0, <1>3 DEF Mutate, DeliverRemote
<1>4. ASSUME NEW r \in Reqs, NEW k \in Keys, Lookup(r, k) PROVE cur'[q] \in Keys
  BY <1>0, <1>4 DEF Lookup
<1>5. ASSUME NEW r \in Reqs, Fill(r) PROVE cur'[q] \in Keys
  <2>1. FillOnly(r) BY <1>0, <1>5, FillIsLocal
  <2> QED BY <1>0, <2>1 DEF FillOnly
<1>6. ASSUME NEW k \in Keys, Evict(k) PROVE cur'[q] \in Keys BY <1>0, <1>6 DEF Evict
<1>7. CASE UNCHANGED vars BY <1>0, <1>7 DEF vars
<1>e. ASSUME NEW r \in Reqs, EndLimbo(r) PROVE cur'[q] \in Keys
  BY <1>0, <1>e DEF EndLimbo
<1> QED BY <1>e, <1>1, <1>2, <1>3, <1>4, <1>5, <1>6, <1>7 DEF Next, Invalidation

(* Versions once committed stay so, and what is committed is durable. *)
LEMMA CommittedDurableStep ==
    Inv /\ [Next]_vars => CommittedDurable' /\ \A k \in Keys : durable[k] \subseteq durable'[k]
<1> USE CoherenceAssumption DEF dbVars, CommittedDurable
<1> SUFFICES ASSUME Inv, [Next]_vars
             PROVE  CommittedDurable' /\ \A k \in Keys : durable[k] \subseteq durable'[k]
  OBVIOUS
<1>0. TypeDb /\ TypeCalls /\ CommittedDurable BY DEF Inv, TypeOK
<1> USE DEF TypeDb
<1> DEFINE Goal == CommittedDurable' /\ \A k \in Keys : durable[k] \subseteq durable'[k]
<1>1. ASSUME NEW r \in Reqs, NEW s \in Scopes, Mutate(r, s) PROVE Goal
  BY <1>0, <1>1 DEF Mutate
<1>2. ASSUME NEW r \in Reqs, ApplyWrites(r) PROVE Goal BY <1>0, <1>2 DEF ApplyWrites
<1>3. CASE UNCHANGED <<committed, durable>> BY <1>0, <1>3
<1>4. ASSUME NEW r \in Reqs, Begin(r) \/ Invalidation(r) \/ Ending(r) \/ Hook(r)
      PROVE  ApplyWrites(r) \/ UNCHANGED <<committed, durable>>
  BY <1>4 DEF Begin, Invalidation, Publish, Bump, Drop, Ending, Commit, RunHooks, Rollback,
     CommitFails, End, Hook, NextHook, HooksDone
<1>5. ASSUME NEW r \in Reqs, Fill(r) PROVE UNCHANGED <<committed, durable>>
  BY <1>0, <1>5, FillIsLocal DEF FillOnly
<1>6. ASSUME NEW r \in Reqs, NEW s \in Scopes, DeliverRemote(r, s)
      PROVE  UNCHANGED <<committed, durable>>
  BY <1>6 DEF DeliverRemote
<1>7. ASSUME NEW r \in Reqs, NEW k \in Keys, Lookup(r, k) PROVE UNCHANGED <<committed, durable>>
  BY <1>7 DEF Lookup
<1>8. ASSUME NEW k \in Keys, Evict(k) PROVE UNCHANGED <<committed, durable>> BY <1>8 DEF Evict
<1>9. CASE UNCHANGED vars BY <1>3, <1>9 DEF vars
<1>e. ASSUME NEW r \in Reqs, EndLimbo(r) PROVE ApplyWrites(r) \/ UNCHANGED <<committed, durable>>
  BY <1>e DEF EndLimbo
<1> QED BY <1>e, <1>1, <1>2, <1>3, <1>4, <1>5, <1>6, <1>7, <1>8, <1>9 DEF Next

(* A pass is where its transaction's phase lets it be: the immediate pass *)
(* before the end, a hook's pass after it.                                *)
LEMMA PassPhaseStep == Inv /\ [Next]_vars => PassPhase'
<1> USE CoherenceAssumption DEF Goto, dbVars, txVars, genVars, fillVars, Labels, InPhase
<1> SUFFICES ASSUME Inv, [Next]_vars, NEW j \in Reqs PROVE InPhase(j)'
  BY DEF PassPhase
<1>0. TypeTx /\ TypeCalls /\ TypeDb /\ InPhase(j) /\ WritesAnnounced
  BY DEF Inv, TypeOK, PassPhase
<1> USE DEF TypeTx, TypeCalls, TypeDb
<1>1. ASSUME NEW r \in Reqs, Begin(r) \/ Publish(r) \/ Bump(r) \/ Drop(r) PROVE InPhase(j)'
  BY <1>0, <1>1 DEF Begin, Publish, Bump, Drop, AfterPass
<1>2. ASSUME NEW r \in Reqs, Commit(r) \/ RunHooks(r) \/ Rollback(r) \/ CommitFails(r)
      PROVE  InPhase(j)'
  BY <1>0, <1>2 DEF Commit, RunHooks, Rollback, CommitFails, ForgetWrites, Abort
<1>3. ASSUME NEW r \in Reqs, End(r) PROVE InPhase(j)'
  <2>1. reg[r] # "aborted" /\ reg[r] # "pending" BY <1>3 DEF End
  <2> QED BY <1>0, <1>3, <2>1 DEF End, WritesAnnounced, Announced
<1>4. ASSUME NEW r \in Reqs, NextHook(r) \/ HooksDone(r) PROVE InPhase(j)'
  BY <1>0, <1>4 DEF NextHook, HooksDone
<1>5. ASSUME NEW r \in Reqs, NEW s \in Scopes, Mutate(r, s) PROVE InPhase(j)'
  <2>1. CASE j = r BY <1>0, <1>5, <2>1 DEF Mutate
  <2>2. CASE j # r
    <3>1. priv'[j] = priv[j] /\ pc'[j] = pc[j] /\ pass' = pass /\ reg' = reg
      BY <1>0, <1>5, <2>2 DEF Mutate
    <3> QED BY <1>0, <3>1
  <2> QED BY <2>1, <2>2
<1>6. ASSUME NEW r \in Reqs, NEW s \in Scopes, DeliverRemote(r, s) PROVE InPhase(j)'
  BY <1>0, <1>6 DEF DeliverRemote
<1>7. ASSUME NEW r \in Reqs, NEW k \in Keys, Lookup(r, k) PROVE InPhase(j)'
  BY <1>0, <1>7 DEF Lookup
<1>8. ASSUME NEW r \in Reqs, Fill(r) PROVE InPhase(j)'
  <2>1. FillOnly(r) BY <1>0, <1>8, FillIsLocal
  <2>2. pc'[j] = pc[j] \/ (pc[j] \in Filling /\ pc'[j] \in Filling \cup {"run", "cancelled"})
    BY <2>1 DEF FillOnly, Filling
  <2>3. priv' = priv /\ pass' = pass /\ reg' = reg BY <2>1 DEF FillOnly
  <2> QED BY <1>0, <2>2, <2>3 DEF Filling
<1>9. ASSUME NEW k \in Keys, Evict(k) PROVE InPhase(j)' BY <1>0, <1>9 DEF Evict
<1>10. CASE UNCHANGED vars BY <1>0, <1>10 DEF vars
<1>e. ASSUME NEW r \in Reqs, EndLimbo(r) PROVE InPhase(j)'
  BY <1>0, <1>e DEF EndLimbo, ForgetWrites
<1> QED BY <1>e, <1>1, <1>2, <1>3, <1>4, <1>5, <1>6, <1>7, <1>8, <1>9, <1>10
        DEF Next, Invalidation, Ending, Hook

(* An uncommitted write has its second pass registered, or the pass under *)
(* way is about to register it.                                           *)
LEMMA WritesAnnouncedStep == Inv /\ [Next]_vars => WritesAnnounced'
<1> USE CoherenceAssumption DEF Goto, dbVars, txVars, genVars, fillVars, Labels, Announced
<1> SUFFICES ASSUME Inv, [Next]_vars, NEW j \in Reqs, NEW x \in Keys, priv'[j][x] # None,
                    reg'[j] # "aborted"
             PROVE  Announced(j, x)'
  BY DEF WritesAnnounced
<1>0. TypeTx /\ TypeCalls /\ TypeDb /\ InPhase(j) /\ (priv[j][x] # None /\ reg[j] # "aborted" => Announced(j, x))
  BY DEF Inv, TypeOK, PassPhase, WritesAnnounced
<1> USE DEF TypeTx, TypeCalls, TypeDb
<1>a. ASSUME hooks'[j] = hooks[j] PROVE Registered(j, x)' <=> Registered(j, x)
  BY <1>a, RegisteredKept
<1>1. ASSUME NEW r \in Reqs, Begin(r) \/ Publish(r) \/ Bump(r) PROVE Announced(j, x)'
  <2>1. hooks' = hooks /\ priv' = priv BY <1>1 DEF Begin, Publish, Bump
  <2> QED BY <1>0, <1>1, <1>a, <2>1 DEF Begin, Publish, Bump, InPhase
<1>2. ASSUME NEW r \in Reqs, Drop(r) PROVE Announced(j, x)'
  <2>1. CASE j = r /\ pass[j] = "Immediate"
    <3>1. reg[j] = "pending" /\ hooks'[j] = Append(hooks[j], cur[j])
      BY <1>0, <1>2, <2>1 DEF Drop
    <3>2. Registered(j, x)' BY <1>0, <1>2, <2>1, <3>1, RegisteredAppend DEF Drop
    <3> QED BY <1>0, <1>2, <2>1, <3>1, <3>2 DEF Drop
  <2>2. CASE ~(j = r /\ pass[j] = "Immediate")
    <3>1. hooks'[j] = hooks[j] /\ j # r BY <1>0, <1>2, <2>2 DEF Drop, InPhase
    <3> QED BY <1>0, <1>2, <1>a, <3>1 DEF Drop
  <2> QED BY <2>1, <2>2
<1>3. ASSUME NEW r \in Reqs, Commit(r) \/ Rollback(r) \/ CommitFails(r)
      PROVE  Announced(j, x)'
  <2>1. j # r /\ hooks' = hooks
    BY <1>0, <1>3 DEF Commit, Rollback, CommitFails, ForgetWrites, Abort
  <2> QED BY <1>0, <1>3, <1>a, <2>1 DEF Commit, Rollback, CommitFails, ForgetWrites, Abort
<1>4. ASSUME NEW r \in Reqs, RunHooks(r) \/ HooksDone(r) \/ End(r) PROVE Announced(j, x)'
  <2>1. j # r /\ hooks' = hooks BY <1>0, <1>4 DEF RunHooks, HooksDone, End, InPhase
  <2> QED BY <1>0, <1>4, <1>a, <2>1 DEF RunHooks, HooksDone, End
<1>5. ASSUME NEW r \in Reqs, NextHook(r) PROVE Announced(j, x)'
  <2>1. j # r /\ hooks'[j] = hooks[j] BY <1>0, <1>5 DEF NextHook, InPhase
  <2> QED BY <1>0, <1>5, <1>a, <2>1 DEF NextHook
<1>6. ASSUME NEW r \in Reqs, NEW s \in Scopes, Mutate(r, s) PROVE Announced(j, x)'
  <2>0. hooks' = hooks /\ reg' = reg /\ published' = published BY <1>6 DEF Mutate
  <2>1. CASE j = r
    <3>1. CASE reg[r] = "pending" /\ x \in Covers(s)
      BY <1>0, <1>6, <2>0, <2>1, <3>1 DEF Mutate
    <3>2. CASE reg[r] # "pending" \/ x \notin Covers(s)
      <4>1. priv[j][x] # None BY <1>0, <1>6, <2>1, <3>2 DEF Mutate
      <4> QED BY <1>0, <1>6, <1>a, <2>0, <2>1, <4>1 DEF Mutate
    <3> QED BY <3>1, <3>2
  <2>2. CASE j # r
    <3>1. priv'[j] = priv[j] /\ pc'[j] = pc[j] /\ cur'[j] = cur[j]
      BY <1>0, <1>6, <2>2 DEF Mutate
    <3> QED BY <1>0, <1>a, <2>0, <3>1
  <2> QED BY <2>1, <2>2
<1>7. ASSUME NEW r \in Reqs, NEW s \in Scopes, DeliverRemote(r, s) PROVE Announced(j, x)'
  <2>1. j # r /\ hooks' = hooks BY <1>0, <1>7 DEF DeliverRemote, InPhase
  <2> QED BY <1>0, <1>7, <1>a, <2>1 DEF DeliverRemote
<1>8. ASSUME NEW r \in Reqs, NEW k \in Keys, Lookup(r, k) PROVE Announced(j, x)'
  BY <1>0, <1>8, <1>a DEF Lookup
<1>9. ASSUME NEW r \in Reqs, Fill(r) PROVE Announced(j, x)'
  <2>1. FillOnly(r) BY <1>0, <1>9, FillIsLocal
  <2>2. pc'[j] = pc[j] \/ pc[j] \in Filling BY <2>1 DEF FillOnly, Filling
  <2>3. UNCHANGED <<priv, hooks, reg, published, cur>> BY <2>1 DEF FillOnly
  <2> QED BY <1>0, <1>a, <2>2, <2>3 DEF Filling
<1>10. ASSUME NEW k \in Keys, Evict(k) PROVE Announced(j, x)' BY <1>0, <1>10, <1>a DEF Evict
<1>11. CASE UNCHANGED vars BY <1>0, <1>11, <1>a DEF vars
<1>e. ASSUME NEW r \in Reqs, EndLimbo(r) PROVE Announced(j, x)'
  BY <1>0, <1>e, <1>a DEF EndLimbo, ForgetWrites
<1> QED BY <1>e, <1>1, <1>2, <1>3, <1>4, <1>5, <1>6, <1>7, <1>8, <1>9, <1>10, <1>11
        DEF Next, Invalidation, Ending, Hook

(* What a request owes a key it owes until it has bumped the generation, or *)
(* dropped the entry.                                                       *)
LEMMA OwesKept == Inv /\ [Next]_vars => OwesPersist
<1> USE CoherenceAssumption DEF Goto, dbVars, txVars, genVars, fillVars, Labels,
        OwesBump, OwesDrop
<1> SUFFICES ASSUME Inv, [Next]_vars, NEW w \in Reqs, NEW x \in Keys
    PROVE  /\ OwesBump(w, x) => OwesBump(w, x)' \/ (Bump(w) /\ x \in Covers(cur[w]))
           /\ OwesDrop(w, x) => OwesDrop(w, x)' \/ (Drop(w) /\ x \in Covers(cur[w]))
  BY DEF OwesPersist
<1> DEFINE Goal ==
           /\ OwesBump(w, x) => OwesBump(w, x)' \/ (Bump(w) /\ x \in Covers(cur[w]))
           /\ OwesDrop(w, x) => OwesDrop(w, x)' \/ (Drop(w) /\ x \in Covers(cur[w]))
<1>0. TypeTx /\ TypeCalls BY DEF Inv, TypeOK
<1> USE DEF TypeTx, TypeCalls
<1>a. ASSUME hooks'[w] = hooks[w] PROVE Registered(w, x)' <=> Registered(w, x)
  BY <1>a, RegisteredKept
<1>1. ASSUME NEW r \in Reqs, Begin(r) \/ Publish(r) PROVE Goal
  BY <1>0, <1>1, <1>a DEF Begin, Publish
<1>2. ASSUME NEW r \in Reqs, Bump(r) PROVE Goal
  <2>1. hooks' = hooks /\ reg' = reg /\ cur' = cur BY <1>2 DEF Bump
  <2>2. CASE r = w BY <1>0, <1>2, <1>a, <2>1, <2>2 DEF Bump
  <2>3. CASE r # w
    <3>1. pc'[w] = pc[w] BY <1>0, <1>2, <2>3 DEF Bump
    <3> QED BY <1>a, <2>1, <3>1
  <2> QED BY <2>2, <2>3
<1>3. ASSUME NEW r \in Reqs, Drop(r) PROVE Goal
  <2>1. Registered(w, x) => Registered(w, x)'
    <3>1. hooks'[w] = hooks[w] \/ hooks'[w] = Append(hooks[w], cur[w])
      BY <1>0, <1>3 DEF Drop
    <3> QED BY <1>0, <1>a, <3>1, RegisteredAppend
  <2>2. reg' = reg /\ cur' = cur BY <1>3 DEF Drop
  <2>3. CASE r = w
    <3>1. pc[w] = "drop" BY <1>3, <2>3 DEF Drop
    <3> QED BY <1>3, <2>1, <2>3, <3>1
  <2>4. CASE r # w
    <3>1. pc'[w] = pc[w] BY <1>0, <1>3, <2>4 DEF Drop
    <3> QED BY <2>1, <2>2, <3>1
  <2> QED BY <2>3, <2>4
<1>4. ASSUME NEW r \in Reqs, Commit(r) \/ Rollback(r) \/ CommitFails(r) PROVE Goal
  BY <1>0, <1>4, <1>a DEF Commit, Rollback, CommitFails, Abort
<1>5. ASSUME NEW r \in Reqs, RunHooks(r) \/ HooksDone(r) \/ End(r) PROVE Goal
  BY <1>0, <1>5, <1>a DEF RunHooks, HooksDone, End
<1>6. ASSUME NEW r \in Reqs, NextHook(r) PROVE Goal
  <2>1. CASE r = w
    <3>1. /\ hooks[w] # <<>> /\ hooks'[w] = Tail(hooks[w])
          /\ pc[w] = "hooks" /\ pc'[w] = "bump" /\ cur'[w] = Head(hooks[w])
      BY <1>0, <1>6, <2>1 DEF NextHook
    <3>2. Registered(w, x) => x \in Covers(cur'[w]) \/ Registered(w, x)'
      BY <1>0, <3>1, RegisteredTail
    <3> QED BY <3>1, <3>2 DEF Covers
  <2>2. CASE r # w BY <1>0, <1>6, <1>a, <2>2 DEF NextHook
  <2> QED BY <2>1, <2>2
<1>7. ASSUME NEW r \in Reqs, NEW s \in Scopes, Mutate(r, s) \/ DeliverRemote(r, s) PROVE Goal
  <2>1. hooks' = hooks /\ reg' = reg BY <1>7 DEF Mutate, DeliverRemote
  <2>2. CASE r = w BY <1>0, <1>7, <1>a, <2>1, <2>2 DEF Mutate, DeliverRemote
  <2>3. CASE r # w
    <3>1. pc'[w] = pc[w] /\ cur'[w] = cur[w]
      BY <1>0, <1>7, <2>3 DEF Mutate, DeliverRemote
    <3> QED BY <1>a, <2>1, <3>1
  <2> QED BY <2>2, <2>3
<1>8. ASSUME NEW r \in Reqs, NEW k \in Keys, Lookup(r, k) PROVE Goal
  BY <1>0, <1>8, <1>a DEF Lookup
<1>9. ASSUME NEW r \in Reqs, Fill(r) PROVE Goal
  <2>1. FillOnly(r) BY <1>0, <1>9, FillIsLocal
  <2>2. pc'[w] = pc[w] \/ pc[w] \in Filling BY <2>1 DEF FillOnly, Filling
  <2>3. UNCHANGED <<hooks, reg, cur>> BY <2>1 DEF FillOnly
  <2> QED BY <1>0, <1>a, <2>2, <2>3 DEF Filling
<1>10. ASSUME NEW k \in Keys, Evict(k) PROVE Goal BY <1>0, <1>10, <1>a DEF Evict
<1>11. CASE UNCHANGED vars BY <1>0, <1>11, <1>a DEF vars
<1>e. ASSUME NEW r \in Reqs, EndLimbo(r) PROVE Goal
  BY <1>0, <1>e, <1>a DEF EndLimbo
<1> QED BY <1>e, <1>1, <1>2, <1>3, <1>4, <1>5, <1>6, <1>7, <1>8, <1>9, <1>10, <1>11
        DEF Next, Invalidation, Ending, Hook

(* Whoever commits a change of a row owes its key a bump from then on; a    *)
(* commit the replica was not told of leaves the version it replaced        *)
(* overtaken, which a bump of the key ends.                                 *)
LEMMA FreshStays == Inv /\ [Next]_vars => FreshKept
<1> USE CoherenceAssumption DEF Goto, dbVars, txVars, genVars, fillVars, Labels
<1> SUFFICES ASSUME Inv, [Next]_vars, NEW x \in Keys, NEW v, Fresh(x, v)
             PROVE  \/ Fresh(x, v)'
                    \/ \E w \in Reqs : OwesBump(w, x)'
                    \/ \E w \in Reqs : Bump(w) /\ x \in Covers(cur[w])
  BY DEF FreshKept
<1> DEFINE Goal == \/ Fresh(x, v)'
                   \/ \E w \in Reqs : OwesBump(w, x)'
                   \/ \E w \in Reqs : Bump(w) /\ x \in Covers(cur[w])
<1>0. TypeTx /\ TypeCalls /\ TypeDb /\ WritesAnnounced BY DEF Inv, TypeOK
<1>1. ASSUME NEW r \in Reqs, NEW s \in Scopes, Mutate(r, s) PROVE Goal
  <2>1. CASE committed'[x] = committed[x] BY <1>1, <2>1 DEF Mutate, Fresh
  <2>2. CASE committed'[x] # committed[x]
    <3>1. reg[r] = "none" /\ x \in Covers(s)
      BY <1>0, <1>1, <2>2 DEF Mutate, TypeDb
    <3>2. OwesBump(r, x)' BY <1>0, <1>1, <3>1 DEF Mutate, OwesBump, TypeCalls
    <3> QED BY <3>2
  <2> QED BY <2>1, <2>2
<1>2. ASSUME NEW r \in Reqs, Commit(r) PROVE Goal
  <2>1. overtaken' = overtaken /\ hooks' = hooks /\ pc[r] = "run" /\ reg[r] = "pending"
    BY <1>2 DEF Commit
  <2>2. CASE committed'[x] = committed[x] BY <2>1, <2>2 DEF Fresh
  <2>3. CASE committed'[x] # committed[x]
    <3>1. priv[r][x] # None BY <1>0, <1>2, <2>3 DEF Commit, ApplyWrites, TypeDb
    <3>2. Registered(r, x) BY <1>0, <2>1, <3>1 DEF WritesAnnounced, Announced
    <3>3. Registered(r, x)' BY <2>1, <3>2, RegisteredKept
    <3> QED BY <3>3 DEF OwesBump
  <2> QED BY <2>2, <2>3
<1>3. ASSUME NEW r \in Reqs, EndLimbo(r) PROVE Fresh(x, v)'
  BY <1>0, <1>3 DEF EndLimbo, ApplyWrites, Fresh, TypeDb
<1>4. ASSUME NEW r \in Reqs, Bump(r) PROVE Goal
  <2>1. CASE x \in Covers(cur[r]) BY <1>4, <2>1
  <2>2. CASE x \notin Covers(cur[r]) BY <1>4, <2>2 DEF Bump, Fresh
  <2> QED BY <2>1, <2>2
<1>5. CASE UNCHANGED <<committed, overtaken>> BY <1>5 DEF Fresh
<1>6. ASSUME NEW r \in Reqs, Begin(r) \/ Publish(r) \/ Drop(r) \/ RunHooks(r) \/ Rollback(r)
                             \/ CommitFails(r) \/ End(r) \/ NextHook(r) \/ HooksDone(r)
      PROVE  UNCHANGED <<committed, overtaken>>
  BY <1>6 DEF Begin, Publish, Drop, RunHooks, Rollback, CommitFails, End, NextHook, HooksDone
<1>7. ASSUME NEW r \in Reqs, Fill(r) PROVE UNCHANGED <<committed, overtaken>>
  BY <1>0, <1>7, FillIsLocal DEF FillOnly
<1>8. ASSUME NEW r \in Reqs, NEW s \in Scopes, DeliverRemote(r, s)
      PROVE  UNCHANGED <<committed, overtaken>>
  BY <1>8 DEF DeliverRemote
<1>9. ASSUME NEW r \in Reqs, NEW k \in Keys, Lookup(r, k) PROVE UNCHANGED <<committed, overtaken>>
  BY <1>9 DEF Lookup
<1>10. ASSUME NEW k \in Keys, Evict(k) PROVE UNCHANGED <<committed, overtaken>>
  BY <1>10 DEF Evict
<1>11. CASE UNCHANGED vars BY <1>5, <1>11 DEF vars
<1> QED BY <1>1, <1>2, <1>3, <1>4, <1>5, <1>6, <1>7, <1>8, <1>9, <1>10, <1>11
        DEF Next, Invalidation, Ending, Hook

(* After a bump the request still has to drop the key. *)
LEMMA BumpOwesDrop ==
    ASSUME TypeCalls, NEW w \in Reqs, NEW k, Bump(w), k \in Covers(cur[w])
    PROVE  OwesDrop(w, k)'
  BY DEF TypeCalls, Bump, Goto, OwesDrop

(* No step takes a generation back. *)
LEMMA GensGrow == Inv /\ [Next]_vars => GensGrown
<1> USE CoherenceAssumption DEF dbVars, txVars, genVars, fillVars, GensGrown
<1> SUFFICES ASSUME Inv, [Next]_vars PROVE GensGrown OBVIOUS
<1>0. TypeCache /\ TypeCalls BY DEF Inv, TypeOK
<1> USE DEF TypeCache, TypeCalls
<1>1. ASSUME NEW r \in Reqs, Bump(r) PROVE GensGrown BY <1>0, <1>1 DEF Bump
<1>2. CASE UNCHANGED <<gen, genAll>> BY <1>0, <1>2
<1>3. ASSUME NEW r \in Reqs, Begin(r) \/ Publish(r) \/ Drop(r) \/ Ending(r) \/ Hook(r)
      PROVE  UNCHANGED <<gen, genAll>>
  BY <1>3 DEF Begin, Publish, Drop, Ending, Commit, RunHooks, Rollback, CommitFails, End,
     Hook, NextHook, HooksDone
<1>4. ASSUME NEW r \in Reqs, Fill(r) PROVE UNCHANGED <<gen, genAll>>
  BY <1>0, <1>4, FillIsLocal DEF FillOnly
<1>5. ASSUME NEW r \in Reqs, NEW s \in Scopes, Mutate(r, s) \/ DeliverRemote(r, s)
      PROVE  UNCHANGED <<gen, genAll>>
  BY <1>5 DEF Mutate, DeliverRemote
<1>6. ASSUME NEW r \in Reqs, NEW k \in Keys, Lookup(r, k) PROVE UNCHANGED <<gen, genAll>>
  BY <1>6 DEF Lookup
<1>7. ASSUME NEW k \in Keys, Evict(k) PROVE UNCHANGED <<gen, genAll>> BY <1>7 DEF Evict
<1>8. CASE UNCHANGED vars BY <1>2, <1>8 DEF vars
<1>e. ASSUME NEW r \in Reqs, EndLimbo(r) PROVE UNCHANGED <<gen, genAll>>
  BY <1>e DEF EndLimbo, genVars
<1> QED BY <1>e, <1>1, <1>2, <1>3, <1>4, <1>5, <1>6, <1>7, <1>8 DEF Next, Invalidation

(* A bump that covers a key moves the key's generation. *)
LEMMA BumpMoves ==
    ASSUME TypeCache, TypeCalls, NEW w \in Reqs, NEW k \in Keys, Bump(w), k \in Covers(cur[w])
    PROVE  Now(k)' > Now(k)
  BY CoherenceAssumption DEF TypeCache, TypeCalls, Bump, Covers, Now, Scopes

(* What a caller captured of the generations is never ahead of them. *)
LEMMA GenBoundsStep == Inv /\ [Next]_vars => GenBounds'
<1> USE CoherenceAssumption DEF Goto
<1> SUFFICES ASSUME Inv, [Next]_vars, NEW q \in Reqs
    PROVE  /\ pc'[q] \in {"loadAll", "compare"} => seen'[q] <= gen'[StripeOf[cur'[q]]]
           /\ pc'[q] \in {"fetch", "store"} => captured'[q] <= Now(cur[q])'
           /\ pc'[q] = "compare" => captured'[q] <= seen'[q] + genAll'
  BY DEF GenBounds
<1>0. TypeCalls /\ TypeCache /\ GenBounds /\ CallKeys BY DEF Inv, TypeOK
<1>1. FillStages /\ GensGrown /\ EarlyStages BY FillStage, GensGrow, EarlyStage
<1>2. TypeCache' /\ TypeCalls' BY TypeCacheStep, TypeCallsStep
<1> USE DEF TypeCache, TypeCalls
<1>3. ASSUME NEW k \in Keys
      PROVE  /\ gen[StripeOf[k]] \in Nat /\ gen'[StripeOf[k]] \in Nat
             /\ gen[StripeOf[k]] <= gen'[StripeOf[k]] /\ genAll <= genAll'
             /\ genAll \in Nat /\ genAll' \in Nat
  BY <1>0, <1>1, <1>2 DEF GensGrown
<1>4. CASE pc'[q] = "loadAll"
  <2>1. cur[q] \in Keys /\ cur'[q] = cur[q]
    BY <1>0, <1>1, <1>4 DEF EarlyStages, CallKeys, Filling, LoadStripe
  <2>2. \/ seen'[q] = gen[StripeOf[cur[q]]]
        \/ seen'[q] = seen[q] /\ seen[q] <= gen[StripeOf[cur[q]]]
    BY <1>0, <1>1, <1>4 DEF EarlyStages, GenBounds, LoadStripe
  <2>3. seen[q] \in Nat /\ seen'[q] \in Nat BY <1>0, <1>2
  <2> QED BY <1>3, <1>4, <2>1, <2>2, <2>3
<1>5. CASE pc'[q] = "fetch"
  <2>1. cur[q] \in Keys /\ cur'[q] = cur[q]
    BY <1>0, <1>1, <1>5 DEF EarlyStages, CallKeys, Filling, LoadAll
  <2>2. captured'[q] <= Now(cur[q])
    <3>1. CASE LoadAll(q)
      <4>1. captured'[q] = seen[q] + genAll /\ seen[q] <= gen[StripeOf[cur[q]]]
        BY <1>0, <3>1 DEF LoadAll, GenBounds
      <4> QED BY <1>0, <1>3, <2>1, <4>1 DEF Now
    <3>2. CASE pc[q] = "fetch" /\ captured'[q] = captured[q] BY <1>0, <3>2 DEF GenBounds
    <3> QED BY <1>1, <1>5, <3>1, <3>2 DEF EarlyStages
  <2>3. captured'[q] \in Nat BY <1>2
  <2> QED BY <1>3, <1>5, <2>1, <2>2, <2>3 DEF Now
<1>6. CASE pc'[q] = "store"
  <2>1. /\ pc[q] \in {"fetch", "store"} /\ captured'[q] = captured[q] /\ cur'[q] = cur[q]
    BY <1>1, <1>6 DEF FillStages, Fetch, SameFill
  <2>2. cur[q] \in Keys BY <1>0, <2>1 DEF CallKeys, Filling
  <2>3. captured[q] <= Now(cur[q]) /\ captured[q] \in Nat BY <1>0, <2>1 DEF GenBounds
  <2> QED BY <1>3, <1>6, <2>1, <2>2, <2>3 DEF Now
<1>7. CASE pc'[q] = "compare"
  <2>1. CASE StoreIf(q)
    <3>1. ~Published(q) BY <1>0, <1>7, <2>1 DEF StoreIf, Finish
    <3>2. /\ pc[q] = "store" /\ captured' = captured /\ cur' = cur /\ gen' = gen
          /\ genAll' = genAll /\ seen'[q] = gen[StripeOf[cur[q]]]
      BY <1>0, <2>1, <3>1 DEF StoreIf, genVars
    <3>3. cur[q] \in Keys BY <1>0, <3>2 DEF CallKeys, Filling
    <3>4. captured[q] <= Now(cur[q]) BY <1>0, <3>2 DEF GenBounds
    <3> QED BY <1>3, <1>7, <3>2, <3>3, <3>4 DEF Now
  <2>2. CASE pc[q] = "compare" /\ SameFill(q) /\ seen'[q] = seen[q]
    <3>1. cur[q] \in Keys /\ cur'[q] = cur[q] /\ captured'[q] = captured[q]
      BY <1>0, <2>2 DEF CallKeys, Filling, SameFill
    <3>2. /\ seen[q] <= gen[StripeOf[cur[q]]] /\ captured[q] <= seen[q] + genAll
          /\ seen[q] \in Nat /\ captured[q] \in Nat
      BY <1>0, <2>2 DEF GenBounds
    <3> QED BY <1>3, <1>7, <2>2, <3>1, <3>2
  <2> QED BY <1>1, <1>7, <2>1, <2>2 DEF FillStages
<1> QED BY <1>4, <1>5, <1>6, <1>7

(* What a fill holds is durable, or its transaction is marked and storeIf *)
(* will refuse it.                                                        *)
LEMMA FillCommittedStep == Inv /\ [Next]_vars => FillCommitted'
<1> USE CoherenceAssumption
<1> SUFFICES ASSUME Inv, [Next]_vars, NEW q \in Reqs
    PROVE  /\ pc'[q] = "store" => Published(q)' \/ val'[q] \in durable'[cur'[q]]
           /\ pc'[q] \in {"compare", "put"} => val'[q] \in durable'[cur'[q]]
  BY DEF FillCommitted
<1>0. /\ TypeCalls /\ TypeDb /\ CallKeys /\ FillCommitted /\ WritesAnnounced
      /\ CommittedDurable
  BY DEF Inv, TypeOK
<1>1. FillStages /\ \A k \in Keys : durable[k] \subseteq durable'[k]
  BY FillStage, CommittedDurableStep
<1>2. CASE pc'[q] = "store" /\ Fetch(q)
  <2>1. /\ cur[q] \in Keys /\ cur' = cur /\ reg' = reg /\ published' = published
        /\ pc[q] = "fetch"
    BY <1>0, <1>2 DEF Fetch, CallKeys, Filling, txVars
  <2>2. CASE priv[q][cur[q]] # None
    <3>1. reg[q] # "aborted" BY <2>1 DEF Inv, PassPhase, InPhase
    <3> QED BY <1>0, <1>2, <2>1, <2>2, <3>1 DEF WritesAnnounced, Announced, Published
  <2>3. CASE priv[q][cur[q]] = None
    <3>1. val'[q] = committed[cur[q]] BY <1>0, <1>2, <2>3 DEF Fetch, TypeCalls
    <3> QED BY <1>0, <1>1, <1>2, <2>1, <3>1 DEF CommittedDurable
  <2> QED BY <2>2, <2>3
<1>3. CASE pc'[q] = pc[q] /\ pc[q] \in {"store", "compare", "put"} /\ SameFill(q)
  <2>1. cur[q] \in Keys BY <1>0, <1>3 DEF CallKeys, Filling
  <2> QED BY <1>0, <1>1, <1>3, <2>1 DEF FillCommitted, SameFill, Published
<1>4. CASE pc'[q] = "compare" /\ StoreIf(q)
  <2>1. ~Published(q) BY <1>0, <1>4 DEF StoreIf, Finish, TypeCalls
  <2>2. pc[q] = "store" /\ val' = val /\ cur' = cur BY <1>4 DEF StoreIf
  <2>3. cur[q] \in Keys BY <1>0, <2>2 DEF CallKeys, Filling
  <2> QED BY <1>0, <1>1, <1>4, <2>1, <2>2, <2>3 DEF FillCommitted
<1>5. CASE pc'[q] = "put" /\ Compare(q)
  <2>1. pc[q] = "compare" /\ val' = val /\ cur' = cur BY <1>5 DEF Compare
  <2>2. cur[q] \in Keys BY <1>0, <2>1 DEF CallKeys, Filling
  <2> QED BY <1>0, <1>1, <1>5, <2>1, <2>2 DEF FillCommitted
<1> QED BY <1>1, <1>2, <1>3, <1>4, <1>5 DEF FillStages

(* How the cache changes: a drop or an eviction empties, a fill that passed *)
(* its check stores, and nothing else touches it.                           *)
LEMMA EntryChange ==
    ASSUME Inv, [Next]_vars, NEW k \in Keys, entry'[k] # entry[k]
    PROVE  \/ entry'[k] = None
           \/ \E r \in Reqs : pc[r] = "put" /\ cur[r] = k /\ entry'[k] = val[r]
<1> DEFINE Goal == \/ entry'[k] = None
                   \/ \E r \in Reqs : pc[r] = "put" /\ cur[r] = k /\ entry'[k] = val[r]
<1>0. TypeCache BY DEF Inv, TypeOK
<1>1. ASSUME NEW r \in Reqs, Begin(r) \/ Publish(r) \/ Bump(r) \/ Ending(r) \/ Hook(r)
      PROVE  FALSE
  BY <1>1 DEF Begin, Publish, Bump, Ending, Commit, RunHooks, Rollback, CommitFails, End,
     Hook, NextHook, HooksDone
<1>2. ASSUME NEW r \in Reqs, Drop(r) PROVE Goal BY <1>0, <1>2 DEF Drop, TypeCache
<1>3. ASSUME NEW r \in Reqs, JoinOrLead(r) \/ Recheck(r) \/ LoadStripe(r) \/ LoadAll(r)
                             \/ Fetch(r) \/ FetchFails(r) \/ FetchAbandoned(r)
                             \/ StoreIf(r) \/ Compare(r)
      PROVE  FALSE
  BY <1>3 DEF JoinOrLead, Recheck, LoadStripe, LoadAll, Fetch, FetchFails, FetchAbandoned,
     StoreIf, Compare
<1>4. ASSUME NEW r \in Reqs, Put(r) PROVE Goal BY <1>0, <1>4 DEF Put, TypeCache
<1>5. ASSUME NEW r \in Reqs, NEW s \in Scopes, Mutate(r, s) \/ DeliverRemote(r, s) PROVE FALSE
  BY <1>5 DEF Mutate, DeliverRemote
<1>6. ASSUME NEW r \in Reqs, NEW x \in Keys, Lookup(r, x) PROVE FALSE BY <1>6 DEF Lookup
<1>7. ASSUME NEW x \in Keys, Evict(x) PROVE Goal BY <1>0, <1>7 DEF Evict, TypeCache
<1>8. CASE UNCHANGED vars BY <1>8 DEF vars
<1>e. ASSUME NEW r \in Reqs, EndLimbo(r) PROVE FALSE
  BY <1>e DEF EndLimbo
<1> QED BY <1>e, <1>1, <1>2, <1>3, <1>4, <1>5, <1>6, <1>7, <1>8 DEF Next, Invalidation, Fill

(* The only step that puts a value into the cache puts a durable one. *)
LEMMA NoUncommittedEntryStep == Inv /\ [Next]_vars => NoUncommittedEntry'
<1> SUFFICES ASSUME Inv, [Next]_vars, NEW k \in Keys, entry'[k] # None
             PROVE  entry'[k] \in durable'[k]
  BY DEF NoUncommittedEntry
<1>1. durable[k] \subseteq durable'[k] BY CommittedDurableStep
<1>2. CASE entry'[k] = entry[k] BY <1>1, <1>2 DEF Inv, NoUncommittedEntry
<1>3. CASE entry'[k] # entry[k] BY <1>1, <1>3, EntryChange DEF Inv, FillCommitted
<1> QED BY <1>2, <1>3

(* An entry becomes stale by a commit, which owes the key, or by a put, *)
(* whose fill is fresh or whose key is owed a drop.                     *)
LEMMA CoherentStep == Inv /\ [Next]_vars => Coherent'
<1> SUFFICES ASSUME Inv, [Next]_vars, NEW k \in Keys, entry'[k] # None
             PROVE  Fresh(k, entry[k])' \/ \E r \in Reqs : OwesDrop(r, k)'
  BY DEF Coherent, Fresh
<1>1. OwesPersist /\ FreshKept /\ TypeCalls BY OwesKept, FreshStays DEF Inv, TypeOK
<1> DEFINE v == entry'[k]
<1>2. Fresh(k, v) \/ \E w \in Reqs : OwesDrop(w, k)
  <2>1. CASE entry'[k] = entry[k] BY <2>1 DEF Inv, Coherent, Fresh
  <2>2. CASE entry'[k] # entry[k]
    <3>1. PICK r \in Reqs : pc[r] = "put" /\ cur[r] = k /\ entry'[k] = val[r]
      BY <2>2, EntryChange
    <3> QED BY <3>1 DEF Inv, FillFresh
  <2> QED BY <2>1, <2>2
<1>3. CASE Fresh(k, v)
  <2>1. \/ v = committed'[k] \/ v \in overtaken'[k]
        \/ \E w \in Reqs : OwesBump(w, k)'
        \/ \E w \in Reqs : Bump(w) /\ k \in Covers(cur[w])
    <3> HIDE DEF v
    <3> QED BY <1>1, <1>3 DEF FreshKept, Fresh
  <2>2. ASSUME NEW w \in Reqs, Bump(w), k \in Covers(cur[w]) PROVE OwesDrop(w, k)'
    BY <1>1, <2>2, BumpOwesDrop
  <2> QED BY <2>1, <2>2 DEF Fresh, OwesDrop
<1>4. ASSUME NEW w \in Reqs, OwesDrop(w, k) PROVE OwesDrop(w, k)'
  <2>1. ~(Drop(w) /\ k \in Covers(cur[w])) BY DEF Drop
  <2> QED BY <1>1, <1>4, <2>1 DEF OwesPersist
<1> QED BY <1>2, <1>3, <1>4

----------------------------------------------------------------------------
(* The conjuncts about fills and entries, from the lemmas above. *)

(* What a fill holds while its generation stands is current, or the key is *)
(* still owed a bump or a drop.                                            *)
LEMMA FillFreshStep == Inv /\ [Next]_vars => FillFresh'
<1> SUFFICES ASSUME Inv, [Next]_vars, NEW q \in Reqs, NEW k, k = cur[q]
    PROVE  /\ pc'[q] = "store" /\ captured'[q] = Now(cur[q])' =>
                \/ Published(q)'
                \/ Fresh(cur[q], val[q])'
                \/ \E w \in Reqs : OwesBump(w, cur[q])'
           /\ pc'[q] = "put" \/ (pc'[q] = "compare" /\ seen'[q] + genAll' = captured'[q]) =>
                \/ Fresh(cur[q], val[q])'
                \/ \E w \in Reqs : OwesDrop(w, cur[q])'
  BY DEF FillFresh
<1> USE CoherenceAssumption
<1>0. /\ TypeCache /\ TypeCalls /\ TypeDb /\ TypeTx
      /\ CallKeys /\ LockOwned /\ GenBounds /\ FillFresh /\ WritesAnnounced
  BY DEF Inv, TypeOK
<1>1. OwesPersist /\ FreshKept /\ FillStages /\ GensGrown
  BY OwesKept, FreshStays, FillStage, GensGrow
<1>t. TypeCache' BY TypeCacheStep
<1>2. ASSUME pc'[q] = "store", captured'[q] = Now(cur[q])', pc[q] = "store", SameFill(q)
      PROVE  Published(q)' \/ (val'[q] = committed'[k] \/ val'[q] \in overtaken'[k]) \/ \E w \in Reqs : OwesBump(w, k)'
  <2>1. k \in Keys /\ cur'[q] = k BY <1>0, <1>2 DEF CallKeys, Filling, SameFill
  <2>2. captured[q] = Now(k) /\ Now(k)' = Now(k)
    <3>1. captured[q] <= Now(k) BY <1>0, <1>2 DEF GenBounds
    <3>2. Now(k) <= Now(k)'
      BY <1>0, <1>1, <1>t, <2>1 DEF GensGrown, Now, TypeCache
    <3>3. Now(k) \in Int /\ Now(k)' \in Int /\ captured[q] = Now(k)'
      <4>1. Now(k) \in Int BY <1>0, <2>1 DEF Now, TypeCache
      <4>2. captured[q] = Now(k)' BY <1>2, <2>1 DEF SameFill, Now
      <4>3. captured[q] \in Int BY <1>0 DEF TypeCalls
      <4> QED BY <4>1, <4>2, <4>3
    <3> QED BY <3>1, <3>2, <3>3
  <2>3. Published(q) \/ Fresh(k, val[q]) \/ \E w \in Reqs : OwesBump(w, k)
    BY <1>0, <1>2, <2>2 DEF FillFresh
  <2>4. CASE Published(q) BY <1>2, <2>4 DEF Published, SameFill
  <2>5. CASE Fresh(k, val[q])
    <3>1. \/ val[q] = committed'[k] \/ val[q] \in overtaken'[k]
          \/ \E w \in Reqs : OwesBump(w, k)'
          \/ \E w \in Reqs : Bump(w) /\ k \in Covers(cur[w])
      BY <1>1, <2>1, <2>5 DEF FreshKept, Fresh
    <3>2. ASSUME NEW w \in Reqs, Bump(w), k \in Covers(cur[w]) PROVE FALSE
      <4>1. Now(k)' > Now(k) BY <1>0, <2>1, <3>2, BumpMoves
      <4>2. Now(k) \in Int BY <1>0, <2>1 DEF Now, TypeCache
      <4> QED BY <2>2, <4>1, <4>2
    <3> QED BY <1>2, <3>1, <3>2 DEF SameFill
  <2>6. ASSUME NEW w \in Reqs, OwesBump(w, k) PROVE OwesBump(w, k)'
    <3>1. CASE Bump(w) /\ k \in Covers(cur[w])
      <4>1. Now(k)' > Now(k) BY <1>0, <2>1, <3>1, BumpMoves
      <4>2. Now(k) \in Int BY <1>0, <2>1 DEF Now, TypeCache
      <4> QED BY <2>2, <4>1, <4>2
    <3> QED BY <1>1, <2>1, <2>6, <3>1 DEF OwesPersist
  <2> QED BY <2>3, <2>4, <2>5, <2>6
<1>3. ASSUME Fetch(q) PROVE Published(q)' \/ (val'[q] = committed'[k] \/ val'[q] \in overtaken'[k])
  <2>1. cur' = cur /\ committed' = committed /\ reg' = reg /\ published' = published
    BY <1>3 DEF Fetch, dbVars, txVars
  <2>2. CASE priv[q][k] = None BY <1>0, <1>3, <2>1, <2>2 DEF Fetch, TypeCalls
  <2>3. CASE priv[q][k] # None
    <3>1. k \in Keys /\ pc[q] = "fetch" BY <1>0, <1>3 DEF Fetch, CallKeys, Filling
    <3>2. reg[q] = "pending" /\ published[q]
      <4>1. reg[q] # "aborted" BY <3>1 DEF Inv, PassPhase, InPhase
      <4> QED BY <1>0, <2>3, <3>1, <4>1 DEF WritesAnnounced, Announced
    <3> QED BY <2>1, <3>2 DEF Published
  <2> QED BY <2>2, <2>3
<1>4. ASSUME pc[q] = "store", StoreIf(q), pc'[q] = "compare",
             seen'[q] + genAll' = captured'[q]
      PROVE  (val'[q] = committed'[k] \/ val'[q] \in overtaken'[k]) \/ \E w \in Reqs : OwesDrop(w, k)'
  <2>0. k \in Keys BY <1>0, <1>4 DEF CallKeys, Filling
  <2>1. /\ ~Published(q) /\ seen'[q] = gen[StripeOf[k]]
        /\ UNCHANGED <<genAll, gen, cur, captured, val, committed, overtaken>>
    <3>1. ~Published(q) BY <1>0, <1>4 DEF StoreIf, Finish, TypeCalls
    <3> QED BY <1>0, <1>4, <3>1 DEF StoreIf, dbVars, genVars, TypeCalls
  <2>2. captured[q] = Now(k) BY <1>4, <2>1 DEF Now
  <2>3. Fresh(k, val[q]) \/ \E w \in Reqs : OwesBump(w, k)
    BY <1>0, <1>4, <2>1, <2>2 DEF FillFresh
  <2>4. ASSUME NEW w \in Reqs, OwesBump(w, k) PROVE OwesBump(w, k)'
    <3>1. ~(Bump(w) /\ k \in Covers(cur[w]))
      <4>1. Now(k)' = Now(k) /\ Now(k) \in Int BY <1>0, <2>0, <2>1 DEF Now, TypeCache
      <4> QED BY <1>0, <2>0, <4>1, BumpMoves
    <3> QED BY <1>1, <2>0, <2>4, <3>1 DEF OwesPersist
  <2> QED BY <2>1, <2>3, <2>4 DEF OwesDrop, Fresh
<1>5. ASSUME pc[q] \in {"compare", "put"}, SameFill(q),
             Fresh(k, val[q]) \/ \E w \in Reqs : OwesDrop(w, k)
      PROVE  (val'[q] = committed'[k] \/ val'[q] \in overtaken'[k]) \/ \E w \in Reqs : OwesDrop(w, k)'
  <2>1. k \in Keys BY <1>0, <1>5 DEF CallKeys, Filling
  <2>2. CASE Fresh(k, val[q])
    <3>1. \/ val[q] = committed'[k] \/ val[q] \in overtaken'[k]
          \/ \E w \in Reqs : OwesBump(w, k)'
          \/ \E w \in Reqs : Bump(w) /\ k \in Covers(cur[w])
      BY <1>1, <2>1, <2>2 DEF FreshKept, Fresh
    <3>2. ASSUME NEW w \in Reqs, Bump(w), k \in Covers(cur[w]) PROVE OwesDrop(w, k)'
      BY <1>0, <3>2, BumpOwesDrop
    <3> QED BY <1>5, <3>1, <3>2 DEF SameFill, OwesDrop
  <2>3. ASSUME NEW w \in Reqs, OwesDrop(w, k) PROVE OwesDrop(w, k)'
    <3>1. ~Drop(w) BY <1>0, <1>5 DEF LockOwned, Drop
    <3> QED BY <1>1, <2>1, <2>3, <3>1 DEF OwesPersist
  <2> QED BY <1>5, <2>2, <2>3
<1>6. ASSUME pc'[q] = "compare", pc[q] = "compare", SameFill(q), seen'[q] = seen[q],
             seen'[q] + genAll' = captured'[q]
      PROVE  seen[q] + genAll = captured[q]
  <2>1. captured[q] <= seen[q] + genAll /\ genAll <= genAll'
    BY <1>0, <1>1, <1>6 DEF GenBounds, GensGrown
  <2>2. captured[q] = seen[q] + genAll' BY <1>6 DEF SameFill
  <2>3. captured[q] \in Nat /\ seen[q] \in Nat /\ genAll \in Nat
    BY <1>0 DEF TypeCalls, TypeCache
  <2>4. genAll' \in Nat BY <1>t DEF TypeCache
  <2> QED BY <2>1, <2>2, <2>3, <2>4
<1>7. ASSUME Compare(q), pc'[q] = "put"
      PROVE  /\ SameFill(q) /\ pc[q] = "compare" /\ seen[q] + genAll = captured[q]
  BY <1>0, <1>7 DEF Compare, Finish, SameFill, txVars, TypeCalls
<1>8. CASE pc'[q] = "store"
  <2>1. k = cur'[q] BY <1>1, <1>8 DEF FillStages, Fetch, SameFill
  <2>2. \A w \in Reqs : OwesBump(w, k)' <=> OwesBump(w, cur[q])'
    BY <2>1 DEF OwesBump, Registered
  <2> QED BY <1>1, <1>2, <1>3, <1>8, <2>1, <2>2 DEF FillStages, Fresh
<1>9. CASE pc'[q] = "compare"
  <2>1. pc[q] = "store" \/ pc[q] = "compare" BY <1>1, <1>9 DEF FillStages, StoreIf
  <2>2. k = cur'[q] BY <1>1, <1>9 DEF FillStages, StoreIf, SameFill
  <2>3. \A w \in Reqs : OwesDrop(w, k)' <=> OwesDrop(w, cur[q])'
    BY <2>2 DEF OwesDrop, OwesBump, Registered
  <2>4. CASE StoreIf(q)
    <3>1. pc[q] = "store" BY <2>4 DEF StoreIf
    <3> QED BY <1>4, <1>9, <2>2, <2>3, <2>4, <3>1 DEF Fresh
  <2>5. CASE pc[q] = "compare" /\ SameFill(q) /\ seen'[q] = seen[q]
    <3> SUFFICES ASSUME seen'[q] + genAll' = captured'[q]
                 PROVE  (val'[q] = committed'[k] \/ val'[q] \in overtaken'[k]) \/ \E w \in Reqs : OwesDrop(w, k)'
      BY <1>9, <2>2, <2>3 DEF Fresh
    <3>1. seen[q] + genAll = captured[q] BY <1>6, <1>9, <2>5
    <3>2. Fresh(k, val[q]) \/ \E w \in Reqs : OwesDrop(w, k)
      BY <1>0, <2>5, <3>1 DEF FillFresh
    <3> QED BY <1>5, <2>5, <3>2
  <2> QED BY <1>1, <1>9, <2>4, <2>5 DEF FillStages
<1>10. CASE pc'[q] = "put"
  <2>1. SameFill(q) /\ pc[q] \in {"compare", "put"}
        /\ (pc[q] = "compare" => seen[q] + genAll = captured[q])
    BY <1>1, <1>7, <1>10 DEF FillStages
  <2>2. Fresh(k, val[q]) \/ \E w \in Reqs : OwesDrop(w, k)
    BY <1>0, <2>1 DEF FillFresh
  <2>3. k = cur'[q] BY <2>1 DEF SameFill
  <2>4. \A w \in Reqs : OwesDrop(w, k)' <=> OwesDrop(w, cur[q])'
    BY <2>3 DEF OwesDrop, OwesBump, Registered
  <2> QED BY <1>5, <1>10, <2>1, <2>2, <2>3, <2>4 DEF Fresh
<1> QED BY <1>8, <1>9, <1>10

----------------------------------------------------------------------------
(* Flights and their leaders. *)

Leading == {"recheck", "load", "loadAll", "fetch", "store", "compare", "put"}

(* A step of r that takes r out of no flight, into none, and to no other    *)
(* key, leaves the flights led.                                             *)
LEMMA FlightsAside ==
    ASSUME Inv, FlightsAreLed, UNCHANGED flight, NEW r \in Reqs,
           \A j \in Reqs \ {r} : pc'[j] = pc[j] /\ cur'[j] = cur[j],
           pc[r] \in Leading => pc'[r] \in Leading /\ cur'[r] = cur[r],
           pc'[r] # "joined"
    PROVE  FlightsAreLed'
<1>1. flight \in [Keys -> Reqs \cup {None}]
  BY DEF Inv, TypeOK, TypeFlights
<1> SUFFICES ASSUME NEW k \in Keys
             PROVE  /\ flight[k] # None => cur'[flight[k]] = k /\ pc'[flight[k]] \in Leading
                    /\ flight[k] = None => \A j \in Reqs : ~(pc'[j] = "joined" /\ cur'[j] = k)
  BY DEF FlightsAreLed, Joined, Leading
<1>2. /\ flight[k] # None => cur[flight[k]] = k /\ pc[flight[k]] \in Leading
      /\ flight[k] = None => \A j \in Reqs : ~(pc[j] = "joined" /\ cur[j] = k)
  BY DEF FlightsAreLed, Joined, Leading
<1> QED  BY <1>1, <1>2

(* The end of a fill: a leader takes its flight and everybody who joined it *)
(* along, and a fill outside a flight takes nobody.                         *)
LEMMA FlightsFinished ==
    ASSUME Inv, FlightsAreLed, NEW r \in Reqs, NEW label \in {"run", "cancelled"}, NEW gone \in BOOLEAN,
           Finish(r, label, gone), UNCHANGED cur, pc[r] \in Leading
    PROVE  FlightsAreLed'
<1> DEFINE k == cur[r]
           woken == IF flight[k] = r THEN Joined(k) ELSE {}
<1>1. flight \in [Keys -> Reqs \cup {None}] /\ k \in Keys /\ r # None
  BY CoherenceAssumption DEF Inv, TypeOK, TypeFlights, CallKeys, Filling, Leading
<1>2. /\ flight' = IF flight[k] = r THEN [flight EXCEPT ![k] = None] ELSE flight
      /\ pc' = [j \in Reqs |-> IF j = r THEN label
                               ELSE IF j \notin woken THEN pc[j]
                               ELSE IF gone THEN "miss" ELSE "run"]
  BY DEF Finish
<1>3. \A j \in Reqs : j \in woken <=> flight[k] = r /\ pc[j] = "joined" /\ cur[j] = k
  BY DEF Joined
<1> HIDE DEF k, woken
<1> SUFFICES ASSUME NEW q \in Keys
             PROVE  /\ flight'[q] # None => cur[flight'[q]] = q /\ pc'[flight'[q]] \in Leading
                    /\ flight'[q] = None => \A j \in Reqs : ~(pc'[j] = "joined" /\ cur[j] = q)
  BY DEF FlightsAreLed, Joined, Leading
<1>4. /\ flight[q] # None => cur[flight[q]] = q /\ pc[flight[q]] \in Leading
      /\ flight[q] = None => \A j \in Reqs : ~(pc[j] = "joined" /\ cur[j] = q)
  BY DEF FlightsAreLed, Joined, Leading
<1>5. cur[r] = k
  BY DEF k
<1>6. ASSUME flight'[q] # None PROVE cur[flight'[q]] = q /\ pc'[flight'[q]] \in Leading
  <2>1. flight'[q] = flight[q] /\ flight[q] \in Reqs /\ flight[q] # r
    BY <1>1, <1>2, <1>4, <1>5, <1>6
  <2>2. flight[q] # None
    BY <1>6, <2>1
  <2>3. cur[flight[q]] = q /\ pc[flight[q]] \in Leading
    BY <1>4, <2>2
  <2>4. pc[flight[q]] # "joined"
    BY <2>3 DEF Leading
  <2>5. flight[q] \notin woken
    BY <1>3, <2>1, <2>4
  <2>6. pc'[flight[q]] = pc[flight[q]]
    BY <1>2, <2>1, <2>5
  <2> QED  BY <2>1, <2>3, <2>6
<1>7. ASSUME flight'[q] = None, NEW j \in Reqs, pc'[j] = "joined", cur[j] = q PROVE FALSE
  <2>1. j # r /\ j \notin woken /\ pc[j] = "joined"
    BY <1>2, <1>7
  <2>2. flight[q] # None
    BY <1>4, <1>7, <2>1
  <2>3. flight[k] = r /\ q = k
    BY <1>1, <1>2, <1>7, <2>2
  <2> QED  BY <1>3, <1>7, <2>1, <2>3
<1> QED  BY <1>6, <1>7

(* A caller leads a flight, joins one, or fills outside one. *)
LEMMA FlightsJoined ==
    ASSUME Inv, FlightsAreLed, NEW r \in Reqs, JoinOrLead(r)
    PROVE  FlightsAreLed'
<1> DEFINE k == cur[r]
<1>1. /\ flight \in [Keys -> Reqs \cup {None}] /\ pc \in [Reqs -> Labels] /\ k \in Keys
      /\ pc[r] = "miss" /\ UNCHANGED cur /\ r # None
  BY CoherenceAssumption DEF Inv, TypeOK, TypeFlights, TypeCalls, CallKeys, Filling, JoinOrLead
<1>2. CASE flight[k] = None /\ flight' = [flight EXCEPT ![k] = r] /\ pc' = [pc EXCEPT ![r] = "recheck"]
  BY <1>1, <1>2 DEF FlightsAreLed, Joined
<1>3. CASE flight[k] # None /\ pc' = [pc EXCEPT ![r] = "joined"] /\ UNCHANGED flight
  BY <1>1, <1>3 DEF FlightsAreLed, Joined
<1>4. CASE pc' = [pc EXCEPT ![r] = "load"] /\ UNCHANGED flight
  BY <1>1, <1>4 DEF FlightsAreLed, Joined
<1> QED  BY <1>2, <1>3, <1>4 DEF JoinOrLead, Goto

(* Every step leaves the flights led. *)
LEMMA FlightsStep == Inv /\ FlightsAreLed /\ [Next]_vars => FlightsAreLed'
<1> SUFFICES ASSUME Inv, FlightsAreLed, [Next]_vars PROVE FlightsAreLed'
  OBVIOUS
<1>0. pc \in [Reqs -> Labels] /\ cur \in [Reqs -> Scopes]
  BY DEF Inv, TypeOK, TypeCalls
<1>1. ASSUME NEW r \in Reqs, NEW label, pc' = [pc EXCEPT ![r] = label], label # "joined",
             pc[r] \in Leading => label \in Leading /\ cur'[r] = cur[r],
             \A j \in Reqs \ {r} : cur'[j] = cur[j], UNCHANGED flight
      PROVE  FlightsAreLed'
  BY <1>0, <1>1, FlightsAside
<1>2. ASSUME NEW r \in Reqs, Begin(r) \/ Invalidation(r) \/ Ending(r) \/ Hook(r) PROVE FlightsAreLed'
  <2>1. /\ pc[r] \notin Leading /\ UNCHANGED flight /\ \A j \in Reqs \ {r} : cur'[j] = cur[j]
    BY <1>0, <1>2 DEF Begin, Invalidation, Publish, Bump, Drop, Ending, Commit, RunHooks, Rollback,
       CommitFails, End, Hook, NextHook, HooksDone, fillVars, Leading
  <2>2. \E label \in {"run", "bump", "drop", "done", "hooks", "committed"} : pc' = [pc EXCEPT ![r] = label]
    BY <1>2 DEF Begin, Invalidation, Publish, Bump, Drop, Ending, Commit, RunHooks, Rollback,
       CommitFails, End, Hook, NextHook, HooksDone, Goto, Abort, AfterPass
  <2> QED  BY <1>1, <2>1, <2>2
<1>3. ASSUME NEW r \in Reqs, NEW s \in Scopes, Mutate(r, s) \/ DeliverRemote(r, s) PROVE FlightsAreLed'
  <2>1. /\ pc[r] \notin Leading /\ UNCHANGED flight /\ \A j \in Reqs \ {r} : cur'[j] = cur[j]
    BY <1>0, <1>3 DEF Mutate, DeliverRemote, fillVars, Leading
  <2>2. \E label \in {"publish", "bump"} : pc' = [pc EXCEPT ![r] = label]
    BY <1>3 DEF Mutate, DeliverRemote, Goto
  <2> QED  BY <1>1, <2>1, <2>2
<1>4. ASSUME NEW r \in Reqs, NEW k \in Keys, Lookup(r, k) PROVE FlightsAreLed'
  <2>1. /\ pc[r] \notin Leading /\ UNCHANGED flight /\ \A j \in Reqs \ {r} : cur'[j] = cur[j]
    BY <1>0, <1>4 DEF Lookup, Leading
  <2>2. \E label \in {"run", "miss"} : pc' = [pc EXCEPT ![r] = label]
    BY <1>4 DEF Lookup, Goto
  <2> QED  BY <1>1, <2>1, <2>2
<1>5. ASSUME NEW r \in Reqs, LoadStripe(r) \/ LoadAll(r) \/ Fetch(r) PROVE FlightsAreLed'
  <2>1. UNCHANGED <<flight, cur>>
    BY <1>5 DEF LoadStripe, LoadAll, Fetch
  <2>2. \E label \in Leading : pc' = [pc EXCEPT ![r] = label]
    BY <1>5 DEF LoadStripe, LoadAll, Fetch, Goto, Leading
  <2> QED  BY <1>1, <2>1, <2>2 DEF Leading
<1>6. ASSUME NEW r \in Reqs, Recheck(r) \/ FetchFails(r) \/ FetchAbandoned(r) \/ StoreIf(r)
                             \/ Compare(r) \/ Put(r)
      PROVE  FlightsAreLed'
  <2>1. UNCHANGED cur /\ pc[r] \in Leading
    BY <1>6 DEF Recheck, FetchFails, FetchAbandoned, StoreIf, Compare, Put, Leading
  <2>2. \/ Finish(r, "run", FALSE) \/ Finish(r, "cancelled", TRUE)
        \/ UNCHANGED flight /\ \E label \in Leading : pc' = [pc EXCEPT ![r] = label]
    BY <1>6 DEF Recheck, FetchFails, FetchAbandoned, StoreIf, Compare, Put, Goto, Leading
  <2>3. CASE Finish(r, "run", FALSE) \/ Finish(r, "cancelled", TRUE)
    BY <2>1, <2>3, FlightsFinished
  <2>4. CASE UNCHANGED flight /\ \E label \in Leading : pc' = [pc EXCEPT ![r] = label]
    BY <1>1, <2>1, <2>4 DEF Leading
  <2> QED  BY <2>2, <2>3, <2>4
<1>7. ASSUME NEW k \in Keys, Evict(k) PROVE FlightsAreLed'
  BY <1>7 DEF Evict, fillVars, FlightsAreLed, Joined
<1>8. CASE UNCHANGED vars
  BY <1>8 DEF vars, FlightsAreLed, Joined
<1>e. ASSUME NEW r \in Reqs, EndLimbo(r) PROVE FlightsAreLed'
  BY <1>e DEF EndLimbo, fillVars, FlightsAreLed, Joined
<1> QED BY <1>e, <1>2, <1>3, <1>4, <1>5, <1>6, <1>7, <1>8, FlightsJoined DEF Next, Fill

----------------------------------------------------------------------------
(* The theorems. *)

(* The inductive invariant holds at the start. *)
LEMMA InvInit == Init => Inv
<1> SUFFICES ASSUME Init PROVE Inv OBVIOUS
<1> USE CoherenceAssumption DEF Init
<1>1. TypeOK
  BY DEF TypeOK, TypeDb, TypeTx, TypeCache, TypeCalls, TypeFlights, Versions, Scopes, Labels
<1>2. LockOwned /\ CallKeys /\ GenBounds /\ FillCommitted /\ FillFresh
  BY DEF LockOwned, CallKeys, Filling, GenBounds, FillCommitted, FillFresh
<1>3. PassPhase /\ WritesAnnounced /\ CommittedDurable /\ Coherent /\ NoUncommittedEntry
  BY DEF PassPhase, InPhase, WritesAnnounced, CommittedDurable, Coherent, NoUncommittedEntry
<1> QED BY <1>1, <1>2, <1>3 DEF Inv

(* Every step keeps the inductive invariant: its parts together. *)
LEMMA InvNext == Inv /\ [Next]_vars => Inv'
  BY TypeDbStep, TypeTxStep, TypeCacheStep, TypeCallsStep, TypeFlightsStep, LockOwnedStep,
     CallKeysStep, PassPhaseStep, WritesAnnouncedStep, CommittedDurableStep, GenBoundsStep,
     FillCommittedStep, FillFreshStep, CoherentStep, NoUncommittedEntryStep
  DEF Inv, TypeOK

(* The inductive invariant holds in every reachable state. *)
THEOREM Invariance == Spec => []Inv
  BY InvInit, InvNext, PTL DEF Spec

(* Every variable keeps its type, whatever the number of requests, keys and *)
(* stripes.                                                                 *)
THEOREM TypeCorrect == Spec => []TypeOK
<1>1. Inv => TypeOK BY DEF Inv
<1> QED BY <1>1, Invariance, PTL

(* Once the passes of Publish over a key have run, no fill that overlapped  *)
(* the write has left a stale value behind: GetOrFill, Gen and the two-pass *)
(* Publish keep the cache coherent with the committed rows, all but what a  *)
(* commit of unknown outcome replaced after the abort's passes (overtaken). *)
THEOREM CacheIsCoherent == Spec => []Coherent
<1>1. Inv => Coherent BY DEF Inv
<1> QED BY <1>1, Invariance, PTL

(* The shared cache never holds a version that was not committed.           *)
THEOREM CacheHoldsNoUncommitted == Spec => []NoUncommittedEntry
<1>1. Inv => NoUncommittedEntry BY DEF Inv
<1> QED BY <1>1, Invariance, PTL

(* Nobody waits on a flight whose leader has left it: a recorded flight has *)
(* a leader that is still filling its key, and a key without a flight has   *)
(* no caller waiting (flights.Do), for any number of callers and keys.      *)
THEOREM FlightsHaveLeaders == Spec => []FlightsAreLed
<1>1. Init => FlightsAreLed
  BY DEF Init, FlightsAreLed, Joined
<1> QED  BY <1>1, FlightsStep, Invariance, PTL DEF Spec
=============================================================================
