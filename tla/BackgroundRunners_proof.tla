------------------------ MODULE BackgroundRunners_proof ------------------------
(***************************************************************************)
(* The runners' counters count their tasks, a runner whose Drain returned   *)
(* nil stays quiet, and within the budget no hand-off meets a closed        *)
(* runner: for any runners and slots, any number of tasks, and any chain of *)
(* hand-offs whose runners were created feeders first.                      *)
(***************************************************************************)
EXTENDS BackgroundRunners, FiniteSetTheorems, TLAPS

(* Where a task holds a slot of its runner, counts as in flight, and counts *)
(* in its wait group.                                                       *)
InSlot == {"slot", "running", "slotted"}
InFlight == {"running"}
InGroup == {"running", "slotted", "waited"}

Labels == {"new", "slot", "running", "slotted", "waited", "done", "dropped"}

(* The tasks of runner r that are at one of the labels K. *)
Members(p, a, r, K) == {t \in Tasks : a[t] = r /\ p[t] \in K}
Held(r, K) == Members(pc, at, r, K)

(* The counters are the numbers of tasks they stand for. *)
Counted ==
    \A r \in Runners :
        /\ sem[r] = Cardinality(Held(r, InSlot))
        /\ inflight[r] = Cardinality(Held(r, InFlight))
        /\ wg[r] = Cardinality(Held(r, InGroup))

(* A task that was submitted has a runner; only GoWait calls of tasks have  *)
(* a caller, and the caller of one that has its slot still runs, on the     *)
(* runner before.                                                           *)
Placed ==
    \A t \in Tasks :
        /\ pc[t] # "new" => at[t] \in Runners
        /\ pc[t] = "new" => at[t] = None /\ by[t] = None
        /\ pc[t] = "slot" /\ by[t] # None =>
             pc[by[t]] = "running" /\ HandsTo[at[by[t]]] = at[t]

(* Drain looks from the first runner on, closes a runner, then waits for    *)
(* it; what is closed stays closed, and what was found quiet has no task    *)
(* left.                                                                    *)
Closing ==
    /\ drain \in {"off", "jobs"} => idx = 1
    /\ drain = "wait" => closed[Order[idx]]
    /\ \A r \in Runners : closed[r] => drain \in {"close", "wait", "done"}
    /\ \A r \in quiet : closed[r] /\ \A t \in Tasks : at[t] = r => pc[t] \notin InGroup

(* No task of r runs, if r hands work on. *)
Settled(r) ==
    HandsTo[r] # None => \A t \in Tasks : at[t] = r => pc[t] # "running"

(* Within the budget: the jobs are over once the runners are looked at, the *)
(* runners of a chain that were found idle stay idle, and all were found so *)
(* before the first is closed.                                              *)
Scanned ==
    ~ended =>
        /\ drain \in {"scan", "close", "wait", "done"} =>
             \A t \in Tasks : pc[t] = "slot" => by[t] # None
        /\ drain = "scan" =>
             \A i \in 1..Len(Order) : i < idx => Settled(Order[i])
        /\ drain \in {"close", "wait", "done"} =>
             \A r \in Runners : Settled(r)

Inv == TypeOK /\ Counted /\ Placed /\ Closing /\ Scanned /\ HandOffsAreKept

----------------------------------------------------------------------------
(* Order is a sequence of runners, and idx is a place in it. *)
LEMMA Orders ==
    /\ Len(Order) \in Nat \ {0}
    /\ \A i \in 1..Len(Order) : Order[i] \in Runners
BY RunnersAssumption

(* The tasks of a runner are finitely many; none are, iff the count is 0. *)
LEMMA MembersFinite ==
    ASSUME NEW p, NEW a, NEW r, NEW K
    PROVE  /\ IsFiniteSet(Members(p, a, r, K))
           /\ Cardinality(Members(p, a, r, K)) \in Nat
           /\ Cardinality(Members(p, a, r, K)) = 0 <=> Members(p, a, r, K) = {}
<1>1. Members(p, a, r, K) \in SUBSET Tasks
  BY DEF Members
<1>2. IsFiniteSet(Members(p, a, r, K))
  BY <1>1, FS_Subset, RunnersAssumption
<1> QED  BY <1>2, FS_CardinalityType, FS_EmptySet

(* 1 if a task at this label is counted by K. *)
One(label, K) == IF label \in K THEN 1 ELSE 0

(* A task of r, or a new one that r gets, goes to label l. *)
Moves(p, a, p2, a2, t, r, l) ==
    /\ t \in Tasks
    /\ p \in [Tasks -> Labels] /\ a \in [Tasks -> Runners \cup {None}]
    /\ p[t] = "new" \/ a[t] = r
    /\ p2 = [p EXCEPT ![t] = l] /\ a2 = [a EXCEPT ![t] = r]

(* The tasks of r at the labels K then gain or lose this one. *)
LEMMA Moved ==
    ASSUME NEW p, NEW a, NEW p2, NEW a2, NEW t, NEW r, NEW l,
           Moves(p, a, p2, a2, t, r, l), NEW K, "new" \notin K, NEW q
    PROVE  Cardinality(Members(p2, a2, q, K)) =
             Cardinality(Members(p, a, q, K)) +
               (IF q = r THEN One(l, K) - One(p[t], K) ELSE 0)
<1> DEFINE A == Members(p, a, q, K)
           B == Members(p2, a2, q, K)
<1>1. IsFiniteSet(A) /\ Cardinality(A) \in Nat
  BY MembersFinite
<1>2. CASE q # r
  <2>1. A = B
    BY <1>2 DEF Members, Moves
  <2> QED  BY <1>1, <1>2, <2>1
<1>3. CASE q = r /\ l \in K
  <2>1. B = A \cup {t} /\ (t \in A <=> p[t] \in K)
    BY <1>3 DEF Members, Moves
  <2>2. Cardinality(A \cup {t}) = IF t \in A THEN Cardinality(A) ELSE Cardinality(A) + 1
    BY <1>1, FS_AddElement
  <2> HIDE DEF A, B
  <2>3. Cardinality(B) = Cardinality(A) + One(l, K) - One(p[t], K)
    BY <1>1, <1>3, <2>1, <2>2 DEF One
  <2>4. One(l, K) \in Nat /\ One(p[t], K) \in Nat
    BY DEF One
  <2> QED  BY <1>1, <1>3, <2>3, <2>4 DEF A, B
<1>4. CASE q = r /\ l \notin K
  <2>1. B = A \ {t} /\ (t \in A <=> p[t] \in K)
    BY <1>4 DEF Members, Moves
  <2>2. Cardinality(A \ {t}) = IF t \in A THEN Cardinality(A) - 1 ELSE Cardinality(A)
    BY <1>1, FS_RemoveElement
  <2> HIDE DEF A, B
  <2>3. Cardinality(B) = Cardinality(A) + One(l, K) - One(p[t], K)
    BY <1>1, <1>4, <2>1, <2>2 DEF One
  <2>4. One(l, K) \in Nat /\ One(p[t], K) \in Nat
    BY DEF One
  <2> QED  BY <1>1, <1>4, <2>3, <2>4 DEF A, B
<1> QED  BY <1>2, <1>3, <1>4

(* The counter f follows t, a task of r, that goes to label l. *)
Follows(f, f2, t, r, l, K) ==
    \A q \in Runners :
        f2[q] = f[q] + (IF q = r THEN One(l, K) - One(pc[t], K) ELSE 0)

(* When the counters follow the task that moves, they keep counting. *)
LEMMA KeepsCount ==
    ASSUME Inv, NEW t \in Tasks, NEW r \in Runners, NEW l,
           pc' = [pc EXCEPT ![t] = l], at' = [at EXCEPT ![t] = r],
           pc[t] = "new" \/ at[t] = r,
           Follows(sem, sem', t, r, l, InSlot), Follows(inflight, inflight', t, r, l, InFlight),
           Follows(wg, wg', t, r, l, InGroup)
    PROVE  Counted'
<1> SUFFICES ASSUME NEW q \in Runners
             PROVE  /\ sem'[q] = Cardinality(Members(pc', at', q, InSlot))
                    /\ inflight'[q] = Cardinality(Members(pc', at', q, InFlight))
                    /\ wg'[q] = Cardinality(Members(pc', at', q, InGroup))
  BY DEF Counted, Held
<1>0. Moves(pc, at, pc', at', t, r, l)
  BY DEF Inv, TypeOK, Labels, Moves
<1>1. Cardinality(Members(pc', at', q, InSlot)) =
        Cardinality(Members(pc, at, q, InSlot)) + IF q = r THEN One(l, InSlot) - One(pc[t], InSlot) ELSE 0
  <2>1. "new" \notin InSlot
    BY DEF InSlot
  <2> QED  BY <1>0, <2>1, Moved
<1>2. Cardinality(Members(pc', at', q, InFlight)) =
        Cardinality(Members(pc, at, q, InFlight)) + IF q = r THEN One(l, InFlight) - One(pc[t], InFlight) ELSE 0
  <2>1. "new" \notin InFlight
    BY DEF InFlight
  <2> QED  BY <1>0, <2>1, Moved
<1>3. Cardinality(Members(pc', at', q, InGroup)) =
        Cardinality(Members(pc, at, q, InGroup)) + IF q = r THEN One(l, InGroup) - One(pc[t], InGroup) ELSE 0
  <2>1. "new" \notin InGroup
    BY DEF InGroup
  <2> QED  BY <1>0, <2>1, Moved
<1> QED  BY <1>1, <1>2, <1>3 DEF Inv, Counted, Held, Follows

(* What the tasks and the counters do not see keeps them. *)
LEMMA CountUnmoved ==
    ASSUME Counted, UNCHANGED <<pc, at, counts>>
    PROVE  Counted'
BY DEF Counted, counts, Held, Members, InSlot, InFlight, InGroup

(* A counter that counts a task is positive, and one at zero counts none. *)
LEMMA CountsSomething ==
    ASSUME TypeOK, Counted, NEW r \in Runners
    PROVE  /\ sem[r] \in Nat /\ inflight[r] \in Nat /\ wg[r] \in Nat
           /\ \A t \in Tasks : at[t] = r /\ pc[t] \in InSlot => sem[r] > 0
           /\ \A t \in Tasks : at[t] = r /\ pc[t] \in InFlight => inflight[r] > 0
           /\ \A t \in Tasks : at[t] = r /\ pc[t] \in InGroup => wg[r] > 0
<1>1. sem[r] \in Nat /\ (sem[r] = 0 <=> Held(r, InSlot) = {})
  BY MembersFinite DEF Counted, Held
<1>2. inflight[r] \in Nat /\ (inflight[r] = 0 <=> Held(r, InFlight) = {})
  BY MembersFinite DEF Counted, Held
<1>3. wg[r] \in Nat /\ (wg[r] = 0 <=> Held(r, InGroup) = {})
  BY MembersFinite DEF Counted, Held
<1>4. \A t \in Tasks : at[t] = r /\ pc[t] \in InSlot => Held(r, InSlot) # {}
  BY DEF Held, Members
<1>5. \A t \in Tasks : at[t] = r /\ pc[t] \in InFlight => Held(r, InFlight) # {}
  BY DEF Held, Members
<1>6. \A t \in Tasks : at[t] = r /\ pc[t] \in InGroup => Held(r, InGroup) # {}
  BY DEF Held, Members
<1> QED  BY <1>1, <1>2, <1>3, <1>4, <1>5, <1>6

(* A counter below its bound goes up by one, a positive one down. *)
LEMMA CounterMoves ==
    ASSUME NEW f \in [Runners -> Nat], NEW r \in Runners
    PROVE  /\ [f EXCEPT ![r] = @ + 1] \in [Runners -> Nat]
           /\ f[r] > 0 => [f EXCEPT ![r] = @ + (-1)] \in [Runners -> Nat]
OBVIOUS

(* The same for a counter with a limit. *)
LEMMA SlotMoves ==
    ASSUME NEW f \in [Runners -> 0..Limit], NEW r \in Runners
    PROVE  /\ f[r] < Limit => [f EXCEPT ![r] = @ + 1] \in [Runners -> 0..Limit]
           /\ f[r] > 0 => [f EXCEPT ![r] = @ + (-1)] \in [Runners -> 0..Limit]
<1>1. Limit \in Nat /\ f[r] \in 0..Limit
  BY RunnersAssumption
<1>2. f[r] < Limit => f[r] + 1 \in 0..Limit
  BY <1>1
<1>3. f[r] > 0 => f[r] + (-1) \in 0..Limit
  BY <1>1
<1> QED  BY <1>2, <1>3

----------------------------------------------------------------------------
(* Nothing was submitted, nothing is counted. *)
LEMMA InitInv == Init => Inv
<1> SUFFICES ASSUME Init PROVE Inv
  OBVIOUS
<1>1. TypeOK
  <2>1. sem \in [Runners -> 0..Limit] /\ inflight \in [Runners -> Nat] /\ wg \in [Runners -> Nat]
    BY RunnersAssumption DEF Init
  <2>2. idx \in 1..Len(Order)
    BY Orders DEF Init
  <2> QED  BY <2>1, <2>2 DEF Init, TypeOK
<1>2. Counted
  <2>1. \A r \in Runners : Held(r, InSlot) = {} /\ Held(r, InFlight) = {} /\ Held(r, InGroup) = {}
    BY DEF Init, Held, Members, InSlot, InFlight, InGroup
  <2> QED  BY <2>1, FS_EmptySet DEF Init, Counted
<1>3. Placed /\ Closing /\ Scanned /\ HandOffsAreKept
  BY DEF Init, Placed, Closing, Scanned, HandOffsAreKept
<1> QED  BY <1>1, <1>2, <1>3 DEF Inv

----------------------------------------------------------------------------
(* What a task may do. *)
Edges == {<<"new", "running">>, <<"new", "slot">>, <<"new", "dropped">>,
          <<"slot", "running">>, <<"slot", "dropped">>, <<"running", "slotted">>,
          <<"slotted", "waited">>, <<"waited", "done">>}

(* A task's step keeps what Drain found: no task starts on a closed runner. *)
LEMMA ClosingKept ==
    ASSUME Inv, NEW t \in Tasks, NEW r \in Runners, NEW l,
           pc' = [pc EXCEPT ![t] = l], at' = [at EXCEPT ![t] = r],
           pc[t] = "new" \/ at[t] = r,
           <<pc[t], l>> \in Edges, l = "running" => ~closed[r],
           UNCHANGED <<closed, drain, idx, quiet>>
    PROVE  Closing'
<1> USE DEF Inv, TypeOK, Closing, Edges, InGroup
<1>1. ASSUME NEW q \in quiet, NEW u \in Tasks, at'[u] = q
      PROVE  pc'[u] \notin InGroup
  <2>1. CASE u # t
    BY <1>1, <2>1
  <2>2. CASE u = t
    <3>1. q = r /\ closed[r]
      BY <1>1, <2>2
    <3>2. l # "running"
      BY <3>1
    <3>3. pc[t] # "new" => pc[t] \notin InGroup
      BY <1>1, <3>1, <2>2
    <3>4. l \notin InGroup
      BY <3>2, <3>3
    <3> QED  BY <3>4, <2>2
  <2> QED  BY <2>1, <2>2
<1> QED  BY <1>1

(* While a task that can hand work to r runs, within the budget, the look   *)
(* is not over and has not passed r, unless r is the end of the chain.      *)
LEMMA FeederBusy ==
    ASSUME Inv, ~ended, drain \notin {"off", "jobs"}, NEW x \in Tasks, pc[x] = "running",
           NEW r \in Runners, HandsTo[at[x]] = r
    PROVE  /\ drain = "scan"
           /\ HandsTo[r] # None => \A i \in 1..Len(Order) : i < idx => Order[i] # r
<1>1. at[x] \in Runners /\ HandsTo[at[x]] # None
  BY RunnersAssumption DEF Inv, Placed
<1>2. ~Settled(at[x])
  BY <1>1 DEF Settled
<1>3. drain = "scan"
  BY <1>1, <1>2 DEF Inv, Scanned, TypeOK
<1>4. PICK j \in 1..Len(Order) : Order[j] = at[x]
  BY <1>1, RunnersAssumption
<1>5. idx \in Nat /\ j \in Nat /\ ~(j < idx)
  BY <1>2, <1>3, <1>4, Orders DEF Inv, Scanned, TypeOK
<1>6. ASSUME HandsTo[r] # None, NEW i \in 1..Len(Order), Order[i] = r
      PROVE  j < i
  BY <1>4, <1>6, FeedersFirst
<1> QED  BY <1>3, <1>5, <1>6, Orders

(* A task's step keeps what the look found, if what starts a task while it  *)
(* goes on is a running task that hands work on.                            *)
LEMMA ScannedKept ==
    ASSUME Inv, NEW t \in Tasks, NEW r \in Runners, NEW l,
           pc' = [pc EXCEPT ![t] = l], at' = [at EXCEPT ![t] = r],
           pc[t] = "new" \/ at[t] = r,
           <<pc[t], l>> \in Edges, UNCHANGED <<drain, idx, ended>>,
           \A u \in Tasks : u # t => by'[u] = by[u],
           l = "running" /\ ~ended /\ drain \notin {"off", "jobs"} =>
             \E x \in Tasks : pc[x] = "running" /\ HandsTo[at[x]] = r,
           l = "slot" /\ ~ended /\ drain \notin {"off", "jobs"} => by'[t] # None
    PROVE  Scanned'
<1> SUFFICES ASSUME ~ended PROVE Scanned'
  BY DEF Scanned
<1> USE DEF Inv, TypeOK
<1>1. drain \in {"scan", "close", "wait", "done"} =>
        \A u \in Tasks : pc'[u] = "slot" => by'[u] # None
  BY DEF Scanned
<1>2. ASSUME NEW q \in Runners, Settled(q), l = "running" => q # r \/ HandsTo[q] = None
      PROVE  Settled(q)'
  BY <1>2 DEF Settled
<1>3. ASSUME drain = "scan", NEW i \in 1..Len(Order), i < idx
      PROVE  Settled(Order[i])'
  <2>1. Order[i] \in Runners /\ Settled(Order[i])
    BY <1>3, Orders DEF Scanned
  <2>2. l = "running" => Order[i] # r \/ HandsTo[Order[i]] = None
    BY <1>3, FeederBusy
  <2> QED  BY <1>2, <2>1, <2>2
<1>4. ASSUME drain \in {"close", "wait", "done"}, NEW q \in Runners
      PROVE  Settled(q)'
  <2>1. Settled(q)
    BY <1>4 DEF Scanned
  <2>2. l # "running"
    BY <1>4, FeederBusy
  <2> QED  BY <1>2, <2>1, <2>2
<1> QED  BY <1>1, <1>3, <1>4 DEF Scanned

(* A task's step keeps the callers of GoWait, unless it returns while it    *)
(* waits in its call.                                                       *)
LEMMA PlacedKept ==
    ASSUME Inv, NEW t \in Tasks, NEW r \in Runners, NEW l,
           pc' = [pc EXCEPT ![t] = l], at' = [at EXCEPT ![t] = r],
           pc[t] = "new" \/ at[t] = r,
           <<pc[t], l>> \in Edges, pc[t] = "running" => ~Waits(t),
           \A u \in Tasks : u # t => by'[u] = by[u],
           by'[t] = by[t] \/
             (/\ by'[t] \in Tasks /\ pc[by'[t]] = "running" /\ pc[t] = "new"
              /\ HandsTo[at[by'[t]]] = r)
    PROVE  Placed'
<1> USE DEF Inv, TypeOK, Edges
<1> SUFFICES ASSUME NEW u \in Tasks
             PROVE  /\ pc'[u] # "new" => at'[u] \in Runners
                    /\ pc'[u] = "new" => at'[u] = None /\ by'[u] = None
                    /\ pc'[u] = "slot" /\ by'[u] # None =>
                         pc'[by'[u]] = "running" /\ HandsTo[at'[by'[u]]] = at'[u]
  BY DEF Placed
<1>1. (pc'[u] # "new" => at'[u] \in Runners) /\ (pc'[u] = "new" => at'[u] = None /\ by'[u] = None)
  BY DEF Placed
<1>2. ASSUME pc'[u] = "slot", by'[u] # None
      PROVE  pc'[by'[u]] = "running" /\ HandsTo[at'[by'[u]]] = at'[u]
  <2>1. CASE u # t
    <3>1. pc[u] = "slot" /\ by'[u] = by[u] /\ at'[u] = at[u]
      BY <1>2, <2>1
    <3>2. by[u] \in Tasks /\ pc[by[u]] = "running" /\ HandsTo[at[by[u]]] = at[u]
      BY <1>2, <3>1 DEF Placed
    <3>3. by[u] # t
      BY <3>1, <3>2 DEF Waits
    <3> QED  BY <3>1, <3>2, <3>3
  <2>2. CASE u = t
    <3>1. pc[t] = "new" /\ by[t] = None
      BY <1>2, <2>2 DEF Placed
    <3>2. by'[t] \in Tasks /\ pc[by'[t]] = "running" /\ HandsTo[at[by'[t]]] = r /\ by'[t] # t
      BY <1>2, <2>2, <3>1
    <3> QED  BY <2>2, <3>2
  <2> QED  BY <2>1, <2>2
<1> QED  BY <1>1, <1>2

----------------------------------------------------------------------------
(* The steps. *)

(* Go admits the task or drops it, and the counters follow. *)
LEMMA GoCounts ==
    ASSUME Inv, NEW t \in Tasks, NEW r \in Runners, Go(t, r)
    PROVE  /\ pc[t] = "new" /\ at' = [at EXCEPT ![t] = r]
           /\ \/ pc' = [pc EXCEPT ![t] = "running"] /\ ~closed[r]
              \/ pc' = [pc EXCEPT ![t] = "dropped"]
           /\ sem' \in [Runners -> 0..Limit] /\ inflight' \in [Runners -> Nat]
           /\ wg' \in [Runners -> Nat]
           /\ Counted'
<1> USE DEF Inv, TypeOK
<1>1. pc[t] = "new" /\ at' = [at EXCEPT ![t] = r]
  BY DEF Go, Place
<1>2. CASE closed[r] \/ sem[r] >= Limit
  <2>1. pc' = [pc EXCEPT ![t] = "dropped"] /\ UNCHANGED <<sem, inflight, wg>>
    BY <1>2 DEF Go, Goto, counts
  <2>2. Counted'
    <3>1. /\ Follows(sem, sem', t, r, "dropped", InSlot) /\ Follows(inflight, inflight', t, r, "dropped", InFlight)
          /\ Follows(wg, wg', t, r, "dropped", InGroup)
      BY <1>1, <2>1 DEF Inv, TypeOK, Follows, One, InSlot, InFlight, InGroup
    <3> QED  BY <1>1, <2>1, <3>1, KeepsCount
  <2> QED  BY <1>1, <2>1, <2>2
<1>3. CASE ~(closed[r] \/ sem[r] >= Limit)
  <2>1. /\ pc' = [pc EXCEPT ![t] = "running"] /\ sem' = [sem EXCEPT ![r] = @ + 1]
        /\ inflight' = [inflight EXCEPT ![r] = @ + 1] /\ wg' = [wg EXCEPT ![r] = @ + 1]
    BY <1>3 DEF Go, Admit, Goto, Add
  <2>2. Counted'
    <3>1. /\ Follows(sem, sem', t, r, "running", InSlot) /\ Follows(inflight, inflight', t, r, "running", InFlight)
          /\ Follows(wg, wg', t, r, "running", InGroup)
      BY <1>1, <2>1 DEF Inv, TypeOK, Follows, One, InSlot, InFlight, InGroup
    <3> QED  BY <1>1, <2>1, <3>1, KeepsCount
  <2>3. sem' \in [Runners -> 0..Limit]
    <3>1. sem[r] < Limit
      BY <1>3, RunnersAssumption
    <3> QED  BY <2>1, <3>1, SlotMoves
  <2> QED  BY <1>1, <1>3, <2>1, <2>2, <2>3
<1> QED  BY <1>2, <1>3

(* GoWait's first half takes a slot, or gives up. *)
LEMMA TakeSlotCounts ==
    ASSUME Inv, NEW t \in Tasks, NEW r \in Runners, TakeSlot(t, r), UNCHANGED <<inflight, wg>>
    PROVE  /\ pc[t] = "new" /\ at' = [at EXCEPT ![t] = r]
           /\ pc' = [pc EXCEPT ![t] = "slot"] \/ pc' = [pc EXCEPT ![t] = "dropped"]
           /\ sem' \in [Runners -> 0..Limit]
           /\ Counted'
<1> USE DEF Inv, TypeOK
<1>1. pc[t] = "new" /\ at' = [at EXCEPT ![t] = r]
  BY DEF TakeSlot, Place
<1>2. CASE sem[r] < Limit /\ sem' = [sem EXCEPT ![r] = @ + 1] /\ pc' = [pc EXCEPT ![t] = "slot"]
  <2>1. Counted'
    <3>1. /\ Follows(sem, sem', t, r, "slot", InSlot) /\ Follows(inflight, inflight', t, r, "slot", InFlight)
          /\ Follows(wg, wg', t, r, "slot", InGroup)
      BY <1>1, <1>2 DEF Inv, TypeOK, Follows, One, InSlot, InFlight, InGroup
    <3> QED  BY <1>1, <1>2, <3>1, KeepsCount
  <2>2. sem' \in [Runners -> 0..Limit]
    BY <1>2, SlotMoves
  <2> QED  BY <1>1, <1>2, <2>1, <2>2
<1>3. CASE sem' = sem /\ pc' = [pc EXCEPT ![t] = "dropped"]
  <2>1. Counted'
    <3>1. /\ Follows(sem, sem', t, r, "dropped", InSlot) /\ Follows(inflight, inflight', t, r, "dropped", InFlight)
          /\ Follows(wg, wg', t, r, "dropped", InGroup)
      BY <1>1, <1>3 DEF Inv, TypeOK, Follows, One, InSlot, InFlight, InGroup
    <3> QED  BY <1>1, <1>3, <3>1, KeepsCount
  <2> QED  BY <1>1, <1>3, <2>1
<1> QED  BY <1>2, <1>3 DEF TakeSlot, Add, Goto

(* A request's submit. *)
LEMMA SubmitStep ==
    ASSUME Inv, NEW t \in Tasks, NEW r \in Runners, Submit(t, r)
    PROVE  Inv'
<1>1. Go(t, r) /\ drain = "off" /\ UNCHANGED <<closed, by, handed, drain, idx, ended, quiet, refused>>
  BY DEF Submit, drainVars
<1>2. /\ pc[t] = "new" /\ at' = [at EXCEPT ![t] = r]
      /\ \/ pc' = [pc EXCEPT ![t] = "running"] /\ ~closed[r]
         \/ pc' = [pc EXCEPT ![t] = "dropped"]
      /\ sem' \in [Runners -> 0..Limit] /\ inflight' \in [Runners -> Nat]
      /\ wg' \in [Runners -> Nat] /\ Counted'
  BY <1>1, GoCounts
<1>3. TypeOK'
  BY <1>1, <1>2 DEF Inv, TypeOK
<1>4. Closing' /\ Placed' /\ Scanned'
  <2>1. CASE pc' = [pc EXCEPT ![t] = "running"] /\ ~closed[r]
    <3>1. <<pc[t], "running">> \in Edges
      BY <1>2 DEF Edges
    <3> QED  BY <1>1, <1>2, <2>1, <3>1, ClosingKept, PlacedKept, ScannedKept
  <2>2. CASE pc' = [pc EXCEPT ![t] = "dropped"]
    <3>1. <<pc[t], "dropped">> \in Edges
      BY <1>2 DEF Edges
    <3> QED  BY <1>1, <1>2, <2>2, <3>1, ClosingKept, PlacedKept, ScannedKept
  <2> QED  BY <1>2, <2>1, <2>2
<1> QED  BY <1>1, <1>2, <1>3, <1>4 DEF Inv, HandOffsAreKept

(* A job's submit. *)
LEMMA JobStep ==
    ASSUME Inv, NEW t \in Tasks, NEW r \in Runners, JobSubmits(t, r)
    PROVE  Inv'
<1>1. /\ TakeSlot(t, r) /\ (drain \in {"off", "jobs"} \/ ended)
      /\ UNCHANGED <<closed, inflight, wg, by, handed, drain, idx, ended, quiet, refused>>
  BY DEF JobSubmits, drainVars
<1>2. /\ pc[t] = "new" /\ at' = [at EXCEPT ![t] = r]
      /\ pc' = [pc EXCEPT ![t] = "slot"] \/ pc' = [pc EXCEPT ![t] = "dropped"]
      /\ sem' \in [Runners -> 0..Limit] /\ Counted'
  BY <1>1, TakeSlotCounts
<1>3. TypeOK'
  BY <1>1, <1>2 DEF Inv, TypeOK
<1>4. Closing' /\ Placed' /\ Scanned'
  <2>1. CASE pc' = [pc EXCEPT ![t] = "slot"]
    <3>1. <<pc[t], "slot">> \in Edges
      BY <1>2 DEF Edges
    <3> QED  BY <1>1, <1>2, <2>1, <3>1, ClosingKept, PlacedKept, ScannedKept
  <2>2. CASE pc' = [pc EXCEPT ![t] = "dropped"]
    <3>1. <<pc[t], "dropped">> \in Edges
      BY <1>2 DEF Edges
    <3> QED  BY <1>1, <1>2, <2>2, <3>1, ClosingKept, PlacedKept, ScannedKept
  <2> QED  BY <1>2, <2>1, <2>2
<1> QED  BY <1>1, <1>2, <1>3, <1>4 DEF Inv, HandOffsAreKept

(* No task runs on behalf of a chain once a runner is closed, within the    *)
(* budget: nobody is left to be refused.                                    *)
LEMMA NobodyRefused ==
    ASSUME Inv, NEW x \in Tasks, pc[x] = "running", NEW r \in Runners, HandsTo[at[x]] = r,
           closed[r]
    PROVE  ended
<1>1. drain \in {"close", "wait", "done"}
  BY DEF Inv, Closing
<1> QED  BY <1>1, FeederBusy

(* A running task's hand-off with Go. *)
LEMMA HandOffStep ==
    ASSUME Inv, NEW x \in Tasks, NEW t \in Tasks, HandOff(x, t)
    PROVE  Inv'
<1> DEFINE r == HandsTo[at[x]]
<1>1. /\ pc[x] = "running" /\ r \in Runners /\ Go(t, r)
      /\ handed' = [handed EXCEPT ![x] = TRUE] /\ refused' = (refused \/ closed[r])
      /\ UNCHANGED <<closed, by, drain, idx, ended, quiet>>
  <2>1. at[x] \in Runners
    BY DEF HandOff, Inv, Placed
  <2> QED  BY <2>1, RunnersAssumption DEF HandOff, drainVars
<1> HIDE DEF r
<1>2. /\ pc[t] = "new" /\ at' = [at EXCEPT ![t] = r]
      /\ \/ pc' = [pc EXCEPT ![t] = "running"] /\ ~closed[r]
         \/ pc' = [pc EXCEPT ![t] = "dropped"]
      /\ sem' \in [Runners -> 0..Limit] /\ inflight' \in [Runners -> Nat]
      /\ wg' \in [Runners -> Nat] /\ Counted'
  BY <1>1, GoCounts
<1>3. TypeOK'
  <2>1. refused' \in BOOLEAN
    BY <1>1
  <2> QED  BY <1>1, <1>2, <2>1 DEF Inv, TypeOK
<1>4. Closing' /\ Placed' /\ Scanned'
  <2>0. HandsTo[at[x]] = r
    BY DEF r
  <2>1. CASE pc' = [pc EXCEPT ![t] = "running"] /\ ~closed[r]
    <3>1. <<pc[t], "running">> \in Edges
      BY <1>2 DEF Edges
    <3> QED  BY <1>1, <1>2, <2>0, <2>1, <3>1, ClosingKept, PlacedKept, ScannedKept
  <2>2. CASE pc' = [pc EXCEPT ![t] = "dropped"]
    <3>1. <<pc[t], "dropped">> \in Edges
      BY <1>2 DEF Edges
    <3> QED  BY <1>1, <1>2, <2>2, <3>1, ClosingKept, PlacedKept, ScannedKept
  <2> QED  BY <1>2, <2>1, <2>2
<1>5. HandOffsAreKept'
  <2>1. closed[r] => ended
    BY <1>1, NobodyRefused DEF r
  <2> QED  BY <1>1, <2>1 DEF Inv, HandOffsAreKept
<1> QED  BY <1>2, <1>3, <1>4, <1>5 DEF Inv

(* A running task's hand-off with GoWait. *)
LEMMA HandOffWaitsStep ==
    ASSUME Inv, NEW x \in Tasks, NEW t \in Tasks, HandOffWaits(x, t)
    PROVE  Inv'
<1> DEFINE r == HandsTo[at[x]]
<1>1. /\ pc[x] = "running" /\ r \in Runners /\ TakeSlot(t, r)
      /\ handed' = [handed EXCEPT ![x] = TRUE] /\ by' = [by EXCEPT ![t] = x]
      /\ UNCHANGED <<closed, inflight, wg, drain, idx, ended, quiet, refused>>
  <2>1. at[x] \in Runners
    BY DEF HandOffWaits, Inv, Placed
  <2> QED  BY <2>1, RunnersAssumption DEF HandOffWaits, drainVars
<1> HIDE DEF r
<1>2. /\ pc[t] = "new" /\ at' = [at EXCEPT ![t] = r]
      /\ pc' = [pc EXCEPT ![t] = "slot"] \/ pc' = [pc EXCEPT ![t] = "dropped"]
      /\ sem' \in [Runners -> 0..Limit] /\ Counted'
  BY <1>1, TakeSlotCounts
<1>3. TypeOK'
  BY <1>1, <1>2 DEF Inv, TypeOK
<1>4. Closing' /\ Placed' /\ Scanned'
  <2>0. HandsTo[at[x]] = r
    BY DEF r
  <2>3. by'[t] = x /\ x # None /\ \A u \in Tasks : u # t => by'[u] = by[u]
    BY <1>1, RunnersAssumption DEF Inv, TypeOK
  <2>1. CASE pc' = [pc EXCEPT ![t] = "slot"]
    <3>1. <<pc[t], "slot">> \in Edges
      BY <1>2 DEF Edges
    <3> QED  BY <1>1, <1>2, <2>0, <2>1, <2>3, <3>1, ClosingKept, PlacedKept, ScannedKept
  <2>2. CASE pc' = [pc EXCEPT ![t] = "dropped"]
    <3>1. <<pc[t], "dropped">> \in Edges
      BY <1>2 DEF Edges
    <3> QED  BY <1>1, <1>2, <2>0, <2>2, <2>3, <3>1, ClosingKept, PlacedKept, ScannedKept
  <2> QED  BY <1>2, <2>1, <2>2
<1> QED  BY <1>1, <1>2, <1>3, <1>4 DEF Inv, HandOffsAreKept

(* GoWait's second half: a closed runner refuses the task. *)
LEMMA GoWaitStep ==
    ASSUME Inv, NEW t \in Tasks, GoWaitStarts(t)
    PROVE  Inv'
<1> DEFINE r == at[t]
<1>1. /\ pc[t] = "slot" /\ r \in Runners /\ at' = [at EXCEPT ![t] = r]
      /\ refused' = (refused \/ (closed[r] /\ by[t] # None))
      /\ UNCHANGED <<closed, by, handed, drain, idx, ended, quiet>>
  BY DEF GoWaitStarts, Inv, Placed, TypeOK, drainVars
<1>2. sem[r] \in Nat /\ sem[r] > 0
  BY <1>1, CountsSomething DEF Inv, InSlot
<1>3. at[t] = r
  OBVIOUS
<1>4. \/ /\ closed[r] /\ pc' = [pc EXCEPT ![t] = "dropped"]
         /\ sem' = [sem EXCEPT ![r] = @ + (-1)] /\ UNCHANGED <<inflight, wg>>
      \/ /\ ~closed[r] /\ pc' = [pc EXCEPT ![t] = "running"] /\ UNCHANGED sem
         /\ inflight' = [inflight EXCEPT ![r] = @ + 1] /\ wg' = [wg EXCEPT ![r] = @ + 1]
  BY DEF GoWaitStarts, Admit, Goto, Add
<1> HIDE DEF r
<1>5. by[t] # None => by[t] \in Tasks /\ pc[by[t]] = "running" /\ HandsTo[at[by[t]]] = r
  BY <1>1, <1>3 DEF Inv, Placed, TypeOK
<1>6. /\ sem' \in [Runners -> 0..Limit] /\ inflight' \in [Runners -> Nat]
      /\ wg' \in [Runners -> Nat]
  <2>1. sem' \in [Runners -> 0..Limit]
    <3>1. sem \in [Runners -> 0..Limit] /\ r \in Runners
      BY <1>1 DEF Inv, TypeOK
    <3>2. [sem EXCEPT ![r] = @ + (-1)] \in [Runners -> 0..Limit]
      BY <1>2, <3>1, SlotMoves
    <3> QED  BY <1>4, <3>1, <3>2
  <2>2. inflight' \in [Runners -> Nat] /\ wg' \in [Runners -> Nat]
    <3>1. inflight \in [Runners -> Nat] /\ wg \in [Runners -> Nat] /\ r \in Runners
      BY <1>1 DEF Inv, TypeOK
    <3>2. [inflight EXCEPT ![r] = @ + 1] \in [Runners -> Nat] /\ [wg EXCEPT ![r] = @ + 1] \in [Runners -> Nat]
      BY <3>1, CounterMoves
    <3> QED  BY <1>4, <3>1, <3>2
  <2> QED  BY <2>1, <2>2
<1>7. TypeOK'
  <2>1. refused' \in BOOLEAN
    BY <1>1
  <2> QED  BY <1>1, <1>4, <1>6, <2>1 DEF Inv, TypeOK
<1>8. Counted' /\ Closing' /\ Placed' /\ Scanned'
  <2>1. CASE /\ closed[r] /\ pc' = [pc EXCEPT ![t] = "dropped"]
             /\ sem' = [sem EXCEPT ![r] = @ + (-1)] /\ UNCHANGED <<inflight, wg>>
    <3>1. Counted'
      <4>1. /\ Follows(sem, sem', t, r, "dropped", InSlot) /\ Follows(inflight, inflight', t, r, "dropped", InFlight)
            /\ Follows(wg, wg', t, r, "dropped", InGroup)
        BY <1>1, <1>2, <1>3, <2>1 DEF Inv, TypeOK, Follows, One, InSlot, InFlight, InGroup
      <4> QED  BY <1>1, <1>2, <1>3, <2>1, <4>1, KeepsCount
    <3>2. <<pc[t], "dropped">> \in Edges
      BY <1>1 DEF Edges
    <3> QED  BY <1>1, <1>3, <2>1, <3>1, <3>2, ClosingKept, PlacedKept, ScannedKept
  <2>2. CASE /\ ~closed[r] /\ pc' = [pc EXCEPT ![t] = "running"] /\ UNCHANGED sem
             /\ inflight' = [inflight EXCEPT ![r] = @ + 1] /\ wg' = [wg EXCEPT ![r] = @ + 1]
    <3>1. Counted'
      <4>1. /\ Follows(sem, sem', t, r, "running", InSlot) /\ Follows(inflight, inflight', t, r, "running", InFlight)
            /\ Follows(wg, wg', t, r, "running", InGroup)
        BY <1>1, <1>2, <1>3, <2>2 DEF Inv, TypeOK, Follows, One, InSlot, InFlight, InGroup
      <4> QED  BY <1>1, <1>2, <1>3, <2>2, <4>1, KeepsCount
    <3>2. <<pc[t], "running">> \in Edges
      BY <1>1 DEF Edges
    <3>3. ~ended /\ drain \notin {"off", "jobs"} => by[t] # None
      BY <1>1 DEF Inv, Scanned, TypeOK
    <3>4. Scanned'
      BY <1>1, <1>3, <1>5, <2>2, <3>2, <3>3, ScannedKept
    <3> QED  BY <1>1, <1>3, <2>2, <3>1, <3>2, <3>4, ClosingKept, PlacedKept
  <2> QED  BY <1>4, <2>1, <2>2
<1>9. HandOffsAreKept'
  <2>1. closed[r] /\ by[t] # None => ended
    BY <1>1, <1>5, NobodyRefused
  <2> QED  BY <1>1, <2>1 DEF Inv, HandOffsAreKept
<1> QED  BY <1>7, <1>8, <1>9 DEF Inv

(* The task returns. *)
LEMMA ReturnStep ==
    ASSUME Inv, NEW t \in Tasks, Return(t)
    PROVE  Inv'
<1> DEFINE r == at[t]
<1>1. /\ pc[t] = "running" /\ r \in Runners /\ at' = [at EXCEPT ![t] = r] /\ ~Waits(t)
      /\ UNCHANGED <<sem, wg, closed, by, handed, drain, idx, ended, quiet, refused>>
  BY DEF Return, Inv, Placed, TypeOK, drainVars
<1>2. inflight[r] \in Nat /\ inflight[r] > 0
  BY <1>1, CountsSomething DEF Inv, InFlight
<1>3. at[t] = r
  OBVIOUS
<1>4. pc' = [pc EXCEPT ![t] = "slotted"] /\ inflight' = [inflight EXCEPT ![r] = @ + (-1)]
  BY DEF Return, Goto, Add
<1> HIDE DEF r
<1>5. inflight' \in [Runners -> Nat]
  BY <1>1, <1>2, <1>4, CounterMoves DEF Inv, TypeOK
<1>6. TypeOK'
  BY <1>1, <1>4, <1>5 DEF Inv, TypeOK
<1>7. Counted'
  <2>1. /\ Follows(sem, sem', t, r, "slotted", InSlot) /\ Follows(inflight, inflight', t, r, "slotted", InFlight)
        /\ Follows(wg, wg', t, r, "slotted", InGroup)
    BY <1>1, <1>2, <1>3, <1>4 DEF Inv, TypeOK, Follows, One, InSlot, InFlight, InGroup
  <2> QED  BY <1>1, <1>2, <1>3, <1>4, <2>1, KeepsCount
<1>8. <<pc[t], "slotted">> \in Edges
  BY <1>1 DEF Edges
<1>9. Closing' /\ Placed' /\ Scanned'
  BY <1>1, <1>3, <1>4, <1>8, ClosingKept, PlacedKept, ScannedKept
<1> QED  BY <1>1, <1>6, <1>7, <1>9 DEF Inv, HandOffsAreKept

(* Its slot is free. *)
LEMMA FreeSlotStep ==
    ASSUME Inv, NEW t \in Tasks, FreeSlot(t)
    PROVE  Inv'
<1> DEFINE r == at[t]
<1>1. /\ pc[t] = "slotted" /\ r \in Runners /\ at' = [at EXCEPT ![t] = r]
      /\ UNCHANGED <<inflight, wg, closed, by, handed, drain, idx, ended, quiet, refused>>
  BY DEF FreeSlot, Inv, Placed, TypeOK, drainVars
<1>2. sem[r] \in Nat /\ sem[r] > 0
  BY <1>1, CountsSomething DEF Inv, InSlot
<1>3. at[t] = r
  OBVIOUS
<1>4. pc' = [pc EXCEPT ![t] = "waited"] /\ sem' = [sem EXCEPT ![r] = @ + (-1)]
  BY DEF FreeSlot, Goto, Add
<1> HIDE DEF r
<1>5. sem' \in [Runners -> 0..Limit]
  BY <1>1, <1>2, <1>4, SlotMoves DEF Inv, TypeOK
<1>6. TypeOK'
  BY <1>1, <1>4, <1>5 DEF Inv, TypeOK
<1>7. Counted'
  <2>1. /\ Follows(sem, sem', t, r, "waited", InSlot) /\ Follows(inflight, inflight', t, r, "waited", InFlight)
        /\ Follows(wg, wg', t, r, "waited", InGroup)
    BY <1>1, <1>2, <1>3, <1>4 DEF Inv, TypeOK, Follows, One, InSlot, InFlight, InGroup
  <2> QED  BY <1>1, <1>2, <1>3, <1>4, <2>1, KeepsCount
<1>8. <<pc[t], "waited">> \in Edges
  BY <1>1 DEF Edges
<1>9. Closing' /\ Placed' /\ Scanned'
  BY <1>1, <1>3, <1>4, <1>8, ClosingKept, PlacedKept, ScannedKept
<1> QED  BY <1>1, <1>6, <1>7, <1>9 DEF Inv, HandOffsAreKept

(* Its wait group no longer waits for it. *)
LEMMA DoneStep ==
    ASSUME Inv, NEW t \in Tasks, Done(t)
    PROVE  Inv'
<1> DEFINE r == at[t]
<1>1. /\ pc[t] = "waited" /\ r \in Runners /\ at' = [at EXCEPT ![t] = r]
      /\ UNCHANGED <<sem, inflight, closed, by, handed, drain, idx, ended, quiet, refused>>
  BY DEF Done, Inv, Placed, TypeOK, drainVars
<1>2. wg[r] \in Nat /\ wg[r] > 0
  BY <1>1, CountsSomething DEF Inv, InGroup
<1>3. at[t] = r
  OBVIOUS
<1>4. pc' = [pc EXCEPT ![t] = "done"] /\ wg' = [wg EXCEPT ![r] = @ + (-1)]
  BY DEF Done, Goto, Add
<1> HIDE DEF r
<1>5. wg' \in [Runners -> Nat]
  BY <1>1, <1>2, <1>4, CounterMoves DEF Inv, TypeOK
<1>6. TypeOK'
  BY <1>1, <1>4, <1>5 DEF Inv, TypeOK
<1>7. Counted'
  <2>1. /\ Follows(sem, sem', t, r, "done", InSlot) /\ Follows(inflight, inflight', t, r, "done", InFlight)
        /\ Follows(wg, wg', t, r, "done", InGroup)
    BY <1>1, <1>2, <1>3, <1>4 DEF Inv, TypeOK, Follows, One, InSlot, InFlight, InGroup
  <2> QED  BY <1>1, <1>2, <1>3, <1>4, <2>1, KeepsCount
<1>8. <<pc[t], "done">> \in Edges
  BY <1>1 DEF Edges
<1>9. Closing' /\ Placed' /\ Scanned'
  BY <1>1, <1>3, <1>4, <1>8, ClosingKept, PlacedKept, ScannedKept
<1> QED  BY <1>1, <1>6, <1>7, <1>9 DEF Inv, HandOffsAreKept

(* Drain's own steps leave the tasks and the counters alone. *)
LEMMA DrainKeeps ==
    ASSUME Inv, UNCHANGED <<counts, pc, at, by, handed, refused>>, ended => ended'
    PROVE  Counted' /\ Placed' /\ HandOffsAreKept'
<1>1. Counted'
  BY CountUnmoved DEF Inv
<1>2. Placed'
  BY DEF Inv, Placed
<1>3. HandOffsAreKept'
  BY DEF Inv, HandOffsAreKept
<1> QED  BY <1>1, <1>2, <1>3

(* The drain begins, and the jobs are waited for. *)
LEMMA JobsStep ==
    ASSUME Inv, DrainAll \/ JobsStopped
    PROVE  Inv'
<1>1. /\ UNCHANGED <<closed, counts, pc, at, by, handed, idx, ended, quiet, refused>>
      /\ \/ drain = "off" /\ drain' = "jobs"
         \/ /\ drain = "jobs" /\ drain' = "scan"
            /\ ended \/ \A u \in Tasks : pc[u] = "slot" => by[u] # None
  BY DEF DrainAll, JobsStopped
<1>2. Counted' /\ Placed' /\ HandOffsAreKept'
  BY <1>1, DrainKeeps
<1>3. TypeOK'
  BY <1>1 DEF Inv, TypeOK, counts
<1>4. Closing'
  BY <1>1 DEF Inv, Closing
<1>5. Scanned'
  <2>1. idx \in 1..Len(Order) /\ Len(Order) \in Nat
    BY Orders DEF Inv, TypeOK
  <2>2. CASE drain' = "jobs"
    BY <2>2 DEF Scanned
  <2>3. CASE drain' = "scan"
    <3>1. idx = 1
      BY <1>1, <2>3 DEF Inv, Closing
    <3> QED  BY <1>1, <2>1, <2>3, <3>1 DEF Scanned
  <2> QED  BY <1>1, <2>2, <2>3
<1> QED  BY <1>2, <1>3, <1>4, <1>5 DEF Inv

(* A look at one runner. *)
LEMMA ScanStep ==
    ASSUME Inv, Scan
    PROVE  Inv'
<1>1. /\ drain = "scan" /\ UNCHANGED <<closed, counts, pc, at, by, handed, ended, quiet, refused>>
      /\ \/ idx' = 1 /\ drain' = "scan"
         \/ inflight[Order[idx]] = 0 /\ idx < Len(Order) /\ idx' = idx + 1 /\ drain' = "scan"
         \/ inflight[Order[idx]] = 0 /\ ~(idx < Len(Order)) /\ idx' = 1 /\ drain' = "close"
  BY DEF Scan
<1>2. Counted' /\ Placed' /\ HandOffsAreKept'
  BY <1>1, DrainKeeps
<1>3. idx \in 1..Len(Order) /\ Len(Order) \in Nat \ {0} /\ Order[idx] \in Runners
  BY Orders DEF Inv, TypeOK
<1>4. TypeOK'
  <2>1. idx' \in 1..Len(Order)
    BY <1>1, <1>3
  <2> QED  BY <1>1, <2>1 DEF Inv, TypeOK, counts
<1>5. Closing'
  BY <1>1 DEF Inv, Closing
<1>6. inflight[Order[idx]] = 0 => Settled(Order[idx])
  BY <1>3, CountsSomething DEF Inv, Settled, InFlight
<1>7. \A r : Settled(r)' <=> Settled(r)
  BY <1>1 DEF Settled
<1>8. Scanned'
  <2>1. CASE ended
    BY <1>1, <2>1 DEF Scanned
  <2>2. CASE ~ended
    <3>1. /\ \A t \in Tasks : pc'[t] = "slot" => by'[t] # None
          /\ \A i \in 1..Len(Order) : i < idx => Settled(Order[i])
      BY <1>1, <2>2 DEF Inv, Scanned
    <3>2. CASE idx' = 1 /\ drain' = "scan"
      BY <1>3, <3>1, <3>2 DEF Scanned
    <3>3. CASE inflight[Order[idx]] = 0 /\ idx < Len(Order) /\ idx' = idx + 1 /\ drain' = "scan"
      <4>1. \A i \in 1..Len(Order) : i < idx' => Settled(Order[i])
        BY <1>3, <1>6, <3>1, <3>3
      <4> QED  BY <1>7, <3>1, <3>3, <4>1 DEF Scanned
    <3>4. CASE inflight[Order[idx]] = 0 /\ ~(idx < Len(Order)) /\ idx' = 1 /\ drain' = "close"
      <4>1. \A i \in 1..Len(Order) : Settled(Order[i])
        BY <1>3, <1>6, <3>1, <3>4
      <4>2. \A r \in Runners : Settled(r)
        BY <4>1, RunnersAssumption
      <4> QED  BY <1>7, <3>1, <3>4, <4>2 DEF Scanned
    <3> QED  BY <1>1, <3>2, <3>3, <3>4
  <2> QED  BY <2>1, <2>2
<1> QED  BY <1>2, <1>4, <1>5, <1>8 DEF Inv

(* The budget ends. *)
LEMMA BudgetStep ==
    ASSUME Inv, BudgetEnds
    PROVE  Inv'
<1>1. /\ ended' = TRUE /\ UNCHANGED <<closed, counts, pc, at, by, handed, quiet, refused>>
      /\ drain \notin {"off", "done"}
      /\ \/ drain = "scan" /\ drain' = "close" /\ idx' = 1
         \/ drain # "scan" /\ UNCHANGED <<drain, idx>>
  BY DEF BudgetEnds
<1>2. Counted' /\ Placed' /\ HandOffsAreKept'
  BY <1>1, DrainKeeps
<1>3. TypeOK'
  <2>1. idx' \in 1..Len(Order)
    BY <1>1, Orders DEF Inv, TypeOK
  <2> QED  BY <1>1, <2>1 DEF Inv, TypeOK, counts
<1>4. Closing'
  BY <1>1 DEF Inv, Closing
<1>5. Scanned'
  BY <1>1 DEF Scanned
<1> QED  BY <1>2, <1>3, <1>4, <1>5 DEF Inv

(* A runner is closed. *)
LEMMA CloseStep ==
    ASSUME Inv, Close
    PROVE  Inv'
<1>1. /\ drain = "close" /\ closed' = [closed EXCEPT ![Order[idx]] = TRUE] /\ drain' = "wait"
      /\ UNCHANGED <<counts, pc, at, by, handed, idx, ended, quiet, refused>>
  BY DEF Close
<1>2. Counted' /\ Placed' /\ HandOffsAreKept'
  BY <1>1, DrainKeeps
<1>3. Order[idx] \in Runners
  BY Orders DEF Inv, TypeOK
<1>4. TypeOK'
  BY <1>1, <1>3 DEF Inv, TypeOK, counts
<1>5. Closing'
  BY <1>1, <1>3 DEF Inv, TypeOK, Closing
<1>6. Scanned'
  BY <1>1 DEF Inv, Scanned, Settled
<1> QED  BY <1>2, <1>4, <1>5, <1>6 DEF Inv

(* Drain of a runner returns. *)
LEMMA DrainedStep ==
    ASSUME Inv, Drained
    PROVE  Inv'
<1> DEFINE r == Order[idx]
<1>1. /\ drain = "wait" /\ UNCHANGED <<closed, counts, pc, at, by, handed, ended, refused>>
      /\ (wg[r] = 0 /\ quiet' = quiet \cup {r}) \/ UNCHANGED quiet
      /\ \/ idx < Len(Order) /\ idx' = idx + 1 /\ drain' = "close"
         \/ drain' = "done" /\ idx' = idx
  BY DEF Drained
<1>2. Counted' /\ Placed' /\ HandOffsAreKept'
  BY <1>1, DrainKeeps
<1>3. r \in Runners /\ closed[r] /\ idx \in 1..Len(Order) /\ Len(Order) \in Nat
  BY <1>1, Orders DEF Inv, TypeOK, Closing
<1> HIDE DEF r
<1>4. TypeOK'
  <2>1. idx' \in 1..Len(Order)
    BY <1>1, <1>3
  <2>2. quiet' \subseteq Runners
    BY <1>1, <1>3 DEF Inv, TypeOK
  <2> QED  BY <1>1, <2>1, <2>2 DEF Inv, TypeOK, counts
<1>5. Closing'
  <2>1. wg[r] = 0 => \A t \in Tasks : at[t] = r => pc[t] \notin InGroup
    BY <1>3, CountsSomething DEF Inv
  <2>2. \A q \in quiet' : closed[q] /\ \A t \in Tasks : at[t] = q => pc[t] \notin InGroup
    BY <1>1, <1>3, <2>1 DEF Inv, Closing
  <2> QED  BY <1>1, <2>2 DEF Inv, Closing, InGroup
<1>6. Scanned'
  BY <1>1 DEF Inv, Scanned, Settled
<1> QED  BY <1>2, <1>4, <1>5, <1>6 DEF Inv

----------------------------------------------------------------------------
(* Every step keeps the invariant. *)
LEMMA NextInv == Inv /\ [Next]_vars => Inv'
<1> SUFFICES ASSUME Inv, [Next]_vars PROVE Inv'
  OBVIOUS
<1>1. ASSUME NEW t \in Tasks, Ends(t) PROVE Inv'
  BY <1>1, ReturnStep, FreeSlotStep, DoneStep, GoWaitStep DEF Ends
<1>2. ASSUME NEW t \in Tasks, NEW r \in Runners, Submit(t, r) \/ JobSubmits(t, r) PROVE Inv'
  BY <1>2, SubmitStep, JobStep
<1>3. ASSUME NEW t \in Tasks, NEW u \in Tasks, HandOff(t, u) \/ HandOffWaits(t, u) PROVE Inv'
  BY <1>3, HandOffStep, HandOffWaitsStep
<1>4. CASE DrainAll \/ Draining \/ BudgetEnds
  BY <1>4, JobsStep, ScanStep, CloseStep, DrainedStep, BudgetStep DEF Draining
<1>5. CASE UNCHANGED vars
  <2>1. Counted'
    BY <1>5, CountUnmoved DEF Inv, vars, counts
  <2>2. TypeOK'
    BY <1>5 DEF Inv, TypeOK, vars
  <2>3. Placed' /\ Closing' /\ Scanned' /\ HandOffsAreKept'
    BY <1>5 DEF Inv, Placed, Closing, Scanned, Settled, HandOffsAreKept, vars, InGroup
  <2> QED  BY <2>1, <2>2, <2>3 DEF Inv
<1> QED  BY <1>1, <1>2, <1>3, <1>4, <1>5 DEF Next

(* Group, Bounded: the counters count, and what Drain saw stays so. *)
THEOREM Invariance == Spec => []Inv
BY InitInv, NextInv, PTL DEF Spec

(* Every variable keeps its type: no runner ever has more slots taken than  *)
(* it has, and no counter of it goes below zero (Go, GoWait, the deferred   *)
(* calls).                                                                  *)
THEOREM TypeCorrect == Spec => []TypeOK
<1>1. Inv => TypeOK
  BY DEF Inv
<1> QED  BY Invariance, <1>1, PTL

(* Once Drain of a runner has returned nil none of its tasks runs again,    *)
(* whatever the number of tasks, slots and runners, and even when a GoWait  *)
(* call had its slot at the time.                                           *)
THEOREM QuietForGood == Spec => []QuietStaysQuiet
<1>1. Inv => QuietStaysQuiet
  <2> SUFFICES ASSUME Inv, NEW t \in Tasks, at[t] \in quiet
               PROVE  pc[t] \in {"slot", "done", "dropped"}
    BY DEF QuietStaysQuiet
  <2>1. pc[t] \notin InGroup
    BY DEF Inv, Closing
  <2>2. at[t] \in Runners
    BY DEF Inv, TypeOK
  <2>3. pc[t] # "new"
    BY <2>2, RunnersAssumption DEF Inv, Placed
  <2> QED  BY <2>1, <2>3 DEF Inv, TypeOK, InGroup
<1> QED  BY Invariance, <1>1, PTL

(* Within the budget no hand-off meets a closed runner, although Drain      *)
(* looks at the runners one after the other and without a lock: for every   *)
(* chain in which a runner that hands work on was created after its         *)
(* feeders (FeedersFirst).                                                  *)
THEOREM HandOffsKept == Spec => []HandOffsAreKept
<1>1. Inv => HandOffsAreKept
  BY DEF Inv
<1> QED  BY Invariance, <1>1, PTL
=============================================================================
