-------------------------- MODULE BackgroundRunners --------------------------
(***************************************************************************)
(* The bounded background runners of a process and their drain at shutdown  *)
(* (internal/lifecycle/bounded.go).  A task may hand work on to another     *)
(* runner (an event delivery starts an alert fan-out, which queues an       *)
(* email); the drain waits for the jobs, then until the runners look idle,  *)
(* one after the other and without a lock, then closes them in the order    *)
(* they were created.                                                       *)
(***************************************************************************)
EXTENDS Integers, Sequences, FiniteSets

CONSTANTS
    Runners,
    Order,      \* Group.runners: every runner once, in the order of NewBounded
    HandsTo,    \* [Runners -> the runner its tasks hand work to, or None]
    Limit,      \* slots of each runner
    Tasks,      \* bound: the tasks that can be submitted
    None

ASSUME RunnersAssumption ==
    /\ Order \in Seq(Runners)
    /\ \A r \in Runners : \E i \in 1..Len(Order) : Order[i] = r
    /\ HandsTo \in [Runners -> Runners \cup {None}]
    /\ Runners # {} /\ None \notin Runners \cup Tasks
    /\ Limit \in Nat \ {0}
    /\ IsFiniteSet(Tasks)

(* A runner that is handed work and hands work on is created after the      *)
(* runners that feed it: the bus before the handlers it calls.  The ends of *)
(* a chain (mail, channels) may come anywhere.                              *)
ASSUME FeedersFirst ==
    \A i, j \in 1..Len(Order) :
        HandsTo[Order[i]] = Order[j] /\ HandsTo[Order[j]] # None => i < j

VARIABLES
    closed,     \* [Runners -> BOOLEAN]: Bounded.closed
    sem,        \* [Runners -> slots taken]: Bounded.sem
    inflight,   \* [Runners -> Int]: Bounded.inflight
    wg,         \* [Runners -> Nat]: Bounded.wg
    pc,         \* [Tasks -> where the task is]
    at,         \* [Tasks -> its runner, or None]
    by,         \* [Tasks -> the task whose GoWait call submits it, None for a job]
    handed,     \* [Tasks -> BOOLEAN]: it has made its hand-off
    drain,      \* Group.Drain: "off" | "jobs" | "scan" | "close" | "wait" | "done"
    idx,        \* the runner it looks at
    ended,      \* Drain's context has ended
    quiet,      \* the runners whose Drain returned nil
    refused     \* a hand-off met a closed runner

vars == <<closed, sem, inflight, wg, pc, at, by, handed, drain, idx, ended, quiet, refused>>
counts == <<sem, inflight, wg>>
drainVars == <<drain, idx, ended, quiet>>

Init ==
    /\ closed = [r \in Runners |-> FALSE]
    /\ sem = [r \in Runners |-> 0]
    /\ inflight = [r \in Runners |-> 0]
    /\ wg = [r \in Runners |-> 0]
    /\ pc = [t \in Tasks |-> "new"]
    /\ at = [t \in Tasks |-> None]
    /\ by = [t \in Tasks |-> None]
    /\ handed = [t \in Tasks |-> FALSE]
    /\ drain = "off" /\ idx = 1 /\ ended = FALSE /\ quiet = {} /\ refused = FALSE

Goto(t, label) == pc' = [pc EXCEPT ![t] = label]
Place(t, r) == at' = [at EXCEPT ![t] = r]
Add(f, r, d) == [f EXCEPT ![r] = @ + d]

----------------------------------------------------------------------------
(* The task gets its slot's place in the counts and runs. *)
Admit(t, r) ==
    /\ wg' = Add(wg, r, 1)
    /\ inflight' = Add(inflight, r, 1)
    /\ Goto(t, "running")

(* Go: the closed check, the slot and the counts, under the mutex. *)
Go(t, r) ==
    /\ pc[t] = "new"
    /\ Place(t, r)
    /\ IF closed[r] \/ sem[r] >= Limit
       THEN Goto(t, "dropped") /\ UNCHANGED counts
       ELSE Admit(t, r) /\ sem' = Add(sem, r, 1)

(* A request submits a task; requests end before the drain begins. *)
Submit(t, r) ==
    /\ drain = "off"
    /\ Go(t, r)
    /\ UNCHANGED <<closed, by, handed, drainVars, refused>>

(* Mutant: the slot is not waited for. *)
TakeSlotAnyway(t, r) ==
    /\ pc[t] = "new"
    /\ Place(t, r)
    /\ sem' = Add(sem, r, 1) /\ Goto(t, "slot")

(* GoWait: the slot first, without the mutex, or the end of the caller's    *)
(* context...                                                               *)
TakeSlot(t, r) ==
    /\ pc[t] = "new"
    /\ Place(t, r)
    /\ \/ sem[r] < Limit /\ sem' = Add(sem, r, 1) /\ Goto(t, "slot")
       \/ Goto(t, "dropped") /\ UNCHANGED sem

(* A job (a sweep) submits a task with GoWait, while it still runs. *)
JobSubmits(t, r) ==
    /\ drain \in {"off", "jobs"} \/ ended
    /\ TakeSlot(t, r)
    /\ UNCHANGED <<closed, inflight, wg, by, handed, drainVars, refused>>

(* Mutant: the closed check is made once, before the wait. *)
GoWaitStartsUnchecked(t) ==
    /\ pc[t] = "slot"
    /\ Admit(t, at[t])
    /\ UNCHANGED <<closed, sem, at, by, handed, drainVars, refused>>

(* ...and whether the runner is closed after, under the mutex. *)
GoWaitStarts(t) ==
    /\ pc[t] = "slot"
    /\ IF closed[at[t]]
       THEN /\ Goto(t, "dropped") /\ sem' = Add(sem, at[t], -1)
            /\ UNCHANGED <<inflight, wg>>
       ELSE Admit(t, at[t]) /\ UNCHANGED sem
    /\ refused' = (refused \/ (closed[at[t]] /\ by[t] # None))
    /\ UNCHANGED <<closed, at, by, handed, drainVars>>

(* t waits in a GoWait call of its own. *)
Waits(t) == \E u \in Tasks : pc[u] = "slot" /\ by[u] = t

(* A running task hands work u to the next runner of its chain, with Go...  *)
HandOff(t, u) ==
    /\ pc[t] = "running" /\ ~handed[t]
    /\ HandsTo[at[t]] # None
    /\ Go(u, HandsTo[at[t]])
    /\ handed' = [handed EXCEPT ![t] = TRUE]
    /\ refused' = (refused \/ closed[HandsTo[at[t]]])
    /\ UNCHANGED <<closed, by, drainVars>>

(* ...or with GoWait (an alert's email: mail.Service.SendAlert). *)
HandOffWaits(t, u) ==
    /\ pc[t] = "running" /\ ~handed[t]
    /\ HandsTo[at[t]] # None
    /\ TakeSlot(u, HandsTo[at[t]])
    /\ by' = [by EXCEPT ![u] = t]
    /\ handed' = [handed EXCEPT ![t] = TRUE]
    /\ UNCHANGED <<closed, inflight, wg, drainVars, refused>>

(* The task returns or panics: the deferred calls, in their order. *)
Return(t) ==
    /\ pc[t] = "running" /\ ~Waits(t)
    /\ inflight' = Add(inflight, at[t], -1)
    /\ Goto(t, "slotted")
    /\ UNCHANGED <<closed, sem, wg, at, by, handed, drainVars, refused>>

FreeSlot(t) ==
    /\ pc[t] = "slotted"
    /\ sem' = Add(sem, at[t], -1)
    /\ Goto(t, "waited")
    /\ UNCHANGED <<closed, inflight, wg, at, by, handed, drainVars, refused>>

(* Mutant: the group's counter keeps the task. *)
DoneForgets(t) ==
    /\ pc[t] = "waited"
    /\ Goto(t, "done")
    /\ UNCHANGED <<closed, counts, at, by, handed, drainVars, refused>>

Done(t) ==
    /\ pc[t] = "waited"
    /\ wg' = Add(wg, at[t], -1)
    /\ Goto(t, "done")
    /\ UNCHANGED <<closed, sem, inflight, at, by, handed, drainVars, refused>>

----------------------------------------------------------------------------
(* Group.Drain, once no request can start new work.                         *)

(* halt: every job is told to stop (SingletonJob says how)... *)
DrainAll ==
    /\ drain = "off"
    /\ drain' = "jobs"
    /\ UNCHANGED <<closed, counts, pc, at, by, handed, idx, ended, quiet, refused>>

(* ...and waited for, while it may still hand work to a runner. *)
JobsStopped ==
    /\ drain = "jobs"
    /\ ended \/ \A u \in Tasks : pc[u] = "slot" => by[u] # None
    /\ drain' = "scan"
    /\ UNCHANGED <<closed, counts, pc, at, by, handed, idx, ended, quiet, refused>>

(* Mutant: the runners are closed without looking. *)
ScanNothing ==
    /\ drain = "scan"
    /\ drain' = "close" /\ idx' = 1
    /\ UNCHANGED <<closed, counts, pc, at, by, handed, ended, quiet, refused>>

(* allIdle reads the counters one by one; a busy runner starts it over. *)
Scan ==
    /\ drain = "scan"
    /\ \/ /\ inflight[Order[idx]] > 0
          /\ idx' = 1 /\ UNCHANGED drain
       \/ /\ inflight[Order[idx]] = 0
          /\ idx' = IF idx < Len(Order) THEN idx + 1 ELSE 1
          /\ drain' = IF idx < Len(Order) THEN "scan" ELSE "close"
    /\ UNCHANGED <<closed, counts, pc, at, by, handed, ended, quiet, refused>>

(* The shutdown budget ends: no more waiting. *)
BudgetEnds ==
    /\ drain \notin {"off", "done"} /\ ~ended
    /\ ended' = TRUE
    /\ drain' = IF drain = "scan" THEN "close" ELSE drain
    /\ idx' = IF drain = "scan" THEN 1 ELSE idx
    /\ UNCHANGED <<closed, counts, pc, at, by, handed, quiet, refused>>

Close ==
    /\ drain = "close"
    /\ closed' = [closed EXCEPT ![Order[idx]] = TRUE]
    /\ drain' = "wait"
    /\ UNCHANGED <<counts, pc, at, by, handed, idx, ended, quiet, refused>>

(* Drain of one runner returns: its tasks have, or the budget is over. *)
Drained ==
    /\ drain = "wait"
    /\ \/ wg[Order[idx]] = 0 /\ quiet' = quiet \cup {Order[idx]}
       \/ ended /\ UNCHANGED quiet
    /\ drain' = IF idx < Len(Order) THEN "close" ELSE "done"
    /\ idx' = IF idx < Len(Order) THEN idx + 1 ELSE idx
    /\ UNCHANGED <<closed, counts, pc, at, by, handed, ended, refused>>

----------------------------------------------------------------------------
Ends(t) == Return(t) \/ FreeSlot(t) \/ Done(t) \/ GoWaitStarts(t)
Draining == JobsStopped \/ Scan \/ Close \/ Drained

Next ==
    \/ \E t \in Tasks : Ends(t) \/ \E r \in Runners : Submit(t, r) \/ JobSubmits(t, r)
    \/ \E t, u \in Tasks : HandOff(t, u) \/ HandOffWaits(t, u)
    \/ DrainAll \/ Draining \/ BudgetEnds

Spec == Init /\ [][Next]_vars

(* Every task is bounded by its own timeout; the drain's goroutine runs. *)
Fairness == WF_vars(Draining) /\ \A t \in Tasks : WF_vars(Ends(t))

FairSpec == Spec /\ Fairness

----------------------------------------------------------------------------
(* Properties. *)

(* Every variable has its type; no runner has more slots taken than it has. *)
TypeOK ==
    /\ closed \in [Runners -> BOOLEAN]
    /\ sem \in [Runners -> 0..Limit]
    /\ inflight \in [Runners -> Nat]
    /\ wg \in [Runners -> Nat]
    /\ pc \in [Tasks -> {"new", "slot", "running", "slotted", "waited", "done", "dropped"}]
    /\ at \in [Tasks -> Runners \cup {None}]
    /\ by \in [Tasks -> Tasks \cup {None}]
    /\ handed \in [Tasks -> BOOLEAN]
    /\ drain \in {"off", "jobs", "scan", "close", "wait", "done"}
    /\ idx \in 1..Len(Order)
    /\ ended \in BOOLEAN /\ quiet \subseteq Runners /\ refused \in BOOLEAN

(* Once Drain of a runner has returned nil none of its tasks runs, whoever  *)
(* was waiting for a slot at the time and even when the budget then ended   *)
(* for the other runners (Go, GoWait and Drain under the mutex).            *)
QuietStaysQuiet ==
    \A t \in Tasks : at[t] \in quiet => pc[t] \in {"slot", "done", "dropped"}

(* Within the budget no hand-off meets a closed runner (Drain, "closing     *)
(* that runner first would drop the hand-off"), although the runners are    *)
(* looked at one after the other.                                           *)
HandOffsAreKept == refused => ended

(* A drain ends, without its budget having to. *)
DrainEnds == drain = "jobs" ~> drain = "done"
=============================================================================
