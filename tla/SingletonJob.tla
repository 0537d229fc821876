---------------------------- MODULE SingletonJob ----------------------------
(***************************************************************************)
(* A job that one replica runs at a time: lifecycle.Singleton over the      *)
(* advisory-lock lease of PostgreSQL (internal/lifecycle/singleton.go,      *)
(* internal/storage/database/postgres_lock.go).                             *)
(*                                                                         *)
(* The lock lives on a database session, the work on other connections: the *)
(* session can die while the work goes on, and the lease's heartbeat finds  *)
(* out later.  A replica has one Singleton of the job; its schedule, RunNow *)
(* and RunOnce compete for its claim.                                       *)
(***************************************************************************)
EXTENDS Naturals, FiniteSets

CONSTANTS
    Replicas,
    None,
    MaxFaults   \* bound: dead sessions, failed statements, crashes

Ons == {"pinned", "closing"}
Locks == [by : Replicas, on : Ons]

ASSUME SingletonAssumption == None \notin Replicas \cup Locks /\ MaxFaults \in Nat

VARIABLES
    lock,     \* server: None or [by, on]: the replica whose session holds the
              \* lock, and whether that session is pinned to a lease or closing
              \* (discarded by the client)
    sess,     \* [Replicas -> advisoryLease.conn: "none" | "live" | "dead"]
    lost,     \* [Replicas -> BOOLEAN]: advisoryLease.lost is closed
    pc,       \* [Replicas -> where the claimed attempt is]
    who,      \* [Replicas -> who made it: "loop" | "caller" | None]
    ctx,      \* [Replicas -> BOOLEAN]: the run's context has ended
    loop,     \* [Replicas -> the schedule: "off" | "on" | "done"]
    stop,     \* [Replicas -> "no" | "halted" | "stopped" | "abandoned"]
    alive,    \* [Replicas -> BOOLEAN]: the process runs
    faults

vars == <<lock, sess, lost, pc, who, ctx, loop, stop, alive, faults>>
leaseVars == <<lock, sess, lost>>
jobVars   == <<pc, who, ctx>>
procVars  == <<loop, stop, alive>>

Held(r, on) == [by |-> r, on |-> on]

Init ==
    /\ lock = None
    /\ sess = [r \in Replicas |-> "none"]
    /\ lost = [r \in Replicas |-> FALSE]
    /\ pc = [r \in Replicas |-> "idle"]
    /\ who = [r \in Replicas |-> None]
    /\ ctx = [r \in Replicas |-> FALSE]
    /\ loop = [r \in Replicas |-> "off"]
    /\ stop = [r \in Replicas |-> "no"]
    /\ alive = [r \in Replicas |-> TRUE]
    /\ faults = 0

Fault == faults < MaxFaults /\ faults' = faults + 1
Goto(r, label) == pc' = [pc EXCEPT ![r] = label]

----------------------------------------------------------------------------
(* An attempt: claim, lease, run, release. *)

Start(r) ==
    /\ alive[r] /\ stop[r] = "no" /\ loop[r] = "off"
    /\ loop' = [loop EXCEPT ![r] = "on"]
    /\ UNCHANGED <<leaseVars, jobVars, stop, alive, faults>>

(* Mutant: the claim does not ask whether the job was stopped. *)
ClaimStopped(r, by) ==
    /\ alive[r]
    /\ pc[r] = "idle"
    /\ by = "loop" => loop[r] = "on"
    /\ Goto(r, "claimed")
    /\ who' = [who EXCEPT ![r] = by]
    /\ ctx' = [ctx EXCEPT ![r] = FALSE]
    /\ UNCHANGED <<leaseVars, procVars, faults>>

(* claim: refused after Stop and while an attempt of this process is in     *)
(* flight.  A tick, RunNow or RunOnce makes it.                             *)
Claim(r, by) ==
    /\ alive[r]
    /\ stop[r] = "no"
    /\ pc[r] = "idle"
    /\ by = "loop" => loop[r] = "on"
    /\ Goto(r, "claimed")
    /\ who' = [who EXCEPT ![r] = by]
    /\ ctx' = [ctx EXCEPT ![r] = FALSE]
    /\ UNCHANGED <<leaseVars, procVars, faults>>

(* unclaim: the attempt is over. *)
Unclaim(r) ==
    /\ Goto(r, "idle")
    /\ who' = [who EXCEPT ![r] = None]
    /\ UNCHANGED ctx

(* Mutant: an attempt that finds the lock held goes on. *)
AcquireAnyway(r) ==
    /\ pc[r] = "claimed"
    /\ lock' = IF lock = None THEN Held(r, "pinned") ELSE lock
    /\ sess' = [sess EXCEPT ![r] = "live"]
    /\ lost' = [lost EXCEPT ![r] = FALSE]
    /\ Goto(r, "leased")
    /\ UNCHANGED <<who, ctx, procVars, faults>>

(* acquire: pg_try_advisory_lock on a session of its own, pinned from here. *)
Acquire(r) ==
    /\ pc[r] = "claimed"
    /\ lock = None
    /\ lock' = Held(r, "pinned")
    /\ sess' = [sess EXCEPT ![r] = "live"]
    /\ lost' = [lost EXCEPT ![r] = FALSE]
    /\ Goto(r, "leased")
    /\ UNCHANGED <<who, ctx, procVars, faults>>

(* Another holder has it: the attempt is skipped. *)
Skip(r) ==
    /\ pc[r] = "claimed"
    /\ lock # None
    /\ Unclaim(r)
    /\ UNCHANGED <<leaseVars, procVars, faults>>

(* The lock could not be asked for: skipped too (fail closed).  A statement *)
(* cut short takes its connection with it, and what it may have locked.     *)
AcquireFails(r) ==
    /\ pc[r] = "claimed"
    /\ Fault
    /\ \/ UNCHANGED lock
       \/ lock = None /\ lock' = Held(r, "closing")
    /\ Unclaim(r)
    /\ UNCHANGED <<sess, lost, procVars>>

(* execute: the run starts, also when Stop or the lease's loss came first;  *)
(* its context ends with either.                                            *)
Run(r) ==
    /\ pc[r] = "leased"
    /\ Goto(r, "working")
    /\ UNCHANGED <<leaseVars, who, ctx, procVars, faults>>

(* The run's context ends: Stop's root (AfterFunc), the watcher of Lost, or *)
(* its timeout and its caller.                                              *)
CancelStopped(r) ==
    /\ pc[r] \in {"leased", "working"} /\ stop[r] # "no" /\ ~ctx[r]
    /\ ctx' = [ctx EXCEPT ![r] = TRUE]
    /\ UNCHANGED <<leaseVars, pc, who, procVars, faults>>

CancelLost(r) ==
    /\ pc[r] \in {"leased", "working"} /\ lost[r] /\ ~ctx[r]
    /\ ctx' = [ctx EXCEPT ![r] = TRUE]
    /\ UNCHANGED <<leaseVars, pc, who, procVars, faults>>

CancelTimeout(r) ==
    /\ pc[r] = "working" /\ ~ctx[r]
    /\ ctx' = [ctx EXCEPT ![r] = TRUE]
    /\ UNCHANGED <<leaseVars, pc, who, procVars, faults>>

(* job.Run returns, with or without an error, or panics (call recovers). *)
Return(r) ==
    /\ pc[r] = "working"
    /\ Goto(r, "returned")
    /\ UNCHANGED <<leaseVars, who, ctx, procVars, faults>>

(* discardConn: the client closes the session; the server drops what it     *)
(* held once it notices.                                                    *)
Discard(r) ==
    /\ sess' = [sess EXCEPT ![r] = "none"]
    /\ lock' = IF lock = Held(r, "pinned") THEN Held(r, "closing") ELSE lock

(* Mutant: a session whose unlock failed goes back to the pool. *)
ReleasePools(r) ==
    /\ pc[r] = "returned"
    /\ \/ sess[r] = "none" /\ UNCHANGED <<leaseVars, faults>>
       \/ /\ sess[r] = "live"
          /\ sess' = [sess EXCEPT ![r] = "none"]
          /\ lock' = None
          /\ UNCHANGED <<lost, faults>>
       \/ /\ sess[r] # "none"
          /\ sess[r] = "live" => Fault
          /\ sess[r] = "dead" => UNCHANGED faults
          /\ sess' = [sess EXCEPT ![r] = "none"]
          /\ lock' = IF lock = Held(r, "pinned") THEN Held(r, "pooled") ELSE lock
          /\ UNCHANGED lost
    /\ Goto(r, "released")
    /\ UNCHANGED <<who, ctx, procVars>>

(* Release: nothing to do for a lease the heartbeat lost; else the unlock   *)
(* answers and the session is pooled, or it fails or answers "not held"     *)
(* (the session is dead; behind a pooler another one answers, and the lease *)
(* is lost), or it times out, done or not: the session is discarded.        *)
Release(r) ==
    /\ pc[r] = "returned"
    /\ \/ sess[r] = "none" /\ UNCHANGED <<leaseVars, faults>>
       \/ /\ sess[r] = "live"
          /\ sess' = [sess EXCEPT ![r] = "none"]
          /\ lock' = None
          /\ UNCHANGED <<lost, faults>>
       \/ /\ sess[r] = "dead" /\ Discard(r) /\ UNCHANGED faults
          /\ \E notHeld \in BOOLEAN : lost' = [lost EXCEPT ![r] = @ \/ notHeld]
       \/ sess[r] = "live" /\ Fault /\ Discard(r) /\ UNCHANGED lost
    /\ Goto(r, "released")
    /\ UNCHANGED <<who, ctx, procVars>>

(* The end is recorded and the claim given up. *)
Finish(r) ==
    /\ pc[r] = "released"
    /\ Unclaim(r)
    /\ UNCHANGED <<leaseVars, procVars, faults>>

----------------------------------------------------------------------------
(* The session and its heartbeat. *)

(* The server ends the session (failover, pg_terminate_backend, a network   *)
(* blip) and drops its lock; the client does not know yet.                  *)
SessionDies(r) ==
    /\ sess[r] = "live"
    /\ Fault
    /\ sess' = [sess EXCEPT ![r] = "dead"]
    /\ lock' = None
    /\ UNCHANGED <<lost, jobVars, procVars>>

(* Mutant: the heartbeat does not see that the session is dead. *)
ConfirmBlind(r) ==
    /\ pc[r] \in {"leased", "working", "returned"}
    /\ sess[r] = "live" /\ Fault
    /\ Discard(r)
    /\ lost' = [lost EXCEPT ![r] = TRUE]
    /\ UNCHANGED <<jobVars, procVars>>

(* confirm: the session does not hold the lock, or does not answer within   *)
(* the timeout; the lease is lost and its session discarded.                *)
Confirm(r) ==
    /\ pc[r] \in {"leased", "working", "returned"}
    /\ \/ sess[r] = "dead" /\ UNCHANGED faults
       \/ sess[r] = "live" /\ Fault
    /\ Discard(r)
    /\ lost' = [lost EXCEPT ![r] = TRUE]
    /\ UNCHANGED <<jobVars, procVars>>

(* The server notices that a discarded session is gone. *)
Reap ==
    /\ lock # None /\ lock.on = "closing"
    /\ lock' = None
    /\ UNCHANGED <<sess, lost, jobVars, procVars, faults>>

----------------------------------------------------------------------------
(* Stop, and the process. *)

Halt(r) ==
    /\ alive[r] /\ stop[r] = "no"
    /\ stop' = [stop EXCEPT ![r] = "halted"]
    /\ UNCHANGED <<leaseVars, jobVars, loop, alive, faults>>

(* Mutant: the schedule does not watch the stop channel. *)
LoopNeverEnds(r) == FALSE /\ UNCHANGED vars

LoopEnds(r) ==
    /\ loop[r] = "on" /\ stop[r] # "no" /\ who[r] # "loop"
    /\ loop' = [loop EXCEPT ![r] = "done"]
    /\ UNCHANGED <<leaseVars, jobVars, stop, alive, faults>>

(* wait: the schedule has ended and nothing is in flight. *)
Wait(r) ==
    /\ stop[r] = "halted"
    /\ loop[r] # "on"
    /\ pc[r] = "idle"
    /\ stop' = [stop EXCEPT ![r] = "stopped"]
    /\ UNCHANGED <<leaseVars, jobVars, loop, alive, faults>>

(* The stop budget runs out: the run is abandoned. *)
Abandon(r) ==
    /\ stop[r] = "halted"
    /\ pc[r] # "idle" \/ loop[r] = "on"
    /\ stop' = [stop EXCEPT ![r] = "abandoned"]
    /\ UNCHANGED <<leaseVars, jobVars, loop, alive, faults>>

(* The process dies: the server will notice that its sessions are gone. *)
Crash(r) ==
    /\ alive[r]
    /\ Fault
    /\ alive' = [alive EXCEPT ![r] = FALSE]
    /\ Discard(r)
    /\ lost' = [lost EXCEPT ![r] = FALSE]
    /\ Unclaim(r)
    /\ loop' = [loop EXCEPT ![r] = "off"]
    /\ stop' = [stop EXCEPT ![r] = "no"]

Restart(r) ==
    /\ ~alive[r]
    /\ alive' = [alive EXCEPT ![r] = TRUE]
    /\ UNCHANGED <<leaseVars, jobVars, loop, stop, faults>>

----------------------------------------------------------------------------
Attempt(r) ==
    \/ Acquire(r) \/ Skip(r) \/ AcquireFails(r) \/ Run(r) \/ Return(r)
    \/ Release(r) \/ Finish(r)
Cancel(r) == CancelStopped(r) \/ CancelLost(r)
Stopping(r) == LoopEnds(r) \/ Wait(r)

Next ==
    \/ \E r \in Replicas :
        \/ Start(r) \/ Halt(r) \/ Stopping(r) \/ Abandon(r)
        \/ Attempt(r) \/ Cancel(r) \/ CancelTimeout(r)
        \/ SessionDies(r) \/ Confirm(r) \/ Crash(r) \/ Restart(r)
        \/ \E by \in {"loop", "caller"} : Claim(r, by)
    \/ Reap

Spec == Init /\ [][Next]_vars

(* Goroutines run, the ticker ticks, a run whose context has ended returns, *)
(* heartbeats come, the server reaps, a process is started (and restarted); *)
(* nobody need stop one or call RunNow, no run need end by itself, and its  *)
(* timeout, which is long, is not relied on.                                *)
Fairness ==
    /\ WF_vars(Reap)
    /\ \A r \in Replicas :
        /\ WF_vars(Start(r)) /\ WF_vars(Restart(r))
        /\ WF_vars(Attempt(r) /\ (pc[r] = "working" => ctx[r]))
        /\ WF_vars(Claim(r, "loop")) /\ WF_vars(Confirm(r))
        /\ WF_vars(Cancel(r)) /\ WF_vars(Stopping(r))

FairSpec == Spec /\ Fairness

----------------------------------------------------------------------------
(* Properties. *)

Labels == {"idle", "claimed", "leased", "working", "returned", "released"}

(* Every variable has its type. *)
TypeOK ==
    /\ lock \in Locks \cup {None}
    /\ sess \in [Replicas -> {"none", "live", "dead"}]
    /\ lost \in [Replicas -> BOOLEAN]
    /\ pc \in [Replicas -> Labels]
    /\ who \in [Replicas -> {"loop", "caller", None}]
    /\ ctx \in [Replicas -> BOOLEAN]
    /\ loop \in [Replicas -> {"off", "on", "done"}]
    /\ stop \in [Replicas -> {"no", "halted", "stopped", "abandoned"}]
    /\ alive \in [Replicas -> BOOLEAN]
    /\ faults \in Nat

(* Two replicas run the job side by side only when one of them works on     *)
(* under a lease whose session is gone (Singleton, "one job at a time       *)
(* across every replica").                                                  *)
OneRunPerLock ==
    \A r, s \in Replicas :
        r # s /\ pc[r] = "working" /\ pc[s] = "working"
            => sess[r] # "live" \/ sess[s] # "live"

(* The lock is never parked where nobody gives it back: its session is the  *)
(* pinned one of an attempt in flight, or is being closed, and never one    *)
(* back in the pool (releaseAdvisoryLock, "would park the lock there").     *)
LockIsOwned ==
    lock # None =>
        \/ lock.on = "closing"
        \/ /\ lock.on = "pinned" /\ sess[lock.by] = "live"
           /\ pc[lock.by] \in {"leased", "working", "returned"}

(* Once Stop has returned within its budget nothing of the job runs any     *)
(* more, and nothing starts (claim, inflight, wait).                        *)
StopIsFinal ==
    \A r \in Replicas : stop[r] = "stopped" => pc[r] = "idle" /\ loop[r] # "on"

(* A run that goes on after its session died is told: its context ends, or  *)
(* it ends first (the heartbeat and the watcher of Lost).                   *)
LostRunsAreCancelled ==
    \A r \in Replicas :
        (pc[r] = "working" /\ sess[r] = "dead") ~> (ctx[r] \/ pc[r] # "working")

(* The job keeps being run as long as some replica stays up, whatever holder *)
(* crashed, lost its session or failed to unlock: no lock is left behind.    *)
JobKeepsRunning ==
    (<>[](\E r \in Replicas : stop[r] = "no")) =>
        []<>(\E r \in Replicas : pc[r] = "working")

(* Stop returns: everything it waits for ends. *)
StopReturns ==
    \A r \in Replicas : stop[r] = "halted" ~> stop[r] # "halted"
=============================================================================
