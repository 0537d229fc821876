------------------------ MODULE SingletonJob_proof ------------------------
(* Proofs about SingletonJob, for any set of replicas. *)
EXTENDS SingletonJob, TLAPS

(* A lease whose session lives holds the lock, and belongs to an attempt    *)
(* between its acquisition and its release.                                 *)
LiveHolds ==
    \A r \in Replicas : sess[r] = "live" =>
        /\ lock = Held(r, "pinned")
        /\ pc[r] \in {"leased", "working", "returned"}

Inv == TypeOK /\ LiveHolds /\ LockIsOwned /\ StopIsFinal

(* The inductive invariant holds at the start. *)
LEMMA InitInv == Init => Inv
  BY SingletonAssumption DEF Init, Inv, TypeOK, LiveHolds, LockIsOwned, StopIsFinal, Labels

(* What a held lock is. *)
LEMMA HeldIsLock ==
  ASSUME NEW r \in Replicas, NEW on \in Ons
  PROVE  /\ Held(r, on) \in Locks
         /\ Held(r, on) # None
         /\ Held(r, on).by = r
         /\ Held(r, on).on = on
  BY SingletonAssumption DEF Held, Ons, Locks

(* Every step keeps the types. *)
LEMMA TypeStep == TypeOK /\ [Next]_vars => TypeOK'
<1> SUFFICES ASSUME TypeOK, [Next]_vars PROVE TypeOK'
    OBVIOUS
<1>h. \A r \in Replicas : Held(r, "pinned") \in Locks /\ Held(r, "closing") \in Locks
  BY HeldIsLock DEF Ons
<1> USE <1>h, SingletonAssumption DEF TypeOK, Labels, leaseVars, jobVars, procVars,
        Goto, Unclaim, Discard, Fault
<1>1. ASSUME NEW r \in Replicas, Start(r) \/ Halt(r) \/ LoopEnds(r) \/ Wait(r) \/ Abandon(r)
      PROVE  TypeOK'
  BY <1>1 DEF Start, Halt, LoopEnds, Wait, Abandon
<1>2. ASSUME NEW r \in Replicas, NEW by \in {"loop", "caller"}, Claim(r, by)
      PROVE  TypeOK'
  BY <1>2 DEF Claim
<1>3. ASSUME NEW r \in Replicas, Acquire(r) \/ Skip(r) PROVE TypeOK'
  BY <1>3 DEF Acquire, Skip
<1>4. ASSUME NEW r \in Replicas, AcquireFails(r) PROVE TypeOK'
  BY <1>4 DEF AcquireFails
<1>5. ASSUME NEW r \in Replicas, Run(r) \/ Return(r) \/ Finish(r) PROVE TypeOK'
  BY <1>5 DEF Run, Return, Finish
<1>6. ASSUME NEW r \in Replicas, Release(r) PROVE TypeOK'
  BY <1>6 DEF Release
<1>7. ASSUME NEW r \in Replicas, Cancel(r) \/ CancelTimeout(r) PROVE TypeOK'
  BY <1>7 DEF Cancel, CancelStopped, CancelLost, CancelTimeout
<1>8. ASSUME NEW r \in Replicas, SessionDies(r) \/ Restart(r) PROVE TypeOK'
  <2>1. CASE SessionDies(r)
    BY <2>1 DEF SessionDies
  <2>2. CASE Restart(r)
    BY <2>2 DEF Restart
  <2> QED
    BY <1>8, <2>1, <2>2
<1>9. ASSUME NEW r \in Replicas, Confirm(r) \/ Crash(r) PROVE TypeOK'
  <2>1. faults' \in Nat /\ lock' \in Locks \cup {None}
    BY <1>9 DEF Confirm, Crash
  <2>2. /\ sess' \in [Replicas -> {"none", "live", "dead"}]
        /\ lost' \in [Replicas -> BOOLEAN]
        /\ pc' \in [Replicas -> Labels]
        /\ who' \in [Replicas -> {"loop", "caller", None}]
        /\ ctx' \in [Replicas -> BOOLEAN]
    BY <1>9 DEF Confirm, Crash
  <2>3. /\ loop' \in [Replicas -> {"off", "on", "done"}]
        /\ stop' \in [Replicas -> {"no", "halted", "stopped", "abandoned"}]
        /\ alive' \in [Replicas -> BOOLEAN]
    BY <1>9 DEF Confirm, Crash
  <2> QED
    BY <2>1, <2>2, <2>3
<1>10. CASE Reap
  BY <1>10 DEF Reap
<1>11. CASE UNCHANGED vars
  BY <1>11 DEF vars
<1> QED
  BY <1>1, <1>2, <1>3, <1>4, <1>5, <1>6, <1>7, <1>8, <1>9, <1>10, <1>11
     DEF Next, Attempt, Stopping

(* The lease's side of the invariant: who holds the lock. *)
LEMMA LeaseStep == Inv /\ [Next]_vars => LiveHolds' /\ LockIsOwned'
<1> SUFFICES ASSUME Inv, [Next]_vars PROVE LiveHolds' /\ LockIsOwned'
    OBVIOUS
<1>t. TypeOK
  BY DEF Inv
<1>o. LiveHolds /\ LockIsOwned
  BY DEF Inv
<1>h. \A r \in Replicas : /\ Held(r, "pinned") \in Locks /\ Held(r, "closing") \in Locks
                          /\ Held(r, "pinned") # None /\ Held(r, "closing") # None
                          /\ Held(r, "pinned").by = r /\ Held(r, "pinned").on = "pinned"
                          /\ Held(r, "closing").by = r /\ Held(r, "closing").on = "closing"
  BY HeldIsLock DEF Ons
<1>p. lock # None => lock.by \in Replicas
  BY <1>t DEF TypeOK, Locks
<1> USE <1>t, <1>o, <1>h, <1>p DEF TypeOK, LiveHolds, LockIsOwned, Labels,
        leaseVars, jobVars, procVars, Goto, Unclaim, Discard, Fault
<1>1. ASSUME NEW r \in Replicas, Start(r) \/ Halt(r) \/ LoopEnds(r) \/ Wait(r) \/ Abandon(r)
      PROVE  LiveHolds' /\ LockIsOwned'
  BY <1>1 DEF Start, Halt, LoopEnds, Wait, Abandon
<1>2. ASSUME NEW r \in Replicas, NEW by \in {"loop", "caller"}, Claim(r, by)
      PROVE  LiveHolds' /\ LockIsOwned'
  BY <1>2 DEF Claim
<1>3. ASSUME NEW r \in Replicas, Acquire(r)
      PROVE  LiveHolds' /\ LockIsOwned'
  BY <1>3 DEF Acquire
<1>4. ASSUME NEW r \in Replicas, Skip(r) \/ AcquireFails(r)
      PROVE  LiveHolds' /\ LockIsOwned'
  BY <1>4 DEF Skip, AcquireFails
<1>5. ASSUME NEW r \in Replicas, Run(r) \/ Return(r) \/ Finish(r)
      PROVE  LiveHolds' /\ LockIsOwned'
  BY <1>5 DEF Run, Return, Finish
<1>6. ASSUME NEW r \in Replicas, Release(r)
      PROVE  LiveHolds' /\ LockIsOwned'
  BY <1>6 DEF Release
<1>7. ASSUME NEW r \in Replicas, Cancel(r) \/ CancelTimeout(r)
      PROVE  LiveHolds' /\ LockIsOwned'
  BY <1>7 DEF Cancel, CancelStopped, CancelLost, CancelTimeout
<1>8. ASSUME NEW r \in Replicas, SessionDies(r)
      PROVE  LiveHolds' /\ LockIsOwned'
  BY <1>8 DEF SessionDies
<1>9. ASSUME NEW r \in Replicas, Confirm(r)
      PROVE  LiveHolds' /\ LockIsOwned'
  BY <1>9 DEF Confirm
<1>10. ASSUME NEW r \in Replicas, Crash(r)
       PROVE  LiveHolds' /\ LockIsOwned'
  BY <1>10 DEF Crash
<1>11. ASSUME NEW r \in Replicas, Restart(r)
       PROVE  LiveHolds' /\ LockIsOwned'
  BY <1>11 DEF Restart
<1>12. CASE Reap
  BY <1>12 DEF Reap
<1>13. CASE UNCHANGED vars
  BY <1>13 DEF vars
<1> QED
  BY <1>1, <1>2, <1>3, <1>4, <1>5, <1>6, <1>7, <1>8, <1>9, <1>10, <1>11, <1>12, <1>13
     DEF Next, Attempt, Stopping

(* The process's side: nothing moves again after Stop has returned. *)
LEMMA StopStep == TypeOK /\ StopIsFinal /\ [Next]_vars => StopIsFinal'
<1> SUFFICES ASSUME TypeOK, StopIsFinal, [Next]_vars PROVE StopIsFinal'
    OBVIOUS
<1> USE SingletonAssumption DEF TypeOK, StopIsFinal, Labels, leaseVars, jobVars, procVars,
        Goto, Unclaim
<1>1. ASSUME NEW r \in Replicas, Start(r) \/ Halt(r) \/ LoopEnds(r) \/ Wait(r) \/ Abandon(r)
      PROVE  StopIsFinal'
  BY <1>1 DEF Start, Halt, LoopEnds, Wait, Abandon
<1>2. ASSUME NEW r \in Replicas, NEW by \in {"loop", "caller"}, Claim(r, by)
      PROVE  StopIsFinal'
  BY <1>2 DEF Claim
<1>3. ASSUME NEW r \in Replicas, Attempt(r)
      PROVE  StopIsFinal'
  BY <1>3 DEF Attempt, Acquire, Skip, AcquireFails, Run, Return, Release, Finish
<1>4. ASSUME NEW r \in Replicas, Cancel(r) \/ CancelTimeout(r) \/ SessionDies(r) \/ Confirm(r)
      PROVE  StopIsFinal'
  BY <1>4 DEF Cancel, CancelStopped, CancelLost, CancelTimeout, SessionDies, Confirm
<1>5. ASSUME NEW r \in Replicas, Crash(r) \/ Restart(r)
      PROVE  StopIsFinal'
  BY <1>5 DEF Crash, Restart
<1>6. CASE Reap \/ UNCHANGED vars
  BY <1>6 DEF Reap, vars
<1> QED
  BY <1>1, <1>2, <1>3, <1>4, <1>5, <1>6 DEF Next, Stopping

(* The inductive invariant of the lease and its runs (execute, Release,     *)
(* confirm, claim, halt).                                                   *)
THEOREM Invariance == Spec => []Inv
<1>1. Inv /\ [Next]_vars => Inv'
  BY TypeStep, LeaseStep, StopStep DEF Inv
<1> QED
  BY InitInv, <1>1, PTL DEF Spec

(* Every variable of the job model keeps its type, for any set of replicas. *)
THEOREM TypeCorrect == Spec => []TypeOK
<1>1. Inv => TypeOK
  BY DEF Inv
<1> QED
  BY Invariance, <1>1, PTL

(* Two runs overlap only when the session of one of their leases is gone    *)
(* (Singleton: one run at a time across every replica).                     *)
THEOREM RunsExcludeEachOther == Spec => []OneRunPerLock
<1>1. Inv => OneRunPerLock
  BY HeldIsLock DEF Inv, LiveHolds, OneRunPerLock, Ons
<1> QED
  BY Invariance, <1>1, PTL

(* The advisory lock is never left on a session nobody will release or      *)
(* close (releaseAdvisoryLock, discardConn).                                *)
THEOREM LockNeverParked == Spec => []LockIsOwned
<1>1. Inv => LockIsOwned
  BY DEF Inv
<1> QED
  BY Invariance, <1>1, PTL

(* After Stop has returned within its budget, the job neither runs nor      *)
(* starts in this process (claim under the mutex, inflight, wait).          *)
THEOREM StoppedStaysStopped == Spec => []StopIsFinal
<1>1. Inv => StopIsFinal
  BY DEF Inv
<1> QED
  BY Invariance, <1>1, PTL
=============================================================================
