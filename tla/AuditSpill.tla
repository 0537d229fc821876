------------------------------ MODULE AuditSpill ------------------------------
(***************************************************************************)
(* The audit trail's way to the database (internal/audit/recorder.go and    *)
(* spill.go): a bounded queue and its workers, the on-disk overflow file of *)
(* each replica, the reaper that replays it, and the adoption of the files  *)
(* of replicas that are gone.  Events stand for audit rows; a file is the   *)
(* set of events whose lines it holds, since replay order carries no        *)
(* promise.  The claims of a replica (files it renamed to its own name) are *)
(* one set.  spillStore.mu orders what one process does to a file; another  *)
(* process may rename the file between a drain's read and its rewrite.      *)
(***************************************************************************)
EXTENDS Naturals, FiniteSets

CONSTANTS
    Replicas,
    Events,
    QueueSize,      \* bound: events in a replica's queue (queueSize)
    FlushSize,      \* bound: events in a worker's batch and in a drain (flushSize)
    SpillMax,       \* bound: events in a spill file (SpillMaxBytes)
    MaxFaults,      \* bound: outages, crashes, stops, failed writes
    RenameCost,     \* what taking a file in the middle of its drain counts in it
    Survivor,       \* the replica that is always started again (liveness only)
    Watched,        \* the events the liveness property follows
    None

ASSUME SizesAssumption ==
    /\ QueueSize \in Nat \ {0} /\ FlushSize \in Nat \ {0}
    /\ SpillMax \in Nat /\ MaxFaults \in Nat /\ RenameCost \in Nat
ASSUME SurvivorAssumption == Survivor \in Replicas /\ Watched \subseteq Events
ASSUME NoneAssumption == None \notin {"own", "claim"}

VARIABLES
    up,         \* [Replicas -> "new" (not started) | "up" | "closing" | "down"]
    queue,      \* [Replicas -> the events in Recorder.queue]
    buf,        \* [Replicas -> the batch in the workers' hands]
    reading,    \* [Replicas -> the events a drain under way has read off a file]
    tail,       \* [Replicas -> those it is to write back]
    drained,    \* [Replicas -> events the reaper took from a file, to enqueue]
    back,       \* [Replicas -> those the queue refused, to be re-spilled]
    from,       \* [Replicas -> the store they came from: "own" | "claim" | None]
    own,        \* [Replicas -> the events in its spill file]
    claims,     \* [Replicas -> the events in the files it has claimed]
    torn,       \* [Replicas -> its spill file ends inside a line]
    old,        \* [Replicas -> its spill file has gone untouched for AdoptAfter]
    oldClaim,   \* [Replicas -> its claims have]
    pause,      \* [Replicas -> the database was unreachable a moment ago]
    dbUp,       \* the database answers
    trail,      \* [Events -> how many rows of it audit_events holds]
    logged,     \* events that went to the log fallback
    gone,       \* events lost with a process or by a best-effort path
    recorded,   \* events that were recorded
    lost,       \* those lost after a drain had taken them off the disk
    overlap,    \* history: events whose file was renamed in the middle of a drain
    faults

memory == <<queue, buf, reading, tail, drained, back, from>>
disk == <<own, claims, torn, old, oldClaim, overlap>>
vars == <<up, memory, disk, pause, dbUp, trail, logged, gone, lost, recorded, faults>>

Empty == [r \in Replicas |-> {}]
No == [r \in Replicas |-> FALSE]

Init ==
    /\ up = [r \in Replicas |-> "new"]
    /\ queue = Empty /\ buf = Empty
    /\ reading = Empty /\ tail = Empty /\ drained = Empty /\ back = Empty
    /\ from = [r \in Replicas |-> None]
    /\ own = Empty /\ claims = Empty
    /\ torn = No /\ old = No /\ oldClaim = No /\ pause = No
    /\ dbUp = TRUE /\ trail = [e \in Events |-> 0]
    /\ logged = {} /\ gone = {} /\ lost = {} /\ recorded = {} /\ overlap = {}
    /\ faults = 0

Half == QueueSize \div 2
Faults(n) == faults + n <= MaxFaults /\ faults' = faults + n
Fault == Faults(1)
NoFault == UNCHANGED faults
Running(r) == up[r] \in {"up", "closing"}

(* SaveAuditEvents: INSERT ... ON CONFLICT (id) DO NOTHING. *)
Inserted(E) == [e \in Events |-> IF e \in E /\ trail[e] = 0 THEN 1 ELSE trail[e]]

----------------------------------------------------------------------------
(* The spill file. *)

(* Mutant: an append to a torn file joins the fragment on its line. *)
AppendJoined(r, K) ==
    /\ own' = IF torn[r] THEN own ELSE [own EXCEPT ![r] = @ \cup K]
    /\ torn' = [torn EXCEPT ![r] = FALSE]
    /\ old' = [old EXCEPT ![r] = FALSE]

(* The append of spillFor: a torn tail is closed with a newline first, so   *)
(* the fragment alone never decodes.                                        *)
Append(r, K) ==
    /\ own' = [own EXCEPT ![r] = @ \cup K]
    /\ torn' = IF K = {} THEN torn ELSE [torn EXCEPT ![r] = FALSE]
    /\ old' = IF K = {} THEN old ELSE [old EXCEPT ![r] = FALSE]

(* Mutant: the cap is looked at before the batch, not before each append. *)
FitsBatch(r, E, K) == K = IF Cardinality(own[r]) <= SpillMax THEN E ELSE {}

(* The events of E that the file's cap leaves room for. *)
Fits(r, E, K) ==
    /\ K \subseteq E
    /\ K = {} \/ Cardinality(own[r]) + Cardinality(K) <= SpillMax
    /\ K = E \/ Cardinality(own[r]) + Cardinality(K) >= SpillMax

(* A drain of the store is under way, which holds its mu. *)
Draining(r, store) == reading[r] # {} /\ from[r] = store

(* spillFor for each event of E: kept up to the cap, the others go to the   *)
(* log fallback; a disk that fails keeps none.                              *)
Divert(r, E) ==
    /\ ~Draining(r, "own")
    /\ \E K \in SUBSET E :
         /\ Append(r, K) /\ logged' = logged \cup (E \ K)
         /\ \/ Fits(r, E, K) /\ NoFault
            \/ K = {} /\ Fault
    /\ UNCHANGED <<claims, oldClaim, overlap>>

----------------------------------------------------------------------------
(* Recording. *)

Records(e) == e \notin recorded /\ recorded' = recorded \cup {e}

(* Before Start each event is a detached best-effort write. *)
RecordDetached(r, e) ==
    /\ up[r] = "new" /\ Records(e)
    /\ \/ dbUp /\ trail' = Inserted({e}) /\ UNCHANGED gone
       \/ ~dbUp /\ gone' = gone \cup {e} /\ UNCHANGED trail
    /\ UNCHANGED <<up, memory, disk, pause, dbUp, logged, lost, faults>>

RecordEnqueued(r, e) ==
    /\ up[r] = "up" /\ Records(e)
    /\ Cardinality(queue[r]) < QueueSize
    /\ queue' = [queue EXCEPT ![r] = @ \cup {e}]
    /\ UNCHANGED <<up, buf, reading, tail, drained, back, from, disk, pause, dbUp, trail, logged, gone, lost, faults>>

(* divert "full". *)
RecordFull(r, e) ==
    /\ up[r] = "up" /\ Records(e)
    /\ Cardinality(queue[r]) = QueueSize
    /\ Divert(r, {e})
    /\ UNCHANGED <<up, memory, pause, dbUp, trail, gone, lost>>

(* divert "closed": the reaper is stopping too. *)
RecordClosed(r, e) ==
    /\ up[r] = "closing" /\ Records(e)
    /\ logged' = logged \cup {e}
    /\ UNCHANGED <<up, memory, disk, pause, dbUp, trail, gone, lost, faults>>

----------------------------------------------------------------------------
(* The workers. *)

(* Mutant: a worker collects without end. *)
TakeUnbounded(r) ==
    /\ Running(r)
    /\ \E e \in queue[r] :
         /\ queue' = [queue EXCEPT ![r] = @ \ {e}]
         /\ buf' = [buf EXCEPT ![r] = @ \cup {e}]
    /\ UNCHANGED <<up, reading, tail, drained, back, from, disk, pause, dbUp, trail, logged, gone, lost, recorded, faults>>

(* A worker receives an event into its batch. *)
Take(r) ==
    /\ Running(r) /\ Cardinality(buf[r]) < FlushSize
    /\ \E e \in queue[r] :
         /\ queue' = [queue EXCEPT ![r] = @ \ {e}]
         /\ buf' = [buf EXCEPT ![r] = @ \cup {e}]
    /\ UNCHANGED <<up, reading, tail, drained, back, from, disk, pause, dbUp, trail, logged, gone, lost, recorded, faults>>

Flush(r) == Running(r) /\ buf[r] # {} /\ buf' = [buf EXCEPT ![r] = {}]

(* The batch is inserted, at the first or the second try. *)
FlushWritten(r) ==
    /\ Flush(r) /\ dbUp
    /\ trail' = Inserted(buf[r])
    /\ UNCHANGED <<up, queue, reading, tail, drained, back, from, disk, pause, dbUp, logged, gone, lost, recorded, faults>>

(* databaseUnreachable: the events are spilled for a replay.  A write whose *)
(* deadline passed may have landed all the same.                            *)
FlushUnreachable(r) ==
    /\ Flush(r) /\ ~dbUp
    /\ pause' = [pause EXCEPT ![r] = TRUE]
    /\ Divert(r, buf[r])
    /\ UNCHANGED <<up, queue, reading, tail, drained, back, from, dbUp, trail, gone, lost, recorded>>

FlushLate(r) ==
    /\ Flush(r) /\ dbUp /\ Fault /\ ~Draining(r, "own")
    /\ pause' = [pause EXCEPT ![r] = TRUE]
    /\ trail' = Inserted(buf[r])
    /\ \E K \in SUBSET buf[r] :
         /\ Fits(r, buf[r], K)
         /\ Append(r, K) /\ logged' = logged \cup (buf[r] \ K)
    /\ UNCHANGED <<up, queue, reading, tail, drained, back, from, claims, oldClaim, overlap, dbUp, gone, lost, recorded>>

(* The batch is refused for one bad row: each event is written on its own,  *)
(* and the row that is refused again goes to the log.  A panic in the write *)
(* path ends alike (salvageBatch).                                          *)
FlushRefused(r) ==
    /\ Flush(r) /\ dbUp /\ Fault
    /\ \E e \in buf[r] :
         /\ trail' = Inserted(buf[r] \ {e})
         /\ logged' = logged \cup {e}
    /\ UNCHANGED <<up, queue, reading, tail, drained, back, from, disk, pause, dbUp, gone, lost, recorded>>

----------------------------------------------------------------------------
(* The reaper. *)

(* replayPauseAfterOutage is over. *)
Unpause(r) ==
    /\ pause[r] /\ pause' = [pause EXCEPT ![r] = FALSE]
    /\ UNCHANGED <<up, memory, disk, dbUp, trail, logged, gone, lost, recorded, faults>>

(* The reaper is between two passes. *)
Idle(r) == reading[r] = {} /\ drained[r] = {} /\ back[r] = {}

(* The reaper drains while the queue is less than half full.  Once the      *)
(* workers are through, Stop's close of reaperStop ends it.                 *)
ReplayTick(r) ==
    /\ up[r] = "up" \/ (up[r] = "closing" /\ queue[r] \cup buf[r] # {})
    /\ Idle(r) /\ ~pause[r]
    /\ Cardinality(queue[r]) < Half

(* The next events of a file, up to a batch. *)
Batches(content) ==
    {K \in SUBSET content : K # {} /\ (Cardinality(K) = FlushSize
                                       \/ (K = content /\ Cardinality(K) < FlushSize))}

(* Drain reads the file, its own or a claim... *)
DrainRead(r, store, content) ==
    /\ ReplayTick(r)
    /\ \E K \in Batches(content) :
         /\ reading' = [reading EXCEPT ![r] = K]
         /\ tail' = [tail EXCEPT ![r] = content \ K]
    /\ from' = [from EXCEPT ![r] = store]
    /\ UNCHANGED <<up, queue, buf, drained, back, disk, pause, dbUp, trail, logged, gone, lost, recorded, faults>>

DrainOwn(r) == DrainRead(r, "own", own[r])

DrainClaim(r) == DrainRead(r, "claim", claims[r])

(* ...writes the tail aside and renames it over the file, or makes the file *)
(* anew where another replica has taken it since the read...                *)
Rewrite(r) ==
    /\ IF from[r] = "own"
       THEN /\ own' = [own EXCEPT ![r] = tail[r]] /\ old' = [old EXCEPT ![r] = FALSE]
            /\ UNCHANGED <<claims, oldClaim>>
       ELSE /\ claims' = [claims EXCEPT ![r] = tail[r]] /\ oldClaim' = [oldClaim EXCEPT ![r] = FALSE]
            /\ UNCHANGED <<own, old>>
    /\ UNCHANGED <<torn, overlap>>

ReadDone(r) ==
    /\ Running(r) /\ reading[r] # {}
    /\ reading' = [reading EXCEPT ![r] = {}] /\ tail' = [tail EXCEPT ![r] = {}]
    /\ UNCHANGED <<up, queue, buf, back, pause, dbUp, trail, logged, gone, lost, recorded>>

(* ...and returns the events, which are in the reaper's hands alone. *)
DrainRename(r) ==
    /\ ReadDone(r) /\ Rewrite(r)
    /\ drained' = [drained EXCEPT ![r] = reading[r]]
    /\ UNCHANGED <<from, faults>>

(* A rewrite that fails leaves the file as it is and returns nothing. *)
DrainFails(r) ==
    /\ ReadDone(r) /\ Fault
    /\ from' = [from EXCEPT ![r] = None]
    /\ UNCHANGED <<drained, disk>>

(* replayFrom: each event is enqueued, or kept for the re-spill.  Requests  *)
(* fill the queue meanwhile, and Stop closes it.                            *)
ReplayOne(r) ==
    /\ Running(r)
    /\ \E e \in drained[r] :
         /\ drained' = [drained EXCEPT ![r] = @ \ {e}]
         /\ IF up[r] = "up" /\ Cardinality(queue[r]) < QueueSize
              THEN queue' = [queue EXCEPT ![r] = @ \cup {e}] /\ UNCHANGED back
              ELSE back' = [back EXCEPT ![r] = @ \cup {e}] /\ UNCHANGED queue
    /\ from' = IF drained'[r] \cup back'[r] = {} THEN [from EXCEPT ![r] = None] ELSE from
    /\ UNCHANGED <<up, buf, reading, tail, disk, pause, dbUp, trail, logged, gone, lost, recorded, faults>>

(* reSpill, whatever the cap; a disk that fails loses the events.  A claim  *)
(* that another replica has taken meanwhile is created anew.                *)
ReSpill(r) ==
    /\ Running(r) /\ reading[r] = {} /\ drained[r] = {} /\ back[r] # {}
    /\ back' = [back EXCEPT ![r] = {}] /\ from' = [from EXCEPT ![r] = None]
    /\ \/ /\ IF from[r] = "own"
               THEN Append(r, back[r]) /\ UNCHANGED <<claims, oldClaim>>
               ELSE /\ claims' = [claims EXCEPT ![r] = @ \cup back[r]]
                    /\ oldClaim' = [oldClaim EXCEPT ![r] = FALSE]
                    /\ UNCHANGED <<own, torn, old>>
          /\ UNCHANGED overlap
          /\ NoFault /\ UNCHANGED gone
       \/ Fault /\ gone' = gone \cup back[r] /\ UNCHANGED disk
    /\ UNCHANGED <<up, queue, buf, reading, tail, drained, pause, dbUp, trail, logged, lost, recorded>>

(* Of the files F and the claims C, what their owners are draining now. *)
MidDrain(F, C) ==
    (UNION {own[d] : d \in {f \in F : Draining(f, "own")}})
    \cup (UNION {claims[d] : d \in {c \in C : Draining(c, "claim")}})

(* Mutant: the claimed file is copied, not renamed. *)
AdoptsCopy(r, F, C) ==
    /\ claims' = [claims EXCEPT ![r] = @ \cup (UNION {own[d] : d \in F}) \cup (UNION {claims[d] : d \in C})]
    /\ old' = [d \in Replicas |-> old[d] /\ d \notin F]
    /\ oldClaim' = [d \in Replicas |-> oldClaim[d] /\ d \notin C \cup {r}]
    /\ UNCHANGED <<own, torn, overlap, faults>>

(* claimOrphans: the files F and the claims of C are renamed to r's name.   *)
(* An owner that is alive after all begins a new file; in the middle of a   *)
(* drain it makes the file anew from what it has read.                      *)
Adopts(r, F, C) ==
    /\ claims' = [d \in Replicas |->
         CASE d = r -> claims[r] \cup (UNION {own[f] : f \in F}) \cup (UNION {claims[c] : c \in C})
           [] d \in C -> {}
           [] OTHER -> claims[d]]
    /\ own' = [d \in Replicas |-> IF d \in F THEN {} ELSE own[d]]
    /\ torn' = [d \in Replicas |-> torn[d] /\ (d \notin F \/ Draining(d, "own"))]
    /\ old' = [d \in Replicas |-> old[d] /\ d \notin F]
    /\ oldClaim' = [d \in Replicas |-> oldClaim[d] /\ d \notin C \cup {r}]
    /\ overlap' = overlap \cup MidDrain(F, C)
    /\ IF MidDrain(F, C) = {} THEN NoFault ELSE Faults(RenameCost)

(* The files of others that hold events and have not been touched. *)
Orphans(r) == {d \in Replicas \ {r} : old[d] /\ own[d] # {}}

(* Mutant: a claim is its claimant's for ever. *)
OrphanClaimsNone(r) == {}

(* The claims of replicas that died while they replayed them. *)
OrphanClaims(r) == {d \in Replicas \ {r} : oldClaim[d] /\ claims[d] # {}}

(* adoptOrphans once a minute, in the reaper's goroutine. *)
AdoptOrphans(r) ==
    /\ Running(r) /\ Idle(r) /\ Orphans(r) \cup OrphanClaims(r) # {}
    /\ Adopts(r, Orphans(r), OrphanClaims(r))
    /\ UNCHANGED <<up, memory, pause, dbUp, trail, logged, gone, lost, recorded>>

----------------------------------------------------------------------------
(* The process. *)

(* Start: the pool, an adoption, the reaper. *)
Start(r) ==
    /\ up[r] = "new" /\ up' = [up EXCEPT ![r] = "up"]
    /\ Adopts(r, Orphans(r), OrphanClaims(r))
    /\ UNCHANGED <<memory, pause, dbUp, trail, logged, gone, lost, recorded>>

(* Stop: no new events; the workers and the reaper finish. *)
Stop(r) ==
    /\ up[r] = "up" /\ up' = [up EXCEPT ![r] = "closing"] /\ Fault
    /\ UNCHANGED <<memory, disk, pause, dbUp, trail, logged, gone, lost, recorded>>

Stopped(r) ==
    /\ up[r] = "closing" /\ queue[r] = {} /\ buf[r] = {} /\ Idle(r)
    /\ up' = [up EXCEPT ![r] = "down"]
    /\ pause' = [pause EXCEPT ![r] = FALSE]
    /\ UNCHANGED <<memory, disk, dbUp, trail, logged, gone, lost, recorded, faults>>

Memory(r) == queue[r] \cup buf[r] \cup drained[r] \cup back[r]

(* The process ends with what it holds: a crash, or a shutdown budget that  *)
(* ran out.  An append it was making may be cut off inside its line; a      *)
(* drain it was making leaves the file as it is.                            *)
Crash(r) ==
    /\ up[r] # "down" /\ up' = [up EXCEPT ![r] = "down"] /\ Fault
    /\ gone' = gone \cup Memory(r) /\ lost' = lost \cup drained[r] \cup back[r]
    /\ queue' = [queue EXCEPT ![r] = {}] /\ buf' = [buf EXCEPT ![r] = {}]
    /\ reading' = [reading EXCEPT ![r] = {}] /\ tail' = [tail EXCEPT ![r] = {}]
    /\ drained' = [drained EXCEPT ![r] = {}] /\ back' = [back EXCEPT ![r] = {}]
    /\ from' = [from EXCEPT ![r] = None]
    /\ pause' = [pause EXCEPT ![r] = FALSE]
    /\ \/ UNCHANGED torn
       \/ buf[r] \cup back[r] # {} /\ torn' = [torn EXCEPT ![r] = TRUE]
    /\ UNCHANGED <<own, claims, old, oldClaim, overlap, dbUp, trail, logged, recorded>>

Restart(r) ==
    /\ up[r] = "down" /\ up' = [up EXCEPT ![r] = "new"]
    /\ UNCHANGED <<memory, disk, pause, dbUp, trail, logged, gone, lost, recorded, faults>>

----------------------------------------------------------------------------
(* The environment. *)

(* The reaper does not come to a file: its replica is gone, or its queue    *)
(* stays half full, or the database is unreachable.                         *)
Stalled(r) == up[r] = "down" \/ Cardinality(queue[r]) >= Half

(* AdoptAfter passes: while the reaper pauses, events that do not fit leave *)
(* the spill file untouched, and nothing goes to a claim.                   *)
Age(r) ==
    /\ \/ /\ Stalled(r) \/ (pause[r] /\ Cardinality(own[r]) >= SpillMax)
          /\ ~old[r] /\ own[r] # {} /\ old' = [old EXCEPT ![r] = TRUE] /\ UNCHANGED oldClaim
       \/ /\ Stalled(r) \/ pause[r]
          /\ ~oldClaim[r] /\ claims[r] # {} /\ oldClaim' = [oldClaim EXCEPT ![r] = TRUE] /\ UNCHANGED old
    /\ UNCHANGED <<up, memory, own, claims, torn, overlap, pause, dbUp, trail, logged, gone, lost, recorded, faults>>

Outage ==
    /\ dbUp /\ dbUp' = FALSE /\ Fault
    /\ UNCHANGED <<up, memory, disk, pause, trail, logged, gone, lost, recorded>>

Recovery ==
    /\ ~dbUp /\ dbUp' = TRUE
    /\ UNCHANGED <<up, memory, disk, pause, trail, logged, gone, lost, recorded, faults>>

----------------------------------------------------------------------------

Record(r, e) == RecordDetached(r, e) \/ RecordEnqueued(r, e) \/ RecordFull(r, e) \/ RecordClosed(r, e)
Worker(r) == Take(r) \/ FlushWritten(r) \/ FlushUnreachable(r) \/ FlushLate(r) \/ FlushRefused(r)
Reaper(r) == DrainOwn(r) \/ DrainClaim(r) \/ DrainRename(r) \/ DrainFails(r) \/ ReplayOne(r) \/ ReSpill(r)

Next ==
    \/ \E r \in Replicas :
         \/ \E e \in Events : Record(r, e)
         \/ Worker(r) \/ Unpause(r) \/ Reaper(r) \/ AdoptOrphans(r)
         \/ Start(r) \/ Stop(r) \/ Stopped(r) \/ Crash(r) \/ Restart(r) \/ Age(r)
    \/ Outage \/ Recovery

Spec == Init /\ [][Next]_vars

(* Fairness: the goroutines run and time passes; the database comes back;   *)
(* one replica is always started again, the others may stay gone.           *)
FairSpec ==
    /\ Spec
    /\ WF_vars(Recovery)
    /\ \A r \in Replicas :
         /\ WF_vars(Worker(r) \/ Unpause(r) \/ Start(r) \/ Stopped(r))
         /\ WF_vars(Reaper(r)) /\ WF_vars(Age(r))
    /\ WF_vars(Restart(Survivor)) /\ WF_vars(AdoptOrphans(Survivor))

----------------------------------------------------------------------------
(* Properties. *)

Disk == UNION {own[r] \cup claims[r] : r \in Replicas}
Written == {e \in Events : trail[e] > 0}

(* Every variable has its type, and the queue and the workers' batch keep   *)
(* their bounds (queueSize, flushSize).                                     *)
TypeOK ==
    /\ up \in [Replicas -> {"new", "up", "closing", "down"}]
    /\ \A f \in {queue, buf, reading, tail, drained, back, own, claims} : f \in [Replicas -> SUBSET Events]
    /\ from \in [Replicas -> {"own", "claim", None}]
    /\ \A r \in Replicas : Cardinality(queue[r]) <= QueueSize /\ Cardinality(buf[r]) <= FlushSize
    /\ \A f \in {torn, old, oldClaim, pause} : f \in [Replicas -> BOOLEAN]
    /\ dbUp \in BOOLEAN /\ trail \in [Events -> Nat]
    /\ logged \subseteq Events /\ gone \subseteq Events /\ recorded \subseteq Events
    /\ lost \subseteq Events /\ overlap \subseteq Events /\ faults \in 0..MaxFaults

(* No event disappears in silence: each that was recorded is a row, a log   *)
(* line, on disk or in a live process, or it was lost with a process (or    *)
(* with a failing disk), through outages, full queues, replays, re-spills,  *)
(* adoptions and torn lines.                                                *)
Accounted ==
    recorded \subseteq Written \cup logged \cup gone \cup Disk \cup UNION {Memory(r) : r \in Replicas}

(* A spill file is replayed by one replica, and only that one (claimOrphans *)
(* renames): no event is in two files, or in a file and a process, or in    *)
(* two processes, whatever is spilled, drained, re-spilled and adopted in   *)
(* which order.  The one way to hold an event twice is to take a file away  *)
(* between the read and the rename of its owner's drain (spill.go:277-318): *)
(* the overlap that the idempotent insert absorbs (spill.go:423-425).       *)
OneHolder ==
    \A e \in Events \ overlap :
        Cardinality({r \in Replicas : e \in own[r]}) + Cardinality({r \in Replicas : e \in claims[r]})
        + Cardinality({r \in Replicas : e \in Memory(r)}) <= 1

(* An event on disk reaches the trail in the end, or the log, or is lost    *)
(* with the process that was replaying it: the reaper never leaves a file   *)
(* behind, its own or that of a replica that is gone.                       *)
SpilledIsReplayed == \A e \in Watched : (e \in Disk) ~> (e \in Written \cup logged \cup gone)

(* What keeps an outage from filling the disk: a spill file outgrows its    *)
(* cap by one drained batch at most, although a re-spill does not look at   *)
(* the cap (spillFor, Drain, reSpill) and appends go on between a drain and *)
(* its re-spill.                                                            *)
CapHolds == \A r \in Replicas : Cardinality(own[r]) <= SpillMax + FlushSize

(* What spillStore's comment says: events on disk are written at least      *)
(* once, whenever a process ends: what it takes down with it is a row, or   *)
(* somebody else has it.                                                    *)
AtLeastOnce == lost \subseteq Written \cup Disk \cup UNION {Memory(r) : r \in Replicas}

=============================================================================
