------------------------- MODULE InvalidationFanout -------------------------
(***************************************************************************)
(* The invalidations of one replica reach the caches of the others         *)
(* (internal/invalidation over Redis pub/sub).  A replica numbers the      *)
(* messages it queues, sends them best effort, and announces its last       *)
(* number in heartbeats; a receiver that meets a gap in the numbers, or     *)
(* (re)subscribes, drops everything (a resync).                             *)
(*                                                                         *)
(* A key stands for an invalidation key with its scope.  What the applier   *)
(* of a key does to the local cache is CacheCoherence; here a key of a      *)
(* replica is stale from a peer's commit until the replica's applier ran.   *)
(* Process ids are origins: a restarted replica is another member of        *)
(* Replicas (fanout.go, bootNonce).                                         *)
(***************************************************************************)
EXTENDS Integers, Sequences, FiniteSets

CONSTANTS
    Replicas,    \* processes, each with an origin of its own
    Writers,     \* the ones whose publishing side this instance runs
    Readers,     \* the ones whose receiving side it runs
    Keys,        \* (invalidation key, scope)
    Resync,      \* the message "drop everything"
    Heartbeat,   \* the message "this is my last number"
    None,        \* nothing
    QueueLimit,  \* Fanout.queueLimit (512)
    TrackLimit,  \* origins tracked before the quiet ones are pruned (64)
    MaxWrites,   \* bound: commits, in all
    MaxFaults,   \* bound: degradations, publish errors, lost subscriptions
    MaxEnds,     \* bound: replicas that stop or crash
    MaxWire      \* bound: messages in transit to one replica

ASSUME FanoutAssumption ==
    /\ Writers \subseteq Replicas /\ Readers \subseteq Replicas
    /\ {Resync, Heartbeat, None} \cap Keys = {}
    /\ Resync # Heartbeat /\ Resync # None /\ Heartbeat # None
    /\ None \notin Nat
    /\ QueueLimit \in Nat \ {0}
    /\ TrackLimit \in Nat

VARIABLES
    phase,      \* [Replicas -> "off" | "up" | "stopping" | "gone"]
    stale,      \* [Replicas -> keys cached before a peer's commit]
    hook,       \* [Replicas -> committed keys whose PublishInvalidation is to come]
    queue,      \* [Replicas -> Seq]: Fanout.queue
    wake,       \* [Replicas -> BOOLEAN]: Fanout.wake holds a token
    loop,       \* [Replicas -> where publishLoop is]
    sending,    \* [Replicas -> the message popped and not yet sent]
    epoch,      \* [Replicas -> Nat]: Fanout.epoch
    degraded,   \* [Replicas -> BOOLEAN]: Health.Degraded
    notice,     \* [Replicas -> BOOLEAN]: a Health listener is to run with up
    sub,        \* [Replicas -> "no" | "confirmed" | "ready"]
    wire,       \* [Replicas -> [Replicas -> Seq(message)]]: in transit to the
                \* subscriber, by sender (only a sender's own order matters)
    track,      \* [Replicas -> [Replicas -> number or None]]: tracker.last
    request,    \* [Replicas -> BOOLEAN]: resyncReq holds a request
    resyncing,  \* [Replicas -> keys the running resync has still to drop]
    ttlOnly,    \* history: stale keys that only their TTL will now drop
    writes, faults, ends

vars == <<phase, stale, hook, queue, wake, loop, sending, epoch, degraded,
          notice, sub, wire, track, request, resyncing, ttlOnly, writes,
          faults, ends>>
sendVars  == <<hook, queue, wake, loop, sending, epoch>>
recvVars  == <<sub, track, request, resyncing>>
redisVars == <<degraded, notice>>
bounds    == <<writes, faults, ends>>

Whats == Keys \cup {Resync, Heartbeat}
Message == [what : Whats, epoch : Nat]
Occurs(x, s) == \E i \in 1..Len(s) : s[i] = x
NoWire == [m \in Replicas |-> <<>>]

Init ==
    /\ phase = [n \in Replicas |-> "off"]
    /\ stale = [n \in Replicas |-> {}]
    /\ hook = [n \in Replicas |-> {}]
    /\ queue = [n \in Replicas |-> <<>>]
    /\ wake = [n \in Replicas |-> FALSE]
    /\ loop = [n \in Replicas |-> "announce"]
    /\ sending = [n \in Replicas |-> None]
    /\ epoch = [n \in Replicas |-> 0]
    /\ degraded = [n \in Replicas |-> FALSE]
    /\ notice = [n \in Replicas |-> FALSE]
    /\ sub = [n \in Replicas |-> "no"]
    /\ wire = [n \in Replicas |-> NoWire]
    /\ track = [n \in Replicas |-> [m \in Replicas |-> None]]
    /\ request = [n \in Replicas |-> FALSE]
    /\ resyncing = [n \in Replicas |-> {}]
    /\ ttlOnly = [n \in Replicas |-> {}]
    /\ writes = 0 /\ faults = 0 /\ ends = 0

----------------------------------------------------------------------------
(* What a receiver can still learn. *)

(* Mutant: a heartbeat one past the last number shows no gap. *)
GapOffByOne(prev, what, number) == prev # None /\ number > prev + 1

(* tracker.observe: an origin seen for the first time, and one that counts  *)
(* again from one, show no gap.                                             *)
Gap(prev, what, number) ==
    /\ prev # None
    /\ number >= prev
    /\ IF what = Heartbeat THEN number > prev ELSE number > prev + 1

(* The last number of m that n has heard once it has read its wire. *)
LastHeard(n, m) ==
    IF wire[n][m] = <<>> THEN track[n][m] ELSE wire[n][m][Len(wire[n][m])].epoch

(* The last number of m whose message is no longer in m's hands. *)
LastSent(m) == IF sending[m] = None THEN epoch[m] ELSE epoch[m] - 1

(* n will meet a gap in m's numbers: in what it has still to read, or in    *)
(* m's next message or heartbeat.                                           *)
GapAhead(n, m) ==
    LET s == wire[n][m]
    IN  \/ \E i \in 1..Len(s) :
             Gap(IF i = 1 THEN track[n][m] ELSE s[i-1].epoch, s[i].what, s[i].epoch)
        \/ /\ phase[m] \in {"up", "stopping"}
           /\ LastHeard(n, m) # None
           /\ LastSent(m) > LastHeard(n, m)

(* A drop of k at n is under way: n will resync, or a message that names k  *)
(* (or everything) is on its way, or n will notice that one was lost.       *)
Covered(n, k) ==
    \/ sub[n] # "ready"
    \/ request[n]
    \/ k \in resyncing[n]
    \/ \E m \in Replicas \ {n} :
         \/ \E i \in 1..Len(wire[n][m]) : wire[n][m][i].what \in {k, Resync}
         \/ k \in hook[m]
         \/ Occurs(k, queue[m]) \/ Occurs(Resync, queue[m])
         \/ sending[m] \in {k, Resync}
         \/ GapAhead(n, m)

(* History: a message of m is lost to n, and n has no number of m to miss   *)
(* it by.                                                                   *)
Unseen(n, m) == sub[n] = "ready" /\ ~request[n] /\ LastHeard(n, m) = None

----------------------------------------------------------------------------
(* The life of a replica. *)

(* Start: the loops run, the cache is cold. *)
Start(n) ==
    /\ phase[n] = "off"
    /\ phase' = [phase EXCEPT ![n] = "up"]
    /\ UNCHANGED <<stale, sendVars, redisVars, recvVars, wire, ttlOnly, bounds>>

(* A write of n commits: every other replica may hold the value it          *)
(* replaced.  The hook that hands the key to the fan-out is still to run.   *)
Commit(n, k) ==
    /\ phase[n] = "up" /\ n \in Writers
    /\ writes < MaxWrites
    /\ stale' = [m \in Replicas |-> IF m # n /\ phase[m] = "up" /\ m \in Readers
                                    THEN stale[m] \cup {k} ELSE stale[m]]
    /\ hook' = [hook EXCEPT ![n] = @ \cup {k}]
    /\ writes' = writes + 1
    /\ UNCHANGED <<phase, queue, wake, loop, sending, epoch, redisVars, recvVars,
                   wire, ttlOnly, faults, ends>>

(* The stop function, called once the replica takes no more requests: the   *)
(* subscription and the resync worker end, the queue is flushed.            *)
Stop(n) ==
    /\ phase[n] = "up"
    /\ hook[n] = {}
    /\ ends < MaxEnds
    /\ ends' = ends + 1
    /\ phase' = [phase EXCEPT ![n] = "stopping"]
    /\ sub' = [sub EXCEPT ![n] = "no"]
    /\ wire' = [wire EXCEPT ![n] = NoWire]
    /\ request' = [request EXCEPT ![n] = FALSE]
    /\ resyncing' = [resyncing EXCEPT ![n] = {}]
    /\ UNCHANGED <<stale, sendVars, redisVars, track, ttlOnly, writes, faults>>

(* The process ends: its caches, its queue and its numbering go with it.    *)
(* What the others had still to hear of it, they never will.                *)
Gone(n) ==
    /\ phase' = [phase EXCEPT ![n] = "gone"]
    /\ stale' = [stale EXCEPT ![n] = {}]
    /\ hook' = [hook EXCEPT ![n] = {}]
    /\ queue' = [queue EXCEPT ![n] = <<>>]
    /\ wake' = [wake EXCEPT ![n] = FALSE]
    /\ loop' = [loop EXCEPT ![n] = "ended"]
    /\ sending' = [sending EXCEPT ![n] = None]
    /\ sub' = [sub EXCEPT ![n] = "no"]
    /\ wire' = [wire EXCEPT ![n] = NoWire]
    /\ request' = [request EXCEPT ![n] = FALSE]
    /\ resyncing' = [resyncing EXCEPT ![n] = {}]
    /\ notice' = [notice EXCEPT ![n] = FALSE]
    /\ UNCHANGED <<epoch, degraded, track, writes, faults>>

(* The flush is over: the queue is empty, or the final deadline passed. *)
Flushed(n) ==
    /\ phase[n] = "stopping"
    /\ sending[n] = None
    /\ queue[n] = <<>> \/ faults < MaxFaults
    /\ Gone(n)
    /\ ttlOnly' = [m \in Replicas |-> IF m = n THEN {}
                    ELSE ttlOnly[m] \cup {k \in stale[m] : ~Covered(m, k)'}]
    /\ UNCHANGED ends

Crash(n) ==
    /\ phase[n] \in {"up", "stopping"}
    /\ ends < MaxEnds
    /\ ends' = ends + 1
    /\ Gone(n)
    /\ ttlOnly' = [m \in Replicas |-> IF m = n THEN {}
                    ELSE ttlOnly[m] \cup {k \in stale[m] : ~Covered(m, k)'}]

----------------------------------------------------------------------------
(* The publishing side. *)

Enqueue(q, k) ==
    IF q # <<>> /\ Head(q) = Resync THEN q
    ELSE IF Len(q) >= QueueLimit THEN <<Resync>>
    ELSE IF Occurs(k, q) THEN q ELSE Append(q, k)

(* The commit hook: an identical message absorbs this one, a waiting resync *)
(* covers it, a full queue becomes one resync.                              *)
PublishInvalidation(n, k) ==
    /\ phase[n] = "up"
    /\ k \in hook[n]
    /\ hook' = [hook EXCEPT ![n] = @ \ {k}]
    /\ queue' = [queue EXCEPT ![n] = Enqueue(@, k)]
    /\ wake' = [wake EXCEPT ![n] = @ \/ queue'[n] # queue[n]]
    /\ UNCHANGED <<phase, stale, loop, sending, epoch, redisVars, recvVars, wire,
                   ttlOnly, bounds>>

(* publishLoop: a token in wake, or the final flush, drains the queue. *)
Wake(n) ==
    /\ \/ phase[n] = "up" /\ loop[n] = "wait" /\ wake[n]
       \/ phase[n] = "stopping" /\ loop[n] \in {"announce", "wait"}
    /\ wake' = [wake EXCEPT ![n] = FALSE]
    /\ loop' = [loop EXCEPT ![n] = "drain"]
    /\ UNCHANGED <<phase, stale, hook, queue, sending, epoch, redisVars, recvVars,
                   wire, ttlOnly, bounds>>

Pop(n) ==
    /\ phase[n] \in {"up", "stopping"}
    /\ loop[n] = "drain"
    /\ sending[n] = None
    /\ queue[n] # <<>>
    /\ sending' = [sending EXCEPT ![n] = Head(queue[n])]
    /\ queue' = [queue EXCEPT ![n] = Tail(@)]
    /\ epoch' = [epoch EXCEPT ![n] = @ + 1]
    /\ UNCHANGED <<phase, stale, hook, wake, loop, redisVars, recvVars, wire,
                   ttlOnly, bounds>>

Drained(n) ==
    /\ phase[n] = "up"
    /\ loop[n] = "drain"
    /\ sending[n] = None
    /\ queue[n] = <<>>
    /\ loop' = [loop EXCEPT ![n] = "wait"]
    /\ UNCHANGED <<phase, stale, hook, queue, wake, sending, epoch, redisVars,
                   recvVars, wire, ttlOnly, bounds>>

(* Mutant: number zero is left out of the message. *)
DeliverUnnumbered(n, what) ==
    LET msg == [what |-> what, epoch |-> IF epoch[n] = 0 THEN None ELSE epoch[n]]
    IN  /\ \A m \in Replicas : sub[m] # "no" => Len(wire[m][n]) < MaxWire
        /\ wire' = [m \in Replicas |-> IF sub[m] = "no" THEN wire[m]
                                       ELSE [wire[m] EXCEPT ![n] = Append(@, msg)]]

(* Redis hands the message to whoever is subscribed at that moment. *)
Deliver(n, what) ==
    LET msg == [what |-> what, epoch |-> epoch[n]]
    IN  /\ \A m \in Replicas : sub[m] # "no" => Len(wire[m][n]) < MaxWire
        /\ wire' = [m \in Replicas |-> IF sub[m] = "no" THEN wire[m]
                                       ELSE [wire[m] EXCEPT ![n] = Append(@, msg)]]

(* send publishes the message; a publish that fails after Redis took it is  *)
(* no different.                                                            *)
Send(n) ==
    /\ sending[n] # None
    /\ ~degraded[n]
    /\ Deliver(n, sending[n])
    /\ sending' = [sending EXCEPT ![n] = None]
    /\ UNCHANGED <<phase, stale, hook, queue, wake, loop, epoch, redisVars,
                   recvVars, ttlOnly, bounds>>

(* Mutant: a message that was not sent gives its number back. *)
SendLostUnnumbered(n) ==
    /\ sending[n] # None
    /\ \/ degraded[n] /\ UNCHANGED faults
       \/ ~degraded[n] /\ faults < MaxFaults /\ faults' = faults + 1
    /\ sending' = [sending EXCEPT ![n] = None]
    /\ epoch' = [epoch EXCEPT ![n] = @ - 1]
    /\ UNCHANGED <<phase, stale, hook, queue, wake, loop, redisVars, recvVars,
                   ttlOnly, wire, writes, ends>>

(* Redis is degraded, or the publish failed: the message is dropped and     *)
(* keeps its number.                                                        *)
SendLost(n) ==
    /\ sending[n] # None
    /\ \/ degraded[n] /\ UNCHANGED faults
       \/ ~degraded[n] /\ faults < MaxFaults /\ faults' = faults + 1
    /\ ttlOnly' = [m \in Replicas |->
                    IF m # n /\ Unseen(m, n)
                    THEN ttlOnly[m] \cup (stale[m] \cap
                            (IF sending[n] = Resync THEN Keys ELSE {sending[n]}))
                    ELSE ttlOnly[m]]
    /\ sending' = [sending EXCEPT ![n] = None]
    /\ UNCHANGED <<phase, stale, hook, queue, wake, loop, epoch, redisVars,
                   recvVars, wire, writes, ends>>

(* The heartbeat of the ticker, and the one that announces the origin. *)
Beat(n) ==
    /\ phase[n] = "up" /\ n \in Writers
    /\ loop[n] \in {"announce", "wait"}
    /\ \/ ~degraded[n] /\ Deliver(n, Heartbeat) /\ UNCHANGED faults
       \/ degraded[n] /\ loop[n] = "announce" /\ UNCHANGED <<wire, faults>>
       \/ /\ ~degraded[n] /\ loop[n] = "announce" /\ faults < MaxFaults
          /\ faults' = faults + 1 /\ UNCHANGED wire
    /\ loop' = [loop EXCEPT ![n] = "wait"]
    /\ UNCHANGED <<phase, stale, hook, queue, wake, sending, epoch, redisVars,
                   recvVars, ttlOnly, writes, ends>>

----------------------------------------------------------------------------
(* The receiving side. *)

(* The server confirms the subscription: from here on nothing published is  *)
(* missed.                                                                  *)
Subscribe(n) ==
    /\ phase[n] = "up" /\ n \in Readers
    /\ sub[n] = "no"
    /\ sub' = [sub EXCEPT ![n] = "confirmed"]
    /\ UNCHANGED <<phase, stale, sendVars, redisVars, track, request, resyncing,
                   wire, ttlOnly, bounds>>

(* onReady: the numbering starts over and a resync is asked for. *)
OnReady(n) ==
    /\ sub[n] = "confirmed"
    /\ sub' = [sub EXCEPT ![n] = "ready"]
    /\ track' = [track EXCEPT ![n] = [m \in Replicas |-> None]]
    /\ request' = [request EXCEPT ![n] = TRUE]
    /\ UNCHANGED <<phase, stale, sendVars, redisVars, resyncing, wire, ttlOnly, bounds>>

(* The subscription breaks: what was in transit is gone. *)
SubscriptionLost(n) ==
    /\ sub[n] # "no"
    /\ faults < MaxFaults
    /\ faults' = faults + 1
    /\ sub' = [sub EXCEPT ![n] = "no"]
    /\ wire' = [wire EXCEPT ![n] = NoWire]
    /\ UNCHANGED <<phase, stale, sendVars, redisVars, track, request, resyncing,
                   ttlOnly, writes, ends>>

DropKey(n, k) ==
    /\ stale' = [stale EXCEPT ![n] = @ \ {k}]
    /\ ttlOnly' = [ttlOnly EXCEPT ![n] = @ \ {k}]

(* tracker.prune: once more origins than the limit are tracked, every one   *)
(* that nothing was read from for ten minutes is forgotten.  The clock is   *)
(* left open, so that may be any of them but the sender of the message just *)
(* read: one that is gone, one that lives and cannot reach Redis (degraded, *)
(* it sends no heartbeat), or one whose messages this replica was too slow  *)
(* to read.                                                                 *)
Prune(n, m) ==
    LET known == {o \in Replicas : track[n][o] # None} \cup {m}
    IN  IF Cardinality(known) > TrackLimit THEN SUBSET (known \ {m}) ELSE {{}}

(* observe records the number and reports a gap, a gap and a peer's resync  *)
(* ask for a resync, and a key runs its applier.  What a forgotten origin   *)
(* had lost, its next message will not show.                                *)
Observe(n, m, msg, quiet) ==
    /\ track' = [track EXCEPT ![n] =
                   [o \in Replicas |-> IF o = m THEN msg.epoch
                                       ELSE IF o \in quiet THEN None ELSE @[o]]]
    /\ request' = [request EXCEPT ![n] = \/ @ \/ msg.what = Resync
                                         \/ Gap(track[n][m], msg.what, msg.epoch)]
    /\ stale' = [stale EXCEPT ![n] = @ \ {msg.what}]
    /\ ttlOnly' = [ttlOnly EXCEPT ![n] = (@ \ {msg.what}) \cup
                     {k \in stale'[n] : /\ \E q \in quiet : GapAhead(n, q)
                                        /\ ~Covered(n, k)'}]

(* onMessage: a replica's own messages come back and are ignored. *)
OnMessage(n, m) ==
    /\ sub[n] = "ready"
    /\ wire[n][m] # <<>>
    /\ wire' = [wire EXCEPT ![n][m] = Tail(@)]
    /\ UNCHANGED <<phase, sendVars, redisVars, sub, resyncing, bounds>>
    /\ IF m = n THEN UNCHANGED <<track, request, stale, ttlOnly>>
       ELSE \E quiet \in Prune(n, m) : Observe(n, m, Head(wire[n][m]), quiet)

(* resyncLoop takes a request; one that arrives meanwhile waits for the     *)
(* next round.                                                              *)
TakeResync(n) ==
    /\ request[n]
    /\ resyncing[n] = {}
    /\ request' = [request EXCEPT ![n] = FALSE]
    /\ resyncing' = [resyncing EXCEPT ![n] = Keys]
    /\ UNCHANGED <<phase, stale, sendVars, redisVars, sub, track, wire, ttlOnly, bounds>>

(* resync drops one replicated key after the other. *)
ResyncKey(n, k) ==
    /\ k \in resyncing[n]
    /\ resyncing' = [resyncing EXCEPT ![n] = @ \ {k}]
    /\ DropKey(n, k)
    /\ UNCHANGED <<phase, sendVars, redisVars, sub, track, request, wire, bounds>>

----------------------------------------------------------------------------
(* Health, as the fan-out sees it. *)

Degrade(n) ==
    /\ phase[n] = "up" /\ ~degraded[n]
    /\ faults < MaxFaults
    /\ faults' = faults + 1
    /\ degraded' = [degraded EXCEPT ![n] = TRUE]
    /\ UNCHANGED <<phase, stale, sendVars, notice, recvVars, wire, ttlOnly, writes, ends>>

(* Redis answers again; the listeners run on goroutines of their own. *)
Recover(n) ==
    /\ degraded[n] /\ phase[n] \in {"up", "stopping"}
    /\ degraded' = [degraded EXCEPT ![n] = FALSE]
    /\ notice' = [notice EXCEPT ![n] = phase[n] = "up"]
    /\ UNCHANGED <<phase, stale, sendVars, recvVars, wire, ttlOnly, bounds>>

OnUp(n) ==
    /\ notice[n]
    /\ notice' = [notice EXCEPT ![n] = FALSE]
    /\ request' = [request EXCEPT ![n] = phase[n] = "up" \/ @]
    /\ UNCHANGED <<phase, stale, sendVars, degraded, sub, track, resyncing, wire,
                   ttlOnly, bounds>>

----------------------------------------------------------------------------
PublishLoop(n) == Wake(n) \/ Pop(n) \/ Send(n) \/ SendLost(n) \/ Drained(n)
SubscribeLoop(n) == Subscribe(n) \/ OnReady(n) \/ \E m \in Replicas : OnMessage(n, m)
ResyncLoop(n) == TakeResync(n) \/ \E k \in Keys : ResyncKey(n, k)
Hooks(n) == \E k \in Keys : PublishInvalidation(n, k)

Next == \E n \in Replicas :
    \/ Start(n) \/ Stop(n) \/ Flushed(n) \/ Crash(n)
    \/ PublishLoop(n) \/ Beat(n) \/ SubscribeLoop(n) \/ SubscriptionLost(n)
    \/ ResyncLoop(n) \/ Degrade(n) \/ Recover(n) \/ OnUp(n) \/ Hooks(n)
    \/ \E k \in Keys : Commit(n, k)

Spec == Init /\ [][Next]_vars

(* The goroutines run, the ticker ticks, a replica without a subscription   *)
(* tries again, an outage of Redis ends, and so does a stop's final flush.  *)
Fairness == \A n \in Replicas :
    /\ WF_vars(PublishLoop(n)) /\ WF_vars(Beat(n)) /\ WF_vars(SubscribeLoop(n))
    /\ WF_vars(ResyncLoop(n)) /\ WF_vars(Recover(n)) /\ WF_vars(Hooks(n))
    /\ WF_vars(Flushed(n))

FairSpec == Spec /\ Fairness

----------------------------------------------------------------------------
(* Properties. *)

(* Every variable has its type. *)
TypeOK ==
    /\ phase \in [Replicas -> {"off", "up", "stopping", "gone"}]
    /\ stale \in [Replicas -> SUBSET Keys]
    /\ hook \in [Replicas -> SUBSET Keys]
    /\ queue \in [Replicas -> Seq(Keys \cup {Resync})]
    /\ wake \in [Replicas -> BOOLEAN]
    /\ loop \in [Replicas -> {"announce", "wait", "drain", "ended"}]
    /\ sending \in [Replicas -> Keys \cup {Resync, None}]
    /\ epoch \in [Replicas -> Nat]
    /\ degraded \in [Replicas -> BOOLEAN]
    /\ notice \in [Replicas -> BOOLEAN]
    /\ sub \in [Replicas -> {"no", "confirmed", "ready"}]
    /\ wire \in [Replicas -> [Replicas -> Seq(Message)]]
    /\ track \in [Replicas -> [Replicas -> Nat \cup {None}]]
    /\ request \in [Replicas -> BOOLEAN]
    /\ resyncing \in [Replicas -> SUBSET Keys]
    /\ ttlOnly \in [Replicas -> SUBSET Keys]
    /\ writes \in Nat /\ faults \in Nat /\ ends \in Nat

(* A stale key of a running replica is going to be dropped, unless its      *)
(* message was lost before the replica had a number of the sender to miss   *)
(* it by, the sender ended with it, or the replica forgot the sender's      *)
(* number before it had met the gap (send, observe, prune, requestResync).  *)
LostIsNoticed ==
    \A n \in Replicas, k \in Keys :
        phase[n] = "up" /\ k \in stale[n] \ ttlOnly[n] => Covered(n, k)

(* What observe's comment says: what an origin sent before its first sight  *)
(* is covered by the resync of the subscription, so that every stale key    *)
(* goes away by the mechanism alone (tracker.go, fanout.go).                *)
FirstSightIsSafe ==
    \A n \in Replicas, k \in Keys : k \in stale[n] ~> k \notin stale[n]

(* A stale key goes away once Redis stays up, whatever was lost meanwhile   *)
(* and however the queue, the resyncs and the subscription interleave.      *)
StaleKeysGo ==
    \A n \in Replicas, k \in Keys :
        k \in stale[n] ~> k \notin stale[n] \ ttlOnly[n]
=============================================================================
