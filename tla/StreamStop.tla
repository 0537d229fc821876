----------------------------- MODULE StreamStop -----------------------------
(***************************************************************************)
(* A stop for a chat stream that reaches another replica than the one that  *)
(* runs it (internal/service/chat_commands.go, chat_replicas.go, over       *)
(* internal/redisx/command.go and liveness.go).  The asking replica finds   *)
(* the stream's snapshot in Redis, asks the owner over the command bus and, *)
(* when nobody answers, takes the stream for ended only if the owner's      *)
(* liveness key has lapsed and its own view of Redis has been steady for a  *)
(* whole TTL.  The owner, for its part, stops what it published before its  *)
(* key can lapse.                                                           *)
(*                                                                          *)
(* Time is counted in ticks of LivenessEvery: the owner's writer is due     *)
(* once in each, and a process that stalls lets several pass, before its    *)
(* check or between its check and its write.                                *)
(***************************************************************************)
EXTENDS ChatStream

CONSTANTS
    TTL,        \* LivenessTTL in refreshes: 3
    StaleAfter  \* staleAfter in refreshes: 2

ASSUME TimesAssumption == StaleAfter \in Nat /\ TTL \in Nat /\ 0 < StaleAfter /\ StaleAfter < TTL
ASSUME AbsentAssumption == None \notin {"live", "final"} \cup {"ok", "unreachable", "unknown"}

VARIABLES
    mirror,     \* the mirror of the snapshot: "save" | "mark" | "saved" | "over"
    snapshot,   \* the stream's snapshot in Redis: "live" | "final" | None
    key,        \* ticks until the owner's liveness key lapses; 0: it is gone
    since,      \* ticks since the owner's last good write (lastOK), up to TTL
    evicted,    \* history: Redis evicted the key, which has not been written since
    due,        \* the owner's writer: "no", it has run in this tick | "due" | "stalled", is due since
                \* an earlier tick | "checked", is between checkStale and the write | "stuck", since
                \* an earlier tick
    listening,  \* the owner's command subscription is up
    view,       \* ticks the asking replica's own view has been steady, up to TTL
    asking,     \* the stop at the other replica: "no" | "lookup" | "call" | "wait" | "silent" | "probe" | "over"
    answer,     \* what the user was told last: "ok" | "unreachable" | "unknown" | None
    command,    \* a command is on its way to the owner
    reply,      \* the owner's reply is on its way
    holes       \* how a stop may be answered ok while its stream runs on (StopIsTrue)

redis == <<mirror, snapshot>>
clocks == <<key, since, evicted, due, listening>>
request == <<asking, answer, command, reply>>
clusterVars == <<redis, clocks, view, request, holes>>
vars == <<streamVars, clusterVars>>

Init ==
    /\ InitStream
    /\ mirror = "save" /\ snapshot = None
    /\ key = TTL /\ since = 0 /\ evicted = FALSE /\ due = "no" /\ listening = TRUE
    /\ view = 0 /\ asking = "no" /\ answer = None
    /\ command = FALSE /\ reply = FALSE /\ holes = {}

----------------------------------------------------------------------------
(* The snapshot: the first save, mirrorStream, and the last save. *)

Running == up /\ worker \notin {"leaving", "gone"}

(* No write has succeeded for staleAfter. *)
Stale == since >= StaleAfter

(* The writer is between checkStale and the write. *)
Writing == due \in {"checked", "stuck"}

(* Save succeeds, or fails and is tried again by the mirror; a snapshot     *)
(* that was removed is written again with the next change.                  *)
Save ==
    /\ Running /\ mirror \in {"save", "saved"} /\ snapshot = None
    /\ \/ /\ snapshot' = "live" /\ mirror' = "mark" /\ UNCHANGED budget
          /\ holes' = holes \cup IF mirror = "save" /\ Writing /\ Stale THEN {"unmarked"} ELSE {}
       \/ mirror = "save" /\ worker # "setup" /\ Spend("faults") /\ UNCHANGED <<redis, holes>>
    /\ UNCHANGED <<worker, gated, begins, control, approval, outcome, process, clocks, view, request>>

(* ctl.published.Store(true), after the save. *)
Mark ==
    /\ up /\ mirror = "mark" /\ mirror' = "saved" /\ published' = TRUE
    /\ UNCHANGED <<worker, gated, begins, control, approval, outcome, shut, draining, up, budget,
                   snapshot, clocks, view, request, holes>>

(* The worker closed finished: the final snapshot, or a save that fails. *)
SaveFinal ==
    /\ up /\ worker \in {"leaving", "gone"} /\ mirror \notin {"mark", "over"} /\ mirror' = "over"
    /\ \/ snapshot' = "final" /\ UNCHANGED budget
       \/ Spend("faults") /\ UNCHANGED snapshot
    /\ UNCHANGED <<worker, gated, begins, control, approval, outcome, process, clocks, view, request, holes>>

----------------------------------------------------------------------------
(* The owner's liveness: Liveness.run. *)

(* checkStale and fencePublishedStreams: before the key can lapse, and      *)
(* before it is written again, the streams the others know of are stopped.  *)
Fence ==
    /\ IF Stale /\ Active /\ published THEN Cancel("fenced") ELSE UNCHANGED control
    /\ holes' = holes \cup IF Stale /\ Active /\ ~published /\ mirror = "mark" THEN {"unmarked"} ELSE {}

(* One pass of the writer looks at its age first... *)
CheckStale ==
    /\ up /\ shut # "over" /\ due \in {"due", "stalled"} /\ due' = "checked"
    /\ Fence
    /\ UNCHANGED <<worker, gated, begins, approval, outcome, process, budget, redis, key, since, evicted,
                   listening, view, request>>

(* ...and then writes the key.  Nothing is written while the command        *)
(* subscription is down; a write that failed is followed by another look,   *)
(* one that succeeded is not.                                               *)
WriteKey ==
    /\ up /\ shut # "over" /\ Writing /\ due' = "no"
    /\ \/ /\ listening /\ key' = TTL /\ since' = 0 /\ evicted' = FALSE
          /\ holes' = holes \cup IF due = "stuck" /\ Stale /\ key = 0 THEN {"stalled"} ELSE {}
          /\ UNCHANGED <<control, budget>>
       \/ ~listening /\ Fence /\ UNCHANGED <<key, since, evicted, budget>>
       \/ listening /\ Spend("faults") /\ Fence /\ UNCHANGED <<key, since, evicted>>
    /\ UNCHANGED <<worker, gated, begins, approval, outcome, process, redis, listening, view, request>>

(* A refresh interval passes.  One that finds the writer still due, or      *)
(* between its check and its write, is the start of a stall, which may last.*)
Tick ==
    /\ budget.clock > 0
    /\ \/ due = "no" /\ due' = "due" /\ UNCHANGED budget
       \/ /\ due \in {"due", "checked"} /\ up /\ shut # "over" /\ Spend("faults")
          /\ due' = IF due = "due" THEN "stalled" ELSE "stuck"
       \/ /\ due # "no" /\ (due \in {"stalled", "stuck"} \/ ~up \/ shut = "over")
          /\ UNCHANGED <<due, budget>>
    /\ key' = IF key = 0 THEN 0 ELSE key - 1
    /\ since' = IF since = TTL THEN TTL ELSE since + 1
    /\ view' = IF view = TTL THEN TTL ELSE view + 1
    /\ UNCHANGED <<worker, gated, begins, control, approval, outcome, process, redis, evicted, listening, request, holes>>

(* The owner's subscription breaks; Redis restarts without the keys that    *)
(* have a TTL, and breaks every subscription; the asking replica's own link *)
(* breaks.                                                                  *)
LinkBreaks ==
    /\ Spend("faults")
    /\ \/ up /\ listening /\ listening' = FALSE /\ UNCHANGED <<key, evicted, view, snapshot, holes>>
       \/ /\ listening' = FALSE /\ key' = 0 /\ evicted' = FALSE /\ view' = 0 /\ snapshot' = None
          /\ holes' = holes \cup IF asking = "probe" THEN {"restarted"} ELSE {}
       \/ view' = 0 /\ UNCHANGED <<key, evicted, listening, snapshot, holes>>
    /\ UNCHANGED <<worker, gated, begins, control, approval, outcome, process, mirror, since, due, request>>

(* A full Redis evicts a key that has a TTL (volatile-lru): the liveness    *)
(* key, or the snapshot.                                                    *)
Evict ==
    /\ Spend("faults")
    /\ \/ up /\ key > 0 /\ key' = 0 /\ evicted' = TRUE /\ UNCHANGED snapshot
       \/ snapshot # None /\ snapshot' = None /\ UNCHANGED <<key, evicted>>
    /\ UNCHANGED <<worker, gated, begins, control, approval, outcome, process, mirror, since, due, listening,
                   view, request, holes>>

(* follow subscribes again and kicks the writer. *)
Resubscribe ==
    /\ up /\ shut # "over" /\ ~listening /\ listening' = TRUE
    /\ due' = IF due = "no" THEN "due" ELSE due
    /\ UNCHANGED <<streamVars, redis, key, since, evicted, view, request, holes>>

(* The process dies: what it had in memory is gone, its key lapses. *)
Crash ==
    /\ up /\ up' = FALSE /\ listening' = FALSE /\ Spend("faults")
    /\ UNCHANGED <<worker, gated, begins, control, approval, outcome, shut, draining, published,
                   redis, key, since, evicted, due, view, request, holes>>

----------------------------------------------------------------------------
(* The rest of Shutdown, which ends what the other replicas see. *)

(* forceServerRestarting and signalStop. *)
ForceServerRestarting ==
    /\ up /\ shut = "forcing" /\ shut' = "forced"
    /\ IF Active /\ ~Recorded
         THEN RecordTerminal /\ snapshot' \in {"final", snapshot}
         ELSE UNCHANGED <<terminal, claimed, events, heard, snapshot>>
    /\ UNCHANGED <<worker, gated, begun, handing, control, approval, stored, draining, up, published, budget,
                   mirror, clocks, view, request, holes>>

(* StopCommands, deferred to the end: the subscriptions, then the key. *)
StopCommands ==
    /\ up /\ \/ shut = "waiting" /\ worker = "gone" /\ mirror = "over"
             \/ shut = "forced"
    /\ shut' = "over" /\ listening' = FALSE /\ key' = 0
    /\ UNCHANGED <<worker, gated, begins, control, approval, outcome, draining, up, published, budget,
                   redis, since, evicted, due, view, request, holes>>

(* The process ends after Shutdown returned. *)
Exit ==
    /\ up /\ shut = "over" /\ up' = FALSE
    /\ UNCHANGED <<worker, gated, begins, control, approval, outcome, shut, draining, published, budget, clusterVars>>

----------------------------------------------------------------------------
(* The stop at the other replica: handleCancelStream, CancelStreamAs. *)

(* ownsStreamForCommand reads the snapshot for the stream's owner: an       *)
(* unknown stream is refused, and a Redis that does not answer is a 503.    *)
(* Without accounts (no JWT) nothing is read here.                          *)
AskStop ==
    /\ asking \in {"no", "over"} /\ answer # "ok" /\ Spend("asks")
    /\ \/ snapshot = None /\ asking' = "over" /\ answer' = "unknown"
       \/ asking' = "lookup" /\ answer' = None
       \/ asking' = "over" /\ answer' = "unreachable"
    /\ UNCHANGED <<worker, gated, begins, control, approval, outcome, process, redis, clocks, view,
                   command, reply, holes>>

(* CancelStreamAs reads it (again): nothing is left to stop when the stream *)
(* has ended, or its snapshot is not there.                                 *)
Lookup ==
    /\ asking = "lookup"
    /\ \/ snapshot = "live" /\ asking' = "call" /\ UNCHANGED <<answer, holes>>
       \/ /\ snapshot # "live" /\ asking' = "over" /\ answer' = "ok"
          /\ holes' = holes \cup IF snapshot = None THEN {"missed"} ELSE {}
       \/ asking' = "over" /\ answer' = "unreachable" /\ UNCHANGED holes
    /\ UNCHANGED <<streamVars, redis, clocks, view, command, reply>>

(* CommandBus.Call: nobody on the owner's channel is known at once. *)
Call ==
    /\ asking = "call"
    /\ IF listening THEN asking' = "wait" /\ command' = TRUE ELSE asking' = "silent" /\ UNCHANGED command
    /\ UNCHANGED <<streamVars, redis, clocks, view, answer, reply, holes>>

(* ownerCancel: an active stream is cancelled, an ended one is gone. *)
OwnerCancel ==
    /\ up /\ command /\ command' = FALSE
    /\ IF Active THEN Cancel("stopped") ELSE UNCHANGED control
    /\ reply' = TRUE
    /\ UNCHANGED <<worker, gated, begins, approval, outcome, process, budget, redis, clocks, view,
                   asking, answer, holes>>

(* The reply in time: ok or gone, both of them an ok.  A reply nobody waits *)
(* for is dropped.                                                          *)
Answered ==
    /\ reply /\ reply' = FALSE
    /\ IF asking = "wait" THEN asking' = "over" /\ answer' = "ok" ELSE UNCHANGED <<asking, answer>>
    /\ UNCHANGED <<streamVars, redis, clocks, view, command, holes>>

(* chatCommandWait passes, whatever became of the command. *)
NoReply ==
    /\ asking = "wait" /\ asking' = "silent"
    /\ UNCHANGED <<streamVars, redis, clocks, view, answer, command, reply, holes>>

(* A command or a reply that Redis did not deliver. *)
Lost ==
    /\ Spend("faults")
    /\ \/ command /\ command' = FALSE /\ UNCHANGED reply
       \/ reply /\ reply' = FALSE /\ UNCHANGED command
    /\ UNCHANGED <<worker, gated, begins, control, approval, outcome, process, redis, clocks, view,
                   asking, answer, holes>>

(* Mutant: any missing key will do. *)
SteadyAlways == TRUE

(* steadyView: this replica's own view of Redis has been steady for a TTL. *)
SteadyView == view = TTL

(* ownerGone looks at its own view, and then for the owner's key. *)
OwnerGone ==
    /\ asking = "silent"
    /\ IF SteadyView THEN asking' = "probe" /\ UNCHANGED answer ELSE asking' = "over" /\ answer' = "unreachable"
    /\ UNCHANGED <<streamVars, redis, clocks, view, command, reply, holes>>

(* An owner whose key is missing is gone and took its stream with it: its   *)
(* snapshot is dropped unless it is final.  Otherwise, or when Redis does   *)
(* not answer, the silence is a 503.                                        *)
Conclude ==
    /\ asking = "probe" /\ asking' = "over"
    /\ \/ /\ key = 0 /\ answer' = "ok" /\ snapshot' = IF snapshot = "live" THEN None ELSE snapshot
          /\ holes' = holes \cup IF evicted /\ ~Stale THEN {"evicted"} ELSE {}
       \/ answer' = "unreachable" /\ UNCHANGED <<snapshot, holes>>
    /\ UNCHANGED <<streamVars, mirror, clocks, view, command, reply>>

----------------------------------------------------------------------------

Owner == Save \/ Mark \/ SaveFinal \/ CheckStale \/ WriteKey \/ Resubscribe \/ OwnerCancel
         \/ ForceServerRestarting \/ StopCommands \/ Exit
Origin == AskStop \/ Lookup \/ Call \/ Answered \/ NoReply \/ OwnerGone \/ Conclude

Next == (StreamStep /\ UNCHANGED clusterVars) \/ Owner \/ Origin \/ Tick \/ LinkBreaks \/ Evict
        \/ Lost \/ Crash

Spec == Init /\ [][Next]_vars

(* Fairness: the worker's goroutine runs, and the calls it makes end once   *)
(* the context they were given has.  A provider may keep a live stream      *)
(* waiting for ever.                                                        *)
Ending == Unwind /\ (worker \in {"run", "ask"} => Dead)
FairSpec ==
    /\ Spec
    /\ WF_vars(Ending /\ UNCHANGED clusterVars)
    /\ WF_vars((SetupDone \/ SetupFails \/ SetupLeaves) /\ UNCHANGED clusterVars)

----------------------------------------------------------------------------
(* Properties. *)

(* Every variable has its type; a cancel is held only for an apply under    *)
(* way, and a process that is gone listens to nobody.                       *)
TypeOK ==
    /\ StreamTypeOK
    /\ mirror \in {"save", "mark", "saved", "over"} /\ snapshot \in {"live", "final", None}
    /\ key \in 0..TTL /\ since \in 0..TTL /\ view \in 0..TTL
    /\ due \in {"no", "due", "stalled", "checked", "stuck"} /\ listening \in BOOLEAN /\ evicted \in BOOLEAN
    /\ command \in BOOLEAN /\ reply \in BOOLEAN
    /\ holes \subseteq {"unmarked", "stalled", "missed", "evicted", "restarted"}
    /\ asking \in {"no", "lookup", "call", "wait", "silent", "probe", "over"}
    /\ answer \in {"ok", "unreachable", "unknown", None}
    /\ (listening => up)

(* "never an ok that stopped nothing" (CancelStreamAs): a stop that was     *)
(* answered ok finds the stream ended, stopped, dead with its process, or   *)
(* about to be stopped by the fence that is due, although the owner stalls, *)
(* loses its subscription or its writes, Redis restarts without its keys,   *)
(* and commands and replies are lost.  Five holes are named:                *)
(*   "unmarked"   the stream was saved, and not yet marked, when a fence    *)
(*                passed, or between that fence and the write after it;     *)
(*   "stalled"    the process stalled between checkStale and a write that   *)
(*                succeeds, and its key had lapsed meanwhile;               *)
(*   "evicted"    Redis evicted the key of an owner that writes it in time; *)
(*   "restarted"  Redis lost the key between steadyView and the look at it; *)
(*   "missed"     the snapshot was not there when the stop looked it up.    *)
StopIsTrue ==
    answer = "ok" =>
        \/ reason # None \/ terminal # None \/ ~Active \/ Stale \/ holes # {}

(* A stream that was asked to stop ends: a cancel deferred by an apply is   *)
(* not forgotten, and nothing the worker may be waiting for outlasts it.    *)
StoppedEnds == (reason # None) ~> (worker = "gone" \/ ~up)
=============================================================================
