# Baki: TLA+ models of its concurrent core

Baki is a Go server (with a desktop shell, a CLI and a web client) that analyses code, talks to AI
providers and keeps the conversations, documents, settings and findings of organisations in
PostgreSQL. Several replicas of it can run beside each other, with Redis between them. The parts
that are hard to get right, and hard to test, are the ones where requests, callbacks and replicas
meet: caches fenced by generations, invalidations sent best effort, jobs under a database lock, creates
that are retried while they run, chat streams that are stopped from another replica, an audit trail that
overflows to disk, a shutdown that drains work which still hands work on. This directory models those parts, checks the
models with TLC and proves their safety properties with TLAPS.

Paths below are relative to the repository (`src/` in `PROJECT.json`).

## Inventory

| Part | State | Operations | Hard because | Correct when |
|---|---|---|---|---|
| Request transactions: `internal/api/rls_middleware.go`, `internal/storage/database/rls.go` | one transaction per request (a read begins its own lazily), its hook registry, the response it holds back | begin, decide (commit or rollback before the first byte), failed commit, hooks | a commit that fails may have happened; a handler may answer 200 over a failed statement | a success reports what is durable; every outcome runs the passes it registered |
| Event bus, hooks, generations: `internal/platform/eventbus`, `internal/platform/txhook` | subscribers, hooks, striped counters | Publish, DeliverRemote, Register, Commit, Abort, Bump, Load | two deliveries of one event around the commit; two counters read one after the other | no fill that overlapped a write survives it |
| Read-through caches: `core/cache`, used by `internal/rag/search_cache.go` and others | LRU entries, flights | GetOrFill, Delete, Clear, eviction | a fill spans a database read; the leader of a flight can leave | coherent with the committed row; every caller returns |
| Invalidation fan-out: `internal/invalidation`, over `internal/redisx` pub/sub and health | queue, epoch, tracker, resync request | PublishInvalidation, send, heartbeat, onMessage, resync, start, stop | messages are lost, queues overflow, subscriptions break | what is lost is noticed and resynced |
| Singleton jobs: `internal/lifecycle/singleton.go`, `internal/storage/database/postgres_lock.go` | claim, lease, schedule; the server's lock | Start, RunNow, RunOnce, Stop, heartbeat, release | the lock lives on a session, the work elsewhere | one run per lock; the lock always comes back |
| Background runners: `internal/lifecycle/bounded.go` (events, alerts, notify, mail...) | slots, counts, closed | Go, GoWait, Drain, Group.Drain | tasks hand work on while the drain looks, without a lock | nothing is dropped within the budget; closed means quiet |
| Deployment settings: `internal/service/settings_backend.go` | cached document, expiry, generation | Get, refresh, Invalidate, Update | reads outside the writer's transaction; failed loads | no older value than an announced write |
| Chat streams and approvals: `internal/service/chat*.go` | active streams, their control (reason, hold, terminal state), pending cards | stream, begin, stop, watchdog, approve, apply, Shutdown | a stop, a timeout, a decision and the server's end meet in one goroutine's selects | one terminal event; a card tells what happened; a fix is not cut by a stop |
| Stops across replicas: `internal/service/chat_commands.go`, `chat_replicas.go`, over the command bus and liveness of `internal/redisx` | snapshots and liveness keys in Redis, subscriptions, pending calls | CancelStreamAs, ownerCancel, refresh, fence, conclude | the owner may be dead, stalled, or merely cut off | no ok that stopped nothing |
| SSE backplane: `internal/redisx/sse.go` | stream logs | publish, replay, tail | a client reconnects elsewhere | replay misses nothing |
| Websocket hub: `internal/websocket` | clients, rooms, send queues | register, broadcast, drop | slow clients, fan-out during unregister | no send after close |
| Idempotent creates: `internal/api/idempotency.go`, `internal/storage/database/postgres_idempotency.go` | key records, an advisory lock per key | claim, complete, replay, purge | a retry beside its first attempt, after a rollback, after a commit nobody knows the outcome of | a create happens once per key and window, and its retries are told so |
| Audit trail: `internal/audit` | queue, batches, spill file per replica, claims | record, flush, spill, drain, replay, adopt, start, stop | the store fails while records arrive; files of replicas that are gone | no event lost in silence, none in two hands, no file far beyond its cap |
| Dashboard analytics: `internal/service/dashboard_analytics.go` | fenced cache | fill, invalidate | as the caches above | as the caches above |
| Tokens: `internal/auth` | blacklist and its cache | revoke, check | a revocation seen late by a replica | revoked is refused |
| AI providers: `internal/ai` | breaker, retries | call, trip, probe | half-open races | one probe at a time |
| Knowledge base, scanner, notify, mail, SSO, egress, migration, API handlers | mostly rows in PostgreSQL | requests and jobs | their concurrency is that of the parts above | - |
| Code analysis (`core/parser`, `core/analyzer`, `core/export`, `core/search`), CLI, desktop, web client | none shared | pure functions, entry points | - | - |

How they interact: a request runs in a transaction (middleware) and its service publishes events on
the bus. Synchronous subscribers drop cache entries at once and again when the transaction has
ended. Replicated events are handed to the fan-out by a commit hook; on the other replicas the
message runs the same appliers (`DeliverRemote`). Asynchronous subscribers run on the `events`
runner, may start alerts on `finding_alert` and `notify`, and those queue mail. Jobs run under a
lease and are stopped first when the process drains. A create claims its key in its request's transaction, so
that key, row and stored response share one commit. A chat stream outlives its request: its worker talks to the provider, shows
approval cards and mirrors its state to Redis, where the other replicas find it; a stop for a stream that runs elsewhere is a command
to its owner. `PROJECT.json` lists the hazards of this code at
the line where each bites, with the properties that cover it.

## Modules

**CacheCoherence** - one replica's cache, bus, generations, registries and the rows behind them.
A request (`r`) is a goroutine with a program counter; its steps are one atomic load or add, one
critical section of the LRU's mutex, or one database statement. A value is the version of the row.
`Begin`, `Mutate`, `Publish` (mark, register the second pass, begin the immediate one), `Bump`,
`Drop`, `AfterPass` and `DeliverRemote` are the bus; `Commit`, `RunHooks`, `Abort`, `Rollback`,
`CommitFails`, `EndLimbo`, `NextHook`, `HooksDone` and `End` the transaction (a commit that failed with its connection holds its writes and row locks
until the server applies or drops them, which may be after the abort's passes); `Lookup`, `JoinOrLead`, `Recheck`,
`LoadStripe`, `LoadAll`, `Fetch`, `FetchFails`, `FetchAbandoned`, `StoreIf`, `Compare`, `Put` and `Evict` the cache. A
TTL expiry is an eviction. The history variable `overtaken` holds the versions such a late commit replaced since the key's fence last moved.

**InvalidationFanout** - what one replica commits and the others still hold. A key is stale at a
replica from a peer's commit until the replica's applier ran; what the applier does to the cache is
CacheCoherence's `DeliverRemote`. The publishing side is `PublishInvalidation` (absorb, collapse),
`Wake`, `Pop`, `Send`/`SendLost`, `Drained`, `Beat`; the receiving side `Subscribe`, `OnReady`,
`OnMessage` (with `Gap`, `Observe` and `Prune` of the tracker; the ten minutes of `quietAfter` are left open, so above the limit any origin but the one just heard may be forgotten), `TakeResync`, `ResyncKey`; health is `Degrade`,
`Recover`, `OnUp`; and `Start`, `Stop`, `Flushed`, `Crash`. Redis delivers to whoever is subscribed at
that moment, in each sender's order. A restarted process is another replica, as its origin carries a
boot nonce. The history variable `ttlOnly` holds the stale keys nothing but their TTL can
drop: their sender ended with the message, lost it before the receiver's first sight of it, or was forgotten by the tracker before the gap showed.

**SingletonJob** - `Claim`, `Acquire`/`Skip`/`AcquireFails`, `Run`, `Return`, `Release`, `Finish`; the
lease's `Confirm`; `Halt`, `LoopEnds`, `Wait`, `Abandon`; and the server's side, `SessionDies` and
`Reap`. The server's lock records whose session holds it and whether that session is pinned to a lease
or being closed. A statement that fails takes its connection with it (`discardConn`, and the driver on
the acquiring side).

**BackgroundRunners** - the runners of one process, each with its slots and its two counters; tasks that
are submitted by requests (`Submit`), by jobs (`JobSubmits`, GoWait) and by other tasks (`HandOff`,
`HandOffWaits`); the three deferred steps of a task's end; and `Group.Drain`: jobs, look, close, wait.

**SettingsCache** - `Get` with its two looks, `refreshMu`, the refresh (`Capture`, `LoadSettings`,
`LoadFails`, `Store`) and `Serve`; a writer's `Save`, `Updated`, `Announce`, `Commit`/`Rollback`/`CommitUnknown` and
`AnnounceEnd`; the server's `EndLimbo` of a commit nobody knows the outcome of, before or after the second announcement; a peer's write; and the clock (`Expire`). The history variable `late` holds the versions
that landed after their announcement, until the next Invalidate.

**RequestTx** - the middleware's transaction around a request and the Idempotency-Key layer inside it. A request goes
`Begin` (or `BeginFails`, `OpenRead`) -> the claim (`Claim`, `ClaimInProgress`, `Replay`, `ClaimSkipped`, `ClaimFails`) -> the handler
(`Insert`, `StatementFails`, `ReadStatement`, `HandlerErrs`, `HandlerAnswers`, `Finish`, `FinishFails`, `Panic`) -> the decision before the first byte
(`RefuseRead`, `DecideRollback`, `DecideCommit`, `CommitFails`, `CommitUnknown`) -> `RunHooks`. Around it are the caller (`Receive`, `Over`, and
another `Begin` when its answer was none or promised nothing), `Crash`, PostgreSQL's end of a transaction whose client is gone (`EndLimbo`), and
the retention window (`Expire`, `Purge`). NOW() is the start of the transaction, as in PostgreSQL: a claim judges expiry by the window its
transaction began in. A response is named by the row it reports, so "a replay answers for another request" is a state.

**KeyedCreate** - the abstract specification RequestTx implements: what callers may rely on. Creates happen, at most one per key and window and
only as somebody asked; a success reports a create of that request, a refusal of the key means another request used it; a final answer stands.
It knows nothing of transactions, locks, records or crashes. `RequestTx!Abstract` is the refinement mapping (committed rows are the
creates, the last answer that arrived is what the caller was told).

**AuditSpill** - `Record*` into the queue, past it, before Start and after Stop; the workers (`Take`, `FlushWritten`, `FlushUnreachable`, `FlushLate`,
`FlushRefused`); the spill file (`Append` with the torn tail, `Fits` with the cap, `Divert`); the reaper (a drain is the read, `DrainOwn` or `DrainClaim`, and then `DrainRename` or `DrainFails`; `ReplayOne`, `ReSpill`);
`AdoptOrphans` of files and of claims; `Start`, `Stop`, `Stopped`, `Crash`, `Restart`, `Age`, `Outage`, `Recovery`. A file is the set of events
in it (order carries no promise), a replica's claims are one set, and the workers of a replica share one batch. `gone` holds what was lost where the code can
only lose it: memory at a crash, a detached write, a re-spill onto a failing disk; `lost` is what a crash took of events that had been on disk. `mu` is a lock of one process, so another replica may rename a file between its owner's read and rename;
`overlap` holds the events of such a file, which the owner and the claimant then both have. A live replica's file may age while its queue stays half full, or while it is at its cap and the reaper pauses after an outage.

**ChatStream** - one stream on the replica that runs it. The worker: setup, the provider's turns, the begin gate (`Gate`, a select: with the stream begun
and its context over both ways are open), the claim of the terminal event before the answer is stored, `Cleanup` with `ensureTerminal`, `Leave`. The stops: `Cancel` (the first
reason wins, an apply defers it), `Deadline`, `Release`. The card: `Ask`, `Resolve`, `TakeDecision`, `AskTimesOut`, `AskCancelled`, `HoldCancel`, `ApplyFix`, `ApplyFails`,
`Verify`. The server's end: `Drain`, `ShutdownBegins`, `ForceCancel`, and `RecordTerminal` in a stuck worker's place. The client: `Begin`, `BeginReads`.

**StreamStop** - extends ChatStream by Redis and a second replica: the snapshot (`Save`, `Mark`, `SaveFinal`), the owner's liveness key (`CheckStale` with the `Fence`, then `WriteKey`;
`Tick`, `Resubscribe`), the stop (`AskStop`, with accounts and without, `Lookup`, `Call`, `OwnerCancel`, `Answered`, `NoReply`, `OwnerGone` with `SteadyView`, `Conclude`), the rest of Shutdown (`ForceServerRestarting`,
`StopCommands`, `Exit`), and the faults `LinkBreaks` (a broken subscription, a Redis that restarts without its keys, the asker's own link), `Evict` (a full Redis drops the liveness key or the snapshot alone), `Lost`, `Crash` and a process that stalls before its check or between check and write. Time is counted in refresh
intervals, with TTL 3 and staleness 2 as in the code.

The theorems of a module `M` are in `M_proof` (those of ChatStream in `StreamStop_proof`). `MCCacheCoherence`, `MCInvalidationFanout`, `MCBackgroundRunners`, `MCRequestTx` and `MCStreamStop` name the constants, the mixes of requests and faults, and the
symmetries of the small instances. Definitions called "Mutant" change one definition the way a
plausible bug would; each property is shown to fail with one of them (`PROJECT.json`, "mutants").

## Runs

| Run | Instance | Checks |
|---|---|---|
| `cache_coherence` | 2 requests, 2 keys on one stripe, 3 operations | `TypeOK`, `Coherent`, `NoUncommittedEntry`, `FlightsAreLed`; under fairness `CallsReturn`, `StaleEntriesGo` |
| `fanout` | 2 writers, 1 reader, 2 keys, queue of 1, tracker of 1, 2 writes, 1 fault, 1 end | `TypeOK`, `LostIsNoticed` |
| `fanout_liveness` | 1 writer, 1 reader, 1 key, 2 writes, 2 faults, 1 end | `StaleKeysGo` |
| `fanout_first_sight` | 1 writer, 1 reader, 1 key, 2 writes, 1 fault | `FirstSightIsSafe` is violated (below) |
| `singleton_job` | 2 replicas, 2 faults | `TypeOK`, `OneRunPerLock`, `LockIsOwned`, `StopIsFinal`; under fairness `LostRunsAreCancelled`, `JobKeepsRunning`, `StopReturns` |
| `runners` | events, alerts, emails with 1 slot each, 3 tasks | `TypeOK`, `QuietStaysQuiet`, `HandOffsAreKept`; under fairness `DrainEnds` |
| `settings_cache` | 2 callers, 2 writers, 2 versions | `TypeOK`, `GetIsCurrent`; under fairness `GetsReturn` |
| `request_tx` | a keyed create beside one of four other requests, 2 faults, 1 expiry | `TypeOK`, `OneCreatePerKey`, `RecordWithRow`, `HooksFollowCommit`; the refinement `ImplementsKeyedCreate`; under fairness `RetriesEnd` |
| `audit_spill` | 2 replicas, 3 events, queue, batch and file of 2, 1 and 1, 2 faults | `TypeOK`, `Accounted`, `OneHolder`, `CapHolds`; under fairness `SpilledIsReplayed` |
| `audit_at_least_once` | as `audit_spill` | `AtLeastOnce` is violated (below) |
| `chat_stream` | one stream, four mixes of begin, card, stop, remote stop, Shutdown, fault and clock | `TypeOK`, `OneTerminalEvent`, `CardsTellTruth`, `StopIsTrue`, `ApplyIsWhole`; under fairness `StoppedEnds` |
| `chat_terminal_event` | as `chat_stream` | `BegunStreamsHear` is violated (below) |

Why the bounds are enough to be interesting. Two requests are a writer, or a remote
delivery, and a filler, two writers, or a leader and one that joins its flight; three operations let a write, a fill and another of either
overlap in every order (the theorems hold for any number). Two keys on one stripe are the least that share a fence. A queue of one
overflows with the second write; two faults are a lost message and a lost resync, or an outage and a broken
subscription; a tracker of one prunes at the second origin, and two writers are the least that share a tracker. Two faults of a job are a dead session and a
failed unlock, or a crash and another. Three tasks are one per runner of the chain. Two generations
let a writer begin after the first Invalidate of another. A keyed create meets its own retry, a different request under its key, a
create without a key, and a read, one at a time (`MCMixes`); two faults are a lost answer and a failed commit, or a commit cut off
and the crash of its retry; one expiry separates two windows. A spill file of one event reaches its cap with the second, a queue of two is half full with
one, batches of one let appends fall between a drain and its re-spill, and two faults are an outage and a crash, or two crashes, the second in the replay of what the first left behind. Taking a file in the middle of its drain counts as two (`RenameCost`), which
keeps what may follow it small; the theorems hold for any cost, 0 included. The chat instance runs four mixes (`MCBudgets`): begin, card, stop and Shutdown
together; a remote stop with a fault; a remote stop with a Shutdown; a card with a fault. Time advances only in the last three, and there without a bound, as the clocks saturate. `MaxOps`, `MaxWrites`, `MaxFaults`, `MaxEnds`,
`MaxWire`, `MaxVersion` and `MaxGen` are bounds of the models, not of the code; `QueueLimit`, `TrackLimit`, `Limit`,
`MaxFlightAttempts`, `QueueSize`, `FlushSize` and `SpillMax` are the code's, made small; `TTL` and `StaleAfter` are the code's. `MaxExpiries`, `RenameCost` and `Budgets` bound the models.

Deadlock is checked in `settings_cache` and `fanout_first_sight`. Elsewhere the
instance may stop: the operations are used up, every replica is stopped, every task is done, every caller has its final answer. Symmetry is used
only in runs without liveness.

### Fairness

- CacheCoherence: a goroutine that began a step goes on, and a request ends its transaction; nobody must
  begin, write or read.
- InvalidationFanout: the three loops and the hooks run, the heartbeat's ticker ticks, a lost subscription is retried
  (`subscribeLoop`), a stopping replica finishes its flush (`Flushed`: it has a time limit), and an outage ends (`Recover`). Faults are bounded, so in the end messages arrive.
- SingletonJob: goroutines run, the ticker ticks, a run whose context has ended returns, the heartbeat
  comes, the server reaps a closed session, a process is started again. Nobody must call RunNow or Stop, no run must end by
  itself, and its timeout, long as it is, is not relied on: a run that lost its session is told by the heartbeat.
- BackgroundRunners: a task ends (each is bounded by a timeout of its own) and the drain runs.
- RequestTx: a request that was sent runs (handlers have a deadline), its response arrives, a caller without a final answer sends again, and PostgreSQL ends the transaction of a client that is gone.
  Nothing makes a window end.
- AuditSpill: workers, reaper and the minute's adoption run, time passes, an outage ends, and one replica (`Survivor`) is started again after each crash; the others may stay gone. Without a survivor a file waits, as it must. The
  followed event (`Watched`) is one of three alike.
- ChatStream: the worker's goroutine runs and the calls it makes end once their context has; setup ends (its calls carry timeouts). A provider may keep a live stream waiting for ever, nobody must decide a card, and the deadline is not relied on.
- SettingsCache: a call in progress goes on, a load ends (two seconds at most), and a waiter for `refreshMu` gets it
  in the end (`sync.Mutex` hands over to a waiter that starves): strong fairness of `Lock`.

## Proofs

Every safety property the passing runs check is also a theorem, for every value of the constants: any number of replicas, requests, keys,
events or tasks, any queue and tracker limits, any number of faults. A run shows a property of a small instance, its theorem the same formula without the bound.

| Module | Theorems (and the property each states) |
|---|---|
| `CacheCoherence_proof` | `TypeCorrect` (`TypeOK`), `CacheIsCoherent` (`Coherent`), `CacheHoldsNoUncommitted` (`NoUncommittedEntry`), `FlightsHaveLeaders` (`FlightsAreLed`) |
| `InvalidationFanout_proof` | `TypeCorrect`, `LossIsNoticed` (`LostIsNoticed`) |
| `SingletonJob_proof` | `TypeCorrect`, `RunsExcludeEachOther` (`OneRunPerLock`), `LockNeverParked` (`LockIsOwned`), `StoppedStaysStopped` (`StopIsFinal`) |
| `BackgroundRunners_proof` | `TypeCorrect`, `QuietForGood` (`QuietStaysQuiet`), `HandOffsKept` (`HandOffsAreKept`) |
| `SettingsCache_proof` | `TypeCorrect`, `GetsAreCurrent` (`GetIsCurrent`) |
| `RequestTx_proof` | `TypeCorrect`, `OneCreate` (`OneCreatePerKey`), `RecordsHaveRows` (`RecordWithRow`), `HooksAfterCommit` (`HooksFollowCommit`), `Refinement` (`ImplementsKeyedCreate`) |
| `AuditSpill_proof` | `TypeCorrect`, `NothingDisappears` (`Accounted`), `HeldOnce` (`OneHolder`), `FilesAreBounded` (`CapHolds`) |
| `StreamStop_proof` | `TypeCorrect`, `OneTerminal` (`OneTerminalEvent`), `TruthfulCards` (`CardsTellTruth`), `TrueStops` (`StopIsTrue`), `WholeApplies` (`ApplyIsWhole`) |

Each module has one inductive invariant, `Inv`, a conjunction of named parts, a lemma `InitInv` that it holds at the start, a lemma per
action or group of actions that it is kept, and `Invariance`, `Spec => []Inv`, from which the theorems follow. The properties are seldom inductive; what had to be added is the argument for them:

**CacheCoherence.** `Coherent` speaks of entries; a stale entry comes from a fill, so `Inv` follows the fill.
`FillFresh`: what a fill holds before its check is current, or some request has still to bump the
key's generation, or the generation has moved; between the check and the store, some request has still to
delete the key. For that the debts must persist (`OwesPersist`: what a request owes it owes until it bumped or
dropped) and arise (`CommitsOwed`: whoever changes a committed row owes the key, from `WritesAnnounced`: an
uncommitted write has its second pass registered, or the pass under way will register it). `GenBounds` says that a captured generation
never exceeds the present one, so that equality at the check means no bump since (a late commit, which nobody owes a drop for, adds what it replaced to `overtaken`, and the next bump of the key takes it out again: what a fill
holds is then current, owed, fenced off or overtaken); this is where the two counters read one after the
other matter. `FillCommitted` is the same for `NoUncommittedEntry`: what a fill read is durable, or its
transaction is marked and `storeIf` refuses. `LockOwned`, `CallKeys` and `PassPhase` say where in
the code each debt is held. `FlightsAreLed` is inductive beside `Inv`: a leader that ends takes its flight and everybody who joined it along.

**InvalidationFanout.** `LostIsNoticed` asks for each stale key that something in the state is going to drop it. It is kept because each way of being covered
turns into another: a queued message into one on the wire or, lost, into a gap before the sender's next number; a message on the wire
into an application, or, when the subscription breaks, into the resync the next one owes; a gap into a resync request, or, when the tracker forgets the sender first, into `ttlOnly`. The numbers have to be ordered for a gap to show: `HeardWasSent`,
no number heard or on the wire exceeds the sender's last. `Living` says who may subscribe and send at all. The
proof splits `Covered` into what the replica itself has pending and what it will hear from a sender, and shows once for all actions what keeps each (`AppendKeeps`, `TailKeeps`, `SteadyKeeps`, `CoverKept`).

**SingletonJob.** The missing link of `OneRunPerLock` is `LiveHolds`: a lease whose session lives holds the server's
lock, from its acquisition to its release; two live leases would hold one lock.

**BackgroundRunners.** `Counted`: the semaphore, the in-flight counter and the wait group of a runner are the numbers of its tasks
at the corresponding places (cardinalities of sets, with the library's theorems on finite sets). With it a wait group of zero is an absence of tasks. `Closing` says that closed runners stay closed and quiet
ones have no task left. `Scanned` is the argument about the look without a lock: while `allIdle` goes through the list, the runners already passed that hand work on are settled, because
whoever could feed them comes before them in the list, and is settled too.

**SettingsCache.** `Below` and `Covers` order versions by the announcements that are still owed: what a Get must at least answer (`floor`) is a version no
write still to be announced has replaced; what is cached with a full TTL, and what a load read whose captured generation stands, has been replaced only by writes still to be announced. A version between the two would be an announced write whose Invalidate did not move the generation. A version in `late` counts as still to be announced, until the next Invalidate, whoever's, clears it.

**RequestTx.** `ClaimHolds`: a claim holds its key's lock until its transaction has ended, and while it does the key's window stands and
no committed record answers for the key. The lock of a transaction whose client is gone is held by the server (`OrphanInv`), and no two such transactions share one (`OrphansApart`): without
them a retry could commit beside the commit nobody knows of. `Completes`, `Refuses` and `WireIsTrue` carry the truth of a response from the handler through the decision to the caller, which is what KeyedCreate asks of an answer.
The refinement is proved step by step: every action of RequestTx is a create, an answer, the end of a window, or a stutter of KeyedCreate.

**AuditSpill.** `Distinct` and `Apart` say that an event is in one place only; from them, moves between the places lose nothing (`Kept`), and the cardinalities of `OneHolder` add up to one at most. While a drain is between read and rename, its file is still what it read, `reading` and `tail` together, or the events are in `overlap` (`DrainInv`). `Bounded` keeps queue and batch finite.
For `CapHolds`, `Sized` says more: while a batch of a replica's own file is in the reaper's hands, the file is at its cap at most, since the drain left no more than that and appends look at the cap; a re-spill then exceeds it by that batch only.

**StreamStop.** `EndingInOrder` says what the worker's place says of the end of the stream (an error is recorded before it is emitted, a done is claimed before the answer is stored), `CardsInOrder` the same of the card, `EventsAreLast` that an event
of the worker leaves last. `HeldStopsWait` (a stop that finds a hold waits for it) carries `ApplyIsWhole`. For `StopIsTrue`, `KeyIsAge` ties the liveness key another replica sees to the age the owner itself fences by: when
the key is gone long enough for a stop to conclude, the owner's last good write is at least that old, unless the key was evicted. `CheckIsFenced` says that a writer past its check has fenced what it had to, and `AsksAreFounded` that a stop under way
has found a saved stream, and that the owner of a key found missing behind a steady view has not written for so long that its fence is due.

### Assumptions

The assumptions on constants separate the special values (`None`, `AllKeys`, `Resync`, `NoKey`, ...) from the others, type the rest, and make the limits positive where the code's are. Four say more:

- `TimesAssumption` (StreamStop): the staleness after which an owner fences itself is less than the TTL of its key, as the code's constants are.
- `RunnersAssumption`: there is a runner, every runner is registered, and the tasks are finitely many.
- `FeedersFirst` (BackgroundRunners): a runner that is handed work and hands work on is created after those that feed it. In the server that is `finding_alert`, behind `events`; a runner that
  hands nothing on (mail, notify) may be anywhere. The assumption is needed: with `emails, alerts, events` TLC finds a hand-off that meets a closed runner within the budget.
- `SurvivorAssumption` (AuditSpill) is used for liveness only.

TLC evaluates all of them in the runs.

### Only model-checked

Liveness, because the prover has no rule for fairness: `CallsReturn`, `StaleEntriesGo`, `StaleKeysGo`, `LostRunsAreCancelled`, `JobKeepsRunning`, `StopReturns`, `DrainEnds`, `GetsReturn`, `RetriesEnd`, `SpilledIsReplayed` and `StoppedEnds`. And the three violations below, which are counterexamples.

## Findings

1. `fanout_first_sight`. `tracker.observe` takes the first number it hears of an origin as its
   baseline. Its comment says that what the origin sent before "was either covered by the resync that follows every
   subscription or is the receiver's own start". There is a third case: the receiver's subscription resync is over,
   the sender then loses a message (its Redis client is still degraded after a flap that both
   saw, or its publish fails), and the sender's next message or heartbeat is the first the receiver hears of it. No gap shows,
   and the key stays stale until its TTL. `LostIsNoticed` and `StaleKeysGo` state what does hold: nothing else is missed.
2. `audit_at_least_once`. The comment of `spillStore` says "Events are written at least once: a replay after a crash between the insert and the file
   rewrite is absorbed by the idempotent insert". The file is rewritten first: `Drain` takes the events out of it, `replayFrom` puts them on the in-memory queue, and a worker inserts them later. A process that ends
   in between loses events that had been safe on disk. `Accounted` states what does hold: that, memory at a crash and a failing disk are the only ways to lose one.
3. `chat_terminal_event`. `BeginStream` relies on a terminal event that is not in its snapshot being emitted later, "so SSE delivery covers it". A failure is recorded before the begin gate, and the gate is a select over the client's begin
   and the end of the context. When a stop arrives after the client began and before the first chunk, both are ready; if the select takes the end, the worker returns, and the cleanup finds the failure recorded and emits nothing. The client learns of it only by a resume.

Remarks without a finding:

- A load of the settings that was in flight at an `Invalidate` and fails is not refused by the generation: it sets the five-second backoff and the Gets after
  the Invalidate are served the dropped value until it ends. `GetIsCurrent` leaves out the answers a failed load decided.
- `StopIsTrue` names five holes through which a stop may be answered ok while its stream runs on; TLC reaches each of them once it is taken out of `holes`. *unmarked*: a fence that passes between the first save of a snapshot and the mark
  `published` (or that save falls between the fence and the write after it) passes the stream over. *stalled*: `run` checks its age and then writes (`liveness.go:150-151`); a process that stalls between the two past its TTL writes successfully on waking,
  with a fresh `lastOK`, and never fences, although the comment there says that it "must not carry on as if its key had held". *evicted*: Redis is deployed with `volatile-lru`, and `liveness.go:19-20` names the eviction of the key; its owner writes in time, so no fence is due.
  *restarted*: Redis restarts without its keys between `steadyView` and `ReplicaAlive`. *missed*: the snapshot is gone, by a restart or an eviction, when `CancelStreamAs` reads it (with accounts that is the second read; without a JWT it is the only one, so a snapshot not yet saved is enough).
- A commit whose answer was lost may be applied after the abort's passes. A fill in between then keeps the replaced row until its TTL (`overtaken`), the settings until their 30 seconds are over (`late`), and no drop is owed: `Coherent`, `StaleEntriesGo` and `GetIsCurrent` say so, and hold for everything else.
- `tracker.prune` forgets every origin not heard for ten minutes. Its comment takes such a replica for scaled in; a degraded one sends no heartbeat either, is taken for new when it comes back, and what it lost meanwhile shows no gap. It needs more than 64 origins; `LostIsNoticed` names the keys (`ttlOnly`).
- A spill file that is taken over between the read and the rename of its owner's drain is replayed by both; the idempotent insert absorbs it, as the comment of `claimOrphans` says.
- The trace of `chat_terminal_event` starts from a stream id the client supplied, so that the client can begin before the stream does; the path through the gate and the cleanup is the same for any begin.
- The stream's deadline, unlike a stop, does not wait for an apply.
- The order of the runners matters to `HandOffsAreKept`. `allIdle` reads the counters in the order the
  runners were created; the property holds because `events` is created before `finding_alert` (`FeedersFirst`). A runner that feeds
  another from later in the list could have its task's hand-off refused, as the task it handed over starts behind the look.

## What is not modelled

Sizes and TTLs of caches beyond eviction, metrics and logging; the merging of settings documents (`UpdateWith`'s lost update is
documented in the source); the `job_runs` bookkeeping and the overdue report of jobs, and the lock of a deployment without
PostgreSQL; the notification share of the mail runner; the tenant settings of a session and the streaming routes of the middleware; the syntax of keys and the sealing of stored responses;
decisions on approvals that arrive at another replica (`DecideApproval` and the claim keys), the caps on streams, the journal's replay and fixes in batches; the retries of a liveness write within its interval, which are the next refresh here;
an owner that is paused between opening its spill file and appending to it while the file is claimed (its line then lands in the claim); the content of messages (envelopes, authentication) on Redis; the replicas' clocks; and the parts marked `not_modelled` in `PROJECT.json`,
with the reason there. Most of the repository's lines are of that kind: parsing and analysis of source code, SQL data access, provider protocols, HTTP rendering, generated API docs, the CLI and the web client hold no state that several
actors share, or only through the mechanisms modelled here. PostgreSQL, Redis and `singleflight` are modelled from how the code uses them and are marked external.

## Plan

Here: CacheCoherence, InvalidationFanout, SingletonJob, BackgroundRunners, SettingsCache, RequestTx with KeyedCreate, AuditSpill, ChatStream and StreamStop. Next, in order:

1. ApprovalDecisions: a card decided at another replica, with the decision's claim, its take-over and loss. Property: one decision is acted on, and every decider is told which.
2. StreamReplay: the SSE backplane, live tail and replay from an id. Property: a client that reconnects sees every event once and in order.
3. AnalyticsFence and the embedder cache, on the pattern of SettingsCache; token revocation across replicas.
4. An abstract specification of a cache that is invalidated (a read returns a value that was committed at some point since the last announced write), which CacheCoherence and SettingsCache implement under a refinement mapping; and the composition of CacheCoherence with InvalidationFanout across replicas.

Theorems next: the first properties of the modules above, and the refinement of the abstract cache, which needs the invariants of CacheCoherence and SettingsCache as they stand.
