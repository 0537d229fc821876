------------------------------ MODULE RequestTx ------------------------------
(***************************************************************************)
(* The transaction around a request (internal/api/rls_middleware.go over    *)
(* internal/storage/database/rls.go) and the Idempotency-Key layer inside   *)
(* it (internal/api/idempotency.go, postgres_idempotency.go).  A mutation   *)
(* begins its transaction before its handler and ends it before the first   *)
(* byte of its response; a read begins at its first statement.  A create    *)
(* with a key claims it, runs with its response held back, stores the       *)
(* response on the claim and releases it, all in that one transaction.      *)
(*                                                                          *)
(* A member of Requests is one place a caller sends from: it sends again    *)
(* when it has no answer or one that says nothing was done.  A caller that  *)
(* retries while its first attempt still runs is two members with one key   *)
(* and one fingerprint.  A response is named by the row it reports.         *)
(***************************************************************************)
EXTENDS Naturals, FiniteSets

CONSTANTS
    Requests,       \* where requests are sent from
    Keys,           \* the Idempotency-Keys of one user
    NoKey,          \* a mutation sent without the header
    Read,           \* the "key" of a request that only reads
    Prints,         \* request fingerprints
    Mixes,          \* what the requests ask for: a set of functions from Requests
    MaxFaults,      \* bound: failures of any kind
    MaxExpiries,    \* bound: retention windows that end, per key
    Omitted,        \* a stored response whose body was over the cap
    Data, Nothing,  \* what a read's handler found: rows, or failed statements
    None

ASSUME RequestAssumption ==
    /\ Mixes \subseteq [Requests -> [key : Keys \cup {NoKey, Read}, print : Prints]]
    /\ NoKey \notin Keys /\ Read \notin Keys /\ NoKey # Read
ASSUME BoundsAssumption == MaxFaults \in Nat /\ MaxExpiries \in Nat

VARIABLES
    asks,       \* [Requests -> what the request asks for]: a member of Mixes
    pc,         \* [Requests -> where the request is]
    tx,         \* [Requests -> its RLSScope]: "none" | "open" | "aborted" | "failed" | "ended"
    began,      \* [Requests -> the retention window of its key at its BEGIN: NOW()]
    wrote,      \* [Requests -> the row its handler inserted, or None]
    claim,      \* [Requests -> the key record its transaction wrote, or None]
    out,        \* [Requests -> the response its layers are sending, or None]
    wire,       \* [Requests -> the response that left the server, or None]
    answer,     \* [Requests -> the response the caller got last, or None]
    runs,       \* [Requests -> how often its handler inserted]
    lock,       \* [Keys -> who holds the advisory lock: a request, "limbo" or None]
    record,     \* [Keys -> the committed idempotency_keys row, or None]
    rows,       \* the committed rows of the creates
    announced,  \* the rows whose post-commit hooks ran
    limbo,      \* transactions whose client is gone and that the server still holds
    window,     \* [Keys -> how many retention windows have ended]
    lost,       \* rows whose process could not, or did not live to, run their hooks
    faults      \* failures so far

scopes == <<tx, began, wrote, claim>>
responses == <<out, wire, answer>>
database == <<lock, record, rows, limbo, window>>
hooks == <<announced, lost>>
vars == <<asks, pc, scopes, responses, runs, database, hooks, faults>>

KeyOf(q) == asks[q].key
PrintOf(q) == asks[q].print
Keyed(q) == KeyOf(q) \in Keys
Windows == 0..MaxExpiries
RowsOf == [key : Keys \cup {NoKey}, by : Requests, n : Nat, print : Prints, window : Windows]
Bodies == RowsOf \cup {None, Omitted, Data, Nothing}
Codes == {200, 400, 409, 422, 500, 503}
Response(code, body) == [code |-> code, body |-> body]

Responses == [code : Codes, body : Bodies]

(* A key's record: status 0 is a claim without a response. *)
RecordsOf == [print : Prints, status : {0, 200}, body : Bodies, window : Windows]

(* A transaction the server still holds: what it may commit, and its lock. *)
Maybe(S) == S \cup {None}
Orphans == [key : Keys \cup {NoKey, Read}, held : SUBSET Keys, row : Maybe(RowsOf),
            rec : Maybe(RecordsOf), mayCommit : BOOLEAN]

ASSUME NoneAssumption ==
    /\ None \notin Requests /\ None \notin RowsOf /\ None \notin RecordsOf /\ None \notin Responses
    /\ "limbo" \notin Requests \cup {None}

Init ==
    /\ asks \in Mixes
    /\ pc = [q \in Requests |-> "idle"]
    /\ tx = [q \in Requests |-> "none"]
    /\ began = [q \in Requests |-> 0]
    /\ wrote = [q \in Requests |-> None]
    /\ claim = [q \in Requests |-> None]
    /\ out = [q \in Requests |-> None]
    /\ wire = [q \in Requests |-> None]
    /\ answer = [q \in Requests |-> None]
    /\ runs = [q \in Requests |-> 0]
    /\ lock = [k \in Keys |-> None]
    /\ record = [k \in Keys |-> None]
    /\ rows = {} /\ announced = {} /\ limbo = {} /\ lost = {}
    /\ window = [k \in Keys |-> 0]
    /\ faults = 0

At(q, from, to) == pc[q] = from /\ pc' = [pc EXCEPT ![q] = to]
Fault == faults < MaxFaults /\ faults' = faults + 1
NoFault == UNCHANGED faults

(* A layer or the handler starts its response; decide ends the transaction. *)
Respond(q, code, body) == out' = [out EXCEPT ![q] = Response(code, body)]

(* Mutant: the status is lost. *)
SendNoStatus(q, resp) == wire' = [wire EXCEPT ![q] = Response(0, resp.body)]

(* A response put on the wire by the middleware itself. *)
Send(q, resp) == wire' = [wire EXCEPT ![q] = resp]

----------------------------------------------------------------------------
(* The caller. *)

(* Answers after which nothing of the request is left behind, or whether    *)
(* it is cannot be known: the caller sends again, with the same key.        *)
Retryable(resp) == IF resp = None THEN TRUE ELSE resp.code \in {409, 500, 503}

(* The request arrives at rlsMiddleware.  A mutation's scope begins here;   *)
(* its failure is a 503 before any handler code.                            *)
Begin(q) ==
    /\ Retryable(answer[q])
    /\ At(q, "idle", "claim")
    /\ KeyOf(q) # Read
    /\ tx' = [tx EXCEPT ![q] = "open"]
    /\ began' = [began EXCEPT ![q] = IF Keyed(q) THEN window[KeyOf(q)] ELSE 0]
    /\ answer' = [answer EXCEPT ![q] = None]
    /\ NoFault
    /\ UNCHANGED <<wrote, claim, out, wire, runs, database, hooks>>

BeginFails(q) ==
    /\ Retryable(answer[q])
    /\ At(q, "idle", "done")
    /\ KeyOf(q) # Read
    /\ Send(q, Response(503, None))
    /\ answer' = [answer EXCEPT ![q] = None]
    /\ Fault
    /\ UNCHANGED <<scopes, out, runs, database, hooks>>

(* A read's scope is lazy: nothing begins yet. *)
OpenRead(q) ==
    /\ Retryable(answer[q])
    /\ At(q, "idle", "handler")
    /\ KeyOf(q) = Read
    /\ answer' = [answer EXCEPT ![q] = None]
    /\ NoFault
    /\ UNCHANGED <<scopes, out, wire, runs, database, hooks>>

----------------------------------------------------------------------------
(* Claiming the key: ClaimIdempotencyKey inside the request's transaction.  *)

(* The record no longer answers: none, or one that had expired at this      *)
(* transaction's start (NOW() is the start), or a claim without a response. *)
Claimable(q) ==
    LET r == record[KeyOf(q)] IN
    IF r = None THEN TRUE ELSE r.status = 0 \/ r.window < began[q]

(* Mutant: the claim does not take the lock. *)
TryLockNoLock(q) == lock[KeyOf(q)] \in {None, q} /\ UNCHANGED lock

(* pg_try_advisory_xact_lock: held until the transaction ends. *)
TryLock(q) ==
    /\ lock[KeyOf(q)] = None
    /\ lock' = [lock EXCEPT ![KeyOf(q)] = q]

(* Without the header, or with no claim needed, the route runs as it is. *)
ClaimSkipped(q) ==
    /\ ~Keyed(q) /\ At(q, "claim", "handler")
    /\ NoFault
    /\ UNCHANGED <<scopes, responses, runs, database, hooks>>

(* The claim is inserted, or takes over a record that no longer answers. *)
Claim(q) ==
    /\ Keyed(q) /\ At(q, "claim", "handler")
    /\ TryLock(q) /\ Claimable(q)
    /\ claim' = [claim EXCEPT ![q] = [print |-> PrintOf(q), status |-> 0, body |-> None,
                                      window |-> window[KeyOf(q)]]]
    /\ NoFault
    /\ UNCHANGED <<tx, began, wrote, responses, runs, record, rows, limbo, window, hooks>>

(* ErrIdempotencyKeyInProgress: another transaction has the key. *)
ClaimInProgress(q) ==
    /\ Keyed(q) /\ At(q, "claim", "respond")
    /\ lock[KeyOf(q)] # None
    /\ Respond(q, 409, None)
    /\ NoFault
    /\ UNCHANGED <<scopes, wire, answer, runs, database, hooks>>

(* Mutant: the fingerprints are never found equal. *)
ReplayRefuses(q) ==
    /\ Keyed(q) /\ At(q, "claim", "respond")
    /\ TryLock(q) /\ ~Claimable(q)
    /\ Respond(q, 422, None)
    /\ NoFault
    /\ UNCHANGED <<scopes, wire, answer, runs, record, rows, limbo, window, hooks>>

(* The key is answered for: 422 for another request, else the replay. *)
Replay(q) ==
    /\ Keyed(q) /\ At(q, "claim", "respond")
    /\ TryLock(q) /\ ~Claimable(q)
    /\ LET r == record[KeyOf(q)] IN
       IF r.print # PrintOf(q) THEN Respond(q, 422, None) ELSE Respond(q, r.status, r.body)
    /\ NoFault
    /\ UNCHANGED <<scopes, wire, answer, runs, record, rows, limbo, window, hooks>>

(* A statement fails inside the transaction: PostgreSQL aborts it and frees *)
(* its locks at once, and nothing it did can commit any more.               *)
Abort(q) ==
    /\ tx' = [tx EXCEPT ![q] = "aborted"]
    /\ lock' = [k \in Keys |-> IF lock[k] = q THEN None ELSE lock[k]]
    /\ UNCHANGED <<began, wrote, claim, record, rows, limbo, window>>

(* ClaimIdempotencyKey fails: render.Error. *)
ClaimFails(q) ==
    /\ Keyed(q) /\ At(q, "claim", "respond")
    /\ Abort(q)
    /\ Respond(q, 500, None)
    /\ Fault
    /\ UNCHANGED <<wire, answer, runs, hooks>>

----------------------------------------------------------------------------
(* The handler. *)

(* The route inserts its row. *)
Insert(q) ==
    /\ KeyOf(q) # Read /\ At(q, "handler", "handler")
    /\ tx[q] = "open" /\ wrote[q] = None
    /\ runs' = [runs EXCEPT ![q] = @ + 1]
    /\ wrote' = [wrote EXCEPT ![q] =
          [key |-> KeyOf(q), by |-> q, n |-> runs[q] + 1, print |-> PrintOf(q),
           window |-> IF claim[q] = None THEN 0 ELSE claim[q].window]]
    /\ NoFault
    /\ UNCHANGED <<tx, began, claim, responses, database, hooks>>

(* A statement of the route fails, its deadline passed or its input was bad. *)
StatementFails(q) ==
    /\ At(q, "handler", "handler")
    /\ tx[q] = "open" /\ Abort(q)
    /\ Fault
    /\ UNCHANGED <<responses, runs, hooks>>

(* RLSScope.get of a read's first statement: the transaction begins, or its *)
(* failure sticks to the scope and every statement fails.                   *)
ReadStatement(q) ==
    /\ KeyOf(q) = Read /\ At(q, "handler", "handler")
    /\ tx[q] = "none"
    /\ \/ tx' = [tx EXCEPT ![q] = "open"] /\ NoFault
       \/ tx' = [tx EXCEPT ![q] = "failed"] /\ Fault
    /\ UNCHANGED <<began, wrote, claim, responses, runs, database, hooks>>

(* What the route's own response reports. *)
Body(q) ==
    IF KeyOf(q) # Read THEN wrote[q]
    ELSE IF tx[q] = "open" THEN Data ELSE Nothing

(* The route refuses the request, or passes on a statement's failure: the   *)
(* error goes straight through idempotentWriter.                            *)
HandlerErrs(q) ==
    /\ At(q, "handler", "respond")
    /\ \/ Respond(q, 400, None) /\ Fault
       \/ tx[q] \in {"aborted", "failed"} /\ Respond(q, 500, None) /\ NoFault
    /\ UNCHANGED <<scopes, wire, answer, runs, database, hooks>>

(* The route is through: it has inserted, or a statement of it failed and   *)
(* it answers 200 all the same.                                             *)
Through(q) == tx[q] # "none" /\ (tx[q] = "open" /\ KeyOf(q) # Read => wrote[q] # None)

(* A keyless route, or a read, answers 200. *)
HandlerAnswers(q) ==
    /\ ~Keyed(q) /\ At(q, "handler", "respond")
    /\ Through(q)
    /\ Respond(q, 200, Body(q))
    /\ NoFault
    /\ UNCHANGED <<scopes, wire, answer, runs, database, hooks>>

(* Mutant: the response is released without its record. *)
CompleteForgotten(q, body) == tx[q] = "open" /\ UNCHANGED claim

(* CompleteIdempotencyKey: the UPDATE finds this transaction's own claim. *)
Complete(q, body) ==
    /\ tx[q] = "open" /\ claim[q] # None
    /\ claim[q].status = 0
    /\ claim' = [claim EXCEPT ![q] = [@ EXCEPT !.status = 200, !.body = body]]

(* idempotentWriter.finish, or Write past maxStoredResponseBytes: the       *)
(* record is stored, in the second case with the status alone, and only     *)
(* then is the response released.                                           *)
Finish(q) ==
    /\ Keyed(q) /\ At(q, "handler", "respond")
    /\ wrote[q] # None
    /\ \E body \in {wrote[q], Omitted} : Complete(q, body)
    /\ Respond(q, 200, wrote[q])
    /\ NoFault
    /\ UNCHANGED <<tx, began, wrote, wire, answer, runs, database, hooks>>

(* complete fails: the held response is dropped for an error. *)
FinishFails(q) ==
    /\ Keyed(q) /\ At(q, "handler", "respond")
    /\ Through(q)
    /\ \/ tx[q] = "aborted" /\ NoFault /\ UNCHANGED <<scopes, database>>
       \/ tx[q] = "open" /\ Abort(q) /\ Fault
    /\ Respond(q, 500, None)
    /\ UNCHANGED <<wire, answer, runs, hooks>>

----------------------------------------------------------------------------
(* The end of the transaction: txResponseWriter.decide, once, before the    *)
(* first byte.                                                              *)

(* The transaction's writes become visible and its lock is freed. *)
Commits(q) ==
    /\ rows' = rows \cup ({wrote[q]} \ {None})
    /\ record' = [k \in Keys |-> IF k = KeyOf(q) /\ claim[q] # None THEN claim[q] ELSE record[k]]
    /\ lock' = [k \in Keys |-> IF lock[k] = q THEN None ELSE lock[k]]
    /\ UNCHANGED <<limbo, window>>

(* Mutant: the lock belongs to the session, not to the transaction. *)
RollsBackSession(q) == UNCHANGED <<lock, record, rows, limbo, window>>

(* Nothing of the transaction remains, its lock included. *)
RollsBack(q) ==
    /\ lock' = [k \in Keys |-> IF lock[k] = q THEN None ELSE lock[k]]
    /\ UNCHANGED <<record, rows, limbo, window>>

(* The connection is gone and the server has not ended the transaction yet. *)
ToLimbo(q, mayCommit) ==
    LET held == {k \in Keys : lock[k] = q} IN
    /\ lock' = [k \in Keys |-> IF k \in held THEN "limbo" ELSE lock[k]]
    /\ limbo' = limbo \cup {[key |-> KeyOf(q), held |-> held, row |-> IF mayCommit THEN wrote[q] ELSE None,
                             rec |-> claim[q], mayCommit |-> mayCommit]}
    /\ UNCHANGED <<record, rows, window>>

(* The scope is over; the row stays known to the hooks of a commit. *)
EndScope(q, row) ==
    /\ tx' = [tx EXCEPT ![q] = "ended"]
    /\ began' = [began EXCEPT ![q] = 0]
    /\ wrote' = [wrote EXCEPT ![q] = row]
    /\ claim' = [claim EXCEPT ![q] = None]
    /\ out' = [out EXCEPT ![q] = None]

(* end(status): a scope that could not start refuses whatever was answered. *)
RefuseRead(q) ==
    /\ tx[q] = "failed" /\ At(q, "respond", "done")
    /\ RollsBack(q) /\ EndScope(q, None)
    /\ Send(q, Response(503, None))
    /\ NoFault

(* end(status) at 400 or more: Rollback, and the response goes out. *)
DecideRollback(q) ==
    /\ At(q, "respond", "done") /\ tx[q] # "failed" /\ out[q].code >= 400
    /\ RollsBack(q) /\ EndScope(q, None)
    /\ Send(q, out[q])
    /\ NoFault

(* end(status) below 400: Commit first, then the response. *)
DecideCommit(q) ==
    /\ At(q, "respond", "hooks") /\ tx[q] \in {"none", "open"} /\ out[q].code < 400
    /\ Commits(q) /\ EndScope(q, wrote[q])
    /\ Send(q, out[q])
    /\ NoFault

(* Commit fails: a transaction that was aborted, or one the server refuses. *)
CommitFails(q) ==
    /\ At(q, "respond", "done") /\ tx[q] \in {"open", "aborted"} /\ out[q].code < 400
    /\ RollsBack(q) /\ EndScope(q, None)
    /\ Send(q, Response(503, None))
    /\ IF tx[q] = "aborted" THEN NoFault ELSE Fault

(* Commit fails with the connection: the 503 goes out, and the server may   *)
(* still commit.                                                            *)
CommitUnknown(q) ==
    /\ At(q, "respond", "done") /\ tx[q] = "open" /\ out[q].code < 400
    /\ ToLimbo(q, TRUE) /\ EndScope(q, None)
    /\ Send(q, Response(503, None))
    /\ lost' = lost \cup ({wrote[q]} \ {None})
    /\ Fault

Decide(q) ==
    /\ \/ CommitUnknown(q)
       \/ (RefuseRead(q) \/ DecideRollback(q) \/ DecideCommit(q) \/ CommitFails(q)) /\ UNCHANGED lost
    /\ UNCHANGED <<answer, runs, announced>>

(* A panic before the response started: Rollback; Recovery answers 500. *)
Panic(q) ==
    /\ At(q, "handler", "done")
    /\ RollsBack(q) /\ EndScope(q, None)
    /\ Send(q, Response(500, None))
    /\ Fault
    /\ UNCHANGED <<answer, runs, hooks>>

(* Mutant: the hooks are dropped with the request. *)
RunHooksNever(q) ==
    /\ At(q, "hooks", "done")
    /\ NoFault
    /\ UNCHANGED <<announced, lost, scopes, responses, runs, database>>

(* The handler returned, or panicked after its response: hooks.Commit. *)
RunHooks(q) ==
    /\ At(q, "hooks", "done")
    /\ announced' = announced \cup ({wrote[q]} \ {None})
    /\ wrote' = [wrote EXCEPT ![q] = None]
    /\ NoFault
    /\ UNCHANGED <<lost, tx, began, claim, responses, runs, database>>

----------------------------------------------------------------------------
(* The environment. *)

(* What is left of a request when its attempt is over. *)
Forget(q) ==
    /\ tx' = [tx EXCEPT ![q] = "none"]
    /\ began' = [began EXCEPT ![q] = 0]
    /\ wrote' = [wrote EXCEPT ![q] = None]
    /\ claim' = [claim EXCEPT ![q] = None]
    /\ out' = [out EXCEPT ![q] = None]
    /\ wire' = [wire EXCEPT ![q] = None]

(* The caller gets the response as soon as it leaves, or the network loses  *)
(* it.                                                                      *)
Receive(q) ==
    /\ wire[q] # None /\ wire' = [wire EXCEPT ![q] = None]
    /\ \/ answer' = [answer EXCEPT ![q] = wire[q]] /\ NoFault
       \/ UNCHANGED answer /\ Fault
    /\ UNCHANGED <<pc, scopes, out, runs, database, hooks>>

(* The request is over on both sides; the caller may send again. *)
Over(q) ==
    /\ wire[q] = None /\ At(q, "done", "idle")
    /\ tx' = [tx EXCEPT ![q] = "none"]
    /\ NoFault
    /\ UNCHANGED <<began, wrote, claim, responses, runs, database, hooks>>

(* The replica dies: an open transaction is left to the server, which may   *)
(* have had its COMMIT; a response that has not arrived is gone.            *)
Crash(q) ==
    LET committing == pc[q] = "respond" /\ tx[q] = "open" /\ out[q].code < 400 IN
    /\ pc[q] \in {"claim", "handler", "respond", "hooks"}
    /\ pc' = [pc EXCEPT ![q] = "idle"]
    /\ IF tx[q] = "open" THEN ToLimbo(q, committing) ELSE UNCHANGED database
    /\ lost' = IF committing \/ pc[q] = "hooks" THEN lost \cup ({wrote[q]} \ {None}) ELSE lost
    /\ Forget(q)
    /\ Fault
    /\ UNCHANGED <<answer, runs, announced>>

(* The server ends a transaction whose client is gone. *)
EndLimbo(t) ==
    /\ t \in limbo /\ limbo' = limbo \ {t}
    /\ \/ t.mayCommit /\ rows' = rows \cup ({t.row} \ {None})
          /\ record' = [k \in Keys |-> IF k = t.key /\ t.rec # None THEN t.rec ELSE record[k]]
       \/ UNCHANGED <<rows, record>>
    /\ lock' = [k \in Keys |-> IF k \in t.held THEN None ELSE lock[k]]
    /\ UNCHANGED <<pc, scopes, responses, runs, window, hooks, faults>>

(* IdempotencyKeyRetention has passed since the record was written. *)
Expire(k) ==
    /\ window[k] < MaxExpiries
    /\ record[k] # None /\ record[k].window = window[k]
    /\ window' = [window EXCEPT ![k] = @ + 1]
    /\ UNCHANGED <<pc, scopes, responses, runs, lock, record, rows, limbo, hooks, faults>>

(* The retention sweep deletes expired records; a record a transaction has  *)
(* taken over is locked, and no longer expired when that one ends.          *)
Purge(k) ==
    /\ record[k] # None /\ record[k].window < window[k]
    /\ \A q \in Requests : ~(lock[k] = q /\ claim[q] # None)
    /\ \A t \in limbo : ~(k \in t.held /\ t.rec # None)
    /\ record' = [record EXCEPT ![k] = None]
    /\ UNCHANGED <<pc, scopes, responses, runs, lock, rows, limbo, window, hooks, faults>>

----------------------------------------------------------------------------

ClaimStep(q) ==
    ClaimSkipped(q) \/ Claim(q) \/ ClaimInProgress(q) \/ Replay(q) \/ ClaimFails(q)
Handler(q) ==
    Insert(q) \/ StatementFails(q) \/ ReadStatement(q) \/ HandlerErrs(q)
    \/ HandlerAnswers(q) \/ Finish(q) \/ FinishFails(q) \/ Panic(q)
Serve(q) == ClaimStep(q) \/ Handler(q) \/ Decide(q) \/ RunHooks(q)
Call(q) == Begin(q) \/ BeginFails(q) \/ OpenRead(q)

Next ==
    /\ \/ \E q \in Requests : Call(q) \/ Serve(q) \/ Receive(q) \/ Over(q) \/ Crash(q)
       \/ \E t \in limbo : EndLimbo(t)
       \/ \E k \in Keys : Expire(k) \/ Purge(k)
    /\ UNCHANGED asks

Spec == Init /\ [][Next]_vars

(* Fairness: a request that has been sent runs (its goroutine and the       *)
(* database make progress; handlers return within the request's deadline),  *)
(* its response arrives, a caller without a final answer tries again, and   *)
(* the server ends the transactions of clients that are gone.               *)
FairSpec ==
    /\ Spec
    /\ \A q \in Requests :
         /\ WF_vars(Call(q) /\ UNCHANGED asks)
         /\ WF_vars(Serve(q) /\ UNCHANGED asks)
         /\ WF_vars((Receive(q) \/ Over(q)) /\ UNCHANGED asks)
    /\ WF_vars((\E t \in limbo : EndLimbo(t)) /\ UNCHANGED asks)

----------------------------------------------------------------------------
(* Properties. *)

(* Every variable has its type, and every response carries a status the     *)
(* layers can send (render.Error, replayIdempotent, rlsMiddleware).         *)
TypeOK ==
    /\ asks \in Mixes
    /\ pc \in [Requests -> {"idle", "claim", "handler", "respond", "hooks", "done"}]
    /\ tx \in [Requests -> {"none", "open", "aborted", "failed", "ended"}]
    /\ began \in [Requests -> Windows] /\ runs \in [Requests -> Nat]
    /\ wrote \in [Requests -> Maybe(RowsOf)] /\ claim \in [Requests -> Maybe(RecordsOf)]
    /\ out \in [Requests -> Maybe(Responses)] /\ wire \in [Requests -> Maybe(Responses)]
    /\ answer \in [Requests -> Maybe(Responses)]
    /\ lock \in [Keys -> Requests \cup {None, "limbo"}]
    /\ record \in [Keys -> Maybe(RecordsOf)]
    /\ rows \subseteq RowsOf /\ announced \subseteq RowsOf /\ lost \subseteq RowsOf
    /\ limbo \subseteq Orphans
    /\ window \in [Keys -> Windows]
    /\ faults \in 0..MaxFaults

(* A key creates once per retention window, whatever is retried: requests   *)
(* in flight together, rolled back, cut off in their commit or crashed      *)
(* (claimIdempotencyKeySQL, pg_try_advisory_xact_lock).                     *)
OneCreatePerKey ==
    \A r, s \in rows : r.key = s.key /\ r.key # NoKey /\ r.window = s.window => r = s

(* A key's record and the row it answers for commit together or vanish      *)
(* together: a committed record always has a response, its row is there,    *)
(* and the row of a window that has not ended has its record.               *)
RecordWithRow ==
    /\ \A k \in Keys : record[k] # None =>
         /\ record[k].status = 200
         /\ \E s \in rows : /\ s.key = k /\ s.window = record[k].window /\ s.print = record[k].print
                            /\ record[k].body \in {s, Omitted}
    /\ \A s \in rows : s.key # NoKey /\ s.window = window[s.key] =>
         record[s.key] # None /\ record[s.key].window = s.window

(* The post-commit hooks describe committed rows only, and every committed  *)
(* row has had them or is about to, except where the process died first or  *)
(* its commit's outcome was lost: those rows are never announced, although  *)
(* a retry may be told of them (hooks.Abort after a failed Commit).         *)
HooksFollowCommit ==
    /\ announced \subseteq rows
    /\ \A s \in rows \ (announced \cup lost) : pc[s.by] = "hooks" /\ wrote[s.by] = s

(* The transactions, locks, records and retries together keep the promise   *)
(* of KeyedCreate: the rows, the retention windows and what the callers     *)
(* were told last change only as that specification allows.                 *)
Abstract == INSTANCE KeyedCreate WITH created <- rows, told <- answer
ImplementsKeyedCreate == Abstract!Spec

(* Every caller gets a final answer in the end and no key stays in use:     *)
(* no interleaving of claims, refusals and lost transactions locks a retry  *)
(* out for ever.                                                            *)
RetriesEnd == \A q \in Requests : []<>(~Retryable(answer[q]))

=============================================================================
