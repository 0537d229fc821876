--------------------------- MODULE RequestTx_proof ---------------------------
(***************************************************************************)
(* Proofs about RequestTx, for any requests, keys and bounds: a key creates *)
(* once per retention window, a record and its row commit together, hooks   *)
(* follow commits, and RequestTx implements KeyedCreate.                    *)
(***************************************************************************)
EXTENDS RequestTx, TLAPS

----------------------------------------------------------------------------
(* The inductive invariant. *)

(* What each place of a request says of its scope and its responses. *)
InPlace(q) ==
    /\ pc[q] = "idle" => tx[q] = "none" /\ wrote[q] = None /\ claim[q] = None /\ out[q] = None
    /\ pc[q] = "claim" => /\ KeyOf(q) # Read /\ tx[q] = "open" /\ wrote[q] = None
                          /\ claim[q] = None /\ out[q] = None
    /\ pc[q] = "handler" => /\ out[q] = None
                            /\ IF KeyOf(q) = Read THEN tx[q] # "ended" /\ wrote[q] = None
                                                  ELSE tx[q] \in {"open", "aborted"}
                            /\ Keyed(q) <=> claim[q] # None
                            /\ claim[q] # None => claim[q].status = 0
    /\ pc[q] = "respond" => out[q] # None /\ tx[q] # "ended"
    /\ pc[q] \in {"hooks", "done"} => tx[q] \in {"none", "ended"} /\ claim[q] = None /\ out[q] = None
    /\ pc[q] = "done" => wrote[q] = None

(* A response is on its way only after the caller has sent again, and only  *)
(* from the end of the request on.                                          *)
OneResponse(q) ==
    /\ pc[q] \in {"claim", "handler", "respond"} => answer[q] = None /\ wire[q] = None
    /\ pc[q] = "idle" => wire[q] = None
    /\ wire[q] # None => answer[q] = None

(* The row and the claim of a transaction are its own. *)
OwnWrites(q) ==
    /\ wrote[q] # None =>
         /\ wrote[q].key = KeyOf(q) /\ wrote[q].by = q /\ wrote[q].print = PrintOf(q) /\ KeyOf(q) # Read
         /\ claim[q] # None => wrote[q].window = claim[q].window
    /\ claim[q] # None => Keyed(q) /\ claim[q].print = PrintOf(q) /\ tx[q] \in {"open", "aborted"}

(* No transaction began in a window that is still to come. *)
BeganInWindow(q) == Keyed(q) => began[q] <= window[KeyOf(q)]

(* No committed record answers for the key in its present window. *)
Unanswered(k) == record[k] # None => record[k].window < window[k]

(* A claim holds its key's lock until its transaction ends, and while it    *)
(* does, the key's window stands and nobody else answers for the key.       *)
ClaimHolds(q) ==
    claim[q] # None /\ tx[q] = "open" =>
        /\ lock[KeyOf(q)] = q
        /\ claim[q].window = window[KeyOf(q)]
        /\ Unanswered(KeyOf(q))
LockIsOwn(k) == \A q \in Requests : lock[k] = q => k = KeyOf(q) /\ tx[q] = "open"

(* The response of a transaction that is about to commit: the new row with  *)
(* its completed record, or an answer that is true already.                 *)
Committing(q) == pc[q] = "respond" /\ tx[q] \in {"none", "open"} /\ out[q].code < 400
Completes(q) ==
    Committing(q) =>
        /\ claim[q] # None => /\ wrote[q] # None /\ claim[q].status = 200
                              /\ claim[q].body \in {wrote[q], Omitted}
        /\ wrote[q] # None => /\ out[q].code = 200 /\ out[q].body = wrote[q]
                              /\ Keyed(q) => claim[q] # None
        /\ wrote[q] = None => Abstract!True(q, out[q])
Refuses(q) == pc[q] = "respond" /\ out[q].code >= 400 => Abstract!True(q, out[q])
WireIsTrue(q) == wire[q] # None => Abstract!True(q, wire[q])

RequestInv(q) ==
    /\ InPlace(q) /\ OneResponse(q) /\ OwnWrites(q) /\ BeganInWindow(q) /\ ClaimHolds(q)
    /\ Completes(q) /\ Refuses(q) /\ WireIsTrue(q)

(* A transaction the server still holds keeps its lock and what it may      *)
(* commit.                                                                  *)
OrphanInv(t) ==
    /\ t.held \subseteq {t.key} /\ \A k \in t.held : lock[k] = "limbo"
    /\ t.rec # None => /\ t.key \in t.held /\ t.rec.window = window[t.key] /\ Unanswered(t.key)
                       /\ t.mayCommit => /\ t.row # None /\ t.rec.status = 200
                                         /\ t.rec.body \in {t.row, Omitted}
                                         /\ t.rec.print = t.row.print /\ t.rec.window = t.row.window
    /\ t.row # None => /\ t.mayCommit /\ t.row \in lost /\ t.row.key = t.key
                       /\ asks[t.row.by].key = t.key /\ asks[t.row.by].print = t.row.print
                       /\ t.key \in Keys => t.rec # None
OrphansApart == \A t, u \in limbo : t.held \cap u.held # {} => t = u

(* A row belongs to a window that has begun. *)
RowsInWindow == \A r \in rows : r.key \in Keys => r.window <= window[r.key]

(* What a commit's hooks will describe is committed. *)
HooksOwed == \A q \in Requests : pc[q] = "hooks" /\ wrote[q] # None => wrote[q] \in rows

Inv ==
    /\ TypeOK
    /\ \A q \in Requests : RequestInv(q)
    /\ \A k \in Keys : LockIsOwn(k)
    /\ \A t \in limbo : OrphanInv(t)
    /\ OrphansApart /\ RowsInWindow
    /\ OneCreatePerKey /\ RecordWithRow
    /\ HooksOwed /\ HooksFollowCommit

----------------------------------------------------------------------------
(* Requests, responses and rows. *)

(* What a request asks for. *)
LEMMA AskType ==
    ASSUME TypeOK, NEW q \in Requests
    PROVE  /\ KeyOf(q) \in Keys \cup {NoKey, Read} /\ PrintOf(q) \in Prints
           /\ asks[q] = [key |-> KeyOf(q), print |-> PrintOf(q)]
  BY RequestAssumption DEF TypeOK, KeyOf, PrintOf

(* A response has its status and its body, and is not None. *)
LEMMA ResponseIs ==
    ASSUME NEW code \in Codes, NEW body \in Bodies
    PROVE  /\ Response(code, body) \in Responses /\ Response(code, body) # None
           /\ Response(code, body).code = code /\ Response(code, body).body = body
  BY NoneAssumption DEF Response, Responses

(* A response that is there is one. *)
LEMMA SentIs ==
    ASSUME TypeOK, NEW q \in Requests
    PROVE  /\ out[q] # None => out[q] \in Responses /\ out[q].code \in Codes
           /\ wire[q] # None => wire[q] \in Responses /\ wire[q].code \in Codes
           /\ answer[q] # None => answer[q] \in Responses /\ answer[q].code \in Codes
  BY DEF TypeOK, Maybe, Responses

(* The codes are numbers. *)
LEMMA CodesAre ==
    ASSUME NEW c \in Codes
    PROVE  c \in Nat /\ (c < 400 <=> c = 200) /\ (c >= 400 <=> c # 200)
  BY DEF Codes

(* A claim that is completed is still a record, and no other field of it    *)
(* changes.                                                                 *)
LEMMA CompletedIs ==
    ASSUME TypeOK, NEW q \in Requests, NEW body \in Bodies, claim[q] # None, Complete(q, body)
    PROVE  /\ claim' \in [Requests -> Maybe(RecordsOf)]
           /\ claim'[q] # None /\ claim'[q].status = 200 /\ claim'[q].body = body
           /\ claim'[q].print = claim[q].print /\ claim'[q].window = claim[q].window
           /\ \A p \in Requests \ {q} : claim'[p] = claim[p]
<1>1. claim[q] \in RecordsOf
  BY DEF TypeOK, Maybe
<1>2. /\ claim'[q] = [claim[q] EXCEPT !.status = 200, !.body = body]
      /\ claim'[q].status = 200 /\ claim'[q].body = body
      /\ claim'[q].print = claim[q].print /\ claim'[q].window = claim[q].window
  BY <1>1 DEF Complete, TypeOK, RecordsOf
<1>3. claim'[q] \in RecordsOf
  BY <1>1, <1>2 DEF RecordsOf
<1>4. claim' \in [Requests -> Maybe(RecordsOf)] /\ \A p \in Requests \ {q} : claim'[p] = claim[p]
  BY <1>3 DEF Complete, TypeOK, Maybe
<1> QED
  BY <1>2, <1>3, <1>4, NoneAssumption

----------------------------------------------------------------------------
(* Types. *)

(* The bodies the layers send. *)
LEMMA BodyTypes ==
    /\ None \in Bodies /\ Omitted \in Bodies /\ Data \in Bodies /\ Nothing \in Bodies
    /\ \A r \in Maybe(RowsOf) : r \in Bodies
  BY DEF Bodies, Maybe

(* The responses the layers send. *)
LEMMA ResponseTypes ==
    /\ \A body \in Bodies : Response(200, body) \in Responses
    /\ \A code \in {400, 409, 422, 500, 503} : Response(code, None) \in Responses
  BY BodyTypes DEF Response, Responses, Codes

(* The row a handler inserts is a row. *)
LEMMA InsertedIs ==
    ASSUME Inv, NEW q \in Requests, Insert(q)
    PROVE  /\ wrote'[q] \in RowsOf /\ wrote'[q] # None
           /\ wrote' \in [Requests -> Maybe(RowsOf)]
           /\ wrote'[q].key = KeyOf(q) /\ wrote'[q].by = q /\ wrote'[q].print = PrintOf(q)
           /\ claim[q] # None => wrote'[q].window = claim[q].window
<1>0. KeyOf(q) \in Keys \cup {NoKey, Read} /\ PrintOf(q) \in Prints
  BY AskType DEF Inv
<1>1. KeyOf(q) \in Keys \cup {NoKey} /\ runs[q] + 1 \in Nat
  BY <1>0 DEF Inv, TypeOK, Insert
<1>2. (IF claim[q] = None THEN 0 ELSE claim[q].window) \in Windows
  BY BoundsAssumption DEF Inv, TypeOK, Maybe, RecordsOf, Windows
<1>3. wrote'[q] = [key |-> KeyOf(q), by |-> q, n |-> runs[q] + 1, print |-> PrintOf(q),
                   window |-> IF claim[q] = None THEN 0 ELSE claim[q].window]
  BY DEF Inv, TypeOK, Insert
<1>4. wrote'[q] \in RowsOf
  BY <1>0, <1>1, <1>2, <1>3 DEF RowsOf
<1>5. wrote' \in [Requests -> Maybe(RowsOf)]
  BY <1>4 DEF Inv, TypeOK, Insert, Maybe
<1> QED
  BY <1>3, <1>4, <1>5, NoneAssumption

(* A new claim is a record without a response. *)
LEMMA ClaimedIs ==
    ASSUME Inv, NEW q \in Requests, Claim(q)
    PROVE  /\ claim'[q] # None /\ claim'[q].status = 0 /\ claim'[q].print = PrintOf(q)
           /\ claim'[q].window = window[KeyOf(q)]
<1>0. PrintOf(q) \in Prints
  BY AskType DEF Inv
<1>1. window[KeyOf(q)] \in Windows
  BY DEF Inv, TypeOK, Claim, Keyed
<1>2. claim'[q] = [print |-> PrintOf(q), status |-> 0, body |-> None, window |-> window[KeyOf(q)]]
  BY DEF Inv, TypeOK, Claim
<1>3. claim'[q] \in RecordsOf
  BY <1>0, <1>1, <1>2, BodyTypes DEF RecordsOf
<1> QED
  BY <1>2, <1>3, NoneAssumption

(* A record that answers has the status 200. *)
LEMMA RepliedIs ==
    ASSUME Inv, NEW q \in Requests, Keyed(q), ~Claimable(q)
    PROVE  /\ record[KeyOf(q)] # None /\ record[KeyOf(q)].status = 200
           /\ record[KeyOf(q)].body \in Bodies
  BY DEF Inv, TypeOK, Keyed, Claimable, Maybe, RecordsOf

TypeScopes ==
    /\ pc \in [Requests -> {"idle", "claim", "handler", "respond", "hooks", "done"}]
    /\ tx \in [Requests -> {"none", "open", "aborted", "failed", "ended"}]
    /\ began \in [Requests -> Windows] /\ runs \in [Requests -> Nat]
    /\ wrote \in [Requests -> Maybe(RowsOf)] /\ claim \in [Requests -> Maybe(RecordsOf)]
TypeResponses ==
    /\ out \in [Requests -> Maybe(Responses)] /\ wire \in [Requests -> Maybe(Responses)]
    /\ answer \in [Requests -> Maybe(Responses)]
TypeDatabase ==
    /\ lock \in [Keys -> Requests \cup {None, "limbo"}] /\ record \in [Keys -> Maybe(RecordsOf)]
    /\ rows \subseteq RowsOf /\ limbo \subseteq Orphans /\ window \in [Keys -> Windows]
TypeHooks == announced \subseteq RowsOf /\ lost \subseteq RowsOf /\ faults \in 0..MaxFaults

(* The type invariant by its parts, before and after a step. *)
LEMMA TypeParts ==
    /\ TypeOK <=> asks \in Mixes /\ TypeScopes /\ TypeResponses /\ TypeDatabase /\ TypeHooks
    /\ TypeOK' <=> asks' \in Mixes /\ TypeScopes' /\ TypeResponses' /\ TypeDatabase' /\ TypeHooks'
  BY DEF TypeOK, TypeScopes, TypeResponses, TypeDatabase, TypeHooks

(* The scopes of the requests keep their types. *)
LEMMA ScopesStep ==
    ASSUME Inv, NEW q \in Requests, Call(q) \/ Serve(q) \/ Receive(q) \/ Over(q) \/ Crash(q)
    PROVE  TypeScopes' /\ TypeResponses'
<1>t. TypeOK
  BY DEF Inv
<1>z. 0 \in Windows
  BY BoundsAssumption DEF Windows
<1>0. TypeScopes /\ TypeResponses /\ 0 \in Windows /\ PrintOf(q) \in Prints
  BY <1>t, <1>z, TypeParts, AskType
<1>w. \A k \in Keys : window[k] \in Windows
  BY TypeParts DEF Inv, TypeDatabase
<1>r. /\ Response(400, None) \in Responses /\ Response(409, None) \in Responses
      /\ Response(422, None) \in Responses /\ Response(500, None) \in Responses
      /\ Response(503, None) \in Responses
  BY ResponseTypes
<1> USE <1>0, <1>r DEF TypeScopes, TypeResponses, At, Respond, Send, Maybe, scopes, responses,
        database, hooks
<1>1. CASE Begin(q)
  BY <1>1, <1>w DEF Begin, Keyed
<1>2. CASE BeginFails(q)
  BY <1>2 DEF BeginFails
<1>3. CASE OpenRead(q)
  BY <1>3 DEF OpenRead
<1>4. CASE ClaimSkipped(q)
  BY <1>4 DEF ClaimSkipped
<1>5. CASE Claim(q)
  BY <1>5, <1>w, BodyTypes DEF Claim, TryLock, Keyed, RecordsOf
<1>6. CASE ClaimInProgress(q)
  BY <1>6 DEF ClaimInProgress
<1>7. CASE Replay(q)
  <2>1. Response(record[KeyOf(q)].status, record[KeyOf(q)].body) \in Responses
    BY <1>7, RepliedIs, ResponseTypes DEF Replay
  <2> QED
    BY <1>7, <2>1 DEF Replay
<1>8. CASE ClaimFails(q)
  BY <1>8 DEF ClaimFails, Abort
<1>9. CASE Insert(q)
  <2>1. wrote' \in [Requests -> Maybe(RowsOf)]
    BY <1>9, InsertedIs
  <2> QED
    BY <1>9, <2>1 DEF Insert
<1>10. CASE StatementFails(q)
  BY <1>10 DEF StatementFails, Abort
<1>11. CASE ReadStatement(q)
  BY <1>11 DEF ReadStatement
<1>12. CASE HandlerErrs(q)
  BY <1>12 DEF HandlerErrs
<1>13. CASE HandlerAnswers(q)
  <2>1. Response(200, Body(q)) \in Responses
    BY ResponseTypes, BodyTypes DEF Body
  <2> QED
    BY <1>13, <2>1 DEF HandlerAnswers
<1>14. CASE Finish(q)
  <2>1. Response(200, wrote[q]) \in Responses /\ wrote[q] \in Bodies
    BY ResponseTypes, BodyTypes
  <2>2. PICK body \in Bodies : Complete(q, body)
    BY <1>14, <2>1, BodyTypes DEF Finish
  <2>3. claim' \in [Requests -> Maybe(RecordsOf)]
    BY <1>t, <2>2, CompletedIs DEF Complete
  <2> QED
    BY <1>14, <2>1, <2>3 DEF Finish
<1>15. CASE FinishFails(q)
  BY <1>15 DEF FinishFails, Abort
<1>16. CASE Panic(q)
  BY <1>16 DEF Panic, RollsBack, EndScope
<1>17. CASE RefuseRead(q) /\ UNCHANGED <<answer, runs, announced>>
  BY <1>17 DEF RefuseRead, RollsBack, EndScope
<1>18. CASE DecideRollback(q) /\ UNCHANGED <<answer, runs, announced>>
  BY <1>18 DEF DecideRollback, RollsBack, EndScope
<1>19. CASE DecideCommit(q) /\ UNCHANGED <<answer, runs, announced>>
  BY <1>19 DEF DecideCommit, Commits, EndScope
<1>20. CASE CommitFails(q) /\ UNCHANGED <<answer, runs, announced>>
  BY <1>20 DEF CommitFails, RollsBack, EndScope
<1>21. CASE CommitUnknown(q) /\ UNCHANGED <<answer, runs, announced>>
  BY <1>21 DEF CommitUnknown, ToLimbo, EndScope
<1>22. CASE RunHooks(q)
  BY <1>22 DEF RunHooks
<1>23. CASE Receive(q)
  BY <1>23 DEF Receive
<1>24. CASE Over(q)
  BY <1>24 DEF Over
<1>25. CASE Crash(q)
  BY <1>25 DEF Crash, ToLimbo, Forget
<1> QED
  BY <1>1, <1>2, <1>3, <1>4, <1>5, <1>6, <1>7, <1>8, <1>9, <1>10, <1>11, <1>12,
     <1>13, <1>14, <1>15, <1>16, <1>17, <1>18, <1>19, <1>20, <1>21, <1>22, <1>23,
     <1>24, <1>25
     DEF Call, Serve, ClaimStep, Handler, Decide

----------------------------------------------------------------------------
(* What a step of one request does to the database and to the others. *)

(* Nothing of another request changes. *)
Frame(q) ==
    \A p \in Requests \ {q} :
        /\ pc'[p] = pc[p] /\ tx'[p] = tx[p] /\ wrote'[p] = wrote[p] /\ claim'[p] = claim[p]
        /\ out'[p] = out[p] /\ wire'[p] = wire[p] /\ answer'[p] = answer[p] /\ began'[p] = began[p]

(* The request takes the free lock of its key. *)
Takes(q) ==
    /\ Keyed(q) /\ lock[KeyOf(q)] = None /\ lock' = [lock EXCEPT ![KeyOf(q)] = q]
    /\ UNCHANGED <<record, rows, limbo, window>>

(* It leaves the database as it was, takes its lock, rolls back, commits    *)
(* what it was about to commit, or leaves its transaction to the server.    *)
Effect(q) ==
    \/ UNCHANGED database /\ (tx[q] = "open" => tx'[q] = "open")
    \/ Takes(q) /\ tx'[q] = "open"
    \/ RollsBack(q)
    \/ Commits(q) /\ Committing(q)
    \/ /\ tx[q] = "open"
       /\ \/ ToLimbo(q, FALSE)
          \/ ToLimbo(q, TRUE) /\ Committing(q) /\ lost' = lost \cup ({wrote[q]} \ {None})

(* Every step of a request is of one of these kinds, and none forgets a     *)
(* lost row.                                                                *)
LEMMA Effects ==
    ASSUME Inv, NEW q \in Requests, Call(q) \/ Serve(q) \/ Receive(q) \/ Over(q) \/ Crash(q)
    PROVE  Frame(q) /\ Effect(q) /\ lost \subseteq lost'
<1>t. TypeScopes /\ TypeResponses /\ InPlace(q)
  BY TypeParts DEF Inv, RequestInv
<1> USE <1>t DEF TypeScopes, TypeResponses, At, Respond, Send, scopes, responses, database, hooks, Frame
<1>1. CASE Begin(q)
  <2>1. Frame(q) /\ lost \subseteq lost'
    BY <1>1 DEF Begin
  <2>2. Effect(q)
    BY <1>1 DEF Begin, InPlace, Effect
  <2> QED
    BY <2>1, <2>2
<1>2. CASE BeginFails(q)
  <2>1. Frame(q) /\ lost \subseteq lost'
    BY <1>2 DEF BeginFails
  <2>2. Effect(q)
    BY <1>2 DEF BeginFails, InPlace, Effect
  <2> QED
    BY <2>1, <2>2
<1>3. CASE OpenRead(q)
  <2>1. Frame(q) /\ lost \subseteq lost'
    BY <1>3 DEF OpenRead
  <2>2. Effect(q)
    BY <1>3 DEF OpenRead, InPlace, Effect
  <2> QED
    BY <2>1, <2>2
<1>4. CASE ClaimSkipped(q)
  <2>1. Frame(q) /\ lost \subseteq lost'
    BY <1>4 DEF ClaimSkipped
  <2>2. Effect(q)
    BY <1>4 DEF ClaimSkipped, InPlace, Effect
  <2> QED
    BY <2>1, <2>2
<1>5. CASE Claim(q)
  <2>1. Frame(q) /\ lost \subseteq lost'
    BY <1>5 DEF Claim
  <2>2. Effect(q)
    BY <1>5 DEF Claim, TryLock, Takes, InPlace, Effect
  <2> QED
    BY <2>1, <2>2
<1>6. CASE ClaimInProgress(q)
  <2>1. Frame(q) /\ lost \subseteq lost'
    BY <1>6 DEF ClaimInProgress
  <2>2. Effect(q)
    BY <1>6 DEF ClaimInProgress, InPlace, Effect
  <2> QED
    BY <2>1, <2>2
<1>7. CASE Replay(q)
  <2>1. Frame(q) /\ lost \subseteq lost'
    BY <1>7 DEF Replay
  <2>2. Effect(q)
    BY <1>7 DEF Replay, TryLock, Takes, InPlace, Effect
  <2> QED
    BY <2>1, <2>2
<1>8. CASE ClaimFails(q)
  <2>1. Frame(q) /\ lost \subseteq lost'
    BY <1>8 DEF ClaimFails, Abort
  <2>2. Effect(q)
    BY <1>8 DEF ClaimFails, Abort, RollsBack, InPlace, Effect
  <2> QED
    BY <2>1, <2>2
<1>9. CASE Insert(q)
  <2>1. Frame(q) /\ lost \subseteq lost'
    BY <1>9 DEF Insert
  <2>2. Effect(q)
    BY <1>9 DEF Insert, InPlace, Effect
  <2> QED
    BY <2>1, <2>2
<1>10. CASE StatementFails(q)
  <2>1. Frame(q) /\ lost \subseteq lost'
    BY <1>10 DEF StatementFails, Abort
  <2>2. Effect(q)
    BY <1>10 DEF StatementFails, Abort, RollsBack, InPlace, Effect
  <2> QED
    BY <2>1, <2>2
<1>11. CASE ReadStatement(q)
  <2>1. Frame(q) /\ lost \subseteq lost'
    BY <1>11 DEF ReadStatement
  <2>2. Effect(q)
    BY <1>11 DEF ReadStatement, InPlace, Effect
  <2> QED
    BY <2>1, <2>2
<1>12. CASE HandlerErrs(q)
  <2>1. Frame(q) /\ lost \subseteq lost'
    BY <1>12 DEF HandlerErrs
  <2>2. Effect(q)
    BY <1>12 DEF HandlerErrs, InPlace, Effect
  <2> QED
    BY <2>1, <2>2
<1>13. CASE HandlerAnswers(q)
  <2>1. Frame(q) /\ lost \subseteq lost'
    BY <1>13 DEF HandlerAnswers
  <2>2. Effect(q)
    BY <1>13 DEF HandlerAnswers, InPlace, Effect
  <2> QED
    BY <2>1, <2>2
<1>14. CASE Finish(q)
  <2>1. Frame(q) /\ lost \subseteq lost'
    BY <1>14 DEF Finish, Complete
  <2>2. Effect(q)
    BY <1>14 DEF Finish, Complete, InPlace, Effect
  <2> QED
    BY <2>1, <2>2
<1>15. CASE FinishFails(q)
  <2>1. Frame(q) /\ lost \subseteq lost'
    BY <1>15 DEF FinishFails, Abort
  <2>2. Effect(q)
    BY <1>15 DEF FinishFails, Abort, RollsBack, InPlace, Effect
  <2> QED
    BY <2>1, <2>2
<1>16. CASE Panic(q)
  <2>1. Frame(q) /\ lost \subseteq lost'
    BY <1>16 DEF Panic, EndScope
  <2>2. Effect(q)
    BY <1>16 DEF Panic, EndScope, InPlace, Effect
  <2> QED
    BY <2>1, <2>2
<1>17. CASE RefuseRead(q) /\ UNCHANGED <<answer, runs, hooks>>
  <2>1. Frame(q) /\ lost \subseteq lost'
    BY <1>17 DEF RefuseRead, EndScope
  <2>2. Effect(q)
    BY <1>17 DEF RefuseRead, EndScope, InPlace, Effect
  <2> QED
    BY <2>1, <2>2
<1>18. CASE DecideRollback(q) /\ UNCHANGED <<answer, runs, hooks>>
  <2>1. Frame(q) /\ lost \subseteq lost'
    BY <1>18 DEF DecideRollback, EndScope
  <2>2. Effect(q)
    BY <1>18 DEF DecideRollback, EndScope, InPlace, Effect
  <2> QED
    BY <2>1, <2>2
<1>19. CASE DecideCommit(q) /\ UNCHANGED <<answer, runs, hooks>>
  <2>1. Frame(q) /\ lost \subseteq lost'
    BY <1>19 DEF DecideCommit, EndScope
  <2>2. Effect(q)
    BY <1>19 DEF DecideCommit, EndScope, Committing, InPlace, Effect
  <2> QED
    BY <2>1, <2>2
<1>20. CASE CommitFails(q) /\ UNCHANGED <<answer, runs, hooks>>
  <2>1. Frame(q) /\ lost \subseteq lost'
    BY <1>20 DEF CommitFails, EndScope
  <2>2. Effect(q)
    BY <1>20 DEF CommitFails, EndScope, InPlace, Effect
  <2> QED
    BY <2>1, <2>2
<1>21. CASE CommitUnknown(q) /\ UNCHANGED <<answer, runs, announced>>
  <2>1. Frame(q) /\ lost \subseteq lost'
    BY <1>21 DEF CommitUnknown, EndScope
  <2>2. Effect(q)
    BY <1>21 DEF CommitUnknown, EndScope, Committing, InPlace, Effect
  <2> QED
    BY <2>1, <2>2
<1>22. CASE RunHooks(q)
  <2>1. Frame(q) /\ lost \subseteq lost'
    BY <1>22 DEF RunHooks
  <2>2. Effect(q)
    BY <1>22 DEF RunHooks, InPlace, Effect
  <2> QED
    BY <2>1, <2>2
<1>23. CASE Receive(q)
  <2>1. Frame(q) /\ lost \subseteq lost'
    BY <1>23 DEF Receive
  <2>2. Effect(q)
    BY <1>23 DEF Receive, InPlace, Effect
  <2> QED
    BY <2>1, <2>2
<1>24. CASE Over(q)
  <2>1. Frame(q) /\ lost \subseteq lost'
    BY <1>24 DEF Over
  <2>2. Effect(q)
    BY <1>24 DEF Over, InPlace, Effect
  <2> QED
    BY <2>1, <2>2
<1>25. CASE Crash(q)
  <2>1. Frame(q) /\ lost \subseteq lost'
    BY <1>25 DEF Crash, Forget
  <2>2. Effect(q)
    <3> DEFINE committing == pc[q] = "respond" /\ tx[q] = "open" /\ out[q].code < 400
    <3>1. tx[q] = "open" => ToLimbo(q, committing)
      BY <1>25 DEF Crash
    <3>2. committing => lost' = lost \cup ({wrote[q]} \ {None})
      BY <1>25 DEF Crash
    <3>3. tx[q] # "open" => UNCHANGED database
      BY <1>25 DEF Crash
    <3>4. committing \in BOOLEAN /\ (committing => Committing(q))
      BY DEF Committing
    <3> HIDE DEF committing
    <3>5. committing = TRUE \/ committing = FALSE
      BY <3>4
    <3> QED
      BY <3>1, <3>2, <3>3, <3>4, <3>5 DEF Effect
  <2> QED
    BY <2>1, <2>2
<1> QED
  BY <1>1, <1>2, <1>3, <1>4, <1>5, <1>6, <1>7, <1>8, <1>9, <1>10, <1>11, <1>12,
     <1>13, <1>14, <1>15, <1>16, <1>17, <1>18, <1>19, <1>20, <1>21, <1>22, <1>23,
     <1>24, <1>25
     DEF Call, Serve, ClaimStep, Handler, Decide, hooks

----------------------------------------------------------------------------
(* The database. *)

(* What may be installed by a commit: a row with a completed record for a   *)
(* key nobody answers for, a row without a key, or nothing.                 *)
Installable(key, row, rec) ==
    /\ row \in Maybe(RowsOf) /\ rec \in Maybe(RecordsOf)
    /\ rec # None => /\ key \in Keys /\ row # None /\ rec.status = 200 /\ rec.body \in {row, Omitted}
                     /\ rec.print = row.print /\ rec.window = row.window
                     /\ rec.window = window[key] /\ Unanswered(key)
    /\ row # None => row.key = key /\ (key \in Keys => rec # None)

(* A commit of what may be installed keeps one create per key and window,   *)
(* every record with its row, and every row of a standing window with its   *)
(* record.                                                                  *)
LEMMA InstallSafe ==
    ASSUME Inv, NEW key, NEW row, NEW rec, Installable(key, row, rec),
           rows' = rows \cup ({row} \ {None}), window' = window,
           record' = [k \in Keys |-> IF k = key /\ rec # None THEN rec ELSE record[k]]
    PROVE  /\ rows' \subseteq RowsOf /\ record' \in [Keys -> Maybe(RecordsOf)]
           /\ RowsInWindow' /\ OneCreatePerKey' /\ RecordWithRow'
<1>t. /\ rows \subseteq RowsOf /\ record \in [Keys -> Maybe(RecordsOf)] /\ window \in [Keys -> Windows]
      /\ RowsInWindow /\ OneCreatePerKey /\ RecordWithRow
      /\ \A r \in RowsOf : r.key \in Keys \cup {NoKey} /\ r.window \in Windows
  BY DEF Inv, TypeOK, RowsOf
<1>w. Windows \subseteq Nat
  BY BoundsAssumption DEF Windows
<1>1. rows' \subseteq RowsOf
  BY <1>t DEF Installable, Maybe
<1>2. record' \in [Keys -> Maybe(RecordsOf)]
  BY <1>t DEF Installable
<1>3. ASSUME NEW s \in rows, row # None, s.key = row.key, row.key \in Keys
      PROVE  s.window # window[row.key] /\ s.window # row.window
  <2>1. rec # None /\ row.key = key /\ Unanswered(key) /\ row.window = window[key]
    BY <1>3 DEF Installable
  <2>2. record[key] # None => record[key].window < window[key] /\ record[key].window \in Nat /\ window[key] \in Nat
    BY <1>t, <1>w, <1>3, <2>1 DEF Unanswered, Maybe, RecordsOf
  <2>3. s.window # window[key]
    BY <1>t, <1>3, <2>1, <2>2, RequestAssumption DEF RecordWithRow
  <2> QED
    BY <2>1, <2>3
<1>4. RowsInWindow'
  <2> SUFFICES ASSUME NEW r \in rows', r.key \in Keys PROVE r.window <= window[r.key]
    BY DEF RowsInWindow
  <2>1. CASE r \in rows
    BY <1>t, <2>1 DEF RowsInWindow
  <2>2. CASE r = row /\ row # None
    <3>1. r.window = window[r.key]
      BY <2>2 DEF Installable
    <3>2. window[r.key] \in Nat
      BY <1>t, <1>w
    <3> QED
      BY <3>1, <3>2
  <2> QED
    BY <2>1, <2>2
<1>5. OneCreatePerKey'
  <2> SUFFICES ASSUME NEW r \in rows', NEW s \in rows', r.key = s.key, r.key # NoKey, r.window = s.window
               PROVE  r = s
    BY DEF OneCreatePerKey
  <2>1. r.key \in Keys
    BY <1>1, <1>t
  <2>2. CASE r \in rows /\ s \in rows
    BY <1>t, <2>2 DEF OneCreatePerKey
  <2>3. CASE r = row /\ row # None /\ s \in rows
    BY <1>3, <2>1, <2>3
  <2>4. CASE s = row /\ row # None /\ r \in rows
    BY <1>3, <2>1, <2>4
  <2> QED
    BY <2>2, <2>3, <2>4
<1>6. ASSUME NEW k \in Keys, record'[k] # None
      PROVE  /\ record'[k].status = 200
             /\ \E s \in rows' : /\ s.key = k /\ s.window = record'[k].window /\ s.print = record'[k].print
                                 /\ record'[k].body \in {s, Omitted}
  <2>1. CASE k = key /\ rec # None
    <3>1. record'[k] = rec /\ row \in rows' /\ row.key = k
      BY <2>1 DEF Installable
    <3> QED
      BY <2>1, <3>1 DEF Installable
  <2>2. CASE ~(k = key /\ rec # None)
    <3>1. record'[k] = record[k] /\ rows \subseteq rows'
      BY <2>2
    <3> QED
      BY <1>6, <1>t, <3>1 DEF RecordWithRow
  <2> QED
    BY <2>1, <2>2
<1>7. ASSUME NEW s \in rows', s.key # NoKey, s.window = window[s.key]
      PROVE  record'[s.key] # None /\ record'[s.key].window = s.window
  <2>0. s.key \in Keys
    BY <1>1, <1>7, <1>t
  <2>1. CASE s = row /\ row # None
    BY <2>0, <2>1 DEF Installable
  <2>2. CASE s \in rows /\ ~(s.key = key /\ rec # None)
    BY <1>7, <1>t, <2>0, <2>2 DEF RecordWithRow
  <2>3. CASE s \in rows /\ s.key = key /\ rec # None
    BY <1>3, <1>7, <2>0, <2>3 DEF Installable
  <2> QED
    BY <2>1, <2>2, <2>3
<1>8. RecordWithRow'
  BY <1>6, <1>7 DEF RecordWithRow
<1> QED
  BY <1>1, <1>2, <1>4, <1>5, <1>8

(* What a request commits may be installed. *)
LEMMA CommitInstalls ==
    ASSUME Inv, NEW q \in Requests, Committing(q)
    PROVE  Installable(KeyOf(q), wrote[q], claim[q])
<1>1. /\ OwnWrites(q) /\ ClaimHolds(q) /\ Completes(q)
      /\ wrote[q] \in Maybe(RowsOf) /\ claim[q] \in Maybe(RecordsOf)
  BY DEF Inv, RequestInv, TypeOK
<1> QED
  BY <1>1 DEF OwnWrites, ClaimHolds, Completes, Committing, Installable, Keyed

(* What the server may commit of a lost client may be installed. *)
LEMMA OrphanInstalls ==
    ASSUME Inv, NEW t \in limbo, t.mayCommit
    PROVE  Installable(t.key, t.row, t.rec)
<1>1. OrphanInv(t) /\ t \in Orphans
  BY DEF Inv, TypeOK
<1> QED
  BY <1>1 DEF OrphanInv, Orphans, Installable

(* A step of a request touches only the locks it holds or takes, and only   *)
(* the records whose lock it holds; no window ends, and no row goes.        *)
LEMMA EffectIsOwn ==
    ASSUME Inv, NEW q \in Requests, Effect(q)
    PROVE  /\ lock' \in [Keys -> Requests \cup {None, "limbo"}]
           /\ \A k \in Keys : lock[k] \notin {q, None} => lock'[k] = lock[k]
           /\ \A k \in Keys : lock'[k] \notin {q, None, "limbo"} => lock'[k] = lock[k]
           /\ \A k \in Keys : record'[k] # record[k] => lock[k] = q
           /\ \A k \in Keys : lock'[k] = q => k = KeyOf(q) /\ tx'[q] = "open"
           /\ window' = window /\ rows \subseteq rows'
<1>t. /\ lock \in [Keys -> Requests \cup {None, "limbo"}] /\ record \in [Keys -> Maybe(RecordsOf)]
      /\ \A k \in Keys : lock[k] = q => k = KeyOf(q) /\ tx[q] = "open"
      /\ OwnWrites(q) /\ ClaimHolds(q)
  BY DEF Inv, TypeOK, LockIsOwn, RequestInv
<1> USE <1>t, NoneAssumption
<1>1. CASE UNCHANGED database /\ (tx[q] = "open" => tx'[q] = "open")
  BY <1>1 DEF database
<1>2. CASE Takes(q) /\ tx'[q] = "open"
  BY <1>2 DEF Takes, Keyed
<1>3. CASE RollsBack(q)
  BY <1>3 DEF RollsBack
<1>4. CASE Commits(q) /\ Committing(q)
  <2>1. claim[q] # None => lock[KeyOf(q)] = q
    BY <1>4 DEF OwnWrites, ClaimHolds, Committing
  <2> QED
    BY <1>4, <2>1 DEF Commits
<1>5. ASSUME NEW mayCommit, ToLimbo(q, mayCommit)
      PROVE  /\ lock' \in [Keys -> Requests \cup {None, "limbo"}]
             /\ \A k \in Keys : lock[k] # q => lock'[k] = lock[k]
             /\ \A k \in Keys : lock[k] = q => lock'[k] = "limbo"
             /\ record' = record /\ window' = window /\ rows' = rows
  BY <1>5 DEF ToLimbo
<1> QED
  BY <1>1, <1>2, <1>3, <1>4, <1>5 DEF Effect

(* The locks stay with their owners, and the claims of the other requests   *)
(* stand.                                                                   *)
LEMMA LocksStep ==
    ASSUME Inv, NEW q \in Requests, Frame(q), Effect(q), UNCHANGED asks
    PROVE  /\ \A k \in Keys : LockIsOwn(k)'
           /\ \A p \in Requests \ {q} : ClaimHolds(p)'
<1>e. /\ \A k \in Keys : lock[k] \notin {q, None} => lock'[k] = lock[k]
      /\ \A k \in Keys : lock'[k] \notin {q, None, "limbo"} => lock'[k] = lock[k]
      /\ \A k \in Keys : record'[k] # record[k] => lock[k] = q
      /\ \A k \in Keys : lock'[k] = q => k = KeyOf(q) /\ tx'[q] = "open"
      /\ window' = window
  BY EffectIsOwn
<1>1. ASSUME NEW k \in Keys, NEW p \in Requests, lock'[k] = p
      PROVE  k = KeyOf(p) /\ tx'[p] = "open"
  BY <1>1, <1>e, NoneAssumption DEF Inv, LockIsOwn, Frame
<1>2. ASSUME NEW p \in Requests \ {q}, claim'[p] # None, tx'[p] = "open"
      PROVE  /\ lock'[KeyOf(p)] = p /\ claim'[p].window = window'[KeyOf(p)]
             /\ record'[KeyOf(p)] # None => record'[KeyOf(p)].window < window'[KeyOf(p)]
  <2>1. claim[p] # None /\ tx[p] = "open" /\ claim'[p] = claim[p]
    BY <1>2 DEF Frame
  <2>2. KeyOf(p) \in Keys /\ lock[KeyOf(p)] = p /\ claim[p].window = window[KeyOf(p)] /\ Unanswered(KeyOf(p))
    BY <2>1 DEF Inv, RequestInv, OwnWrites, ClaimHolds, Keyed
  <2>3. lock'[KeyOf(p)] = p /\ record'[KeyOf(p)] = record[KeyOf(p)]
    BY <1>e, <2>2, NoneAssumption
  <2> QED
    BY <1>e, <2>1, <2>2, <2>3 DEF Unanswered
<1> QED
  BY <1>1, <1>2 DEF LockIsOwn, ClaimHolds, Unanswered, KeyOf

(* The transactions the server still holds keep what they hold, the one a   *)
(* request leaves to it included.                                           *)
LEMMA OrphansStep ==
    ASSUME Inv, NEW q \in Requests, Frame(q), Effect(q), UNCHANGED asks, lost \subseteq lost'
    PROVE  limbo' \subseteq Orphans /\ (\A t \in limbo' : OrphanInv(t)') /\ OrphansApart'
<1>e. /\ \A k \in Keys : lock[k] \notin {q, None} => lock'[k] = lock[k]
      /\ \A k \in Keys : record'[k] # record[k] => lock[k] = q
      /\ window' = window
  BY EffectIsOwn
<1>t. /\ limbo \subseteq Orphans /\ OrphansApart /\ lock \in [Keys -> Requests \cup {None, "limbo"}]
      /\ wrote[q] \in Maybe(RowsOf) /\ claim[q] \in Maybe(RecordsOf)
  BY DEF Inv, TypeOK
<1>1. ASSUME NEW t \in limbo PROVE OrphanInv(t)'
  <2>1. OrphanInv(t) /\ t.held \subseteq Keys
    BY <1>t DEF Inv, Orphans
  <2>2. \A k \in t.held : lock'[k] = "limbo" /\ record'[k] = record[k]
    BY <1>e, <2>1, NoneAssumption DEF OrphanInv
  <2> QED
    BY <1>e, <2>1, <2>2 DEF OrphanInv, Unanswered
<1>2. CASE limbo' = limbo
  BY <1>1, <1>2, <1>t DEF OrphansApart
<1>3. ASSUME NEW mayCommit \in BOOLEAN, ToLimbo(q, mayCommit), tx[q] = "open",
             mayCommit => Committing(q) /\ lost' = lost \cup ({wrote[q]} \ {None})
      PROVE  limbo' \subseteq Orphans /\ (\A t \in limbo' : OrphanInv(t)') /\ OrphansApart'
  <2> DEFINE held == {k \in Keys : lock[k] = q}
  <2>0. PICK new : new =
                    [key |-> KeyOf(q), held |-> held, row |-> IF mayCommit THEN wrote[q] ELSE None,
                     rec |-> claim[q], mayCommit |-> mayCommit]
    OBVIOUS
  <2>1. limbo' = limbo \cup {new} /\ (\A k \in held : lock'[k] = "limbo") /\ record' = record
    BY <1>3, <2>0 DEF ToLimbo
  <2>2. /\ new.key = KeyOf(q) /\ new.held = held /\ new.row = (IF mayCommit THEN wrote[q] ELSE None)
        /\ new.rec = claim[q] /\ new.mayCommit = mayCommit
    BY <2>0
  <2>3. new \in Orphans
    <3>1. KeyOf(q) \in Keys \cup {NoKey, Read} /\ held \subseteq Keys
      BY AskType DEF Inv
    <3>2. (IF mayCommit THEN wrote[q] ELSE None) \in Maybe(RowsOf)
      BY <1>t DEF Maybe
    <3> QED
      BY <1>t, <2>0, <3>1, <3>2 DEF Orphans
  <2>4. \A k \in held : k = KeyOf(q)
    BY DEF Inv, LockIsOwn
  <2>5. \A t \in limbo : t.held \cap held = {}
    BY <1>t, NoneAssumption DEF Inv, OrphanInv
  <2> HIDE DEF held
  <2>6. OrphanInv(new)'
    <3>1. /\ OwnWrites(q) /\ ClaimHolds(q)
      BY DEF Inv, RequestInv
    <3>2. claim[q] # None => KeyOf(q) \in held
      BY <1>3, <3>1 DEF OwnWrites, ClaimHolds, Keyed, held
    <3>3. mayCommit => Installable(KeyOf(q), wrote[q], claim[q])
      BY <1>3, CommitInstalls
    <3>4. /\ held \subseteq {KeyOf(q)} /\ \A k \in held : lock'[k] = "limbo"
      BY <2>1, <2>4
    <3>5. claim[q] # None => /\ KeyOf(q) \in held /\ claim[q].window = window'[KeyOf(q)]
                             /\ record'[KeyOf(q)] # None => record'[KeyOf(q)].window < window'[KeyOf(q)]
      BY <1>3, <1>e, <2>1, <3>1, <3>2 DEF ClaimHolds, Unanswered
    <3>6. claim[q] # None /\ mayCommit =>
            /\ wrote[q] # None /\ claim[q].status = 200 /\ claim[q].body \in {wrote[q], Omitted}
            /\ claim[q].print = wrote[q].print /\ claim[q].window = wrote[q].window
      BY <3>3 DEF Installable
    <3>7. wrote[q] # None /\ mayCommit =>
            /\ wrote[q] \in lost' /\ wrote[q].key = KeyOf(q)
            /\ asks'[wrote[q].by].key = KeyOf(q) /\ asks'[wrote[q].by].print = wrote[q].print
            /\ KeyOf(q) \in Keys => claim[q] # None
      BY <1>3, <3>1, <3>3 DEF OwnWrites, Installable, KeyOf, PrintOf
    <3> QED
      BY <2>2, <3>4, <3>5, <3>6, <3>7 DEF OrphanInv, Unanswered
  <2>7. OrphansApart'
    BY <1>t, <2>1, <2>2, <2>5 DEF OrphansApart
  <2> QED
    BY <1>1, <1>t, <2>1, <2>3, <2>6, <2>7
<1>4. limbo' # limbo => tx[q] = "open" /\
        \/ ToLimbo(q, FALSE)
        \/ ToLimbo(q, TRUE) /\ Committing(q) /\ lost' = lost \cup ({wrote[q]} \ {None})
  BY DEF Effect, database, Takes, RollsBack, Commits
<1> QED
  BY <1>2, <1>3, <1>4

(* The rows and the records keep their promises. *)
LEMMA RowsStep ==
    ASSUME Inv, NEW q \in Requests, Effect(q)
    PROVE  /\ rows' \subseteq RowsOf /\ record' \in [Keys -> Maybe(RecordsOf)]
           /\ RowsInWindow' /\ OneCreatePerKey' /\ RecordWithRow'
<1>1. CASE Commits(q) /\ Committing(q)
  BY <1>1, CommitInstalls, InstallSafe DEF Commits
<1>2. CASE rows' = rows /\ record' = record /\ window' = window
  BY <1>2 DEF Inv, TypeOK, RowsInWindow, OneCreatePerKey, RecordWithRow
<1>3. ASSUME NEW mayCommit, ToLimbo(q, mayCommit)
      PROVE  rows' = rows /\ record' = record /\ window' = window
  BY <1>3 DEF ToLimbo
<1> QED
  BY <1>1, <1>2, <1>3 DEF Effect, Takes, RollsBack, database

----------------------------------------------------------------------------
(* The requests. *)

(* What was true of an answer stays true: creates are not taken back. *)
LEMMA TrueStays ==
    ASSUME NEW q, NEW resp, rows \subseteq rows', UNCHANGED asks, Abstract!True(q, resp)
    PROVE  Abstract!True(q, resp)'
  BY DEF Abstract!True, Abstract!Mine, Abstract!Others

(* A request that does not move keeps its part of the invariant while the   *)
(* others do.                                                               *)
LEMMA OthersKeep ==
    ASSUME Inv, NEW p \in Requests, UNCHANGED asks, rows \subseteq rows',
           ClaimHolds(p)', BeganInWindow(p)',
           pc'[p] = pc[p], tx'[p] = tx[p], wrote'[p] = wrote[p], claim'[p] = claim[p],
           out'[p] = out[p], wire'[p] = wire[p], answer'[p] = answer[p]
    PROVE  RequestInv(p)'
<1>0. RequestInv(p)
  BY DEF Inv
<1>1. InPlace(p)' /\ OneResponse(p)' /\ OwnWrites(p)'
  BY <1>0 DEF RequestInv, InPlace, OneResponse, OwnWrites, Keyed, KeyOf, PrintOf
<1>2. Completes(p)'
  BY <1>0
     DEF RequestInv, Completes, Committing, Keyed, KeyOf, Abstract!True,
         Abstract!Mine, Abstract!Others
<1>3. Refuses(p)' /\ WireIsTrue(p)'
  BY <1>0 DEF RequestInv, Refuses, WireIsTrue, Abstract!True, Abstract!Mine, Abstract!Others
<1> QED
  BY <1>1, <1>2, <1>3 DEF RequestInv

(* The requests that do not take the step keep their part. *)
LEMMA OtherRequests ==
    ASSUME Inv, NEW q \in Requests, Frame(q), Effect(q), UNCHANGED asks
    PROVE  \A p \in Requests \ {q} : RequestInv(p)'
<1> SUFFICES ASSUME NEW p \in Requests \ {q} PROVE RequestInv(p)'
  OBVIOUS
<1>1. ClaimHolds(p)' /\ rows \subseteq rows' /\ window' = window
  BY LocksStep, EffectIsOwn
<1>2. BeganInWindow(p)'
  BY <1>1 DEF Inv, RequestInv, BeganInWindow, Frame, Keyed, KeyOf
<1> QED
  BY <1>1, <1>2, OthersKeep DEF Frame

(* The request that takes the step keeps its part. *)
LEMMA OwnRequest ==
    ASSUME Inv, NEW q \in Requests, Call(q) \/ Serve(q) \/ Receive(q) \/ Over(q) \/ Crash(q), UNCHANGED asks
    PROVE  RequestInv(q)'
<1>t. /\ TypeScopes /\ TypeResponses /\ RequestInv(q)
      /\ KeyOf(q) \in Keys \cup {NoKey, Read} /\ KeyOf(q)' = KeyOf(q) /\ PrintOf(q)' = PrintOf(q)
      /\ (Keyed(q)' <=> Keyed(q)) /\ (KeyOf(q) = Read => ~Keyed(q))
  BY TypeParts, AskType, RequestAssumption DEF Inv, KeyOf, PrintOf, Keyed
<1>k. rows \subseteq rows' /\ window' = window
  BY Effects, EffectIsOwn
<1>w. /\ Keyed(q) => window[KeyOf(q)] \in Nat /\ 0 <= window[KeyOf(q)]
      /\ Keyed(q) /\ record[KeyOf(q)] # None =>
           record[KeyOf(q)].window \in Nat /\ record[KeyOf(q)].status = 200
  BY BoundsAssumption DEF Inv, TypeOK, Windows, Maybe, RecordsOf, RecordWithRow, Keyed
<1>r. /\ Response(400, None) # None /\ Response(400, None).code = 400
      /\ Response(409, None) # None /\ Response(409, None).code = 409
      /\ Response(422, None) # None /\ Response(422, None).code = 422
      /\ Response(500, None) # None /\ Response(500, None).code = 500
      /\ Response(503, None) # None /\ Response(503, None).code = 503
      /\ \A body \in Bodies : /\ Response(200, body) # None /\ Response(200, body).code = 200
                              /\ Response(200, body).body = body
  BY ResponseIs, BodyTypes DEF Codes
<1> USE <1>t, <1>r DEF TypeScopes, TypeResponses, At, Respond, Send, scopes, responses, database, hooks, RequestInv
<1>1. CASE Begin(q)
  <2>1. InPlace(q)' /\ OneResponse(q)'
    BY <1>1 DEF Begin, InPlace, OneResponse
  <2>2. OwnWrites(q)'
    BY <1>1 DEF Begin, InPlace, OwnWrites
  <2>3. BeganInWindow(q)' /\ ClaimHolds(q)'
    BY <1>1, <1>k, <1>w DEF Begin, InPlace, BeganInWindow, ClaimHolds, Unanswered
  <2>4. Completes(q)' /\ Refuses(q)' /\ WireIsTrue(q)'
    BY <1>1, <1>k DEF Begin, InPlace, OneResponse, Completes, Refuses, WireIsTrue, Committing,
         Abstract!True, Abstract!Mine, Abstract!Others
  <2> QED
    BY <2>1, <2>2, <2>3, <2>4
<1>2. CASE BeginFails(q)
  <2>1. InPlace(q)' /\ OneResponse(q)'
    BY <1>2 DEF BeginFails, InPlace, OneResponse
  <2>2. OwnWrites(q)'
    BY <1>2 DEF BeginFails, InPlace, OwnWrites
  <2>3. BeganInWindow(q)' /\ ClaimHolds(q)'
    BY <1>2, <1>k, <1>w DEF BeginFails, InPlace, BeganInWindow, ClaimHolds, Unanswered
  <2>4. Completes(q)' /\ Refuses(q)' /\ WireIsTrue(q)'
    BY <1>2, <1>k DEF BeginFails, InPlace, OneResponse, Completes, Refuses, WireIsTrue, Committing,
         Abstract!True, Abstract!Mine, Abstract!Others
  <2> QED
    BY <2>1, <2>2, <2>3, <2>4
<1>3. CASE OpenRead(q)
  <2>1. InPlace(q)' /\ OneResponse(q)'
    BY <1>3 DEF OpenRead, InPlace, OneResponse
  <2>2. OwnWrites(q)'
    BY <1>3 DEF OpenRead, InPlace, OwnWrites
  <2>3. BeganInWindow(q)' /\ ClaimHolds(q)'
    BY <1>3, <1>k, <1>w DEF OpenRead, InPlace, BeganInWindow, ClaimHolds, Unanswered
  <2>4. Completes(q)' /\ Refuses(q)' /\ WireIsTrue(q)'
    BY <1>3, <1>k DEF OpenRead, InPlace, OneResponse, Completes, Refuses, WireIsTrue, Committing,
         Abstract!True, Abstract!Mine, Abstract!Others
  <2> QED
    BY <2>1, <2>2, <2>3, <2>4
<1>4. CASE ClaimSkipped(q)
  <2>1. InPlace(q)' /\ OneResponse(q)'
    BY <1>4 DEF ClaimSkipped, InPlace, OneResponse
  <2>2. OwnWrites(q)'
    BY <1>4 DEF ClaimSkipped, InPlace, OwnWrites
  <2>3. BeganInWindow(q)' /\ ClaimHolds(q)'
    BY <1>4, <1>k, <1>w DEF ClaimSkipped, InPlace, BeganInWindow, ClaimHolds, Unanswered
  <2>4. Completes(q)' /\ Refuses(q)' /\ WireIsTrue(q)'
    BY <1>4, <1>k
       DEF ClaimSkipped, InPlace, OneResponse, Completes, Refuses, WireIsTrue,
           Committing,
         Abstract!True, Abstract!Mine, Abstract!Others
  <2> QED
    BY <2>1, <2>2, <2>3, <2>4
<1>5. CASE Claim(q)
  <2>0. /\ claim'[q] # None /\ claim'[q].status = 0 /\ claim'[q].print = PrintOf(q)
        /\ claim'[q].window = window[KeyOf(q)]
    BY <1>5, ClaimedIs
  <2>1. InPlace(q)' /\ OneResponse(q)'
    BY <1>5, <2>0 DEF Claim, InPlace, OneResponse
  <2>2. OwnWrites(q)'
    BY <1>5, <2>0 DEF Claim, InPlace, OwnWrites
  <2>3. BeganInWindow(q)' /\ ClaimHolds(q)'
    <3>1. /\ Keyed(q) /\ KeyOf(q) \in Keys /\ lock' = [lock EXCEPT ![KeyOf(q)] = q] /\ record' = record
          /\ began' = began /\ Claimable(q)
      BY <1>5 DEF Claim, TryLock, Keyed
    <3>2. lock'[KeyOf(q)] = q
      BY <3>1 DEF Inv, TypeOK
    <3>3. BeganInWindow(q)'
      BY <1>k, <3>1 DEF BeganInWindow
    <3>4. began[q] \in Nat /\ began[q] <= window[KeyOf(q)]
      BY <3>1, BoundsAssumption DEF BeganInWindow, Windows
    <3>5. record[KeyOf(q)] # None => record[KeyOf(q)].window < window[KeyOf(q)]
      BY <1>w, <3>1, <3>4 DEF Claimable
    <3>6. ClaimHolds(q)'
      BY <1>k, <2>0, <3>1, <3>2, <3>5 DEF ClaimHolds, Unanswered
    <3> QED
      BY <3>3, <3>6
  <2>4. Completes(q)' /\ Refuses(q)' /\ WireIsTrue(q)'
    BY <1>5, <1>k, <2>0 DEF Claim, InPlace, OneResponse, Completes, Refuses, WireIsTrue, Committing,
         Abstract!True, Abstract!Mine, Abstract!Others
  <2> QED
    BY <2>1, <2>2, <2>3, <2>4
<1>6. CASE ClaimInProgress(q)
  <2>1. InPlace(q)' /\ OneResponse(q)'
    BY <1>6 DEF ClaimInProgress, InPlace, OneResponse
  <2>2. OwnWrites(q)'
    BY <1>6 DEF ClaimInProgress, InPlace, OwnWrites
  <2>3. BeganInWindow(q)' /\ ClaimHolds(q)'
    BY <1>6, <1>k, <1>w DEF ClaimInProgress, InPlace, BeganInWindow, ClaimHolds, Unanswered
  <2>4. Completes(q)' /\ Refuses(q)' /\ WireIsTrue(q)'
    BY <1>6, <1>k
       DEF ClaimInProgress, InPlace, OneResponse, Completes, Refuses, WireIsTrue,
           Committing,
         Abstract!True, Abstract!Mine, Abstract!Others
  <2> QED
    BY <2>1, <2>2, <2>3, <2>4
<1>7. CASE Replay(q)
  <2>r. /\ record[KeyOf(q)] # None /\ record[KeyOf(q)].status = 200
        /\ record[KeyOf(q)].body \in Bodies /\ Keyed(q)
    BY <1>7, RepliedIs DEF Replay
  <2>s. \E r \in rows : /\ r.key = KeyOf(q) /\ r.print = record[KeyOf(q)].print
                        /\ record[KeyOf(q)].body \in {r, Omitted}
    BY <2>r DEF Inv, RecordWithRow, Keyed
  <2>0. /\ out'[q] # None
        /\ \/ out'[q].code = 422 /\ record[KeyOf(q)].print # PrintOf(q)
           \/ /\ out'[q].code = 200 /\ out'[q].body = record[KeyOf(q)].body
              /\ record[KeyOf(q)].print = PrintOf(q)
    BY <1>7, <2>r DEF Replay
  <2>1. InPlace(q)' /\ OneResponse(q)'
    BY <1>7, <2>0 DEF Replay, InPlace, OneResponse
  <2>2. OwnWrites(q)'
    BY <1>7, <2>0 DEF Replay, InPlace, OwnWrites
  <2>3. BeganInWindow(q)' /\ ClaimHolds(q)'
    BY <1>7, <1>k, <1>w, <2>0 DEF Replay, InPlace, BeganInWindow, ClaimHolds, Unanswered
  <2>4. Completes(q)' /\ Refuses(q)' /\ WireIsTrue(q)'
    <3>1. KeyOf(q) # Read
      BY <2>r
    <3> QED
      BY <1>7, <1>k, <2>0, <2>r, <2>s, <3>1
         DEF Replay, InPlace, OneResponse, Completes, Refuses, WireIsTrue, Committing,
           Abstract!True, Abstract!Mine, Abstract!Others, KeyOf, PrintOf, Keyed
  <2> QED
    BY <2>1, <2>2, <2>3, <2>4
<1>8. CASE ClaimFails(q)
  <2>1. InPlace(q)' /\ OneResponse(q)'
    BY <1>8 DEF ClaimFails, Abort, InPlace, OneResponse
  <2>2. OwnWrites(q)'
    BY <1>8 DEF ClaimFails, Abort, InPlace, OwnWrites
  <2>3. BeganInWindow(q)' /\ ClaimHolds(q)'
    BY <1>8, <1>k, <1>w DEF ClaimFails, Abort, InPlace, BeganInWindow, ClaimHolds, Unanswered
  <2>4. Completes(q)' /\ Refuses(q)' /\ WireIsTrue(q)'
    BY <1>8, <1>k
       DEF ClaimFails, Abort, InPlace, OneResponse, Completes, Refuses, WireIsTrue,
           Committing,
         Abstract!True, Abstract!Mine, Abstract!Others
  <2> QED
    BY <2>1, <2>2, <2>3, <2>4
<1>9. CASE Insert(q)
  <2>0. /\ wrote'[q] # None /\ wrote'[q].key = KeyOf(q) /\ wrote'[q].by = q
        /\ wrote'[q].print = PrintOf(q) /\ (claim[q] # None => wrote'[q].window = claim[q].window)
    BY <1>9, InsertedIs
  <2>1. InPlace(q)' /\ OneResponse(q)'
    BY <1>9, <2>0 DEF Insert, InPlace, OneResponse
  <2>2. OwnWrites(q)'
    BY <1>9, <2>0 DEF Insert, InPlace, OwnWrites
  <2>3. BeganInWindow(q)' /\ ClaimHolds(q)'
    BY <1>9, <1>k, <1>w, <2>0 DEF Insert, InPlace, BeganInWindow, ClaimHolds, Unanswered
  <2>4. Completes(q)' /\ Refuses(q)' /\ WireIsTrue(q)'
    BY <1>9, <1>k DEF Insert, InPlace, OneResponse, Completes, Refuses, WireIsTrue, Committing,
         Abstract!True, Abstract!Mine, Abstract!Others
  <2> QED
    BY <2>1, <2>2, <2>3, <2>4
<1>10. CASE StatementFails(q)
  <2>1. InPlace(q)' /\ OneResponse(q)'
    BY <1>10 DEF StatementFails, Abort, InPlace, OneResponse
  <2>2. OwnWrites(q)'
    BY <1>10 DEF StatementFails, Abort, InPlace, OwnWrites
  <2>3. BeganInWindow(q)' /\ ClaimHolds(q)'
    BY <1>10, <1>k, <1>w DEF StatementFails, Abort, InPlace, BeganInWindow, ClaimHolds, Unanswered
  <2>4. Completes(q)' /\ Refuses(q)' /\ WireIsTrue(q)'
    BY <1>10, <1>k
       DEF StatementFails, Abort, InPlace, OneResponse, Completes, Refuses,
           WireIsTrue, Committing,
         Abstract!True, Abstract!Mine, Abstract!Others
  <2> QED
    BY <2>1, <2>2, <2>3, <2>4
<1>11. CASE ReadStatement(q)
  <2>1. InPlace(q)' /\ OneResponse(q)'
    BY <1>11 DEF ReadStatement, InPlace, OneResponse
  <2>2. OwnWrites(q)'
    BY <1>11 DEF ReadStatement, InPlace, OwnWrites
  <2>3. BeganInWindow(q)' /\ ClaimHolds(q)'
    BY <1>11, <1>k, <1>w DEF ReadStatement, InPlace, BeganInWindow, ClaimHolds, Unanswered
  <2>4. Completes(q)' /\ Refuses(q)' /\ WireIsTrue(q)'
    BY <1>11, <1>k
       DEF ReadStatement, InPlace, OneResponse, Completes, Refuses, WireIsTrue,
           Committing,
         Abstract!True, Abstract!Mine, Abstract!Others
  <2> QED
    BY <2>1, <2>2, <2>3, <2>4
<1>12. CASE HandlerErrs(q)
  <2>1. InPlace(q)' /\ OneResponse(q)'
    BY <1>12 DEF HandlerErrs, InPlace, OneResponse
  <2>2. OwnWrites(q)'
    BY <1>12 DEF HandlerErrs, InPlace, OwnWrites
  <2>3. BeganInWindow(q)' /\ ClaimHolds(q)'
    BY <1>12, <1>k, <1>w DEF HandlerErrs, InPlace, BeganInWindow, ClaimHolds, Unanswered
  <2>4. Completes(q)' /\ Refuses(q)' /\ WireIsTrue(q)'
    BY <1>12, <1>k
       DEF HandlerErrs, InPlace, OneResponse, Completes, Refuses, WireIsTrue,
           Committing,
         Abstract!True, Abstract!Mine, Abstract!Others
  <2> QED
    BY <2>1, <2>2, <2>3, <2>4
<1>13. CASE HandlerAnswers(q)
  <2>0. Body(q) \in Bodies
    BY BodyTypes DEF Body
  <2>1. InPlace(q)' /\ OneResponse(q)'
    BY <1>13, <2>0 DEF HandlerAnswers, InPlace, OneResponse
  <2>2. OwnWrites(q)'
    BY <1>13, <2>0 DEF HandlerAnswers, InPlace, OwnWrites
  <2>3. BeganInWindow(q)' /\ ClaimHolds(q)'
    BY <1>13, <1>k, <1>w, <2>0 DEF HandlerAnswers, InPlace, BeganInWindow, ClaimHolds, Unanswered
  <2>4. Completes(q)' /\ Refuses(q)' /\ WireIsTrue(q)'
    <3>1. out'[q].code = 200 /\ out'[q].body = Body(q)
      BY <1>13, <2>0 DEF HandlerAnswers
    <3>2. CASE KeyOf(q) = Read
      BY <1>13, <1>k, <3>1, <3>2
         DEF HandlerAnswers, InPlace, OneResponse, Completes, Refuses, WireIsTrue,
             Committing,
           Abstract!True, Abstract!Mine, Abstract!Others, KeyOf, Body, Through
    <3>3. CASE KeyOf(q) # Read
      BY <1>13, <1>k, <3>1, <3>3
         DEF HandlerAnswers, InPlace, OneResponse, Completes, Refuses, WireIsTrue,
             Committing,
           Body, Through
    <3> QED
      BY <3>2, <3>3
  <2> QED
    BY <2>1, <2>2, <2>3, <2>4
<1>14. CASE Finish(q)
  <2>a. wrote[q] \in Bodies
    BY BodyTypes
  <2>b. PICK body \in {wrote[q], Omitted} : Complete(q, body)
    BY <1>14 DEF Finish
  <2>0. /\ claim'[q] # None /\ claim'[q].status = 200 /\ claim'[q].body = body
        /\ claim'[q].print = claim[q].print /\ claim'[q].window = claim[q].window
        /\ body \in {wrote[q], Omitted} /\ wrote[q] \in Bodies /\ tx[q] = "open" /\ claim[q] # None
    <3>1. body \in Bodies /\ claim[q] # None /\ TypeOK
      BY <2>a, <2>b, BodyTypes DEF Complete, Inv
    <3>2. tx[q] = "open"
      BY <2>b DEF Complete
    <3> QED
      BY <2>a, <2>b, <3>1, <3>2, CompletedIs
  <2>1. InPlace(q)' /\ OneResponse(q)'
    BY <1>14, <2>0 DEF Finish, InPlace, OneResponse
  <2>2. OwnWrites(q)'
    BY <1>14, <2>0 DEF Finish, InPlace, OwnWrites
  <2>3. BeganInWindow(q)' /\ ClaimHolds(q)'
    BY <1>14, <1>k, <1>w, <2>0 DEF Finish, InPlace, BeganInWindow, ClaimHolds, Unanswered
  <2>4. Completes(q)' /\ Refuses(q)' /\ WireIsTrue(q)'
    BY <1>14, <1>k, <2>0
       DEF Finish, InPlace, OneResponse, Completes, Refuses, WireIsTrue, Committing,
         Abstract!True, Abstract!Mine, Abstract!Others
  <2> QED
    BY <2>1, <2>2, <2>3, <2>4
<1>15. CASE FinishFails(q)
  <2>1. InPlace(q)' /\ OneResponse(q)'
    BY <1>15 DEF FinishFails, Abort, InPlace, OneResponse
  <2>2. OwnWrites(q)'
    BY <1>15 DEF FinishFails, Abort, InPlace, OwnWrites
  <2>3. BeganInWindow(q)' /\ ClaimHolds(q)'
    BY <1>15, <1>k, <1>w DEF FinishFails, Abort, InPlace, BeganInWindow, ClaimHolds, Unanswered
  <2>4. Completes(q)' /\ Refuses(q)' /\ WireIsTrue(q)'
    BY <1>15, <1>k
       DEF FinishFails, Abort, InPlace, OneResponse, Completes, Refuses, WireIsTrue,
           Committing,
         Abstract!True, Abstract!Mine, Abstract!Others
  <2> QED
    BY <2>1, <2>2, <2>3, <2>4
<1>16. CASE Panic(q)
  <2>1. InPlace(q)' /\ OneResponse(q)'
    BY <1>16 DEF Panic, EndScope, InPlace, OneResponse
  <2>2. OwnWrites(q)'
    BY <1>16 DEF Panic, EndScope, InPlace, OwnWrites
  <2>3. BeganInWindow(q)' /\ ClaimHolds(q)'
    BY <1>16, <1>k, <1>w DEF Panic, EndScope, InPlace, BeganInWindow, ClaimHolds, Unanswered
  <2>4. Completes(q)' /\ Refuses(q)' /\ WireIsTrue(q)'
    BY <1>16, <1>k
       DEF Panic, EndScope, InPlace, OneResponse, Completes, Refuses, WireIsTrue,
           Committing,
         Abstract!True, Abstract!Mine, Abstract!Others
  <2> QED
    BY <2>1, <2>2, <2>3, <2>4
<1>17. CASE RefuseRead(q) /\ UNCHANGED <<answer, runs, announced>>
  <2>1. InPlace(q)' /\ OneResponse(q)'
    BY <1>17 DEF RefuseRead, EndScope, InPlace, OneResponse
  <2>2. OwnWrites(q)'
    BY <1>17 DEF RefuseRead, EndScope, InPlace, OwnWrites
  <2>3. BeganInWindow(q)' /\ ClaimHolds(q)'
    BY <1>17, <1>k, <1>w DEF RefuseRead, EndScope, InPlace, BeganInWindow, ClaimHolds, Unanswered
  <2>4. Completes(q)' /\ Refuses(q)' /\ WireIsTrue(q)'
    BY <1>17, <1>k
       DEF RefuseRead, EndScope, InPlace, OneResponse, Completes, Refuses,
           WireIsTrue, Committing,
         Abstract!True, Abstract!Mine, Abstract!Others
  <2> QED
    BY <2>1, <2>2, <2>3, <2>4
<1>18. CASE DecideRollback(q) /\ UNCHANGED <<answer, runs, announced>>
  <2>1. InPlace(q)' /\ OneResponse(q)'
    BY <1>18 DEF DecideRollback, EndScope, InPlace, OneResponse
  <2>2. OwnWrites(q)'
    BY <1>18 DEF DecideRollback, EndScope, InPlace, OwnWrites
  <2>3. BeganInWindow(q)' /\ ClaimHolds(q)'
    BY <1>18, <1>k, <1>w
       DEF DecideRollback, EndScope, InPlace, BeganInWindow, ClaimHolds, Unanswered
  <2>4. Completes(q)' /\ Refuses(q)' /\ WireIsTrue(q)'
    BY <1>18, <1>k
       DEF DecideRollback, EndScope, InPlace, OneResponse, Completes, Refuses,
           WireIsTrue, Committing,
         Abstract!True, Abstract!Mine, Abstract!Others
  <2> QED
    BY <2>1, <2>2, <2>3, <2>4
<1>19. CASE DecideCommit(q) /\ UNCHANGED <<answer, runs, announced>>
  <2>1. InPlace(q)' /\ OneResponse(q)'
    BY <1>19 DEF DecideCommit, EndScope, InPlace, OneResponse
  <2>2. OwnWrites(q)'
    BY <1>19 DEF DecideCommit, EndScope, InPlace, OwnWrites
  <2>3. BeganInWindow(q)' /\ ClaimHolds(q)'
    BY <1>19, <1>k, <1>w DEF DecideCommit, EndScope, InPlace, BeganInWindow, ClaimHolds, Unanswered
  <2>4. Completes(q)' /\ Refuses(q)' /\ WireIsTrue(q)'
    <3>1. Committing(q) /\ pc'[q] = "hooks" /\ wire'[q] = out[q]
      BY <1>19 DEF DecideCommit, Committing
    <3>2. wrote[q] # None => wrote[q] \in rows'
      BY <1>19 DEF DecideCommit, Commits
    <3>3. CASE wrote[q] = None
      BY <1>k, <3>1, <3>3
         DEF Completes, Refuses, WireIsTrue, Committing, Abstract!True, Abstract!Mine,
             Abstract!Others
    <3>4. CASE wrote[q] # None
      BY <1>k, <3>1, <3>2, <3>4
         DEF Completes, Refuses, WireIsTrue, Committing, OwnWrites, KeyOf, PrintOf,
             Abstract!True, Abstract!Mine, Abstract!Others
    <3> QED
      BY <3>3, <3>4
  <2> QED
    BY <2>1, <2>2, <2>3, <2>4
<1>20. CASE CommitFails(q) /\ UNCHANGED <<answer, runs, announced>>
  <2>1. InPlace(q)' /\ OneResponse(q)'
    BY <1>20 DEF CommitFails, EndScope, InPlace, OneResponse
  <2>2. OwnWrites(q)'
    BY <1>20 DEF CommitFails, EndScope, InPlace, OwnWrites
  <2>3. BeganInWindow(q)' /\ ClaimHolds(q)'
    BY <1>20, <1>k, <1>w DEF CommitFails, EndScope, InPlace, BeganInWindow, ClaimHolds, Unanswered
  <2>4. Completes(q)' /\ Refuses(q)' /\ WireIsTrue(q)'
    BY <1>20, <1>k
       DEF CommitFails, EndScope, InPlace, OneResponse, Completes, Refuses,
           WireIsTrue, Committing,
         Abstract!True, Abstract!Mine, Abstract!Others
  <2> QED
    BY <2>1, <2>2, <2>3, <2>4
<1>21. CASE CommitUnknown(q) /\ UNCHANGED <<answer, runs, announced>>
  <2>1. InPlace(q)' /\ OneResponse(q)'
    BY <1>21 DEF CommitUnknown, EndScope, InPlace, OneResponse
  <2>2. OwnWrites(q)'
    BY <1>21 DEF CommitUnknown, EndScope, InPlace, OwnWrites
  <2>3. BeganInWindow(q)' /\ ClaimHolds(q)'
    BY <1>21, <1>k, <1>w DEF CommitUnknown, EndScope, InPlace, BeganInWindow, ClaimHolds, Unanswered
  <2>4. Completes(q)' /\ Refuses(q)' /\ WireIsTrue(q)'
    BY <1>21, <1>k
       DEF CommitUnknown, EndScope, InPlace, OneResponse, Completes, Refuses,
           WireIsTrue, Committing,
         Abstract!True, Abstract!Mine, Abstract!Others
  <2> QED
    BY <2>1, <2>2, <2>3, <2>4
<1>22. CASE RunHooks(q)
  <2>1. InPlace(q)' /\ OneResponse(q)'
    BY <1>22 DEF RunHooks, InPlace, OneResponse
  <2>2. OwnWrites(q)'
    BY <1>22 DEF RunHooks, InPlace, OwnWrites
  <2>3. BeganInWindow(q)' /\ ClaimHolds(q)'
    BY <1>22, <1>k, <1>w DEF RunHooks, InPlace, BeganInWindow, ClaimHolds, Unanswered
  <2>4. Completes(q)' /\ Refuses(q)' /\ WireIsTrue(q)'
    BY <1>22, <1>k DEF RunHooks, InPlace, OneResponse, Completes, Refuses, WireIsTrue, Committing,
         Abstract!True, Abstract!Mine, Abstract!Others
  <2> QED
    BY <2>1, <2>2, <2>3, <2>4
<1>23. CASE Receive(q)
  <2>1. InPlace(q)' /\ OneResponse(q)'
    BY <1>23 DEF Receive, InPlace, OneResponse
  <2>2. OwnWrites(q)'
    BY <1>23 DEF Receive, InPlace, OwnWrites
  <2>3. BeganInWindow(q)' /\ ClaimHolds(q)'
    BY <1>23, <1>k, <1>w DEF Receive, InPlace, BeganInWindow, ClaimHolds, Unanswered
  <2>4. Completes(q)' /\ Refuses(q)' /\ WireIsTrue(q)'
    BY <1>23, <1>k DEF Receive, InPlace, OneResponse, Completes, Refuses, WireIsTrue, Committing,
         Abstract!True, Abstract!Mine, Abstract!Others
  <2> QED
    BY <2>1, <2>2, <2>3, <2>4
<1>24. CASE Over(q)
  <2>1. InPlace(q)' /\ OneResponse(q)'
    BY <1>24 DEF Over, InPlace, OneResponse
  <2>2. OwnWrites(q)'
    BY <1>24 DEF Over, InPlace, OwnWrites
  <2>3. BeganInWindow(q)' /\ ClaimHolds(q)'
    BY <1>24, <1>k, <1>w DEF Over, InPlace, BeganInWindow, ClaimHolds, Unanswered
  <2>4. Completes(q)' /\ Refuses(q)' /\ WireIsTrue(q)'
    BY <1>24, <1>k DEF Over, InPlace, OneResponse, Completes, Refuses, WireIsTrue, Committing,
         Abstract!True, Abstract!Mine, Abstract!Others
  <2> QED
    BY <2>1, <2>2, <2>3, <2>4
<1>25. CASE Crash(q)
  <2>1. InPlace(q)' /\ OneResponse(q)'
    BY <1>25 DEF Crash, Forget, InPlace, OneResponse
  <2>2. OwnWrites(q)'
    BY <1>25 DEF Crash, Forget, InPlace, OwnWrites
  <2>3. BeganInWindow(q)' /\ ClaimHolds(q)'
    BY <1>25, <1>k, <1>w DEF Crash, Forget, InPlace, BeganInWindow, ClaimHolds, Unanswered
  <2>4. Completes(q)' /\ Refuses(q)' /\ WireIsTrue(q)'
    BY <1>25, <1>k
       DEF Crash, Forget, InPlace, OneResponse, Completes, Refuses, WireIsTrue,
           Committing,
         Abstract!True, Abstract!Mine, Abstract!Others
  <2> QED
    BY <2>1, <2>2, <2>3, <2>4
<1> QED
  BY <1>1, <1>2, <1>3, <1>4, <1>5, <1>6, <1>7, <1>8, <1>9, <1>10, <1>11, <1>12,
     <1>13, <1>14, <1>15, <1>16, <1>17, <1>18, <1>19, <1>20, <1>21, <1>22, <1>23,
     <1>24, <1>25
     DEF Call, Serve, ClaimStep, Handler, Decide

----------------------------------------------------------------------------
(* The hooks. *)

(* A step of a request leaves the hooks alone, commits and comes to owe     *)
(* them, runs them, or loses them with the process or the commit's outcome. *)
HookEffect(q) ==
    \/ /\ UNCHANGED <<rows, announced, lost>> /\ (pc[q] = "hooks" <=> pc'[q] = "hooks")
       /\ pc[q] = "hooks" => wrote'[q] = wrote[q]
    \/ /\ UNCHANGED <<announced, lost>> /\ rows' = rows \cup ({wrote[q]} \ {None})
       /\ pc[q] # "hooks" /\ pc'[q] = "hooks" /\ wrote'[q] = wrote[q]
    \/ /\ UNCHANGED <<rows, lost>> /\ announced' = announced \cup ({wrote[q]} \ {None})
       /\ pc[q] = "hooks" /\ pc'[q] # "hooks"
    \/ /\ UNCHANGED <<rows, announced>> /\ pc'[q] # "hooks"
       /\ \/ lost' = lost \cup ({wrote[q]} \ {None})
          \/ lost' = lost /\ pc[q] # "hooks"

(* Every step of a request is of one of these kinds, and no failure is      *)
(* counted beyond the bound.                                                *)
LEMMA HookEffects ==
    ASSUME Inv, NEW q \in Requests, Call(q) \/ Serve(q) \/ Receive(q) \/ Over(q) \/ Crash(q)
    PROVE  HookEffect(q) /\ faults' \in 0..MaxFaults
<1>t. TypeScopes /\ faults \in 0..MaxFaults /\ MaxFaults \in Nat
  BY TypeParts, BoundsAssumption DEF Inv, TypeHooks
<1> USE <1>t DEF TypeScopes, At, Fault, NoFault, scopes, responses, database, hooks, HookEffect
<1>1. CASE Begin(q)
  BY <1>1 DEF Begin
<1>2. CASE BeginFails(q)
  BY <1>2 DEF BeginFails
<1>3. CASE OpenRead(q)
  BY <1>3 DEF OpenRead
<1>4. CASE ClaimSkipped(q)
  BY <1>4 DEF ClaimSkipped
<1>5. CASE Claim(q)
  BY <1>5 DEF Claim, TryLock
<1>6. CASE ClaimInProgress(q)
  BY <1>6 DEF ClaimInProgress
<1>7. CASE Replay(q)
  BY <1>7 DEF Replay, TryLock
<1>8. CASE ClaimFails(q)
  BY <1>8 DEF ClaimFails, Abort
<1>9. CASE Insert(q)
  BY <1>9 DEF Insert
<1>10. CASE StatementFails(q)
  BY <1>10 DEF StatementFails, Abort
<1>11. CASE ReadStatement(q)
  BY <1>11 DEF ReadStatement
<1>12. CASE HandlerErrs(q)
  BY <1>12 DEF HandlerErrs
<1>13. CASE HandlerAnswers(q)
  BY <1>13 DEF HandlerAnswers
<1>14. CASE Finish(q)
  BY <1>14 DEF Finish
<1>15. CASE FinishFails(q)
  BY <1>15 DEF FinishFails, Abort
<1>16. CASE Panic(q)
  BY <1>16 DEF Panic, RollsBack
<1>17. CASE RefuseRead(q) /\ UNCHANGED <<answer, runs, hooks>>
  BY <1>17 DEF RefuseRead, RollsBack
<1>18. CASE DecideRollback(q) /\ UNCHANGED <<answer, runs, hooks>>
  BY <1>18 DEF DecideRollback, RollsBack
<1>19. CASE DecideCommit(q) /\ UNCHANGED <<answer, runs, hooks>>
  BY <1>19 DEF DecideCommit, Commits, EndScope
<1>20. CASE CommitFails(q) /\ UNCHANGED <<answer, runs, hooks>>
  BY <1>20 DEF CommitFails, RollsBack
<1>21. CASE CommitUnknown(q) /\ UNCHANGED <<answer, runs, announced>>
  BY <1>21 DEF CommitUnknown, ToLimbo
<1>22. CASE RunHooks(q)
  BY <1>22 DEF RunHooks
<1>23. CASE Receive(q)
  BY <1>23 DEF Receive
<1>24. CASE Over(q)
  BY <1>24 DEF Over
<1>25. CASE Crash(q)
  BY <1>25 DEF Crash, ToLimbo
<1> QED
  BY <1>1, <1>2, <1>3, <1>4, <1>5, <1>6, <1>7, <1>8, <1>9, <1>10, <1>11, <1>12,
     <1>13, <1>14, <1>15, <1>16, <1>17, <1>18, <1>19, <1>20, <1>21, <1>22, <1>23,
     <1>24, <1>25
     DEF Call, Serve, ClaimStep, Handler, Decide

(* The hooks keep their promises. *)
LEMMA HooksStep ==
    ASSUME Inv, NEW q \in Requests, Frame(q), HookEffect(q)
    PROVE  announced' \subseteq RowsOf /\ lost' \subseteq RowsOf /\ HooksOwed' /\ HooksFollowCommit'
<1>t. /\ wrote[q] # None => wrote[q] \in RowsOf /\ wrote[q].by = q
      /\ announced \subseteq RowsOf /\ lost \subseteq RowsOf /\ announced \subseteq rows
      /\ \A s \in rows : s.by \in Requests
      /\ pc[q] = "hooks" /\ wrote[q] # None => wrote[q] \in rows
  BY DEF Inv, TypeOK, RowsOf, Maybe, RequestInv, OwnWrites, HooksOwed, HooksFollowCommit
<1>h. \A s \in rows \ (announced \cup lost) : pc[s.by] = "hooks" /\ wrote[s.by] = s
  BY DEF Inv, HooksFollowCommit
<1>f. \A p \in Requests \ {q} : pc'[p] = pc[p] /\ wrote'[p] = wrote[p]
  BY DEF Frame
<1>1. announced' \subseteq RowsOf /\ lost' \subseteq RowsOf /\ announced' \subseteq rows'
  BY <1>t DEF HookEffect
<1>2. ASSUME NEW p \in Requests, pc'[p] = "hooks", wrote'[p] # None
      PROVE  wrote'[p] \in rows'
  BY <1>2, <1>f DEF HookEffect, Inv, HooksOwed
<1>3. ASSUME NEW s \in rows', s \notin announced', s \notin lost'
      PROVE  pc'[s.by] = "hooks" /\ wrote'[s.by] = s
  <2>1. CASE s \in rows /\ s.by # q
    BY <1>3, <1>t, <1>h, <1>f, <2>1 DEF HookEffect
  <2>2. CASE s \in rows /\ s.by = q /\ s \notin announced /\ s \notin lost
    BY <1>3, <1>t, <1>h, <2>2, NoneAssumption DEF HookEffect, Inv, TypeOK
  <2>3. CASE s \notin rows
    BY <1>3, <1>t, <2>3 DEF HookEffect
  <2> QED
    BY <1>3, <2>1, <2>2, <2>3 DEF HookEffect
<1> QED
  BY <1>1, <1>2, <1>3 DEF HooksOwed, HooksFollowCommit

(* A step of a request keeps the invariant. *)
LEMMA RequestStep ==
    ASSUME Inv, NEW q \in Requests, Call(q) \/ Serve(q) \/ Receive(q) \/ Over(q) \/ Crash(q), UNCHANGED asks
    PROVE  Inv'
<1>1. Frame(q) /\ Effect(q) /\ lost \subseteq lost' /\ HookEffect(q) /\ faults' \in 0..MaxFaults
  BY Effects, HookEffects
<1>2. TypeScopes' /\ TypeResponses'
  BY ScopesStep
<1>3. /\ TypeDatabase' /\ RowsInWindow' /\ OneCreatePerKey' /\ RecordWithRow'
      /\ (\A t \in limbo' : OrphanInv(t)') /\ OrphansApart'
  <2>1. window' = window /\ window \in [Keys -> Windows]
    BY <1>1, EffectIsOwn DEF Inv, TypeOK
  <2>2. lock' \in [Keys -> Requests \cup {None, "limbo"}]
    BY <1>1, EffectIsOwn
  <2> QED
    BY <1>1, <2>1, <2>2, RowsStep, OrphansStep DEF TypeDatabase
<1>4. TypeHooks' /\ HooksOwed' /\ HooksFollowCommit'
  BY <1>1, HooksStep DEF TypeHooks
<1>5. TypeOK'
  BY <1>2, <1>3, <1>4, TypeParts DEF Inv
<1>6. \A k \in Keys : LockIsOwn(k)'
  BY <1>1, LocksStep
<1>7. \A p \in Requests : RequestInv(p)'
  BY <1>1, OtherRequests, OwnRequest
<1> QED
  BY <1>3, <1>4, <1>5, <1>6, <1>7 DEF Inv

----------------------------------------------------------------------------
(* The environment. *)

requests == <<asks, pc, scopes, responses, runs, hooks, faults>>

(* A step of the environment that keeps the database's part of the          *)
(* invariant, the claims and the locks, keeps the whole of it.              *)
LEMMA EnvironmentStep ==
    ASSUME Inv, UNCHANGED requests, rows \subseteq rows', rows' \subseteq rows \cup lost,
           TypeDatabase', RowsInWindow', OneCreatePerKey', RecordWithRow',
           \A q \in Requests : ClaimHolds(q)' /\ BeganInWindow(q)',
           \A k \in Keys : LockIsOwn(k)', \A t \in limbo' : OrphanInv(t)', OrphansApart'
    PROVE  Inv'
<1>1. TypeOK'
  <2>1. asks \in Mixes /\ TypeScopes /\ TypeResponses /\ TypeHooks
    BY TypeParts DEF Inv
  <2>2. asks' \in Mixes /\ TypeScopes' /\ TypeResponses' /\ TypeHooks'
    BY <2>1 DEF requests, scopes, responses, hooks, TypeScopes, TypeResponses, TypeHooks
  <2> QED
    BY <2>2, TypeParts
<1>2. \A q \in Requests : RequestInv(q)'
  BY OthersKeep DEF requests, scopes, responses
<1>3. HooksOwed'
  BY DEF Inv, HooksOwed, requests, scopes
<1>4. HooksFollowCommit'
  BY DEF Inv, HooksFollowCommit, requests, scopes, hooks
<1> QED
  BY <1>1, <1>2, <1>3, <1>4 DEF Inv

(* The end of a transaction whose client is gone. *)
LEMMA EndLimboStep ==
    ASSUME Inv, NEW t \in limbo, EndLimbo(t), UNCHANGED asks
    PROVE  Inv'
<1>t. /\ OrphanInv(t) /\ t \in Orphans /\ t.held \subseteq Keys /\ t.row \in Maybe(RowsOf)
      /\ TypeDatabase /\ rows \subseteq RowsOf /\ OrphansApart
  BY TypeParts DEF Inv, TypeDatabase, Orphans
<1>e. /\ limbo' = limbo \ {t} /\ window' = window /\ UNCHANGED requests
      /\ lock' = [k \in Keys |-> IF k \in t.held THEN None ELSE lock[k]]
  BY DEF EndLimbo, requests
<1>1. /\ rows' \subseteq RowsOf /\ record' \in [Keys -> Maybe(RecordsOf)]
      /\ RowsInWindow' /\ OneCreatePerKey' /\ RecordWithRow'
      /\ rows \subseteq rows' /\ rows' \subseteq rows \cup lost
      /\ \A k \in Keys : k \notin t.held => record'[k] = record[k]
  <2>1. CASE /\ t.mayCommit /\ rows' = rows \cup ({t.row} \ {None})
             /\ record' = [k \in Keys |-> IF k = t.key /\ t.rec # None THEN t.rec ELSE record[k]]
    <3>1. /\ rows' \subseteq RowsOf /\ record' \in [Keys -> Maybe(RecordsOf)]
          /\ RowsInWindow' /\ OneCreatePerKey' /\ RecordWithRow'
      BY <1>e, <2>1, OrphanInstalls, InstallSafe
    <3> QED
      BY <1>t, <2>1, <3>1 DEF OrphanInv
  <2>2. CASE UNCHANGED <<rows, record>>
    BY <1>e, <1>t, <2>2 DEF Inv, TypeDatabase, RowsInWindow, OneCreatePerKey, RecordWithRow
  <2> QED
    BY <2>1, <2>2 DEF EndLimbo
<1>2. TypeDatabase'
  <2>1. lock' \in [Keys -> Requests \cup {None, "limbo"}]
    BY <1>e, <1>t DEF TypeDatabase
  <2> QED
    BY <1>e, <1>t, <1>1, <2>1 DEF TypeDatabase
<1>3. \A k \in Keys : LockIsOwn(k)'
  BY <1>e, NoneAssumption DEF Inv, LockIsOwn, requests, scopes, KeyOf
<1>4. ASSUME NEW q \in Requests PROVE ClaimHolds(q)' /\ BeganInWindow(q)'
  <2>1. BeganInWindow(q)'
    BY <1>e DEF Inv, RequestInv, BeganInWindow, requests, scopes, Keyed, KeyOf
  <2>2. ASSUME claim[q] # None, tx[q] = "open"
        PROVE  /\ lock'[KeyOf(q)] = q /\ claim[q].window = window[KeyOf(q)] /\ Unanswered(KeyOf(q))
               /\ record'[KeyOf(q)] = record[KeyOf(q)]
    <3>1. KeyOf(q) \in Keys /\ lock[KeyOf(q)] = q /\ claim[q].window = window[KeyOf(q)] /\ Unanswered(KeyOf(q))
      BY <2>2 DEF Inv, RequestInv, OwnWrites, ClaimHolds, Keyed
    <3>2. KeyOf(q) \notin t.held
      BY <1>t, <3>1, NoneAssumption DEF OrphanInv
    <3> QED
      BY <1>e, <1>1, <3>1, <3>2
  <2>3. ClaimHolds(q)'
    BY <1>e, <2>2 DEF ClaimHolds, Unanswered, requests, scopes, KeyOf
  <2> QED
    BY <2>1, <2>3
<1>5. ASSUME NEW u \in limbo' PROVE OrphanInv(u)'
  <2>1. OrphanInv(u) /\ u.held \cap t.held = {} /\ u.held \subseteq Keys
    BY <1>e, <1>t DEF Inv, OrphansApart, TypeDatabase, Orphans
  <2>2. \A k \in u.held : lock'[k] = "limbo" /\ record'[k] = record[k]
    BY <1>e, <1>1, <2>1 DEF OrphanInv
  <2> QED
    BY <1>e, <2>1, <2>2 DEF OrphanInv, Unanswered, requests, hooks
<1>6. OrphansApart'
  BY <1>e, <1>t DEF OrphansApart
<1> QED
  BY <1>e, <1>1, <1>2, <1>3, <1>4, <1>5, <1>6, EnvironmentStep

(* The end of a key's retention window: no claim of the key is under way,   *)
(* for the key is answered for.                                             *)
LEMMA ExpireStep ==
    ASSUME Inv, NEW k \in Keys, Expire(k), UNCHANGED asks
    PROVE  Inv'
<1>n. Windows \subseteq Nat /\ MaxExpiries \in Nat
  BY BoundsAssumption DEF Windows
<1>t. TypeDatabase /\ RecordWithRow /\ RowsInWindow /\ OneCreatePerKey /\ OrphansApart
  BY TypeParts DEF Inv
<1>e. /\ UNCHANGED requests /\ UNCHANGED <<lock, record, rows, limbo>>
      /\ record[k] # None /\ record[k].window = window[k] /\ window[k] < MaxExpiries
      /\ window' = [window EXCEPT ![k] = @ + 1]
  BY DEF Expire, requests
<1>w. /\ window[k] \in Nat /\ window'[k] = window[k] + 1 /\ ~Unanswered(k)
      /\ \A j \in Keys \ {k} : window'[j] = window[j]
      /\ \A j \in Keys : window[j] \in Nat /\ window'[j] \in Nat /\ window[j] <= window'[j]
  <2>1. \A j \in Keys : window[j] \in Nat
    BY <1>n, <1>t DEF TypeDatabase
  <2>2. window'[k] = window[k] + 1 /\ \A j \in Keys \ {k} : window'[j] = window[j]
    BY <1>t, <1>e DEF TypeDatabase
  <2>3. ~Unanswered(k)
    BY <1>e, <2>1 DEF Unanswered
  <2>4. \A j \in Keys : window'[j] \in Nat /\ window[j] <= window'[j]
    <3> TAKE j \in Keys
    <3>1. CASE j = k
      BY <2>1, <2>2, <3>1
    <3>2. CASE j # k
      BY <2>1, <2>2, <3>2
    <3> QED
      BY <3>1, <3>2
  <2> QED
    BY <2>1, <2>2, <2>3, <2>4
<1>1. TypeDatabase'
  <2>1. window[k] + 1 \in Windows
    BY <1>n, <1>w, <1>e DEF Windows
  <2> QED
    BY <1>t, <1>e, <2>1 DEF TypeDatabase
<1>2. RowsInWindow' /\ OneCreatePerKey'
  <2>1. \A r \in rows : r.window \in Nat
    BY <1>n, <1>t DEF TypeDatabase, RowsOf
  <2>2. RowsInWindow'
    BY <1>t, <1>e, <1>w, <2>1 DEF RowsInWindow
  <2> QED
    BY <1>t, <1>e, <2>2 DEF OneCreatePerKey
<1>3. RecordWithRow'
  <2>1. ASSUME NEW s \in rows, s.key # NoKey, s.window = window'[s.key]
        PROVE  s.key # k
    <3>1. s.key = k => s.window <= window[k] /\ s.window \in Nat
      BY <1>t, <1>n DEF RowsInWindow, TypeDatabase, RowsOf
    <3> QED
      BY <1>w, <2>1, <3>1
  <2>2. \A s \in rows : s.key # NoKey => s.key \in Keys
    BY <1>t DEF TypeDatabase, RowsOf
  <2> QED
    BY <1>t, <1>e, <1>w, <2>1, <2>2 DEF RecordWithRow
<1>4. ASSUME NEW q \in Requests PROVE ClaimHolds(q)' /\ BeganInWindow(q)'
  <2>0. RequestInv(q) /\ began[q] \in Nat /\ began'[q] = began[q] /\ KeyOf(q)' = KeyOf(q)
    BY <1>e, <1>n DEF Inv, TypeOK, requests, scopes, KeyOf
  <2>1. BeganInWindow(q)'
    BY <1>w, <2>0 DEF RequestInv, BeganInWindow, Keyed
  <2>2. ASSUME claim[q] # None, tx[q] = "open"
        PROVE  /\ lock[KeyOf(q)] = q /\ claim[q].window = window[KeyOf(q)] /\ Unanswered(KeyOf(q))
               /\ window'[KeyOf(q)] = window[KeyOf(q)]
    BY <1>w, <2>0, <2>2 DEF RequestInv, OwnWrites, ClaimHolds, Keyed
  <2>3. ClaimHolds(q)'
    BY <1>e, <2>0, <2>2 DEF ClaimHolds, Unanswered, requests, scopes
  <2> QED
    BY <2>1, <2>3
<1>5. \A j \in Keys : LockIsOwn(j)'
  BY <1>e DEF Inv, LockIsOwn, requests, scopes, KeyOf
<1>6. ASSUME NEW u \in limbo PROVE OrphanInv(u)'
  <2>1. OrphanInv(u) /\ u.held \subseteq Keys
    BY <1>t DEF Inv, TypeDatabase, Orphans
  <2>2. u.rec # None => window'[u.key] = window[u.key]
    BY <1>w, <2>1 DEF OrphanInv
  <2> QED
    BY <1>e, <2>1, <2>2 DEF OrphanInv, Unanswered, requests, hooks
<1>7. OrphansApart' /\ limbo' = limbo
  BY <1>e, <1>t DEF OrphansApart
<1> QED
  BY <1>e, <1>1, <1>2, <1>3, <1>4, <1>5, <1>6, <1>7, EnvironmentStep

(* The retention sweep: only a record that no longer answers goes. *)
LEMMA PurgeStep ==
    ASSUME Inv, NEW k \in Keys, Purge(k), UNCHANGED asks
    PROVE  Inv'
<1>n. Windows \subseteq Nat
  BY BoundsAssumption DEF Windows
<1>t. TypeDatabase /\ RecordWithRow /\ RowsInWindow /\ OneCreatePerKey /\ OrphansApart
  BY TypeParts DEF Inv
<1>e. /\ UNCHANGED requests /\ UNCHANGED <<lock, rows, limbo, window>>
      /\ record[k] # None /\ record[k].window < window[k]
      /\ record' = [record EXCEPT ![k] = None]
  BY DEF Purge, requests
<1>w. /\ record'[k] = None /\ \A j \in Keys \ {k} : record'[j] = record[j]
      /\ record[k].window \in Nat /\ window[k] \in Nat
  <2>1. record[k] \in RecordsOf /\ window[k] \in Windows
    BY <1>t, <1>e DEF TypeDatabase, Maybe
  <2>2. record[k].window \in Windows
    BY <2>1 DEF RecordsOf
  <2>3. record'[k] = None /\ \A j \in Keys \ {k} : record'[j] = record[j]
    BY <1>t, <1>e DEF TypeDatabase
  <2> QED
    BY <1>n, <2>1, <2>2, <2>3
<1>1. TypeDatabase'
  BY <1>t, <1>e DEF TypeDatabase, Maybe
<1>2. RowsInWindow' /\ OneCreatePerKey' /\ OrphansApart' /\ limbo' = limbo
  BY <1>t, <1>e DEF RowsInWindow, OneCreatePerKey, OrphansApart
<1>3. RecordWithRow'
  <2>1. \A s \in rows : s.key # NoKey => s.key \in Keys
    BY <1>t DEF TypeDatabase, RowsOf
  <2>2. \A s \in rows : s.key # NoKey /\ s.window = window[s.key] => s.key # k
    BY <1>t, <1>w, <1>e DEF RecordWithRow
  <2>3. \A s \in rows : s.key # NoKey /\ s.window = window[s.key] =>
          record'[s.key] # None /\ record'[s.key].window = s.window
    BY <1>t, <1>w, <2>1, <2>2 DEF RecordWithRow
  <2>4. \A j \in Keys : record'[j] # None => record'[j] = record[j]
    BY <1>w
  <2> QED
    BY <1>t, <1>e, <2>3, <2>4 DEF RecordWithRow
<1>4. ASSUME NEW q \in Requests PROVE ClaimHolds(q)' /\ BeganInWindow(q)'
  <2>0. RequestInv(q) /\ KeyOf(q)' = KeyOf(q)
    BY <1>e DEF Inv, requests, KeyOf
  <2>1. BeganInWindow(q)'
    BY <1>e, <2>0 DEF RequestInv, BeganInWindow, Keyed, requests, scopes
  <2>2. claim[q] # None => KeyOf(q) \in Keys
    BY <2>0 DEF RequestInv, OwnWrites, Keyed
  <2>3. ClaimHolds(q)'
    BY <1>e, <1>w, <2>0, <2>2 DEF RequestInv, ClaimHolds, Unanswered, requests, scopes
  <2> QED
    BY <2>1, <2>3
<1>5. \A j \in Keys : LockIsOwn(j)'
  BY <1>e DEF Inv, LockIsOwn, requests, scopes, KeyOf
<1>6. ASSUME NEW u \in limbo PROVE OrphanInv(u)'
  <2>1. OrphanInv(u) /\ u.held \subseteq Keys
    BY <1>t DEF Inv, TypeDatabase, Orphans
  <2>2. u.rec # None => u.key \in Keys /\ (record'[u.key] # None => record'[u.key] = record[u.key])
    BY <1>w, <2>1 DEF OrphanInv
  <2> QED
    BY <1>e, <2>1, <2>2 DEF OrphanInv, Unanswered, requests, hooks
<1> QED
  BY <1>e, <1>1, <1>2, <1>3, <1>4, <1>5, <1>6, EnvironmentStep

----------------------------------------------------------------------------
(* The theorems. *)

(* The invariant holds initially. *)
LEMMA InitInv == Init => Inv
<1> SUFFICES ASSUME Init PROVE Inv
  OBVIOUS
<1>0. 0 \in Windows /\ 0 \in 0..MaxFaults
  BY BoundsAssumption DEF Windows
<1>1. TypeOK
  BY <1>0 DEF Init, TypeOK, Maybe
<1>2. \A q \in Requests : RequestInv(q)
  <2> SUFFICES ASSUME NEW q \in Requests PROVE RequestInv(q)
    OBVIOUS
  <2>1. InPlace(q) /\ OneResponse(q) /\ OwnWrites(q)
    BY DEF Init, InPlace, OneResponse, OwnWrites
  <2>2. BeganInWindow(q) /\ ClaimHolds(q)
    BY DEF Init, BeganInWindow, ClaimHolds, Keyed
  <2>3. Completes(q) /\ Refuses(q) /\ WireIsTrue(q)
    BY DEF Init, Completes, Committing, Refuses, WireIsTrue
  <2> QED
    BY <2>1, <2>2, <2>3 DEF RequestInv
<1>3. \A k \in Keys : LockIsOwn(k)
  BY NoneAssumption DEF Init, LockIsOwn
<1>4. (\A t \in limbo : OrphanInv(t)) /\ OrphansApart /\ RowsInWindow /\ OneCreatePerKey
  BY DEF Init, OrphansApart, RowsInWindow, OneCreatePerKey
<1>5. RecordWithRow /\ HooksOwed /\ HooksFollowCommit
  BY DEF Init, RecordWithRow, HooksOwed, HooksFollowCommit
<1> QED
  BY <1>1, <1>2, <1>3, <1>4, <1>5 DEF Inv

(* Every step keeps the invariant. *)
LEMMA NextInv == Inv /\ [Next]_vars => Inv'
<1> SUFFICES ASSUME Inv, [Next]_vars PROVE Inv'
  OBVIOUS
<1>1. CASE UNCHANGED vars
  <2>1. UNCHANGED requests /\ UNCHANGED database
    BY <1>1 DEF vars, requests
  <2>2. /\ TypeDatabase' /\ RowsInWindow' /\ OneCreatePerKey' /\ RecordWithRow'
        /\ (\A k \in Keys : LockIsOwn(k)') /\ OrphansApart'
    BY <2>1, TypeParts
       DEF Inv, TypeDatabase, RowsInWindow, OneCreatePerKey, RecordWithRow,
           LockIsOwn,
         OrphansApart, database, requests, scopes, KeyOf
  <2>3. (\A q \in Requests : ClaimHolds(q)' /\ BeganInWindow(q)') /\ (\A t \in limbo' : OrphanInv(t)')
    BY <2>1 DEF Inv, RequestInv, ClaimHolds, BeganInWindow, OrphanInv, Unanswered, Keyed, KeyOf,
         database, requests, scopes, hooks
  <2> QED
    BY <2>1, <2>2, <2>3, EnvironmentStep DEF database
<1>2. ASSUME NEW q \in Requests, Call(q) \/ Serve(q) \/ Receive(q) \/ Over(q) \/ Crash(q), UNCHANGED asks
      PROVE  Inv'
  BY <1>2, RequestStep
<1>3. ASSUME NEW t \in limbo, EndLimbo(t), UNCHANGED asks PROVE Inv'
  BY <1>3, EndLimboStep
<1>4. ASSUME NEW k \in Keys, Expire(k) \/ Purge(k), UNCHANGED asks PROVE Inv'
  BY <1>4, ExpireStep, PurgeStep
<1> QED
  BY <1>1, <1>2, <1>3, <1>4 DEF Next

(* The invariant holds in every behaviour of the request transactions and   *)
(* of the idempotency layer inside them.                                    *)
THEOREM Invariance == Spec => []Inv
  BY InitInv, NextInv, PTL DEF Spec

(* The variables keep their types, and every response carries a status the  *)
(* layers can send (render.Error, replayIdempotent, rlsMiddleware).         *)
THEOREM TypeCorrect == Spec => []TypeOK
<1>1. Inv => TypeOK
  BY DEF Inv
<1> QED
  BY <1>1, Invariance, PTL

(* A key creates once per retention window, however many requests carry it, *)
(* are retried, lose their commit or crash (claimIdempotencyKeySQL with     *)
(* pg_try_advisory_xact_lock).                                              *)
THEOREM OneCreate == Spec => []OneCreatePerKey
<1>1. Inv => OneCreatePerKey
  BY DEF Inv
<1> QED
  BY <1>1, Invariance, PTL

(* A key's record and the row it answers for commit together: idempotent    *)
(* creates store their response in the transaction of the create.           *)
THEOREM RecordsHaveRows == Spec => []RecordWithRow
<1>1. Inv => RecordWithRow
  BY DEF Inv
<1> QED
  BY <1>1, Invariance, PTL

(* Post-commit hooks describe committed rows only, and no committed row is  *)
(* left without them unless its process died or its commit's outcome was    *)
(* lost (rlsMiddleware, hooks.Commit).                                      *)
THEOREM HooksAfterCommit == Spec => []HooksFollowCommit
<1>1. Inv => HooksFollowCommit
  BY DEF Inv
<1> QED
  BY <1>1, Invariance, PTL

----------------------------------------------------------------------------
(* The refinement. *)

(* A commit of what may be installed is a create of KeyedCreate, or changes *)
(* nothing it speaks of.                                                    *)
LEMMA InstallCreates ==
    ASSUME Inv, NEW key, NEW row, NEW rec, Installable(key, row, rec),
           rows' = rows \cup ({row} \ {None}),
           row # None => asks[row.by] = [key |-> row.key, print |-> row.print],
           UNCHANGED <<asks, window, answer>>
    PROVE  [Abstract!Next]_(Abstract!vars)
<1>1. CASE row = None \/ row \in rows
  <2>1. rows' = rows
    BY <1>1
  <2> QED
    BY <2>1 DEF Abstract!vars
<1>2. CASE row # None /\ row \notin rows
  <2>1. row \in rows' \ rows /\ rows' = rows \cup {row}
    BY <1>2
  <2>2. ASSUME row.key \in Keys, NEW s \in rows, s.key = row.key
        PROVE  row.window = window[row.key] /\ s.window # row.window
    <3>1. /\ rec # None /\ row.key = key /\ Unanswered(key) /\ row.window = window[key]
      BY <1>2, <2>2 DEF Installable
    <3>2. window[key] \in Nat /\ (record[key] # None => record[key].window \in Nat)
      BY <2>2, <3>1, BoundsAssumption DEF Inv, TypeOK, Maybe, RecordsOf, Windows
    <3> QED
      BY <2>2, <3>1, <3>2, RequestAssumption DEF Inv, RecordWithRow, Unanswered
  <2>3. row.key \in Keys => row.window = window[row.key]
    BY <1>2 DEF Installable
  <2>4. Abstract!Create
    BY <1>2, <2>1, <2>2, <2>3 DEF Abstract!Create
  <2> QED
    BY <2>4 DEF Abstract!Next
<1> QED
  BY <1>1, <1>2

(* What a step of a request does to the answers: nothing, the next attempt  *)
(* of a caller that may try again, or the delivery of a true response.      *)
Tells(q) ==
    \/ answer' = answer
    \/ rows' = rows /\ Retryable(answer[q]) /\ answer' = [answer EXCEPT ![q] = None]
    \/ rows' = rows /\ wire[q] # None /\ answer' = [answer EXCEPT ![q] = wire[q]]

(* Every step of a request does one of these. *)
LEMMA TellsStep ==
    ASSUME NEW q \in Requests, Call(q) \/ Serve(q) \/ Receive(q) \/ Over(q) \/ Crash(q)
    PROVE  Tells(q)
<1>1. CASE Call(q)
  BY <1>1 DEF Call, Begin, BeginFails, OpenRead, database, Tells
<1>2. CASE Receive(q)
  BY <1>2 DEF Receive, database, Tells
<1>3. CASE Over(q) \/ Crash(q)
  BY <1>3 DEF Over, Crash, responses, Tells
<1>4. CASE ClaimStep(q)
  BY <1>4 DEF ClaimStep, ClaimSkipped, Claim, ClaimInProgress, Replay, ClaimFails, responses, Tells
<1>5. CASE Handler(q)
  BY <1>5 DEF Handler, Insert, StatementFails, ReadStatement, HandlerErrs, HandlerAnswers, Finish,
       FinishFails, Panic, responses, Tells
<1>6. CASE Decide(q) \/ RunHooks(q)
  BY <1>6 DEF Decide, RunHooks, responses, Tells
<1> QED
  BY <1>1, <1>2, <1>3, <1>4, <1>5, <1>6 DEF Serve

(* A step of a request is a step of KeyedCreate or changes nothing that one *)
(* speaks of: the commit creates, the delivery tells, the caller tries      *)
(* again.                                                                   *)
LEMMA RequestRefines ==
    ASSUME Inv, NEW q \in Requests, Call(q) \/ Serve(q) \/ Receive(q) \/ Over(q) \/ Crash(q), UNCHANGED asks
    PROVE  [Abstract!Next]_(Abstract!vars)
<1>1. Effect(q) /\ window' = window /\ Tells(q)
  BY Effects, EffectIsOwn, TellsStep
<1>2. answer \in [Requests -> Maybe(Responses)]
  BY DEF Inv, TypeOK
<1>3. CASE answer' = answer
  <2>1. CASE Commits(q) /\ Committing(q)
    <3>1. wrote[q] # None => wrote[q].key = KeyOf(q) /\ wrote[q].by = q /\ wrote[q].print = PrintOf(q)
      BY DEF Inv, RequestInv, OwnWrites
    <3>2. asks[q] = [key |-> KeyOf(q), print |-> PrintOf(q)]
      BY AskType DEF Inv
    <3>3. wrote[q] # None => asks[wrote[q].by] = [key |-> wrote[q].key, print |-> wrote[q].print]
      BY <3>1, <3>2
    <3>4. Installable(KeyOf(q), wrote[q], claim[q]) /\ rows' = rows \cup ({wrote[q]} \ {None})
      BY <2>1, CommitInstalls DEF Commits
    <3> QED
      BY <1>1, <1>3, <3>3, <3>4, InstallCreates
  <2>2. CASE rows' = rows
    BY <1>1, <1>3, <2>2 DEF Abstract!vars
  <2>3. (Commits(q) /\ Committing(q)) \/ rows' = rows
    BY <1>1 DEF Effect, Takes, RollsBack, ToLimbo, database
  <2> QED
    BY <2>1, <2>2, <2>3
<1>4. CASE rows' = rows /\ Retryable(answer[q]) /\ answer' = [answer EXCEPT ![q] = None]
  <2>1. CASE answer[q] = None
    <3>1. answer' = answer
      BY <1>2, <1>4, <2>1
    <3> QED
      BY <1>3, <3>1
  <2>2. CASE answer[q] # None
    <3>1. Abstract!TryAgain(q)
      BY <1>1, <1>4, <2>2 DEF Abstract!TryAgain, Retryable
    <3> QED
      BY <3>1 DEF Abstract!Next
  <2> QED
    BY <2>1, <2>2
<1>5. CASE rows' = rows /\ wire[q] # None /\ answer' = [answer EXCEPT ![q] = wire[q]]
  <2>1. answer[q] = None /\ Abstract!True(q, wire[q])
    BY <1>5 DEF Inv, RequestInv, OneResponse, WireIsTrue
  <2>2. answer'[q] = wire[q] /\ \A p \in Requests \ {q} : answer'[p] = answer[p]
    BY <1>2, <1>5
  <2>3. Abstract!Tell(q)
    BY <1>1, <1>5, <2>1, <2>2 DEF Abstract!Tell
  <2> QED
    BY <2>3 DEF Abstract!Next
<1> QED
  BY <1>1, <1>3, <1>4, <1>5 DEF Tells

(* Neither does the environment do what KeyedCreate does not allow: a late  *)
(* commit creates, and a window ends only for a key that was used.          *)
LEMMA EnvironmentRefines ==
    ASSUME Inv, UNCHANGED asks,
           (\E t \in limbo : EndLimbo(t)) \/ (\E k \in Keys : Expire(k) \/ Purge(k))
    PROVE  [Abstract!Next]_(Abstract!vars)
<1>1. ASSUME NEW t \in limbo, EndLimbo(t) PROVE [Abstract!Next]_(Abstract!vars)
  <2>0. OrphanInv(t) /\ t \in Orphans /\ UNCHANGED <<asks, window, answer>>
    BY <1>1 DEF Inv, TypeOK, EndLimbo, responses
  <2>1. CASE t.mayCommit /\ rows' = rows \cup ({t.row} \ {None})
    <3>1. ASSUME t.row # None
          PROVE  asks[t.row.by] = [key |-> t.row.key, print |-> t.row.print]
      <4>1. t.row.by \in Requests
        BY <2>0, <3>1 DEF Orphans, Maybe, RowsOf
      <4>2. asks[t.row.by] = [key |-> KeyOf(t.row.by), print |-> PrintOf(t.row.by)]
        BY <4>1, AskType DEF Inv
      <4> QED
        BY <2>0, <3>1, <4>2 DEF OrphanInv, KeyOf, PrintOf
    <3> QED
      BY <2>0, <2>1, <3>1, OrphanInstalls, InstallCreates
  <2>2. CASE rows' = rows
    BY <2>0, <2>2 DEF Abstract!vars
  <2> QED
    BY <1>1, <2>1, <2>2 DEF EndLimbo
<1>2. ASSUME NEW k \in Keys, Expire(k) PROVE [Abstract!Next]_(Abstract!vars)
  <2>1. \E r \in rows : r.key = k /\ r.window = window[k]
    BY <1>2 DEF Inv, RecordWithRow, Expire
  <2>2. Abstract!WindowEnds(k)
    BY <1>2, <2>1 DEF Abstract!WindowEnds, Expire, responses
  <2> QED
    BY <2>2 DEF Abstract!Next
<1>3. ASSUME NEW k \in Keys, Purge(k) PROVE [Abstract!Next]_(Abstract!vars)
  BY <1>3 DEF Purge, responses, Abstract!vars
<1> QED
  BY <1>1, <1>2, <1>3

(* With its transactions, locks, records, retries and crashes, the API      *)
(* keeps the promise of KeyedCreate to every caller.                        *)
THEOREM Refinement == Spec => ImplementsKeyedCreate
<1>1. Init => Abstract!Init
  BY DEF Init, Abstract!Init
<1>2. Inv /\ [Next]_vars => [Abstract!Next]_(Abstract!vars)
  <2> SUFFICES ASSUME Inv, [Next]_vars PROVE [Abstract!Next]_(Abstract!vars)
    OBVIOUS
  <2>1. CASE UNCHANGED vars
    BY <2>1 DEF vars, responses, database, Abstract!vars
  <2>2. CASE Next
    BY <2>2, RequestRefines, EnvironmentRefines DEF Next
  <2> QED
    BY <2>1, <2>2
<1> QED
  BY <1>1, <1>2, Invariance, PTL DEF Spec, ImplementsKeyedCreate, Abstract!Spec

=============================================================================
