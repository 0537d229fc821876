----------------------------- MODULE ChatStream -----------------------------
(***************************************************************************)
(* One chat stream on the replica that runs it (internal/service/chat.go,   *)
(* chat_stream_control.go, chat_approvals.go, chat_fixes.go,                *)
(* chat_resume.go): the worker that produces the answer, the card it asks   *)
(* the user's approval with and the fix it then applies, the ways the       *)
(* stream is stopped (streamCtl.cancelWithCode), its one terminal event,    *)
(* the client's begin handshake, and the server's Shutdown.  StreamStop     *)
(* adds the other replicas.                                                 *)
(*                                                                          *)
(* The answer's text, the codes of failures and the provider's protocol are *)
(* left out: a provider call ends with an answer, a failure, or a card.     *)
(***************************************************************************)
EXTENDS Naturals, Sequences

CONSTANTS
    Budgets,    \* bounds: how often each of Spent may happen in a behaviour
    None

(* Begin handshakes, approval cards, stops here, stops at another replica,  *)
(* shutdowns and failures; "clock" is 0 in a behaviour without time.        *)
Spent == {"begins", "cards", "stops", "asks", "shutdowns", "faults", "clock"}
ASSUME BudgetsAssumption == Budgets \subseteq [Spent -> Nat]

Workers == {"setup", "run", "ask", "took", "apply", "verify", "ended", "gate", "errs",
            "answered", "claim", "store", "send", "cleanup", "leaving", "gone"}
Cards == {"shown", "declined", "timeout", "cancelled", "applying", "applied", "error"}
Reasons == {"stopped", "watchdog", "restarting", "fenced"}
Decisions == {"approved", "declined"}
Terminals == {"done", "error"}
ASSUME NoneAssumption == None \notin Cards \cup Reasons \cup Decisions \cup Terminals \cup {"answer", "failure"}

VARIABLES
    worker,     \* where the stream's goroutine is
    gated,      \* the worker has passed the begin gate (awaitStart's started)
    begun,      \* ctl.started is closed: the client is subscribed
    handing,    \* BeginStream is between its close(started) and its snapshot
    heard,      \* the client has been told how the stream ended
    ctx,        \* the stream's context: "live" | "cancelled" | "deadline"
    reason,     \* cancelReason: who asked the stream to stop first, or None
    hold,       \* applyHolds > 0
    deferred,   \* cancelDeferred
    card,       \* the approval card as the client sees it, or None
    decision,   \* st.decided: the decision in the channel, or None
    written,    \* the approved fix is in the flow
    terminal,   \* the recorded terminal state: "done" | "error" | None
    claimed,    \* terminalSent
    events,     \* the terminal events emitted
    stored,     \* what the conversation got: "answer" | "failure" | None
    shut,       \* how far Shutdown is
    draining,   \* the server has begun to stop
    up,         \* the replica's process runs
    published,  \* ctl.published: marked as known to the other replicas
    budget      \* what is left of Budgets

begins == <<begun, handing, heard>>
control == <<ctx, reason, hold, deferred>>
approval == <<card, decision, written>>
outcome == <<terminal, claimed, events, stored>>
process == <<shut, draining, up, published>>
streamVars == <<worker, gated, begins, control, approval, outcome, process, budget>>

(* activeStreams holds the stream until its cleanup has stored its end. *)
Active == up /\ worker # "gone"
Dead == ctx # "live"
Spend(what) == budget[what] > 0 /\ budget' = [budget EXCEPT ![what] = @ - 1]

(* The worker goes from one place to another while its process runs. *)
Works(from, to) == up /\ worker \in from /\ worker' = to

InitStream ==
    /\ budget \in Budgets
    /\ worker = "setup" /\ gated = FALSE
    /\ begun = (budget.begins = 0) /\ handing = FALSE /\ heard = FALSE
    /\ ctx = "live" /\ reason = None /\ hold = FALSE /\ deferred = FALSE
    /\ card = None /\ decision = None /\ written = FALSE
    /\ terminal = None /\ claimed = FALSE /\ events = <<>> /\ stored = None
    /\ shut = "no" /\ draining = FALSE /\ up = TRUE /\ published = FALSE

----------------------------------------------------------------------------
(* Stopping a stream. *)

CancelContext == ctx' = IF Dead THEN ctx ELSE "cancelled"

(* cancelWithCode: the first reason wins; an apply that holds the cancel    *)
(* makes it wait.                                                           *)
Cancel(why) ==
    /\ reason' = IF reason = None THEN why ELSE reason
    /\ IF hold THEN deferred' = TRUE /\ UNCHANGED ctx ELSE CancelContext /\ UNCHANGED deferred
    /\ UNCHANGED hold

(* The user stops a stream on this replica (CancelStream), or the watchdog  *)
(* does: nothing came from the provider for too long, or the client's       *)
(* connection is gone.                                                      *)
StopHere ==
    /\ Active /\ Spend("stops")
    /\ \/ Cancel("stopped")
       \/ ~Dead /\ Cancel("watchdog")
    /\ UNCHANGED <<worker, gated, begins, approval, outcome, process>>

(* maxChatStreamDuration passes: this end of the context waits for nobody. *)
Deadline ==
    /\ Active /\ ~Dead /\ ctx' = "deadline"
    /\ UNCHANGED <<worker, gated, begins, reason, hold, deferred, approval, outcome, process, budget>>

(* Mutant: a deferred cancel is forgotten. *)
ReleaseForgets == hold' = FALSE /\ UNCHANGED <<ctx, deferred, reason>>

(* Mutant: the hold outlives its apply. *)
ReleaseNever == UNCHANGED control

(* release of holdCancel: a cancel that waited fires now. *)
Release ==
    /\ hold' = FALSE /\ deferred' = FALSE
    /\ IF deferred THEN CancelContext ELSE UNCHANGED ctx
    /\ UNCHANGED reason

----------------------------------------------------------------------------
(* The terminal event. *)

(* setFailure, markDone: the first terminal state stays. *)
Record(what) == terminal' = IF terminal = None THEN what ELSE terminal

(* claimTerminalEvent: one event, and no done after a recorded failure. *)
Claims(what) == ~claimed /\ (what = "done" => terminal # "error")

(* EmitTo: a client that began is subscribed and hears it. *)
Emit(what) == events' = Append(events, what) /\ heard' = (heard \/ begun)
EmitNothing == UNCHANGED <<events, heard>>

(* BeginStream: started is closed, then the state is read; a terminal state *)
(* is handed back, and one recorded later is emitted.                       *)
Begin ==
    /\ up /\ ~begun /\ begun' = TRUE /\ handing' = TRUE
    /\ Spend("begins")
    /\ UNCHANGED <<worker, gated, heard, control, approval, outcome, process>>

BeginReads ==
    /\ up /\ handing /\ handing' = FALSE
    /\ heard' = (heard \/ terminal # None)
    /\ UNCHANGED <<worker, gated, begun, control, approval, outcome, process, budget>>

----------------------------------------------------------------------------
(* The worker: setup and the provider's turns. *)

rest == <<begins, control, approval, process>>

(* prepareTurn, the history and the context are ready. *)
SetupDone ==
    /\ Works({"setup"}, "run")
    /\ UNCHANGED <<gated, rest, outcome, budget>>

(* fail: recorded, and emitted without waiting for the client. *)
SetupFails ==
    /\ Works({"setup"}, "errs") /\ Record("error")
    /\ UNCHANGED <<gated, rest, claimed, events, stored, budget>>

(* The stream ended while the request was built. *)
SetupLeaves ==
    /\ Works({"setup"}, "cleanup") /\ Dead
    /\ UNCHANGED <<gated, rest, outcome, budget>>

(* awaitStart is a select: with the stream begun and its context over, both *)
(* of its ways are open.                                                    *)
GateOpens == gated \/ begun
GateShut == ~gated /\ Dead

(* A first piece of the answer passes the gate. *)
Chunk ==
    /\ Works({"run"}, "run") /\ ~gated /\ begun /\ gated' = TRUE
    /\ UNCHANGED <<rest, outcome, budget>>

(* The provider or a tool fails, or returns the context's error: recorded   *)
(* first, then through the gate.                                            *)
TurnFails ==
    /\ Works({"run", "ended"}, "gate") /\ Record("error")
    /\ UNCHANGED <<gated, rest, claimed, events, stored, budget>>

(* The gate before an error event, and before a done: a stream that ended   *)
(* at the gate emits neither.                                               *)
Gate ==
    /\ \/ Works({"gate"}, "errs") /\ GateOpens /\ gated' = TRUE /\ UNCHANGED terminal
       \/ Works({"answered"}, "claim") /\ GateOpens /\ gated' = TRUE /\ Record("done")
       \/ Works({"gate", "answered"}, "cleanup") /\ GateShut /\ UNCHANGED <<gated, terminal>>
    /\ UNCHANGED <<rest, claimed, events, stored, budget>>

(* The last turn is over with an answer: only the done remains. *)
Answers ==
    /\ Works({"run"}, "answered")
    /\ UNCHANGED <<gated, rest, outcome, budget>>

(* emit("error"). *)
EmitError ==
    /\ Works({"errs"}, "cleanup")
    /\ IF Claims("error") THEN claimed' = TRUE /\ Emit("error") ELSE EmitNothing /\ UNCHANGED claimed
    /\ UNCHANGED <<gated, begun, handing, control, approval, process, terminal, stored, budget>>

(* emit("done"): claimed before the answer is stored; refused, neither the  *)
(* event nor the answer.                                                    *)
ClaimDone ==
    /\ \/ Works({"claim"}, "store") /\ Claims("done") /\ claimed' = TRUE
       \/ Works({"claim"}, "cleanup") /\ ~Claims("done") /\ UNCHANGED claimed
    /\ UNCHANGED <<gated, rest, terminal, events, stored, budget>>

(* storeAnswer: persistAssistantTurn stores the answer or gives up (a       *)
(* conflict, its bound, the server's stop); the done leaves all the same.   *)
StoreAnswer ==
    /\ Works({"store"}, "send")
    /\ stored' \in {"answer", None}
    /\ UNCHANGED <<gated, rest, terminal, claimed, events, budget>>

EmitDone ==
    /\ Works({"send"}, "cleanup") /\ Emit("done")
    /\ UNCHANGED <<gated, begun, handing, control, approval, process, terminal, claimed, stored, budget>>

(* A panic of the worker: recovered, and cleaned up after. *)
Panic ==
    /\ Works({"setup", "run"}, "cleanup") /\ Spend("faults")
    /\ UNCHANGED <<gated, rest, outcome>>

(* The deferred cleanup.  ensureTerminal: an exit without a terminal state  *)
(* is recorded as one and emitted to a client that began.                   *)
Cleanup ==
    /\ Works({"cleanup"}, "leaving")
    /\ IF terminal = None
         THEN /\ terminal' = "error"
              /\ IF begun /\ ~claimed THEN claimed' = TRUE /\ Emit("error")
                                      ELSE EmitNothing /\ UNCHANGED claimed
         ELSE EmitNothing /\ UNCHANGED <<terminal, claimed>>
    /\ CancelContext
    /\ UNCHANGED <<gated, begun, handing, reason, hold, deferred, approval, process, stored, budget>>

(* It leaves the active set; a failed turn may be stored as one. *)
Leave ==
    /\ Works({"leaving"}, "gone")
    /\ stored' \in IF terminal = "error" THEN {None, "failure"} ELSE {stored}
    /\ UNCHANGED <<gated, rest, terminal, claimed, events, budget>>

----------------------------------------------------------------------------
(* Approvals: requestApproval, ResolveApproval, ApplyFixWithApproval. *)

(* The card is registered, published to the other replicas (best effort)    *)
(* and shown; a draining server shows none.                                 *)
Ask ==
    /\ Works({"run"}, "ask") /\ ~draining /\ Spend("cards")
    /\ card' = "shown" /\ decision' = None /\ written' = FALSE
    /\ published' \in {published, TRUE}
    /\ UNCHANGED <<gated, begins, control, outcome, shut, draining, up>>

(* ResolveApproval: the first decision fills the channel; a draining server *)
(* takes no approval.                                                       *)
Resolve ==
    /\ up /\ worker = "ask" /\ decision = None
    /\ \E d \in Decisions : (d = "approved" => ~draining) /\ decision' = d
    /\ UNCHANGED <<worker, gated, begins, control, card, written, outcome, process, budget>>

(* The select of requestApproval, one ready case at a time. *)
TakeDecision ==
    /\ decision # None
    /\ \/ Works({"ask"}, "took") /\ decision = "approved" /\ UNCHANGED card
       \/ Works({"ask"}, "run") /\ decision = "declined" /\ card' = "declined"
    /\ UNCHANGED <<gated, begins, control, decision, written, outcome, process, budget>>

AskTimesOut ==
    /\ Works({"ask"}, "run") /\ card' = "timeout"
    /\ UNCHANGED <<gated, begins, control, decision, written, outcome, process, budget>>

AskCancelled ==
    /\ Works({"ask"}, "ended") /\ Dead /\ card' = "cancelled"
    /\ UNCHANGED <<gated, begins, control, decision, written, outcome, process, budget>>

(* Mutant: an ending stream still starts the fix. *)
HoldAnyway ==
    /\ Works({"took"}, "apply") /\ hold' = TRUE /\ card' = "applying"
    /\ UNCHANGED <<gated, begins, ctx, reason, deferred, decision, written, outcome, process, budget>>

(* holdCancel: refused once a stop was asked for. *)
HoldCancel ==
    /\ \/ Works({"took"}, "apply") /\ reason = None /\ hold' = TRUE /\ card' = "applying"
       \/ Works({"took"}, "ended") /\ reason # None /\ card' = "cancelled" /\ UNCHANGED hold
    /\ UNCHANGED <<gated, begins, ctx, reason, deferred, decision, written, outcome, process, budget>>

(* applyApprovedFix: the fix is written; then it is verified. *)
ApplyFix ==
    /\ Works({"apply"}, "verify") /\ ~Dead /\ written' = TRUE
    /\ UNCHANGED <<gated, begins, control, card, decision, outcome, process, budget>>

(* It was not written, or its outcome is not known: a conflict, a window    *)
(* that ran out, a context that ended, a panic (recoverFixPanic).  A card   *)
(* that says "already-resolved" (the finding is gone) is this one too.      *)
ApplyFails ==
    /\ Works({"apply", "verify"}, IF Dead THEN "ended" ELSE "run")
    /\ written' \in {written, TRUE} /\ card' = "error" /\ Release
    /\ UNCHANGED <<gated, begins, decision, outcome, process, budget>>

(* Mutant: the card is left as it was. *)
VerifySilent ==
    /\ Works({"verify"}, "run") /\ Release
    /\ UNCHANGED <<gated, begins, approval, outcome, process, budget>>

(* The decision event carries the outcome, and the hold ends. *)
Verify ==
    /\ Works({"verify"}, "run") /\ card' = "applied" /\ Release
    /\ UNCHANGED <<gated, begins, decision, written, outcome, process, budget>>

----------------------------------------------------------------------------
(* The server's stop: Shutdown. *)

Drain ==
    /\ up /\ ~draining /\ draining' = TRUE /\ Spend("shutdowns")
    /\ UNCHANGED <<worker, gated, begins, control, approval, outcome, shut, up, published>>

(* cancelAll, then the wait for the workers. *)
ShutdownBegins ==
    /\ up /\ draining /\ shut = "no" /\ shut' = "waiting"
    /\ IF Active THEN Cancel("restarting") ELSE UNCHANGED control
    /\ UNCHANGED <<worker, gated, begins, approval, outcome, draining, up, published, budget>>

(* The budget is spent: forceCancel, held or not. *)
ForceCancel ==
    /\ up /\ shut = "waiting" /\ Active /\ shut' = "forcing"
    /\ CancelContext
    /\ UNCHANGED <<worker, gated, begins, reason, hold, deferred, approval, outcome, draining, up, published, budget>>

(* Mutant: recordTerminal does not claim the event. *)
RecordTerminalUnclaimed ==
    /\ terminal' = "error" /\ UNCHANGED claimed
    /\ IF begun THEN Emit("error") ELSE EmitNothing

(* recordTerminal of forceServerRestarting: the stream's end is recorded,   *)
(* claimed and emitted in the place of its worker.                          *)
RecordTerminal ==
    /\ terminal' = "error" /\ claimed' = TRUE
    /\ IF begun THEN Emit("error") ELSE EmitNothing

Recorded == terminal # None \/ claimed

----------------------------------------------------------------------------

(* What the worker does by itself once its stream is over, and what it does *)
(* while the stream runs.                                                   *)
Unwind ==
    TurnFails \/ Gate \/ EmitError \/ ClaimDone \/ StoreAnswer \/ EmitDone \/ Cleanup \/ Leave
    \/ TakeDecision \/ AskCancelled \/ HoldCancel \/ ApplyFix \/ ApplyFails \/ Verify
Turn ==
    SetupDone \/ SetupFails \/ SetupLeaves \/ Chunk \/ Answers \/ Panic \/ Ask \/ AskTimesOut

(* The steps that touch nothing of the other replicas. *)
StreamStep ==
    \/ Unwind \/ Turn \/ StopHere \/ Deadline \/ Begin \/ BeginReads \/ Resolve
    \/ Drain \/ ShutdownBegins \/ ForceCancel

----------------------------------------------------------------------------
(* Properties. *)

(* Every variable of the stream has its type, and the cancel is held        *)
(* exactly while a fix is applied and verified (holdCancel).                *)
Flags ==
    /\ gated \in BOOLEAN /\ begun \in BOOLEAN /\ handing \in BOOLEAN /\ heard \in BOOLEAN
    /\ hold \in BOOLEAN /\ deferred \in BOOLEAN /\ written \in BOOLEAN /\ claimed \in BOOLEAN
    /\ draining \in BOOLEAN /\ up \in BOOLEAN /\ published \in BOOLEAN
Places ==
    /\ worker \in Workers /\ ctx \in {"live", "cancelled", "deadline"}
    /\ reason \in Reasons \cup {None} /\ card \in Cards \cup {None}
    /\ decision \in Decisions \cup {None} /\ terminal \in Terminals \cup {None}
    /\ stored \in {"answer", "failure", None} /\ events \in Seq(Terminals)
    /\ shut \in {"no", "waiting", "forcing", "forced", "over"}
HeldForApply == hold <=> (worker \in {"apply", "verify"})
StreamTypeOK == Flags /\ Places /\ HeldForApply

(* A stream has one terminal event, and it is the state a resume reports    *)
(* and the conversation keeps: not two when Shutdown ends a stream whose    *)
(* worker is stuck, no answer stored behind a failure the client was told   *)
(* (claimTerminalEvent, recordTerminal).                                    *)
OneTerminalEvent ==
    /\ \A i \in DOMAIN events : events[i] = terminal
    /\ Len(events) <= 1
    /\ stored = "answer" => terminal = "done"
    /\ worker = "gone" => terminal # None

(* What the card says is what happened to the flow, and it is settled       *)
(* before the stream's own end: a card the user declined, let time out or   *)
(* lost to a stop changed nothing, and none is left open by a terminal      *)
(* event of its worker.                                                     *)
CardsTellTruth ==
    /\ card = "applied" => written
    /\ card \in {"declined", "timeout", "cancelled"} => ~written
    /\ events # <<>> /\ shut \in {"no", "waiting"} => card \notin {"shown", "applying"}

(* A stop and an apply do not overlap (holdCancel, R-approvals-c17): a fix  *)
(* is written only before a stop was asked for, or while that stop waits    *)
(* for it, and an apply's context is cancelled by nothing but the end of    *)
(* Shutdown's budget.                                                       *)
ApplyIsWhole ==
    [][/\ written' /\ ~written => reason = None \/ deferred
       /\ hold /\ hold' /\ ctx = "live" /\ ctx' = "cancelled" => shut' = "forcing"]_streamVars

(* A client that has begun is told how its stream ended: what BeginStream   *)
(* does not hand back "is emitted after this request arrived, after the     *)
(* client subscribed, so SSE delivery covers it".                           *)
BegunStreamsHear == worker = "gone" /\ begun /\ ~handing /\ up => heard
=============================================================================
