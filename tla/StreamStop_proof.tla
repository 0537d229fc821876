-------------------------- MODULE StreamStop_proof --------------------------
(***************************************************************************)
(* Proofs about ChatStream and StreamStop, for any budgets and any TTL: a   *)
(* stream has one terminal event, its card tells what happened to the flow, *)
(* a stop and an apply do not overlap, and a stop another replica answered  *)
(* with ok is true.                                                         *)
(***************************************************************************)
EXTENDS StreamStop, TLAPS

----------------------------------------------------------------------------
(* The inductive invariant. *)

(* What the worker's place says of the stream's end: an error is recorded   *)
(* before it is emitted, a done is claimed before the answer is stored, and *)
(* nothing but the end of the worker's way goes with a recorded done.       *)
EndingInOrder ==
    /\ events # <<>> => claimed /\ events = <<terminal>>
    /\ claimed => terminal # None
    /\ worker \in {"gate", "errs"} => terminal = "error"
    /\ worker \in {"claim", "leaving", "gone"} => terminal # None
    /\ worker \in {"store", "send"} => claimed /\ terminal = "done" /\ events = <<>>
    /\ terminal = "done" => worker \in {"claim", "store", "send", "cleanup", "leaving", "gone"}
    /\ stored = "answer" => terminal = "done"

(* An open card belongs to the worker that waits for it or applies it. *)
CardsInOrder ==
    /\ worker \in {"ask", "took"} <=> card = "shown"
    /\ worker \in {"apply", "verify"} <=> card = "applying"
    /\ worker \in {"ask", "took", "apply"} => ~written
    /\ worker = "verify" \/ card = "applied" => written
    /\ card \in {"declined", "timeout", "cancelled"} => ~written

(* An event leaves last, unless Shutdown's budget was spent. *)
EventsAreLast ==
    events # <<>> /\ shut \in {"no", "waiting"} => worker \in {"cleanup", "leaving", "gone"}

(* A stop that finds a hold waits for it. *)
HeldStopsWait == hold => reason = None \/ deferred

(* Shutdown gives nobody up before its end is recorded. *)
ForcedIsRecorded == shut \in {"forced", "over"} => terminal # None \/ worker = "gone"

StreamInv ==
    /\ StreamTypeOK /\ EndingInOrder /\ CardsInOrder /\ EventsAreLast /\ HeldStopsWait
    /\ ForcedIsRecorded

(* A snapshot is in Redis only after the first save, or at the end; a final *)
(* one only at the end; and a saved stream that is not yet marked is at     *)
(* "mark".                                                                  *)
SnapshotInOrder ==
    /\ snapshot = "final" => terminal # None
    /\ mirror = "save" => snapshot = None \/ terminal # None
    /\ mirror = "saved" => published
    /\ mirror = "over" => terminal # None

(* While the key is there it tells the age of the last write; when it is    *)
(* not, no view of Redis has been steady for longer than that age, unless   *)
(* Redis evicted it or Shutdown removed it and ended the subscription.      *)
KeyIsAge ==
    /\ shut = "over" => ~listening
    /\ key > 0 => key + since = TTL
    /\ key = 0 /\ shut # "over" /\ ~evicted => view <= since

(* Between a check that found the last write too old and the write after    *)
(* it, the streams the others know of have been stopped.                    *)
CheckIsFenced ==
    due = "checked" /\ Stale /\ Active =>
        mirror = "save" \/ reason # None \/ terminal # None \/ holes # {}

(* A stop under way has found a stream that was saved, a reply follows a    *)
(* stop, and the owner of a key that is missed has not written for long.    *)
AsksAreFounded ==
    /\ \/ asking \in {"call", "wait", "silent", "probe"}
       \/ answer = "ok" /\ holes = {}
       => mirror # "save" \/ terminal # None
    /\ reply => reason # None \/ ~Active
    /\ asking = "probe" /\ key = 0 /\ shut # "over" /\ ~evicted => Stale \/ holes # {}

(* A stop that was answered ok from a missing key finds the key missing     *)
(* until it is written again.                                               *)
StopHolds ==
    answer = "ok" =>
        \/ reason # None \/ terminal # None \/ ~Active \/ holes # {}
        \/ (Stale /\ key = 0)

Inv ==
    /\ TypeOK /\ StreamInv /\ SnapshotInOrder /\ KeyIsAge /\ CheckIsFenced /\ AsksAreFounded
    /\ StopHolds

----------------------------------------------------------------------------
(* The stream's own steps. *)

(* The first event emitted is the only one. *)
LEMMA EmitFirst ==
    ASSUME NEW what \in Terminals, events = <<>>, events' = Append(events, what)
    PROVE  events' = <<what>> /\ events' # <<>> /\ events' \in Seq(Terminals)
  OBVIOUS

(* The worker's way to the stream's end (TurnFails to Leave) preserves the  *)
(* stream's invariant.                                                      *)
LEMMA EndSteps ==
    ASSUME StreamInv,
           TurnFails \/ Gate \/ EmitError \/ ClaimDone \/ StoreAnswer \/ EmitDone \/ Cleanup \/ Leave
    PROVE  StreamInv'
<1> USE NoneAssumption DEF StreamInv, StreamTypeOK, Flags, Places, HeldForApply, EndingInOrder, CardsInOrder, EventsAreLast,
        HeldStopsWait, ForcedIsRecorded, Workers, Terminals, Cards, Reasons, Decisions,
        Works, rest, begins, control, approval, outcome, process
<1>1. CASE TurnFails
  <2>1. Flags'
    BY <1>1 DEF TurnFails, Record
  <2>2. Places'
    BY <1>1 DEF TurnFails, Record
  <2>3. HeldForApply'
    BY <1>1 DEF TurnFails, Record
  <2>4. EndingInOrder'
    BY <1>1 DEF TurnFails, Record
  <2>5. CardsInOrder' /\ EventsAreLast' /\ HeldStopsWait' /\ ForcedIsRecorded'
    BY <1>1 DEF TurnFails, Record
  <2> QED
    BY <2>1, <2>2, <2>3, <2>4, <2>5, Zenon
<1>2. CASE Gate
  <2>1. Flags'
    BY <1>2 DEF Gate, Record
  <2>2. Places'
    BY <1>2 DEF Gate, Record
  <2>3. HeldForApply'
    BY <1>2 DEF Gate, Record
  <2>4. EndingInOrder'
    BY <1>2 DEF Gate, Record
  <2>5. CardsInOrder' /\ EventsAreLast' /\ HeldStopsWait' /\ ForcedIsRecorded'
    BY <1>2 DEF Gate, Record
  <2> QED
    BY <2>1, <2>2, <2>3, <2>4, <2>5, Zenon
<1>3. CASE EmitError
  <2>1. Flags'
    BY <1>3, EmitFirst DEF EmitError, Claims, Emit, EmitNothing
  <2>2. Places'
    BY <1>3, EmitFirst DEF EmitError, Claims, Emit, EmitNothing
  <2>3. HeldForApply'
    BY <1>3, EmitFirst DEF EmitError, Claims, Emit, EmitNothing
  <2>4. EndingInOrder'
    BY <1>3, EmitFirst DEF EmitError, Claims, Emit, EmitNothing
  <2>5. CardsInOrder' /\ EventsAreLast' /\ HeldStopsWait' /\ ForcedIsRecorded'
    BY <1>3, EmitFirst DEF EmitError, Claims, Emit, EmitNothing
  <2> QED
    BY <2>1, <2>2, <2>3, <2>4, <2>5, Zenon
<1>4. CASE ClaimDone
  <2>1. Flags'
    BY <1>4 DEF ClaimDone, Claims
  <2>2. Places'
    BY <1>4 DEF ClaimDone, Claims
  <2>3. HeldForApply'
    BY <1>4 DEF ClaimDone, Claims
  <2>4. EndingInOrder'
    BY <1>4 DEF ClaimDone, Claims
  <2>5. CardsInOrder' /\ EventsAreLast' /\ HeldStopsWait' /\ ForcedIsRecorded'
    BY <1>4 DEF ClaimDone, Claims
  <2> QED
    BY <2>1, <2>2, <2>3, <2>4, <2>5, Zenon
<1>5. CASE StoreAnswer
  <2>1. Flags'
    BY <1>5 DEF StoreAnswer
  <2>2. Places'
    BY <1>5 DEF StoreAnswer
  <2>3. HeldForApply'
    BY <1>5 DEF StoreAnswer
  <2>4. EndingInOrder'
    BY <1>5 DEF StoreAnswer
  <2>5. CardsInOrder' /\ EventsAreLast' /\ HeldStopsWait' /\ ForcedIsRecorded'
    BY <1>5 DEF StoreAnswer
  <2> QED
    BY <2>1, <2>2, <2>3, <2>4, <2>5, Zenon
<1>6. CASE EmitDone
  <2>1. Flags'
    BY <1>6, EmitFirst DEF EmitDone, Emit
  <2>2. Places'
    BY <1>6, EmitFirst DEF EmitDone, Emit
  <2>3. HeldForApply'
    BY <1>6, EmitFirst DEF EmitDone, Emit
  <2>4. EndingInOrder'
    BY <1>6, EmitFirst DEF EmitDone, Emit
  <2>5. CardsInOrder' /\ EventsAreLast' /\ HeldStopsWait' /\ ForcedIsRecorded'
    BY <1>6, EmitFirst DEF EmitDone, Emit
  <2> QED
    BY <2>1, <2>2, <2>3, <2>4, <2>5, Zenon
<1>7. CASE Cleanup
  <2>1. Flags'
    BY <1>7, EmitFirst DEF Cleanup, Emit, EmitNothing, CancelContext, Dead
  <2>2. Places'
    BY <1>7, EmitFirst DEF Cleanup, Emit, EmitNothing, CancelContext, Dead
  <2>3. HeldForApply'
    BY <1>7, EmitFirst DEF Cleanup, Emit, EmitNothing, CancelContext, Dead
  <2>4. EndingInOrder'
    BY <1>7, EmitFirst DEF Cleanup, Emit, EmitNothing, CancelContext, Dead
  <2>5. CardsInOrder' /\ EventsAreLast' /\ HeldStopsWait' /\ ForcedIsRecorded'
    BY <1>7, EmitFirst DEF Cleanup, Emit, EmitNothing, CancelContext, Dead
  <2> QED
    BY <2>1, <2>2, <2>3, <2>4, <2>5, Zenon
<1>8. CASE Leave
  <2>1. Flags'
    BY <1>8 DEF Leave
  <2>2. Places'
    BY <1>8 DEF Leave
  <2>3. HeldForApply'
    BY <1>8 DEF Leave
  <2>4. EndingInOrder'
    BY <1>8 DEF Leave
  <2>5. CardsInOrder' /\ EventsAreLast' /\ HeldStopsWait' /\ ForcedIsRecorded'
    BY <1>8 DEF Leave
  <2> QED
    BY <2>1, <2>2, <2>3, <2>4, <2>5, Zenon
<1> QED
  BY <1>1, <1>2, <1>3, <1>4, <1>5, <1>6, <1>7, <1>8

(* A cancel has a reason, and waits for an apply that holds it. *)
LEMMA CancelReason ==
    ASSUME StreamInv, NEW why \in Reasons, Cancel(why)
    PROVE  /\ ctx' \in {"live", "cancelled", "deadline"}
           /\ reason' \in Reasons /\ reason' # None
           /\ deferred' \in BOOLEAN /\ hold' = hold
           /\ hold' => deferred'
<1> USE NoneAssumption DEF StreamInv, StreamTypeOK, Flags, Places, HeldForApply, HeldStopsWait, Cancel, CancelContext, Dead
<1>1. deferred' \in BOOLEAN /\ hold' = hold
  OBVIOUS
<1>2. ctx' \in {"live", "cancelled", "deadline"} /\ reason' \in Reasons /\ reason' # None
  BY DEF Reasons
<1>3. hold' => deferred'
  OBVIOUS
<1> QED
  BY <1>1, <1>2, <1>3

(* The provider's turns preserve the stream's invariant. *)
LEMMA TurnSteps ==
    ASSUME StreamInv, SetupDone \/ SetupFails \/ SetupLeaves \/ Chunk \/ Answers \/ Panic
    PROVE  StreamInv'
<1> USE NoneAssumption DEF StreamInv, StreamTypeOK, Flags, Places, HeldForApply, EndingInOrder, CardsInOrder, EventsAreLast,
        HeldStopsWait, ForcedIsRecorded, Workers, Terminals, Cards, Reasons, Decisions,
        Works, rest, begins, control, approval, outcome, process
<1>1. CASE SetupDone
  BY <1>1 DEF SetupDone
<1>2. CASE SetupFails
  BY <1>2 DEF SetupFails, Record
<1>3. CASE SetupLeaves
  BY <1>3 DEF SetupLeaves
<1>4. CASE Chunk
  BY <1>4 DEF Chunk
<1>5. CASE Answers
  BY <1>5 DEF Answers
<1>6. CASE Panic
  BY <1>6 DEF Panic
<1> QED
  BY <1>1, <1>2, <1>3, <1>4, <1>5, <1>6

(* The approval of a fix and its application preserve the stream's          *)
(* invariant.                                                               *)
LEMMA ApprovalSteps ==
    ASSUME StreamInv,
           \/ Ask \/ Resolve \/ TakeDecision \/ AskTimesOut \/ AskCancelled
           \/ HoldCancel \/ ApplyFix \/ ApplyFails \/ Verify
    PROVE  StreamInv'
<1> USE NoneAssumption DEF StreamInv, StreamTypeOK, Flags, Places, HeldForApply, EndingInOrder, CardsInOrder, EventsAreLast,
        HeldStopsWait, ForcedIsRecorded, Workers, Terminals, Cards, Reasons, Decisions,
        Works, rest, begins, control, approval, outcome, process
<1>1. CASE Ask
  <2>1. Flags'
    BY <1>1 DEF Ask
  <2>2. Places'
    BY <1>1 DEF Ask
  <2>3. HeldForApply'
    BY <1>1 DEF Ask
  <2>4. EndingInOrder'
    BY <1>1 DEF Ask
  <2>5. CardsInOrder' /\ EventsAreLast' /\ HeldStopsWait' /\ ForcedIsRecorded'
    BY <1>1 DEF Ask
  <2> QED
    BY <2>1, <2>2, <2>3, <2>4, <2>5, Zenon
<1>2. CASE Resolve
  BY <1>2 DEF Resolve
<1>3. CASE TakeDecision
  <2>1. Flags'
    BY <1>3 DEF TakeDecision
  <2>2. Places'
    BY <1>3 DEF TakeDecision
  <2>3. HeldForApply'
    BY <1>3 DEF TakeDecision
  <2>4. EndingInOrder'
    BY <1>3 DEF TakeDecision
  <2>5. CardsInOrder' /\ EventsAreLast' /\ HeldStopsWait' /\ ForcedIsRecorded'
    BY <1>3 DEF TakeDecision
  <2> QED
    BY <2>1, <2>2, <2>3, <2>4, <2>5, Zenon
<1>4. CASE AskTimesOut
  BY <1>4 DEF AskTimesOut
<1>5. CASE AskCancelled
  BY <1>5 DEF AskCancelled
<1>6. CASE HoldCancel
  <2>1. Flags'
    BY <1>6 DEF HoldCancel
  <2>2. Places'
    BY <1>6 DEF HoldCancel
  <2>3. HeldForApply'
    BY <1>6 DEF HoldCancel
  <2>4. EndingInOrder'
    BY <1>6 DEF HoldCancel
  <2>5. CardsInOrder' /\ EventsAreLast' /\ HeldStopsWait' /\ ForcedIsRecorded'
    BY <1>6 DEF HoldCancel
  <2> QED
    BY <2>1, <2>2, <2>3, <2>4, <2>5, Zenon
<1>7. CASE ApplyFix
  BY <1>7 DEF ApplyFix
<1>8. CASE ApplyFails
  <2>1. Flags'
    BY <1>8 DEF ApplyFails, Release, CancelContext, Dead
  <2>2. Places'
    BY <1>8 DEF ApplyFails, Release, CancelContext, Dead
  <2>3. HeldForApply'
    BY <1>8 DEF ApplyFails, Release, CancelContext, Dead
  <2>4. EndingInOrder'
    BY <1>8 DEF ApplyFails, Release, CancelContext, Dead
  <2>5. CardsInOrder' /\ EventsAreLast' /\ HeldStopsWait' /\ ForcedIsRecorded'
    BY <1>8 DEF ApplyFails, Release, CancelContext, Dead
  <2> QED
    BY <2>1, <2>2, <2>3, <2>4, <2>5, Zenon
<1>9. CASE Verify
  <2>1. Flags'
    BY <1>9 DEF Verify, Release, CancelContext, Dead
  <2>2. Places'
    BY <1>9 DEF Verify, Release, CancelContext, Dead
  <2>3. HeldForApply'
    BY <1>9 DEF Verify, Release, CancelContext, Dead
  <2>4. EndingInOrder'
    BY <1>9 DEF Verify, Release, CancelContext, Dead
  <2>5. CardsInOrder' /\ EventsAreLast' /\ HeldStopsWait' /\ ForcedIsRecorded'
    BY <1>9 DEF Verify, Release, CancelContext, Dead
  <2> QED
    BY <2>1, <2>2, <2>3, <2>4, <2>5, Zenon
<1> QED
  BY <1>1, <1>2, <1>3, <1>4, <1>5, <1>6, <1>7, <1>8, <1>9

(* The stops, the begin handshake and the first half of Shutdown preserve   *)
(* the stream's invariant.                                                  *)
LEMMA ControlSteps ==
    ASSUME StreamInv,
           StopHere \/ Deadline \/ Begin \/ BeginReads \/ Drain \/ ShutdownBegins \/ ForceCancel
    PROVE  StreamInv'
<1> USE NoneAssumption DEF StreamInv, StreamTypeOK, Flags, Places, HeldForApply, EndingInOrder, CardsInOrder, EventsAreLast,
        HeldStopsWait, ForcedIsRecorded, Workers, Terminals, Cards, Reasons, Decisions,
        Works, rest, begins, control, approval, outcome, process
<1>c. \A why \in Reasons : Cancel(why) =>
        /\ ctx' \in {"live", "cancelled", "deadline"}
        /\ reason' \in Reasons /\ reason' # None
        /\ deferred' \in BOOLEAN /\ hold' = hold
        /\ hold' => deferred'
  BY CancelReason
<1>1. CASE StopHere
  <2>1. Flags'
    BY <1>1, <1>c DEF StopHere
  <2>2. Places'
    BY <1>1, <1>c DEF StopHere
  <2>3. HeldForApply'
    BY <1>1, <1>c DEF StopHere
  <2>4. EndingInOrder'
    BY <1>1, <1>c DEF StopHere
  <2>5. CardsInOrder' /\ EventsAreLast' /\ HeldStopsWait' /\ ForcedIsRecorded'
    BY <1>1, <1>c DEF StopHere
  <2> QED
    BY <2>1, <2>2, <2>3, <2>4, <2>5, Zenon
<1>2. CASE Deadline
  BY <1>2 DEF Deadline
<1>3. CASE Begin
  BY <1>3 DEF Begin
<1>4. CASE BeginReads
  <2>1. Flags'
    BY <1>4 DEF BeginReads
  <2>2. Places'
    BY <1>4 DEF BeginReads
  <2>3. HeldForApply'
    BY <1>4 DEF BeginReads
  <2>4. EndingInOrder'
    BY <1>4 DEF BeginReads
  <2>5. CardsInOrder' /\ EventsAreLast' /\ HeldStopsWait' /\ ForcedIsRecorded'
    BY <1>4 DEF BeginReads
  <2> QED
    BY <2>1, <2>2, <2>3, <2>4, <2>5, Zenon
<1>5. CASE Drain
  BY <1>5 DEF Drain
<1>6. CASE ShutdownBegins
  <2>1. Flags'
    BY <1>6, <1>c DEF ShutdownBegins
  <2>2. Places'
    BY <1>6, <1>c DEF ShutdownBegins
  <2>3. HeldForApply'
    BY <1>6, <1>c DEF ShutdownBegins
  <2>4. EndingInOrder'
    BY <1>6, <1>c DEF ShutdownBegins
  <2>5. CardsInOrder' /\ EventsAreLast' /\ HeldStopsWait' /\ ForcedIsRecorded'
    BY <1>6, <1>c DEF ShutdownBegins
  <2> QED
    BY <2>1, <2>2, <2>3, <2>4, <2>5, Zenon
<1>7. CASE ForceCancel
  <2>1. Flags'
    BY <1>7 DEF ForceCancel, CancelContext, Dead
  <2>2. Places'
    BY <1>7 DEF ForceCancel, CancelContext, Dead
  <2>3. HeldForApply'
    BY <1>7 DEF ForceCancel, CancelContext, Dead
  <2>4. EndingInOrder'
    BY <1>7 DEF ForceCancel, CancelContext, Dead
  <2>5. CardsInOrder' /\ EventsAreLast' /\ HeldStopsWait' /\ ForcedIsRecorded'
    BY <1>7 DEF ForceCancel, CancelContext, Dead
  <2> QED
    BY <2>1, <2>2, <2>3, <2>4, <2>5, Zenon
<1> QED
  BY <1>1, <1>2, <1>3, <1>4, <1>5, <1>6, <1>7

(* Every step of the stream preserves the stream's invariant. *)
LEMMA StreamSteps == StreamInv /\ StreamStep => StreamInv'
  BY EndSteps, TurnSteps, ApprovalSteps, ControlSteps DEF StreamStep, Unwind, Turn

----------------------------------------------------------------------------
(* The steps of the owner's liveness, of the stop at the other replica and  *)
(* of their environment.                                                    *)

(* The steps that leave the whole stream as it was, but for the budget. *)
Aside ==
    \/ Save \/ SaveFinal \/ Resubscribe \/ Tick \/ LinkBreaks \/ Evict \/ Lost
    \/ AskStop \/ Lookup \/ Call \/ Answered \/ NoReply \/ OwnerGone \/ Conclude

(* Such a step moves nothing of the stream. *)
LEMMA AsideStep ==
    ASSUME Aside
    PROVE  UNCHANGED <<worker, gated, begins, control, approval, outcome, process>>
  BY DEF Aside, Save, SaveFinal, Resubscribe, Tick, LinkBreaks, Evict, Lost,
     AskStop, Lookup, Call, Answered, NoReply, OwnerGone, Conclude, streamVars

(* The steps by what they may do to the stream. *)
LEMMA NextSplits ==
    ASSUME [Next]_vars
    PROVE  \/ StreamStep /\ UNCHANGED clusterVars
           \/ Aside \/ Mark \/ CheckStale \/ WriteKey \/ OwnerCancel \/ ForceServerRestarting
           \/ StopCommands \/ Exit \/ Crash
           \/ UNCHANGED vars
  BY DEF Next, Owner, Origin, Aside

(* The other steps preserve the stream's invariant too. *)
LEMMA OtherSteps ==
    ASSUME StreamInv,
           \/ Aside \/ Mark \/ CheckStale \/ WriteKey \/ OwnerCancel \/ ForceServerRestarting
           \/ StopCommands \/ Exit \/ Crash \/ UNCHANGED vars
    PROVE  StreamInv'
<1> USE NoneAssumption DEF StreamInv, StreamTypeOK, Flags, Places, HeldForApply, EndingInOrder, CardsInOrder, EventsAreLast,
        HeldStopsWait, ForcedIsRecorded, Workers, Terminals, Cards, Reasons, Decisions,
        Works, rest, begins, control, approval, outcome, process,
        vars, streamVars, clusterVars, redis, clocks, request
<1>c. \A why \in Reasons : Cancel(why) =>
        /\ ctx' \in {"live", "cancelled", "deadline"}
        /\ reason' \in Reasons /\ reason' # None
        /\ deferred' \in BOOLEAN /\ hold' = hold
        /\ hold' => deferred'
  BY CancelReason
<1>1. CASE Aside
  BY <1>1, AsideStep
<1>2. CASE Mark
  BY <1>2 DEF Mark
<1>3. CASE CheckStale
  <2>1. Flags'
    BY <1>3, <1>c DEF CheckStale, Fence
  <2>2. Places'
    BY <1>3, <1>c DEF CheckStale, Fence
  <2>3. HeldForApply'
    BY <1>3, <1>c DEF CheckStale, Fence
  <2>4. EndingInOrder'
    BY <1>3, <1>c DEF CheckStale, Fence
  <2>5. CardsInOrder' /\ EventsAreLast' /\ HeldStopsWait' /\ ForcedIsRecorded'
    BY <1>3, <1>c DEF CheckStale, Fence
  <2> QED
    BY <2>1, <2>2, <2>3, <2>4, <2>5, Zenon
<1>10. CASE WriteKey
  <2>1. Flags'
    BY <1>10, <1>c DEF WriteKey, Fence
  <2>2. Places'
    BY <1>10, <1>c DEF WriteKey, Fence
  <2>3. HeldForApply'
    BY <1>10, <1>c DEF WriteKey, Fence
  <2>4. EndingInOrder'
    BY <1>10, <1>c DEF WriteKey, Fence
  <2>5. CardsInOrder' /\ EventsAreLast' /\ HeldStopsWait' /\ ForcedIsRecorded'
    BY <1>10, <1>c DEF WriteKey, Fence
  <2> QED
    BY <2>1, <2>2, <2>3, <2>4, <2>5, Zenon
<1>4. CASE OwnerCancel
  <2>1. Flags'
    BY <1>4, <1>c DEF OwnerCancel
  <2>2. Places'
    BY <1>4, <1>c DEF OwnerCancel
  <2>3. HeldForApply'
    BY <1>4, <1>c DEF OwnerCancel
  <2>4. EndingInOrder'
    BY <1>4, <1>c DEF OwnerCancel
  <2>5. CardsInOrder' /\ EventsAreLast' /\ HeldStopsWait' /\ ForcedIsRecorded'
    BY <1>4, <1>c DEF OwnerCancel
  <2> QED
    BY <2>1, <2>2, <2>3, <2>4, <2>5, Zenon
<1>5. CASE ForceServerRestarting
  <2>1. Flags'
    BY <1>5, EmitFirst
       DEF ForceServerRestarting, RecordTerminal, Recorded, Emit, EmitNothing, Active
  <2>2. Places'
    BY <1>5, EmitFirst
       DEF ForceServerRestarting, RecordTerminal, Recorded, Emit, EmitNothing, Active
  <2>3. HeldForApply'
    BY <1>5, EmitFirst
       DEF ForceServerRestarting, RecordTerminal, Recorded, Emit, EmitNothing, Active
  <2>4. EndingInOrder'
    BY <1>5, EmitFirst
       DEF ForceServerRestarting, RecordTerminal, Recorded, Emit, EmitNothing, Active
  <2>5. CardsInOrder' /\ EventsAreLast' /\ HeldStopsWait' /\ ForcedIsRecorded'
    BY <1>5, EmitFirst
       DEF ForceServerRestarting, RecordTerminal, Recorded, Emit, EmitNothing, Active
  <2> QED
    BY <2>1, <2>2, <2>3, <2>4, <2>5, Zenon
<1>6. CASE StopCommands
  BY <1>6 DEF StopCommands
<1>7. CASE Exit
  <2>1. Flags'
    BY <1>7 DEF Exit
  <2>2. Places'
    BY <1>7 DEF Exit
  <2>3. HeldForApply'
    BY <1>7 DEF Exit
  <2>4. EndingInOrder'
    BY <1>7 DEF Exit
  <2>5. CardsInOrder' /\ EventsAreLast' /\ HeldStopsWait' /\ ForcedIsRecorded'
    BY <1>7 DEF Exit
  <2> QED
    BY <2>1, <2>2, <2>3, <2>4, <2>5, Zenon
<1>8. CASE Crash
  <2>1. Flags'
    BY <1>8 DEF Crash
  <2>2. Places'
    BY <1>8 DEF Crash
  <2>3. HeldForApply'
    BY <1>8 DEF Crash
  <2>4. EndingInOrder'
    BY <1>8 DEF Crash
  <2>5. CardsInOrder' /\ EventsAreLast' /\ HeldStopsWait' /\ ForcedIsRecorded'
    BY <1>8 DEF Crash
  <2> QED
    BY <2>1, <2>2, <2>3, <2>4, <2>5, Zenon
<1>9. CASE UNCHANGED vars
  BY <1>9
<1> QED
  BY <1>1, <1>2, <1>3, <1>4, <1>5, <1>6, <1>7, <1>8, <1>9, <1>10

(* What has happened to a stream stays so: it was asked to stop, its end is *)
(* recorded, it is no longer active, it is marked as published, its Shutdown  *)
(* is over, which only StopCommands makes it.                               *)
Irrevocable ==
    /\ reason # None => reason' # None
    /\ terminal # None => terminal' # None
    /\ ~Active => ~Active'
    /\ published => published'
    /\ shut = "over" => shut' = "over"
    /\ shut' = "over" => shut = "over" \/ StopCommands

(* No step takes any of this back. *)
LEMMA IrrevocableStep == StreamInv /\ [Next]_vars => Irrevocable
<1> SUFFICES ASSUME StreamInv, [Next]_vars PROVE Irrevocable
  OBVIOUS
<1> USE NoneAssumption DEF StreamInv, StreamTypeOK, Flags, Places, HeldForApply, EndingInOrder, CardsInOrder, EventsAreLast,
        HeldStopsWait, ForcedIsRecorded, Workers, Terminals, Cards, Reasons, Decisions,
        Works, rest, begins, control, approval, outcome, process,
        vars, streamVars, clusterVars, redis, clocks, request
<1> USE DEF Irrevocable, Active
<1>c. \A why \in Reasons : Cancel(why) => reason' # None
  BY CancelReason
<1>1. CASE Unwind
  BY <1>1 DEF Unwind, TurnFails, Gate, EmitError, ClaimDone, StoreAnswer, EmitDone, Cleanup, Leave,
       TakeDecision, AskCancelled, HoldCancel, ApplyFix, ApplyFails, Verify, Record, Release
<1>2. CASE Turn
  BY <1>2
     DEF Turn, SetupDone, SetupFails, SetupLeaves, Chunk, Answers, Panic, Ask,
         AskTimesOut, Record
<1>3. CASE StopHere \/ ShutdownBegins \/ CheckStale \/ WriteKey \/ OwnerCancel
  BY <1>3, <1>c DEF StopHere, ShutdownBegins, CheckStale, WriteKey, Fence, OwnerCancel
<1>4. CASE Deadline \/ Begin \/ BeginReads \/ Resolve \/ Drain \/ ForceCancel
  BY <1>4 DEF Deadline, Begin, BeginReads, Resolve, Drain, ForceCancel
<1>5. CASE Mark \/ ForceServerRestarting \/ StopCommands \/ Exit \/ Crash
  BY <1>5 DEF Mark, ForceServerRestarting, RecordTerminal, StopCommands, Exit, Crash
<1>6. CASE Aside \/ UNCHANGED vars
  BY <1>6, AsideStep
<1> QED
  BY <1>1, <1>2, <1>3, <1>4, <1>5, <1>6, NextSplits DEF StreamStep

----------------------------------------------------------------------------
(* The parts of the invariant that are about the other replicas. *)

(* The cluster's own variables have their types. *)
ClusterTypeOK ==
    /\ mirror \in {"save", "mark", "saved", "over"} /\ snapshot \in {"live", "final", None}
    /\ key \in 0..TTL /\ since \in 0..TTL /\ view \in 0..TTL
    /\ due \in {"no", "due", "stalled", "checked", "stuck"}
    /\ holes \subseteq {"unmarked", "stalled", "missed", "evicted", "restarted"}
    /\ asking \in {"no", "lookup", "call", "wait", "silent", "probe", "over"}
    /\ answer \in {"ok", "unreachable", "unknown", None}
ClusterFlags == listening \in BOOLEAN /\ command \in BOOLEAN /\ reply \in BOOLEAN /\ evicted \in BOOLEAN
ListensUp == listening => up

(* The type invariant by its parts, before and after a step. *)
LEMMA TypeParts ==
    /\ TypeOK <=> StreamTypeOK /\ ClusterTypeOK /\ ClusterFlags /\ ListensUp
    /\ TypeOK' <=> StreamTypeOK' /\ ClusterTypeOK' /\ ClusterFlags' /\ ListensUp'
  BY Zenon DEF TypeOK, ClusterTypeOK, ClusterFlags, ListensUp

(* The cluster's variables keep their types. *)
LEMMA ClusterTypeStep ==
    ASSUME Inv, [Next]_vars
    PROVE  ClusterTypeOK' /\ ClusterFlags' /\ ListensUp'
<1> USE TypeParts, TimesAssumption DEF ClusterTypeOK, ClusterFlags, ListensUp, vars, streamVars,
        clusterVars, redis, clocks, request, process, Flags, StreamTypeOK, Inv, KeyIsAge
<1>1. CASE StreamStep /\ UNCHANGED clusterVars
  <2>1. up' = up
    BY <1>1
       DEF StreamStep, Unwind, Turn, TurnFails, Gate, EmitError, ClaimDone,
           StoreAnswer, EmitDone,
         Cleanup, Leave, TakeDecision, AskCancelled, HoldCancel, ApplyFix, ApplyFails, Verify, SetupDone,
         SetupFails, SetupLeaves, Chunk, Answers, Panic, Ask, AskTimesOut, StopHere, ShutdownBegins,
         Deadline, Begin, BeginReads, Resolve, Drain, ForceCancel, rest
  <2> QED
    BY <1>1, <2>1
<1>2. CASE Save
  BY <1>2 DEF Save
<1>3. CASE SaveFinal
  BY <1>3 DEF SaveFinal
<1>4. CASE Resubscribe
  BY <1>4 DEF Resubscribe
<1>5. CASE Tick
  BY <1>5 DEF Tick
<1>6. CASE LinkBreaks
  <2>1. ClusterTypeOK'
    BY <1>6 DEF LinkBreaks
  <2>2. ClusterFlags'
    BY <1>6 DEF LinkBreaks
  <2>3. ListensUp'
    BY <1>6 DEF LinkBreaks
  <2> QED
    BY <2>1, <2>2, <2>3, Zenon
<1>7. CASE Lost
  <2>1. ClusterTypeOK'
    BY <1>7 DEF Lost
  <2>2. ClusterFlags'
    BY <1>7 DEF Lost
  <2>3. ListensUp'
    BY <1>7 DEF Lost
  <2> QED
    BY <2>1, <2>2, <2>3, Zenon
<1>8. CASE AskStop
  BY <1>8 DEF AskStop
<1>9. CASE Lookup
  BY <1>9 DEF Lookup
<1>10. CASE Call
  BY <1>10 DEF Call
<1>11. CASE Answered
  <2>1. ClusterTypeOK'
    BY <1>11 DEF Answered
  <2>2. ClusterFlags'
    BY <1>11 DEF Answered
  <2>3. ListensUp'
    BY <1>11 DEF Answered
  <2> QED
    BY <2>1, <2>2, <2>3, Zenon
<1>12. CASE NoReply
  BY <1>12 DEF NoReply
<1>13. CASE Conclude
  BY <1>13 DEF Conclude
<1>14. CASE Mark
  BY <1>14 DEF Mark
<1>15. CASE CheckStale
  <2>1. ClusterTypeOK'
    BY <1>15 DEF CheckStale, Fence
  <2>2. ClusterFlags'
    BY <1>15 DEF CheckStale, Fence
  <2>3. ListensUp'
    BY <1>15 DEF CheckStale, Fence
  <2> QED
    BY <2>1, <2>2, <2>3, Zenon
<1>22. CASE WriteKey
  <2>1. ClusterTypeOK'
    BY <1>22 DEF WriteKey, Fence
  <2>2. ClusterFlags'
    BY <1>22 DEF WriteKey, Fence
  <2>3. ListensUp'
    BY <1>22 DEF WriteKey, Fence
  <2> QED
    BY <2>1, <2>2, <2>3, Zenon
<1>23. CASE Evict
  <2>1. ClusterTypeOK'
    BY <1>23 DEF Evict
  <2>2. ClusterFlags'
    BY <1>23 DEF Evict
  <2>3. ListensUp'
    BY <1>23 DEF Evict
  <2> QED
    BY <2>1, <2>2, <2>3, Zenon
<1>24. CASE OwnerGone
  BY <1>24 DEF OwnerGone
<1>16. CASE OwnerCancel
  <2>1. ClusterTypeOK'
    BY <1>16 DEF OwnerCancel
  <2>2. ClusterFlags'
    BY <1>16 DEF OwnerCancel
  <2>3. ListensUp'
    BY <1>16 DEF OwnerCancel
  <2> QED
    BY <2>1, <2>2, <2>3, Zenon
<1>17. CASE ForceServerRestarting
  BY <1>17 DEF ForceServerRestarting
<1>18. CASE StopCommands
  <2>1. ClusterTypeOK'
    BY <1>18 DEF StopCommands
  <2>2. ClusterFlags'
    BY <1>18 DEF StopCommands
  <2>3. ListensUp'
    BY <1>18 DEF StopCommands
  <2> QED
    BY <2>1, <2>2, <2>3, Zenon
<1>19. CASE Exit
  <2>1. ClusterTypeOK'
    BY <1>19 DEF Exit
  <2>2. ClusterFlags'
    BY <1>19 DEF Exit
  <2>3. ListensUp'
    BY <1>19 DEF Exit
  <2> QED
    BY <2>1, <2>2, <2>3, Zenon
<1>20. CASE Crash
  <2>1. ClusterTypeOK'
    BY <1>20 DEF Crash
  <2>2. ClusterFlags'
    BY <1>20 DEF Crash
  <2>3. ListensUp'
    BY <1>20 DEF Crash
  <2> QED
    BY <2>1, <2>2, <2>3, Zenon
<1>21. CASE UNCHANGED vars
  BY <1>21
<1> QED
  BY <1>1, <1>2, <1>3, <1>4, <1>5, <1>6, <1>7, <1>8, <1>9, <1>10, <1>11, <1>12,
     <1>13, <1>14, <1>15, <1>16, <1>17, <1>18, <1>19, <1>20, <1>21, <1>22, <1>23,
     <1>24
     DEF Next, Owner, Origin

(* The snapshot, its mirror and the mark keep their order. *)
LEMMA SnapshotStep ==
    ASSUME Inv, [Next]_vars
    PROVE  SnapshotInOrder'
<1>k. Irrevocable
  BY IrrevocableStep DEF Inv
<1> USE <1>k, NoneAssumption, AbsentAssumption DEF Inv, StreamInv, EndingInOrder, SnapshotInOrder,
        Irrevocable, clusterVars, vars, redis
<1>1. CASE StreamStep /\ UNCHANGED clusterVars
  BY <1>1
<1>2. CASE Save \/ Mark
  BY <1>2 DEF Save, Mark
<1>3. CASE SaveFinal \/ ForceServerRestarting
  BY <1>3 DEF SaveFinal, ForceServerRestarting, RecordTerminal, Terminals
<1>4. CASE LinkBreaks \/ Evict \/ Conclude
  BY <1>4 DEF LinkBreaks, Evict, Conclude
<1>5. CASE CheckStale \/ WriteKey \/ Resubscribe \/ OwnerCancel \/ StopCommands \/ Exit \/ Tick \/ Lost
           \/ Crash
  BY <1>5 DEF CheckStale, WriteKey, Resubscribe, OwnerCancel, StopCommands, Exit, Tick, Lost, Crash
<1>6. CASE AskStop \/ Lookup \/ Call \/ Answered \/ NoReply \/ OwnerGone \/ UNCHANGED vars
  BY <1>6 DEF AskStop, Lookup, Call, Answered, NoReply, OwnerGone
<1> QED
  BY <1>1, <1>2, <1>3, <1>4, <1>5, <1>6 DEF Next, Owner, Origin

(* The key tells the age of the last write, or no view has been steady for  *)
(* longer than that.                                                        *)
LEMMA KeyStep ==
    ASSUME Inv, [Next]_vars
    PROVE  KeyIsAge'
<1> USE TypeParts, TimesAssumption DEF Inv, ClusterTypeOK, KeyIsAge, clusterVars, vars, clocks
<1>1. CASE StopCommands
  BY <1>1 DEF StopCommands
<1>2. CASE ~StopCommands
  <2>1. shut' = "over" <=> shut = "over"
    BY <1>2, IrrevocableStep DEF Irrevocable
  <2> USE <2>1
  <2>2. CASE StreamStep /\ UNCHANGED clusterVars
    BY <2>2
  <2>3. CASE CheckStale \/ WriteKey
    BY <2>3 DEF CheckStale, WriteKey
  <2>4. CASE Tick
    BY <2>4 DEF Tick
  <2>5. CASE LinkBreaks \/ Evict
    BY <2>5 DEF LinkBreaks, Evict
  <2>6. CASE Save \/ Mark \/ SaveFinal \/ OwnerCancel \/ Exit \/ Lost
    BY <2>6 DEF Save, Mark, SaveFinal, OwnerCancel, Exit, Lost
  <2>7. CASE Resubscribe \/ ForceServerRestarting \/ Crash
    BY <2>7 DEF Resubscribe, ForceServerRestarting, Crash
  <2>8. CASE Origin \/ UNCHANGED vars
    BY <2>8 DEF Origin, AskStop, Lookup, Call, Answered, NoReply, OwnerGone, Conclude
  <2> QED
    BY <1>2, <2>2, <2>3, <2>4, <2>5, <2>6, <2>7, <2>8 DEF Next, Owner
<1> QED
  BY <1>1, <1>2

(* What a check has fenced stays so until the write. *)
LEMMA CheckStep ==
    ASSUME Inv, [Next]_vars
    PROVE  CheckIsFenced'
<1>k. Irrevocable
  BY IrrevocableStep DEF Inv
<1>c. \A why \in Reasons : Cancel(why) => reason' # None
  BY CancelReason DEF Inv
<1> USE <1>k, TypeParts, TimesAssumption, NoneAssumption DEF Inv, ClusterTypeOK, CheckIsFenced, Irrevocable,
        Stale, Writing, clusterVars, vars, clocks, redis, request
<1>1. CASE StreamStep /\ UNCHANGED clusterVars
  BY <1>1
<1>2. CASE CheckStale
  BY <1>2, <1>c DEF CheckStale, Fence, SnapshotInOrder, Reasons, process, outcome, Active
<1>3. CASE WriteKey
  BY <1>3 DEF WriteKey
<1>4. CASE Tick
  BY <1>4 DEF Tick, StreamInv, ForcedIsRecorded, process, outcome, Active
<1>5. CASE Save
  BY <1>5 DEF Save
<1>6. CASE Mark \/ SaveFinal \/ Resubscribe \/ ForceServerRestarting
  BY <1>6
     DEF Mark, SaveFinal, Resubscribe, ForceServerRestarting, StreamInv,
         EndingInOrder, outcome
<1>7. CASE OwnerCancel \/ StopCommands \/ Exit \/ LinkBreaks \/ Evict \/ Lost \/ Crash
  BY <1>7 DEF OwnerCancel, StopCommands, Exit, LinkBreaks, Evict, Lost, Crash
<1>8. CASE Origin \/ UNCHANGED vars
  BY <1>8 DEF Origin, AskStop, Lookup, Call, Answered, NoReply, OwnerGone, Conclude
<1> QED
  BY <1>1, <1>2, <1>3, <1>4, <1>5, <1>6, <1>7, <1>8 DEF Next, Owner

(* A stop under way is about a saved stream, a reply follows a stop, and an *)
(* owner whose key is missed has not written for long.                      *)
LEMMA AskStep ==
    ASSUME Inv, [Next]_vars
    PROVE  AsksAreFounded'
<1>k. Irrevocable
  BY IrrevocableStep DEF Inv
<1>c. \A why \in Reasons : Cancel(why) => reason' # None
  BY CancelReason DEF Inv
<1> USE <1>k, TypeParts, TimesAssumption, AbsentAssumption DEF Inv, ClusterTypeOK, SnapshotInOrder,
        AsksAreFounded, Irrevocable, Stale, clusterVars, vars, redis, clocks, request
<1>1. CASE StreamStep /\ UNCHANGED clusterVars
  BY <1>1
<1>2. CASE OwnerCancel
  BY <1>2, <1>c DEF OwnerCancel, Reasons, process, Active
<1>3. CASE AskStop
  BY <1>3 DEF AskStop, process
<1>4. CASE Lookup \/ Call \/ Answered \/ NoReply \/ Conclude
  BY <1>4 DEF Lookup, Call, Answered, NoReply, Conclude
<1>5. CASE OwnerGone
  BY <1>5 DEF OwnerGone, SteadyView, KeyIsAge, streamVars, process
<1>6. CASE Save \/ Mark \/ SaveFinal
  BY <1>6 DEF Save, Mark, SaveFinal
<1>7. CASE CheckStale \/ WriteKey
  BY <1>7 DEF CheckStale, WriteKey, Fence
<1>8. CASE Tick
  BY <1>8 DEF Tick, KeyIsAge
<1>9. CASE LinkBreaks \/ Evict
  BY <1>9 DEF LinkBreaks, Evict
<1>10. CASE Resubscribe \/ ForceServerRestarting \/ StopCommands \/ Exit \/ Lost \/ Crash \/ UNCHANGED vars
  BY <1>10 DEF Resubscribe, ForceServerRestarting, StopCommands, Exit, Lost, Crash
<1> QED
  BY <1>1, <1>2, <1>3, <1>4, <1>5, <1>6, <1>7, <1>8, <1>9, <1>10 DEF Next, Owner, Origin

(* A stop that was answered ok stays true, and none is answered ok that is  *)
(* not: a steady view without the key means that the last good write is     *)
(* older than staleAfter, or that Shutdown is over.                         *)
LEMMA StopStep ==
    ASSUME Inv, [Next]_vars
    PROVE  StopHolds'
<1>k. Irrevocable
  BY IrrevocableStep DEF Inv
<1>c. \A why \in Reasons : Cancel(why) => reason' # None
  BY CancelReason DEF Inv
<1> USE <1>k, TypeParts, TimesAssumption, AbsentAssumption DEF Inv, ClusterTypeOK, StopHolds, Irrevocable,
        Stale, clusterVars, vars, clocks, redis, request
<1>1. CASE StreamStep /\ UNCHANGED clusterVars
  BY <1>1
<1>2. CASE CheckStale
  BY <1>2 DEF CheckStale, Fence
<1>3. CASE WriteKey
  <2>1. CASE due = "stuck" \/ ~Stale
    BY <1>3, <2>1 DEF WriteKey, Fence
  <2>2. CASE due = "checked" /\ Stale
    BY <1>3, <2>2 DEF WriteKey, Fence, CheckIsFenced, AsksAreFounded
  <2> QED
    BY <1>3, <2>1, <2>2 DEF WriteKey, Writing
<1>4. CASE Tick
  BY <1>4 DEF Tick
<1>5. CASE Lookup
  BY <1>5 DEF Lookup, SnapshotInOrder, streamVars, outcome
<1>6. CASE Answered
  BY <1>6 DEF Answered, AsksAreFounded, streamVars, control, process, Active
<1>7. CASE Conclude
  BY <1>7
     DEF Conclude, AsksAreFounded, StreamInv, ForcedIsRecorded, streamVars,
         process, outcome, Active
<1>8. CASE AskStop \/ Call \/ NoReply \/ OwnerGone \/ OwnerCancel \/ Lost
  BY <1>8 DEF AskStop, Call, NoReply, OwnerGone, OwnerCancel, Lost
<1>9. CASE Save \/ Mark \/ SaveFinal \/ Resubscribe \/ ForceServerRestarting \/ StopCommands
  BY <1>9 DEF Save, Mark, SaveFinal, Resubscribe, ForceServerRestarting, StopCommands
<1>10. CASE Exit \/ LinkBreaks \/ Evict \/ Crash \/ UNCHANGED vars
  BY <1>10 DEF Exit, LinkBreaks, Evict, Crash
<1> QED
  BY <1>1, <1>2, <1>3, <1>4, <1>5, <1>6, <1>7, <1>8, <1>9, <1>10 DEF Next, Owner, Origin

----------------------------------------------------------------------------
(* The theorems. *)

(* The inductive invariant holds at the start, for every mix of budgets. *)
LEMMA InitInv == Init => Inv
<1> SUFFICES ASSUME Init PROVE Inv
  OBVIOUS
<1> USE NoneAssumption, AbsentAssumption, TimesAssumption DEF Init, InitStream
<1>1. StreamTypeOK
  <2>1. Flags
    BY DEF Flags
  <2>2. Places
    BY DEF Places, Workers
  <2>3. HeldForApply
    BY DEF HeldForApply
  <2> QED
    BY <2>1, <2>2, <2>3 DEF StreamTypeOK
<1>2. EndingInOrder /\ CardsInOrder /\ EventsAreLast /\ HeldStopsWait /\ ForcedIsRecorded
  BY DEF EndingInOrder, CardsInOrder, EventsAreLast, HeldStopsWait,
     ForcedIsRecorded, Cards, Terminals
<1>3. ClusterTypeOK
  BY DEF ClusterTypeOK
<1>f. ClusterFlags /\ ListensUp
  BY DEF ClusterFlags, ListensUp
<1>4. SnapshotInOrder /\ KeyIsAge /\ CheckIsFenced /\ AsksAreFounded /\ StopHolds
  BY DEF SnapshotInOrder, KeyIsAge, CheckIsFenced, AsksAreFounded, StopHolds
<1> QED
  BY <1>1, <1>2, <1>3, <1>f, <1>4, TypeParts, Zenon DEF Inv, StreamInv

(* The invariant is inductive. *)
LEMMA NextInv == Inv /\ [Next]_vars => Inv'
<1> SUFFICES ASSUME Inv, [Next]_vars PROVE Inv'
  OBVIOUS
<1>1. StreamInv'
  BY NextSplits, StreamSteps, OtherSteps DEF Inv
<1>2. TypeOK'
  BY <1>1, ClusterTypeStep, TypeParts DEF Inv, StreamInv
<1> QED
  BY <1>1, <1>2, SnapshotStep, KeyStep, CheckStep, AskStep, StopStep DEF Inv

(* The whole invariant holds in every reachable state. *)
THEOREM Invariance == Spec => []Inv
  BY InitInv, NextInv, PTL DEF Spec

(* Every variable keeps its type; a cancel is held exactly while a fix is   *)
(* applied or verified (holdCancel).                                        *)
THEOREM TypeCorrect == Spec => []TypeOK
<1>1. Inv => TypeOK
  BY DEF Inv
<1> QED
  BY <1>1, Invariance, PTL

(* A stream has at most one terminal event, it is the recorded end, and no  *)
(* answer is stored behind a failure (claimTerminalEvent, recordTerminal).  *)
THEOREM OneTerminal == Spec => []OneTerminalEvent
<1>1. Inv => OneTerminalEvent
  <2> SUFFICES ASSUME Inv PROVE OneTerminalEvent
    OBVIOUS
  <2> USE DEF Inv, StreamInv, EndingInOrder
  <2>1. events = <<>> \/ events = <<terminal>>
    OBVIOUS
  <2>2. Len(events) <= 1 /\ \A i \in DOMAIN events : events[i] = terminal
    BY <2>1
  <2> QED
    BY <2>2 DEF OneTerminalEvent
<1> QED
  BY <1>1, Invariance, PTL

(* A card says what happened to the flow, and is settled before the         *)
(* terminal event of its worker (requestApproval, ApplyFixWithApproval).    *)
THEOREM TruthfulCards == Spec => []CardsTellTruth
<1>1. Inv => CardsTellTruth
  BY DEF Inv, StreamInv, CardsInOrder, EventsAreLast, CardsTellTruth
<1> QED
  BY <1>1, Invariance, PTL

(* A stop that another replica answered with ok is true (CancelStreamAs:    *)
(* never an ok that stopped nothing), but for the five holes StopIsTrue     *)
(* names: through stalls before a check, lost subscriptions, failed writes, *)
(* Redis restarts and lost commands the fence and steadyView keep it so.    *)
THEOREM TrueStops == Spec => []StopIsTrue
<1>1. Inv => StopIsTrue
  BY DEF Inv, StopHolds, StopIsTrue
<1> QED
  BY <1>1, Invariance, PTL

(* A fix is written only before a stop was asked for or while that stop     *)
(* waits for it, and nothing but the end of Shutdown's budget cancels the   *)
(* context of an apply (holdCancel).                                        *)
THEOREM WholeApplies == Spec => ApplyIsWhole
<1> DEFINE Written == written' /\ ~written => reason = None \/ deferred
           Held == hold /\ hold' /\ ctx = "live" /\ ctx' = "cancelled" => shut' = "forcing"
<1>1. ASSUME Inv, [Next]_vars PROVE [Written /\ Held]_streamVars
  <2> USE DEF Inv, StreamInv, StreamTypeOK, HeldForApply, HeldStopsWait, CardsInOrder, Works, rest, begins,
          control, approval, outcome, process, vars, streamVars
  <2>1. CASE Unwind
    <3>1. CASE TurnFails \/ Gate \/ EmitError \/ ClaimDone \/ StoreAnswer \/ EmitDone \/ Cleanup \/ Leave
      <4>1. ~hold /\ UNCHANGED written
        BY <1>1, <3>1
           DEF TurnFails, Gate, EmitError, ClaimDone, StoreAnswer, EmitDone, Cleanup,
               Leave
      <4> QED
        BY <4>1
    <3>2. CASE TakeDecision \/ AskCancelled \/ HoldCancel \/ ApplyFix
      <4>1. Written
        BY <1>1, <3>2 DEF TakeDecision, AskCancelled, HoldCancel, ApplyFix
      <4>2. UNCHANGED ctx
        BY <1>1, <3>2 DEF TakeDecision, AskCancelled, HoldCancel, ApplyFix
      <4> QED
        BY <4>1, <4>2
    <3>3. CASE ApplyFails \/ Verify
      <4>1. hold /\ ~hold'
        BY <1>1, <3>3 DEF ApplyFails, Verify, Release
      <4>2. Written
        BY <1>1, <4>1, <3>3 DEF ApplyFails, Verify
      <4> QED
        BY <4>1, <4>2
    <3> QED
      BY <2>1, <3>1, <3>2, <3>3 DEF Unwind
  <2>2. CASE Turn
    BY <2>2 DEF Turn, SetupDone, SetupFails, SetupLeaves, Chunk, Answers, Panic, Ask, AskTimesOut
  <2>3. CASE StopHere \/ ShutdownBegins \/ CheckStale \/ WriteKey \/ OwnerCancel
    BY <2>3 DEF StopHere, ShutdownBegins, CheckStale, WriteKey, Fence, OwnerCancel, Cancel
  <2>4. CASE Deadline \/ Begin \/ BeginReads \/ Resolve \/ Drain \/ ForceCancel
    BY <2>4 DEF Deadline, Begin, BeginReads, Resolve, Drain, ForceCancel
  <2>5. CASE Mark \/ ForceServerRestarting \/ StopCommands \/ Exit \/ Crash
    BY <2>5 DEF Mark, ForceServerRestarting, StopCommands, Exit, Crash
  <2>6. CASE Aside \/ UNCHANGED vars
    BY <2>6, AsideStep
  <2> QED
    BY <1>1, <2>1, <2>2, <2>3, <2>4, <2>5, <2>6, NextSplits DEF StreamStep
<1> QED
  BY <1>1, Invariance, PTL DEF Spec, ApplyIsWhole

=============================================================================
