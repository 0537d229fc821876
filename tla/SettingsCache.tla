---------------------------- MODULE SettingsCache ----------------------------
(***************************************************************************)
(* The deployment settings of a replica: BackendSettingsProvider            *)
(* (internal/service/settings_backend.go), which serves the one settings    *)
(* row from memory for a while, refreshes it outside any transaction and    *)
(* drops it when a write is made, when the write's transaction ends and     *)
(* when another replica's write is announced.  Values are the versions of   *)
(* the row; the clock is what `expires` means for the next Get.             *)
(***************************************************************************)
EXTENDS Naturals, FiniteSets, FiniteSetsExt

CONSTANTS
    Getters,        \* callers of Get
    Writers,        \* requests that write the settings, here or on a peer
    MaxVersion,     \* bound: the last version of the row
    MaxGen,         \* bound: no write begins at or above this generation
    None

ASSUME BoundsAssumption == MaxVersion \in Nat /\ MaxGen \in Nat
ASSUME NoneAssumption == None \notin Getters \cup Writers

VARIABLES
    row,        \* the committed version of the settings row
    locked,     \* the writer that holds the row, or None
    late,       \* history: versions committed after their announcement, until
                \* the next invalidation
    cached,     \* BackendSettingsProvider.cached
    expires,    \* "past" | "ttl" (after a load) | "error" (after a failed one)
    gen,        \* BackendSettingsProvider.gen of the one key
    refreshMu,  \* the getter that holds refreshMu, or None
    gpc,        \* [Getters -> where the call is]
    captured,   \* [Getters -> the generation its refresh began with]
    read,       \* [Getters -> the version its call returns or will store]
    floor,      \* [Getters -> the newest version whose end was announced at its start]
    excused,    \* [Getters -> BOOLEAN]: a failed load decided its answer
    wpc,        \* [Writers -> where the write is]
    ver         \* [Writers -> the version its commit made, or 0]

provider == <<cached, expires, gen>>
calls == <<refreshMu, gpc, captured, read, floor, excused>>
writes == <<row, locked, late, wpc, ver>>
vars == <<provider, calls, writes>>

Init ==
    /\ row = 0 /\ locked = None /\ late = {}
    /\ cached = 0 /\ expires = "past" /\ gen = 0
    /\ refreshMu = None
    /\ gpc = [g \in Getters |-> "idle"]
    /\ captured = [g \in Getters |-> 0]
    /\ read = [g \in Getters |-> 0]
    /\ floor = [g \in Getters |-> 0]
    /\ excused = [g \in Getters |-> FALSE]
    /\ wpc = [w \in Writers |-> "idle"]
    /\ ver = [w \in Writers |-> 0]

Goto(g, label) == gpc' = [gpc EXCEPT ![g] = label]

----------------------------------------------------------------------------
(* Invalidation. *)

(* Invalidate, under mu: the next Get loads whatever has landed. *)
Invalidate ==
    /\ gen' = gen + 1
    /\ expires' = "past"
    /\ late' = {}
    /\ UNCHANGED cached

(* The writers whose write is committed and not announced to this replica. *)
Owing == {w \in Writers : wpc[w] = "ended" /\ ver[w] > 0}

(* The committed versions this replica has not been told of since. *)
Pending == {ver[w] : w \in Owing} \cup late

(* The newest version below which every write has been announced. *)
Announced == IF Pending = {} THEN row ELSE Min(Pending) - 1

----------------------------------------------------------------------------
(* A writer: Update inside the request's transaction, the event's immediate *)
(* delivery, the end of the transaction, the event's second delivery.       *)

Write(w, from, to) == wpc[w] = from /\ wpc' = [wpc EXCEPT ![w] = to]

(* SaveSettings: the write waits for the row; a refresh does not see it. *)
Save(w) ==
    /\ Write(w, "idle", "saved")
    /\ locked = None /\ locked' = w
    /\ row < MaxVersion /\ gen < MaxGen
    /\ ver' = [ver EXCEPT ![w] = 0]
    /\ UNCHANGED <<row, late, provider, calls>>

(* The rest of Update. *)
Updated(w) ==
    /\ Write(w, "saved", "updated")
    /\ Invalidate
    /\ UNCHANGED <<row, locked, ver, calls>>

(* SettingsChanged is published: the subscriber drops the value. *)
Announce(w) ==
    /\ Write(w, "updated", "published")
    /\ Invalidate
    /\ UNCHANGED <<row, locked, ver, calls>>

(* The row gets its next version, to be announced by w... *)
Land(w) ==
    /\ row' = row + 1
    /\ ver' = [ver EXCEPT ![w] = row']
    /\ UNCHANGED late

(* ...or after its announcement has come and gone. *)
LandLate ==
    /\ row' = row + 1
    /\ late' = late \cup {row'}
    /\ UNCHANGED ver

(* The transaction commits... *)
Commit(w) ==
    /\ Write(w, "published", "ended")
    /\ Land(w)
    /\ locked' = None
    /\ UNCHANGED <<provider, calls>>

(* ...or the connection breaks under the COMMIT: the request ends as if it  *)
(* had rolled back, with the server still to settle the transaction...      *)
CommitUnknown(w) ==
    /\ Write(w, "published", "unknown")
    /\ UNCHANGED <<row, late, locked, ver, provider, calls>>

(* ...which it does, before or after the second delivery, either way. *)
EndLimbo(w) ==
    /\ \/ Write(w, "unknown", "ended") /\ (Land(w) \/ UNCHANGED <<row, late, ver>>)
       \/ Write(w, "limbo", "idle") /\ (LandLate \/ UNCHANGED <<row, late, ver>>)
    /\ locked' = None
    /\ UNCHANGED <<provider, calls>>

(* Or it rolls back, at any point after the write. *)
Rollback(w) ==
    /\ \E from \in {"saved", "updated"} : Write(w, from, "idle")
       \/ Write(w, "published", "ended")
    /\ locked' = None
    /\ UNCHANGED <<row, late, ver, provider, calls>>

(* Another replica's write commits; its announcement is on its way, or came *)
(* before a commit of unknown outcome.                                      *)
PeerCommits(w) ==
    /\ \/ Write(w, "idle", "ended") /\ Land(w)
       \/ Write(w, "idle", "idle") /\ LandLate
    /\ locked = None
    /\ row < MaxVersion /\ gen < MaxGen
    /\ UNCHANGED <<locked, provider, calls>>

(* The second delivery, or the peer's announcement, drops the value. *)
AnnounceEnd(w) ==
    /\ Write(w, "ended", "idle") \/ Write(w, "unknown", "limbo")
    /\ Invalidate
    /\ UNCHANGED <<row, locked, ver, calls>>

----------------------------------------------------------------------------
(* Get. *)

Fresh == expires # "past"

(* The answer is v, because of a failed load when why; the call's captured  *)
(* generation goes with it.                                                 *)
Answer(g, v, why) ==
    /\ captured' = [captured EXCEPT ![g] = 0]
    /\ read' = [read EXCEPT ![g] = v]
    /\ excused' = [excused EXCEPT ![g] = why]
    /\ Goto(g, "returned")

(* The first look, under mu's read lock. *)
Get(g) ==
    /\ gpc[g] \in {"idle", "returned"}
    /\ floor' = [floor EXCEPT ![g] = Announced]
    /\ IF Fresh
       THEN Answer(g, cached, expires = "error")
       ELSE Goto(g, "want") /\ UNCHANGED <<captured, read, excused>>
    /\ UNCHANGED <<refreshMu, provider, writes>>

Lock(g) ==
    /\ gpc[g] = "want"
    /\ refreshMu = None /\ refreshMu' = g
    /\ Goto(g, "check")
    /\ UNCHANGED <<captured, read, floor, excused, provider, writes>>

(* The second look: another call may have refreshed. *)
Recheck(g) ==
    /\ gpc[g] = "check"
    /\ Goto(g, IF Fresh THEN "serve" ELSE "refresh")
    /\ excused' = [excused EXCEPT ![g] = expires = "error"]
    /\ UNCHANGED <<refreshMu, captured, read, floor, provider, writes>>

(* refresh: the generation, the read, the store. *)
Capture(g) ==
    /\ gpc[g] = "refresh"
    /\ captured' = [captured EXCEPT ![g] = gen]
    /\ Goto(g, "loading")
    /\ UNCHANGED <<refreshMu, read, floor, excused, provider, writes>>

LoadSettings(g) ==
    /\ gpc[g] = "loading"
    /\ read' = [read EXCEPT ![g] = row]
    /\ Goto(g, "loaded")
    /\ UNCHANGED <<refreshMu, captured, floor, excused, provider, writes>>

(* Mutant: the failed call keeps refreshMu. *)
LoadFailsHolding(g) ==
    /\ gpc[g] = "loading"
    /\ expires' = "error"
    /\ Answer(g, cached, TRUE)
    /\ UNCHANGED <<cached, gen, refreshMu, floor, writes>>

(* The load fails or takes too long: back off, serve what there is. *)
LoadFails(g) ==
    /\ gpc[g] = "loading"
    /\ expires' = "error"
    /\ excused' = [excused EXCEPT ![g] = TRUE]
    /\ Goto(g, "serve")
    /\ UNCHANGED <<cached, gen, refreshMu, captured, read, floor, writes>>

(* Mutant: what was read is stored whatever happened since. *)
FillOKAlways(g) == TRUE

(* Gen.FillOK: no invalidation since the generation was captured. *)
FillOK(g) == gen = captured[g]

(* The store, under mu, and Get's return of what was read. *)
Store(g) ==
    /\ gpc[g] = "loaded"
    /\ IF FillOK(g)
       THEN cached' = read[g] /\ expires' = "ttl"
       ELSE UNCHANGED <<cached, expires>>
    /\ Answer(g, read[g], FALSE)
    /\ refreshMu' = None
    /\ UNCHANGED <<gen, floor, writes>>

(* The last look: what is cached is the answer. *)
Serve(g) ==
    /\ gpc[g] = "serve"
    /\ Answer(g, cached, excused[g])
    /\ refreshMu' = None
    /\ UNCHANGED <<floor, provider, writes>>

(* The clock reaches expires. *)
Expire ==
    /\ Fresh
    /\ expires' = "past"
    /\ UNCHANGED <<cached, gen, calls, writes>>

----------------------------------------------------------------------------
GetStep(g) ==
    Lock(g) \/ Recheck(g) \/ Capture(g) \/ LoadSettings(g) \/ LoadFails(g)
    \/ Store(g) \/ Serve(g)

Next ==
    \/ \E g \in Getters : Get(g) \/ GetStep(g)
    \/ \E w \in Writers :
         Save(w) \/ Updated(w) \/ Announce(w) \/ Commit(w) \/ Rollback(w)
         \/ CommitUnknown(w) \/ EndLimbo(w) \/ PeerCommits(w) \/ AnnounceEnd(w)
    \/ Expire

Spec == Init /\ [][Next]_vars

(* A call in progress runs on, a load is bounded by its timeout, and        *)
(* refreshMu is a sync.Mutex, which lets no waiter starve.                  *)
Fairness == \A g \in Getters : WF_vars(GetStep(g)) /\ SF_vars(Lock(g))

FairSpec == Spec /\ Fairness

----------------------------------------------------------------------------
(* Properties. *)

(* Every variable has its type, and refreshMu is held by a call inside it. *)
TypeOK ==
    /\ row \in 0..MaxVersion
    /\ locked \in Writers \cup {None}
    /\ late \in SUBSET (1..row)
    /\ cached \in 0..MaxVersion
    /\ expires \in {"past", "ttl", "error"}
    /\ gen \in Nat
    /\ refreshMu \in Getters \cup {None}
    /\ gpc \in [Getters -> {"idle", "want", "check", "refresh", "loading",
                            "loaded", "serve", "returned"}]
    /\ captured \in [Getters -> Nat]
    /\ read \in [Getters -> 0..MaxVersion]
    /\ floor \in [Getters -> 0..MaxVersion]
    /\ excused \in [Getters -> BOOLEAN]
    /\ wpc \in [Writers -> {"idle", "saved", "updated", "published", "unknown",
                            "limbo", "ended"}]
    /\ ver \in [Writers -> 0..MaxVersion]
    /\ refreshMu # None => gpc[refreshMu] \notin {"idle", "want", "returned"}

(* A Get that begins after a write was announced does not answer with an    *)
(* older version, whichever path it takes and whatever other calls and      *)
(* writers do meanwhile, unless a failed load decided its answer (Get).  A  *)
(* commit whose outcome the request never learnt may land after its         *)
(* announcement: it counts as announced from the next invalidation on, and  *)
(* until then or the TTL a Get may answer with the version before it        *)
(* (settings_backend.go:154-156, rls_middleware.go:217-221).                *)
GetIsCurrent ==
    \A g \in Getters : gpc[g] = "returned" /\ ~excused[g] => read[g] >= floor[g]

(* Every Get returns (Get, "never blocks longer than backendSettings-       *)
(* Timeout"; here, that it returns).                                        *)
GetsReturn == \A g \in Getters : gpc[g] = "want" ~> gpc[g] = "returned"
=============================================================================
