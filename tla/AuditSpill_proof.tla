--------------------------- MODULE AuditSpill_proof ---------------------------
(***************************************************************************)
(* Proofs about AuditSpill, for any replicas, events and bounds: no event   *)
(* disappears in silence, each is in one replica's hands at most unless its *)
(* file was taken in the middle of a drain, and a spill file outgrows its   *)
(* cap by one batch at most.                                                *)
(***************************************************************************)
EXTENDS AuditSpill, FiniteSetTheorems, TLAPS

----------------------------------------------------------------------------
(* The inductive invariant. *)

(* The type invariant by its parts. *)
TypePlaces ==
    /\ queue \in [Replicas -> SUBSET Events] /\ buf \in [Replicas -> SUBSET Events]
    /\ reading \in [Replicas -> SUBSET Events] /\ tail \in [Replicas -> SUBSET Events]
    /\ drained \in [Replicas -> SUBSET Events] /\ back \in [Replicas -> SUBSET Events]
    /\ own \in [Replicas -> SUBSET Events] /\ claims \in [Replicas -> SUBSET Events]
TypeProcess ==
    /\ up \in [Replicas -> {"new", "up", "closing", "down"}]
    /\ from \in [Replicas -> {"own", "claim", None}]
TypeFlags ==
    /\ torn \in [Replicas -> BOOLEAN] /\ old \in [Replicas -> BOOLEAN]
    /\ oldClaim \in [Replicas -> BOOLEAN] /\ pause \in [Replicas -> BOOLEAN] /\ dbUp \in BOOLEAN
TypeSets ==
    /\ logged \subseteq Events /\ gone \subseteq Events /\ recorded \subseteq Events
    /\ lost \subseteq Events /\ overlap \subseteq Events /\ faults \in 0..MaxFaults

(* The queue and the batch are finite and within their bounds. *)
Bounded(r) ==
    /\ IsFiniteSet(queue[r]) /\ Cardinality(queue[r]) <= QueueSize
    /\ IsFiniteSet(buf[r]) /\ Cardinality(buf[r]) <= FlushSize

(* An event is in no two of a replica's hands, *)
Distinct(e, r) ==
    /\ e \in queue[r] => e \notin buf[r] /\ e \notin drained[r] /\ e \notin back[r]
    /\ e \in buf[r] => e \notin drained[r] /\ e \notin back[r]
    /\ e \in drained[r] => e \notin back[r]

(* in no two processes, in no two files, and not in a file and a process. *)
Apart(e, r, s) ==
    /\ e \in own[r] => e \notin claims[s] /\ e \notin Memory(s)
    /\ e \in claims[r] => e \notin Memory(s)
    /\ e \in own[r] /\ e \in own[s] => r = s
    /\ e \in claims[r] /\ e \in claims[s] => r = s
    /\ e \in Memory(r) /\ e \in Memory(s) => r = s

(* What anybody holds was recorded. *)
Held(r) == own[r] \cup claims[r] \cup Memory(r)
HeldIsRecorded == \A r \in Replicas : Held(r) \subseteq recorded /\ reading[r] \cup tail[r] \subseteq recorded

(* A drain under way has read its file, which is as it was unless it was    *)
(* taken meanwhile.                                                         *)
Reads(r, content) ==
    /\ content \subseteq reading[r] \cup tail[r]
    /\ \A e \in reading[r] \cup tail[r] : e \in content \/ e \in overlap
DrainInv(r) ==
    /\ reading[r] = {} => tail[r] = {}
    /\ reading[r] # {} => /\ drained[r] = {} /\ back[r] = {} /\ reading[r] \cap tail[r] = {}
                          /\ from[r] \in {"own", "claim"} /\ up[r] \in {"up", "closing"}
    /\ Draining(r, "own") => Reads(r, own[r])
    /\ Draining(r, "claim") => Reads(r, claims[r])

(* The file has room under its cap while a batch of it is to come back. *)
Sized(r) ==
    /\ Cardinality(own[r]) <= SpillMax + FlushSize
    /\ Cardinality(reading[r]) <= FlushSize /\ Cardinality(drained[r] \cup back[r]) <= FlushSize
    /\ from[r] = "own" => Cardinality(tail[r]) <= SpillMax
    /\ from[r] = "own" /\ drained[r] \cup back[r] # {} => Cardinality(own[r]) <= SpillMax

(* Where a recorded event may be. *)
Kept(e) == trail[e] > 0 \/ e \in logged \/ e \in gone \/ \E r \in Replicas : e \in Held(r)

(* An event is no row or one. *)
TypeTrail == trail \in [Events -> {0, 1}]

Inv ==
    /\ TypePlaces /\ TypeProcess /\ TypeFlags /\ TypeSets /\ TypeTrail
    /\ \A r \in Replicas : Bounded(r)
    /\ \A e \in Events \ overlap, r \in Replicas : Distinct(e, r)
    /\ \A e \in Events \ overlap, r, s \in Replicas : Apart(e, r, s)
    /\ HeldIsRecorded /\ IsFiniteSet(recorded)
    /\ \A r \in Replicas : DrainInv(r) /\ Sized(r)
    /\ \A e \in recorded : Kept(e)

----------------------------------------------------------------------------
(* Helpers. *)

(* A step that one replica takes. *)
Step(r) ==
    \/ \E e \in Events : Record(r, e)
    \/ Worker(r) \/ Unpause(r) \/ Reaper(r) \/ AdoptOrphans(r)
    \/ Start(r) \/ Stop(r) \/ Stopped(r) \/ Crash(r) \/ Restart(r) \/ Age(r)

(* An insert makes one row of each event it names and leaves the others. *)
LEMMA InsertedIs ==
    ASSUME TypeTrail, NEW E \in SUBSET Events
    PROVE  /\ Inserted(E) \in [Events -> {0, 1}]
           /\ \A e \in Events : Inserted(E)[e] > 0 <=> trail[e] > 0 \/ e \in E
  BY DEF TypeTrail, Inserted

(* What is diverted is in the spill file or in the log. *)
LEMMA DivertedIs ==
    ASSUME NEW r \in Replicas, NEW E, Divert(r, E)
    PROVE  \E K \in SUBSET E : /\ own' = [own EXCEPT ![r] = @ \cup K] /\ claims' = claims
                               /\ logged' = logged \cup (E \ K) /\ overlap' = overlap
                               /\ oldClaim' = oldClaim /\ (faults' = faults \/ Fault)
  BY DEF Divert, Append, NoFault

(* What is adopted changes hands: the files and the claims of others. *)
LEMMA AdoptedIs ==
    ASSUME Inv, NEW r \in Replicas, Adopts(r, Orphans(r), OrphanClaims(r))
    PROVE  /\ own' \in [Replicas -> SUBSET Events] /\ claims' \in [Replicas -> SUBSET Events]
           /\ r \notin Orphans(r) /\ r \notin OrphanClaims(r)
           /\ Orphans(r) \subseteq Replicas /\ OrphanClaims(r) \subseteq Replicas
           /\ \A e \in Events, d \in Replicas :
                /\ e \in own'[d] <=> e \in own[d] /\ d \notin Orphans(r)
                /\ d # r => (e \in claims'[d] <=> e \in claims[d] /\ d \notin OrphanClaims(r))
           /\ \A e \in Events : e \in claims'[r] <=> \/ e \in claims[r]
                                                     \/ \E f \in Orphans(r) : e \in own[f]
                                                     \/ \E c \in OrphanClaims(r) : e \in claims[c]
           /\ overlap' \subseteq Events /\ overlap \subseteq overlap'
           /\ (faults' = faults \/ Faults(RenameCost))
           /\ \A d \in Orphans(r) : Draining(d, "own") => own[d] \subseteq overlap'
           /\ \A d \in OrphanClaims(r) : Draining(d, "claim") => claims[d] \subseteq overlap'
<1> DEFINE F == Orphans(r)
           C == OrphanClaims(r)
           U == UNION {own[f] : f \in F}
           V == UNION {claims[c] : c \in C}
           M == MidDrain(F, C)
<1>0. /\ TypePlaces /\ r \notin F /\ r \notin C /\ F \subseteq Replicas /\ C \subseteq Replicas
      /\ overlap \subseteq Events
  BY DEF Inv, Orphans, OrphanClaims, TypeSets
<1>m. overlap' = overlap \cup M /\ (faults' = faults \/ Faults(RenameCost))
  BY DEF Adopts, NoFault
<1> DEFINE A == {f \in F : Draining(f, "own")}
           B == {c \in C : Draining(c, "claim")}
           X == UNION {own[d] : d \in A}
           Y == UNION {claims[d] : d \in B}
<1>x. M = X \cup Y
  <2> SUFFICES MidDrain(F, C) = X \cup Y
    OBVIOUS
  <2> HIDE DEF F, C
  <2> QED
    BY DEF MidDrain
<1>a. /\ A \subseteq F /\ \A d \in F : Draining(d, "own") => d \in A
      /\ B \subseteq C /\ \A d \in C : Draining(d, "claim") => d \in B
  OBVIOUS
<1>y. \A e : (e \in X <=> \E f \in A : e \in own[f]) /\ (e \in Y <=> \E c \in B : e \in claims[c])
  <2> HIDE DEF F, C, A, B, M
  <2> QED
    OBVIOUS
<1>d. /\ \A d \in F : Draining(d, "own") => own[d] \subseteq M
      /\ \A d \in C : Draining(d, "claim") => claims[d] \subseteq M
  <2> HIDE DEF F, C, A, B, X, Y, M
  <2> QED
    BY <1>x, <1>a, <1>y
<1>e. M \subseteq Events
  <2> HIDE DEF F, C, A, B, X, Y, M
  <2>1. \A d \in Replicas : own[d] \subseteq Events /\ claims[d] \subseteq Events
    BY <1>0 DEF TypePlaces
  <2> QED
    BY <1>0, <1>x, <1>a, <1>y, <2>1
<1>1. /\ own' = [d \in Replicas |-> IF d \in F THEN {} ELSE own[d]]
      /\ claims'[r] = claims[r] \cup U \cup V
      /\ \A d \in Replicas \ {r} : claims'[d] = IF d \in C THEN {} ELSE claims[d]
      /\ claims' = [d \in Replicas |-> claims'[d]]
  <2>1. own' = [d \in Replicas |-> IF d \in F THEN {} ELSE own[d]]
    BY DEF Adopts
  <2>2. claims' = [d \in Replicas |-> CASE d = r -> claims[r] \cup U \cup V
                                        [] d \in C -> {}
                                        [] OTHER -> claims[d]]
    BY DEF Adopts
  <2> HIDE DEF F, C, U, V
  <2>3. claims'[r] = claims[r] \cup U \cup V
    BY <1>0, <2>2
  <2>4. \A d \in Replicas \ {r} : claims'[d] = IF d \in C THEN {} ELSE claims[d]
    BY <2>2
  <2>5. claims' = [d \in Replicas |-> claims'[d]]
    BY <2>2
  <2> QED
    BY <2>1, <2>3, <2>4, <2>5
<1>2. \A e : (e \in U <=> \E f \in F : e \in own[f]) /\ (e \in V <=> \E c \in C : e \in claims[c])
  OBVIOUS
<1> HIDE DEF F, C, U, V, M, A, B, X, Y
<1>3. \A d \in Replicas : own[d] \subseteq Events /\ claims[d] \subseteq Events
  BY <1>0 DEF TypePlaces
<1>4. U \subseteq Events /\ V \subseteq Events
  BY <1>0, <1>2, <1>3
<1>5. \A d \in Replicas : claims'[d] \in SUBSET Events
  BY <1>1, <1>3, <1>4
<1>6. own' \in [Replicas -> SUBSET Events] /\ claims' \in [Replicas -> SUBSET Events]
  BY <1>1, <1>3, <1>5
<1>7. \A e \in Events, d \in Replicas : /\ e \in own'[d] <=> e \in own[d] /\ d \notin F
                                        /\ d # r => (e \in claims'[d] <=> e \in claims[d] /\ d \notin C)
  BY <1>1
<1>8. \A e \in Events : e \in claims'[r] <=> \/ e \in claims[r]
                                             \/ \E f \in F : e \in own[f]
                                             \/ \E c \in C : e \in claims[c]
  BY <1>1, <1>2
<1>9. overlap' \subseteq Events /\ overlap \subseteq overlap'
  BY <1>0, <1>m, <1>e
<1>10. /\ \A d \in F : Draining(d, "own") => own[d] \subseteq overlap'
       /\ \A d \in C : Draining(d, "claim") => claims[d] \subseteq overlap'
  BY <1>m, <1>d
<1> QED
  BY <1>0, <1>m, <1>6, <1>7, <1>8, <1>9, <1>10 DEF F, C

(* A set with room for one more stays within its bound. *)
LEMMA RoomForOne ==
    ASSUME NEW S, NEW x, NEW n \in Nat, IsFiniteSet(S), Cardinality(S) < n
    PROVE  IsFiniteSet(S \cup {x}) /\ Cardinality(S \cup {x}) <= n
<1>1. Cardinality(S) \in Nat
  BY FS_CardinalityType
<1>2. /\ IsFiniteSet(S \cup {x})
      /\ Cardinality(S \cup {x}) = IF x \in S THEN Cardinality(S) ELSE Cardinality(S) + 1
  BY FS_AddElement
<1> QED
  BY <1>1, <1>2

(* A set stays within its bound when an element goes. *)
LEMMA OneLess ==
    ASSUME NEW S, NEW x, NEW n \in Nat, IsFiniteSet(S), Cardinality(S) <= n
    PROVE  IsFiniteSet(S \ {x}) /\ Cardinality(S \ {x}) <= n
<1>1. Cardinality(S) \in Nat
  BY FS_CardinalityType
<1>2. /\ IsFiniteSet(S \ {x})
      /\ Cardinality(S \ {x}) = IF x \in S THEN Cardinality(S) - 1 ELSE Cardinality(S)
  BY FS_RemoveElement
<1> QED
  BY <1>1, <1>2

----------------------------------------------------------------------------
(* Types. *)

(* The events stay events, wherever they are. *)
LEMMA PlacesStep ==
    ASSUME Inv, NEW r \in Replicas, Step(r)
    PROVE  TypePlaces' /\ TypeProcess' /\ TypeSets'
<1>t. TypePlaces /\ TypeProcess /\ TypeSets /\ MaxFaults \in Nat /\ RenameCost \in Nat
  BY SizesAssumption DEF Inv
<1> USE <1>t DEF TypePlaces, TypeProcess, TypeSets, memory, disk, Fault, Faults, NoFault
<1>1. ASSUME NEW e \in Events, RecordDetached(r, e)
      PROVE  TypePlaces' /\ TypeProcess' /\ TypeSets'
  BY <1>1 DEF RecordDetached, Records
<1>2. ASSUME NEW e \in Events, RecordEnqueued(r, e)
      PROVE  TypePlaces' /\ TypeProcess' /\ TypeSets'
  BY <1>2 DEF RecordEnqueued, Records
<1>3. ASSUME NEW e \in Events, RecordFull(r, e)
      PROVE  TypePlaces' /\ TypeProcess' /\ TypeSets'
  <2>k. PICK K \in SUBSET {e} : /\ own' = [own EXCEPT ![r] = @ \cup K] /\ claims' = claims
                               /\ logged' = logged \cup ({e} \ K) /\ overlap' = overlap
                               /\ oldClaim' = oldClaim /\ (faults' = faults \/ Fault)
    BY <1>3, DivertedIs DEF RecordFull
  <2> QED
    BY <1>3, <2>k DEF RecordFull, Records
<1>4. ASSUME NEW e \in Events, RecordClosed(r, e)
      PROVE  TypePlaces' /\ TypeProcess' /\ TypeSets'
  BY <1>4 DEF RecordClosed, Records
<1>5. CASE Take(r)
  BY <1>5 DEF Take
<1>6. CASE FlushWritten(r)
  BY <1>6 DEF FlushWritten, Flush
<1>7. CASE FlushUnreachable(r)
  <2>k. PICK K \in SUBSET buf[r] : /\ own' = [own EXCEPT ![r] = @ \cup K] /\ claims' = claims
                               /\ logged' = logged \cup (buf[r] \ K) /\ overlap' = overlap
                               /\ oldClaim' = oldClaim /\ (faults' = faults \/ Fault)
    BY <1>7, DivertedIs DEF FlushUnreachable
  <2> QED
    BY <1>7, <2>k DEF FlushUnreachable, Flush
<1>8. CASE FlushLate(r)
  <2>1. PICK K \in SUBSET buf[r] : Append(r, K) /\ logged' = logged \cup (buf[r] \ K)
    BY <1>8 DEF FlushLate
  <2> QED
    BY <1>8, <2>1 DEF FlushLate, Flush, Append
<1>9. CASE FlushRefused(r)
  BY <1>9 DEF FlushRefused, Flush
<1>10. CASE Unpause(r)
  BY <1>10 DEF Unpause
<1>11. CASE DrainOwn(r)
  BY <1>11 DEF DrainOwn, DrainRead, Batches
<1>12. CASE DrainClaim(r)
  BY <1>12 DEF DrainClaim, DrainRead, Batches
<1>22. CASE DrainRename(r)
  BY <1>22 DEF DrainRename, ReadDone, Rewrite
<1>23. CASE DrainFails(r)
  BY <1>23 DEF DrainFails, ReadDone
<1>13. CASE ReplayOne(r)
  BY <1>13 DEF ReplayOne
<1>14. CASE ReSpill(r)
  BY <1>14 DEF ReSpill, Append
<1>15. CASE AdoptOrphans(r)
  <2>k. /\ own' \in [Replicas -> SUBSET Events] /\ claims' \in [Replicas -> SUBSET Events]
        /\ r \notin Orphans(r) /\ r \notin OrphanClaims(r)
        /\ Orphans(r) \subseteq Replicas /\ OrphanClaims(r) \subseteq Replicas
        /\ \A e \in Events, d \in Replicas :
             /\ e \in own'[d] <=> e \in own[d] /\ d \notin Orphans(r)
             /\ d # r => (e \in claims'[d] <=> e \in claims[d] /\ d \notin OrphanClaims(r))
        /\ \A e \in Events : e \in claims'[r] <=> \/ e \in claims[r]
                                                  \/ \E f \in Orphans(r) : e \in own[f]
                                                  \/ \E c \in OrphanClaims(r) : e \in claims[c]
        /\ overlap' \subseteq Events /\ overlap \subseteq overlap' /\ (faults' = faults \/ Faults(RenameCost))
    BY <1>15, AdoptedIs DEF AdoptOrphans
  <2> QED
    BY <1>15, <2>k DEF AdoptOrphans, Adopts
<1>16. CASE Start(r)
  <2>k. /\ own' \in [Replicas -> SUBSET Events] /\ claims' \in [Replicas -> SUBSET Events]
        /\ r \notin Orphans(r) /\ r \notin OrphanClaims(r)
        /\ Orphans(r) \subseteq Replicas /\ OrphanClaims(r) \subseteq Replicas
        /\ \A e \in Events, d \in Replicas :
             /\ e \in own'[d] <=> e \in own[d] /\ d \notin Orphans(r)
             /\ d # r => (e \in claims'[d] <=> e \in claims[d] /\ d \notin OrphanClaims(r))
        /\ \A e \in Events : e \in claims'[r] <=> \/ e \in claims[r]
                                                  \/ \E f \in Orphans(r) : e \in own[f]
                                                  \/ \E c \in OrphanClaims(r) : e \in claims[c]
        /\ overlap' \subseteq Events /\ overlap \subseteq overlap' /\ (faults' = faults \/ Faults(RenameCost))
    BY <1>16, AdoptedIs DEF Start
  <2> QED
    BY <1>16, <2>k DEF Start, Adopts
<1>17. CASE Stop(r)
  BY <1>17 DEF Stop
<1>18. CASE Stopped(r)
  BY <1>18 DEF Stopped
<1>19. CASE Crash(r)
  BY <1>19 DEF Crash, Memory
<1>20. CASE Restart(r)
  BY <1>20 DEF Restart
<1>21. CASE Age(r)
  BY <1>21 DEF Age
<1> QED
  BY <1>1, <1>2, <1>3, <1>4, <1>5, <1>6, <1>7, <1>8, <1>9, <1>10, <1>11, <1>12,
     <1>13, <1>14, <1>15, <1>16, <1>17, <1>18, <1>19, <1>20, <1>21, <1>22, <1>23
     DEF Step, Record, Worker, Reaper

(* The trail holds no row or one of each event. *)
LEMMA TrailStep ==
    ASSUME Inv, NEW r \in Replicas, Step(r)
    PROVE  TypeTrail'
<1>t. TypeTrail /\ TypePlaces
  BY DEF Inv
<1> USE <1>t DEF TypeTrail, TypePlaces
<1>1. ASSUME NEW e \in Events, RecordDetached(r, e)
      PROVE  TypeTrail'
  BY <1>1, InsertedIs DEF RecordDetached
<1>2. ASSUME NEW e \in Events, RecordEnqueued(r, e)
      PROVE  TypeTrail'
  BY <1>2 DEF RecordEnqueued
<1>3. ASSUME NEW e \in Events, RecordFull(r, e)
      PROVE  TypeTrail'
  BY <1>3 DEF RecordFull
<1>4. ASSUME NEW e \in Events, RecordClosed(r, e)
      PROVE  TypeTrail'
  BY <1>4 DEF RecordClosed
<1>5. CASE Take(r)
  BY <1>5 DEF Take
<1>6. CASE FlushWritten(r)
  BY <1>6, InsertedIs DEF FlushWritten
<1>7. CASE FlushUnreachable(r)
  BY <1>7 DEF FlushUnreachable
<1>8. CASE FlushLate(r)
  BY <1>8, InsertedIs DEF FlushLate
<1>9. CASE FlushRefused(r)
  <2>1. PICK e \in buf[r] : trail' = Inserted(buf[r] \ {e})
    BY <1>9 DEF FlushRefused
  <2> QED
    BY <2>1, InsertedIs
<1>10. CASE Unpause(r)
  BY <1>10 DEF Unpause
<1>11. CASE DrainOwn(r)
  BY <1>11 DEF DrainOwn, DrainRead
<1>12. CASE DrainClaim(r)
  BY <1>12 DEF DrainClaim, DrainRead
<1>22. CASE DrainRename(r)
  BY <1>22 DEF DrainRename, ReadDone, Rewrite
<1>23. CASE DrainFails(r)
  BY <1>23 DEF DrainFails, ReadDone
<1>13. CASE ReplayOne(r)
  BY <1>13 DEF ReplayOne
<1>14. CASE ReSpill(r)
  BY <1>14 DEF ReSpill
<1>15. CASE AdoptOrphans(r)
  BY <1>15 DEF AdoptOrphans
<1>16. CASE Start(r)
  BY <1>16 DEF Start
<1>17. CASE Stop(r)
  BY <1>17 DEF Stop
<1>18. CASE Stopped(r)
  BY <1>18 DEF Stopped
<1>19. CASE Crash(r)
  BY <1>19 DEF Crash
<1>20. CASE Restart(r)
  BY <1>20 DEF Restart
<1>21. CASE Age(r)
  BY <1>21 DEF Age
<1> QED
  BY <1>1, <1>2, <1>3, <1>4, <1>5, <1>6, <1>7, <1>8, <1>9, <1>10, <1>11, <1>12,
     <1>13, <1>14, <1>15, <1>16, <1>17, <1>18, <1>19, <1>20, <1>21, <1>22, <1>23
     DEF Step, Record, Worker, Reaper

(* The flags stay flags. *)
LEMMA FlagsStep ==
    ASSUME Inv, NEW r \in Replicas, Step(r)
    PROVE  TypeFlags'
<1>t. TypeFlags
  BY DEF Inv
<1> USE <1>t DEF TypeFlags, memory, disk
<1>1. ASSUME NEW e \in Events, RecordDetached(r, e)
      PROVE  TypeFlags'
  BY <1>1 DEF RecordDetached, Records
<1>2. ASSUME NEW e \in Events, RecordEnqueued(r, e)
      PROVE  TypeFlags'
  BY <1>2 DEF RecordEnqueued, Records
<1>3. ASSUME NEW e \in Events, RecordFull(r, e)
      PROVE  TypeFlags'
  BY <1>3 DEF RecordFull, Records, Divert, Append
<1>4. ASSUME NEW e \in Events, RecordClosed(r, e)
      PROVE  TypeFlags'
  BY <1>4 DEF RecordClosed, Records
<1>5. CASE Take(r)
  BY <1>5 DEF Take
<1>6. CASE FlushWritten(r)
  BY <1>6 DEF FlushWritten, Flush
<1>7. CASE FlushUnreachable(r)
  BY <1>7 DEF FlushUnreachable, Flush, Divert, Append
<1>8. CASE FlushLate(r)
  BY <1>8 DEF FlushLate, Flush, Divert, Append
<1>9. CASE FlushRefused(r)
  BY <1>9 DEF FlushRefused, Flush
<1>10. CASE Unpause(r)
  BY <1>10 DEF Unpause
<1>11. CASE DrainOwn(r)
  BY <1>11 DEF DrainOwn, DrainRead
<1>12. CASE DrainClaim(r)
  BY <1>12 DEF DrainClaim, DrainRead
<1>22. CASE DrainRename(r)
  BY <1>22 DEF DrainRename, ReadDone, Rewrite
<1>23. CASE DrainFails(r)
  BY <1>23 DEF DrainFails, ReadDone
<1>13. CASE ReplayOne(r)
  BY <1>13 DEF ReplayOne
<1>14. CASE ReSpill(r)
  BY <1>14 DEF ReSpill, Append
<1>15. CASE AdoptOrphans(r)
  BY <1>15 DEF AdoptOrphans, Adopts
<1>16. CASE Start(r)
  BY <1>16 DEF Start, Adopts
<1>17. CASE Stop(r)
  BY <1>17 DEF Stop
<1>18. CASE Stopped(r)
  BY <1>18 DEF Stopped
<1>19. CASE Crash(r)
  BY <1>19 DEF Crash
<1>20. CASE Restart(r)
  BY <1>20 DEF Restart
<1>21. CASE Age(r)
  BY <1>21 DEF Age
<1> QED
  BY <1>1, <1>2, <1>3, <1>4, <1>5, <1>6, <1>7, <1>8, <1>9, <1>10, <1>11, <1>12,
     <1>13, <1>14, <1>15, <1>16, <1>17, <1>18, <1>19, <1>20, <1>21, <1>22, <1>23
     DEF Step, Record, Worker, Reaper

(* The queue and the batch keep their bounds. *)
LEMMA BoundsStep ==
    ASSUME Inv, NEW r \in Replicas, Step(r)
    PROVE  \A d \in Replicas : Bounded(d)'
<1>t. TypePlaces /\ (\A d \in Replicas : Bounded(d)) /\ QueueSize \in Nat /\ FlushSize \in Nat
  BY SizesAssumption DEF Inv
<1>c. \A d \in Replicas : /\ Cardinality(queue[d]) \in Nat /\ Cardinality(buf[d]) \in Nat
                          /\ IsFiniteSet(queue[d]) /\ IsFiniteSet(buf[d])
  BY <1>t, FS_CardinalityType DEF Bounded
<1> USE <1>t DEF TypePlaces, Bounded, memory
<1>1. ASSUME NEW e \in Events, RecordDetached(r, e)
      PROVE  \A d \in Replicas : Bounded(d)'
  BY <1>1 DEF RecordDetached
<1>2. ASSUME NEW e \in Events, RecordEnqueued(r, e)
      PROVE  \A d \in Replicas : Bounded(d)'
  <2>1. queue' = [queue EXCEPT ![r] = @ \cup {e}] /\ buf' = buf /\ Cardinality(queue[r]) < QueueSize
    BY <1>2 DEF RecordEnqueued
  <2>2. IsFiniteSet(queue[r] \cup {e}) /\ Cardinality(queue[r] \cup {e}) <= QueueSize
    BY <1>c, <2>1, RoomForOne
  <2> QED
    BY <2>1, <2>2
<1>3. ASSUME NEW e \in Events, RecordFull(r, e)
      PROVE  \A d \in Replicas : Bounded(d)'
  BY <1>3 DEF RecordFull
<1>4. ASSUME NEW e \in Events, RecordClosed(r, e)
      PROVE  \A d \in Replicas : Bounded(d)'
  BY <1>4 DEF RecordClosed
<1>5. CASE Take(r)
  <2>1. PICK e \in queue[r] : queue' = [queue EXCEPT ![r] = @ \ {e}] /\ buf' = [buf EXCEPT ![r] = @ \cup {e}]
    BY <1>5 DEF Take
  <2>2. Cardinality(buf[r]) < FlushSize
    BY <1>5 DEF Take
  <2>3. IsFiniteSet(buf[r] \cup {e}) /\ Cardinality(buf[r] \cup {e}) <= FlushSize
    BY <1>c, <2>2, RoomForOne
  <2>4. IsFiniteSet(queue[r] \ {e}) /\ Cardinality(queue[r] \ {e}) <= QueueSize
    BY <1>c, OneLess
  <2> QED
    BY <2>1, <2>3, <2>4
<1>6. CASE FlushWritten(r)
  <2>1. queue' = queue /\ buf' = [buf EXCEPT ![r] = {}]
    BY <1>6 DEF FlushWritten, Flush
  <2> QED
    BY <1>c, <2>1, FS_EmptySet
<1>7. CASE FlushUnreachable(r)
  <2>1. queue' = queue /\ buf' = [buf EXCEPT ![r] = {}]
    BY <1>7 DEF FlushUnreachable, Flush
  <2> QED
    BY <1>c, <2>1, FS_EmptySet
<1>8. CASE FlushLate(r)
  <2>1. queue' = queue /\ buf' = [buf EXCEPT ![r] = {}]
    BY <1>8 DEF FlushLate, Flush
  <2> QED
    BY <1>c, <2>1, FS_EmptySet
<1>9. CASE FlushRefused(r)
  <2>1. queue' = queue /\ buf' = [buf EXCEPT ![r] = {}]
    BY <1>9 DEF FlushRefused, Flush
  <2> QED
    BY <1>c, <2>1, FS_EmptySet
<1>10. CASE Unpause(r)
  BY <1>10 DEF Unpause
<1>11. CASE DrainOwn(r)
  BY <1>11 DEF DrainOwn, DrainRead
<1>12. CASE DrainClaim(r)
  BY <1>12 DEF DrainClaim, DrainRead
<1>22. CASE DrainRename(r)
  BY <1>22 DEF DrainRename, ReadDone, Rewrite
<1>23. CASE DrainFails(r)
  BY <1>23 DEF DrainFails, ReadDone
<1>13. CASE ReplayOne(r)
  <2>1. PICK e : \/ queue' = [queue EXCEPT ![r] = @ \cup {e}] /\ Cardinality(queue[r]) < QueueSize
                 \/ queue' = queue
    BY <1>13 DEF ReplayOne
  <2>2. Cardinality(queue[r]) < QueueSize => /\ IsFiniteSet(queue[r] \cup {e})
                                            /\ Cardinality(queue[r] \cup {e}) <= QueueSize
    BY <1>c, RoomForOne
  <2>3. buf' = buf
    BY <1>13 DEF ReplayOne
  <2> QED
    BY <2>1, <2>2, <2>3
<1>14. CASE ReSpill(r)
  BY <1>14 DEF ReSpill
<1>15. CASE AdoptOrphans(r)
  BY <1>15 DEF AdoptOrphans
<1>16. CASE Start(r)
  BY <1>16 DEF Start
<1>17. CASE Stop(r)
  BY <1>17 DEF Stop
<1>18. CASE Stopped(r)
  BY <1>18 DEF Stopped
<1>19. CASE Crash(r)
  <2>1. queue' = [queue EXCEPT ![r] = {}] /\ buf' = [buf EXCEPT ![r] = {}]
    BY <1>19 DEF Crash
  <2> QED
    BY <1>c, <2>1, FS_EmptySet
<1>20. CASE Restart(r)
  BY <1>20 DEF Restart
<1>21. CASE Age(r)
  BY <1>21 DEF Age
<1> QED
  BY <1>1, <1>2, <1>3, <1>4, <1>5, <1>6, <1>7, <1>8, <1>9, <1>10, <1>11, <1>12,
     <1>13, <1>14, <1>15, <1>16, <1>17, <1>18, <1>19, <1>20, <1>21, <1>22, <1>23
     DEF Step, Record, Worker, Reaper

----------------------------------------------------------------------------
(* One holder. *)

(* An overlap is for ever. *)
LEMMA OverlapGrows ==
    ASSUME Inv, NEW r \in Replicas, Step(r)
    PROVE  overlap \subseteq overlap'
<1> USE DEF disk
<1>1. ASSUME NEW e \in Events, RecordDetached(r, e)
      PROVE  overlap \subseteq overlap'
  BY <1>1 DEF RecordDetached
<1>2. ASSUME NEW e \in Events, RecordEnqueued(r, e)
      PROVE  overlap \subseteq overlap'
  BY <1>2 DEF RecordEnqueued
<1>3. ASSUME NEW e \in Events, RecordFull(r, e)
      PROVE  overlap \subseteq overlap'
  BY <1>3 DEF RecordFull, Divert
<1>4. ASSUME NEW e \in Events, RecordClosed(r, e)
      PROVE  overlap \subseteq overlap'
  BY <1>4 DEF RecordClosed
<1>5. CASE Take(r)
  BY <1>5 DEF Take
<1>6. CASE FlushWritten(r)
  BY <1>6 DEF FlushWritten
<1>7. CASE FlushUnreachable(r)
  BY <1>7 DEF FlushUnreachable, Divert
<1>8. CASE FlushLate(r)
  BY <1>8 DEF FlushLate
<1>9. CASE FlushRefused(r)
  BY <1>9 DEF FlushRefused
<1>10. CASE Unpause(r)
  BY <1>10 DEF Unpause
<1>11. CASE DrainOwn(r)
  BY <1>11 DEF DrainOwn, DrainRead
<1>12. CASE DrainClaim(r)
  BY <1>12 DEF DrainClaim, DrainRead
<1>13. CASE DrainRename(r)
  BY <1>13 DEF DrainRename, ReadDone, Rewrite
<1>14. CASE DrainFails(r)
  BY <1>14 DEF DrainFails, ReadDone
<1>15. CASE ReplayOne(r)
  BY <1>15 DEF ReplayOne
<1>16. CASE ReSpill(r)
  BY <1>16 DEF ReSpill
<1>17. CASE AdoptOrphans(r)
  BY <1>17 DEF AdoptOrphans, Adopts
<1>18. CASE Start(r)
  BY <1>18 DEF Start, Adopts
<1>19. CASE Stop(r)
  BY <1>19 DEF Stop
<1>20. CASE Stopped(r)
  BY <1>20 DEF Stopped
<1>21. CASE Crash(r)
  BY <1>21 DEF Crash
<1>22. CASE Restart(r)
  BY <1>22 DEF Restart
<1>23. CASE Age(r)
  BY <1>23 DEF Age
<1> QED
  BY <1>1, <1>2, <1>3, <1>4, <1>5, <1>6, <1>7, <1>8, <1>9, <1>10, <1>11,
     <1>12, <1>13, <1>14, <1>15, <1>16, <1>17, <1>18, <1>19, <1>20, <1>21,
     <1>22, <1>23
     DEF Step, Record, Worker, Reaper

(* No event gets into two hands. *)
LEMMA ApartStep ==
    ASSUME Inv, NEW r \in Replicas, Step(r), NEW ev \in Events, ev \notin overlap',
           NEW d \in Replicas, NEW f \in Replicas
    PROVE  Distinct(ev, d)' /\ Apart(ev, d, f)'
<1>o. ev \notin overlap
  BY OverlapGrows
<1>t. /\ TypePlaces /\ HeldIsRecorded
      /\ \A x \in Replicas : Distinct(ev, x)
      /\ \A x, y \in Replicas : Apart(ev, x, y)
  BY <1>o DEF Inv
<1> USE <1>t DEF TypePlaces, memory, disk
<1>1. ASSUME NEW e \in Events, RecordDetached(r, e)
      PROVE  Distinct(ev, d)' /\ Apart(ev, d, f)'
  <2>1. Distinct(ev, d)'
    BY <1>1 DEF RecordDetached, Records, Distinct
  <2>2. Apart(ev, d, f)'
    BY <1>1 DEF RecordDetached, Records, Distinct, Apart, Memory, HeldIsRecorded, Held
  <2> QED
    BY <2>1, <2>2
<1>2. ASSUME NEW e \in Events, RecordEnqueued(r, e)
      PROVE  Distinct(ev, d)' /\ Apart(ev, d, f)'
  <2>1. Distinct(ev, d)'
    BY <1>2 DEF RecordEnqueued, Records, Distinct, Apart, Memory, HeldIsRecorded, Held
  <2>2. Apart(ev, d, f)'
    BY <1>2 DEF RecordEnqueued, Records, Distinct, Apart, Memory, HeldIsRecorded, Held
  <2> QED
    BY <2>1, <2>2
<1>3. ASSUME NEW e \in Events, RecordFull(r, e)
      PROVE  Distinct(ev, d)' /\ Apart(ev, d, f)'
  <2>k. PICK K \in SUBSET {e} : /\ own' = [own EXCEPT ![r] = @ \cup K] /\ claims' = claims
                               /\ logged' = logged \cup ({e} \ K) /\ overlap' = overlap
                               /\ oldClaim' = oldClaim /\ (faults' = faults \/ Fault)
    BY <1>3, DivertedIs DEF RecordFull
  <2>1. Distinct(ev, d)'
    BY <1>3, <2>k DEF RecordFull, Records, Distinct
  <2>2. Apart(ev, d, f)'
    BY <1>3, <2>k DEF RecordFull, Records, Distinct, Apart, Memory, HeldIsRecorded, Held
  <2> QED
    BY <2>1, <2>2
<1>4. ASSUME NEW e \in Events, RecordClosed(r, e)
      PROVE  Distinct(ev, d)' /\ Apart(ev, d, f)'
  <2>1. Distinct(ev, d)'
    BY <1>4 DEF RecordClosed, Records, Distinct
  <2>2. Apart(ev, d, f)'
    BY <1>4 DEF RecordClosed, Records, Distinct, Apart, Memory, HeldIsRecorded, Held
  <2> QED
    BY <2>1, <2>2
<1>5. CASE Take(r)
  <2>k. PICK e \in queue[r] : /\ queue' = [queue EXCEPT ![r] = @ \ {e}]
                             /\ buf' = [buf EXCEPT ![r] = @ \cup {e}]
    BY <1>5 DEF Take
  <2>1. Distinct(ev, d)'
    BY <1>5, <2>k DEF Take, Distinct
  <2>2. Apart(ev, d, f)'
    BY <1>5, <2>k DEF Take, Distinct, Apart, Memory, HeldIsRecorded, Held
  <2> QED
    BY <2>1, <2>2
<1>6. CASE FlushWritten(r)
  <2>1. Distinct(ev, d)'
    BY <1>6 DEF FlushWritten, Flush, Distinct
  <2>2. Apart(ev, d, f)'
    BY <1>6 DEF FlushWritten, Flush, Distinct, Apart, Memory, HeldIsRecorded, Held
  <2> QED
    BY <2>1, <2>2
<1>7. CASE FlushUnreachable(r)
  <2>k. PICK K \in SUBSET buf[r] : /\ own' = [own EXCEPT ![r] = @ \cup K] /\ claims' = claims
                               /\ logged' = logged \cup (buf[r] \ K) /\ overlap' = overlap
                               /\ oldClaim' = oldClaim /\ (faults' = faults \/ Fault)
    BY <1>7, DivertedIs DEF FlushUnreachable
  <2>1. Distinct(ev, d)'
    BY <1>7, <2>k DEF FlushUnreachable, Flush, Distinct
  <2>2. Apart(ev, d, f)'
    BY <1>7, <2>k DEF FlushUnreachable, Flush, Distinct, Apart, Memory, HeldIsRecorded, Held
  <2> QED
    BY <2>1, <2>2
<1>8. CASE FlushLate(r)
  <2>k. PICK K \in SUBSET buf[r] : own' = [own EXCEPT ![r] = @ \cup K]
    BY <1>8 DEF FlushLate, Append
  <2>1. Distinct(ev, d)'
    BY <1>8, <2>k DEF FlushLate, Flush, Distinct
  <2>2. Apart(ev, d, f)'
    BY <1>8, <2>k DEF FlushLate, Flush, Distinct, Apart, Memory, HeldIsRecorded, Held
  <2> QED
    BY <2>1, <2>2
<1>9. CASE FlushRefused(r)
  <2>1. Distinct(ev, d)'
    BY <1>9 DEF FlushRefused, Flush, Distinct
  <2>2. Apart(ev, d, f)'
    BY <1>9 DEF FlushRefused, Flush, Distinct, Apart, Memory, HeldIsRecorded, Held
  <2> QED
    BY <2>1, <2>2
<1>10. CASE Unpause(r)
  <2>1. Distinct(ev, d)'
    BY <1>10 DEF Unpause, Distinct
  <2>2. Apart(ev, d, f)'
    BY <1>10 DEF Unpause, Distinct, Apart, Memory, HeldIsRecorded, Held
  <2> QED
    BY <2>1, <2>2
<1>11. CASE DrainOwn(r) \/ DrainClaim(r)
  <2>1. Distinct(ev, d)'
    BY <1>11 DEF DrainOwn, DrainClaim, DrainRead, Distinct
  <2>2. Apart(ev, d, f)'
    BY <1>11 DEF DrainOwn, DrainClaim, DrainRead, Apart, Memory
  <2> QED
    BY <2>1, <2>2
<1>12. CASE DrainRename(r)
  <2>i. /\ drained[r] = {} /\ back[r] = {} /\ reading[r] \cap tail[r] = {} /\ reading[r] # {}
        /\ from[r] \in {"own", "claim"} /\ NoneAssumption
    BY <1>12, NoneAssumption DEF DrainRename, ReadDone, Inv, DrainInv
  <2>k. drained' = [drained EXCEPT ![r] = reading[r]] /\ queue' = queue /\ buf' = buf /\ back' = back
    BY <1>12 DEF DrainRename, ReadDone
  <2>3. CASE from[r] = "own"
    <3>1. own' = [own EXCEPT ![r] = tail[r]] /\ claims' = claims
      BY <1>12, <2>3 DEF DrainRename, Rewrite
    <3>2. Reads(r, own[r])
      BY <2>3, <2>i DEF Inv, DrainInv, Draining
    <3>3. ev \in reading[r] \cup tail[r] <=> ev \in own[r]
      BY <1>o, <3>2 DEF Reads
    <3>4. Distinct(ev, d)'
      BY <2>k, <2>i, <3>3 DEF Distinct, Apart, Memory
    <3>5. Apart(ev, d, f)'
      BY <2>k, <2>i, <3>1, <3>3 DEF Distinct, Apart, Memory
    <3> QED
      BY <3>4, <3>5
  <2>4. CASE from[r] = "claim"
    <3>1. claims' = [claims EXCEPT ![r] = tail[r]] /\ own' = own
      BY <1>12, <2>4 DEF DrainRename, Rewrite
    <3>2. Reads(r, claims[r])
      BY <2>4, <2>i DEF Inv, DrainInv, Draining
    <3>3. ev \in reading[r] \cup tail[r] <=> ev \in claims[r]
      BY <1>o, <3>2 DEF Reads
    <3>4. Distinct(ev, d)'
      BY <2>k, <2>i, <3>3 DEF Distinct, Apart, Memory
    <3>5. Apart(ev, d, f)'
      BY <2>k, <2>i, <3>1, <3>3 DEF Distinct, Apart, Memory
    <3> QED
      BY <3>4, <3>5
  <2> QED
    BY <2>i, <2>3, <2>4
<1>22. CASE DrainFails(r)
  <2>1. Distinct(ev, d)'
    BY <1>22 DEF DrainFails, ReadDone, Distinct
  <2>2. Apart(ev, d, f)'
    BY <1>22 DEF DrainFails, ReadDone, Apart, Memory
  <2> QED
    BY <2>1, <2>2
<1>13. CASE ReplayOne(r)
  <2>k. PICK e \in drained[r] : /\ drained' = [drained EXCEPT ![r] = @ \ {e}]
                               /\ \/ queue' = [queue EXCEPT ![r] = @ \cup {e}] /\ back' = back
                                  \/ back' = [back EXCEPT ![r] = @ \cup {e}] /\ queue' = queue
    BY <1>13 DEF ReplayOne
  <2>1. Distinct(ev, d)'
    BY <1>13, <2>k DEF ReplayOne, Distinct
  <2>2. Apart(ev, d, f)'
    BY <1>13, <2>k DEF ReplayOne, Distinct, Apart, Memory, HeldIsRecorded, Held
  <2> QED
    BY <2>1, <2>2
<1>14. CASE ReSpill(r)
  <2>1. Distinct(ev, d)'
    BY <1>14 DEF ReSpill, Append, Distinct
  <2>2. Apart(ev, d, f)'
    BY <1>14 DEF ReSpill, Append, Distinct, Apart, Memory, HeldIsRecorded, Held
  <2> QED
    BY <2>1, <2>2
<1>15. CASE AdoptOrphans(r)
  <2>k. /\ own' \in [Replicas -> SUBSET Events] /\ claims' \in [Replicas -> SUBSET Events]
        /\ r \notin Orphans(r) /\ r \notin OrphanClaims(r)
        /\ Orphans(r) \subseteq Replicas /\ OrphanClaims(r) \subseteq Replicas
        /\ \A e \in Events, a \in Replicas :
             /\ e \in own'[a] <=> e \in own[a] /\ a \notin Orphans(r)
             /\ a # r => (e \in claims'[a] <=> e \in claims[a] /\ a \notin OrphanClaims(r))
        /\ \A e \in Events : e \in claims'[r] <=> \/ e \in claims[r]
                                                  \/ \E b \in Orphans(r) : e \in own[b]
                                                  \/ \E c \in OrphanClaims(r) : e \in claims[c]
        /\ overlap' \subseteq Events /\ overlap \subseteq overlap' /\ (faults' = faults \/ Faults(RenameCost))
    BY <1>15, AdoptedIs DEF AdoptOrphans
  <2>1. Distinct(ev, d)'
    BY <1>15, <2>k DEF AdoptOrphans, Distinct
  <2>2. Apart(ev, d, f)'
    BY <1>15, <2>k DEF AdoptOrphans, Distinct, Apart, Memory, HeldIsRecorded, Held
  <2> QED
    BY <2>1, <2>2
<1>16. CASE Start(r)
  <2>k. /\ own' \in [Replicas -> SUBSET Events] /\ claims' \in [Replicas -> SUBSET Events]
        /\ r \notin Orphans(r) /\ r \notin OrphanClaims(r)
        /\ Orphans(r) \subseteq Replicas /\ OrphanClaims(r) \subseteq Replicas
        /\ \A e \in Events, a \in Replicas :
             /\ e \in own'[a] <=> e \in own[a] /\ a \notin Orphans(r)
             /\ a # r => (e \in claims'[a] <=> e \in claims[a] /\ a \notin OrphanClaims(r))
        /\ \A e \in Events : e \in claims'[r] <=> \/ e \in claims[r]
                                                  \/ \E b \in Orphans(r) : e \in own[b]
                                                  \/ \E c \in OrphanClaims(r) : e \in claims[c]
        /\ overlap' \subseteq Events /\ overlap \subseteq overlap' /\ (faults' = faults \/ Faults(RenameCost))
    BY <1>16, AdoptedIs DEF Start
  <2>1. Distinct(ev, d)'
    BY <1>16, <2>k DEF Start, Distinct
  <2>2. Apart(ev, d, f)'
    BY <1>16, <2>k DEF Start, Distinct, Apart, Memory, HeldIsRecorded, Held
  <2> QED
    BY <2>1, <2>2
<1>17. CASE Stop(r)
  <2>1. Distinct(ev, d)'
    BY <1>17 DEF Stop, Distinct
  <2>2. Apart(ev, d, f)'
    BY <1>17 DEF Stop, Distinct, Apart, Memory, HeldIsRecorded, Held
  <2> QED
    BY <2>1, <2>2
<1>18. CASE Stopped(r)
  <2>1. Distinct(ev, d)'
    BY <1>18 DEF Stopped, Distinct
  <2>2. Apart(ev, d, f)'
    BY <1>18 DEF Stopped, Distinct, Apart, Memory, HeldIsRecorded, Held
  <2> QED
    BY <2>1, <2>2
<1>19. CASE Crash(r)
  <2>1. Distinct(ev, d)'
    BY <1>19 DEF Crash, Distinct
  <2>2. Apart(ev, d, f)'
    BY <1>19 DEF Crash, Distinct, Apart, Memory, HeldIsRecorded, Held
  <2> QED
    BY <2>1, <2>2
<1>20. CASE Restart(r)
  <2>1. Distinct(ev, d)'
    BY <1>20 DEF Restart, Distinct
  <2>2. Apart(ev, d, f)'
    BY <1>20 DEF Restart, Distinct, Apart, Memory, HeldIsRecorded, Held
  <2> QED
    BY <2>1, <2>2
<1>21. CASE Age(r)
  <2>1. Distinct(ev, d)'
    BY <1>21 DEF Age, Distinct
  <2>2. Apart(ev, d, f)'
    BY <1>21 DEF Age, Distinct, Apart, Memory, HeldIsRecorded, Held
  <2> QED
    BY <2>1, <2>2
<1> QED
  BY <1>1, <1>2, <1>3, <1>4, <1>5, <1>6, <1>7, <1>8, <1>9, <1>10, <1>11, <1>12,
     <1>13, <1>14, <1>15, <1>16, <1>17, <1>18, <1>19, <1>20, <1>21, <1>22
     DEF Step, Record, Worker, Reaper

----------------------------------------------------------------------------
(* No event disappears. *)

(* What anybody holds was recorded, and what was recorded is kept. *)
LEMMA KeptStep ==
    ASSUME Inv, NEW r \in Replicas, Step(r)
    PROVE  HeldIsRecorded' /\ \A x \in recorded' : Kept(x)'
<1>t. TypePlaces /\ TypeTrail /\ TypeSets /\ HeldIsRecorded /\ \A x \in recorded : Kept(x)
  BY DEF Inv
<1>i. \A E \in SUBSET Events : \A x \in Events : Inserted(E)[x] > 0 <=> trail[x] > 0 \/ x \in E
  BY <1>t, InsertedIs
<1> USE <1>t DEF TypePlaces, TypeSets, memory, disk
<1>1. ASSUME NEW e \in Events, RecordDetached(r, e)
      PROVE  HeldIsRecorded' /\ \A x \in recorded' : Kept(x)'
  <2>w. \/ gone' = gone /\ \A x \in Events : trail'[x] > 0 <=> trail[x] > 0 \/ x \in {e}
        \/ gone' = gone \cup {e} /\ trail' = trail
    BY <1>1, <1>i DEF RecordDetached
  <2>1. HeldIsRecorded'
    BY <1>1 DEF RecordDetached, Records, HeldIsRecorded, Held, Memory
  <2>2. \A x \in recorded' : Kept(x)'
    BY <1>1, <2>w DEF RecordDetached, Records, Kept, Held, Memory
  <2> QED
    BY <2>1, <2>2
<1>2. ASSUME NEW e \in Events, RecordEnqueued(r, e)
      PROVE  HeldIsRecorded' /\ \A x \in recorded' : Kept(x)'
  <2>1. HeldIsRecorded'
    BY <1>2 DEF RecordEnqueued, Records, HeldIsRecorded, Held, Memory
  <2>2. \A x \in recorded' : Kept(x)'
    BY <1>2 DEF RecordEnqueued, Records, Kept, Held, Memory
  <2> QED
    BY <2>1, <2>2
<1>3. ASSUME NEW e \in Events, RecordFull(r, e)
      PROVE  HeldIsRecorded' /\ \A x \in recorded' : Kept(x)'
  <2>k. PICK K \in SUBSET {e} : /\ own' = [own EXCEPT ![r] = @ \cup K] /\ claims' = claims
                               /\ logged' = logged \cup ({e} \ K) /\ overlap' = overlap
                               /\ oldClaim' = oldClaim /\ (faults' = faults \/ Fault)
    BY <1>3, DivertedIs DEF RecordFull
  <2>1. HeldIsRecorded'
    BY <1>3, <2>k DEF RecordFull, Records, HeldIsRecorded, Held, Memory
  <2>2. \A x \in recorded' : Kept(x)'
    BY <1>3, <2>k DEF RecordFull, Records, Kept, Held, Memory
  <2> QED
    BY <2>1, <2>2
<1>4. ASSUME NEW e \in Events, RecordClosed(r, e)
      PROVE  HeldIsRecorded' /\ \A x \in recorded' : Kept(x)'
  <2>1. HeldIsRecorded'
    BY <1>4 DEF RecordClosed, Records, HeldIsRecorded, Held, Memory
  <2>2. \A x \in recorded' : Kept(x)'
    BY <1>4 DEF RecordClosed, Records, Kept, Held, Memory
  <2> QED
    BY <2>1, <2>2
<1>5. CASE Take(r)
  <2>k. PICK e \in queue[r] : /\ queue' = [queue EXCEPT ![r] = @ \ {e}]
                             /\ buf' = [buf EXCEPT ![r] = @ \cup {e}]
    BY <1>5 DEF Take
  <2>1. HeldIsRecorded'
    BY <1>5, <2>k DEF Take, HeldIsRecorded, Held, Memory
  <2>2. \A x \in recorded' : Kept(x)'
    BY <1>5, <2>k DEF Take, Kept, Held, Memory
  <2> QED
    BY <2>1, <2>2
<1>6. CASE FlushWritten(r)
  <2>w. \A x \in Events : trail'[x] > 0 <=> trail[x] > 0 \/ x \in buf[r]
    BY <1>6, <1>i DEF FlushWritten
  <2>1. HeldIsRecorded'
    BY <1>6 DEF FlushWritten, Flush, HeldIsRecorded, Held, Memory
  <2>2. \A x \in recorded' : Kept(x)'
    BY <1>6, <2>w DEF FlushWritten, Flush, Kept, Held, Memory
  <2> QED
    BY <2>1, <2>2
<1>7. CASE FlushUnreachable(r)
  <2>k. PICK K \in SUBSET buf[r] : /\ own' = [own EXCEPT ![r] = @ \cup K] /\ claims' = claims
                               /\ logged' = logged \cup (buf[r] \ K) /\ overlap' = overlap
                               /\ oldClaim' = oldClaim /\ (faults' = faults \/ Fault)
    BY <1>7, DivertedIs DEF FlushUnreachable
  <2>1. HeldIsRecorded'
    BY <1>7, <2>k DEF FlushUnreachable, Flush, HeldIsRecorded, Held, Memory
  <2>2. \A x \in recorded' : Kept(x)'
    BY <1>7, <2>k DEF FlushUnreachable, Flush, Kept, Held, Memory
  <2> QED
    BY <2>1, <2>2
<1>8. CASE FlushLate(r)
  <2>k. PICK K \in SUBSET buf[r] : /\ own' = [own EXCEPT ![r] = @ \cup K]
                                   /\ logged' = logged \cup (buf[r] \ K)
    BY <1>8 DEF FlushLate, Append
  <2>w. \A x \in Events : trail'[x] > 0 <=> trail[x] > 0 \/ x \in buf[r]
    BY <1>8, <1>i DEF FlushLate
  <2>1. HeldIsRecorded'
    BY <1>8, <2>k DEF FlushLate, Flush, HeldIsRecorded, Held, Memory
  <2>2. \A x \in recorded' : Kept(x)'
    BY <1>8, <2>k, <2>w DEF FlushLate, Flush, Kept, Held, Memory
  <2> QED
    BY <2>1, <2>2
<1>9. CASE FlushRefused(r)
  <2>k. PICK e \in buf[r] : trail' = Inserted(buf[r] \ {e}) /\ logged' = logged \cup {e}
    BY <1>9 DEF FlushRefused
  <2>w. \A x \in Events : trail'[x] > 0 <=> trail[x] > 0 \/ x \in buf[r] \ {e}
    BY <1>9, <1>i, <2>k
  <2>1. HeldIsRecorded'
    BY <1>9, <2>k DEF FlushRefused, Flush, HeldIsRecorded, Held, Memory
  <2>2. \A x \in recorded' : Kept(x)'
    BY <1>9, <2>k, <2>w DEF FlushRefused, Flush, Kept, Held, Memory
  <2> QED
    BY <2>1, <2>2
<1>10. CASE Unpause(r)
  <2>1. HeldIsRecorded'
    BY <1>10 DEF Unpause, HeldIsRecorded, Held, Memory
  <2>2. \A x \in recorded' : Kept(x)'
    BY <1>10 DEF Unpause, Kept, Held, Memory
  <2> QED
    BY <2>1, <2>2
<1>11. CASE DrainOwn(r) \/ DrainClaim(r)
  <2>k. \E K \in SUBSET Held(r) : /\ reading' = [reading EXCEPT ![r] = K]
                                  /\ \E T \in SUBSET Held(r) : tail' = [tail EXCEPT ![r] = T]
    BY <1>11 DEF DrainOwn, DrainClaim, DrainRead, Batches, Held
  <2>1. HeldIsRecorded'
    BY <1>11, <2>k DEF DrainOwn, DrainClaim, DrainRead, HeldIsRecorded, Held, Memory
  <2>2. \A x \in recorded' : Kept(x)'
    BY <1>11 DEF DrainOwn, DrainClaim, DrainRead, Kept, Held, Memory
  <2> QED
    BY <2>1, <2>2
<1>12. CASE DrainRename(r)
  <2>i. /\ drained[r] = {} /\ reading[r] # {} /\ from[r] \in {"own", "claim"}
        /\ (from[r] = "own" => own[r] \subseteq reading[r] \cup tail[r])
        /\ (from[r] = "claim" => claims[r] \subseteq reading[r] \cup tail[r])
    BY <1>12 DEF DrainRename, ReadDone, Inv, DrainInv, Draining, Reads
  <2>k. /\ drained' = [drained EXCEPT ![r] = reading[r]] /\ queue' = queue /\ buf' = buf /\ back' = back
        /\ reading' = [reading EXCEPT ![r] = {}] /\ tail' = [tail EXCEPT ![r] = {}]
        /\ recorded' = recorded /\ trail' = trail /\ logged' = logged /\ gone' = gone
    BY <1>12 DEF DrainRename, ReadDone
  <2>c. \/ from[r] = "own" /\ own' = [own EXCEPT ![r] = tail[r]] /\ claims' = claims
        \/ from[r] = "claim" /\ claims' = [claims EXCEPT ![r] = tail[r]] /\ own' = own
    BY <1>12, <2>i DEF DrainRename, Rewrite
  <2>1. HeldIsRecorded'
    BY <2>k, <2>c DEF HeldIsRecorded, Held, Memory
  <2>h. \A d \in Replicas : Held(d) \subseteq Held(d)'
    BY <2>k, <2>c, <2>i DEF Held, Memory
  <2>2. \A x \in recorded' : Kept(x)'
    BY <2>k, <2>h DEF Kept
  <2> QED
    BY <2>1, <2>2
<1>22. CASE DrainFails(r)
  <2>1. HeldIsRecorded'
    BY <1>22 DEF DrainFails, ReadDone, HeldIsRecorded, Held, Memory
  <2>2. \A x \in recorded' : Kept(x)'
    BY <1>22 DEF DrainFails, ReadDone, Kept, Held, Memory
  <2> QED
    BY <2>1, <2>2
<1>13. CASE ReplayOne(r)
  <2>k. PICK e \in drained[r] : /\ drained' = [drained EXCEPT ![r] = @ \ {e}]
                               /\ \/ queue' = [queue EXCEPT ![r] = @ \cup {e}] /\ back' = back
                                  \/ back' = [back EXCEPT ![r] = @ \cup {e}] /\ queue' = queue
    BY <1>13 DEF ReplayOne
  <2>1. HeldIsRecorded'
    BY <1>13, <2>k DEF ReplayOne, HeldIsRecorded, Held, Memory
  <2>2. \A x \in recorded' : Kept(x)'
    BY <1>13, <2>k DEF ReplayOne, Kept, Held, Memory
  <2> QED
    BY <2>1, <2>2
<1>14. CASE ReSpill(r)
  <2>1. HeldIsRecorded'
    BY <1>14 DEF ReSpill, Append, HeldIsRecorded, Held, Memory
  <2>2. \A x \in recorded' : Kept(x)'
    BY <1>14 DEF ReSpill, Append, Kept, Held, Memory
  <2> QED
    BY <2>1, <2>2
<1>15. CASE AdoptOrphans(r)
  <2>k. /\ own' \in [Replicas -> SUBSET Events] /\ claims' \in [Replicas -> SUBSET Events]
        /\ r \notin Orphans(r) /\ r \notin OrphanClaims(r)
        /\ Orphans(r) \subseteq Replicas /\ OrphanClaims(r) \subseteq Replicas
        /\ \A e \in Events, d \in Replicas :
             /\ e \in own'[d] <=> e \in own[d] /\ d \notin Orphans(r)
             /\ d # r => (e \in claims'[d] <=> e \in claims[d] /\ d \notin OrphanClaims(r))
        /\ \A e \in Events : e \in claims'[r] <=> \/ e \in claims[r]
                                                  \/ \E f \in Orphans(r) : e \in own[f]
                                                  \/ \E c \in OrphanClaims(r) : e \in claims[c]
        /\ overlap' \subseteq Events /\ overlap \subseteq overlap' /\ (faults' = faults \/ Faults(RenameCost))
    BY <1>15, AdoptedIs DEF AdoptOrphans
  <2>1. HeldIsRecorded'
    BY <1>15, <2>k DEF AdoptOrphans, HeldIsRecorded, Held, Memory
  <2>2. \A x \in recorded' : Kept(x)'
    BY <1>15, <2>k DEF AdoptOrphans, Kept, Held, Memory
  <2> QED
    BY <2>1, <2>2
<1>16. CASE Start(r)
  <2>k. /\ own' \in [Replicas -> SUBSET Events] /\ claims' \in [Replicas -> SUBSET Events]
        /\ r \notin Orphans(r) /\ r \notin OrphanClaims(r)
        /\ Orphans(r) \subseteq Replicas /\ OrphanClaims(r) \subseteq Replicas
        /\ \A e \in Events, d \in Replicas :
             /\ e \in own'[d] <=> e \in own[d] /\ d \notin Orphans(r)
             /\ d # r => (e \in claims'[d] <=> e \in claims[d] /\ d \notin OrphanClaims(r))
        /\ \A e \in Events : e \in claims'[r] <=> \/ e \in claims[r]
                                                  \/ \E f \in Orphans(r) : e \in own[f]
                                                  \/ \E c \in OrphanClaims(r) : e \in claims[c]
        /\ overlap' \subseteq Events /\ overlap \subseteq overlap' /\ (faults' = faults \/ Faults(RenameCost))
    BY <1>16, AdoptedIs DEF Start
  <2>1. HeldIsRecorded'
    BY <1>16, <2>k DEF Start, HeldIsRecorded, Held, Memory
  <2>2. \A x \in recorded' : Kept(x)'
    BY <1>16, <2>k DEF Start, Kept, Held, Memory
  <2> QED
    BY <2>1, <2>2
<1>17. CASE Stop(r)
  <2>1. HeldIsRecorded'
    BY <1>17 DEF Stop, HeldIsRecorded, Held, Memory
  <2>2. \A x \in recorded' : Kept(x)'
    BY <1>17 DEF Stop, Kept, Held, Memory
  <2> QED
    BY <2>1, <2>2
<1>18. CASE Stopped(r)
  <2>1. HeldIsRecorded'
    BY <1>18 DEF Stopped, HeldIsRecorded, Held, Memory
  <2>2. \A x \in recorded' : Kept(x)'
    BY <1>18 DEF Stopped, Kept, Held, Memory
  <2> QED
    BY <2>1, <2>2
<1>19. CASE Crash(r)
  <2>1. HeldIsRecorded'
    BY <1>19 DEF Crash, HeldIsRecorded, Held, Memory
  <2>2. \A x \in recorded' : Kept(x)'
    BY <1>19 DEF Crash, Kept, Held, Memory
  <2> QED
    BY <2>1, <2>2
<1>20. CASE Restart(r)
  <2>1. HeldIsRecorded'
    BY <1>20 DEF Restart, HeldIsRecorded, Held, Memory
  <2>2. \A x \in recorded' : Kept(x)'
    BY <1>20 DEF Restart, Kept, Held, Memory
  <2> QED
    BY <2>1, <2>2
<1>21. CASE Age(r)
  <2>1. HeldIsRecorded'
    BY <1>21 DEF Age, HeldIsRecorded, Held, Memory
  <2>2. \A x \in recorded' : Kept(x)'
    BY <1>21 DEF Age, Kept, Held, Memory
  <2> QED
    BY <2>1, <2>2
<1> QED
  BY <1>1, <1>2, <1>3, <1>4, <1>5, <1>6, <1>7, <1>8, <1>9, <1>10, <1>11, <1>12,
     <1>13, <1>14, <1>15, <1>16, <1>17, <1>18, <1>19, <1>20, <1>21, <1>22
     DEF Step, Record, Worker, Reaper

----------------------------------------------------------------------------
(* A drain under way. *)

(* Finitely many events have been recorded. *)
LEMMA RecordedStep ==
    ASSUME Inv, NEW r \in Replicas, Step(r)
    PROVE  IsFiniteSet(recorded')
<1>f. IsFiniteSet(recorded)
  BY DEF Inv
<1>1. ASSUME NEW e \in Events, RecordDetached(r, e)
      PROVE  IsFiniteSet(recorded')
  BY <1>f, <1>1, FS_AddElement DEF RecordDetached, Records
<1>2. ASSUME NEW e \in Events, RecordEnqueued(r, e)
      PROVE  IsFiniteSet(recorded')
  BY <1>f, <1>2, FS_AddElement DEF RecordEnqueued, Records
<1>3. ASSUME NEW e \in Events, RecordFull(r, e)
      PROVE  IsFiniteSet(recorded')
  BY <1>f, <1>3, FS_AddElement DEF RecordFull, Records
<1>4. ASSUME NEW e \in Events, RecordClosed(r, e)
      PROVE  IsFiniteSet(recorded')
  BY <1>f, <1>4, FS_AddElement DEF RecordClosed, Records
<1>5. CASE Take(r)
  BY <1>f, <1>5 DEF Take
<1>6. CASE FlushWritten(r)
  BY <1>f, <1>6 DEF FlushWritten
<1>7. CASE FlushUnreachable(r)
  BY <1>f, <1>7 DEF FlushUnreachable, Divert
<1>8. CASE FlushLate(r)
  BY <1>f, <1>8 DEF FlushLate
<1>9. CASE FlushRefused(r)
  BY <1>f, <1>9 DEF FlushRefused
<1>10. CASE Unpause(r)
  BY <1>f, <1>10 DEF Unpause
<1>11. CASE DrainOwn(r)
  BY <1>f, <1>11 DEF DrainOwn, DrainRead
<1>12. CASE DrainClaim(r)
  BY <1>f, <1>12 DEF DrainClaim, DrainRead
<1>13. CASE DrainRename(r)
  BY <1>f, <1>13 DEF DrainRename, ReadDone, Rewrite
<1>14. CASE DrainFails(r)
  BY <1>f, <1>14 DEF DrainFails, ReadDone
<1>15. CASE ReplayOne(r)
  BY <1>f, <1>15 DEF ReplayOne
<1>16. CASE ReSpill(r)
  BY <1>f, <1>16 DEF ReSpill
<1>17. CASE AdoptOrphans(r)
  BY <1>f, <1>17 DEF AdoptOrphans, Adopts
<1>18. CASE Start(r)
  BY <1>f, <1>18 DEF Start, Adopts
<1>19. CASE Stop(r)
  BY <1>f, <1>19 DEF Stop
<1>20. CASE Stopped(r)
  BY <1>f, <1>20 DEF Stopped
<1>21. CASE Crash(r)
  BY <1>f, <1>21 DEF Crash
<1>22. CASE Restart(r)
  BY <1>f, <1>22 DEF Restart
<1>23. CASE Age(r)
  BY <1>f, <1>23 DEF Age
<1> QED
  BY <1>1, <1>2, <1>3, <1>4, <1>5, <1>6, <1>7, <1>8, <1>9, <1>10, <1>11,
     <1>12, <1>13, <1>14, <1>15, <1>16, <1>17, <1>18, <1>19, <1>20, <1>21,
     <1>22, <1>23
     DEF Step, Record, Worker, Reaper

(* What a drain has read stays what its file held. *)
LEMMA DrainStep ==
    ASSUME Inv, NEW r \in Replicas, Step(r), NEW d \in Replicas
    PROVE  DrainInv(d)'
<1>t. TypePlaces /\ TypeProcess /\ DrainInv(d) /\ DrainInv(r) /\ NoneAssumption
  BY NoneAssumption DEF Inv
<1> USE <1>t DEF TypePlaces, TypeProcess, memory, disk, DrainInv, Draining, Reads
<1>1. ASSUME NEW e \in Events, RecordDetached(r, e)
      PROVE  DrainInv(d)'
  BY <1>1 DEF RecordDetached
<1>2. ASSUME NEW e \in Events, RecordEnqueued(r, e)
      PROVE  DrainInv(d)'
  BY <1>2 DEF RecordEnqueued
<1>3. ASSUME NEW e \in Events, RecordFull(r, e)
      PROVE  DrainInv(d)'
  <2>1. PICK K \in SUBSET {e} : own' = [own EXCEPT ![r] = @ \cup K] /\ claims' = claims /\ overlap' = overlap
    BY <1>3, DivertedIs DEF RecordFull
  <2>2. ~Draining(r, "own") /\ UNCHANGED <<reading, tail, drained, back, from, up>>
    BY <1>3 DEF RecordFull, Divert
  <2> QED
    BY <2>1, <2>2
<1>4. ASSUME NEW e \in Events, RecordClosed(r, e)
      PROVE  DrainInv(d)'
  BY <1>4 DEF RecordClosed
<1>5. CASE Take(r)
  BY <1>5 DEF Take
<1>6. CASE FlushWritten(r)
  BY <1>6 DEF FlushWritten, Flush
<1>7. CASE FlushUnreachable(r)
  <2>1. PICK K \in SUBSET buf[r] : own' = [own EXCEPT ![r] = @ \cup K] /\ claims' = claims /\ overlap' = overlap
    BY <1>7, DivertedIs DEF FlushUnreachable
  <2>2. ~Draining(r, "own") /\ UNCHANGED <<reading, tail, drained, back, from, up>>
    BY <1>7 DEF FlushUnreachable, Divert
  <2> QED
    BY <2>1, <2>2
<1>8. CASE FlushLate(r)
  <2>1. PICK K \in SUBSET buf[r] : own' = [own EXCEPT ![r] = @ \cup K]
    BY <1>8 DEF FlushLate, Append
  <2>2. ~Draining(r, "own") /\ UNCHANGED <<reading, tail, drained, back, from, up, claims, overlap>>
    BY <1>8 DEF FlushLate
  <2> QED
    BY <2>1, <2>2
<1>9. CASE FlushRefused(r)
  BY <1>9 DEF FlushRefused, Flush
<1>10. CASE Unpause(r)
  BY <1>10 DEF Unpause
<1>11. CASE DrainOwn(r)
  <2>1. PICK K \in SUBSET own[r] : /\ reading' = [reading EXCEPT ![r] = K]
                                   /\ tail' = [tail EXCEPT ![r] = own[r] \ K] /\ K # {}
    BY <1>11 DEF DrainOwn, DrainRead, Batches
  <2>2. /\ from' = [from EXCEPT ![r] = "own"] /\ UNCHANGED <<own, claims, overlap, drained, back, up>>
        /\ drained[r] = {} /\ back[r] = {} /\ up[r] \in {"up", "closing"}
    BY <1>11 DEF DrainOwn, DrainRead, ReplayTick, Idle
  <2> QED
    BY <2>1, <2>2
<1>12. CASE DrainClaim(r)
  <2>1. PICK K \in SUBSET claims[r] : /\ reading' = [reading EXCEPT ![r] = K]
                                   /\ tail' = [tail EXCEPT ![r] = claims[r] \ K] /\ K # {}
    BY <1>12 DEF DrainClaim, DrainRead, Batches
  <2>2. /\ from' = [from EXCEPT ![r] = "claim"] /\ UNCHANGED <<own, claims, overlap, drained, back, up>>
        /\ drained[r] = {} /\ back[r] = {} /\ up[r] \in {"up", "closing"}
    BY <1>12 DEF DrainClaim, DrainRead, ReplayTick, Idle
  <2> QED
    BY <2>1, <2>2
<1>13. CASE DrainRename(r)
  BY <1>13 DEF DrainRename, ReadDone, Rewrite
<1>14. CASE DrainFails(r)
  BY <1>14 DEF DrainFails, ReadDone
<1>15. CASE ReplayOne(r)
  <2>1. /\ \A x \in Replicas \ {r} : drained'[x] = drained[x] /\ back'[x] = back[x] /\ from'[x] = from[x]
        /\ UNCHANGED <<up, own, claims, reading, tail, overlap>> /\ drained[r] # {}
    BY <1>15 DEF ReplayOne
  <2> QED
    BY <2>1
<1>16. CASE ReSpill(r)
  <2>1. /\ \A x \in Replicas \ {r} : own'[x] = own[x] /\ claims'[x] = claims[x] /\ from'[x] = from[x] /\ back'[x] = back[x]
        /\ UNCHANGED <<up, reading, tail, drained, overlap>> /\ reading[r] = {}
    BY <1>16 DEF ReSpill, Append
  <2> QED
    BY <2>1
<1>17. CASE AdoptOrphans(r)
  <2>k. /\ \A e \in Events, x \in Replicas :
             /\ e \in own'[x] <=> e \in own[x] /\ x \notin Orphans(r)
             /\ x # r => (e \in claims'[x] <=> e \in claims[x] /\ x \notin OrphanClaims(r))
        /\ overlap \subseteq overlap'
        /\ \A x \in Orphans(r) : Draining(x, "own") => own[x] \subseteq overlap'
        /\ \A x \in OrphanClaims(r) : Draining(x, "claim") => claims[x] \subseteq overlap'
        /\ own' \in [Replicas -> SUBSET Events] /\ claims' \in [Replicas -> SUBSET Events]
    BY <1>17, AdoptedIs DEF AdoptOrphans
  <2>u. UNCHANGED <<reading, tail, drained, back, from>> /\ (up' = up \/ up' = [up EXCEPT ![r] = "up"]) /\ reading[r] = {}
    BY <1>17 DEF AdoptOrphans, Idle
  <2>1. CASE d = r
    BY <2>u, <2>1
  <2>2. CASE d # r
    <3>1. /\ own'[d] = (IF d \in Orphans(r) THEN {} ELSE own[d])
          /\ claims'[d] = (IF d \in OrphanClaims(r) THEN {} ELSE claims[d])
      BY <2>2, <2>k
    <3>2. Draining(d, "own") => Reads(d, own[d])'
      BY <2>k, <2>u, <3>1
    <3>3. Draining(d, "claim") => Reads(d, claims[d])'
      BY <2>k, <2>u, <3>1
    <3>4. (Draining(d, "own")' <=> Draining(d, "own")) /\ (Draining(d, "claim")' <=> Draining(d, "claim"))
      BY <2>u
    <3>5. up'[d] = up[d]
      BY <2>2, <2>u
    <3> QED
      BY <2>u, <3>2, <3>3, <3>4, <3>5
  <2> QED
    BY <2>1, <2>2
<1>18. CASE Start(r)
  <2>k. /\ \A e \in Events, x \in Replicas :
             /\ e \in own'[x] <=> e \in own[x] /\ x \notin Orphans(r)
             /\ x # r => (e \in claims'[x] <=> e \in claims[x] /\ x \notin OrphanClaims(r))
        /\ overlap \subseteq overlap'
        /\ \A x \in Orphans(r) : Draining(x, "own") => own[x] \subseteq overlap'
        /\ \A x \in OrphanClaims(r) : Draining(x, "claim") => claims[x] \subseteq overlap'
        /\ own' \in [Replicas -> SUBSET Events] /\ claims' \in [Replicas -> SUBSET Events]
    BY <1>18, AdoptedIs DEF Start
  <2>u. UNCHANGED <<reading, tail, drained, back, from>> /\ (up' = up \/ up' = [up EXCEPT ![r] = "up"]) /\ reading[r] = {}
    BY <1>18 DEF Start, Idle
  <2>1. CASE d = r
    BY <2>u, <2>1
  <2>2. CASE d # r
    <3>1. /\ own'[d] = (IF d \in Orphans(r) THEN {} ELSE own[d])
          /\ claims'[d] = (IF d \in OrphanClaims(r) THEN {} ELSE claims[d])
      BY <2>2, <2>k
    <3>2. Draining(d, "own") => Reads(d, own[d])'
      BY <2>k, <2>u, <3>1
    <3>3. Draining(d, "claim") => Reads(d, claims[d])'
      BY <2>k, <2>u, <3>1
    <3>4. (Draining(d, "own")' <=> Draining(d, "own")) /\ (Draining(d, "claim")' <=> Draining(d, "claim"))
      BY <2>u
    <3>5. up'[d] = up[d]
      BY <2>2, <2>u
    <3> QED
      BY <2>u, <3>2, <3>3, <3>4, <3>5
  <2> QED
    BY <2>1, <2>2
<1>19. CASE Stop(r)
  BY <1>19 DEF Stop
<1>20. CASE Stopped(r)
  BY <1>20 DEF Stopped, Idle
<1>21. CASE Crash(r)
  BY <1>21 DEF Crash
<1>22. CASE Restart(r)
  BY <1>22 DEF Restart
<1>23. CASE Age(r)
  BY <1>23 DEF Age
<1> QED
  BY <1>1, <1>2, <1>3, <1>4, <1>5, <1>6, <1>7, <1>8, <1>9, <1>10, <1>11,
     <1>12, <1>13, <1>14, <1>15, <1>16, <1>17, <1>18, <1>19, <1>20, <1>21,
     <1>22, <1>23
     DEF Step, Record, Worker, Reaper

----------------------------------------------------------------------------
(* The size of a spill file. *)

(* The parts of what a replica holds are finite. *)
LEMMA Finite ==
    ASSUME Inv, NEW r \in Replicas, NEW S,
           S \subseteq Held(r) \/ S \subseteq reading[r] \/ S \subseteq tail[r]
    PROVE  IsFiniteSet(S) /\ Cardinality(S) \in Nat
<1>1. IsFiniteSet(recorded) /\ Held(r) \subseteq recorded /\ reading[r] \cup tail[r] \subseteq recorded
  BY DEF Inv, HeldIsRecorded
<1>2. S \in SUBSET recorded
  BY <1>1
<1> QED
  BY <1>1, <1>2, FS_Subset, FS_CardinalityType

(* Two sets have no more elements together than each on its own. *)
LEMMA Together ==
    ASSUME NEW S, NEW T, IsFiniteSet(S), IsFiniteSet(T)
    PROVE  Cardinality(S \cup T) <= Cardinality(S) + Cardinality(T)
<1>1. Cardinality(S \cup T) = Cardinality(S) + Cardinality(T) - Cardinality(S \cap T)
  BY FS_Union
<1>2. IsFiniteSet(S \cap T)
  BY FS_Intersection
<1> QED
  BY <1>1, <1>2, FS_CardinalityType

(* The cap of an append: the file stays within it, or as it is. *)
LEMMA AppendFits ==
    ASSUME Inv, NEW r \in Replicas, NEW E, NEW K \in SUBSET E, E \subseteq Held(r) \/ IsFiniteSet(E),
           Fits(r, E, K) \/ K = {}
    PROVE  own[r] \cup K = own[r] \/ Cardinality(own[r] \cup K) <= SpillMax
<1>1. CASE K = {}
  BY <1>1
<1>2. CASE K # {}
  <2>1. IsFiniteSet(own[r]) /\ Cardinality(own[r]) \in Nat
    BY Finite DEF Held
  <2>2. IsFiniteSet(K) /\ Cardinality(K) \in Nat
    <3>1. CASE E \subseteq Held(r)
      BY <3>1, Finite
    <3>2. CASE IsFiniteSet(E)
      BY <3>2, FS_Subset, FS_CardinalityType
    <3> QED
      BY <3>1, <3>2
  <2>3. Cardinality(own[r]) + Cardinality(K) <= SpillMax
    BY <1>2 DEF Fits
  <2>4. IsFiniteSet(own[r] \cup K) /\ Cardinality(own[r] \cup K) \in Nat
    BY <2>1, <2>2, FS_Union, FS_CardinalityType
  <2>5. Cardinality(own[r] \cup K) <= Cardinality(own[r]) + Cardinality(K)
    BY <2>1, <2>2, Together
  <2> QED
    BY <2>1, <2>2, <2>3, <2>4, <2>5, SizesAssumption
<1> QED
  BY <1>1, <1>2

(* A batch that leaves something behind is a full one. *)
LEMMA BatchSize ==
    ASSUME Inv, NEW r \in Replicas, NEW content, content \subseteq Held(r), NEW K \in Batches(content)
    PROVE  /\ Cardinality(K) <= FlushSize
           /\ Cardinality(content) <= SpillMax + FlushSize => Cardinality(content \ K) <= SpillMax
<1>1. /\ K \in SUBSET content
      /\ Cardinality(K) = FlushSize \/ (K = content /\ Cardinality(K) < FlushSize)
  BY DEF Batches
<1>2. /\ IsFiniteSet(content) /\ Cardinality(content) \in Nat /\ Cardinality(K) \in Nat
      /\ FlushSize \in Nat /\ SpillMax \in Nat
  BY <1>1, Finite, SizesAssumption
<1>3. Cardinality(content \ K) = Cardinality(content) - Cardinality(content \cap K)
  BY <1>2, FS_Difference
<1>4. content \cap K = K
  BY <1>1
<1>5. CASE Cardinality(K) = FlushSize
  BY <1>2, <1>3, <1>4, <1>5
<1>6. CASE K = content /\ Cardinality(K) < FlushSize
  <2>1. content \ K = {}
    BY <1>6
  <2> QED
    BY <1>2, <1>6, <2>1, FS_EmptySet
<1> QED
  BY <1>1, <1>5, <1>6

(* What changes hands does not make a file larger. *)
LEMMA SizedAlong ==
    ASSUME Inv, NEW d \in Replicas, own'[d] = own[d] \/ own'[d] = {},
           reading'[d] = reading[d], tail'[d] = tail[d], drained'[d] = drained[d],
           back'[d] = back[d], from'[d] = from[d]
    PROVE  Sized(d)'
<1>1. Sized(d) /\ SpillMax \in Nat /\ FlushSize \in Nat
  BY SizesAssumption DEF Inv
<1>2. Cardinality({}) = 0
  BY FS_EmptySet
<1>3. CASE own'[d] = own[d]
  BY <1>1, <1>3 DEF Sized
<1>4. CASE own'[d] = {}
  BY <1>1, <1>2, <1>4 DEF Sized
<1> QED
  BY <1>3, <1>4

(* No file outgrows its cap by more than a batch. *)
LEMMA SizedStep ==
    ASSUME Inv, NEW r \in Replicas, Step(r), NEW d \in Replicas
    PROVE  Sized(d)'
<1>t. TypePlaces /\ TypeProcess /\ DrainInv(r) /\ Sized(r) /\ SpillMax \in Nat /\ FlushSize \in Nat
      /\ None # "own" /\ Cardinality({}) = 0
  BY NoneAssumption, SizesAssumption, FS_EmptySet DEF Inv
<1>k. /\ own'[d] = own[d] \/ own'[d] = {}
      /\ reading'[d] = reading[d] /\ tail'[d] = tail[d] /\ drained'[d] = drained[d]
      /\ back'[d] = back[d] /\ from'[d] = from[d]
      => Sized(d)'
  BY SizedAlong
<1>a. ASSUME NEW E, NEW K \in SUBSET E, E \subseteq Held(r) \/ IsFiniteSet(E), Fits(r, E, K) \/ K = {},
             own' = [own EXCEPT ![r] = @ \cup K], UNCHANGED <<reading, tail, drained, back, from>>
      PROVE  Sized(d)'
  <2>1. CASE own'[d] = own[d]
    BY <1>a, <1>k, <2>1
  <2>2. CASE own'[d] # own[d]
    <3>1. d = r /\ own'[d] = own[r] \cup K
      BY <1>a, <1>t, <2>2 DEF TypePlaces
    <3>2. Cardinality(own'[d]) <= SpillMax
      BY <1>a, <2>2, <3>1, AppendFits
    <3>3. IsFiniteSet(own'[d])
      <4>1. IsFiniteSet(K)
        BY <1>a, FS_Subset, Finite
      <4>2. IsFiniteSet(own[r])
        BY Finite DEF Held
      <4> QED
        BY <3>1, <4>1, <4>2, FS_Union
    <3>4. Cardinality(own'[d]) \in Nat
      BY <3>3, FS_CardinalityType
    <3> QED
      BY <1>a, <1>t, <3>1, <3>2, <3>4 DEF Sized
  <2> QED
    BY <2>1, <2>2
<1> USE DEF memory, disk
<1>1. ASSUME NEW e \in Events, RecordDetached(r, e)
      PROVE  Sized(d)'
  BY <1>k, <1>1 DEF RecordDetached
<1>2. ASSUME NEW e \in Events, RecordEnqueued(r, e)
      PROVE  Sized(d)'
  BY <1>k, <1>2 DEF RecordEnqueued
<1>3. ASSUME NEW e \in Events, RecordFull(r, e)
      PROVE  Sized(d)'
  <2>1. PICK K \in SUBSET {e} : (Fits(r, {e}, K) \/ K = {}) /\ own' = [own EXCEPT ![r] = @ \cup K]
    BY <1>3 DEF RecordFull, Divert, Append
  <2>2. UNCHANGED <<reading, tail, drained, back, from>> /\ IsFiniteSet({e})
    BY <1>3, FS_Singleton DEF RecordFull
  <2> QED
    BY <1>a, <2>1, <2>2
<1>4. ASSUME NEW e \in Events, RecordClosed(r, e)
      PROVE  Sized(d)'
  BY <1>k, <1>4 DEF RecordClosed
<1>5. CASE Take(r)
  BY <1>k, <1>5 DEF Take
<1>6. CASE FlushWritten(r)
  BY <1>k, <1>6 DEF FlushWritten
<1>7. CASE FlushUnreachable(r)
  <2>1. PICK K \in SUBSET buf[r] : (Fits(r, buf[r], K) \/ K = {}) /\ own' = [own EXCEPT ![r] = @ \cup K]
    BY <1>7 DEF FlushUnreachable, Divert, Append
  <2>2. UNCHANGED <<reading, tail, drained, back, from>> /\ buf[r] \subseteq Held(r)
    BY <1>7 DEF FlushUnreachable, Held, Memory
  <2> QED
    BY <1>a, <2>1, <2>2
<1>8. CASE FlushLate(r)
  <2>1. PICK K \in SUBSET buf[r] : Fits(r, buf[r], K) /\ own' = [own EXCEPT ![r] = @ \cup K]
    BY <1>8 DEF FlushLate, Append
  <2>2. UNCHANGED <<reading, tail, drained, back, from>> /\ buf[r] \subseteq Held(r)
    BY <1>8 DEF FlushLate, Held, Memory
  <2> QED
    BY <1>a, <2>1, <2>2
<1>9. CASE FlushRefused(r)
  BY <1>k, <1>9 DEF FlushRefused
<1>10. CASE Unpause(r)
  BY <1>k, <1>10 DEF Unpause
<1>11. CASE DrainOwn(r)
  <2>1. PICK K \in Batches(own[r]) : /\ reading' = [reading EXCEPT ![r] = K]
                                    /\ tail' = [tail EXCEPT ![r] = own[r] \ K]
    BY <1>11 DEF DrainOwn, DrainRead
  <2>2. /\ from' = [from EXCEPT ![r] = "own"] /\ UNCHANGED <<own, drained, back>>
        /\ drained[r] = {} /\ back[r] = {}
    BY <1>11 DEF DrainOwn, DrainRead, ReplayTick, Idle
  <2>3. CASE d # r
    BY <1>k, <1>t, <2>1, <2>2, <2>3 DEF TypePlaces, TypeProcess
  <2>4. CASE d = r
    <3>1. /\ reading'[r] = K /\ tail'[r] = own[r] \ K /\ from'[r] = "own"
          /\ own'[r] = own[r] /\ drained'[r] = {} /\ back'[r] = {}
      BY <1>t, <2>1, <2>2 DEF TypePlaces, TypeProcess
    <3>2. Cardinality(K) <= FlushSize
      BY BatchSize DEF Held
    <3>3. Cardinality(drained'[r] \cup back'[r]) = 0
      BY <1>t, <3>1
    <3>4. Cardinality(tail'[r]) <= SpillMax
      BY <1>t, <3>1, BatchSize DEF Held, Sized
    <3> QED
      BY <1>t, <2>4, <3>1, <3>2, <3>3, <3>4 DEF Sized
  <2> QED
    BY <2>3, <2>4
<1>12. CASE DrainClaim(r)
  <2>1. PICK K \in Batches(claims[r]) : /\ reading' = [reading EXCEPT ![r] = K]
                                    /\ tail' = [tail EXCEPT ![r] = claims[r] \ K]
    BY <1>12 DEF DrainClaim, DrainRead
  <2>2. /\ from' = [from EXCEPT ![r] = "claim"] /\ UNCHANGED <<own, drained, back>>
        /\ drained[r] = {} /\ back[r] = {}
    BY <1>12 DEF DrainClaim, DrainRead, ReplayTick, Idle
  <2>3. CASE d # r
    BY <1>k, <1>t, <2>1, <2>2, <2>3 DEF TypePlaces, TypeProcess
  <2>4. CASE d = r
    <3>1. /\ reading'[r] = K /\ tail'[r] = claims[r] \ K /\ from'[r] = "claim"
          /\ own'[r] = own[r] /\ drained'[r] = {} /\ back'[r] = {}
      BY <1>t, <2>1, <2>2 DEF TypePlaces, TypeProcess
    <3>2. Cardinality(K) <= FlushSize
      BY BatchSize DEF Held
    <3>3. Cardinality(drained'[r] \cup back'[r]) = 0
      BY <1>t, <3>1
    <3> QED
      BY <1>t, <2>4, <3>1, <3>2, <3>3 DEF Sized
  <2> QED
    BY <2>3, <2>4
<1>13. CASE DrainRename(r)
  <2>1. /\ reading' = [reading EXCEPT ![r] = {}] /\ tail' = [tail EXCEPT ![r] = {}]
        /\ drained' = [drained EXCEPT ![r] = reading[r]] /\ back' = back /\ from' = from
        /\ reading[r] # {}
        /\ own' = IF from[r] = "own" THEN [own EXCEPT ![r] = tail[r]] ELSE own
    BY <1>13 DEF DrainRename, ReadDone, Rewrite
  <2>2. CASE d # r
    BY <1>k, <1>t, <2>1, <2>2 DEF TypePlaces
  <2>3. CASE d = r
    <3>1. /\ reading'[r] = {} /\ tail'[r] = {} /\ drained'[r] = reading[r] /\ back'[r] = {}
          /\ from'[r] = from[r] /\ own'[r] = IF from[r] = "own" THEN tail[r] ELSE own[r]
      BY <1>t, <2>1 DEF TypePlaces, DrainInv
    <3>2. drained'[r] \cup back'[r] = reading[r]
      BY <3>1
    <3>3. Cardinality(tail[r]) \in Nat
      BY Finite
    <3> QED
      BY <1>t, <2>3, <3>1, <3>2, <3>3 DEF Sized
  <2> QED
    BY <2>2, <2>3
<1>14. CASE DrainFails(r)
  <2>1. /\ reading' = [reading EXCEPT ![r] = {}] /\ tail' = [tail EXCEPT ![r] = {}]
        /\ from' = [from EXCEPT ![r] = None] /\ UNCHANGED <<own, drained, back>>
    BY <1>14 DEF DrainFails, ReadDone
  <2>2. CASE d # r
    BY <1>k, <1>t, <2>1, <2>2 DEF TypePlaces, TypeProcess
  <2>3. CASE d = r
    <3>1. /\ reading'[r] = {} /\ tail'[r] = {} /\ from'[r] = None /\ own'[r] = own[r]
          /\ drained'[r] = drained[r] /\ back'[r] = back[r]
      BY <1>t, <2>1 DEF TypePlaces, TypeProcess
    <3> QED
      BY <1>t, <2>3, <3>1 DEF Sized
  <2> QED
    BY <2>2, <2>3
<1>15. CASE ReplayOne(r)
  <2>1. PICK e \in drained[r] :
          /\ drained' = [drained EXCEPT ![r] = @ \ {e}]
          /\ back' = [back EXCEPT ![r] = @ \cup {e}] \/ back' = back
    BY <1>15 DEF ReplayOne
  <2>2. /\ UNCHANGED <<own, reading, tail>>
        /\ from' = [from EXCEPT ![r] = None] \/ from' = from
    BY <1>15 DEF ReplayOne
  <2>3. CASE d # r
    BY <1>k, <1>t, <2>1, <2>2, <2>3 DEF TypePlaces, TypeProcess
  <2>4. CASE d = r
    <3>1. /\ drained'[r] = drained[r] \ {e} /\ (back'[r] = back[r] \cup {e} \/ back'[r] = back[r])
          /\ (from'[r] = None \/ from'[r] = from[r]) /\ own'[r] = own[r]
          /\ reading'[r] = reading[r] /\ tail'[r] = tail[r]
      BY <1>t, <2>1, <2>2 DEF TypePlaces, TypeProcess
    <3>2. drained'[r] \cup back'[r] \in SUBSET (drained[r] \cup back[r]) /\ drained[r] \cup back[r] # {}
      BY <3>1
    <3>3. IsFiniteSet(drained[r] \cup back[r]) /\ Cardinality(drained[r] \cup back[r]) \in Nat
      BY Finite DEF Held, Memory
    <3>4. IsFiniteSet(drained'[r] \cup back'[r]) /\ Cardinality(drained'[r] \cup back'[r]) <= Cardinality(drained[r] \cup back[r])
      BY <3>2, <3>3, FS_Subset
    <3>5. Cardinality(drained'[r] \cup back'[r]) \in Nat
      BY <3>4, FS_CardinalityType
    <3> QED
      BY <1>t, <2>4, <3>1, <3>2, <3>3, <3>4, <3>5 DEF Sized
  <2> QED
    BY <2>3, <2>4
<1>16. CASE ReSpill(r)
  <2>1. /\ drained[r] = {} /\ back[r] # {} /\ UNCHANGED <<reading, tail, drained>>
        /\ back' = [back EXCEPT ![r] = {}] /\ from' = [from EXCEPT ![r] = None]
        /\ \/ own' = own
           \/ from[r] = "own" /\ own' = [own EXCEPT ![r] = @ \cup back[r]]
    BY <1>16 DEF ReSpill, Append
  <2>2. CASE d # r
    BY <1>k, <1>t, <2>1, <2>2 DEF TypePlaces, TypeProcess
  <2>3. CASE d = r
    <3>1. /\ reading'[r] = reading[r] /\ tail'[r] = tail[r] /\ drained'[r] = {} /\ back'[r] = {} /\ from'[r] = None
          /\ (own'[r] = own[r] \/ (from[r] = "own" /\ own'[r] = own[r] \cup back[r]))
      BY <1>t, <2>1 DEF TypePlaces, TypeProcess
    <3>2. drained[r] \cup back[r] = back[r] /\ drained'[r] \cup back'[r] = {}
      BY <2>1, <3>1
    <3>3. /\ IsFiniteSet(own[r]) /\ Cardinality(own[r]) \in Nat
          /\ IsFiniteSet(back[r]) /\ Cardinality(back[r]) \in Nat
      BY Finite DEF Held, Memory
    <3>4. /\ Cardinality(own[r] \cup back[r]) <= Cardinality(own[r]) + Cardinality(back[r])
          /\ Cardinality(own[r] \cup back[r]) \in Nat
      BY <3>3, Together, FS_Union, FS_CardinalityType
    <3>5. Cardinality(own'[r]) <= SpillMax + FlushSize
      <4>1. CASE own'[r] = own[r]
        BY <1>t, <4>1 DEF Sized
      <4>2. CASE from[r] = "own" /\ own'[r] = own[r] \cup back[r]
        <5>1. Cardinality(own[r]) <= SpillMax /\ Cardinality(back[r]) <= FlushSize
          BY <1>t, <2>1, <3>2, <4>2 DEF Sized
        <5> QED
          BY <1>t, <3>3, <3>4, <4>2, <5>1
      <4> QED
        BY <3>1, <4>1, <4>2
    <3> QED
      BY <1>t, <2>3, <3>1, <3>2, <3>5 DEF Sized
  <2> QED
    BY <2>2, <2>3
<1>17. CASE AdoptOrphans(r)
  BY <1>k, <1>17 DEF AdoptOrphans, Adopts
<1>18. CASE Start(r)
  BY <1>k, <1>18 DEF Start, Adopts
<1>19. CASE Stop(r)
  BY <1>k, <1>19 DEF Stop
<1>20. CASE Stopped(r)
  BY <1>k, <1>20 DEF Stopped
<1>21. CASE Crash(r)
  <2>1. /\ reading' = [reading EXCEPT ![r] = {}] /\ tail' = [tail EXCEPT ![r] = {}]
        /\ drained' = [drained EXCEPT ![r] = {}] /\ back' = [back EXCEPT ![r] = {}]
        /\ from' = [from EXCEPT ![r] = None] /\ own' = own
    BY <1>21 DEF Crash
  <2>2. CASE d # r
    BY <1>k, <1>t, <2>1, <2>2 DEF TypePlaces, TypeProcess
  <2>3. CASE d = r
    <3>1. /\ reading'[r] = {} /\ tail'[r] = {} /\ drained'[r] = {} /\ back'[r] = {} /\ from'[r] = None
          /\ own'[r] = own[r] /\ drained'[r] \cup back'[r] = {}
      BY <1>t, <2>1 DEF TypePlaces, TypeProcess
    <3> QED
      BY <1>t, <2>3, <3>1 DEF Sized
  <2> QED
    BY <2>2, <2>3
<1>22. CASE Restart(r)
  BY <1>k, <1>22 DEF Restart
<1>23. CASE Age(r)
  BY <1>k, <1>23 DEF Age
<1> QED
  BY <1>1, <1>2, <1>3, <1>4, <1>5, <1>6, <1>7, <1>8, <1>9, <1>10, <1>11,
     <1>12, <1>13, <1>14, <1>15, <1>16, <1>17, <1>18, <1>19, <1>20, <1>21,
     <1>22, <1>23
     DEF Step, Record, Worker, Reaper

----------------------------------------------------------------------------
(* The theorems. *)

(* The invariant holds initially. *)
LEMMA InitInv == Init => Inv
<1> SUFFICES ASSUME Init PROVE Inv
  OBVIOUS
<1> USE DEF Init, Empty, No
<1>1. TypePlaces /\ TypeProcess /\ TypeSets
  BY SizesAssumption DEF TypePlaces, TypeProcess, TypeSets
<1>2. TypeFlags
  BY DEF TypeFlags
<1>3. TypeTrail
  BY DEF TypeTrail
<1>4. \A r \in Replicas : Bounded(r)
  BY FS_EmptySet, SizesAssumption DEF Bounded
<1>5. \A e \in Events \ overlap, r \in Replicas : Distinct(e, r)
  BY DEF Distinct
<1>6. \A e \in Events \ overlap, r, s \in Replicas : Apart(e, r, s)
  BY DEF Apart, Memory
<1>7. HeldIsRecorded /\ \A e \in recorded : Kept(e)
  BY DEF HeldIsRecorded, Held, Memory
<1>8. IsFiniteSet(recorded) /\ \A r \in Replicas : DrainInv(r)
  BY FS_EmptySet DEF DrainInv, Draining
<1>9. \A r \in Replicas : Sized(r)
  BY FS_EmptySet, SizesAssumption, NoneAssumption DEF Sized
<1> QED
  BY <1>1, <1>2, <1>3, <1>4, <1>5, <1>6, <1>7, <1>8, <1>9 DEF Inv

(* Every step keeps the invariant. *)
LEMMA NextInv == Inv /\ [Next]_vars => Inv'
<1> SUFFICES ASSUME Inv, [Next]_vars PROVE Inv'
  OBVIOUS
<1>1. ASSUME NEW r \in Replicas, Step(r) PROVE Inv'
  <2>1. TypePlaces' /\ TypeProcess' /\ TypeSets' /\ TypeFlags' /\ TypeTrail'
    BY <1>1, PlacesStep, FlagsStep, TrailStep
  <2>2. \A d \in Replicas : Bounded(d)'
    BY <1>1, BoundsStep
  <2>3. /\ \A e \in Events \ overlap', d \in Replicas : Distinct(e, d)'
        /\ \A e \in Events \ overlap', d, f \in Replicas : Apart(e, d, f)'
    BY <1>1, ApartStep
  <2>4. HeldIsRecorded' /\ \A x \in recorded' : Kept(x)'
    BY <1>1, KeptStep
  <2>5. IsFiniteSet(recorded') /\ \A d \in Replicas : DrainInv(d)'
    BY <1>1, RecordedStep, DrainStep
  <2>6. \A d \in Replicas : Sized(d)'
    BY <1>1, SizedStep
  <2> QED
    BY <2>1, <2>2, <2>3, <2>4, <2>5, <2>6 DEF Inv
<1>2. CASE Outage \/ Recovery \/ UNCHANGED vars
  <2>u. /\ UNCHANGED <<up, memory, disk, pause, trail, logged, gone, lost, recorded>>
        /\ faults' \in 0..MaxFaults /\ dbUp' \in BOOLEAN
    <3>0. faults \in 0..MaxFaults /\ MaxFaults \in Nat
      BY SizesAssumption DEF Inv, TypeSets
    <3>1. faults' \in 0..MaxFaults
      BY <1>2, <3>0 DEF Outage, Recovery, vars, Fault, Faults
    <3>2. dbUp' \in BOOLEAN
      BY <1>2 DEF Outage, Recovery, vars, Inv, TypeFlags
    <3>3. UNCHANGED <<up, memory, disk, pause, trail, logged, gone, lost, recorded>>
      BY <1>2 DEF Outage, Recovery, vars
    <3> QED
      BY <3>1, <3>2, <3>3
  <2>1. TypePlaces' /\ TypeProcess' /\ TypeSets' /\ TypeTrail'
    BY <2>u DEF Inv, TypePlaces, TypeProcess, TypeSets, TypeTrail, memory, disk
  <2>2. TypeFlags'
    BY <2>u DEF Inv, TypeFlags, disk
  <2>3. \A r \in Replicas : Bounded(r)'
    BY <2>u DEF Inv, Bounded, memory
  <2>4. /\ \A e \in Events \ overlap', r \in Replicas : Distinct(e, r)'
        /\ \A e \in Events \ overlap', r, s \in Replicas : Apart(e, r, s)'
    BY <2>u DEF Inv, Distinct, Apart, Memory, memory, disk
  <2>5. HeldIsRecorded' /\ \A e \in recorded' : Kept(e)'
    BY <2>u DEF Inv, HeldIsRecorded, Kept, Held, Memory, memory, disk
  <2>6. IsFiniteSet(recorded') /\ \A r \in Replicas : DrainInv(r)'
    BY <2>u DEF Inv, DrainInv, Draining, Reads, memory, disk
  <2>7. \A r \in Replicas : Sized(r)'
    BY <2>u DEF Inv, Sized, memory, disk
  <2> QED
    BY <2>1, <2>2, <2>3, <2>4, <2>5, <2>6, <2>7 DEF Inv
<1> QED
  BY <1>1, <1>2 DEF Next, Step

(* The invariant holds in every behaviour of the recorder, its spill files  *)
(* and the replicas that adopt them.                                        *)
THEOREM Invariance == Spec => []Inv
  BY InitInv, NextInv, PTL DEF Spec

(* Every variable keeps its type, and the queue and the workers' batch keep *)
(* their bounds (queueSize, flushSize), for any number of replicas and any  *)
(* number of events.                                                        *)
THEOREM TypeCorrect == Spec => []TypeOK
<1>1. Inv => TypeOK
  <2> SUFFICES ASSUME Inv PROVE TypeOK
    OBVIOUS
  <2>1. \A f \in {queue, buf, reading, tail, drained, back, own, claims} : f \in [Replicas -> SUBSET Events]
    BY DEF Inv, TypePlaces
  <2>2. \A f \in {torn, old, oldClaim, pause} : f \in [Replicas -> BOOLEAN]
    BY DEF Inv, TypeFlags
  <2>3. dbUp \in BOOLEAN
    BY DEF Inv, TypeFlags
  <2>4. \A r \in Replicas : Cardinality(queue[r]) <= QueueSize /\ Cardinality(buf[r]) <= FlushSize
    BY DEF Inv, Bounded
  <2>5. trail \in [Events -> Nat]
    BY DEF Inv, TypeTrail
  <2>6. /\ up \in [Replicas -> {"new", "up", "closing", "down"}]
        /\ from \in [Replicas -> {"own", "claim", None}]
    BY DEF Inv, TypeProcess
  <2>7. /\ logged \subseteq Events /\ gone \subseteq Events /\ recorded \subseteq Events
        /\ lost \subseteq Events /\ overlap \subseteq Events /\ faults \in 0..MaxFaults
    BY DEF Inv, TypeSets
  <2> QED
    BY <2>1, <2>2, <2>3, <2>4, <2>5, <2>6, <2>7 DEF TypeOK
<1> QED
  BY <1>1, Invariance, PTL

(* No recorded event disappears in silence: it is a row, a log line, on     *)
(* disk, in a live process, or was lost with one, whatever queues fill,     *)
(* disks fail and files change hands (Recorder, spillStore).                *)
THEOREM NothingDisappears == Spec => []Accounted
<1>1. Inv => Accounted
  <2> SUFFICES ASSUME Inv, NEW e \in recorded
               PROVE  \/ e \in Written \/ e \in logged \/ e \in gone \/ e \in Disk
                      \/ e \in UNION {Memory(r) : r \in Replicas}
    BY DEF Accounted
  <2>1. Kept(e) /\ e \in Events
    BY DEF Inv, TypeSets
  <2>2. ASSUME NEW r \in Replicas, e \in Held(r)
        PROVE  e \in Disk \/ e \in UNION {Memory(d) : d \in Replicas}
    BY <2>2 DEF Held, Disk
  <2> QED
    BY <2>1, <2>2 DEF Kept, Written
<1> QED
  BY <1>1, Invariance, PTL

(* A set with no two elements counts one at most. *)
LEMMA AtMostOne ==
    ASSUME NEW S, \A x, y \in S : x = y
    PROVE  Cardinality(S) \in {0, 1} /\ (S = {} => Cardinality(S) = 0)
<1>1. CASE S = {}
  BY <1>1, FS_EmptySet
<1>2. CASE S # {}
  <2>1. PICK x : S = {x}
    BY <1>2
  <2> QED
    BY <1>2, <2>1, FS_Singleton
<1> QED
  BY <1>1, <1>2

(* An event is in one replica's hands at most, unless its file was taken    *)
(* between the read and the rename of its owner's drain: claimOrphans       *)
(* renames files, and what is drained, replayed or spilled again leaves     *)
(* where it was (Drain, reSpill, spillFor).                                 *)
THEOREM HeldOnce == Spec => []OneHolder
<1>1. Inv => OneHolder
  <2> SUFFICES ASSUME Inv, NEW e \in Events \ overlap
               PROVE  Cardinality({r \in Replicas : e \in own[r]})
                      + Cardinality({r \in Replicas : e \in claims[r]})
                      + Cardinality({r \in Replicas : e \in Memory(r)}) <= 1
    BY DEF OneHolder
  <2> DEFINE O == {r \in Replicas : e \in own[r]}
             C == {r \in Replicas : e \in claims[r]}
             M == {r \in Replicas : e \in Memory(r)}
  <2>1. \A r, s \in Replicas : Apart(e, r, s)
    BY DEF Inv
  <2>2. /\ \A x, y \in O : x = y
        /\ \A x, y \in C : x = y
        /\ \A x, y \in M : x = y
    BY <2>1 DEF Apart
  <2>3. (O = {} /\ C = {}) \/ (O = {} /\ M = {}) \/ (C = {} /\ M = {})
    BY <2>1 DEF Apart
  <2> HIDE DEF O, C, M
  <2>4. /\ Cardinality(O) \in {0, 1} /\ (O = {} => Cardinality(O) = 0)
        /\ Cardinality(C) \in {0, 1} /\ (C = {} => Cardinality(C) = 0)
        /\ Cardinality(M) \in {0, 1} /\ (M = {} => Cardinality(M) = 0)
    BY <2>2, AtMostOne
  <2>5. Cardinality(O) + Cardinality(C) + Cardinality(M) <= 1
    BY <2>3, <2>4
  <2> QED
    BY <2>5 DEF O, C, M
<1> QED
  BY <1>1, Invariance, PTL

(* A spill file outgrows its cap by one drained batch at most, for any      *)
(* sizes: a re-spill does not look at the cap, and the file fills up again  *)
(* to the cap between a drain and its re-spill, but no further (spillFor,   *)
(* Drain, reSpill).                                                         *)
THEOREM FilesAreBounded == Spec => []CapHolds
<1>1. Inv => CapHolds
  BY DEF Inv, Sized, CapHolds
<1> QED
  BY <1>1, Invariance, PTL

=============================================================================
