------------------------- MODULE SettingsCache_proof -------------------------
(***************************************************************************)
(* Proofs about SettingsCache, for any callers, writers and bounds: a Get   *)
(* that begins after a write was announced does not answer with an older    *)
(* version.                                                                 *)
(***************************************************************************)
EXTENDS SettingsCache, WellFoundedInduction, TLAPS

----------------------------------------------------------------------------
(* The inductive invariant. *)

(* A version no write that is still to be announced has replaced. *)
Below(v) == v <= row /\ \A p \in Pending : v < p

(* A version as new as any announced one: what replaced it, if anything     *)
(* did, is still to be announced.                                           *)
Covers(v) == v >= row \/ \E p \in Pending : p <= v + 1

(* The writers take turns at the row, a transaction the server has not      *)
(* settled among them, and leave room for its next version.                 *)
Holding == {"saved", "updated", "published", "unknown", "limbo"}
WriterInv(w) ==
    /\ wpc[w] \in Holding => locked = w /\ ver[w] = 0
    /\ locked = w => wpc[w] \in Holding /\ row < MaxVersion
    /\ ver[w] <= row

(* One call at a time is inside refreshMu. *)
Inside == {"check", "refresh", "loading", "loaded", "serve"}
GetterInv(g) ==
    /\ gpc[g] \in Inside <=> refreshMu = g
    /\ captured[g] <= gen
    /\ Below(floor[g])

(* What a call is about to answer with or to store is no older than what    *)
(* had been announced when it began. *)
AnswerInv(g) ==
    /\ gpc[g] = "loaded" => floor[g] <= read[g] /\ (captured[g] = gen => Covers(read[g]))
    /\ gpc[g] = "serve" /\ ~excused[g] => floor[g] <= cached
    /\ gpc[g] = "returned" /\ ~excused[g] => floor[g] <= read[g]

Inv ==
    /\ TypeOK
    /\ expires = "ttl" => Covers(cached)
    /\ \A w \in Writers : WriterInv(w)
    /\ \A g \in Getters : GetterInv(g) /\ AnswerInv(g)

----------------------------------------------------------------------------
(* Versions. *)

(* A set of versions has a least one. *)
LEMMA LeastVersion ==
    ASSUME NEW S \in SUBSET Nat, S # {}
    PROVE  Min(S) \in S /\ \A v \in S : Min(S) <= v
<1> DEFINE R == OpToRel(<, Nat)
<1>1. \E x \in S : \A y \in S : ~(<<y, x>> \in R)
  BY WFMin, NatLessThanWellFounded
<1>2. \A x, y \in Nat : y < x => <<y, x>> \in R
  BY DEF OpToRel
<1> HIDE DEF R
<1>3. \E x \in S : \A y \in S : x =< y
  <2>1. PICK x \in S : \A y \in S : ~(<<y, x>> \in R)
    BY <1>1
  <2>2. \A y \in S : ~(y < x)
    BY <1>2, <2>1
  <2> QED
    BY <2>2
<1> QED
  BY <1>3 DEF Min

(* The type invariant by its parts. *)
TypeWrites ==
    /\ row \in 0..MaxVersion /\ locked \in Writers \cup {None} /\ late \in SUBSET (1..row)
    /\ wpc \in [Writers -> {"idle", "saved", "updated", "published", "unknown",
                            "limbo", "ended"}]
    /\ ver \in [Writers -> 0..MaxVersion]
TypeProvider == cached \in 0..MaxVersion /\ expires \in {"past", "ttl", "error"} /\ gen \in Nat
TypeCalls ==
    /\ refreshMu \in Getters \cup {None}
    /\ gpc \in [Getters -> {"idle", "want", "check", "refresh", "loading",
                            "loaded", "serve", "returned"}]
    /\ captured \in [Getters -> Nat] /\ read \in [Getters -> 0..MaxVersion]
    /\ floor \in [Getters -> 0..MaxVersion]
TypeFlags == excused \in [Getters -> BOOLEAN]
MuHeld == refreshMu # None => gpc[refreshMu] \notin {"idle", "want", "returned"}

(* The type invariant is its parts, before and after a step. *)
LEMMA TypeParts ==
    /\ TypeOK <=> TypeWrites /\ TypeProvider /\ TypeCalls /\ TypeFlags /\ MuHeld
    /\ TypeOK' <=> TypeWrites' /\ TypeProvider' /\ TypeCalls' /\ TypeFlags' /\ MuHeld'
  BY DEF TypeOK, TypeWrites, TypeProvider, TypeCalls, TypeFlags, MuHeld

(* What is pending has been committed. *)
LEMMA PendingIs ==
    ASSUME TypeWrites
    PROVE  \A p \in Pending : p \in Nat /\ p > 0 /\ (p \in 1..row \/ \E w \in Writers : p = ver[w])
<1>1. row \in Nat /\ \A w \in Writers : ver[w] \in Nat
  BY BoundsAssumption DEF TypeWrites
<1>2. \A p \in late : p \in 1..row
  BY DEF TypeWrites
<1>3. \A p \in 1..row : p \in Nat /\ p > 0
  BY <1>1
<1> QED
  BY <1>1, <1>2, <1>3 DEF Pending, Owing

(* The floor a Get begins with is a version, and no write that is still to  *)
(* be announced is at or below it.                                          *)
LEMMA AnnouncedIs ==
    ASSUME Inv
    PROVE  Announced \in 0..MaxVersion /\ Below(Announced)
<1>t. TypeWrites /\ MaxVersion \in Nat /\ \A w \in Writers : ver[w] <= row
  BY TypeParts, BoundsAssumption DEF Inv, WriterInv
<1>p. Pending \in SUBSET Nat /\ \A p \in Pending : p > 0 /\ p <= row
  BY <1>t, PendingIs DEF TypeWrites
<1>1. CASE Pending = {}
  BY <1>1, <1>t DEF Announced, Below, TypeWrites
<1>2. CASE Pending # {}
  <2>1. Min(Pending) \in Pending /\ \A v \in Pending : Min(Pending) <= v
    BY <1>2, <1>p, LeastVersion
  <2>2. Announced = Min(Pending) - 1
    BY <1>2 DEF Announced
  <2>3. Min(Pending) \in Nat /\ Min(Pending) > 0 /\ Min(Pending) <= row /\ row \in 0..MaxVersion
    BY <1>p, <2>1, <1>t DEF TypeWrites
  <2>4. \A p \in Pending : p \in Nat /\ Min(Pending) <= p
    BY <1>p, <2>1
  <2> QED
    BY <1>t, <2>2, <2>3, <2>4 DEF Below
<1> QED
  BY <1>1, <1>2

(* A version that covers is no older than one that is below. *)
LEMMA CoversBelow ==
    ASSUME TypeWrites, NEW v \in 0..MaxVersion, NEW c \in 0..MaxVersion, Below(v), Covers(c)
    PROVE  v <= c
<1>1. MaxVersion \in Nat /\ row \in 0..MaxVersion /\ \A p \in Pending : p \in Nat
  BY BoundsAssumption, PendingIs DEF TypeWrites
<1>2. CASE c >= row
  BY <1>1, <1>2 DEF Below
<1>3. ASSUME NEW p \in Pending, p <= c + 1
      PROVE  v <= c
  BY <1>1, <1>3 DEF Below
<1> QED
  BY <1>2, <1>3 DEF Covers

----------------------------------------------------------------------------
(* The writers. *)

(* What a step of a writer may do to the provider and to what was           *)
(* announced: nothing takes a version below what was announced from there,  *)
(* and only an invalidation announces more.                                 *)
WriterEffect ==
    /\ UNCHANGED calls /\ cached' = cached
    /\ \A v \in 0..MaxVersion : Below(v) => Below(v)'
    /\ \/ UNCHANGED <<expires, gen>> /\ \A v \in 0..MaxVersion : Covers(v) => Covers(v)'
       \/ expires' = "past" /\ gen' = gen + 1

Writing(w) ==
    \/ Save(w) \/ Updated(w) \/ Announce(w) \/ Commit(w) \/ Rollback(w)
    \/ CommitUnknown(w) \/ EndLimbo(w) \/ PeerCommits(w) \/ AnnounceEnd(w)

(* A commit makes one version, the newest, and adds it to what is pending:  *)
(* with a writer to announce it, or late.                                   *)
LEMMA Landed ==
    ASSUME Inv, NEW w \in Writers, \A u \in Writers \ {w} : wpc'[u] = wpc[u], ver[w] = 0 \/ wpc[w] # "ended",
           \/ wpc'[w] = "ended" /\ Land(w)
           \/ wpc'[w] # "ended" /\ LandLate
    PROVE  row' = row + 1 /\ Pending' = Pending \cup {row + 1}
<1>t. TypeWrites /\ row \in Nat
  BY TypeParts, BoundsAssumption DEF Inv, TypeWrites
<1>w. w \notin Owing
  BY <1>t DEF Owing, TypeWrites
<1>1. CASE wpc'[w] = "ended" /\ Land(w)
  <2>1. row' = row + 1 /\ ver'[w] = row + 1 /\ late' = late /\ \A u \in Writers \ {w} : ver'[u] = ver[u]
    BY <1>1, <1>t DEF Land, TypeWrites
  <2>2. Owing' = Owing \cup {w} /\ \A u \in Owing : ver'[u] = ver[u]
    BY <1>1, <1>t, <1>w, <2>1 DEF Owing
  <2> QED
    BY <2>1, <2>2 DEF Pending
<1>2. CASE wpc'[w] # "ended" /\ LandLate
  <2>1. row' = row + 1 /\ ver' = ver /\ late' = late \cup {row + 1}
    BY <1>2 DEF LandLate
  <2>2. Owing' = Owing
    BY <1>2, <1>w, <2>1 DEF Owing
  <2> QED
    BY <2>1, <2>2 DEF Pending
<1> QED
  BY <1>1, <1>2

(* It leaves what was announced where it was. *)
LEMMA Newer ==
    ASSUME Inv, row' = row + 1, Pending' = Pending \cup {row + 1}
    PROVE  \A v \in 0..MaxVersion : (Below(v) => Below(v)') /\ (Covers(v) => Covers(v)')
<1>t. MaxVersion \in Nat /\ row \in Nat
  BY TypeParts, BoundsAssumption DEF Inv, TypeWrites
<1> QED
  BY <1>t DEF Below, Covers

(* The writers keep their part of the invariant. *)
LEMMA WriterStep ==
    ASSUME Inv, NEW w \in Writers, Writing(w)
    PROVE  TypeWrites' /\ (\A u \in Writers : WriterInv(u)') /\ WriterEffect
<1>t. /\ TypeWrites /\ MaxVersion \in Nat /\ \A u \in Writers : WriterInv(u)
  BY TypeParts, BoundsAssumption DEF Inv
<1>n. /\ None \notin Writers /\ row \in Nat /\ \A u \in Writers : ver[u] \in Nat
      /\ row <= MaxVersion
  BY <1>t, NoneAssumption DEF TypeWrites
<1> USE <1>t, <1>n DEF TypeWrites, Write
<1>1. CASE Save(w)
  <2>1. TypeWrites'
    BY <1>1 DEF Save, WriterInv, Holding
  <2>2. \A u \in Writers : WriterInv(u)'
    BY <1>1 DEF Save, WriterInv, Holding
  <2>3. row' = row /\ Pending' = Pending
    <3>1. Owing' = Owing /\ \A u \in Owing : ver'[u] = ver[u]
      BY <1>1 DEF Save, Owing, WriterInv, Holding
    <3> QED
      BY <1>1, <3>1 DEF Save, Pending
  <2>4. \A v \in 0..MaxVersion : (Below(v) => Below(v)') /\ (Covers(v) => Covers(v)')
    BY <2>3 DEF Below, Covers
  <2> QED
    BY <1>1, <2>1, <2>2, <2>4 DEF Save, WriterEffect, provider
<1>2. CASE Updated(w)
  <2>1. TypeWrites'
    BY <1>2 DEF Updated, Invalidate, WriterInv, Holding
  <2>2. \A u \in Writers : WriterInv(u)'
    BY <1>2 DEF Updated, Invalidate, WriterInv, Holding
  <2>3. row' = row /\ Pending' \subseteq Pending
    BY <1>2 DEF Updated, Invalidate, Owing, Pending, WriterInv, Holding
  <2>4. \A v \in 0..MaxVersion : Below(v) => Below(v)'
    BY <2>3 DEF Below
  <2> QED
    BY <1>2, <2>1, <2>2, <2>4 DEF Updated, Invalidate, WriterEffect
<1>3. CASE Announce(w)
  <2>1. TypeWrites'
    BY <1>3 DEF Announce, Invalidate, WriterInv, Holding
  <2>2. \A u \in Writers : WriterInv(u)'
    BY <1>3 DEF Announce, Invalidate, WriterInv, Holding
  <2>3. row' = row /\ Pending' \subseteq Pending
    BY <1>3 DEF Announce, Invalidate, Owing, Pending, WriterInv, Holding
  <2>4. \A v \in 0..MaxVersion : Below(v) => Below(v)'
    BY <2>3 DEF Below
  <2> QED
    BY <1>3, <2>1, <2>2, <2>4 DEF Announce, Invalidate, WriterEffect
<1>4. CASE Commit(w)
  <2>1. TypeWrites'
    BY <1>4 DEF Commit, Land, LandLate, WriterInv, Holding
  <2>2. \A u \in Writers : WriterInv(u)'
    BY <1>4 DEF Commit, Land, LandLate, WriterInv, Holding
  <2>a. /\ (\A u \in Writers \ {w} : wpc'[u] = wpc[u]) /\ wpc[w] # "ended"
        /\ \/ wpc'[w] = "ended" /\ Land(w)
           \/ wpc'[w] # "ended" /\ LandLate
    BY <1>4 DEF Commit
  <2>3. row' = row + 1 /\ Pending' = Pending \cup {row + 1}
    BY <2>a, Landed
  <2>4. \A v \in 0..MaxVersion : (Below(v) => Below(v)') /\ (Covers(v) => Covers(v)')
    BY <2>3, Newer
  <2>5. UNCHANGED calls /\ cached' = cached /\ UNCHANGED <<expires, gen>>
    BY <1>4 DEF Commit, provider
  <2> QED
    BY <2>1, <2>2, <2>4, <2>5 DEF WriterEffect
<1>5. CASE Rollback(w)
  <2>1. TypeWrites'
    BY <1>5 DEF Rollback, WriterInv, Holding
  <2>2. \A u \in Writers : WriterInv(u)'
    BY <1>5 DEF Rollback, WriterInv, Holding
  <2>3. row' = row /\ Pending' = Pending
    <3>1. Owing' = Owing /\ \A u \in Owing : ver'[u] = ver[u]
      BY <1>5 DEF Rollback, Owing, WriterInv, Holding
    <3> QED
      BY <1>5, <3>1 DEF Rollback, Pending
  <2>4. \A v \in 0..MaxVersion : (Below(v) => Below(v)') /\ (Covers(v) => Covers(v)')
    BY <2>3 DEF Below, Covers
  <2> QED
    BY <1>5, <2>1, <2>2, <2>4 DEF Rollback, WriterEffect, provider
<1>6. CASE PeerCommits(w)
  <2>1. TypeWrites'
    <3>1. row < MaxVersion /\ row' = row + 1 /\ late' \in SUBSET (late \cup {row + 1})
      BY <1>6 DEF PeerCommits, Land, LandLate, WriterInv, Holding
    <3>2. late \in SUBSET (1..row) /\ row' \in 0..MaxVersion /\ 1..row \subseteq 1..(row + 1) /\ row + 1 \in 1..(row + 1)
      BY <3>1
    <3>3. late' \in SUBSET (1..row')
      BY <3>1, <3>2
    <3>4. locked' \in Writers \cup {None} /\ wpc' \in [Writers -> {"idle", "saved", "updated", "published", "unknown", "limbo", "ended"}]
      BY <1>6 DEF PeerCommits
    <3>5. ver' \in [Writers -> 0..MaxVersion]
      BY <1>6, <3>2 DEF PeerCommits, Land, LandLate
    <3> QED
      BY <3>2, <3>3, <3>4, <3>5
  <2>2. \A u \in Writers : WriterInv(u)'
    BY <1>6 DEF PeerCommits, Land, LandLate, WriterInv, Holding
  <2>a. /\ (\A u \in Writers \ {w} : wpc'[u] = wpc[u]) /\ wpc[w] # "ended"
        /\ \/ wpc'[w] = "ended" /\ Land(w)
           \/ wpc'[w] # "ended" /\ LandLate
    BY <1>6 DEF PeerCommits
  <2>3. row' = row + 1 /\ Pending' = Pending \cup {row + 1}
    BY <2>a, Landed
  <2>4. \A v \in 0..MaxVersion : (Below(v) => Below(v)') /\ (Covers(v) => Covers(v)')
    BY <2>3, Newer
  <2>5. UNCHANGED calls /\ cached' = cached /\ UNCHANGED <<expires, gen>>
    BY <1>6 DEF PeerCommits, provider
  <2> QED
    BY <2>1, <2>2, <2>4, <2>5 DEF WriterEffect
<1>7. CASE AnnounceEnd(w)
  <2>1. TypeWrites'
    BY <1>7 DEF AnnounceEnd, Invalidate, WriterInv, Holding
  <2>2. \A u \in Writers : WriterInv(u)'
    BY <1>7 DEF AnnounceEnd, Invalidate, WriterInv, Holding
  <2>3. row' = row /\ Pending' \subseteq Pending
    BY <1>7 DEF AnnounceEnd, Invalidate, Owing, Pending, WriterInv, Holding
  <2>4. \A v \in 0..MaxVersion : Below(v) => Below(v)'
    BY <2>3 DEF Below
  <2> QED
    BY <1>7, <2>1, <2>2, <2>4 DEF AnnounceEnd, Invalidate, WriterEffect
<1>8. CASE CommitUnknown(w)
  <2>1. TypeWrites'
    BY <1>8 DEF CommitUnknown, WriterInv, Holding
  <2>2. \A u \in Writers : WriterInv(u)'
    BY <1>8 DEF CommitUnknown, WriterInv, Holding
  <2>3. row' = row /\ Pending' = Pending
    <3>1. Owing' = Owing /\ \A u \in Owing : ver'[u] = ver[u]
      BY <1>8 DEF CommitUnknown, Owing, WriterInv, Holding
    <3> QED
      BY <1>8, <3>1 DEF CommitUnknown, Pending
  <2>4. \A v \in 0..MaxVersion : (Below(v) => Below(v)') /\ (Covers(v) => Covers(v)')
    BY <2>3 DEF Below, Covers
  <2> QED
    BY <1>8, <2>1, <2>2, <2>4 DEF CommitUnknown, WriterEffect, provider
<1>9. CASE EndLimbo(w) /\ row' # row
  <2>1. TypeWrites'
    <3>1. row < MaxVersion /\ row' = row + 1 /\ late' \in SUBSET (late \cup {row + 1})
      BY <1>9 DEF EndLimbo, Land, LandLate, WriterInv, Holding
    <3>2. late \in SUBSET (1..row) /\ row' \in 0..MaxVersion /\ 1..row \subseteq 1..(row + 1) /\ row + 1 \in 1..(row + 1)
      BY <3>1
    <3>3. late' \in SUBSET (1..row')
      BY <3>1, <3>2
    <3>4. locked' \in Writers \cup {None} /\ wpc' \in [Writers -> {"idle", "saved", "updated", "published", "unknown", "limbo", "ended"}]
      BY <1>9 DEF EndLimbo
    <3>5. ver' \in [Writers -> 0..MaxVersion]
      BY <1>9, <3>2 DEF EndLimbo, Land, LandLate
    <3> QED
      BY <3>2, <3>3, <3>4, <3>5
  <2>2. \A u \in Writers : WriterInv(u)'
    BY <1>9 DEF EndLimbo, Land, LandLate, WriterInv, Holding
  <2>a. /\ (\A u \in Writers \ {w} : wpc'[u] = wpc[u]) /\ wpc[w] # "ended"
        /\ \/ wpc'[w] = "ended" /\ Land(w)
           \/ wpc'[w] # "ended" /\ LandLate
    BY <1>9 DEF EndLimbo
  <2>3. row' = row + 1 /\ Pending' = Pending \cup {row + 1}
    BY <2>a, Landed
  <2>4. \A v \in 0..MaxVersion : (Below(v) => Below(v)') /\ (Covers(v) => Covers(v)')
    BY <2>3, Newer
  <2>5. UNCHANGED calls /\ cached' = cached /\ UNCHANGED <<expires, gen>>
    BY <1>9 DEF EndLimbo, provider
  <2> QED
    BY <2>1, <2>2, <2>4, <2>5 DEF WriterEffect
<1>10. CASE EndLimbo(w) /\ row' = row
  <2>a. row' = row /\ late' = late /\ ver' = ver
    BY <1>10 DEF EndLimbo, Land, LandLate
  <2>1. TypeWrites'
    BY <1>10, <2>a DEF EndLimbo
  <2>2. \A u \in Writers : WriterInv(u)'
    BY <1>10 DEF EndLimbo, Land, LandLate, WriterInv, Holding
  <2>3. row' = row /\ Pending' = Pending
    <3>1. Owing' = Owing /\ \A u \in Owing : ver'[u] = ver[u]
      BY <1>10 DEF EndLimbo, Land, LandLate, Owing, WriterInv, Holding
    <3> QED
      BY <1>10, <3>1 DEF EndLimbo, Land, LandLate, Pending
  <2>4. \A v \in 0..MaxVersion : (Below(v) => Below(v)') /\ (Covers(v) => Covers(v)')
    BY <2>3 DEF Below, Covers
  <2> QED
    BY <1>10, <2>1, <2>2, <2>4 DEF EndLimbo, Land, LandLate, WriterEffect, provider
<1> QED
  BY <1>1, <1>2, <1>3, <1>4, <1>5, <1>6, <1>7, <1>8, <1>9, <1>10 DEF Writing

(* A step that leaves the calls alone keeps the invariant. *)
LEMMA EffectKeeps ==
    ASSUME Inv, TypeWrites', \A u \in Writers : WriterInv(u)', WriterEffect
    PROVE  Inv'
<1>t. TypeWrites /\ TypeProvider /\ TypeCalls /\ TypeFlags /\ MuHeld
  BY TypeParts DEF Inv
<1>e. /\ UNCHANGED <<refreshMu, gpc, captured, read, floor, excused, cached>>
      /\ gen' \in Nat /\ gen <= gen' /\ (gen' = gen \/ gen' = gen + 1)
  BY <1>t DEF WriterEffect, calls, TypeProvider
<1>1. TypeProvider'
  BY <1>t, <1>e DEF WriterEffect, TypeProvider
<1>2. TypeCalls' /\ MuHeld'
  BY <1>t, <1>e DEF TypeCalls, MuHeld
<1>3. TypeFlags'
  BY <1>t, <1>e DEF TypeFlags
<1>4. expires' = "ttl" => Covers(cached)'
  BY <1>t, <1>e DEF Inv, WriterEffect, TypeProvider
<1>5. ASSUME NEW g \in Getters PROVE GetterInv(g)' /\ AnswerInv(g)'
  <2>0. /\ GetterInv(g) /\ AnswerInv(g) /\ captured[g] \in Nat /\ gen \in Nat
        /\ floor[g] \in 0..MaxVersion /\ read[g] \in 0..MaxVersion
    BY <1>t DEF Inv, TypeCalls, TypeProvider
  <2>1. Below(floor[g])'
    BY <1>e, <2>0 DEF GetterInv, WriterEffect
  <2>2. GetterInv(g)'
    BY <1>e, <2>0, <2>1 DEF GetterInv
  <2>3. captured[g] = gen' => gen' = gen /\ (Covers(read[g]) => Covers(read[g])')
    BY <1>e, <2>0 DEF GetterInv, WriterEffect
  <2>4. AnswerInv(g)'
    BY <1>e, <2>0, <2>3 DEF AnswerInv
  <2> QED
    BY <2>2, <2>4
<1> QED
  BY <1>1, <1>2, <1>3, <1>4, <1>5, TypeParts DEF Inv

----------------------------------------------------------------------------
(* The callers. *)

(* A step of a call moves no other call and no write. *)
Alone(g) ==
    /\ UNCHANGED writes /\ gen' = gen
    /\ \A h \in Getters \ {g} : /\ gpc'[h] = gpc[h] /\ captured'[h] = captured[h]
                                /\ read'[h] = read[h] /\ floor'[h] = floor[h] /\ excused'[h] = excused[h]
    /\ cached' # cached => refreshMu = g
    /\ refreshMu' = refreshMu \/ (refreshMu = None /\ refreshMu' = g) \/ (refreshMu = g /\ refreshMu' = None)

(* While the writes stand, so does what was announced. *)
LEMMA SameVersions ==
    ASSUME UNCHANGED writes, NEW v
    PROVE  (Below(v)' <=> Below(v)) /\ (Covers(v)' <=> Covers(v))
<1>1. row' = row /\ Pending' = Pending
  BY DEF writes, Owing, Pending
<1> QED
  BY <1>1 DEF Below, Covers

(* The calls keep their types, move alone, and keep their part. *)
LEMMA CallStep ==
    ASSUME Inv, NEW g \in Getters, Get(g) \/ GetStep(g)
    PROVE  /\ TypeProvider' /\ TypeCalls' /\ TypeFlags' /\ Alone(g)
           /\ GetterInv(g)' /\ AnswerInv(g)' /\ (expires' = "ttl" => Covers(cached)')
<1>t. /\ TypeProvider /\ TypeCalls /\ TypeFlags /\ GetterInv(g) /\ AnswerInv(g)
      /\ (expires = "ttl" => Covers(cached))
  BY TypeParts DEF Inv
<1>w. TypeWrites /\ MaxVersion \in Nat /\ row \in 0..MaxVersion
  BY TypeParts, BoundsAssumption DEF Inv, TypeWrites
<1>n. None \notin Getters
  BY NoneAssumption
<1>u. UNCHANGED writes
  BY DEF Get, GetStep, Lock, Recheck, Capture, LoadSettings, LoadFails, Store, Serve
<1>v. \A v : (Below(v)' <=> Below(v)) /\ (Covers(v)' <=> Covers(v))
  BY <1>u, SameVersions
<1>b. \A v \in 0..MaxVersion, c \in 0..MaxVersion : Below(v) /\ Covers(c) => v <= c
  BY <1>w, CoversBelow
<1>f. floor[g] <= row /\ Covers(row)
  BY <1>t, <1>w DEF GetterInv, Below, Covers
<1>1. CASE Get(g)
  <2>a. Announced \in 0..MaxVersion /\ Below(Announced)
    BY AnnouncedIs
  <2>f. floor'[g] = Announced /\ \A h \in Getters \ {g} : floor'[h] = floor[h]
    BY <1>1, <1>t DEF Get, TypeCalls
  <2>1. TypeProvider' /\ TypeCalls'
    BY <1>1, <1>t, <1>w, <2>a, <2>f DEF Get, Answer, Goto, provider, TypeProvider, TypeCalls
  <2>2. TypeFlags'
    BY <1>1, <1>t DEF Get, Answer, Goto, provider, TypeFlags
  <2>3. Alone(g)
    BY <1>1, <1>t, <1>u, <2>a, <2>f
       DEF Get, Answer, Goto, provider, Alone, TypeCalls, TypeFlags, GetterInv,
           Inside
  <2>4. GetterInv(g)'
    BY <1>1, <1>t, <1>n, <1>v, <2>a, <2>f
       DEF Get, Answer, Goto, provider, GetterInv, Inside, TypeCalls, TypeProvider
  <2>5. AnswerInv(g)'
    BY <1>1, <1>t, <1>v, <1>b, <1>f, <1>w, <2>a, <2>f
       DEF Get, Answer, Goto, provider, GetterInv, AnswerInv, TypeCalls, TypeFlags,
           TypeProvider, Fresh
  <2>6. expires' = "ttl" => Covers(cached)'
    BY <1>1, <1>t, <1>v DEF Get, Answer, Goto, provider, AnswerInv
  <2> QED
    BY <2>1, <2>2, <2>3, <2>4, <2>5, <2>6
<1>2. CASE Lock(g)
  <2>1. TypeProvider' /\ TypeCalls'
    BY <1>2, <1>t, <1>w DEF Lock, Goto, provider, TypeProvider, TypeCalls
  <2>2. TypeFlags'
    BY <1>2, <1>t DEF Lock, Goto, provider, TypeFlags
  <2>3. Alone(g)
    BY <1>2, <1>t, <1>u DEF Lock, Goto, provider, Alone, TypeCalls, TypeFlags, GetterInv, Inside
  <2>4. GetterInv(g)'
    BY <1>2, <1>t, <1>n, <1>v DEF Lock, Goto, provider, GetterInv, Inside, TypeCalls, TypeProvider
  <2>5. AnswerInv(g)'
    BY <1>2, <1>t, <1>v, <1>b, <1>f, <1>w
       DEF Lock, Goto, provider, GetterInv, AnswerInv, TypeCalls, TypeFlags,
           TypeProvider, Fresh
  <2>6. expires' = "ttl" => Covers(cached)'
    BY <1>2, <1>t, <1>v DEF Lock, Goto, provider, AnswerInv
  <2> QED
    BY <2>1, <2>2, <2>3, <2>4, <2>5, <2>6
<1>3. CASE Recheck(g)
  <2>1. TypeProvider' /\ TypeCalls'
    BY <1>3, <1>t, <1>w DEF Recheck, Goto, provider, TypeProvider, TypeCalls
  <2>2. TypeFlags'
    BY <1>3, <1>t DEF Recheck, Goto, provider, TypeFlags
  <2>3. Alone(g)
    BY <1>3, <1>t, <1>u DEF Recheck, Goto, provider, Alone, TypeCalls, TypeFlags, GetterInv, Inside
  <2>4. GetterInv(g)'
    BY <1>3, <1>t, <1>n, <1>v
       DEF Recheck, Goto, provider, GetterInv, Inside, TypeCalls, TypeProvider
  <2>5. AnswerInv(g)'
    BY <1>3, <1>t, <1>v, <1>b, <1>f, <1>w
       DEF Recheck, Goto, provider, GetterInv, AnswerInv, TypeCalls, TypeFlags,
           TypeProvider, Fresh
  <2>6. expires' = "ttl" => Covers(cached)'
    BY <1>3, <1>t, <1>v DEF Recheck, Goto, provider, AnswerInv
  <2> QED
    BY <2>1, <2>2, <2>3, <2>4, <2>5, <2>6
<1>4. CASE Capture(g)
  <2>1. TypeProvider' /\ TypeCalls'
    BY <1>4, <1>t, <1>w DEF Capture, Goto, provider, TypeProvider, TypeCalls
  <2>2. TypeFlags'
    BY <1>4, <1>t DEF Capture, Goto, provider, TypeFlags
  <2>3. Alone(g)
    BY <1>4, <1>t, <1>u DEF Capture, Goto, provider, Alone, TypeCalls, TypeFlags, GetterInv, Inside
  <2>4. GetterInv(g)'
    BY <1>4, <1>t, <1>n, <1>v
       DEF Capture, Goto, provider, GetterInv, Inside, TypeCalls, TypeProvider
  <2>5. AnswerInv(g)'
    BY <1>4, <1>t, <1>v, <1>b, <1>f, <1>w
       DEF Capture, Goto, provider, GetterInv, AnswerInv, TypeCalls, TypeFlags,
           TypeProvider, Fresh
  <2>6. expires' = "ttl" => Covers(cached)'
    BY <1>4, <1>t, <1>v DEF Capture, Goto, provider, AnswerInv
  <2> QED
    BY <2>1, <2>2, <2>3, <2>4, <2>5, <2>6
<1>5. CASE LoadSettings(g)
  <2>1. TypeProvider' /\ TypeCalls'
    BY <1>5, <1>t, <1>w DEF LoadSettings, Goto, provider, TypeProvider, TypeCalls
  <2>2. TypeFlags'
    BY <1>5, <1>t DEF LoadSettings, Goto, provider, TypeFlags
  <2>3. Alone(g)
    BY <1>5, <1>t, <1>u
       DEF LoadSettings, Goto, provider, Alone, TypeCalls, TypeFlags, GetterInv,
           Inside
  <2>4. GetterInv(g)'
    BY <1>5, <1>t, <1>n, <1>v
       DEF LoadSettings, Goto, provider, GetterInv, Inside, TypeCalls, TypeProvider
  <2>5. AnswerInv(g)'
    BY <1>5, <1>t, <1>v, <1>b, <1>f, <1>w
       DEF LoadSettings, Goto, provider, GetterInv, AnswerInv, TypeCalls, TypeFlags,
           TypeProvider, Fresh
  <2>6. expires' = "ttl" => Covers(cached)'
    BY <1>5, <1>t, <1>v DEF LoadSettings, Goto, provider, AnswerInv
  <2> QED
    BY <2>1, <2>2, <2>3, <2>4, <2>5, <2>6
<1>6. CASE LoadFails(g)
  <2>1. TypeProvider' /\ TypeCalls'
    BY <1>6, <1>t, <1>w DEF LoadFails, Goto, provider, TypeProvider, TypeCalls
  <2>2. TypeFlags'
    BY <1>6, <1>t DEF LoadFails, Goto, provider, TypeFlags
  <2>3. Alone(g)
    BY <1>6, <1>t, <1>u
       DEF LoadFails, Goto, provider, Alone, TypeCalls, TypeFlags, GetterInv, Inside
  <2>4. GetterInv(g)'
    BY <1>6, <1>t, <1>n, <1>v
       DEF LoadFails, Goto, provider, GetterInv, Inside, TypeCalls, TypeProvider
  <2>5. AnswerInv(g)'
    BY <1>6, <1>t, <1>v, <1>b, <1>f, <1>w
       DEF LoadFails, Goto, provider, GetterInv, AnswerInv, TypeCalls, TypeFlags,
           TypeProvider, Fresh
  <2>6. expires' = "ttl" => Covers(cached)'
    BY <1>6, <1>t, <1>v DEF LoadFails, Goto, provider, AnswerInv
  <2> QED
    BY <2>1, <2>2, <2>3, <2>4, <2>5, <2>6
<1>7. CASE Store(g)
  <2>1. TypeProvider' /\ TypeCalls'
    BY <1>7, <1>t, <1>w DEF Store, Answer, FillOK, Goto, provider, TypeProvider, TypeCalls
  <2>2. TypeFlags'
    BY <1>7, <1>t DEF Store, Answer, FillOK, Goto, provider, TypeFlags
  <2>3. Alone(g)
    BY <1>7, <1>t, <1>u
       DEF Store, Answer, FillOK, Goto, provider, Alone, TypeCalls, TypeFlags,
           GetterInv, Inside
  <2>4. GetterInv(g)'
    BY <1>7, <1>t, <1>n, <1>v
       DEF Store, Answer, FillOK, Goto, provider, GetterInv, Inside, TypeCalls,
           TypeProvider
  <2>5. AnswerInv(g)'
    BY <1>7, <1>t, <1>v, <1>b, <1>f, <1>w
       DEF Store, Answer, FillOK, Goto, provider, GetterInv, AnswerInv, TypeCalls,
           TypeFlags, TypeProvider, Fresh
  <2>6. expires' = "ttl" => Covers(cached)'
    BY <1>7, <1>t, <1>v DEF Store, Answer, FillOK, Goto, provider, AnswerInv
  <2> QED
    BY <2>1, <2>2, <2>3, <2>4, <2>5, <2>6
<1>8. CASE Serve(g)
  <2>1. TypeProvider' /\ TypeCalls'
    BY <1>8, <1>t, <1>w DEF Serve, Answer, Goto, provider, TypeProvider, TypeCalls
  <2>2. TypeFlags'
    BY <1>8, <1>t DEF Serve, Answer, Goto, provider, TypeFlags
  <2>3. Alone(g)
    BY <1>8, <1>t, <1>u
       DEF Serve, Answer, Goto, provider, Alone, TypeCalls, TypeFlags, GetterInv,
           Inside
  <2>4. GetterInv(g)'
    BY <1>8, <1>t, <1>n, <1>v
       DEF Serve, Answer, Goto, provider, GetterInv, Inside, TypeCalls, TypeProvider
  <2>5. AnswerInv(g)'
    BY <1>8, <1>t, <1>v, <1>b, <1>f, <1>w
       DEF Serve, Answer, Goto, provider, GetterInv, AnswerInv, TypeCalls, TypeFlags,
           TypeProvider, Fresh
  <2>6. expires' = "ttl" => Covers(cached)'
    BY <1>8, <1>t, <1>v DEF Serve, Answer, Goto, provider, AnswerInv
  <2> QED
    BY <2>1, <2>2, <2>3, <2>4, <2>5, <2>6
<1> QED
  BY <1>1, <1>2, <1>3, <1>4, <1>5, <1>6, <1>7, <1>8 DEF GetStep

(* The calls that do not move keep their part: what they are about to serve *)
(* is theirs to change while they hold refreshMu.                           *)
LEMMA CallKeeps ==
    ASSUME Inv, NEW g \in Getters, Get(g) \/ GetStep(g)
    PROVE  Inv'
<1>t. TypeWrites /\ TypeCalls /\ MuHeld /\ \A h \in Getters : GetterInv(h) /\ AnswerInv(h)
  BY TypeParts DEF Inv
<1>1. /\ TypeProvider' /\ TypeCalls' /\ TypeFlags' /\ Alone(g)
      /\ GetterInv(g)' /\ AnswerInv(g)' /\ (expires' = "ttl" => Covers(cached)')
  BY CallStep
<1>2. UNCHANGED writes /\ \A v : (Below(v)' <=> Below(v)) /\ (Covers(v)' <=> Covers(v))
  BY <1>1, SameVersions DEF Alone
<1>3. TypeWrites' /\ \A w \in Writers : WriterInv(w)'
  BY <1>t, <1>2 DEF Inv, TypeWrites, WriterInv, writes
<1>4. ASSUME NEW h \in Getters \ {g} PROVE GetterInv(h)' /\ AnswerInv(h)'
  <2>1. GetterInv(h) /\ AnswerInv(h) /\ None # h
    BY <1>t, NoneAssumption
  <2>2. GetterInv(h)'
    BY <1>1, <1>2, <2>1 DEF Alone, GetterInv
  <2>3. gpc[h] = "serve" => cached' = cached
    BY <1>1, <2>1 DEF Alone, GetterInv, Inside
  <2>4. AnswerInv(h)'
    BY <1>1, <1>2, <2>1, <2>3 DEF Alone, AnswerInv
  <2> QED
    BY <2>2, <2>4
<1>5. MuHeld'
  BY <1>1, <1>4 DEF TypeCalls, GetterInv, Inside, MuHeld
<1> QED
  BY <1>1, <1>3, <1>4, <1>5, TypeParts DEF Inv

----------------------------------------------------------------------------
(* The theorems. *)

(* The invariant holds initially. *)
LEMMA InitInv == Init => Inv
<1> SUFFICES ASSUME Init PROVE Inv
  OBVIOUS
<1>0. 0 \in 0..MaxVersion
  BY BoundsAssumption
<1>1. TypeWrites /\ TypeProvider /\ TypeCalls /\ MuHeld
  BY <1>0 DEF Init, TypeWrites, TypeProvider, TypeCalls, MuHeld
<1>2. TypeFlags
  BY DEF Init, TypeFlags
<1>3. \A w \in Writers : WriterInv(w)
  BY NoneAssumption DEF Init, WriterInv, Holding
<1>4. Below(0)
  BY DEF Init, Below, Owing, Pending
<1>5. \A g \in Getters : GetterInv(g) /\ AnswerInv(g)
  BY <1>4, NoneAssumption DEF Init, GetterInv, AnswerInv, Inside
<1>6. expires # "ttl"
  BY DEF Init
<1> QED
  BY <1>1, <1>2, <1>3, <1>5, <1>6, TypeParts DEF Inv

(* Every step keeps the invariant. *)
LEMMA NextInv == Inv /\ [Next]_vars => Inv'
<1> SUFFICES ASSUME Inv, [Next]_vars PROVE Inv'
  OBVIOUS
<1>1. ASSUME NEW w \in Writers, Writing(w) PROVE Inv'
  BY <1>1, WriterStep, EffectKeeps
<1>2. ASSUME NEW g \in Getters, Get(g) \/ GetStep(g) PROVE Inv'
  BY <1>2, CallKeeps
<1>3. CASE Expire \/ UNCHANGED vars
  <2>1. UNCHANGED writes /\ UNCHANGED calls /\ gen' = gen /\ cached' = cached /\ expires' \in {"past", expires}
    BY <1>3 DEF Expire, vars, provider
  <2>2. \A v : (Below(v)' <=> Below(v)) /\ (Covers(v)' <=> Covers(v))
    BY <2>1, SameVersions
  <2>3. /\ TypeWrites /\ TypeProvider /\ TypeCalls /\ MuHeld
        /\ (\A w \in Writers : WriterInv(w)) /\ \A g \in Getters : GetterInv(g)
    BY TypeParts DEF Inv
  <2>4. /\ TypeWrites' /\ TypeProvider' /\ TypeCalls' /\ MuHeld'
        /\ (\A w \in Writers : WriterInv(w)') /\ \A g \in Getters : GetterInv(g)'
    BY <2>1, <2>2, <2>3
       DEF TypeWrites, TypeProvider, TypeCalls, MuHeld, WriterInv, GetterInv, writes,
           calls
  <2>5. TypeFlags'
    BY <2>1, TypeParts DEF Inv, TypeFlags, calls
  <2>6. \A g \in Getters : AnswerInv(g)'
    BY <2>1, <2>2 DEF Inv, AnswerInv, calls
  <2>7. expires' = "ttl" => Covers(cached)'
    BY <2>1, <2>2 DEF Inv
  <2> QED
    BY <2>4, <2>5, <2>6, <2>7, TypeParts DEF Inv
<1> QED
  BY <1>1, <1>2, <1>3 DEF Next, Writing

(* The invariant holds in every behaviour of BackendSettingsProvider and    *)
(* the writers of the settings row.                                         *)
THEOREM Invariance == Spec => []Inv
  BY InitInv, NextInv, PTL DEF Spec

(* Every variable keeps its type, and refreshMu is held by a call that is   *)
(* inside it.                                                               *)
THEOREM TypeCorrect == Spec => []TypeOK
<1>1. Inv => TypeOK
  BY DEF Inv
<1> QED
  BY <1>1, Invariance, PTL

(* A Get that begins after a write was announced does not answer with an    *)
(* older version, however loads, writes and announcements interleave, and   *)
(* for any number of callers and writers (Get, refresh, Invalidate); a      *)
(* commit of unknown outcome that lands after its announcement counts from  *)
(* the next invalidation on.                                                *)
THEOREM GetsAreCurrent == Spec => []GetIsCurrent
<1>1. Inv => GetIsCurrent
  <2> SUFFICES ASSUME Inv, NEW g \in Getters, gpc[g] = "returned", ~excused[g]
               PROVE  read[g] >= floor[g]
    BY DEF GetIsCurrent
  <2>1. floor[g] <= read[g]
    BY DEF Inv, AnswerInv
  <2>2. floor[g] \in Nat /\ read[g] \in Nat
    BY BoundsAssumption DEF Inv, TypeOK
  <2> QED
    BY <2>1, <2>2
<1> QED
  BY <1>1, Invariance, PTL

=============================================================================
