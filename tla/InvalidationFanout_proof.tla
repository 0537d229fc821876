----------------------- MODULE InvalidationFanout_proof -----------------------
(***************************************************************************)
(* A stale key of a running replica is going to be dropped, or the history  *)
(* variable says why not: for any replicas, keys, queue and tracker limits, *)
(* any number of writes, faults and ends, and any number of messages in     *)
(* transit.                                                                 *)
(***************************************************************************)
EXTENDS InvalidationFanout, TLAPS

(* Who subscribes is up; who sends drains its queue, and has not ended. *)
Living ==
    \A n \in Replicas :
        /\ sub[n] # "no" => phase[n] = "up"
        /\ sending[n] # None => loop[n] = "drain" /\ phase[n] \in {"up", "stopping"}

(* No number was heard, or is on its way, that its sender has not used up: *)
(* the one that it is about to send is larger than all of them.             *)
HeardWasSent ==
    \A n, m \in Replicas :
        /\ track[n][m] # None => track[n][m] <= LastSent(m)
        /\ \A i \in 1..Len(wire[n][m]) : wire[n][m][i].epoch <= LastSent(m)

Inv == TypeOK /\ Living /\ HeardWasSent /\ LostIsNoticed

----------------------------------------------------------------------------
(* What Head, Tail and Append do to a queue of messages. *)
LEMMA Sequences ==
    ASSUME NEW S, NEW s \in Seq(S)
    PROVE  /\ s # <<>> => /\ Head(s) \in S /\ Head(s) = s[1] /\ Tail(s) \in Seq(S)
                          /\ Len(s) \in Nat \ {0} /\ Len(Tail(s)) = Len(s) - 1
                          /\ \A i \in 1..Len(s) - 1 : Tail(s)[i] = s[i + 1]
           /\ \A x \in S : /\ Append(s, x) \in Seq(S) /\ Len(Append(s, x)) = Len(s) + 1
                           /\ Append(s, x)[Len(s) + 1] = x
                           /\ \A i \in 1..Len(s) : Append(s, x)[i] = s[i]
           /\ \A i \in 1..Len(s) : s[i] \in S
           /\ Len(s) \in Nat
OBVIOUS

(* Deliver gives the message to the subscribers and to nobody else. *)
LEMMA Delivered ==
    ASSUME TypeOK, NEW n \in Replicas, NEW what \in Whats, Deliver(n, what)
    PROVE  /\ wire' \in [Replicas -> [Replicas -> Seq(Message)]]
           /\ \A m, o \in Replicas :
                IF sub[m] # "no" /\ o = n
                THEN wire'[m][o] = Append(wire[m][o], [what |-> what, epoch |-> epoch[n]])
                ELSE wire'[m][o] = wire[m][o]
<1> DEFINE msg == [what |-> what, epoch |-> epoch[n]]
<1>1. msg \in Message
  BY DEF Message, TypeOK
<1>2. wire' = [m \in Replicas |-> IF sub[m] = "no" THEN wire[m]
                                  ELSE [wire[m] EXCEPT ![n] = Append(@, msg)]]
  BY DEF Deliver
<1>3. wire \in [Replicas -> [Replicas -> Seq(Message)]]
  BY DEF TypeOK
<1> HIDE DEF msg
<1>4. \A m \in Replicas : [wire[m] EXCEPT ![n] = Append(@, msg)] \in [Replicas -> Seq(Message)]
  BY <1>1, <1>3
<1>5. wire' \in [Replicas -> [Replicas -> Seq(Message)]]
  BY <1>2, <1>3, <1>4
<1>6. \A m, o \in Replicas :
        IF sub[m] # "no" /\ o = n THEN wire'[m][o] = Append(wire[m][o], msg)
        ELSE wire'[m][o] = wire[m][o]
  BY <1>2, <1>3
<1> QED  BY <1>5, <1>6 DEF msg

(* What reading a peer's message does, for the origins it makes n forget. *)
LEMMA Observed ==
    ASSUME NEW n \in Replicas, NEW m \in Replicas, m # n, OnMessage(n, m)
    PROVE  \E quiet \in SUBSET (Replicas \ {m}) : Observe(n, m, Head(wire[n][m]), quiet)
<1>1. PICK quiet \in Prune(n, m) : Observe(n, m, Head(wire[n][m]), quiet)
  BY DEF OnMessage
<1>2. quiet \in SUBSET (Replicas \ {m})
  BY DEF Prune
<1> QED  BY <1>1, <1>2

(* A queue stays a queue. *)
LEMMA EnqueueType ==
    ASSUME NEW q \in Seq(Keys \cup {Resync}), NEW k \in Keys
    PROVE  /\ Enqueue(q, k) \in Seq(Keys \cup {Resync})
           /\ Occurs(k, Enqueue(q, k)) \/ Occurs(Resync, Enqueue(q, k))
           /\ Occurs(Resync, q) => Occurs(Resync, Enqueue(q, k))
           /\ \A x \in Keys : Occurs(x, q) =>
                Occurs(x, Enqueue(q, k)) \/ Occurs(Resync, Enqueue(q, k))
<1>1. CASE q # <<>> /\ Head(q) = Resync
  BY <1>1 DEF Enqueue, Occurs
<1>2. CASE ~(q # <<>> /\ Head(q) = Resync) /\ Len(q) >= QueueLimit
  <2>1. Enqueue(q, k) = <<Resync>>
    BY <1>2 DEF Enqueue
  <2>2. Occurs(Resync, <<Resync>>)
    BY DEF Occurs
  <2> QED  BY <2>1, <2>2
<1>3. CASE ~(q # <<>> /\ Head(q) = Resync) /\ ~(Len(q) >= QueueLimit) /\ Occurs(k, q)
  BY <1>3 DEF Enqueue
<1>4. CASE ~(q # <<>> /\ Head(q) = Resync) /\ ~(Len(q) >= QueueLimit) /\ ~Occurs(k, q)
  <2>1. Enqueue(q, k) = Append(q, k)
    BY <1>4 DEF Enqueue
  <2>2. /\ Append(q, k) \in Seq(Keys \cup {Resync}) /\ Len(Append(q, k)) = Len(q) + 1
        /\ Append(q, k)[Len(q) + 1] = k /\ Len(q) \in Nat
        /\ \A i \in 1..Len(q) : Append(q, k)[i] = q[i]
    BY Sequences
  <2>3. Occurs(k, Append(q, k))
    BY <2>2 DEF Occurs
  <2>4. \A x : Occurs(x, q) => Occurs(x, Append(q, k))
    BY <2>2 DEF Occurs
  <2> QED  BY <2>1, <2>2, <2>3, <2>4
<1> QED  BY <1>1, <1>2, <1>3, <1>4

----------------------------------------------------------------------------
(* The steps of replica n. *)
StepOf(n) ==
    \/ Start(n) \/ Stop(n) \/ Flushed(n) \/ Crash(n)
    \/ PublishLoop(n) \/ Beat(n) \/ SubscribeLoop(n) \/ SubscriptionLost(n)
    \/ ResyncLoop(n) \/ Degrade(n) \/ Recover(n) \/ OnUp(n) \/ Hooks(n)
    \/ \E k \in Keys : Commit(n, k)

(* Nothing has started. *)
LEMMA InitInv == Init => Inv
<1> SUFFICES ASSUME Init PROVE Inv
  OBVIOUS
<1>1. TypeOK
  BY DEF Init, TypeOK, NoWire
<1>2. Living /\ HeardWasSent
  BY DEF Init, Living, HeardWasSent, NoWire
<1>3. LostIsNoticed
  BY DEF Init, LostIsNoticed
<1> QED  BY <1>1, <1>2, <1>3 DEF Inv

(* Every step keeps the types. *)
LEMMA TypesKept ==
    ASSUME TypeOK, NEW n \in Replicas, StepOf(n)
    PROVE  TypeOK'
<1>1. CASE Start(n)
  BY <1>1 DEF Start, TypeOK, sendVars, recvVars, redisVars, bounds
<1>2. CASE Stop(n)
  BY <1>2 DEF Stop, TypeOK, NoWire, sendVars, recvVars, redisVars, bounds
<1>3. CASE Flushed(n)
  BY <1>3 DEF Flushed, Gone, TypeOK, NoWire, sendVars, recvVars, redisVars, bounds
<1>4. CASE Crash(n)
  BY <1>4 DEF Crash, Gone, TypeOK, NoWire, sendVars, recvVars, redisVars, bounds
<1>5. CASE Wake(n)
  BY <1>5 DEF Wake, TypeOK, sendVars, recvVars, redisVars, bounds
<1>6. CASE Pop(n)
  <2>1. Head(queue[n]) \in Keys \cup {Resync} /\ Tail(queue[n]) \in Seq(Keys \cup {Resync})
    BY <1>6, Sequences DEF Pop, TypeOK
  <2> QED  BY <1>6, <2>1 DEF Pop, TypeOK, sendVars, recvVars, redisVars, bounds
<1>7. CASE Send(n)
  <2>1. sending[n] \in Whats
    BY <1>7 DEF Send, TypeOK, Whats
  <2>2. wire' \in [Replicas -> [Replicas -> Seq(Message)]]
    BY <1>7, <2>1, Delivered DEF Send
  <2> QED  BY <1>7, <2>2 DEF Send, TypeOK, sendVars, recvVars, redisVars, bounds
<1>8. CASE SendLost(n)
  <2>1. ttlOnly' \in [Replicas -> SUBSET Keys]
    BY <1>8 DEF SendLost, TypeOK
  <2>2. faults' \in Nat
    BY <1>8 DEF SendLost, TypeOK
  <2> QED  BY <1>8, <2>1, <2>2 DEF SendLost, TypeOK, sendVars, recvVars, redisVars, bounds
<1>9. CASE Drained(n)
  BY <1>9 DEF Drained, TypeOK, sendVars, recvVars, redisVars, bounds
<1>10. CASE Beat(n)
  <2>1. Heartbeat \in Whats
    BY DEF Whats
  <2>2. wire' \in [Replicas -> [Replicas -> Seq(Message)]]
    BY <1>10, <2>1, Delivered DEF Beat, TypeOK
  <2>3. faults' \in Nat
    BY <1>10 DEF Beat, TypeOK
  <2> QED  BY <1>10, <2>2, <2>3 DEF Beat, TypeOK, sendVars, recvVars, redisVars, bounds
<1>11. CASE Subscribe(n)
  BY <1>11 DEF Subscribe, TypeOK, sendVars, recvVars, redisVars, bounds
<1>12. CASE OnReady(n)
  BY <1>12 DEF OnReady, TypeOK, sendVars, recvVars, redisVars, bounds
<1>13. ASSUME NEW m \in Replicas, OnMessage(n, m) PROVE TypeOK'
  <2>1. /\ wire[n][m] \in Seq(Message) /\ Head(wire[n][m]) \in Message
        /\ Tail(wire[n][m]) \in Seq(Message)
    BY <1>13, Sequences DEF OnMessage, TypeOK
  <2>2. PICK msg \in Message : msg = Head(wire[n][m])
    BY <2>1
  <2>3. msg.epoch \in Nat
    BY DEF Message
  <2>4. wire' \in [Replicas -> [Replicas -> Seq(Message)]]
    BY <1>13, <2>1 DEF OnMessage, TypeOK
  <2>5. CASE m = n
    BY <1>13, <2>4, <2>5 DEF OnMessage, TypeOK, sendVars, recvVars, redisVars, bounds
  <2>6. CASE m # n
    <3>1. PICK quiet \in SUBSET (Replicas \ {m}) : Observe(n, m, msg, quiet)
      BY <1>13, <2>2, <2>6, Observed
    <3>2. track' \in [Replicas -> [Replicas -> Nat \cup {None}]]
      <4> DEFINE t == [o \in Replicas |-> IF o = m THEN msg.epoch
                                          ELSE IF o \in quiet THEN None ELSE track[n][o]]
      <4>1. track' = [track EXCEPT ![n] = t]
        BY <3>1 DEF Observe
      <4>2. t \in [Replicas -> Nat \cup {None}]
        BY <2>3 DEF TypeOK
      <4> HIDE DEF t
      <4> QED  BY <4>1, <4>2 DEF TypeOK
    <3>3. request' \in [Replicas -> BOOLEAN]
      BY <3>1 DEF Observe, TypeOK
    <3>4. stale' \in [Replicas -> SUBSET Keys]
      BY <3>1 DEF Observe, TypeOK
    <3>5. ttlOnly' \in [Replicas -> SUBSET Keys]
      <4> DEFINE more == {k \in stale'[n] : (\E q \in quiet : GapAhead(n, q)) /\ ~Covered(n, k)'}
      <4>1. more \in SUBSET Keys
        BY <3>4
      <4>2. ttlOnly' = [ttlOnly EXCEPT ![n] = (@ \ {msg.what}) \cup more]
        BY <3>1 DEF Observe
      <4> HIDE DEF more
      <4> QED  BY <4>1, <4>2 DEF TypeOK
    <3> QED
      BY <1>13, <2>4, <3>2, <3>3, <3>4, <3>5
         DEF OnMessage, TypeOK, sendVars, recvVars, redisVars, bounds
  <2> QED  BY <2>5, <2>6
<1>14. CASE SubscriptionLost(n)
  BY <1>14 DEF SubscriptionLost, TypeOK, NoWire, sendVars, recvVars, redisVars, bounds
<1>15. CASE TakeResync(n)
  BY <1>15 DEF TakeResync, TypeOK, sendVars, recvVars, redisVars, bounds
<1>16. ASSUME NEW k \in Keys, ResyncKey(n, k) PROVE TypeOK'
  BY <1>16 DEF ResyncKey, DropKey, TypeOK, sendVars, recvVars, redisVars, bounds
<1>17. CASE Degrade(n)
  BY <1>17 DEF Degrade, TypeOK, sendVars, recvVars, redisVars, bounds
<1>18. CASE Recover(n)
  BY <1>18 DEF Recover, TypeOK, sendVars, recvVars, redisVars, bounds
<1>19. CASE OnUp(n)
  BY <1>19 DEF OnUp, TypeOK, sendVars, recvVars, redisVars, bounds
<1>20. ASSUME NEW k \in Keys, PublishInvalidation(n, k) PROVE TypeOK'
  <2>1. Enqueue(queue[n], k) \in Seq(Keys \cup {Resync})
    BY EnqueueType DEF TypeOK
  <2>2. queue' \in [Replicas -> Seq(Keys \cup {Resync})]
    BY <1>20, <2>1 DEF PublishInvalidation, TypeOK
  <2>3. wake' \in [Replicas -> BOOLEAN]
    BY <1>20 DEF PublishInvalidation, TypeOK
  <2> QED
    BY <1>20, <2>2, <2>3
       DEF PublishInvalidation, TypeOK, sendVars, recvVars, redisVars, bounds
<1>21. ASSUME NEW k \in Keys, Commit(n, k) PROVE TypeOK'
  BY <1>21 DEF Commit, TypeOK, sendVars, recvVars, redisVars, bounds
<1> QED
  BY <1>1, <1>2, <1>3, <1>4, <1>5, <1>6, <1>7, <1>8, <1>9, <1>10, <1>11, <1>12,
     <1>13, <1>14, <1>15, <1>16, <1>17, <1>18, <1>19, <1>20, <1>21
     DEF StepOf, PublishLoop, SubscribeLoop, ResyncLoop, Hooks

(* Who subscribes is up, and who sends drains. *)
LEMMA LivingKept ==
    ASSUME TypeOK, Living, NEW n \in Replicas, StepOf(n)
    PROVE  Living'
<1>1. CASE Start(n)
  BY <1>1 DEF Start, Living, TypeOK, sendVars, recvVars, redisVars, bounds
<1>2. CASE Stop(n)
  BY <1>2 DEF Stop, Living, TypeOK, sendVars, recvVars, redisVars, bounds
<1>3. CASE Flushed(n)
  BY <1>3 DEF Flushed, Gone, Living, TypeOK, sendVars, recvVars, redisVars, bounds
<1>4. CASE Crash(n)
  BY <1>4 DEF Crash, Gone, Living, TypeOK, sendVars, recvVars, redisVars, bounds
<1>5. CASE Wake(n)
  BY <1>5 DEF Wake, Living, TypeOK, sendVars, recvVars, redisVars, bounds
<1>6. CASE Pop(n)
  BY <1>6 DEF Pop, Living, TypeOK, sendVars, recvVars, redisVars, bounds
<1>7. CASE Send(n)
  BY <1>7 DEF Send, Living, TypeOK, sendVars, recvVars, redisVars, bounds
<1>8. CASE SendLost(n)
  BY <1>8 DEF SendLost, Living, TypeOK, sendVars, recvVars, redisVars, bounds
<1>9. CASE Drained(n)
  BY <1>9 DEF Drained, Living, TypeOK, sendVars, recvVars, redisVars, bounds
<1>10. CASE Beat(n)
  BY <1>10 DEF Beat, Living, TypeOK, sendVars, recvVars, redisVars, bounds
<1>11. CASE Subscribe(n)
  BY <1>11 DEF Subscribe, Living, TypeOK, sendVars, recvVars, redisVars, bounds
<1>12. CASE OnReady(n)
  BY <1>12 DEF OnReady, Living, TypeOK, sendVars, recvVars, redisVars, bounds
<1>13. ASSUME NEW m \in Replicas, OnMessage(n, m) PROVE Living'
  BY <1>13 DEF OnMessage, Living, TypeOK, sendVars, recvVars, redisVars, bounds
<1>14. CASE SubscriptionLost(n)
  BY <1>14 DEF SubscriptionLost, Living, TypeOK, sendVars, recvVars, redisVars, bounds
<1>15. CASE TakeResync(n)
  BY <1>15 DEF TakeResync, Living, TypeOK, sendVars, recvVars, redisVars, bounds
<1>16. ASSUME NEW k \in Keys, ResyncKey(n, k) PROVE Living'
  BY <1>16 DEF ResyncKey, Living, TypeOK, sendVars, recvVars, redisVars, bounds
<1>17. CASE Degrade(n)
  BY <1>17 DEF Degrade, Living, TypeOK, sendVars, recvVars, redisVars, bounds
<1>18. CASE Recover(n)
  BY <1>18 DEF Recover, Living, TypeOK, sendVars, recvVars, redisVars, bounds
<1>19. CASE OnUp(n)
  BY <1>19 DEF OnUp, Living, TypeOK, sendVars, recvVars, redisVars, bounds
<1>20. ASSUME NEW k \in Keys, PublishInvalidation(n, k) PROVE Living'
  BY <1>20 DEF PublishInvalidation, Living, TypeOK, sendVars, recvVars, redisVars, bounds
<1>21. ASSUME NEW k \in Keys, Commit(n, k) PROVE Living'
  BY <1>21 DEF Commit, Living, TypeOK, sendVars, recvVars, redisVars, bounds
<1> QED
  BY <1>1, <1>2, <1>3, <1>4, <1>5, <1>6, <1>7, <1>8, <1>9, <1>10, <1>11, <1>12,
     <1>13, <1>14, <1>15, <1>16, <1>17, <1>18, <1>19, <1>20, <1>21
     DEF StepOf, PublishLoop, SubscribeLoop, ResyncLoop, Hooks

(* The numbers that are compared are numbers. *)
LEMMA Numbers ==
    ASSUME TypeOK, NEW n \in Replicas, NEW m \in Replicas
    PROVE  /\ track[n][m] # None => track[n][m] \in Nat
           /\ wire[n][m] \in Seq(Message) /\ Len(wire[n][m]) \in Nat
           /\ \A i \in 1..Len(wire[n][m]) :
                wire[n][m][i] \in Message /\ wire[n][m][i].epoch \in Nat
           /\ epoch[n] \in Nat
<1>1. wire[n][m] \in Seq(Message)
  BY DEF TypeOK
<1>2. Len(wire[n][m]) \in Nat /\ \A i \in 1..Len(wire[n][m]) : wire[n][m][i] \in Message
  BY <1>1
<1> QED  BY <1>1, <1>2 DEF TypeOK, Message

(* What was heard stays below a number that only grows. *)
LEMMA StillHeard ==
    ASSUME TypeOK, HeardWasSent, UNCHANGED track,
           \A x, o \in Replicas : wire'[x][o] = wire[x][o] \/ wire'[x][o] = <<>>,
           \A o \in Replicas : LastSent(o)' >= LastSent(o) /\ LastSent(o)' \in Int /\ LastSent(o) \in Int
    PROVE  HeardWasSent'
<1>1. \A x, o \in Replicas : track'[x][o] # None => track'[x][o] <= LastSent(o)'
  BY Numbers DEF HeardWasSent
<1>2. ASSUME NEW x \in Replicas, NEW o \in Replicas, NEW i \in 1..Len(wire'[x][o])
      PROVE  wire'[x][o][i].epoch <= LastSent(o)'
  <2>1. wire'[x][o] = wire[x][o]
    BY <1>2
  <2> QED  BY <1>2, <2>1, Numbers DEF HeardWasSent
<1> QED  BY <1>1, <1>2 DEF HeardWasSent

(* A message carries a number that is used up. *)
LEMMA DeliverHeard ==
    ASSUME TypeOK, HeardWasSent, NEW n \in Replicas, NEW what \in Whats, Deliver(n, what),
           UNCHANGED track, LastSent(n)' = epoch[n],
           \A o \in Replicas : LastSent(o)' >= LastSent(o) /\ LastSent(o)' \in Int /\ LastSent(o) \in Int
    PROVE  HeardWasSent'
<1>1. \A x, o \in Replicas : track'[x][o] # None => track'[x][o] <= LastSent(o)'
  BY Numbers DEF HeardWasSent
<1>2. ASSUME NEW x \in Replicas, NEW o \in Replicas, NEW i \in 1..Len(wire'[x][o])
      PROVE  wire'[x][o][i].epoch <= LastSent(o)'
  <2>1. CASE wire'[x][o] = wire[x][o]
    BY <1>2, <2>1, Numbers DEF HeardWasSent
  <2>2. CASE o = n /\ wire'[x][o] = Append(wire[x][o], [what |-> what, epoch |-> epoch[n]])
    <3> DEFINE msg == [what |-> what, epoch |-> epoch[n]]
    <3>1. msg \in Message /\ msg.epoch = epoch[n]
      BY Numbers DEF Message
    <3>2. wire[x][o] \in Seq(Message)
      BY Numbers
    <3> HIDE DEF msg
    <3>3. /\ Len(Append(wire[x][o], msg)) = Len(wire[x][o]) + 1
          /\ Append(wire[x][o], msg)[Len(wire[x][o]) + 1] = msg
          /\ \A j \in 1..Len(wire[x][o]) : Append(wire[x][o], msg)[j] = wire[x][o][j]
      BY <3>1, <3>2, Sequences
    <3>4. wire'[x][o] = Append(wire[x][o], msg)
      BY <2>2 DEF msg
    <3>5. CASE i = Len(wire[x][o]) + 1
      BY <2>2, <3>1, <3>3, <3>4, <3>5, Numbers
    <3>6. CASE i \in 1..Len(wire[x][o])
      BY <3>3, <3>4, <3>6, Numbers DEF HeardWasSent
    <3>7. i \in 1..Len(wire[x][o]) + 1 /\ Len(wire[x][o]) \in Nat
      BY <1>2, <3>3, <3>4, Numbers
    <3> QED  BY <3>5, <3>6, <3>7
  <2> QED  BY <2>1, <2>2, Delivered
<1> QED  BY <1>1, <1>2 DEF HeardWasSent

(* No number is heard before it was used. *)
LEMMA HeardKept ==
    ASSUME TypeOK, Living, HeardWasSent, NEW n \in Replicas, StepOf(n)
    PROVE  HeardWasSent'
<1>1. CASE Start(n)
  BY <1>1 DEF Start, HeardWasSent, LastSent, sendVars, recvVars, redisVars, bounds
<1>2. CASE Stop(n)
  BY <1>2 DEF Stop, HeardWasSent, LastSent, TypeOK, NoWire, sendVars, recvVars, redisVars, bounds
<1>3. CASE Flushed(n)
  <2>1. \A o \in Replicas : LastSent(o)' >= LastSent(o) /\ LastSent(o)' \in Int /\ LastSent(o) \in Int
    BY <1>3 DEF Flushed, Gone, LastSent, TypeOK
  <2>2. UNCHANGED track /\ \A x, o \in Replicas : wire'[x][o] = wire[x][o] \/ wire'[x][o] = <<>>
    BY <1>3 DEF Flushed, Gone, NoWire, TypeOK
  <2> QED  BY <2>1, <2>2, StillHeard
<1>4. CASE Crash(n)
  <2>1. \A o \in Replicas : LastSent(o)' >= LastSent(o) /\ LastSent(o)' \in Int /\ LastSent(o) \in Int
    BY <1>4 DEF Crash, Gone, LastSent, TypeOK
  <2>2. UNCHANGED track /\ \A x, o \in Replicas : wire'[x][o] = wire[x][o] \/ wire'[x][o] = <<>>
    BY <1>4 DEF Crash, Gone, NoWire, TypeOK
  <2> QED  BY <2>1, <2>2, StillHeard
<1>5. CASE Wake(n)
  BY <1>5 DEF Wake, HeardWasSent, LastSent, sendVars, recvVars, redisVars, bounds
<1>6. CASE Pop(n)
  <2>1. \A o \in Replicas : LastSent(o)' = LastSent(o)
    BY <1>6, FanoutAssumption DEF Pop, LastSent, TypeOK
  <2> QED  BY <1>6, <2>1 DEF Pop, HeardWasSent, recvVars
<1>7. CASE Send(n)
  <2>1. \A o \in Replicas : LastSent(o)' >= LastSent(o) /\ LastSent(o)' \in Int /\ LastSent(o) \in Int
    BY <1>7 DEF Send, LastSent, TypeOK
  <2>2. UNCHANGED track /\ sending[n] \in Whats /\ Deliver(n, sending[n])
    BY <1>7 DEF Send, recvVars, TypeOK, Whats
  <2>3. LastSent(n)' = epoch[n]
    BY <1>7 DEF Send, LastSent, TypeOK
  <2> QED  BY <2>1, <2>2, <2>3, DeliverHeard
<1>8. CASE SendLost(n)
  <2>1. \A o \in Replicas : LastSent(o)' >= LastSent(o) /\ LastSent(o)' \in Int /\ LastSent(o) \in Int
    BY <1>8 DEF SendLost, LastSent, TypeOK
  <2>2. UNCHANGED <<track, wire>>
    BY <1>8 DEF SendLost, recvVars
  <2> QED  BY <2>1, <2>2, StillHeard
<1>9. CASE Drained(n)
  BY <1>9 DEF Drained, HeardWasSent, LastSent, sendVars, recvVars, redisVars, bounds
<1>10. CASE Beat(n)
  <2>1. \A o \in Replicas : LastSent(o)' >= LastSent(o) /\ LastSent(o)' \in Int /\ LastSent(o) \in Int
    BY <1>10 DEF Beat, LastSent, TypeOK
  <2>2. UNCHANGED track
    BY <1>10 DEF Beat, recvVars
  <2>3. LastSent(n)' = epoch[n]
    BY <1>10 DEF Beat, LastSent, TypeOK, Living
  <2>4. CASE Deliver(n, Heartbeat)
    <3>1. Heartbeat \in Whats
      BY DEF Whats
    <3> QED  BY <2>1, <2>2, <2>3, <2>4, <3>1, DeliverHeard
  <2>5. CASE UNCHANGED wire
    BY <2>1, <2>2, <2>5, StillHeard
  <2> QED  BY <1>10, <2>4, <2>5 DEF Beat
<1>11. CASE Subscribe(n)
  BY <1>11 DEF Subscribe, HeardWasSent, LastSent, sendVars, recvVars, redisVars, bounds
<1>12. CASE OnReady(n)
  BY <1>12
     DEF OnReady, HeardWasSent, LastSent, TypeOK, NoWire, sendVars, recvVars,
         redisVars, bounds
<1>13. ASSUME NEW m \in Replicas, OnMessage(n, m) PROVE HeardWasSent'
  <2>1. \A o \in Replicas : LastSent(o)' = LastSent(o) /\ LastSent(o) \in Int
    BY <1>13 DEF OnMessage, LastSent, sendVars, TypeOK
  <2>2. /\ wire[n][m] \in Seq(Message) /\ wire[n][m] # <<>>
        /\ wire' = [wire EXCEPT ![n][m] = Tail(@)]
    BY <1>13 DEF OnMessage, TypeOK
  <2>3. /\ Len(wire[n][m]) \in Nat \ {0} /\ Head(wire[n][m]) = wire[n][m][1]
        /\ Len(Tail(wire[n][m])) = Len(wire[n][m]) - 1
        /\ \A i \in 1..Len(wire[n][m]) - 1 : Tail(wire[n][m])[i] = wire[n][m][i + 1]
        /\ Head(wire[n][m]) \in Message
    BY <2>2, Sequences
  <2>4. ASSUME NEW x \in Replicas, NEW o \in Replicas, NEW i \in 1..Len(wire'[x][o])
        PROVE  wire'[x][o][i].epoch <= LastSent(o)
    <3>1. CASE x = n /\ o = m
      BY <2>2, <2>3, <2>4, <3>1 DEF HeardWasSent, TypeOK
    <3>2. CASE ~(x = n /\ o = m)
      BY <2>2, <2>4, <3>2 DEF HeardWasSent, TypeOK
    <3> QED  BY <3>1, <3>2
  <2>5. ASSUME NEW x \in Replicas, NEW o \in Replicas, track'[x][o] # None
        PROVE  track'[x][o] <= LastSent(o)
    <3>1. CASE m = n \/ x # n
      <4>1. track'[x][o] = track[x][o]
        <5>1. CASE m = n
          BY <1>13, <5>1 DEF OnMessage
        <5>2. CASE m # n
          <6>1. PICK quiet \in SUBSET (Replicas \ {m}) : Observe(n, m, Head(wire[n][m]), quiet)
            BY <1>13, <5>2, Observed
          <6> QED  BY <3>1, <5>2, <6>1 DEF Observe, TypeOK
        <5> QED  BY <5>1, <5>2
      <4> QED  BY <2>5, <4>1 DEF HeardWasSent
    <3>2. CASE m # n /\ x = n
      <4>1. PICK quiet \in SUBSET (Replicas \ {m}) : Observe(n, m, Head(wire[n][m]), quiet)
        BY <1>13, <3>2, Observed
      <4>2. track'[n][o] = IF o = m THEN Head(wire[n][m]).epoch
                           ELSE IF o \in quiet THEN None ELSE track[n][o]
        BY <4>1 DEF Observe, TypeOK
      <4>5. CASE o = m
        <5>1. 1 \in 1..Len(wire[n][m]) /\ wire[n][m][1] = Head(wire[n][m])
          BY <2>3
        <5>2. wire[n][m][1].epoch <= LastSent(m)
          BY <5>1 DEF HeardWasSent
        <5> QED  BY <3>2, <4>2, <4>5, <5>1, <5>2
      <4>6. CASE o # m
        BY <2>5, <3>2, <4>2, <4>6 DEF HeardWasSent, TypeOK
      <4> QED  BY <4>5, <4>6
    <3> QED  BY <3>1, <3>2
  <2> QED  BY <2>1, <2>4, <2>5 DEF HeardWasSent
<1>14. CASE SubscriptionLost(n)
  BY <1>14
     DEF SubscriptionLost, HeardWasSent, LastSent, TypeOK, NoWire, sendVars,
         recvVars, redisVars, bounds
<1>15. CASE TakeResync(n)
  BY <1>15 DEF TakeResync, HeardWasSent, LastSent, sendVars, recvVars, redisVars, bounds
<1>16. ASSUME NEW k \in Keys, ResyncKey(n, k) PROVE HeardWasSent'
  BY <1>16 DEF ResyncKey, HeardWasSent, LastSent, sendVars, recvVars, redisVars, bounds
<1>17. CASE Degrade(n)
  BY <1>17 DEF Degrade, HeardWasSent, LastSent, sendVars, recvVars, redisVars, bounds
<1>18. CASE Recover(n)
  BY <1>18 DEF Recover, HeardWasSent, LastSent, sendVars, recvVars, redisVars, bounds
<1>19. CASE OnUp(n)
  BY <1>19 DEF OnUp, HeardWasSent, LastSent, sendVars, recvVars, redisVars, bounds
<1>20. ASSUME NEW k \in Keys, PublishInvalidation(n, k) PROVE HeardWasSent'
  BY <1>20 DEF PublishInvalidation, HeardWasSent, LastSent, sendVars, recvVars, redisVars, bounds
<1>21. ASSUME NEW k \in Keys, Commit(n, k) PROVE HeardWasSent'
  BY <1>21 DEF Commit, HeardWasSent, LastSent, sendVars, recvVars, redisVars, bounds
<1> QED
  BY <1>1, <1>2, <1>3, <1>4, <1>5, <1>6, <1>7, <1>8, <1>9, <1>10, <1>11, <1>12,
     <1>13, <1>14, <1>15, <1>16, <1>17, <1>18, <1>19, <1>20, <1>21
     DEF StepOf, PublishLoop, SubscribeLoop, ResyncLoop, Hooks

----------------------------------------------------------------------------
(* What covers a stale key, in parts. *)

(* A message on the way names key y, or everything. *)
Names(w, y) == \E i \in 1..Len(w) : w[i].what \in {y, Resync}

(* A gap shows in the messages w on the way, after number h. *)
NearGap(w, h) ==
    \E i \in 1..Len(w) :
        Gap(IF i = 1 THEN h ELSE w[i-1].epoch, w[i].what, w[i].epoch)

(* The number that will have been heard last. *)
LastOf(w, h) == IF w = <<>> THEN h ELSE w[Len(w)].epoch

(* The sender m has a message for y, or for everything, still to send. *)
InHand(m, y) ==
    \/ y \in hook[m]
    \/ Occurs(y, queue[m]) \/ Occurs(Resync, queue[m])
    \/ sending[m] \in {y, Resync}

(* The next that m sends shows x a gap. *)
FarGap(x, m) ==
    /\ phase[m] \in {"up", "stopping"}
    /\ LastOf(wire[x][m], track[x][m]) # None
    /\ LastSent(m) > LastOf(wire[x][m], track[x][m])

(* x will drop everything, or y, by itself; or it hears from m. *)
Pending(x, y) == sub[x] # "ready" \/ request[x] \/ y \in resyncing[x]
HearsFrom(x, m, y) ==
    \/ Names(wire[x][m], y) \/ NearGap(wire[x][m], track[x][m])
    \/ InHand(m, y) \/ FarGap(x, m)

(* Covered is made of these parts. *)
LEMMA CoveredParts ==
    ASSUME NEW x \in Replicas, NEW y \in Keys
    PROVE  Covered(x, y) <=> Pending(x, y) \/ \E m \in Replicas \ {x} : HearsFrom(x, m, y)
BY DEF Covered, Pending, HearsFrom, Names, NearGap, InHand, FarGap, LastOf, GapAhead, LastHeard

(* A message more: what was named or missing still is; one whose number     *)
(* leaves a gap after the last shows it.                                    *)
LEMMA AppendKeeps ==
    ASSUME NEW w \in Seq(Message), NEW h, NEW msg \in Message, NEW y
    PROVE  /\ Names(w, y) => Names(Append(w, msg), y)
           /\ msg.what \in {y, Resync} => Names(Append(w, msg), y)
           /\ NearGap(w, h) => NearGap(Append(w, msg), h)
           /\ Gap(LastOf(w, h), msg.what, msg.epoch) => NearGap(Append(w, msg), h)
<1> DEFINE v == Append(w, msg)
<1>1. /\ Len(v) = Len(w) + 1 /\ v[Len(w) + 1] = msg /\ Len(w) \in Nat
      /\ \A i \in 1..Len(w) : v[i] = w[i]
  BY Sequences
<1>2. w = <<>> <=> Len(w) = 0
  OBVIOUS
<1> HIDE DEF v
<1>3. Names(w, y) => Names(v, y)
  BY <1>1 DEF Names
<1>4. msg.what \in {y, Resync} => Names(v, y)
  BY <1>1 DEF Names
<1>5. NearGap(w, h) => NearGap(v, h)
  <2> SUFFICES ASSUME NEW i \in 1..Len(w),
                      Gap(IF i = 1 THEN h ELSE w[i-1].epoch, w[i].what, w[i].epoch)
               PROVE  NearGap(v, h)
    BY DEF NearGap
  <2>1. i \in 1..Len(v) /\ v[i] = w[i] /\ (i # 1 => v[i-1] = w[i-1])
    BY <1>1
  <2>2. Gap(IF i = 1 THEN h ELSE v[i-1].epoch, v[i].what, v[i].epoch)
    BY <2>1
  <2> QED  BY <2>1, <2>2 DEF NearGap
<1>6. ASSUME Gap(LastOf(w, h), msg.what, msg.epoch) PROVE NearGap(v, h)
  <2> DEFINE i == Len(w) + 1
  <2>1. i \in 1..Len(v) /\ v[i] = msg
    BY <1>1
  <2>2. LastOf(w, h) = IF i = 1 THEN h ELSE v[i-1].epoch
    BY <1>1, <1>2 DEF LastOf
  <2>3. Gap(IF i = 1 THEN h ELSE v[i-1].epoch, v[i].what, v[i].epoch)
    BY <1>6, <2>1, <2>2
  <2> HIDE DEF i
  <2> QED  BY <2>1, <2>3 DEF NearGap
<1> QED  BY <1>3, <1>4, <1>5, <1>6 DEF v

(* A message less: it was the one that named y or showed the gap, or the    *)
(* rest still does; and the last number stays the last.                     *)
LEMMA TailKeeps ==
    ASSUME NEW w \in Seq(Message), w # <<>>, NEW h, NEW y
    PROVE  /\ Names(w, y) => Head(w).what \in {y, Resync} \/ Names(Tail(w), y)
           /\ NearGap(w, h) => Gap(h, Head(w).what, Head(w).epoch) \/ NearGap(Tail(w), Head(w).epoch)
           /\ LastOf(Tail(w), Head(w).epoch) = LastOf(w, h)
           /\ NearGap(Tail(w), Head(w).epoch) => Tail(w) # <<>>
<1> DEFINE v == Tail(w)
<1>1. /\ Head(w) = w[1] /\ Len(w) \in Nat \ {0} /\ Len(v) = Len(w) - 1
      /\ \A i \in 1..Len(w) - 1 : v[i] = w[i + 1]
      /\ v \in Seq(Message)
  BY Sequences
<1> HIDE DEF v
<1>2. v = <<>> <=> Len(v) = 0
  BY <1>1
<1>3. Names(w, y) => Head(w).what \in {y, Resync} \/ Names(v, y)
  <2> SUFFICES ASSUME NEW i \in 1..Len(w), w[i].what \in {y, Resync}, i # 1
               PROVE  Names(v, y)
    BY <1>1 DEF Names
  <2>1. i - 1 \in 1..Len(v) /\ v[i - 1] = w[i]
    BY <1>1
  <2> QED  BY <2>1 DEF Names
<1>4. NearGap(w, h) => Gap(h, Head(w).what, Head(w).epoch) \/ NearGap(v, Head(w).epoch)
  <2> SUFFICES ASSUME NEW i \in 1..Len(w), i # 1, Gap(w[i-1].epoch, w[i].what, w[i].epoch)
               PROVE  NearGap(v, Head(w).epoch)
    BY <1>1 DEF NearGap
  <2> DEFINE j == i - 1
  <2>1. j \in 1..Len(v) /\ v[j] = w[i] /\ (j # 1 => v[j-1] = w[j]) /\ (j = 1 => w[j] = Head(w))
    BY <1>1
  <2>2. Gap(IF j = 1 THEN Head(w).epoch ELSE v[j-1].epoch, v[j].what, v[j].epoch)
    BY <2>1
  <2> HIDE DEF j
  <2> QED  BY <2>1, <2>2 DEF NearGap
<1>5. LastOf(v, Head(w).epoch) = LastOf(w, h)
  BY <1>1, <1>2 DEF LastOf
<1>6. NearGap(v, Head(w).epoch) => v # <<>>
  BY <1>1, <1>2 DEF NearGap
<1> QED  BY <1>3, <1>4, <1>5, <1>6 DEF v

(* What x has in transit from m and what m has in hand stay as they are. *)
Steady(x, m) ==
    /\ wire'[x][m] = wire[x][m] /\ track'[x][m] = track[x][m]
    /\ hook'[m] = hook[m] /\ queue'[m] = queue[m] /\ sending'[m] = sending[m]
    /\ epoch'[m] = epoch[m]
    /\ phase[m] \in {"up", "stopping"} => phase'[m] \in {"up", "stopping"}

(* Then x still hears from m what it would have heard. *)
LEMMA SteadyKeeps ==
    ASSUME NEW x \in Replicas, NEW m \in Replicas, NEW y \in Keys,
           Steady(x, m), HearsFrom(x, m, y)
    PROVE  HearsFrom(x, m, y)'
<1>1. CASE Names(wire[x][m], y)
  BY <1>1 DEF Steady, HearsFrom, Names
<1>2. CASE NearGap(wire[x][m], track[x][m])
  BY <1>2 DEF Steady, HearsFrom, NearGap, Gap
<1>3. CASE InHand(m, y)
  BY <1>3 DEF Steady, HearsFrom, InHand, Occurs
<1>4. CASE FarGap(x, m)
  BY <1>4 DEF Steady, HearsFrom, FarGap, LastOf, LastSent
<1> QED  BY <1>1, <1>2, <1>3, <1>4 DEF HearsFrom

(* What is stale and was to be dropped still is: a step keeps what is       *)
(* pending at x, and what x hears from the others or makes it pending.      *)
LEMMA CoverKept ==
    ASSUME Inv, NEW x \in Replicas, NEW y \in Keys, phase[x] = "up", y \in stale[x] \ ttlOnly[x],
           Pending(x, y) => Pending(x, y)' \/ \E m \in Replicas \ {x} : HearsFrom(x, m, y)',
           \A m \in Replicas \ {x} : ~Pending(x, y) /\ HearsFrom(x, m, y) =>
             HearsFrom(x, m, y)' \/ Pending(x, y)'
    PROVE  Covered(x, y)'
<1>1. Covered(x, y)
  BY DEF Inv, LostIsNoticed
<1>2. Pending(x, y)' \/ \E m \in Replicas \ {x} : HearsFrom(x, m, y)'
  BY <1>1, CoveredParts
<1>3. Covered(x, y)' <=> Pending(x, y)' \/ \E m \in Replicas \ {x} : HearsFrom(x, m, y)'
  BY DEF Covered, Pending, HearsFrom, Names, NearGap, InHand, FarGap, LastOf, GapAhead, LastHeard
<1> QED  BY <1>2, <1>3

(* A step that is steady for x keeps what x waits for. *)
LEMMA SteadyCover ==
    ASSUME Inv, NEW x \in Replicas, NEW y \in Keys, phase[x] = "up", y \in stale[x] \ ttlOnly[x],
           Pending(x, y) => Pending(x, y)', \A m \in Replicas \ {x} : Steady(x, m)
    PROVE  Covered(x, y)'
BY SteadyKeeps, CoverKept

(* The number heard last is one that its sender has used up. *)
LEMMA LastNumber ==
    ASSUME TypeOK, HeardWasSent, NEW x \in Replicas, NEW m \in Replicas,
           LastOf(wire[x][m], track[x][m]) # None
    PROVE  /\ LastOf(wire[x][m], track[x][m]) \in Nat
           /\ LastOf(wire[x][m], track[x][m]) <= LastSent(m)
<1>1. CASE wire[x][m] = <<>>
  BY <1>1, Numbers DEF LastOf, HeardWasSent
<1>2. CASE wire[x][m] # <<>>
  <2>1. Len(wire[x][m]) \in 1..Len(wire[x][m])
    BY <1>2, Numbers, Sequences
  <2> QED  BY <1>2, <2>1, Numbers DEF LastOf, HeardWasSent
<1> QED  BY <1>1, <1>2

(* A step loses no key that is to be dropped. *)
LEMMA NoticedKept ==
    ASSUME Inv, NEW n \in Replicas, StepOf(n)
    PROVE  LostIsNoticed'
<1>1. CASE Start(n)
  <2> SUFFICES ASSUME NEW x \in Replicas, NEW y \in Keys, phase'[x] = "up", y \in stale'[x] \ ttlOnly'[x]
               PROVE  Covered(x, y)'
    BY DEF LostIsNoticed
  <2>1. CASE x = n
    <3>1. sub'[x] # "ready"
      BY <1>1, <2>1 DEF Start, Inv, Living, recvVars, TypeOK
    <3> QED  BY <3>1 DEF Covered
  <2>2. CASE x # n
    <3>1. phase[x] = "up" /\ y \in stale[x] \ ttlOnly[x]
      BY <1>1, <2>2 DEF Start, Inv, TypeOK
    <3>2. Pending(x, y) => Pending(x, y)'
      BY <1>1 DEF Start, Pending, recvVars
    <3>3. \A m \in Replicas \ {x} : Steady(x, m)
      BY <1>1 DEF Start, Inv, TypeOK, Steady, sendVars, recvVars
    <3> QED  BY <3>1, <3>2, <3>3, SteadyCover
  <2> QED  BY <2>1, <2>2
<1>2. CASE Stop(n)
  <2> SUFFICES ASSUME NEW x \in Replicas, NEW y \in Keys, phase'[x] = "up", y \in stale'[x] \ ttlOnly'[x]
               PROVE  Covered(x, y)'
    BY DEF LostIsNoticed
  <2>1. phase[x] = "up" /\ y \in stale[x] \ ttlOnly[x]
    BY <1>2 DEF Stop, Inv, TypeOK
  <2>2. Pending(x, y) => Pending(x, y)'
    BY <1>2, <2>1 DEF Stop, Inv, TypeOK, Pending, recvVars
  <2>3. \A m \in Replicas \ {x} : Steady(x, m)
    BY <1>2 DEF Stop, Inv, TypeOK, Steady, sendVars, recvVars, redisVars, bounds
  <2> QED  BY <2>1, <2>2, <2>3, SteadyCover
<1>3. CASE Flushed(n)
  <2> SUFFICES ASSUME NEW x \in Replicas, NEW y \in Keys, phase'[x] = "up", y \in stale'[x] \ ttlOnly'[x]
               PROVE  Covered(x, y)'
    BY DEF LostIsNoticed
  <2>1. x # n
    BY <1>3 DEF Flushed, Gone, Inv, TypeOK
  <2>2. y \in stale[x] /\ ttlOnly'[x] = ttlOnly[x] \cup {k \in stale[x] : ~Covered(x, k)'}
    BY <1>3, <2>1 DEF Flushed, Gone, Inv, TypeOK
  <2> QED  BY <2>2
<1>4. CASE Crash(n)
  <2> SUFFICES ASSUME NEW x \in Replicas, NEW y \in Keys, phase'[x] = "up", y \in stale'[x] \ ttlOnly'[x]
               PROVE  Covered(x, y)'
    BY DEF LostIsNoticed
  <2>1. x # n
    BY <1>4 DEF Crash, Gone, Inv, TypeOK
  <2>2. y \in stale[x] /\ ttlOnly'[x] = ttlOnly[x] \cup {k \in stale[x] : ~Covered(x, k)'}
    BY <1>4, <2>1 DEF Crash, Gone, Inv, TypeOK
  <2> QED  BY <2>2
<1>5. CASE Wake(n)
  <2> SUFFICES ASSUME NEW x \in Replicas, NEW y \in Keys, phase'[x] = "up", y \in stale'[x] \ ttlOnly'[x]
               PROVE  Covered(x, y)'
    BY DEF LostIsNoticed
  <2>1. phase[x] = "up" /\ y \in stale[x] \ ttlOnly[x]
    BY <1>5 DEF Wake, Inv, TypeOK
  <2>2. Pending(x, y) => Pending(x, y)'
    BY <1>5, <2>1 DEF Wake, Inv, TypeOK, Pending, recvVars
  <2>3. \A m \in Replicas \ {x} : Steady(x, m)
    BY <1>5 DEF Wake, Inv, TypeOK, Steady, sendVars, recvVars, redisVars, bounds
  <2> QED  BY <2>1, <2>2, <2>3, SteadyCover
<1>6. CASE Pop(n)
  <2> SUFFICES ASSUME NEW x \in Replicas, NEW y \in Keys, phase'[x] = "up", y \in stale'[x] \ ttlOnly'[x]
               PROVE  Covered(x, y)'
    BY DEF LostIsNoticed
  <2>1. phase[x] = "up" /\ y \in stale[x] \ ttlOnly[x]
    BY <1>6 DEF Pop, Inv, TypeOK, bounds
  <2>2. Pending(x, y) => Pending(x, y)'
    BY <1>6 DEF Pop, Pending, recvVars
  <2>3. ASSUME NEW m \in Replicas \ {x}, ~Pending(x, y), HearsFrom(x, m, y) PROVE HearsFrom(x, m, y)'
    <3>1. CASE m # n
      <4>1. Steady(x, m)
        BY <1>6, <3>1 DEF Pop, Inv, TypeOK, Steady, recvVars
      <4> QED  BY <2>3, <4>1, SteadyKeeps
    <3>2. CASE m = n
      <4>1. /\ wire'[x][m] = wire[x][m] /\ track'[x][m] = track[x][m] /\ hook'[m] = hook[m]
            /\ queue[m] # <<>> /\ queue'[m] = Tail(queue[m]) /\ sending[m] = None
            /\ sending'[m] = Head(queue[m]) /\ UNCHANGED phase
        BY <1>6, <3>2 DEF Pop, Inv, TypeOK, recvVars
      <4>2. queue[m] \in Seq(Keys \cup {Resync})
        BY DEF Inv, TypeOK
      <4>3. CASE InHand(m, y)
        <5>1. \A z : Occurs(z, queue[m]) => z = Head(queue[m]) \/ Occurs(z, Tail(queue[m]))
          <6> SUFFICES ASSUME NEW z, NEW i \in 1..Len(queue[m]), queue[m][i] = z, i # 1
                       PROVE  Occurs(z, Tail(queue[m]))
            BY <4>1, <4>2, Sequences DEF Occurs
          <6>1. i - 1 \in 1..Len(Tail(queue[m])) /\ Tail(queue[m])[i - 1] = z
            BY <4>1, <4>2, Sequences
          <6> QED  BY <6>1 DEF Occurs
        <5>2. InHand(m, y)'
          <6>1. Resync # None /\ y # None
            BY FanoutAssumption
          <6>2. CASE y \in hook[m]
            BY <4>1, <6>2 DEF InHand
          <6>3. CASE Occurs(y, queue[m]) \/ Occurs(Resync, queue[m])
            <7>1. \/ sending'[m] \in {y, Resync}
                  \/ Occurs(y, queue'[m]) \/ Occurs(Resync, queue'[m])
              BY <4>1, <5>1, <6>3
            <7> QED  BY <7>1 DEF InHand, Occurs
          <6> QED  BY <4>1, <4>3, <6>1, <6>2, <6>3 DEF InHand
        <5> QED  BY <5>2 DEF HearsFrom
      <4>4. CASE ~InHand(m, y)
        <5>1. LastSent(m)' = LastSent(m)
          <6>1. Head(queue[m]) \in Keys \cup {Resync}
            BY <4>1, <4>2, Sequences
          <6>2. sending'[m] # None
            BY <4>1, <6>1, FanoutAssumption
          <6>3. epoch'[m] = epoch[m] + 1 /\ epoch[m] \in Nat
            BY <1>6, <3>2 DEF Pop, Inv, TypeOK
          <6> QED  BY <4>1, <6>2, <6>3 DEF LastSent
        <5> QED  BY <2>3, <4>1, <4>4, <5>1 DEF HearsFrom, Names, NearGap, Gap, FarGap, LastOf
      <4> QED  BY <4>3, <4>4
    <3> QED  BY <3>1, <3>2
  <2> QED  BY <2>1, <2>2, <2>3, CoverKept
<1>7. CASE Send(n)
  <2> SUFFICES ASSUME NEW x \in Replicas, NEW y \in Keys, phase'[x] = "up", y \in stale'[x] \ ttlOnly'[x]
               PROVE  Covered(x, y)'
    BY DEF LostIsNoticed
  <2>1. phase[x] = "up" /\ y \in stale[x] \ ttlOnly[x]
    BY <1>7 DEF Send, Inv, TypeOK, bounds
  <2>2. Pending(x, y) => Pending(x, y)'
    BY <1>7 DEF Send, Pending, recvVars
  <2>3. ASSUME NEW m \in Replicas \ {x}, ~Pending(x, y), HearsFrom(x, m, y) PROVE HearsFrom(x, m, y)'
    <3>1. CASE m # n
      <4>1. Steady(x, m)
        <5>1. sending[n] \in Whats /\ Deliver(n, sending[n])
          BY <1>7 DEF Send, Inv, TypeOK, Whats
        <5>2. wire'[x][m] = wire[x][m]
          BY <3>1, <5>1, Delivered DEF Inv
        <5> QED  BY <1>7, <3>1, <5>2 DEF Send, Inv, TypeOK, Steady, recvVars
      <4> QED  BY <2>3, <4>1, SteadyKeeps
    <3>2. CASE m = n
      <4>0. /\ sending[n] \in Whats /\ sending[n] # Heartbeat /\ sending[n] # None /\ Deliver(n, sending[n])
            /\ UNCHANGED <<track, hook, queue, epoch, phase>>
        BY <1>7, FanoutAssumption DEF Send, Inv, TypeOK, Whats, recvVars
      <4> DEFINE msg == [what |-> sending[n], epoch |-> epoch[n]]
                 w == wire[x][m]
                 h == track[x][m]
      <4>1. msg \in Message /\ msg.what = sending[n] /\ msg.epoch = epoch[n] /\ w \in Seq(Message)
        BY <4>0 DEF Message, Inv, TypeOK
      <4>2. sub[x] # "no"
        BY <2>3 DEF Pending
      <4>3. wire'[x][m] = Append(w, msg) /\ track'[x][m] = h
        BY <3>2, <4>0, <4>2, Delivered DEF Inv
      <4> HIDE DEF msg, w, h
      <4>4. CASE Names(w, y) \/ NearGap(w, h)
        <5>1. Names(Append(w, msg), y) \/ NearGap(Append(w, msg), h)
          BY <4>1, <4>4, AppendKeeps
        <5> QED  BY <4>3, <5>1 DEF HearsFrom, Names, NearGap
      <4>5. CASE sending[m] \in {y, Resync}
        <5>1. Names(Append(w, msg), y)
          BY <3>2, <4>1, <4>5, AppendKeeps
        <5> QED  BY <4>3, <5>1 DEF HearsFrom, Names
      <4>6. CASE InHand(m, y) /\ sending[m] \notin {y, Resync}
        BY <4>0, <4>6 DEF HearsFrom, InHand, Occurs
      <4>7. CASE FarGap(x, m)
        <5>1. LastOf(w, h) # None /\ LastSent(m) > LastOf(w, h) /\ LastSent(m) = epoch[n] - 1
          BY <3>2, <4>0, <4>7 DEF FarGap, LastSent, w, h
        <5>2. LastOf(w, h) \in Nat /\ epoch[n] \in Nat
          BY <5>1, <4>1, LastNumber DEF w, h, Inv, TypeOK
        <5>3. Gap(LastOf(w, h), msg.what, msg.epoch)
          BY <4>0, <4>1, <5>1, <5>2 DEF Gap
        <5>4. NearGap(Append(w, msg), h)
          BY <4>1, <5>3, AppendKeeps
        <5> QED  BY <4>3, <5>4 DEF HearsFrom, NearGap
      <4> QED  BY <2>3, <4>4, <4>5, <4>6, <4>7 DEF HearsFrom, w, h
    <3> QED  BY <3>1, <3>2
  <2> QED  BY <2>1, <2>2, <2>3, CoverKept
<1>8. CASE SendLost(n)
  <2> SUFFICES ASSUME NEW x \in Replicas, NEW y \in Keys, phase'[x] = "up", y \in stale'[x] \ ttlOnly'[x]
               PROVE  Covered(x, y)'
    BY DEF LostIsNoticed
  <2>1. phase[x] = "up" /\ y \in stale[x] \ ttlOnly[x]
    BY <1>8 DEF SendLost, Inv, TypeOK
  <2>2. Pending(x, y) => Pending(x, y)'
    BY <1>8 DEF SendLost, Pending, recvVars
  <2>3. ASSUME NEW m \in Replicas \ {x}, ~Pending(x, y), HearsFrom(x, m, y) PROVE HearsFrom(x, m, y)'
    <3>1. CASE m # n
      <4>1. Steady(x, m)
        BY <1>8, <3>1 DEF SendLost, Inv, TypeOK, Steady, recvVars
      <4> QED  BY <2>3, <4>1, SteadyKeeps
    <3>2. CASE m = n
      <4>1. /\ wire'[x][m] = wire[x][m] /\ track'[x][m] = track[x][m] /\ sending[m] # None
            /\ sending'[m] = None /\ UNCHANGED <<hook, queue, epoch, phase>>
        BY <1>8, <3>2 DEF SendLost, Inv, TypeOK, recvVars
      <4>2. LastSent(m)' = epoch[m] /\ LastSent(m) = epoch[m] - 1 /\ epoch[m] \in Nat
        BY <4>1 DEF LastSent, Inv, TypeOK
      <4> DEFINE last == LastOf(wire[x][m], track[x][m])
      <4>3. last # None => last \in Nat /\ last <= LastSent(m)
        BY LastNumber DEF Inv
      <4>4. LastOf(wire[x][m], track[x][m])' = last
        BY <4>1 DEF LastOf
      <4> HIDE DEF last
      <4>5. CASE last # None
        <5>1. phase'[m] \in {"up", "stopping"}
          BY <4>1 DEF Inv, Living
        <5>2. epoch[m] > last
          BY <4>2, <4>3, <4>5
        <5>3. FarGap(x, m)'
          BY <4>2, <4>4, <4>5, <5>1, <5>2 DEF FarGap
        <5> QED  BY <5>3 DEF HearsFrom
      <4>6. CASE last = None
        <5>1. Unseen(x, m)
          BY <2>3, <4>6 DEF Unseen, Pending, LastHeard, LastOf, last, Inv, TypeOK
        <5>2. sending[m] \notin {y, Resync}
          BY <1>8, <2>1, <3>2, <5>1 DEF SendLost, Inv, TypeOK
        <5>3. ~FarGap(x, m)
          BY <4>6 DEF FarGap, last
        <5> QED  BY <2>3, <4>1, <5>2, <5>3 DEF HearsFrom, Names, NearGap, Gap, InHand, Occurs
      <4> QED  BY <4>5, <4>6
    <3> QED  BY <3>1, <3>2
  <2> QED  BY <2>1, <2>2, <2>3, CoverKept
<1>9. CASE Drained(n)
  <2> SUFFICES ASSUME NEW x \in Replicas, NEW y \in Keys, phase'[x] = "up", y \in stale'[x] \ ttlOnly'[x]
               PROVE  Covered(x, y)'
    BY DEF LostIsNoticed
  <2>1. phase[x] = "up" /\ y \in stale[x] \ ttlOnly[x]
    BY <1>9 DEF Drained, Inv, TypeOK
  <2>2. Pending(x, y) => Pending(x, y)'
    BY <1>9, <2>1 DEF Drained, Inv, TypeOK, Pending, recvVars
  <2>3. \A m \in Replicas \ {x} : Steady(x, m)
    BY <1>9 DEF Drained, Inv, TypeOK, Steady, sendVars, recvVars, redisVars, bounds
  <2> QED  BY <2>1, <2>2, <2>3, SteadyCover
<1>10. CASE Beat(n)
  <2> SUFFICES ASSUME NEW x \in Replicas, NEW y \in Keys, phase'[x] = "up", y \in stale'[x] \ ttlOnly'[x]
               PROVE  Covered(x, y)'
    BY DEF LostIsNoticed
  <2>1. phase[x] = "up" /\ y \in stale[x] \ ttlOnly[x]
    BY <1>10 DEF Beat, Inv, TypeOK, bounds
  <2>2. Pending(x, y) => Pending(x, y)'
    BY <1>10 DEF Beat, Pending, recvVars
  <2>3. ASSUME NEW m \in Replicas \ {x}, ~Pending(x, y), HearsFrom(x, m, y) PROVE HearsFrom(x, m, y)'
    <3>1. CASE m # n
      <4>1. Steady(x, m)
        <5>1. Heartbeat \in Whats
          BY DEF Whats
        <5>2. wire'[x][m] = wire[x][m]
          BY <1>10, <3>1, <5>1, Delivered DEF Inv, Beat
        <5> QED  BY <1>10, <3>1, <5>2 DEF Beat, Inv, TypeOK, Steady, recvVars
      <4> QED  BY <2>3, <4>1, SteadyKeeps
    <3>2. CASE m = n
      <4>a. CASE UNCHANGED wire
        <5>1. Steady(x, m)
          BY <1>10, <4>a DEF Beat, Inv, TypeOK, Steady, recvVars
        <5> QED  BY <2>3, <5>1, SteadyKeeps
      <4>0. CASE Deliver(n, Heartbeat)
        <5>0. /\ Heartbeat \in Whats /\ sending[n] = None /\ Deliver(n, Heartbeat)
              /\ UNCHANGED <<track, hook, queue, sending, epoch, phase>>
          BY <1>10, <4>0 DEF Beat, Inv, TypeOK, Living, Whats, recvVars
        <5> DEFINE msg == [what |-> Heartbeat, epoch |-> epoch[n]]
                   w == wire[x][m]
                   h == track[x][m]
        <5>1. msg \in Message /\ msg.what = Heartbeat /\ msg.epoch = epoch[n] /\ w \in Seq(Message)
          BY <5>0 DEF Message, Inv, TypeOK
        <5>2. sub[x] # "no"
          BY <2>3 DEF Pending
        <5>3. wire'[x][m] = Append(w, msg) /\ track'[x][m] = h
          BY <3>2, <5>0, <5>2, Delivered DEF Inv
        <5> HIDE DEF msg, w, h
        <5>4. CASE Names(w, y) \/ NearGap(w, h)
          <6>1. Names(Append(w, msg), y) \/ NearGap(Append(w, msg), h)
            BY <5>1, <5>4, AppendKeeps
          <6> QED  BY <5>3, <6>1 DEF HearsFrom, Names, NearGap
        <5>6. CASE InHand(m, y)
          BY <5>0, <5>6 DEF HearsFrom, InHand, Occurs
        <5>7. CASE FarGap(x, m)
          <6>1. LastOf(w, h) # None /\ LastSent(m) > LastOf(w, h) /\ LastSent(m) = epoch[n]
            BY <3>2, <5>0, <5>7 DEF FarGap, LastSent, w, h
          <6>2. LastOf(w, h) \in Nat /\ epoch[n] \in Nat
            BY <6>1, <5>1, LastNumber DEF w, h, Inv, TypeOK
          <6>3. Gap(LastOf(w, h), msg.what, msg.epoch)
            BY <5>0, <5>1, <6>1, <6>2 DEF Gap
          <6>4. NearGap(Append(w, msg), h)
            BY <5>1, <6>3, AppendKeeps
          <6> QED  BY <5>3, <6>4 DEF HearsFrom, NearGap
        <5> QED  BY <2>3, <5>4, <5>6, <5>7 DEF HearsFrom, w, h
      <4> QED  BY <1>10, <4>a, <4>0 DEF Beat
    <3> QED  BY <3>1, <3>2
  <2> QED  BY <2>1, <2>2, <2>3, CoverKept
<1>11. CASE Subscribe(n)
  <2> SUFFICES ASSUME NEW x \in Replicas, NEW y \in Keys, phase'[x] = "up", y \in stale'[x] \ ttlOnly'[x]
               PROVE  Covered(x, y)'
    BY DEF LostIsNoticed
  <2>1. phase[x] = "up" /\ y \in stale[x] \ ttlOnly[x]
    BY <1>11 DEF Subscribe, Inv, TypeOK
  <2>2. Pending(x, y) => Pending(x, y)'
    BY <1>11, <2>1 DEF Subscribe, Inv, TypeOK, Pending, recvVars
  <2>3. \A m \in Replicas \ {x} : Steady(x, m)
    BY <1>11 DEF Subscribe, Inv, TypeOK, Steady, sendVars, recvVars, redisVars, bounds
  <2> QED  BY <2>1, <2>2, <2>3, SteadyCover
<1>12. CASE OnReady(n)
  <2> SUFFICES ASSUME NEW x \in Replicas, NEW y \in Keys, phase'[x] = "up", y \in stale'[x] \ ttlOnly'[x]
               PROVE  Covered(x, y)'
    BY DEF LostIsNoticed
  <2>1. CASE x = n
    BY <1>12, <2>1 DEF OnReady, Covered, Inv, TypeOK
  <2>2. CASE x # n
    <3>1. phase[x] = "up" /\ y \in stale[x] \ ttlOnly[x]
      BY <1>12 DEF OnReady
    <3>2. Pending(x, y) => Pending(x, y)'
      BY <1>12, <2>2 DEF OnReady, Pending, Inv, TypeOK
    <3>3. \A m \in Replicas \ {x} : Steady(x, m)
      BY <1>12, <2>2 DEF OnReady, Inv, TypeOK, Steady, sendVars
    <3> QED  BY <3>1, <3>2, <3>3, SteadyCover
  <2> QED  BY <2>1, <2>2
<1>13. ASSUME NEW m \in Replicas, OnMessage(n, m) PROVE LostIsNoticed'
  <2> SUFFICES ASSUME NEW x \in Replicas, NEW y \in Keys, phase'[x] = "up", y \in stale'[x] \ ttlOnly'[x]
               PROVE  Covered(x, y)'
    BY DEF LostIsNoticed
  <2>0. /\ wire[n][m] \in Seq(Message) /\ wire[n][m] # <<>> /\ Head(wire[n][m]) \in Message
        /\ wire' = [wire EXCEPT ![n][m] = Tail(@)]
        /\ UNCHANGED <<phase, sub, resyncing, hook, queue, sending, epoch>>
    BY <1>13, Sequences DEF OnMessage, Inv, TypeOK, sendVars
  <2>1. phase[x] = "up" /\ y \in stale[x] \ ttlOnly[x]
    <3>1. CASE m = n
      BY <1>13, <2>0, <3>1 DEF OnMessage
    <3>2. CASE m # n
      <4>1. PICK quiet \in SUBSET (Replicas \ {m}) : Observe(n, m, Head(wire[n][m]), quiet)
        BY <1>13, <3>2, Observed
      <4>2. /\ x = n => stale'[x] = stale[x] \ {Head(wire[n][m]).what}
            /\ x = n => ttlOnly[x] \ {Head(wire[n][m]).what} \subseteq ttlOnly'[x]
            /\ x # n => stale'[x] = stale[x] /\ ttlOnly'[x] = ttlOnly[x]
        BY <4>1 DEF Observe, Inv, TypeOK
      <4> QED  BY <2>0, <4>2
    <3> QED  BY <3>1, <3>2
  <2>2. Pending(x, y) => Pending(x, y)'
    <3>1. request[x] => request'[x]
      <4>1. CASE m = n
        BY <1>13, <4>1 DEF OnMessage
      <4>2. CASE m # n
        <5>1. PICK quiet \in SUBSET (Replicas \ {m}) : Observe(n, m, Head(wire[n][m]), quiet)
          BY <1>13, <4>2, Observed
        <5> QED  BY <5>1 DEF Observe, Inv, TypeOK
      <4> QED  BY <4>1, <4>2
    <3> QED  BY <2>0, <3>1 DEF Pending
  <2>3. CASE x # n \/ m = n
    <3>1. \A o \in Replicas \ {x} : Steady(x, o)
      <4>1. \A o \in Replicas \ {x} : wire'[x][o] = wire[x][o]
        BY <2>0, <2>3 DEF Inv, TypeOK
      <4>2. \A o \in Replicas : track'[x][o] = track[x][o]
        <5>1. CASE m = n
          BY <1>13, <5>1 DEF OnMessage
        <5>2. CASE m # n
          <6>1. PICK quiet \in SUBSET (Replicas \ {m}) : Observe(n, m, Head(wire[n][m]), quiet)
            BY <1>13, <5>2, Observed
          <6> QED  BY <2>3, <5>2, <6>1 DEF Observe, Inv, TypeOK
        <5> QED  BY <5>1, <5>2
      <4> QED  BY <2>0, <4>1, <4>2 DEF Steady
    <3> QED  BY <2>1, <2>2, <3>1, SteadyCover
  <2>4. CASE x = n /\ m # n
    <3> DEFINE w == wire[n][m]
               h == track[n][m]
    <3>1. PICK quiet \in SUBSET (Replicas \ {m}) : Observe(n, m, Head(w), quiet)
      BY <1>13, <2>4, Observed
    <3>2. /\ wire'[n][m] = Tail(w) /\ \A o \in Replicas : o # m => wire'[n][o] = wire[n][o]
          /\ track'[n][m] = Head(w).epoch
          /\ \A o \in Replicas : o # m /\ o \notin quiet => track'[n][o] = track[n][o]
      BY <2>0, <3>1 DEF Observe, Inv, TypeOK
    <3>3. Head(w).what = Resync \/ Gap(h, Head(w).what, Head(w).epoch) => request'[n]
      BY <3>1 DEF Observe, Inv, TypeOK
    <3>4. Head(w).what # y
      BY <2>4, <3>1 DEF Observe, Inv, TypeOK
    <3>5. SUFFICES ASSUME ~Covered(x, y)' PROVE FALSE
      OBVIOUS
    <3>f. \A q \in quiet : ~NearGap(wire[n][q], track[n][q]) /\ ~FarGap(n, q)
      <4>1. \A q \in quiet : ~GapAhead(n, q)
        <5>1. ttlOnly'[n] = (ttlOnly[n] \ {Head(w).what}) \cup
                {k \in stale'[n] : (\E q \in quiet : GapAhead(n, q)) /\ ~Covered(n, k)'}
          BY <3>1 DEF Observe, Inv, TypeOK
        <5>2. y \in stale'[n] /\ y \notin ttlOnly'[n]
          BY <2>4
        <5>3. ~Covered(n, y)'
          BY <2>4, <3>5
        <5> QED  BY <5>1, <5>2, <5>3
      <4>2. \A q \in quiet : NearGap(wire[n][q], track[n][q]) \/ FarGap(n, q) => GapAhead(n, q)
        BY DEF GapAhead, NearGap, FarGap, LastOf, LastHeard
      <4> QED  BY <4>1, <4>2
    <3>6. ASSUME NEW o \in Replicas \ {x}, ~Pending(x, y), HearsFrom(x, o, y)
          PROVE  HearsFrom(x, o, y)' \/ Pending(x, y)'
      <4>1. InHand(o, y) => InHand(o, y)'
        BY <2>0 DEF InHand, Occurs
      <4>2. LastSent(o)' = LastSent(o)
        BY <2>0 DEF LastSent
      <4>3. CASE o # m
        <5>1. wire'[n][o] = wire[n][o]
          BY <3>2, <4>3
        <5>2. CASE o \notin quiet
          <6>1. Steady(x, o)
            BY <2>0, <2>4, <3>2, <4>3, <5>1, <5>2 DEF Steady
          <6> QED  BY <3>6, <6>1, SteadyKeeps
        <5>3. CASE o \in quiet
          <6>1. Names(wire[x][o], y) \/ InHand(o, y)
            BY <2>4, <3>f, <3>6, <5>3 DEF HearsFrom
          <6>2. Names(wire[x][o], y) => Names(wire[x][o], y)'
            BY <2>4, <5>1 DEF Names
          <6> QED  BY <4>1, <6>1, <6>2 DEF HearsFrom
        <5> QED  BY <5>2, <5>3
      <4>4. CASE o = m
        <5>1. /\ Names(w, y) => Head(w).what \in {y, Resync} \/ Names(Tail(w), y)
              /\ NearGap(w, h) => Gap(h, Head(w).what, Head(w).epoch) \/ NearGap(Tail(w), Head(w).epoch)
              /\ LastOf(Tail(w), Head(w).epoch) = LastOf(w, h)
              /\ NearGap(Tail(w), Head(w).epoch) => Tail(w) # <<>>
          BY <2>0, TailKeeps
        <5> HIDE DEF w, h
        <5>2. request'[n] => Pending(x, y)'
          BY <2>4 DEF Pending
        <5>3. CASE Names(w, y)
          <6>1. request'[n] \/ Names(wire'[n][m], y)
            BY <3>2, <3>3, <3>4, <5>1, <5>3
          <6> QED  BY <2>4, <4>4, <5>2, <6>1 DEF HearsFrom, Names
        <5>4. CASE NearGap(w, h)
          <6>1. CASE Gap(h, Head(w).what, Head(w).epoch)
            BY <3>3, <5>2, <6>1
          <6>2. CASE NearGap(Tail(w), Head(w).epoch)
            <7>1. track'[n][m] = Head(w).epoch
              BY <3>2
            <7>2. NearGap(wire'[n][m], track'[n][m])
              BY <3>2, <6>2, <7>1
            <7> QED  BY <2>4, <4>4, <7>2 DEF HearsFrom, NearGap
          <6> QED  BY <5>1, <5>4, <6>1, <6>2
        <5>5. CASE FarGap(x, m)
          <6>3. LastOf(wire'[n][m], track'[n][m]) = LastOf(w, h)
            BY <3>2, <5>1
          <6>4. LastOf(wire[x][m], track[x][m]) = LastOf(w, h)
            BY <2>4 DEF w, h
          <6>5. LastOf(wire[x][m], track[x][m])' = LastOf(w, h)
            BY <2>4, <6>3 DEF LastOf
          <6>6. FarGap(x, m)'
            BY <2>0, <4>2, <4>4, <5>5, <6>4, <6>5 DEF FarGap
          <6> QED  BY <4>4, <6>6 DEF HearsFrom
        <5> QED  BY <2>4, <3>6, <4>1, <4>4, <5>3, <5>4, <5>5 DEF HearsFrom, w, h
      <4> QED  BY <4>3, <4>4
    <3> QED  BY <2>1, <2>2, <3>5, <3>6, CoverKept
  <2> QED  BY <2>3, <2>4
<1>14. CASE SubscriptionLost(n)
  <2> SUFFICES ASSUME NEW x \in Replicas, NEW y \in Keys, phase'[x] = "up", y \in stale'[x] \ ttlOnly'[x]
               PROVE  Covered(x, y)'
    BY DEF LostIsNoticed
  <2>1. CASE x = n
    BY <1>14, <2>1 DEF SubscriptionLost, Covered, Inv, TypeOK
  <2>2. CASE x # n
    <3>1. phase[x] = "up" /\ y \in stale[x] \ ttlOnly[x]
      BY <1>14 DEF SubscriptionLost
    <3>2. Pending(x, y) => Pending(x, y)'
      BY <1>14, <2>2 DEF SubscriptionLost, Pending, Inv, TypeOK
    <3>3. \A m \in Replicas \ {x} : Steady(x, m)
      BY <1>14, <2>2 DEF SubscriptionLost, Inv, TypeOK, Steady, sendVars
    <3> QED  BY <3>1, <3>2, <3>3, SteadyCover
  <2> QED  BY <2>1, <2>2
<1>15. CASE TakeResync(n)
  <2> SUFFICES ASSUME NEW x \in Replicas, NEW y \in Keys, phase'[x] = "up", y \in stale'[x] \ ttlOnly'[x]
               PROVE  Covered(x, y)'
    BY DEF LostIsNoticed
  <2>1. phase[x] = "up" /\ y \in stale[x] \ ttlOnly[x]
    BY <1>15 DEF TakeResync, Inv, TypeOK
  <2>2. Pending(x, y) => Pending(x, y)'
    BY <1>15, <2>1 DEF TakeResync, Inv, TypeOK, Pending, recvVars
  <2>3. \A m \in Replicas \ {x} : Steady(x, m)
    BY <1>15 DEF TakeResync, Inv, TypeOK, Steady, sendVars, recvVars, redisVars, bounds
  <2> QED  BY <2>1, <2>2, <2>3, SteadyCover
<1>16. ASSUME NEW k \in Keys, ResyncKey(n, k) PROVE LostIsNoticed'
  <2> SUFFICES ASSUME NEW x \in Replicas, NEW y \in Keys, phase'[x] = "up", y \in stale'[x] \ ttlOnly'[x]
               PROVE  Covered(x, y)'
    BY DEF LostIsNoticed
  <2>1. phase[x] = "up" /\ y \in stale[x] \ ttlOnly[x]
    BY <1>16 DEF ResyncKey, Inv, TypeOK, DropKey
  <2>2. Pending(x, y) => Pending(x, y)'
    BY <1>16, <2>1 DEF ResyncKey, Inv, TypeOK, Pending, recvVars, DropKey
  <2>3. \A m \in Replicas \ {x} : Steady(x, m)
    BY <1>16 DEF ResyncKey, Inv, TypeOK, Steady, sendVars, recvVars, redisVars, bounds, DropKey
  <2> QED  BY <2>1, <2>2, <2>3, SteadyCover
<1>17. CASE Degrade(n)
  <2> SUFFICES ASSUME NEW x \in Replicas, NEW y \in Keys, phase'[x] = "up", y \in stale'[x] \ ttlOnly'[x]
               PROVE  Covered(x, y)'
    BY DEF LostIsNoticed
  <2>1. phase[x] = "up" /\ y \in stale[x] \ ttlOnly[x]
    BY <1>17 DEF Degrade, Inv, TypeOK
  <2>2. Pending(x, y) => Pending(x, y)'
    BY <1>17, <2>1 DEF Degrade, Inv, TypeOK, Pending, recvVars
  <2>3. \A m \in Replicas \ {x} : Steady(x, m)
    BY <1>17 DEF Degrade, Inv, TypeOK, Steady, sendVars, recvVars, redisVars, bounds
  <2> QED  BY <2>1, <2>2, <2>3, SteadyCover
<1>18. CASE Recover(n)
  <2> SUFFICES ASSUME NEW x \in Replicas, NEW y \in Keys, phase'[x] = "up", y \in stale'[x] \ ttlOnly'[x]
               PROVE  Covered(x, y)'
    BY DEF LostIsNoticed
  <2>1. phase[x] = "up" /\ y \in stale[x] \ ttlOnly[x]
    BY <1>18 DEF Recover, Inv, TypeOK
  <2>2. Pending(x, y) => Pending(x, y)'
    BY <1>18, <2>1 DEF Recover, Inv, TypeOK, Pending, recvVars
  <2>3. \A m \in Replicas \ {x} : Steady(x, m)
    BY <1>18 DEF Recover, Inv, TypeOK, Steady, sendVars, recvVars, redisVars, bounds
  <2> QED  BY <2>1, <2>2, <2>3, SteadyCover
<1>19. CASE OnUp(n)
  <2> SUFFICES ASSUME NEW x \in Replicas, NEW y \in Keys, phase'[x] = "up", y \in stale'[x] \ ttlOnly'[x]
               PROVE  Covered(x, y)'
    BY DEF LostIsNoticed
  <2>1. phase[x] = "up" /\ y \in stale[x] \ ttlOnly[x]
    BY <1>19 DEF OnUp, Inv, TypeOK
  <2>2. Pending(x, y) => Pending(x, y)'
    BY <1>19, <2>1 DEF OnUp, Inv, TypeOK, Pending, recvVars
  <2>3. \A m \in Replicas \ {x} : Steady(x, m)
    BY <1>19 DEF OnUp, Inv, TypeOK, Steady, sendVars, recvVars, redisVars, bounds
  <2> QED  BY <2>1, <2>2, <2>3, SteadyCover
<1>20. ASSUME NEW k \in Keys, PublishInvalidation(n, k) PROVE LostIsNoticed'
  <2> SUFFICES ASSUME NEW x \in Replicas, NEW y \in Keys, phase'[x] = "up", y \in stale'[x] \ ttlOnly'[x]
               PROVE  Covered(x, y)'
    BY DEF LostIsNoticed
  <2>1. phase[x] = "up" /\ y \in stale[x] \ ttlOnly[x]
    BY <1>20 DEF PublishInvalidation, Inv, TypeOK, bounds
  <2>2. Pending(x, y) => Pending(x, y)'
    BY <1>20 DEF PublishInvalidation, Pending, recvVars
  <2>3. ASSUME NEW m \in Replicas \ {x}, ~Pending(x, y), HearsFrom(x, m, y) PROVE HearsFrom(x, m, y)'
    <3>1. CASE m # n
      <4>1. Steady(x, m)
        BY <1>20, <3>1 DEF PublishInvalidation, Inv, TypeOK, Steady, recvVars
      <4> QED  BY <2>3, <4>1, SteadyKeeps
    <3>2. CASE m = n
      <4>1. /\ wire'[x][m] = wire[x][m] /\ track'[x][m] = track[x][m] /\ hook'[m] = hook[m] \ {k}
            /\ queue'[m] = Enqueue(queue[m], k) /\ UNCHANGED <<sending, epoch, phase>>
        BY <1>20, <3>2 DEF PublishInvalidation, Inv, TypeOK, recvVars
      <4>2. CASE InHand(m, y)
        <5>1. queue[m] \in Seq(Keys \cup {Resync})
          BY DEF Inv, TypeOK
        <5>2. /\ Occurs(k, queue'[m]) \/ Occurs(Resync, queue'[m])
              /\ Occurs(Resync, queue[m]) => Occurs(Resync, queue'[m])
              /\ Occurs(y, queue[m]) => Occurs(y, queue'[m]) \/ Occurs(Resync, queue'[m])
          BY <4>1, <5>1, EnqueueType
        <5>3. InHand(m, y)'
          BY <4>1, <4>2, <5>2 DEF InHand, Occurs
        <5> QED  BY <5>3 DEF HearsFrom
      <4>3. CASE ~InHand(m, y)
        BY <2>3, <4>1, <4>3 DEF HearsFrom, Names, NearGap, Gap, FarGap, LastOf, LastSent
      <4> QED  BY <4>2, <4>3
    <3> QED  BY <3>1, <3>2
  <2> QED  BY <2>1, <2>2, <2>3, CoverKept
<1>21. ASSUME NEW k \in Keys, Commit(n, k) PROVE LostIsNoticed'
  <2> SUFFICES ASSUME NEW x \in Replicas, NEW y \in Keys, phase'[x] = "up", y \in stale'[x] \ ttlOnly'[x]
               PROVE  Covered(x, y)'
    BY DEF LostIsNoticed
  <2>1. CASE x # n /\ y = k
    <3>1. n \in Replicas \ {x} /\ y \in hook'[n]
      BY <1>21, <2>1 DEF Commit, Inv, TypeOK
    <3> QED  BY <3>1 DEF Covered
  <2>2. CASE ~(x # n /\ y = k)
    <3>1. phase[x] = "up" /\ y \in stale[x] \ ttlOnly[x]
      BY <1>21, <2>2 DEF Commit, Inv, TypeOK
    <3>2. Pending(x, y) => Pending(x, y)'
      BY <1>21 DEF Commit, Pending, recvVars
    <3>3. ASSUME NEW m \in Replicas \ {x}, HearsFrom(x, m, y) PROVE HearsFrom(x, m, y)'
      <4>1. CASE m # n
        <5>1. Steady(x, m)
          BY <1>21, <4>1 DEF Commit, Inv, TypeOK, Steady, recvVars
        <5> QED  BY <3>3, <5>1, SteadyKeeps
      <4>2. CASE m = n
        <5>1. /\ wire'[x][m] = wire[x][m] /\ track'[x][m] = track[x][m] /\ hook[m] \subseteq hook'[m]
              /\ UNCHANGED <<queue, sending, epoch, phase>>
          BY <1>21, <4>2 DEF Commit, Inv, TypeOK, recvVars
        <5> QED
          BY <3>3, <5>1
             DEF HearsFrom, Names, NearGap, Gap, InHand, FarGap, LastOf, LastSent, Occurs
      <4> QED  BY <4>1, <4>2
    <3> QED  BY <3>1, <3>2, <3>3, CoverKept
  <2> QED  BY <2>1, <2>2
<1> QED
  BY <1>1, <1>2, <1>3, <1>4, <1>5, <1>6, <1>7, <1>8, <1>9, <1>10, <1>11, <1>12,
     <1>13, <1>14, <1>15, <1>16, <1>17, <1>18, <1>19, <1>20, <1>21
     DEF StepOf, PublishLoop, SubscribeLoop, ResyncLoop, Hooks

----------------------------------------------------------------------------
(* Every step keeps the invariant. *)
LEMMA NextInv == Inv /\ [Next]_vars => Inv'
<1> SUFFICES ASSUME Inv, [Next]_vars PROVE Inv'
  OBVIOUS
<1>1. ASSUME NEW n \in Replicas, StepOf(n) PROVE Inv'
  <2>1. TypeOK' /\ Living' /\ HeardWasSent'
    BY <1>1, TypesKept, LivingKept, HeardKept DEF Inv
  <2>2. LostIsNoticed'
    BY <1>1, NoticedKept
  <2> QED  BY <2>1, <2>2 DEF Inv
<1>2. CASE UNCHANGED vars
  <2>1. TypeOK'
    BY <1>2 DEF Inv, TypeOK, vars
  <2>2. Living' /\ HeardWasSent'
    BY <1>2 DEF Inv, Living, HeardWasSent, LastSent, vars
  <2>3. LostIsNoticed'
    <3> SUFFICES ASSUME NEW x \in Replicas, NEW y \in Keys, phase[x] = "up", y \in stale[x] \ ttlOnly[x]
                 PROVE  Covered(x, y)'
      BY <1>2 DEF LostIsNoticed, vars
    <3>1. Pending(x, y) => Pending(x, y)'
      BY <1>2 DEF Pending, vars
    <3>2. \A m \in Replicas \ {x} : Steady(x, m)
      BY <1>2 DEF Steady, vars
    <3> QED  BY <3>1, <3>2, SteadyCover
  <2> QED  BY <2>1, <2>2, <2>3 DEF Inv
<1> QED  BY <1>1, <1>2 DEF Next, StepOf

(* The fan-out's invariant holds throughout. *)
THEOREM Invariance == Spec => []Inv
BY InitInv, NextInv, PTL DEF Spec

(* Every variable keeps its type, whatever the limits and the bounds. *)
THEOREM TypeCorrect == Spec => []TypeOK
<1>1. Inv => TypeOK
  BY DEF Inv
<1> QED  BY Invariance, <1>1, PTL

(* A stale key of a running replica is going to be dropped, unless its      *)
(* message was lost before the replica had a number of the sender to miss   *)
(* it by, the sender ended with it, or the replica forgot the sender's      *)
(* number before it had met the gap (send, observe, prune, requestResync):  *)
(* for any number of replicas, keys, writes, faults and messages.           *)
THEOREM LossIsNoticed == Spec => []LostIsNoticed
<1>1. Inv => LostIsNoticed
  BY DEF Inv
<1> QED  BY Invariance, <1>1, PTL
=============================================================================
