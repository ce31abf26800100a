----------------------------- MODULE AmqpProofs -----------------------------
(* The replay protection of the consumer of events, for any number of      *)
(* messages, copies, redeliveries and lost connections; and of the         *)
(* reactor, for any number of events and sessions.                         *)
EXTENDS MCAmqp, Integers, TLAPS

(* A publisher's clock was at most Ahead of this one's.                    *)
IssuedInv ==
    \A m \in Copies : broker[m] # "unpublished" => issuedAt[nonce[m]] <= clock + Ahead

(* A nonce that was handled is on record for as long as it is fresh.       *)
RecordInv ==
    \A n \in Nonces :
        starts[n] > 0 => \/ seen[n] > issuedAt[n] + Skew
                         \/ clock > issuedAt[n] + Skew

(* A nonce is on record, and a handler is busy, only when it was handled.  *)
SeenInv == \A n \in Nonces : seen[n] # Absent => starts[n] > 0

BusyInv == \A m \in Copies : handling[m] > 0 => starts[nonce[m]] > 0

IInv ==
    /\ TypeOK
    /\ IssuedInv /\ RecordInv /\ SeenInv /\ BusyInv
    /\ HandledOnce /\ DroppedForCause

-----------------------------------------------------------------------------
(* Init establishes the invariant.                                         *)
LEMMA InitIInv == Init => IInv
  BY ClockAssumption DEF Init, IInv, TypeOK, IssuedInv, RecordInv, SeenInv,
     BusyInv, HandledOnce, DroppedForCause, Absent

(* What a look at the store leaves in it: entries go only once they have   *)
(* expired.                                                                *)
LEMMA PrunedFacts ==
  ASSUME TypeOK
  PROVE  /\ Pruned \in [Nonces -> 0 .. MaxClock + 2 * Skew]
         /\ \A n \in Nonces : \/ Pruned[n] = seen[n]
                              \/ Pruned[n] = Absent /\ seen[n] <= clock
  BY ClockAssumption DEF Pruned, TypeOK, Absent

(* What check_and_record leaves in it.                                     *)
LEMMA RecordedFacts ==
  ASSUME TypeOK, NEW m \in Copies
  PROVE  /\ Recorded(m) \in [Nonces -> 0 .. MaxClock + 2 * Skew]
         /\ \A n \in Nonces : n # nonce[m] => Recorded(m)[n] = Pruned[n]
         /\ Recorded(m)[nonce[m]] =
               IF Pruned[nonce[m]] = Absent THEN clock + 2 * Skew
               ELSE Pruned[nonce[m]]
  BY PrunedFacts, ClockAssumption DEF Recorded, TypeOK, TTL, Absent

(* Every step preserves the invariant.                                     *)
LEMMA StepIInv == IInv /\ [Next]_vars => IInv'
<1> SUFFICES ASSUME IInv, [Next]_vars PROVE IInv'
  OBVIOUS
<1> USE ClockAssumption
<1>1. CASE Tick
  BY <1>1 DEF Tick, IInv, TypeOK, IssuedInv, RecordInv, SeenInv, BusyInv,
     HandledOnce, DroppedForCause, message, handler
<1>2. CASE ConnectionLost
  <2>1. /\ broker' = [m \in Copies |-> IF broker[m] = "unacked" THEN "queued" ELSE broker[m]]
        /\ losses < MaxLosses /\ losses' = losses + 1
        /\ UNCHANGED <<nonce, issuedAt, genuine, handling, starts, ended, seen, clock>>
    BY <1>2 DEF ConnectionLost, message, handler
  <2>2. TypeOK'
    BY <2>1 DEF IInv, TypeOK
  <2>3. IssuedInv' /\ RecordInv' /\ SeenInv' /\ BusyInv' /\ HandledOnce' /\ DroppedForCause'
    BY <2>1 DEF IInv, TypeOK, IssuedInv, RecordInv, SeenInv, BusyInv, HandledOnce,
       DroppedForCause
  <2> QED BY <2>2, <2>3 DEF IInv
<1>3. ASSUME NEW m \in Copies, Publish(m) PROVE IInv'
  BY <1>3 DEF Publish, IInv, TypeOK, IssuedInv, RecordInv, SeenInv, BusyInv,
     HandledOnce, DroppedForCause, message, handler
<1>4. ASSUME NEW m \in Copies, Accept(m) PROVE IInv'
  <2>1. /\ broker[m] = "queued"
        /\ broker' = [broker EXCEPT ![m] = "unacked"]
        /\ seen' = Recorded(m)
        /\ handling' = [handling EXCEPT ![m] = handling[m] + 1]
        /\ starts' = [starts EXCEPT ![nonce[m]] = starts[nonce[m]] + 1]
        /\ UNCHANGED <<nonce, issuedAt, genuine, ended, clock, losses>>
    BY <1>4 DEF Accept, message
  <2>2. /\ clock <= issuedAt[nonce[m]] + Skew
        /\ issuedAt[nonce[m]] <= clock + Ahead
        /\ Pruned[nonce[m]] = Absent
    BY <1>4, <2>1 DEF Accept, Fresh, InWindow, IInv, IssuedInv
  <2>3. /\ nonce[m] \in Nonces /\ clock \in Nat
        /\ \A n \in Nonces : /\ issuedAt[n] \in Nat /\ starts[n] \in Nat
                             /\ seen[n] \in Nat
    BY DEF IInv, TypeOK
  (* The nonce had no entry and is fresh, so it was never handled.         *)
  <2>4. starts[nonce[m]] = 0
    BY <2>2, <2>3, PrunedFacts DEF IInv, RecordInv, Absent
  <2>5. TypeOK'
    BY <2>1, <2>3, RecordedFacts DEF IInv, TypeOK
  <2>6. IssuedInv'
    BY <2>1 DEF IInv, TypeOK, IssuedInv
  <2>7. \A n \in Nonces : starts'[n] = IF n = nonce[m] THEN 1 ELSE starts[n]
    BY <2>1, <2>3, <2>4 DEF IInv, TypeOK
  <2>8. RecordInv'
    <3> SUFFICES ASSUME NEW n \in Nonces, starts'[n] > 0
                 PROVE  \/ seen'[n] > issuedAt[n] + Skew
                        \/ clock > issuedAt[n] + Skew
      BY <2>1 DEF RecordInv
    <3>1. CASE n = nonce[m]
      BY <3>1, <2>1, <2>2, <2>3, RecordedFacts DEF IInv
    <3>2. CASE n # nonce[m]
      <4>1. seen'[n] = Pruned[n] /\ starts[n] > 0
        BY <3>2, <2>1, <2>7, RecordedFacts DEF IInv
      <4> QED BY <4>1, <2>3, PrunedFacts DEF IInv, RecordInv, Absent
    <3> QED BY <3>1, <3>2
  <2>9. SeenInv'
    <3> SUFFICES ASSUME NEW n \in Nonces, seen'[n] # Absent PROVE starts'[n] > 0
      BY DEF SeenInv
    <3>1. CASE n = nonce[m]
      BY <3>1, <2>7
    <3>2. CASE n # nonce[m]
      BY <3>2, <2>1, <2>7, PrunedFacts, RecordedFacts DEF IInv, SeenInv
    <3> QED BY <3>1, <3>2
  <2>10. BusyInv'
    BY <2>1, <2>3, <2>7 DEF IInv, TypeOK, BusyInv
  <2>11. HandledOnce'
    BY <2>7 DEF IInv, HandledOnce
  <2>12. DroppedForCause'
    BY <2>1, <2>3, <2>7 DEF IInv, TypeOK, DroppedForCause
  <2> QED BY <2>5, <2>6, <2>8, <2>9, <2>10, <2>11, <2>12 DEF IInv
<1>5. ASSUME NEW m \in Copies, Refuse(m) PROVE IInv'
  <2>1. /\ broker[m] = "queued" /\ ~Fresh(m)
        /\ broker' = [broker EXCEPT ![m] = "dropped"]
        /\ seen' = IF ReachesStore(m) THEN Recorded(m) ELSE seen
        /\ UNCHANGED <<nonce, issuedAt, genuine, handling, starts, ended, clock, losses>>
    BY <1>5 DEF Refuse, Refusal, message, handler
  <2>2. /\ nonce[m] \in Nonces /\ clock \in Nat
        /\ \A n \in Nonces : /\ issuedAt[n] \in Nat /\ starts[n] \in Nat
                             /\ seen[n] \in Nat
    BY DEF IInv, TypeOK
  (* Looked up and refused: it was on record already, nothing is added.    *)
  <2>3. \A n \in Nonces : seen'[n] = seen[n] \/ (seen'[n] = Absent /\ seen[n] <= clock)
    BY <2>1, <2>2, PrunedFacts, RecordedFacts DEF Fresh, ReachesStore, IInv
  <2>4. TypeOK'
    BY <2>1, RecordedFacts DEF IInv, TypeOK
  <2>5. IssuedInv' /\ BusyInv' /\ HandledOnce'
    BY <2>1 DEF IInv, TypeOK, IssuedInv, BusyInv, HandledOnce
  <2>6. RecordInv' /\ SeenInv'
    BY <2>1, <2>2, <2>3 DEF IInv, RecordInv, SeenInv, Absent
  <2>7. DroppedForCause'
    <3> SUFFICES ASSUME NEW d \in genuine, broker'[d] = "dropped", starts[nonce[d]] = 0
                 PROVE  clock > issuedAt[nonce[d]] + Skew
      BY <2>1 DEF DroppedForCause
    <3>1. CASE d = m
      <4>1. issuedAt[nonce[m]] <= clock + Ahead
        BY <2>1 DEF IInv, IssuedInv
      <4>2. Pruned[nonce[m]] = Absent
        BY <3>1, <2>2, PrunedFacts DEF IInv, SeenInv
      <4> QED BY <3>1, <4>1, <4>2, <2>1, <2>2 DEF Fresh, InWindow
    <3>2. CASE d # m
      BY <3>2, <2>1 DEF IInv, TypeOK, DroppedForCause
    <3> QED BY <3>1, <3>2
  <2> QED BY <2>4, <2>5, <2>6, <2>7 DEF IInv
<1>6. ASSUME NEW m \in Copies, HandlerEnds(m) PROVE IInv'
  <2>1. /\ handling[m] > 0
        /\ handling' = [handling EXCEPT ![m] = handling[m] - 1]
        /\ UNCHANGED <<nonce, issuedAt, genuine, starts, seen, clock, losses>>
    BY <1>6 DEF HandlerEnds, message
  <2>2. PICK how \in {"ok", "drop", "transient"} :
          /\ ended' = [ended EXCEPT ![nonce[m]] = how]
          /\ broker' = [broker EXCEPT ![m] = IF broker[m] = "unacked" THEN AnswerTo[how]
                                            ELSE broker[m]]
    BY <1>6 DEF HandlerEnds, Settle
  <2>3. AnswerTo[how] \in {"acked", "dropped", "queued"}
    BY <2>2 DEF AnswerTo
  <2>4. TypeOK'
    BY <2>1, <2>2, <2>3 DEF IInv, TypeOK
  <2>5. starts[nonce[m]] > 0 /\ nonce[m] \in Nonces
    BY <2>1 DEF IInv, BusyInv, TypeOK
  <2>6. IssuedInv' /\ RecordInv' /\ SeenInv' /\ HandledOnce'
    BY <2>1, <2>2, <2>3 DEF IInv, TypeOK, IssuedInv, RecordInv, SeenInv, HandledOnce
  <2>7. BusyInv'
    BY <2>1, <2>5 DEF IInv, TypeOK, BusyInv
  <2>8. DroppedForCause'
    BY <2>1, <2>2, <2>3, <2>5 DEF IInv, TypeOK, DroppedForCause
  <2> QED BY <2>4, <2>6, <2>7, <2>8 DEF IInv
<1>7. CASE UNCHANGED vars
  BY <1>7 DEF vars, message, handler, IInv, TypeOK, IssuedInv, RecordInv, SeenInv,
     BusyInv, HandledOnce, DroppedForCause
<1> QED
  BY <1>1, <1>2, <1>3, <1>4, <1>5, <1>6, <1>7 DEF Next, Deliver

(* The inductive invariant holds in every reachable state of the consumer. *)
THEOREM Invariance == Spec => []IInv
  BY InitIInv, StepIInv, PTL DEF Spec

(* The handler is given a nonce at most once, whatever the broker          *)
(* redelivers and however deliveries overlap (check_and_record with the    *)
(* lifetime consume() chooses).                                            *)
THEOREM AtMostOnce == Spec => []HandledOnce
<1>1. IInv => HandledOnce
  BY DEF IInv
<1> QED BY <1>1, Invariance, PTL

(* A genuine message that the handler never saw was dropped for its age    *)
(* (the order of the checks in _on_message and validate_freshness).        *)
THEOREM DropsHaveCause == Spec => []DroppedForCause
<1>1. IInv => DroppedForCause
  BY DEF IInv
<1> QED BY <1>1, Invariance, PTL

-----------------------------------------------------------------------------
(* The parts that a step of MCAmqp belongs to.                             *)
LEMMA Parts == [MCNext]_mcvars => [Next]_vars /\ [Reactor!Next]_reactor
  BY DEF MCNext, ConsumerPart, ReactorPart, mcvars

(* The reactor. An event that its handler was given is in the store for    *)
(* good, whatever becomes of its delivery and of the session.              *)
StoreInv ==
    /\ rseen \in SUBSET Events /\ rstarts \in [Events -> {0, 1}]
    /\ \A e \in Events : rstarts[e] = 1 => e \in rseen

LEMMA StoreStep == StoreInv /\ [Reactor!Next]_reactor => StoreInv'
<1> SUFFICES ASSUME StoreInv, [Reactor!Next]_reactor PROVE StoreInv'
  OBVIOUS
<1> USE DEF StoreInv, Reactor!session, Reactor!dispatch
<1>1. CASE UNCHANGED reactor
  BY <1>1 DEF reactor
<1>2. CASE Reactor!Tick
  BY <1>2 DEF Reactor!Tick
<1>3. CASE Reactor!Session
  BY <1>3
  DEF Reactor!Session, Reactor!Dial, Reactor!Store, Reactor!DialFails,
      Reactor!Reconnect, Reactor!ConnectionLost, Reactor!Restored,
      Reactor!SessionEnds, Reactor!DrainEnds, Reactor!Cancel
<1>4. ASSUME NEW e \in Events, Reactor!Broker(e) PROVE StoreInv'
  BY <1>4 DEF Reactor!Broker, Reactor!Publish
<1>5. ASSUME NEW e \in Events, Reactor!Dispatch(e) PROVE StoreInv'
  <2>1. CASE Reactor!Accept(e)
    BY <2>1 DEF Reactor!Accept
  <2>2. CASE Reactor!Refuse(e)
    BY <2>2 DEF Reactor!Refuse
  <2>3. CASE Reactor!HandlerDecides(e) \/ Reactor!HandlerFails(e) \/ Reactor!Replied(e)
             \/ Reactor!Ack(e)
    BY <2>3
    DEF Reactor!HandlerDecides, Reactor!HandlerFails, Reactor!Replied, Reactor!Ack
  <2> QED
    BY <1>5, <2>1, <2>2, <2>3 DEF Reactor!Dispatch
<1> QED
  BY <1>1, <1>2, <1>3, <1>4, <1>5 DEF Reactor!Next

(* For any number of events, sessions, redeliveries, lost acks and         *)
(* handlers that are cut off, a handler is given an event at most once.    *)
THEOREM ReactsOnce == MCSpec => []OncePerEvent
<1>1. MCInit => StoreInv
  BY DEF MCInit, Reactor!Init, StoreInv
<1>2. StoreInv => OncePerEvent
  BY DEF StoreInv, OncePerEvent, Reactor!OncePerEvent
<1> QED
  BY <1>1, <1>2, StoreStep, Parts, PTL DEF MCSpec
=============================================================================
