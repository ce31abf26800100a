---------------------------- MODULE AmqpConsumer ----------------------------
(* The consumer of signed events (amqp/_consumer.py) and its replay        *)
(* protection (amqp/_replay.py) under a broker that redelivers. A copy is  *)
(* one message in the queue; a publisher that retries leaves two copies    *)
(* with one nonce. Deliveries are handled concurrently, one task each;     *)
(* what a task does before it awaits the handler is one step.              *)
EXTENDS Naturals

CONSTANTS
    Copies,
    Nonces,
    Skew,         \* skew_seconds
    Ahead,        \* how far a publisher's clock may be ahead of the consumer's
    MaxClock,     \* bound of the clock
    MaxLosses     \* bound on how often the broker loses the connection

(* A publisher's clock is ahead by less than the skew that is tolerated.   *)
ASSUME ClockAssumption ==
    /\ Skew \in Nat /\ Ahead \in Nat /\ Ahead < Skew
    /\ MaxClock \in Nat /\ MaxLosses \in Nat

VARIABLES
    nonce,      \* of each copy
    issuedAt,   \* the issued_at signed with each nonce
    genuine,    \* the copies whose signature and body are in order
    broker,     \* what the broker did with each copy
    handling,   \* how many runs of the handler are busy with each copy
    starts,     \* how often the handler was given each nonce
    ended,      \* how the last run of the handler ended, for each nonce
    seen,       \* NonceStore._seen: the expiry of each nonce, 0 if absent
    clock,      \* the consumer's clock, the wall's and the monotonic one
    losses      \* how often the connection was lost

message == <<nonce, issuedAt, genuine>>
handler == <<handling, starts, ended>>
vars == <<message, broker, handler, seen, clock, losses>>

Absent == 0

Init ==
    /\ nonce \in [Copies -> Nonces]
    /\ issuedAt \in [Nonces -> 0 .. MaxClock]
    /\ genuine \in SUBSET Copies
    /\ broker = [m \in Copies |-> "unpublished"]
    /\ handling = [m \in Copies |-> 0]
    /\ starts = [n \in Nonces |-> 0]
    /\ ended = [n \in Nonces |-> "none"]
    /\ seen = [n \in Nonces |-> Absent]
    /\ clock = 0
    /\ losses = 0

-----------------------------------------------------------------------------
(* Mutant: the window itself as the lifetime of a nonce.                   *)
TTL_NoMargin == Skew

(* The lifetime consume() gives to the entries of its store.               *)
TTL == 2 * Skew

(* delta_seconds <= skew_seconds.                                          *)
InWindow(m) ==
    /\ clock <= issuedAt[nonce[m]] + Skew
    /\ issuedAt[nonce[m]] <= clock + Skew

(* Mutant: the nonce is looked up before the signature is verified.        *)
ReachesStore_Unverified(m) == TRUE

(* Only what passed the signature, the parse and the freshness checks is   *)
(* looked up in the store, and recorded there.                             *)
ReachesStore(m) == m \in genuine /\ InWindow(m)

(* _prune: what has expired by now is gone.                                *)
Pruned == [n \in Nonces |-> IF seen[n] <= clock THEN Absent ELSE seen[n]]

(* check_and_record.                                                       *)
Recorded(m) ==
    IF Pruned[nonce[m]] # Absent THEN Pruned
    ELSE [Pruned EXCEPT ![nonce[m]] = clock + TTL]

Fresh(m) == m \in genuine /\ InWindow(m) /\ Pruned[nonce[m]] = Absent

(* Mutant: a refused delivery goes back to the queue.                      *)
Refusal_Requeues == "queued"

(* nack(requeue=False): dropped, or dead-lettered.                         *)
Refusal == "dropped"

(* An ack or a nack counts if the broker still waits for it.               *)
Settle(m, verdict) ==
    broker' = [broker EXCEPT ![m] = IF @ = "unacked" THEN verdict ELSE @]

-----------------------------------------------------------------------------
(* A publisher sends a copy; its clock is at most Ahead of this one's.     *)
Publish(m) ==
    /\ broker[m] = "unpublished"
    /\ issuedAt[nonce[m]] <= clock + Ahead
    /\ broker' = [broker EXCEPT ![m] = "queued"]
    /\ UNCHANGED <<message, handler, seen, clock, losses>>

(* A delivery passes every check: its nonce is recorded, then the handler  *)
(* is awaited.                                                             *)
Accept(m) ==
    /\ broker[m] = "queued"
    /\ Fresh(m)
    /\ broker' = [broker EXCEPT ![m] = "unacked"]
    /\ seen' = Recorded(m)
    /\ handling' = [handling EXCEPT ![m] = @ + 1]
    /\ starts' = [starts EXCEPT ![nonce[m]] = @ + 1]
    /\ UNCHANGED <<message, ended, clock, losses>>

(* A delivery is refused, at the first check it fails.                     *)
Refuse(m) ==
    /\ broker[m] = "queued"
    /\ ~Fresh(m)
    /\ broker' = [broker EXCEPT ![m] = Refusal]
    /\ seen' = IF ReachesStore(m) THEN Recorded(m) ELSE seen
    /\ UNCHANGED <<message, handler, clock, losses>>

(* The handler returns: ack; it raises ErrDrop: nack; it raises anything   *)
(* else: nack with requeue.                                                *)
AnswerTo == [ok |-> "acked", drop |-> "dropped", transient |-> "queued"]

HandlerEnds(m) ==
    /\ handling[m] > 0
    /\ handling' = [handling EXCEPT ![m] = @ - 1]
    /\ \E how \in {"ok", "drop", "transient"} :
          /\ ended' = [ended EXCEPT ![nonce[m]] = how]
          /\ Settle(m, AnswerTo[how])
    /\ UNCHANGED <<message, starts, seen, clock, losses>>

(* The connection is lost: the broker takes back every delivery it has no  *)
(* answer to, while the handlers that are running run on.                  *)
ConnectionLost ==
    /\ losses < MaxLosses
    /\ losses' = losses + 1
    /\ broker' = [m \in Copies |-> IF broker[m] = "unacked" THEN "queued" ELSE broker[m]]
    /\ UNCHANGED <<message, handler, seen, clock>>

Tick ==
    /\ clock < MaxClock
    /\ clock' = clock + 1
    /\ UNCHANGED <<message, broker, handler, seen, losses>>

Deliver(m) == Accept(m) \/ Refuse(m)

Next ==
    \/ Tick \/ ConnectionLost
    \/ \E m \in Copies : Publish(m) \/ Deliver(m) \/ HandlerEnds(m)

Spec == Init /\ [][Next]_vars

(* The broker delivers what it holds, and handlers end.                    *)
FairSpec ==
    Spec /\ \A m \in Copies : WF_vars(Deliver(m)) /\ WF_vars(HandlerEnds(m))

-----------------------------------------------------------------------------
(* The type invariant; an entry of the store expires within two skews.     *)
TypeOK ==
    /\ nonce \in [Copies -> Nonces]
    /\ issuedAt \in [Nonces -> 0 .. MaxClock]
    /\ genuine \subseteq Copies
    /\ broker \in [Copies -> {"unpublished", "queued", "unacked", "acked", "dropped"}]
    /\ handling \in [Copies -> Nat]
    /\ starts \in [Nonces -> Nat]
    /\ ended \in [Nonces -> {"none", "ok", "drop", "transient"}]
    /\ seen \in [Nonces -> 0 .. MaxClock + 2 * Skew]
    /\ clock \in 0 .. MaxClock
    /\ losses \in 0 .. MaxLosses

(* The handler is given a nonce at most once, through redeliveries, copies *)
(* and concurrent deliveries: an entry outlives the freshness of its       *)
(* message (NonceStore, "sized to cover the freshness window").            *)
HandledOnce == \A n \in Nonces : starts[n] <= 1

(* A genuine message is dropped unseen by the handler only for its age: a  *)
(* delivery that is refused for another reason takes no nonce with it      *)
(* (validate_freshness, "MUST only be called after verify_hmac").          *)
DroppedForCause ==
    \A m \in genuine :
        broker[m] = "dropped" /\ starts[nonce[m]] = 0
            => clock > issuedAt[nonce[m]] + Skew

(* "Any OTHER exception raised by the handler is treated as transient and  *)
(* nacks WITH requeue": the message is not dropped (ErrDrop).              *)
TransientIsRetried ==
    \A m \in Copies :
        broker[m] = "dropped" => ended[nonce[m]] # "transient"

(* Every copy that is published is settled for good: no delivery goes      *)
(* round and round in the queue.                                           *)
AllSettled ==
    \A m \in Copies : broker[m] = "queued" ~> broker[m] \in {"acked", "dropped"}
=============================================================================
