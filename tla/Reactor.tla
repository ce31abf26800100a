------------------------------ MODULE Reactor -------------------------------
(* reactor_serve (amqp/_reactor.py): sessions with the broker, one task    *)
(* for each delivery, reconnection and the drain.  Time is what is left of *)
(* each timer, so that nothing bounds a run.  aio-pika and the broker are  *)
(* external: they may lose the connection and restore it in the same       *)
(* session, and a reply or an ack may hang for ever.  That nonces expire   *)
(* is left to AmqpConsumer.                                                *)
EXTENDS Naturals

CONSTANTS
    Events,
    Window,  \* timeout_ms
    Grace    \* drain_grace_seconds

VARIABLES
    serve,     \* where reactor_serve is
    alive,     \* the connection is up
    stop,      \* the calling task has been cancelled
    grace,     \* what is left of the drain's grace
    kind,      \* of each event: good, bad (refused by verify_event), foreign
    broker,    \* what the broker did with each event
    task,      \* where the dispatch of each event is
    window,    \* what is left of its window
    seen,      \* the nonces in the store
    starts,    \* history: how often the handler was given each event
    truncated  \* history: dispatches cut off before the grace was over

session == <<serve, alive, stop, grace>>
dispatch == <<task, window, seen, starts, truncated>>
vars == <<session, kind, broker, dispatch>>

Init ==
    /\ serve = "dialing" /\ alive = FALSE /\ stop = FALSE /\ grace = 0
    /\ kind \in [Events -> {"good", "bad", "foreign"}]
    /\ broker = [e \in Events |-> "unpublished"]
    /\ task = [e \in Events |-> "none"]
    /\ window = [e \in Events |-> 0]
    /\ seen = {}
    /\ starts = [e \in Events |-> 0]
    /\ truncated = {}

InFlight == {e \in Events : task[e] # "none"}

Goto(e, place) == task' = [task EXCEPT ![e] = place]

(* What the broker does when a connection ends: it takes back whatever it  *)
(* has no answer to.                                                       *)
TakenBack ==
    [e \in Events |-> IF broker[e] = "unacked" THEN "queued" ELSE broker[e]]

-----------------------------------------------------------------------------
Publish(e) ==
    /\ broker[e] = "unpublished"
    /\ broker' = [broker EXCEPT ![e] = "queued"]
    /\ UNCHANGED <<session, kind, dispatch>>

(* Mutant: each session has a nonce store of its own.                      *)
Store_PerSession == {}

(* The store that a session starts with: that of the whole consumer.       *)
Store == seen

Dial ==
    /\ serve = "dialing"
    /\ serve' = "consuming"
    /\ alive' = TRUE
    /\ seen' = Store
    /\ UNCHANGED <<stop, grace, kind, broker, task, window, starts, truncated>>

DialFails ==
    /\ serve = "dialing"
    /\ serve' = "backoff"
    /\ UNCHANGED <<alive, stop, grace, kind, broker, dispatch>>

Reconnect ==
    /\ serve = "backoff"
    /\ serve' = "dialing"
    /\ UNCHANGED <<alive, stop, grace, kind, broker, dispatch>>

(* A delivery that passes every check: the handler is awaited, inside the  *)
(* window that the event declares.                                         *)
Accept(e) ==
    /\ serve = "consuming" /\ alive /\ broker[e] = "queued"
    /\ kind[e] = "good" /\ e \notin seen
    /\ broker' = [broker EXCEPT ![e] = "unacked"]
    /\ seen' = seen \cup {e}
    /\ starts' = [starts EXCEPT ![e] = @ + 1]
    /\ window' = [window EXCEPT ![e] = Window]
    /\ Goto(e, "handling")
    /\ UNCHANGED <<session, kind, truncated>>

(* _reject, without requeue: only what verify_event let through reaches    *)
(* the store, and it is recorded there before its tenant is looked at.     *)
Refuse(e) ==
    /\ serve = "consuming" /\ alive /\ broker[e] = "queued"
    /\ kind[e] # "good" \/ e \in seen
    /\ broker' = [broker EXCEPT ![e] = "settled"]
    /\ seen' = IF kind[e] = "bad" THEN seen ELSE seen \cup {e}
    /\ UNCHANGED <<session, kind, task, window, starts, truncated>>

(* The handler returns a decision, which goes out if it may be sent and    *)
(* its window is still open.                                               *)
HandlerDecides(e) ==
    /\ task[e] = "handling"
    /\ \/ window[e] > 0 /\ Goto(e, "replying")
       \/ Goto(e, "acking")
    /\ UNCHANGED <<session, kind, broker, window, seen, starts, truncated>>

(* It raises, or outruns its window: no reply.                             *)
HandlerFails(e) ==
    /\ task[e] = "handling"
    /\ Goto(e, "acking")
    /\ UNCHANGED <<session, kind, broker, window, seen, starts, truncated>>

(* publish_reply returns or raises; the delivery is acked either way.      *)
Replied(e) ==
    /\ task[e] = "replying"
    /\ Goto(e, "acking")
    /\ UNCHANGED <<session, kind, broker, window, seen, starts, truncated>>

(* The ack, which does not reach the broker over a lost connection.        *)
Ack(e) ==
    /\ task[e] = "acking"
    /\ Goto(e, "none")
    /\ broker' = [broker EXCEPT
                     ![e] = IF @ = "unacked" /\ alive THEN "settled" ELSE @]
    /\ UNCHANGED <<session, kind, window, seen, starts, truncated>>

-----------------------------------------------------------------------------
ConnectionLost ==
    /\ serve \in {"consuming", "draining"} /\ alive
    /\ alive' = FALSE
    /\ broker' = TakenBack
    /\ UNCHANGED <<serve, stop, grace, kind, dispatch>>

(* The library connects again by itself.                                   *)
Restored ==
    /\ serve = "consuming" /\ ~alive
    /\ alive' = TRUE
    /\ UNCHANGED <<serve, stop, grace, kind, broker, dispatch>>

(* The iterator of deliveries ends, and the finally clause begins to wait. *)
SessionEnds ==
    /\ serve = "consuming" /\ ~alive
    /\ serve' = "draining"
    /\ grace' = Grace
    /\ UNCHANGED <<alive, stop, kind, broker, dispatch>>

(* Mutant: the drain has no timeout.                                       *)
Drained_NoGrace == InFlight = {}

(* The wait for the dispatches is over: they are done, or the grace is.    *)
Drained == InFlight = {} \/ grace = 0

(* What wait_for leaves of the dispatches: it cancels those that outlast   *)
(* the grace, and waits until they are done.                               *)
Joined == [e \in Events |-> "none"]

(* The drain ends and the transport is closed.                             *)
DrainEnds ==
    /\ serve = "draining"
    /\ Drained
    /\ serve' = IF stop THEN "stopped" ELSE "backoff"
    /\ alive' = FALSE
    /\ broker' = TakenBack
    /\ task' = Joined
    /\ truncated' = IF grace > 0 THEN truncated \cup InFlight ELSE truncated
    /\ UNCHANGED <<stop, grace, kind, window, seen, starts>>

(* The calling task is cancelled.  While deliveries are consumed, that     *)
(* starts the drain; a drain that is under way is itself cancelled, and    *)
(* with it the dispatches, and the transport is not closed.                *)
Cancel ==
    /\ ~stop
    /\ stop' = TRUE
    /\ IF serve = "consuming"
          THEN /\ serve' = "draining" /\ grace' = Grace
               /\ UNCHANGED <<task, truncated>>
          ELSE /\ serve' = "stopped"
               /\ task' = Joined /\ truncated' = truncated \cup InFlight
               /\ UNCHANGED grace
    /\ UNCHANGED <<alive, kind, broker, window, seen, starts>>

(* Time passes; a timer that has run out fires before it goes on.          *)
Tick ==
    /\ \A e \in Events : task[e] = "handling" => window[e] > 0
    /\ serve = "draining" => grace > 0
    /\ \/ serve = "draining"
       \/ \E e \in Events : task[e] = "handling"
    /\ window' = [e \in Events |->
                     IF task[e] = "handling" THEN window[e] - 1 ELSE window[e]]
    /\ grace' = IF serve = "draining" THEN grace - 1 ELSE grace
    /\ UNCHANGED <<serve, alive, stop, kind, broker, task, seen, starts, truncated>>

Broker(e) == Publish(e)
Dispatch(e) ==
    Accept(e) \/ Refuse(e) \/ HandlerDecides(e) \/ HandlerFails(e)
    \/ Replied(e) \/ Ack(e)
Session == Dial \/ DialFails \/ Reconnect \/ ConnectionLost \/ Restored
           \/ SessionEnds \/ DrainEnds \/ Cancel

Next == Tick \/ Session \/ \E e \in Events : Broker(e) \/ Dispatch(e)

(* Timers run out and fire; nothing is assumed of the network.             *)
Fairness ==
    /\ WF_vars(Tick) /\ WF_vars(DrainEnds)
    /\ \A e \in Events : WF_vars(HandlerFails(e))

Spec == Init /\ [][Next]_vars

FairSpec == Spec /\ Fairness

-----------------------------------------------------------------------------
TypeOK ==
    /\ serve \in {"dialing", "backoff", "consuming", "draining", "stopped"}
    /\ alive \in BOOLEAN /\ stop \in BOOLEAN /\ grace \in 0 .. Grace
    /\ kind \in [Events -> {"good", "bad", "foreign"}]
    /\ broker \in [Events -> {"unpublished", "queued", "unacked", "settled"}]
    /\ task \in [Events -> {"none", "handling", "replying", "acking"}]
    /\ window \in [Events -> 0 .. Window]
    /\ seen \subseteq Events /\ truncated \subseteq Events
    /\ starts \in [Events -> Nat]

(* The handler is given an event at most once, whatever is delivered again *)
(* in the same session or in a later one, after a handler that was cut off *)
(* as after an ack that was lost.                                          *)
OncePerEvent == \A e \in Events : starts[e] <= 1

(* A cancelled reactor returns, whatever the handlers and the network do.  *)
StopsWhenCancelled == stop ~> serve = "stopped"

(* What _run_session promises: in-flight dispatches are drained before it  *)
(* returns, "on every path".                                               *)
DrainedOnEveryPath == truncated = {}
=============================================================================
