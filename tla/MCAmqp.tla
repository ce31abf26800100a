------------------------------ MODULE MCAmqp -------------------------------
(* The two receivers of signed AMQP messages: the event consumer and the   *)
(* reactor. They share no state - each has its own connection and nonce    *)
(* store - so one behaviour is one of the two, chosen at the start. Two    *)
(* copies of one message, or two messages, and one lost connection are     *)
(* enough for a redelivery to race its first handler.                      *)
EXTENDS AmqpConsumer, TLC

CONSTANTS m1, m2, n1, n2, e1, e2, Events, Window, Grace

VARIABLES
    part,
    serve, alive, stop, grace, kind, rbroker, task, window, rseen, rstarts, truncated

reactor == <<serve, alive, stop, grace, kind, rbroker, task, window, rseen,
             rstarts, truncated>>
mcvars == <<part, vars, reactor>>

Reactor == INSTANCE Reactor WITH broker <- rbroker, seen <- rseen, starts <- rstarts

MCInit ==
    /\ part \in {"consumer", "reactor"}
    /\ Init /\ Reactor!Init
    /\ IF part = "consumer"
          THEN kind = [e \in Events |-> "good"]
          ELSE /\ nonce = [m \in Copies |-> n1]
               /\ issuedAt = [n \in Nonces |-> 0]
               /\ genuine = {}

ConsumerPart == part = "consumer" /\ Next /\ UNCHANGED <<part, reactor>>
ReactorPart == part = "reactor" /\ Reactor!Next /\ UNCHANGED <<part, vars>>

MCNext == ConsumerPart \/ ReactorPart

(* The fairness of FairSpec and of Reactor!FairSpec.                       *)
MCSpec ==
    /\ MCInit /\ [][MCNext]_mcvars
    /\ \A m \in Copies :
          /\ WF_mcvars(part = "consumer" /\ Deliver(m) /\ UNCHANGED <<part, reactor>>)
          /\ WF_mcvars(part = "consumer" /\ HandlerEnds(m) /\ UNCHANGED <<part, reactor>>)
    /\ WF_mcvars(part = "reactor" /\ Reactor!Tick /\ UNCHANGED <<part, vars>>)
    /\ WF_mcvars(part = "reactor" /\ Reactor!DrainEnds /\ UNCHANGED <<part, vars>>)
    /\ \A e \in Events :
          WF_mcvars(part = "reactor" /\ Reactor!HandlerFails(e) /\ UNCHANGED <<part, vars>>)

-----------------------------------------------------------------------------
(* Of the reactor: the handler is given an event at most once, through     *)
(* redeliveries and sessions (the store outlives a session).               *)
OncePerEvent == Reactor!OncePerEvent

(* Of the reactor: a cancelled reactor stops, however long its handlers    *)
(* run (drain_grace_seconds).                                              *)
StopsWhenCancelled == part = "reactor" => Reactor!StopsWhenCancelled
=============================================================================
