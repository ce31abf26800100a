----------------------------- MODULE Coalescer ------------------------------
(* What _oidc.py promises of the two single-flight coalescers that sit in  *)
(* front of oidc_refresh (CONTRACT.md section 9, rules 2 and 6): callers   *)
(* that overlap share one attempt and its outcome, at most one attempt is  *)
(* live, and a caller that arrives once the attempt is closed leads one of *)
(* its own. An attempt is named by the caller that leads it.               *)
CONSTANTS Callers, NoFlight

VARIABLES
    current,   \* the attempt that callers join, or NoFlight
    flight,    \* the attempt each caller takes part in, or NoFlight
    status,    \* of the attempt each caller leads
    answer     \* what each caller was answered

vars == <<current, flight, status, answer>>

Outcomes == {"ok", "failed"}
Answers  == Outcomes \cup {"cancelled"}

TypeOK ==
    /\ current \in Callers \cup {NoFlight}
    /\ flight \in [Callers -> Callers \cup {NoFlight}]
    /\ status \in [Callers -> {"none", "live"} \cup Answers]
    /\ answer \in [Callers -> {"none"} \cup Answers]

Init ==
    /\ current = NoFlight
    /\ flight = [c \in Callers |-> NoFlight]
    /\ status = [c \in Callers |-> "none"]
    /\ answer = [c \in Callers |-> "none"]

(* No attempt is open: c starts one.                                       *)
Lead(c) ==
    /\ flight[c] = NoFlight
    /\ current = NoFlight
    /\ flight' = [flight EXCEPT ![c] = c]
    /\ status' = [status EXCEPT ![c] = "live"]
    /\ current' = c
    /\ UNCHANGED answer

(* c takes part in the open attempt, settled or not.                       *)
Join(c) ==
    /\ flight[c] = NoFlight
    /\ current # NoFlight
    /\ flight' = [flight EXCEPT ![c] = current]
    /\ UNCHANGED <<current, status, answer>>

(* The wire call of the attempt has its outcome, for everybody.            *)
Settle(f, outcome) ==
    /\ status[f] = "live"
    /\ status' = [status EXCEPT ![f] = outcome]
    /\ UNCHANGED <<current, flight, answer>>

(* The attempt is torn down without an outcome: it is open no longer.      *)
Abort(f) ==
    /\ status[f] = "live"
    /\ status' = [status EXCEPT ![f] = "cancelled"]
    /\ current' = NoFlight
    /\ UNCHANGED <<flight, answer>>

(* The open attempt is closed, and only after it has settled.              *)
Close ==
    /\ current # NoFlight
    /\ status[current] \in Outcomes
    /\ current' = NoFlight
    /\ UNCHANGED <<flight, status, answer>>

(* A participant is given the outcome of its own attempt ...               *)
Answer(c) ==
    /\ flight[c] # NoFlight
    /\ answer[c] = "none"
    /\ status[flight[c]] \in Answers
    /\ answer' = [answer EXCEPT ![c] = status[flight[c]]]
    /\ UNCHANGED <<current, flight, status>>

(* ... or is itself cancelled, which touches nobody else.                  *)
Leave(c) ==
    /\ flight[c] # NoFlight
    /\ answer[c] = "none"
    /\ answer' = [answer EXCEPT ![c] = "cancelled"]
    /\ UNCHANGED <<current, flight, status>>

Next ==
    \/ Close
    \/ \E c \in Callers :
          \/ Lead(c) \/ Join(c) \/ Abort(c) \/ Answer(c) \/ Leave(c)
          \/ \E outcome \in Outcomes : Settle(c, outcome)

Spec == Init /\ [][Next]_vars
=============================================================================
