-------------------------- MODULE SyncSingleFlight --------------------------
(* _SyncSingleFlight and _SyncFlight of _oidc.py: threads that call        *)
(* oidc_refresh elect one leader under a lock; the others block on the     *)
(* leader's publication.  An attempt (a _SyncFlight) is named by its       *)
(* leader.                                                                 *)
EXTENDS CoalescerCalls, Naturals, Sequences

VARIABLES
    pc,        \* where each thread is
    slot,      \* _in_flight
    joined,    \* the attempt each thread leads or waits for
    wire,      \* what the wire call of each leader came to
    outcome,   \* result/exc of each publication
    settled,   \* the publications whose event is set
    unwound,   \* how many of the Unwinding steps each leader has taken
    got        \* what run() returned or raised in each thread

vars == <<pc, slot, joined, wire, outcome, settled, unwound, got>>

Outcomes == {"ok", "failed"}

Init ==
    /\ pc = [c \in Callers |-> "start"]
    /\ slot = NoFlight
    /\ joined = [c \in Callers |-> NoFlight]
    /\ wire = [c \in Callers |-> "none"]
    /\ outcome = [c \in Callers |-> "none"]
    /\ settled = {}
    /\ unwound = [c \in Callers |-> 0]
    /\ got = [c \in Callers |-> "none"]

(* Mutant: the slot is cleared first.                                      *)
Unwinding_VacateFirst == <<"vacate", "write", "settle">>

(* The order of publish() and _publish_then_vacate(): the outcome is       *)
(* assigned, the event is set, the slot is cleared.                        *)
Unwinding == <<"write", "settle", "vacate">>

(* The slot after c has vacated: only c's own entry is cleared.            *)
Vacated(c) == IF slot = c THEN NoFlight ELSE slot

(* Mutant: a failure unwinds without publishing.                           *)
FirstStep_FailureSilent(c) == IF wire[c] = "failed" THEN 2 ELSE 0

(* Both the `except` and the normal path begin with the first step.        *)
FirstStep(c) == 0

(* The head of run(): find the slot empty and claim it, or join.           *)
Claim(c) ==
    /\ pc[c] = "start"
    /\ slot = NoFlight
    /\ slot' = c
    /\ joined' = [joined EXCEPT ![c] = c]
    /\ pc' = [pc EXCEPT ![c] = "leading"]
    /\ UNCHANGED <<wire, outcome, settled, unwound, got>>

Join(c) ==
    /\ pc[c] = "start"
    /\ slot # NoFlight
    /\ joined' = [joined EXCEPT ![c] = slot]
    /\ pc' = [pc EXCEPT ![c] = "waiting"]
    /\ UNCHANGED <<slot, wire, outcome, settled, unwound, got>>

(* fn() returns, or raises.                                                *)
WireEnds(c) ==
    /\ pc[c] = "leading"
    /\ \E o \in Outcomes : wire' = [wire EXCEPT ![c] = o]
    /\ pc' = [pc EXCEPT ![c] = "unwinding"]
    /\ UNCHANGED <<slot, joined, outcome, settled, unwound, got>>

(* One step of publish() or of _publish_then_vacate().                     *)
Unwind(c) ==
    /\ pc[c] = "unwinding"
    /\ \E n \in 1 .. Len(Unwinding) :
          /\ n = 1 + (IF unwound[c] = 0 THEN FirstStep(c) ELSE unwound[c])
          /\ unwound' = [unwound EXCEPT ![c] = n]
          /\ outcome' = IF Unwinding[n] = "write"
                           THEN [outcome EXCEPT ![c] = wire[c]] ELSE outcome
          /\ settled' = IF Unwinding[n] = "settle" THEN settled \cup {c} ELSE settled
          /\ slot' = IF Unwinding[n] = "vacate" THEN Vacated(c) ELSE slot
    /\ UNCHANGED <<pc, joined, wire, got>>

(* The leader returns its own result, or re-raises.                        *)
LeaderReturns(c) ==
    /\ pc[c] = "unwinding"
    /\ unwound[c] = Len(Unwinding)
    /\ got' = [got EXCEPT ![c] = wire[c]]
    /\ pc' = [pc EXCEPT ![c] = "done"]
    /\ UNCHANGED <<slot, joined, wire, outcome, settled, unwound>>

(* A waiter is released by the event of the attempt it joined.             *)
WaiterReturns(c) ==
    /\ pc[c] = "waiting"
    /\ joined[c] \in settled
    /\ got' = [got EXCEPT ![c] = outcome[joined[c]]]
    /\ pc' = [pc EXCEPT ![c] = "done"]
    /\ UNCHANGED <<slot, joined, wire, outcome, settled, unwound>>

Step(c) ==
    \/ Claim(c) \/ Join(c) \/ WireEnds(c) \/ Unwind(c)
    \/ LeaderReturns(c) \/ WaiterReturns(c)

Next == \E c \in Callers : Step(c)

Spec == Init /\ [][Next]_vars

(* Threads are scheduled, and a wire call ends: every request has a        *)
(* timeout.                                                                *)
FairSpec == Spec /\ \A c \in Callers : WF_vars(Step(c))

-----------------------------------------------------------------------------
Places == {"start", "leading", "waiting", "unwinding", "done"}

(* The type invariant; a leader takes each step of its unwinding once.     *)
TypeOK ==
    /\ pc \in [Callers -> Places]
    /\ slot \in Callers \cup {NoFlight}
    /\ joined \in [Callers -> Callers \cup {NoFlight}]
    /\ wire \in [Callers -> {"none"} \cup Outcomes]
    /\ outcome \in [Callers -> {"none"} \cup Outcomes]
    /\ settled \subseteq Callers
    /\ unwound \in [Callers -> 0 .. 3]
    /\ got \in [Callers -> {"none"} \cup Outcomes]

(* Everybody who took part in an attempt is given what its one wire call   *)
(* came to, and never a half-written publication (CONTRACT.md 9 rule 2).   *)
SharesOutcome ==
    \A c \in Callers : pc[c] = "done" => got[c] = wire[joined[c]]

(* There is no instant at which the slot is empty while an attempt has     *)
(* ended and not published: nobody starts a wire call then (rule 6a).      *)
PublishBeforeVacate ==
    \A c \in Callers :
        pc[c] \in {"leading", "unwinding"} /\ c \notin settled => slot = c

(* A caller that arrives after the leader of an attempt has returned does  *)
(* not get that attempt's outcome (rule 6d).                               *)
LateCallersLead ==
    [][\A c \in Callers :
          pc[c] = "start" /\ pc'[c] = "waiting" => pc[joined'[c]] # "done"]_vars

(* Every caller is answered, whatever the wire call came to.               *)
AllAnswered == \A c \in Callers : <>(pc[c] = "done")

(* An attempt is settled from the moment its event is set.                 *)
AttemptStatus ==
    [c \in Callers |-> IF joined[c] # c THEN "none"
                       ELSE IF c \in settled THEN outcome[c] ELSE "live"]

Promise == INSTANCE Coalescer WITH
    current <- slot, flight <- joined, status <- AttemptStatus, answer <- got

(* Every behaviour of _SyncSingleFlight is one that Coalescer allows: one  *)
(* attempt at a time, shared by those who overlap it (CONTRACT.md 9, rule  *)
(* 2).                                                                     *)
Implements == Promise!Spec
=============================================================================
