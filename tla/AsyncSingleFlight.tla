------------------------- MODULE AsyncSingleFlight --------------------------
(* _AsyncSingleFlight of _oidc.py: coroutines of one event loop that call  *)
(* oidc_refresh share one task per attempt, which each awaits through a    *)
(* shield.  The slot is cleared by a done callback of the task, which the  *)
(* loop runs some time after the task has ended.  A task is named by the   *)
(* coroutine that created it.                                              *)
EXTENDS CoalescerCalls

CONSTANTS Cancellable   \* the coroutines whose caller may cancel them

ASSUME CancellableAssumption == Cancellable \subseteq Callers

VARIABLES
    pc,        \* where each coroutine is
    pending,   \* _pending: the task in the slot, or NoFlight
    task,      \* the state of the task each coroutine created
    callback,  \* the tasks whose done callback _vacate is still to run
    member,    \* the task each coroutine awaits
    got        \* how run() ended in each coroutine

vars == <<pc, pending, task, callback, member, got>>

Init ==
    /\ pc = [c \in Callers |-> "start"]
    /\ pending = NoFlight
    /\ task = [c \in Callers |-> "none"]
    /\ callback = {}
    /\ member = [c \in Callers |-> NoFlight]
    /\ got = [c \in Callers |-> "none"]

Outcomes == {"ok", "failed"}
Ended    == Outcomes \cup {"cancelled"}

(* Mutant: only a task that is running is joined.                          *)
Joinable_Running == pending # NoFlight /\ task[pending] = "running"

(* The test at the head of _claim_or_join: a task that has settled and is  *)
(* still in the slot is joined, a cancelled one is not.                    *)
Joinable == pending # NoFlight /\ task[pending] # "cancelled"

(* _vacate clears the slot only if it still holds the task it belongs to.  *)
Vacated(t) == IF pending = t THEN NoFlight ELSE pending

(* Mutant: the task is awaited bare, so that its waiter's cancellation     *)
(* reaches it.                                                             *)
TornDownBy_Bare(c) == {t \in {member[c]} : task[t] = "running"}

(* asyncio.shield: a caller's cancellation reaches no task.                *)
TornDownBy(c) == {}

-----------------------------------------------------------------------------
(* _claim_or_join, one synchronous step.                                   *)
Lead(c) ==
    /\ pc[c] = "start"
    /\ ~Joinable
    /\ task' = [task EXCEPT ![c] = "running"]
    /\ pending' = c
    /\ member' = [member EXCEPT ![c] = c]
    /\ pc' = [pc EXCEPT ![c] = "awaiting"]
    /\ UNCHANGED <<callback, got>>

Join(c) ==
    /\ pc[c] = "start"
    /\ Joinable
    /\ member' = [member EXCEPT ![c] = pending]
    /\ pc' = [pc EXCEPT ![c] = "awaiting"]
    /\ UNCHANGED <<pending, task, callback, got>>

(* The task ends: fn() returned or raised, or the task was cancelled (by   *)
(* the loop's teardown, or because fn() was).                              *)
TaskEnds(t) ==
    /\ task[t] = "running"
    /\ \E o \in Ended : task' = [task EXCEPT ![t] = o]
    /\ callback' = callback \cup {t}
    /\ UNCHANGED <<pc, pending, member, got>>

(* The loop runs the first done callback of the task.                      *)
Vacate(t) ==
    /\ t \in callback
    /\ pending' = Vacated(t)
    /\ callback' = callback \ {t}
    /\ UNCHANGED <<pc, task, member, got>>

(* A participant resumes: its shield was registered after _vacate.         *)
Resume(c) ==
    /\ pc[c] = "awaiting"
    /\ task[member[c]] \in Ended
    /\ member[c] \notin callback
    /\ got' = [got EXCEPT ![c] = task[member[c]]]
    /\ pc' = [pc EXCEPT ![c] = "done"]
    /\ UNCHANGED <<pending, task, callback, member>>

(* The caller of c cancels it while it awaits.                             *)
Cancel(c) ==
    /\ c \in Cancellable
    /\ pc[c] = "awaiting"
    /\ task' = [t \in Callers |-> IF t \in TornDownBy(c) THEN "cancelled" ELSE task[t]]
    /\ callback' = callback \cup TornDownBy(c)
    /\ got' = [got EXCEPT ![c] = "cancelled"]
    /\ pc' = [pc EXCEPT ![c] = "left"]
    /\ UNCHANGED <<pending, member>>

LoopStep(c) == Lead(c) \/ Join(c) \/ TaskEnds(c) \/ Vacate(c) \/ Resume(c)

Next == \E c \in Callers : LoopStep(c) \/ Cancel(c)

Spec == Init /\ [][Next]_vars

-----------------------------------------------------------------------------
(* The type invariant; the slot of _pending holds a task or nothing.       *)
TypeOK ==
    /\ pc \in [Callers -> {"start", "awaiting", "done", "left"}]
    /\ pending \in Callers \cup {NoFlight}
    /\ task \in [Callers -> {"none", "running"} \cup Ended]
    /\ callback \subseteq Callers
    /\ member \in [Callers -> Callers \cup {NoFlight}]
    /\ got \in [Callers -> {"none"} \cup Ended]

(* At most one task has a wire call in flight, and it can be joined.       *)
OneLiveTask == \A t \in Callers : task[t] = "running" => pending = t

(* A callback that runs late, after a newer attempt took the slot, leaves  *)
(* that attempt's entry alone (rule 6c).                                   *)
OnlyOwnerVacates ==
    [][\A t \in Callers :
          pending = t /\ pending' = NoFlight => t \in callback /\ t \notin callback']_vars

(* Cancelling a caller is nobody else's business: no task ends by it, so   *)
(* every other participant still gets the attempt's own outcome.           *)
CancelIsPrivate ==
    [][\A c \in Callers : pc[c] = "awaiting" /\ pc'[c] = "left" => task' = task]_vars

(* A caller that arrives after some participant was answered does not get  *)
(* that attempt's outcome (rule 6d).                                       *)
LateCallersLead ==
    [][\A c, d \in Callers :
          /\ pc[c] = "start" /\ pc'[c] = "awaiting"
          /\ pc[d] = "done"
          => member'[c] # member[d]]_vars

(* The coalescer implements its promise: a cancelled task in the slot is   *)
(* no attempt to join.                                                     *)
OpenAttempt   == IF Joinable THEN pending ELSE NoFlight
AttemptStatus == [c \in Callers |-> IF task[c] = "running" THEN "live" ELSE task[c]]

Promise == INSTANCE Coalescer WITH
    current <- OpenAttempt, flight <- member, status <- AttemptStatus, answer <- got

(* Every behaviour of _AsyncSingleFlight is one that Coalescer allows: one *)
(* attempt at a time, shared by those who overlap it (CONTRACT.md 9, rule  *)
(* 2).                                                                     *)
Implements == Promise!Spec
=============================================================================
