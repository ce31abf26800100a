----------------------------- MODULE OidcProofs -----------------------------
(* What the SDK does as a relying party, for any number of coroutines,     *)
(* threads, workers and logins and any durations: both coalescers          *)
(* implement Coalescer, the waits for a grant keep the server's times and  *)
(* the deadline, and a login state is good for one exchange.               *)
EXTENDS MCOidc, Integers, TLAPS

(* A coroutine that has arrived awaits a task that exists.                 *)
MemberInv ==
    \A c \in Callers :
        /\ pc[c] = "start" => member[c] = NoFlight /\ task[c] = "none"
        /\ pc[c] # "start" => member[c] \in Callers /\ task[member[c]] # "none"
        /\ pc[c] \in {"start", "awaiting"} <=> got[c] = "none"

(* The slot never names a task that was not created, and an ended task in  *)
(* it has its callback to come.                                            *)
SlotInv ==
    pending # NoFlight =>
        /\ task[pending] # "none"
        /\ task[pending] \in Ended => pending \in callback

(* The task of a coroutine that was answered has left the slot for good.   *)
AnsweredInv ==
    \A c \in Callers : pc[c] = "done" =>
        task[member[c]] \in Ended /\ member[c] \notin callback /\ pending # member[c]

IInv == TypeOK /\ MemberInv /\ SlotInv /\ OneLiveTask /\ AnsweredInv
             /\ \A t \in callback : task[t] \in Ended

(* A new _AsyncSingleFlight, with an empty slot, satisfies the invariant.  *)
LEMMA InitIInv == Init => IInv
  BY DEF Init, IInv, TypeOK, MemberInv, SlotInv, AnsweredInv, OneLiveTask, Ended

(* Claiming, joining, ending, vacating, resuming and being cancelled all   *)
(* preserve the invariant.                                                 *)
LEMMA StepIInv ==
  ASSUME IInv, NEW c \in Callers, LoopStep(c) \/ Cancel(c)
  PROVE  IInv'
<1> USE NoFlightAssumption, CancellableAssumption
    DEF IInv, TypeOK, MemberInv, SlotInv, AnsweredInv, OneLiveTask, Ended, Outcomes
<1>1. CASE Lead(c)
  BY <1>1 DEF Lead, Joinable
<1>2. CASE Join(c)
  BY <1>2 DEF Join, Joinable
<1>3. CASE TaskEnds(c)
  BY <1>3 DEF TaskEnds
<1>4. CASE Vacate(c)
  BY <1>4 DEF Vacate, Vacated
<1>5. CASE Resume(c)
  BY <1>5 DEF Resume
<1>6. CASE Cancel(c)
  <2>1. task' = task /\ callback' = callback
    BY <1>6 DEF Cancel, TornDownBy
  <2> QED
    BY <1>6, <2>1 DEF Cancel
<1> QED
  BY <1>1, <1>2, <1>3, <1>4, <1>5, <1>6 DEF LoopStep

(* So does every step of the event loop.                                   *)
LEMMA NextIInv == IInv /\ [Next]_vars => IInv'
<1> SUFFICES ASSUME IInv, [Next]_vars PROVE IInv'
  OBVIOUS
<1>1. CASE Next
  BY <1>1, StepIInv DEF Next
<1>2. CASE UNCHANGED vars
  BY <1>2 DEF vars, IInv, TypeOK, MemberInv, SlotInv, AnsweredInv, OneLiveTask
<1> QED
  BY <1>1, <1>2

(* The inductive invariant of the async coalescer: one live task, the one  *)
(* in the slot, and callbacks only for tasks that have ended.              *)
THEOREM Invariance == Spec => []IInv
  BY InitIInv, NextIInv, PTL DEF Spec

(* At most one task has a wire call in flight: the one in the slot.        *)
THEOREM SingleWireCall == Spec => []OneLiveTask
<1>1. IInv => OneLiveTask
  BY DEF IInv
<1> QED
  BY <1>1, Invariance, PTL

(* Only an attempt's own callback empties the slot (rule 6c).              *)
THEOREM VacatedByOwner == Spec => OnlyOwnerVacates
<1> DEFINE Step ==
        \A t \in Callers :
            pending = t /\ pending' = NoFlight => t \in callback /\ t \notin callback'
<1>1. IInv /\ [Next]_vars => [Step]_vars
  <2> SUFFICES ASSUME IInv, Next PROVE Step
    OBVIOUS
  <2>1. PICK c \in Callers : LoopStep(c) \/ Cancel(c)
    BY DEF Next
  <2> QED
    BY <2>1, NoFlightAssumption
    DEF LoopStep, Lead, Join, TaskEnds, Vacate, Vacated, Resume, Cancel
<1> QED
  BY <1>1, Invariance, PTL DEF Spec, OnlyOwnerVacates

(* A cancelled caller takes no task with it (asyncio.shield).      *)
THEOREM CancelTearsDownNothing == Spec => CancelIsPrivate
<1> DEFINE Step ==
        \A c \in Callers : pc[c] = "awaiting" /\ pc'[c] = "left" => task' = task
<1>1. IInv /\ [Next]_vars => [Step]_vars
  <2> SUFFICES ASSUME IInv, Next PROVE Step
    OBVIOUS
  <2>1. PICK c \in Callers : LoopStep(c) \/ Cancel(c)
    BY DEF Next
  <2>2. CASE LoopStep(c)
    BY <2>1, <2>2
    DEF IInv, TypeOK, LoopStep, Lead, Join, TaskEnds, Vacate, Resume
  <2>3. CASE Cancel(c)
    BY <2>3 DEF IInv, TypeOK, Cancel, TornDownBy
  <2> QED
    BY <2>1, <2>2, <2>3
<1> QED
  BY <1>1, Invariance, PTL DEF Spec, CancelIsPrivate

(* A caller that arrives after a participant was answered never gets that  *)
(* attempt's outcome (rule 6d).                                            *)
THEOREM LateCallersAreApart == Spec => LateCallersLead
<1> DEFINE Step ==
        \A c, d \in Callers :
            /\ pc[c] = "start" /\ pc'[c] = "awaiting"
            /\ pc[d] = "done"
            => member'[c] # member[d]
<1>1. IInv /\ [Next]_vars => [Step]_vars
  <2> SUFFICES ASSUME IInv, Next PROVE Step
    OBVIOUS
  <2>1. PICK c \in Callers : LoopStep(c) \/ Cancel(c)
    BY DEF Next
  <2> QED
    BY <2>1 DEF IInv, TypeOK, MemberInv, AnsweredInv, Ended, Outcomes, LoopStep,
                Lead, Join, TaskEnds, Vacate, Resume, Cancel
<1> QED
  BY <1>1, Invariance, PTL DEF Spec, LateCallersLead

-----------------------------------------------------------------------------
(* Every step of the event loop is a step of the promise, or none.         *)
LEMMA StepImplements ==
  ASSUME IInv, NEW c \in Callers, LoopStep(c) \/ Cancel(c)
  PROVE  Promise!Next \/ UNCHANGED Promise!vars
<1> USE NoFlightAssumption DEF Ended, Outcomes, Joinable
<1>a. TypeOK /\ MemberInv /\ SlotInv /\ OneLiveTask /\ \A t \in callback : task[t] \in Ended
  BY DEF IInv
<1>1. CASE Lead(c)
  <2>1. AttemptStatus' = [AttemptStatus EXCEPT ![c] = "live"]
    BY <1>a, <1>1 DEF Lead, TypeOK, AttemptStatus
  <2>2. OpenAttempt = NoFlight /\ OpenAttempt' = c
    BY <1>a, <1>1 DEF Lead, TypeOK, OpenAttempt
  <2>3. Promise!Lead(c)
    BY <1>a, <1>1, <2>1, <2>2 DEF Lead, MemberInv, Promise!Lead
  <2> QED
    BY <2>3 DEF Promise!Next
<1>2. CASE Join(c)
  <2>1. AttemptStatus' = AttemptStatus /\ OpenAttempt = pending /\ OpenAttempt' = pending
    BY <1>2 DEF Join, AttemptStatus, OpenAttempt
  <2>2. Promise!Join(c)
    BY <1>a, <1>2, <2>1 DEF Join, MemberInv, Promise!Join
  <2> QED
    BY <2>2 DEF Promise!Next
<1>3. CASE TaskEnds(c)
  <2>1. PICK o \in Ended : task' = [task EXCEPT ![c] = o]
    BY <1>3 DEF TaskEnds
  <2>2. pending = c /\ OpenAttempt = c /\ AttemptStatus[c] = "live"
    BY <1>a, <1>3 DEF TaskEnds, OneLiveTask, OpenAttempt, AttemptStatus
  <2>3. AttemptStatus' = [AttemptStatus EXCEPT ![c] = o]
    BY <1>a, <1>3, <2>1 DEF TaskEnds, TypeOK, AttemptStatus
  <2>4. CASE o = "cancelled"
    <3>1. OpenAttempt' = NoFlight
      BY <1>a, <1>3, <2>1, <2>2, <2>4 DEF TaskEnds, TypeOK, OpenAttempt
    <3>2. Promise!Abort(c)
      BY <1>3, <2>2, <2>3, <2>4, <3>1 DEF TaskEnds, Promise!Abort
    <3> QED
      BY <3>2 DEF Promise!Next
  <2>5. CASE o \in Promise!Outcomes
    <3>1. OpenAttempt' = OpenAttempt
      BY <1>a, <1>3, <2>1, <2>2, <2>5
      DEF TaskEnds, TypeOK, OpenAttempt, Promise!Outcomes
    <3>2. Promise!Settle(c, o)
      BY <1>3, <2>2, <2>3, <3>1 DEF TaskEnds, Promise!Settle
    <3> QED
      BY <2>5, <3>2, Zenon DEF Promise!Next
  <2> QED
    BY <2>4, <2>5 DEF Promise!Outcomes
<1>4. CASE Vacate(c)
  <2>1. AttemptStatus' = AttemptStatus /\ task[c] \in Ended
    BY <1>a, <1>4 DEF Vacate, AttemptStatus
  <2>2. CASE pending = c /\ task[c] # "cancelled"
    <3>1. OpenAttempt = c /\ OpenAttempt' = NoFlight
      BY <1>4, <2>2 DEF Vacate, Vacated, OpenAttempt
    <3>2. AttemptStatus[c] \in Promise!Outcomes
      BY <2>1, <2>2 DEF AttemptStatus, Promise!Outcomes
    <3>3. Promise!Close
      BY <1>4, <2>1, <3>1, <3>2 DEF Vacate, Promise!Close
    <3> QED
      BY <3>3 DEF Promise!Next
  <2>3. CASE ~(pending = c /\ task[c] # "cancelled")
    <3>1. OpenAttempt' = OpenAttempt
      BY <1>4, <2>3 DEF Vacate, Vacated, OpenAttempt
    <3> QED
      BY <1>4, <2>1, <3>1 DEF Vacate, Promise!vars
  <2> QED
    BY <2>2, <2>3
<1>5. CASE Resume(c)
  <2>1. AttemptStatus' = AttemptStatus /\ OpenAttempt' = OpenAttempt
    BY <1>5 DEF Resume, AttemptStatus, OpenAttempt
  <2>2. member[c] \in Callers /\ AttemptStatus[member[c]] = task[member[c]]
    BY <1>a, <1>5 DEF Resume, MemberInv, AttemptStatus
  <2>3. Promise!Answer(c)
    BY <1>a, <1>5, <2>1, <2>2
    DEF Resume, MemberInv, Promise!Answer, Promise!Answers, Promise!Outcomes
  <2> QED
    BY <2>3 DEF Promise!Next
<1>6. CASE Cancel(c)
  <2>1. task' = task
    BY <1>a, <1>6 DEF Cancel, TornDownBy, TypeOK
  <2>2. AttemptStatus' = AttemptStatus /\ OpenAttempt' = OpenAttempt
    BY <1>6, <2>1 DEF Cancel, AttemptStatus, OpenAttempt
  <2>3. Promise!Leave(c)
    BY <1>a, <1>6, <2>2 DEF Cancel, MemberInv, Promise!Leave
  <2> QED
    BY <2>3 DEF Promise!Next
<1> QED
  BY <1>1, <1>2, <1>3, <1>4, <1>5, <1>6 DEF LoopStep

(* _AsyncSingleFlight implements Coalescer.                                *)
THEOREM Refinement == Spec => Implements
<1>1. Init => Promise!Init
  BY DEF Init, Promise!Init, AttemptStatus, OpenAttempt, Joinable
<1>2. IInv /\ [Next]_vars => [Promise!Next]_Promise!vars
  <2> SUFFICES ASSUME IInv, [Next]_vars PROVE [Promise!Next]_Promise!vars
    OBVIOUS
  <2>1. CASE Next
    BY <2>1, StepImplements DEF Next
  <2>2. CASE UNCHANGED vars
    BY <2>2 DEF vars, Promise!vars, AttemptStatus, OpenAttempt, Joinable
  <2> QED
    BY <2>1, <2>2
<1> QED
  BY <1>1, <1>2, Invariance, PTL DEF Spec, Implements, Promise!Spec

-----------------------------------------------------------------------------
(* The parts that a step of MCOidc belongs to.                             *)
LEMMA Parts ==
    [MCNext]_mcvars =>
        /\ [Sync!Next]_Sync!vars /\ [Polling!Next]_polling /\ [Login!Next]_logins
  BY DEF MCNext, AsyncPart, SyncPart, PollingPart, LoginPart, mcvars, sync, Sync!vars

-----------------------------------------------------------------------------
(* The waits for a grant. The durations are naturals, and the interval is  *)
(* what the authorization named and every slow_down has added.             *)
PollingTypes ==
    /\ now \in Nat /\ wake \in Nat /\ sentAt \in Nat /\ earliest \in Nat
    /\ interval \in Nat /\ floor \in Nat /\ remaining \in Nat /\ slowed \in Nat
    /\ ppc \in {"user_code", "deciding", "sleeping", "sent", "done"}

IntervalInv == interval = Interval + Increment * slowed

(* Whoever is about to wait will wait long enough; a sleep ends before the *)
(* deadline, and not before the server expects a request.                  *)
DueInv ==
    /\ ppc = "user_code" => earliest = 0
    /\ ppc = "deciding" => earliest <= now + Polling!Wait
    /\ ppc = "sleeping" => now <= wake /\ earliest <= wake /\ wake < ExpiresIn
    /\ ppc = "sent" => earliest <= sentAt /\ sentAt < ExpiresIn

PollingInv == PollingTypes /\ IntervalInv /\ DueInv

(* Every slow_down counts for one increment.                               *)
LEMMA SlowedFacts ==
  ASSUME NEW n \in Nat
  PROVE  Increment * n \in Nat /\ Increment * (n + 1) = Increment * n + Increment
  BY DurationsAssumption

(* A wait is no shorter than the interval and the Retry-After, and what is *)
(* left never reaches past the deadline.                                   *)
LEMMA WaitFacts ==
  ASSUME PollingTypes
  PROVE  /\ Polling!Wait \in Nat
         /\ interval <= Polling!Wait /\ floor <= Polling!Wait
         /\ Polling!Remaining \in Nat
         /\ Polling!Remaining > 0 => now + Polling!Remaining <= ExpiresIn
  BY DurationsAssumption
  DEF PollingTypes, Polling!Wait, Polling!Longer, Polling!Remaining, Polling!Shorter

LEMMA PollingInit == Polling!Init => PollingInv
  BY DurationsAssumption
  DEF Polling!Init, PollingInv, PollingTypes, IntervalInv, DueInv,
      Polling!Wait, Polling!Longer

(* Every step of the caller, the endpoint, the user and the clock keeps    *)
(* the invariant.                                                          *)
LEMMA PollingStep == PollingInv /\ [Polling!Next]_polling => PollingInv'
<1> SUFFICES ASSUME PollingInv, [Polling!Next]_polling PROVE PollingInv'
  OBVIOUS
<1> USE DurationsAssumption
    DEF PollingInv, PollingTypes, IntervalInv, DueInv,
        Polling!schedule, Polling!request, Polling!history
<1>1. /\ Polling!Wait \in Nat /\ interval <= Polling!Wait /\ floor <= Polling!Wait
      /\ Polling!Remaining \in Nat
      /\ Polling!Remaining > 0 => now + Polling!Remaining <= ExpiresIn
  BY WaitFacts
<1>2. interval' \in Nat /\ floor' \in Nat =>
          Polling!Wait' \in Nat /\ interval' <= Polling!Wait' /\ floor' <= Polling!Wait'
  BY DEF Polling!Wait, Polling!Longer
<1>3. UNCHANGED Polling!schedule => Polling!Wait' = Polling!Wait
  BY DEF Polling!Wait, Polling!Longer
<1>4. Polling!NextPoll(slowed) = now + interval
  BY SlowedFacts DEF Polling!NextPoll
<1>5. CASE UNCHANGED polling
  BY <1>3, <1>5 DEF polling
<1>6. CASE Polling!Tick
  BY <1>3, <1>6 DEF Polling!Tick
<1>7. CASE Polling!Begin
  BY <1>1, <1>3, <1>7 DEF Polling!Begin
<1>8. CASE Polling!Sleep
  BY <1>1, <1>8 DEF Polling!Sleep
<1>9. CASE Polling!Expire \/ Polling!Answered
  BY <1>9 DEF Polling!Expire, Polling!Answered
<1>10. CASE Polling!Send
  BY <1>10 DEF Polling!Send
<1>11. CASE Polling!Undecided
  <2>1. interval' \in Nat /\ slowed' \in Nat /\ interval' = Interval + Increment * slowed'
    BY <1>11, SlowedFacts DEF Polling!Undecided, Polling!Slowed
  <2>2. earliest' = now + interval'
    BY <1>11, <2>1 DEF Polling!Undecided, Polling!NextPoll
  <2> QED
    BY <1>2, <1>11, <2>1, <2>2 DEF Polling!Undecided
<1>12. ASSUME NEW after \in RetryAfters, Polling!RateLimited(after)
       PROVE  PollingInv'
  BY <1>2, <1>4, <1>12 DEF Polling!RateLimited, Polling!Longer
<1>13. ASSUME NEW after \in RetryAfters, NEW jitter \in Jitter,
              Polling!Fails(after, jitter)
       PROVE  PollingInv'
  BY <1>1, <1>2, <1>4, <1>13 DEF Polling!Fails, Polling!Floor, Polling!Longer
<1>14. ASSUME NEW d, Polling!Decide(d) \/ Polling!Handle(d)
       PROVE  PollingInv'
  BY <1>3, <1>14 DEF Polling!Decide, Polling!Handle
<1> QED
  BY <1>5, <1>6, <1>7, <1>8, <1>9, <1>10, <1>11, <1>12, <1>13, <1>14 DEF Polling!Next

(* The inductive invariant of the waits.                                   *)
THEOREM PollingInvariance == MCSpec => []PollingInv
<1>1. MCInit => PollingInv
  BY PollingInit DEF MCInit
<1> QED
  BY <1>1, Parts, PollingStep, PTL DEF MCSpec

(* No request, retries included, leaves device_login or ciba_await at or   *)
(* after expires_in, whatever Retry-After and jitter the waits draw.       *)
THEOREM DeadlineKept == MCSpec => []NothingSentAfterDeadline
<1>1. PollingInv => NothingSentAfterDeadline
  BY DEF PollingInv, DueInv, NothingSentAfterDeadline, Polling!NothingSentAfterDeadline
<1> QED
  BY <1>1, PollingInvariance, PTL

(* No request comes before the server expects it: neither before its last  *)
(* Retry-After, nor, for a new poll, before the interval that every        *)
(* slow_down has added to (PollSchedule).                                  *)
THEOREM PollsInTime == MCSpec => []NeverTooEarly
<1>1. PollingInv => NeverTooEarly
  BY DEF PollingInv, PollingTypes, DueInv, NeverTooEarly, Polling!NeverTooEarly
<1> QED
  BY <1>1, PollingInvariance, PTL

-----------------------------------------------------------------------------
(* The logins of a web application.                                        *)
LoginTypes ==
    /\ lpc \in [Workers -> {"idle", "discovering", "waiting", "fetching",
                            "saving", "exchanging"}]
    /\ login \in [Workers -> Logins \cup {NoOne}]
    /\ stored \in SUBSET Logins
    /\ left \in [Logins -> 0 .. StateTTL]
    /\ age \in [Logins -> 0 .. StateTTL]
    /\ presented \in [Logins -> {0, 1}]
    /\ code \in [Logins -> {"none", "issued", "spent"}]

Busy(w) == lpc[w] # "idle"

(* A worker that serves a login is the only one that does, and the login   *)
(* is not in the store meanwhile: it is not there yet, or no longer.       *)
AloneInv ==
    \A w \in Workers : Busy(w) =>
        /\ login[w] \in Logins
        /\ login[w] \notin stored
        /\ presented[login[w]] = 0
        /\ \A v \in Workers : Busy(v) /\ login[v] = login[w] => v = w

(* A login whose code was presented does not come back.                    *)
SpentInv ==
    \A l \in Logins : presented[l] = 1 => code[l] = "spent" /\ l \notin stored

(* What is left of a state's lifetime and its age make up the lifetime.    *)
LifeInv == \A l \in Logins : left[l] > 0 => age[l] + left[l] = StateTTL

LoginInv == LoginTypes /\ AloneInv /\ SpentInv /\ LifeInv /\ late = {}

LEMMA LoginInit == Login!Init => LoginInv
  BY DurationsAssumption
  DEF Login!Init, LoginInv, LoginTypes, AloneInv, SpentInv, LifeInv, Busy

(* Every step of a worker, a user and the clock keeps the invariant.       *)
LEMMA LoginStep == LoginInv /\ [Login!Next]_logins => LoginInv'
<1> SUFFICES ASSUME LoginInv, [Login!Next]_logins PROVE LoginInv'
  OBVIOUS
<1> USE DurationsAssumption
    DEF LoginInv, LoginTypes, AloneInv, SpentInv, LifeInv, Busy, Login!At,
        Login!Goto, Login!worker, Login!cache, Login!store, Login!history
<1>1. CASE UNCHANGED logins
  BY <1>1 DEF logins
<1>2. CASE Login!Tick
  BY <1>2 DEF Login!Tick
<1>3. ASSUME NEW l \in Logins, Login!Authorize(l) PROVE LoginInv'
  BY <1>3 DEF Login!Authorize
<1>4. ASSUME NEW w \in Workers, Login!Discover(w) PROVE LoginInv'
  BY <1>4 DEF Login!Discover, Login!Proceed
<1>5. ASSUME NEW w \in Workers, Login!Acquire(w) PROVE LoginInv'
  BY <1>5 DEF Login!Acquire, Login!Proceed
<1>6. ASSUME NEW w \in Workers, Login!Fetched(w) PROVE LoginInv'
  BY <1>6 DEF Login!Fetched, Login!Proceed
<1>7. ASSUME NEW w \in Workers, Login!FetchFails(w) PROVE LoginInv'
  BY <1>7 DEF Login!FetchFails
<1>8. ASSUME NEW w \in Workers, Login!Save(w) PROVE LoginInv'
  BY <1>8 DEF Login!Save
<1>9. ASSUME NEW w \in Workers, Login!Exchange(w) PROVE LoginInv'
  BY <1>9 DEF Login!Exchange
<1>10. ASSUME NEW w \in Workers, NEW l \in Logins, Login!LoginRequest(w, l)
       PROVE  LoginInv'
  BY <1>10 DEF Login!LoginRequest, Login!Serve
<1>11. ASSUME NEW w \in Workers, NEW l \in Logins, Login!Callback(w, l)
       PROVE  LoginInv'
  BY <1>11 DEF Login!Callback, Login!Serve, Login!Popped, Login!Unexpired
<1> QED
  BY <1>1, <1>2, <1>3, <1>4, <1>5, <1>6, <1>7, <1>8, <1>9, <1>10, <1>11
  DEF Login!Next, Login!WorkerStep

(* For any number of workers and logins, whatever browser delivers a       *)
(* callback again, late, or to two workers at once, a code is presented at *)
(* most once and never for an expired state.                               *)
THEOREM StateIsGoodForOne == MCSpec => []OneExchangePerState
<1>1. MCInit => LoginInv
  BY LoginInit DEF MCInit
<1>2. LoginInv => OneExchangePerState
  BY DEF LoginInv, LoginTypes, OneExchangePerState, Login!OneExchangePerState
<1> QED
  BY <1>1, <1>2, Parts, LoginStep, PTL DEF MCSpec

-----------------------------------------------------------------------------
(* The sync coalescer, whose refinement is proved on its own.              *)
Threads == INSTANCE SyncSingleFlightProofs WITH pc <- ypc, got <- ygot

(* It is the same component there and here ...                             *)
LEMMA SameComponent == Sync!Next => Threads!Next
  BY Zenon
  DEF Sync!Next, Sync!Step, Sync!Claim, Sync!Join, Sync!WireEnds, Sync!Unwind,
      Sync!LeaderReturns, Sync!WaiterReturns, Sync!Unwinding, Sync!FirstStep,
      Sync!Vacated, Sync!Outcomes,
      Threads!Next, Threads!Step, Threads!Claim, Threads!Join, Threads!WireEnds,
      Threads!Unwind, Threads!LeaderReturns, Threads!WaiterReturns,
      Threads!Unwinding, Threads!FirstStep, Threads!Vacated, Threads!Outcomes

(* ... and so is its promise.                                              *)
LEMMA SamePromise == Threads!Implements => Sync!Implements
<1>1. Threads!AttemptStatus = Sync!AttemptStatus
      /\ Threads!AttemptStatus' = Sync!AttemptStatus'
  BY DEF Sync!AttemptStatus, Threads!AttemptStatus
<1>2. Threads!Promise!Init => Sync!Promise!Init
  BY <1>1 DEF Threads!Promise!Init, Sync!Promise!Init
<1>3. UNCHANGED Threads!Promise!vars => UNCHANGED Sync!Promise!vars
  BY <1>1 DEF Threads!Promise!vars, Sync!Promise!vars
<1>4. Threads!Promise!Next => Sync!Promise!Next
  BY <1>1, Zenon
  DEF Threads!Promise!Next, Threads!Promise!Lead, Threads!Promise!Join,
      Threads!Promise!Settle, Threads!Promise!Abort, Threads!Promise!Close,
      Threads!Promise!Answer, Threads!Promise!Leave, Threads!Promise!Outcomes,
      Threads!Promise!Answers,
      Sync!Promise!Next, Sync!Promise!Lead, Sync!Promise!Join,
      Sync!Promise!Settle, Sync!Promise!Abort, Sync!Promise!Close,
      Sync!Promise!Answer, Sync!Promise!Leave, Sync!Promise!Outcomes,
      Sync!Promise!Answers
<1>5. [Threads!Promise!Next]_Threads!Promise!vars
          => [Sync!Promise!Next]_Sync!Promise!vars
  BY <1>3, <1>4
<1> QED
  BY <1>2, <1>5, PTL
  DEF Threads!Implements, Sync!Implements, Threads!Promise!Spec, Sync!Promise!Spec

(* _SyncSingleFlight, among the other parts of the relying party,          *)
(* implements Coalescer.                                                   *)
THEOREM SyncRefinement == MCSpec => SyncImplements
<1>1. MCInit => Threads!Init
  BY DEF MCInit, Sync!Init, Threads!Init
<1>2. [MCNext]_mcvars => [Threads!Next]_Threads!vars
  BY Parts, SameComponent DEF Sync!vars, Threads!vars
<1>3. Threads!Spec => Threads!Implements
  BY Threads!Refinement, NoFlightAssumption
<1> QED
  BY <1>1, <1>2, <1>3, SamePromise, PTL DEF MCSpec, Threads!Spec, SyncImplements
=============================================================================
