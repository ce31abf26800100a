----------------------- MODULE SyncSingleFlightProofs -----------------------
(* For every set of threads, _SyncSingleFlight implements Coalescer, and   *)
(* its safety properties hold.                                             *)
EXTENDS SyncSingleFlight, TLAPS

(* What holds of a thread at each place of run().                          *)
AtStart(c) ==
    pc[c] = "start" => joined[c] = NoFlight /\ unwound[c] = 0 /\ c \notin settled

AtWire(c) ==
    pc[c] = "leading" =>
        joined[c] = c /\ slot = c /\ unwound[c] = 0 /\ c \notin settled

AtUnwinding(c) ==
    pc[c] = "unwinding" =>
        /\ joined[c] = c
        /\ wire[c] \in Outcomes
        /\ unwound[c] < 3 => slot = c
        /\ c \in settled <=> unwound[c] >= 2
        /\ unwound[c] >= 1 => outcome[c] = wire[c]

AtWaiting(c) ==
    pc[c] = "waiting" =>
        joined[c] # c /\ joined[c] \in Callers /\ joined[joined[c]] = joined[c]

AtDone(c) ==
    pc[c] = "done" => joined[c] \in settled /\ got[c] = wire[joined[c]]

(* A publication that has settled carries what the wire call came to.      *)
Published ==
    \A c \in settled :
        joined[c] = c /\ outcome[c] = wire[c] /\ wire[c] \in Outcomes
            /\ pc[c] \in {"unwinding", "done"}

(* The slot is held by an attempt that has not finished unwinding.         *)
Occupied ==
    slot # NoFlight =>
        joined[slot] = slot /\ pc[slot] \in {"leading", "unwinding"} /\ unwound[slot] < 3

IInv ==
    /\ TypeOK
    /\ \A c \in Callers :
          /\ AtStart(c) /\ AtWire(c) /\ AtUnwinding(c) /\ AtWaiting(c) /\ AtDone(c)
          /\ got[c] = "none" <=> pc[c] # "done"
    /\ Published
    /\ Occupied

-----------------------------------------------------------------------------
(* A new _SyncSingleFlight, with an empty slot, satisfies the invariant.   *)
LEMMA InitIInv == Init => IInv
  BY NoFlightAssumption
  DEF Init, IInv, TypeOK, Places, AtStart, AtWire, AtUnwinding, AtWaiting, AtDone,
      Published, Occupied

(* The three steps of the unwinding, in order.                             *)
LEMMA UnwindingSteps ==
  /\ Len(Unwinding) = 3
  /\ Unwinding[1] = "write" /\ Unwinding[2] = "settle" /\ Unwinding[3] = "vacate"
  BY DEF Unwinding

(* Each step of _publish_then_vacate keeps the publication ahead of the    *)
(* empty slot.                                                             *)
LEMMA UnwindStep ==
  ASSUME NEW c \in Callers, Unwind(c), TypeOK
  PROVE  /\ pc[c] = "unwinding"
         /\ UNCHANGED <<pc, joined, wire, got>>
         /\ \/ /\ unwound[c] = 0 /\ unwound' = [unwound EXCEPT ![c] = 1]
               /\ outcome' = [outcome EXCEPT ![c] = wire[c]]
               /\ UNCHANGED <<settled, slot>>
            \/ /\ unwound[c] = 1 /\ unwound' = [unwound EXCEPT ![c] = 2]
               /\ settled' = settled \cup {c}
               /\ UNCHANGED <<outcome, slot>>
            \/ /\ unwound[c] = 2 /\ unwound' = [unwound EXCEPT ![c] = 3]
               /\ slot' = IF slot = c THEN NoFlight ELSE slot
               /\ UNCHANGED <<outcome, settled>>
<1>1. PICK n \in 1 .. 3 :
          /\ n = 1 + unwound[c]
          /\ unwound' = [unwound EXCEPT ![c] = n]
          /\ outcome' = IF Unwinding[n] = "write"
                           THEN [outcome EXCEPT ![c] = wire[c]] ELSE outcome
          /\ settled' = IF Unwinding[n] = "settle" THEN settled \cup {c} ELSE settled
          /\ slot' = IF Unwinding[n] = "vacate" THEN Vacated(c) ELSE slot
  BY UnwindingSteps DEF Unwind, FirstStep, TypeOK
<1>2. pc[c] = "unwinding" /\ UNCHANGED <<pc, joined, wire, got>>
  BY DEF Unwind
<1>3. unwound[c] \in 0 .. 3
  BY DEF TypeOK
<1>4. CASE n = 1
  <2>1. Unwinding[n] = "write" /\ unwound[c] = 0
    BY <1>1, <1>3, <1>4, UnwindingSteps
  <2> QED
    BY <1>1, <1>2, <1>4, <2>1
<1>5. CASE n = 2
  <2>1. Unwinding[n] = "settle" /\ unwound[c] = 1
    BY <1>1, <1>3, <1>5, UnwindingSteps
  <2> QED
    BY <1>1, <1>2, <1>5, <2>1
<1>6. CASE n = 3
  <2>1. Unwinding[n] = "vacate" /\ unwound[c] = 2
    BY <1>1, <1>3, <1>6, UnwindingSteps
  <2> QED
    BY <1>1, <1>2, <1>6, <2>1 DEF Vacated
<1> QED
  BY <1>4, <1>5, <1>6

(* Every step of one thread preserves the invariant.                       *)
LEMMA StepIInv ==
  ASSUME IInv, NEW c \in Callers, Step(c)
  PROVE  IInv'
<1> USE NoFlightAssumption DEF Places, Outcomes
<1>a. /\ TypeOK /\ Published /\ Occupied
      /\ \A d \in Callers :
            /\ AtStart(d) /\ AtWire(d) /\ AtUnwinding(d) /\ AtWaiting(d) /\ AtDone(d)
            /\ got[d] = "none" <=> pc[d] # "done"
  BY DEF IInv
<1>1. CASE Claim(c)
  BY <1>a, <1>1
  DEF Claim, IInv, TypeOK, AtStart, AtWire, AtUnwinding, AtWaiting, AtDone,
      Published, Occupied
<1>2. CASE Join(c)
  BY <1>a, <1>2
  DEF Join, IInv, TypeOK, AtStart, AtWire, AtUnwinding, AtWaiting, AtDone,
      Published, Occupied
<1>3. CASE WireEnds(c)
  BY <1>a, <1>3
  DEF WireEnds, IInv, TypeOK, AtStart, AtWire, AtUnwinding, AtWaiting, AtDone,
      Published, Occupied
<1>4. CASE Unwind(c)
  BY <1>a, <1>4, UnwindStep
  DEF IInv, TypeOK, AtStart, AtWire, AtUnwinding, AtWaiting, AtDone, Published, Occupied
<1>5. CASE LeaderReturns(c)
  BY <1>a, <1>5, UnwindingSteps
  DEF LeaderReturns, IInv, TypeOK, AtStart, AtWire, AtUnwinding, AtWaiting, AtDone,
      Published, Occupied
<1>6. CASE WaiterReturns(c)
  BY <1>a, <1>6
  DEF WaiterReturns, IInv, TypeOK, AtStart, AtWire, AtUnwinding, AtWaiting, AtDone,
      Published, Occupied
<1> QED
  BY <1>1, <1>2, <1>3, <1>4, <1>5, <1>6 DEF Step

(* The inductive invariant of the sync coalescer holds in every reachable  *)
(* state.                                                                  *)
THEOREM Invariance == Spec => []IInv
<1>1. Init => IInv
  BY InitIInv
<1>2. IInv /\ [Next]_vars => IInv'
  <2> SUFFICES ASSUME IInv, [Next]_vars PROVE IInv'
    OBVIOUS
  <2>1. CASE Next
    BY <2>1, StepIInv DEF Next
  <2>2. CASE UNCHANGED vars
    BY <2>2
    DEF vars, IInv, TypeOK, AtStart, AtWire, AtUnwinding, AtWaiting, AtDone,
        Published, Occupied
  <2> QED
    BY <2>1, <2>2
<1> QED
  BY <1>1, <1>2, PTL DEF Spec

(* Nobody is given a half-written publication, or another attempt's.       *)
THEOREM OutcomeShared == Spec => []SharesOutcome
<1>1. IInv => SharesOutcome
  BY DEF IInv, AtDone, SharesOutcome
<1> QED
  BY <1>1, Invariance, PTL

(* The slot is never empty while an ended attempt is unpublished (rule     *)
(* 6a).                                                                    *)
THEOREM PublishesFirst == Spec => []PublishBeforeVacate
<1>1. IInv => PublishBeforeVacate
  BY DEF IInv, TypeOK, AtWire, AtUnwinding, PublishBeforeVacate
<1> QED
  BY <1>1, Invariance, PTL

(* A thread that arrives once the leader of an attempt has returned never  *)
(* joins that attempt (rule 6d).                                           *)
THEOREM LateCallersAreApart == Spec => LateCallersLead
<1> DEFINE Late ==
        \A c \in Callers :
            pc[c] = "start" /\ pc'[c] = "waiting" => pc[joined'[c]] # "done"
<1>1. IInv /\ [Next]_vars => [Late]_vars
  <2> SUFFICES ASSUME IInv, Next PROVE Late
    OBVIOUS
  <2>1. PICK c \in Callers : Step(c)
    BY DEF Next
  <2>2. CASE Join(c)
    BY <2>2 DEF IInv, TypeOK, Occupied, Join
  <2>3. CASE ~Join(c)
    BY <2>1, <2>3
    DEF IInv, TypeOK, Step, Claim, WireEnds, Unwind, LeaderReturns, WaiterReturns
  <2> QED
    BY <2>2, <2>3
<1> QED
  BY <1>1, Invariance, PTL DEF Spec, LateCallersLead

-----------------------------------------------------------------------------
(* Every step of a thread is a step of the promise, or none.               *)
LEMMA StepImplements ==
  ASSUME IInv, NEW c \in Callers, Step(c)
  PROVE  Promise!Next \/ UNCHANGED Promise!vars
<1> USE NoFlightAssumption DEF Places, Outcomes, AttemptStatus
<1>a. /\ TypeOK /\ Published /\ Occupied
      /\ \A d \in Callers :
            /\ AtStart(d) /\ AtWire(d) /\ AtUnwinding(d) /\ AtWaiting(d) /\ AtDone(d)
            /\ got[d] = "none" <=> pc[d] # "done"
  BY DEF IInv
<1>1. CASE Claim(c)
  <2>1. AttemptStatus' = [AttemptStatus EXCEPT ![c] = "live"]
    BY <1>a, <1>1 DEF Claim, TypeOK, AtStart
  <2>2. Promise!Lead(c)
    BY <1>a, <1>1, <2>1 DEF Claim, AtStart, Promise!Lead
  <2> QED
    BY <2>2 DEF Promise!Next
<1>2. CASE Join(c)
  <2>1. AttemptStatus' = AttemptStatus
    BY <1>a, <1>2 DEF Join, TypeOK, AtStart, Occupied
  <2>2. Promise!Join(c)
    BY <1>a, <1>2, <2>1 DEF Join, AtStart, Promise!Join
  <2> QED
    BY <2>2 DEF Promise!Next
<1>3. CASE WireEnds(c)
  BY <1>3 DEF WireEnds, Promise!vars
<1>4. CASE Unwind(c)
  <2>1. CASE unwound[c] = 0
    BY <1>a, <1>4, <2>1, UnwindStep DEF TypeOK, AtUnwinding, Promise!vars
  <2>2. CASE unwound[c] = 1
    <3>4. settled' = settled \cup {c} /\ UNCHANGED <<slot, joined, outcome, got>>
      BY <1>a, <1>4, <2>2, UnwindStep
    <3>5. joined[c] = c /\ outcome[c] = wire[c]
      BY <1>a, <1>4, <2>2, UnwindStep DEF AtUnwinding
    <3>1. AttemptStatus' = [AttemptStatus EXCEPT ![c] = wire[c]]
      BY <3>4, <3>5
    <3>2. AttemptStatus[c] = "live" /\ wire[c] \in Outcomes
      BY <1>a, <1>4, <2>2, UnwindStep DEF AtUnwinding
    <3>3. PICK o \in Promise!Outcomes : o = wire[c]
      BY <3>2 DEF Promise!Outcomes
    <3>6. Promise!Settle(c, o)
      <4> HIDE DEF AttemptStatus
      <4> QED
        BY <3>1, <3>2, <3>3, <3>4 DEF Promise!Settle
    <3> QED
      BY <3>6, Zenon DEF Promise!Next
  <2>3. CASE unwound[c] = 2
    <3>1. slot = c /\ slot' = NoFlight /\ UNCHANGED <<joined, settled, outcome, got>>
      BY <1>a, <1>4, <2>3, UnwindStep DEF AtUnwinding
    <3>4. AttemptStatus' = AttemptStatus
      BY <3>1
    <3>2. AttemptStatus[c] \in Outcomes
      BY <1>a, <1>4, <2>3, UnwindStep DEF AtUnwinding
    <3>3. Promise!Close
      <4> HIDE DEF AttemptStatus
      <4> QED
        BY <3>1, <3>2, <3>4 DEF Promise!Close, Promise!Outcomes
    <3> QED
      BY <3>3 DEF Promise!Next
  <2> QED
    BY <1>a, <1>4, <2>1, <2>2, <2>3, UnwindStep
<1>5. CASE LeaderReturns(c)
  <2>1. joined[c] = c /\ AttemptStatus[c] = wire[c] /\ wire[c] \in Outcomes
    BY <1>a, <1>5, UnwindingSteps DEF LeaderReturns, AtUnwinding
  <2>2. Promise!Answer(c)
    BY <1>a, <1>5, <2>1
    DEF LeaderReturns, Promise!Answer, Promise!Answers, Promise!Outcomes
  <2> QED
    BY <2>2 DEF Promise!Next
<1>6. CASE WaiterReturns(c)
  <2>1. /\ joined[c] \in Callers
        /\ AttemptStatus[joined[c]] = outcome[joined[c]]
        /\ outcome[joined[c]] \in Outcomes
    BY <1>a, <1>6 DEF WaiterReturns, TypeOK, AtWaiting, Published
  <2>2. Promise!Answer(c)
    BY <1>a, <1>6, <2>1
    DEF WaiterReturns, Promise!Answer, Promise!Answers, Promise!Outcomes
  <2> QED
    BY <2>2 DEF Promise!Next
<1> QED
  BY <1>1, <1>2, <1>3, <1>4, <1>5, <1>6 DEF Step

(* _SyncSingleFlight implements Coalescer.                                 *)
THEOREM Refinement == Spec => Implements
<1>1. Init => Promise!Init
  BY NoFlightAssumption DEF Init, Promise!Init, AttemptStatus
<1>2. IInv /\ [Next]_vars => [Promise!Next]_Promise!vars
  <2> SUFFICES ASSUME IInv, [Next]_vars PROVE [Promise!Next]_Promise!vars
    OBVIOUS
  <2>1. CASE Next
    BY <2>1, StepImplements DEF Next
  <2>2. CASE UNCHANGED vars
    BY <2>2 DEF vars, Promise!vars, AttemptStatus
  <2> QED
    BY <2>1, <2>2
<1> QED
  BY <1>1, <1>2, Invariance, PTL DEF Spec, Implements, Promise!Spec
=============================================================================
