------------------------- MODULE RefreshGuardProofs -------------------------
(* Type correctness and the safety of RefreshGuard for every set of        *)
(* callers, with any faults, logins and cancellations, proved from an      *)
(* inductive invariant; and that, until a login, a cancellation or a       *)
(* truncated answer comes between, refresh() returns only a token newer    *)
(* than the rejected one.                                                  *)
EXTENDS RefreshGuard, TLAPS

(* The lock belongs to the caller in the critical section.                 *)
LockInv == \A c \in Callers : pc[c] \in Critical => lock = c

(* The token a refresh carries is good, or was consumed by a failed call;  *)
(* the token in an answer is good.                                         *)
WireInv ==
    \A c \in RefreshCallers :
        /\ pc[c] = "wire" => sent[c] \in valid \cup lost
        /\ pc[c] = "answering" => result[c] \in valid /\ sent[c] # NoToken

(* Only refreshes are answered by the server.                              *)
KindInv ==
    \A c \in Callers :
        pc[c] \in {"answering", "arrived", "storing"} => c \in RefreshCallers

(* The jar's token has not been consumed, unless by the call in flight or  *)
(* by one whose answer was lost.                                           *)
JarInv ==
    jar = NoToken \/ jar \in valid \/ jar \in lost
        \/ \E c \in RefreshCallers : pc[c] = "answering" /\ jar = sent[c]

(* A caller queues only after it saw a token, and the jar is never         *)
(* emptied.                                                                *)
QueuedInv ==
    \A c \in RefreshCallers :
        pc[c] \in {"waiting", "granted", "holding"} => jar # NoToken

IInv == TypeOK /\ LockInv /\ WireInv /\ KindInv /\ JarInv /\ QueuedInv

USE DEF NoToken

-----------------------------------------------------------------------------
(* A seeded guard with a free lock, and a jar holding the session's token, *)
(* satisfy the invariant.                                                  *)
LEMMA InitIInv == Init => IInv
<1> SUFFICES ASSUME Init PROVE IInv
  OBVIOUS
<1> USE DEF Init, Places, Critical, InFlight, Finished, Tokens
<1>1. jar \in {0, 1} /\ cached \in {0, jar} /\ hasAny \in BOOLEAN
  OBVIOUS
<1>2. TypeOK
  BY <1>1 DEF TypeOK
<1>3. LockInv /\ WireInv /\ KindInv /\ JarInv /\ QueuedInv
  BY <1>1 DEF LockInv, WireInv, KindInv, JarInv, QueuedInv, Callers
<1> QED
  BY <1>2, <1>3 DEF IInv

(* One step per action of one caller; <2>-steps where an action moves a    *)
(* token from the server's valid set to another place.                     *)
LEMMA StepIInv ==
  ASSUME IInv, NEW c \in Callers,
         GuardStep(c) \/ WireStep(c) \/ LoginStep(c) \/ Cancel(c)
  PROVE  IInv'
<1> USE CallersAssumption DEF Callers, Places, Critical, InFlight, Finished, At,
        Goto, Moves, SessionUnchanged, ServerUnchanged
<1>a. TypeOK /\ LockInv /\ WireInv /\ KindInv /\ JarInv /\ QueuedInv
  BY DEF IInv
<1>b. SUFFICES TypeOK' /\ LockInv' /\ WireInv' /\ KindInv' /\ JarInv' /\ QueuedInv'
  BY DEF IInv
<1>1. CASE Observe(c)
  BY <1>a, <1>1
  DEF Observe, TypeOK, LockInv, WireInv, KindInv, JarInv, QueuedInv, Tokens
<1>2. CASE Enqueue(c)
  BY <1>a, <1>2
  DEF Enqueue, TypeOK, LockInv, WireInv, KindInv, JarInv, QueuedInv, Tokens
<1>3. CASE Acquire(c)
  BY <1>a, <1>3
  DEF Acquire, LockFree, TypeOK, LockInv, WireInv, KindInv, JarInv, QueuedInv, Tokens
<1>4. CASE Resume(c)
  BY <1>a, <1>4
  DEF Resume, TypeOK, LockInv, WireInv, KindInv, JarInv, QueuedInv, Tokens
<1>5. CASE Skip(c)
  BY <1>a, <1>5
  DEF Skip, TypeOK, LockInv, WireInv, KindInv, JarInv, QueuedInv, Tokens
<1>6. CASE StartWire(c)
  BY <1>a, <1>6
  DEF StartWire, TokenToSend, ShouldSkip, TypeOK, LockInv, WireInv, KindInv, JarInv,
      QueuedInv, Tokens
<1>7. CASE ServerRotates(c)
  <2>1. lock = c /\ lock' = lock
    BY <1>a, <1>7 DEF ServerRotates, LockInv
  <2>2. LockInv' /\ KindInv' /\ QueuedInv'
    BY <1>a, <1>7, <2>1 DEF ServerRotates, LockInv, KindInv, QueuedInv, TypeOK
  <2>3. TypeOK'
    <3>1. issued' = issued + 1 /\ issued' \in Nat
      BY <1>a, <1>7 DEF ServerRotates, TypeOK
    <3>2. Tokens \subseteq Tokens' /\ issued' \in Tokens' \ {NoToken}
      BY <1>a, <3>1 DEF TypeOK, Tokens
    <3>3. valid' \subseteq Tokens' \ {NoToken} /\ lost' \subseteq Tokens' \ {NoToken}
      BY <1>a, <1>7, <3>2 DEF ServerRotates, TypeOK
    <3>4. result' \in [Callers -> Tokens'] /\ pc' \in [Callers -> Places]
      BY <1>a, <1>7, <3>2 DEF ServerRotates, TypeOK
    <3>5. observed' \in [Callers -> Tokens'] /\ sent' \in [Callers -> Tokens']
      BY <1>a, <1>7, <3>2 DEF ServerRotates, TypeOK
    <3> QED
      BY <1>a, <1>7, <3>1, <3>2, <3>3, <3>4, <3>5 DEF ServerRotates, TypeOK
  <2>4. WireInv'
    BY <1>a, <1>7, <2>1 DEF ServerRotates, TypeOK, WireInv, LockInv
  <2>5. JarInv'
    BY <1>a, <1>7, <2>1 DEF ServerRotates, TypeOK, JarInv, KindInv, LockInv
  <2> QED
    BY <2>2, <2>3, <2>4, <2>5
<1>8. CASE RefreshFails(c)
  BY <1>a, <1>8
  DEF RefreshFails, Fail, Release, TypeOK, LockInv, WireInv, KindInv, JarInv,
      QueuedInv, Tokens
<1>9. CASE AnswerLost(c)
  <2>1. lock = c /\ lock' = NoOne
    BY <1>a, <1>9 DEF AnswerLost, Fail, Release, LockInv
  <2>2. LockInv' /\ KindInv' /\ QueuedInv'
    BY <1>a, <1>9, <2>1 DEF AnswerLost, Fail, Release, LockInv, KindInv, QueuedInv, TypeOK
  <2>3. TypeOK'
    <3>1. /\ Tokens' = Tokens
          /\ lost' \subseteq lost \cup {sent[c]}
          /\ pc[c] = "answering" => sent[c] \in Tokens \ {NoToken}
          /\ pc[c] # "answering" => lost' = lost
      BY <1>a, <1>9 DEF AnswerLost, Fail, Release, TypeOK, Tokens, WireInv, KindInv
    <3>2. lost' \subseteq Tokens' \ {NoToken}
      BY <1>a, <3>1 DEF TypeOK
    <3>3. pc' \in [Callers -> Places]
      BY <1>a, <1>9 DEF AnswerLost, Fail, Release, TypeOK
    <3> QED
      BY <1>a, <1>9, <3>1, <3>2, <3>3 DEF AnswerLost, Fail, Release, TypeOK
  <2>4. WireInv'
    BY <1>a, <1>9, <2>1 DEF AnswerLost, Fail, Release, TypeOK, WireInv, LockInv
  <2>5. JarInv'
    BY <1>a, <1>9, <2>1 DEF AnswerLost, Fail, Release, TypeOK, JarInv, KindInv, LockInv
  <2> QED
    BY <2>2, <2>3, <2>4, <2>5
<1>10. CASE AnswerArrives(c)
  BY <1>a, <1>10
  DEF AnswerArrives, TypeOK, LockInv, WireInv, KindInv, JarInv, QueuedInv, Tokens
<1>11. CASE BodyLost(c)
  BY <1>a, <1>11
  DEF BodyLost, Fail, Release, TypeOK, LockInv, WireInv, KindInv, JarInv, QueuedInv, Tokens
<1>12. CASE ReadNew(c)
  BY <1>a, <1>12
  DEF ReadNew, NewAccess, TypeOK, LockInv, WireInv, KindInv, JarInv, QueuedInv, Tokens
<1>13. CASE Store(c)
  BY <1>a, <1>13
  DEF Store, TypeOK, LockInv, WireInv, KindInv, JarInv, QueuedInv, Tokens
<1>14. CASE Return(c)
  BY <1>a, <1>14
  DEF Return, Release, TypeOK, LockInv, WireInv, KindInv, JarInv, QueuedInv, Tokens
<1>15. CASE RunExclusive(c)
  BY <1>a, <1>15
  DEF RunExclusive, TypeOK, LockInv, WireInv, KindInv, JarInv, QueuedInv, Tokens
<1>16. CASE ExclusiveEnds(c)
  <2>1. TypeOK'
    BY <1>a, <1>16 DEF ExclusiveEnds, Release, TypeOK, LockInv, QueuedInv, Tokens
  <2>2. LockInv' /\ QueuedInv'
    BY <1>a, <1>16 DEF ExclusiveEnds, Release, TypeOK, LockInv, KindInv, QueuedInv
  <2>3. WireInv' /\ KindInv'
    BY <1>a, <1>16 DEF ExclusiveEnds, Release, TypeOK, LockInv, WireInv, KindInv, QueuedInv, Tokens
  <2>4. JarInv'
    BY <1>a, <1>16 DEF ExclusiveEnds, Release, TypeOK, LockInv, KindInv, JarInv, QueuedInv
  <2> QED
    BY <2>1, <2>2, <2>3, <2>4
<1>17. CASE LoginAnswered(c)
  BY <1>a, <1>17
  DEF LoginAnswered, TypeOK, LockInv, WireInv, KindInv, JarInv, QueuedInv, Tokens
<1>18. CASE AbsorbCookie(c)
  BY <1>a, <1>18
  DEF AbsorbCookie, TypeOK, LockInv, WireInv, KindInv, JarInv, QueuedInv, Tokens
<1>19. CASE Seed(c)
  BY <1>a, <1>19
  DEF Seed, TypeOK, LockInv, WireInv, KindInv, JarInv, QueuedInv, Tokens
<1>20. CASE CancelWaiting(c)
  <2>1. TypeOK'
    BY <1>a, <1>20 DEF CancelWaiting, TypeOK, LockInv, QueuedInv, Tokens
  <2>2. LockInv' /\ QueuedInv'
    BY <1>a, <1>20 DEF CancelWaiting, TypeOK, LockInv, KindInv, QueuedInv
  <2>3. WireInv' /\ KindInv'
    BY <1>a, <1>20 DEF CancelWaiting, TypeOK, LockInv, WireInv, KindInv, QueuedInv, Tokens
  <2>4. JarInv'
    BY <1>a, <1>20 DEF CancelWaiting, TypeOK, LockInv, KindInv, JarInv, QueuedInv
  <2> QED
    BY <2>1, <2>2, <2>3, <2>4
<1>21. CASE OrphanAcquires(c)
  BY <1>a, <1>21
  DEF OrphanAcquires, LockFree, TypeOK, LockInv, WireInv, KindInv, JarInv, QueuedInv, Tokens
<1>22. CASE CancelGranted(c)
  BY <1>a, <1>22
  DEF CancelGranted, TypeOK, LockInv, WireInv, KindInv, JarInv, QueuedInv, Tokens
<1>23. CASE CancelInFlight(c)
  <2>1. lock = c /\ lock' = NoOne
    BY <1>a, <1>23 DEF CancelInFlight, Release, LockInv
  <2>2. LockInv' /\ KindInv' /\ QueuedInv'
    BY <1>a, <1>23, <2>1 DEF CancelInFlight, Release, LockInv, KindInv, QueuedInv, TypeOK
  <2>3. TypeOK'
    <3>1. /\ Tokens' = Tokens
          /\ lost' \subseteq lost \cup {sent[c]}
          /\ pc[c] = "answering" => sent[c] \in Tokens \ {NoToken}
          /\ pc[c] # "answering" => lost' = lost
      BY <1>a, <1>23 DEF CancelInFlight, Release, TypeOK, Tokens, WireInv, KindInv
    <3>2. lost' \subseteq Tokens' \ {NoToken}
      BY <1>a, <3>1 DEF TypeOK
    <3>3. pc' \in [Callers -> Places]
      BY <1>a, <1>23 DEF CancelInFlight, Release, TypeOK
    <3> QED
      BY <1>a, <1>23, <3>1, <3>2, <3>3 DEF CancelInFlight, Release, TypeOK
  <2>4. WireInv'
    BY <1>a, <1>23, <2>1 DEF CancelInFlight, Release, TypeOK, WireInv, LockInv
  <2>5. JarInv'
    BY <1>a, <1>23, <2>1 DEF CancelInFlight, Release, TypeOK, JarInv, KindInv, LockInv
  <2> QED
    BY <2>2, <2>3, <2>4, <2>5
<1> QED
  BY <1>1, <1>2, <1>3, <1>4, <1>5, <1>6, <1>7, <1>8, <1>9, <1>10, <1>11, <1>12,
     <1>13, <1>14, <1>15, <1>16, <1>17, <1>18, <1>19, <1>20, <1>21, <1>22, <1>23
  DEF GuardStep, WireStep, LoginStep, Cancel

(* Every step of any caller preserves the invariant.                       *)
LEMMA InductiveIInv == IInv /\ [Next]_vars => IInv'
<1> SUFFICES ASSUME IInv, [Next]_vars PROVE IInv'
  OBVIOUS
<1>1. CASE \E c \in Callers : GuardStep(c) \/ WireStep(c) \/ LoginStep(c) \/ Cancel(c)
  BY <1>1, StepIInv
<1>2. CASE UNCHANGED vars
  BY <1>2 DEF vars, IInv, TypeOK, Tokens, LockInv, WireInv, KindInv, JarInv, QueuedInv
<1> QED
  BY <1>1, <1>2 DEF Next

(* The inductive invariant of the guard holds in every reachable state.    *)
THEOREM Invariance == Spec => []IInv
<1>1. Init => IInv
  BY InitIInv
<1>2. IInv /\ [Next]_vars => IInv'
  BY InductiveIInv
<1> QED
  BY <1>1, <1>2, PTL DEF Spec

(* RefreshGuard's variables keep their types, for every set of callers.    *)
THEOREM TypeCorrect == Spec => []TypeOK
<1>1. IInv => TypeOK
  BY DEF IInv
<1> QED
  BY <1>1, Invariance, PTL

(* At most one call that rotates tokens is in flight (CR-01): all of them  *)
(* are made inside the one lock, which has one owner.                      *)
THEOREM SingleFlight == Spec => []MutualExclusion
<1>1. IInv => MutualExclusion
  BY DEF IInv, LockInv, MutualExclusion, Critical
<1> QED
  BY <1>1, Invariance, PTL

(* No refresh carries a token that a completed refresh has consumed.       *)
THEOREM NeverReplays == Spec => []NoReplay
<1>1. IInv => NoReplay
  BY DEF IInv, WireInv, NoReplay
<1> QED
  BY <1>1, Invariance, PTL

-----------------------------------------------------------------------------
(* While nobody has logged in or been cancelled and no answer was cut off, *)
(* the guard's baseline follows the jar.                                   *)

(* The cache lags behind the jar only while an answer is being absorbed.   *)
SyncInv ==
    hasAny /\ (\A c \in Callers : pc[c] \notin {"arrived", "storing"})
        => cached = jar

(* A refresh moves the jar, then the cache, past the token it observed.    *)
FreshInv ==
    \A c \in RefreshCallers :
        /\ observed[c] <= jar
        /\ pc[c] = "answering" => result[c] > jar
        /\ pc[c] = "arrived" => jar > observed[c]
        /\ pc[c] = "storing" => result[c] = jar /\ jar > observed[c]
        /\ pc[c] = "returning" => cached > observed[c]
        /\ pc[c] = "done" => result[c] > observed[c]

(* Only a login absorbs its cookies and seeds the guard.                   *)
LoginInv == \A c \in Callers : pc[c] \in {"absorbing", "seeding"} => c \in LoginCallers

QInv == IInv /\ LoginInv /\ (Undisturbed => SyncInv /\ FreshInv)

(* The seeded guard satisfies the stronger invariant: its baseline is the  *)
(* jar's token.                                                            *)
LEMMA InitQInv == Init => QInv
<1> SUFFICES ASSUME Init PROVE QInv
  OBVIOUS
<1>1. IInv
  BY InitIInv
<1>2. SyncInv /\ FreshInv /\ LoginInv
  BY <1>1 DEF Init, IInv, TypeOK, Tokens, SyncInv, FreshInv, LoginInv, Callers
<1> QED
  BY <1>1, <1>2 DEF QInv

(* A step moves one caller, and a login that has moved does not come back. *)
LEMMA OneMoves ==
  ASSUME TypeOK, NEW c \in Callers,
         GuardStep(c) \/ WireStep(c) \/ LoginStep(c) \/ Cancel(c)
  PROVE  /\ \A d \in Callers : d # c => pc'[d] = pc[d]
         /\ c \in LoginCallers => pc'[c] # "start"
<1> USE CallersAssumption DEF Callers, At, Goto, Moves
<1>1. \A d \in Callers : d # c => pc'[d] = pc[d]
  BY DEF TypeOK, GuardStep, WireStep, LoginStep, Cancel, Observe, Enqueue, Acquire, Resume,
      Skip, StartWire, ServerRotates, RefreshFails, AnswerLost, AnswerArrives, BodyLost,
      ReadNew, Store, Return, RunExclusive, ExclusiveEnds, LoginAnswered, AbsorbCookie,
      Seed, CancelWaiting, OrphanAcquires, CancelGranted, CancelInFlight, Fail
<1>2. c \in LoginCallers => pc'[c] # "start"
  BY DEF TypeOK, GuardStep, WireStep, LoginStep, Cancel, Observe, Enqueue, Acquire, Resume,
      Skip, StartWire, ServerRotates, RefreshFails, AnswerLost, AnswerArrives, BodyLost,
      ReadNew, Store, Return, RunExclusive, ExclusiveEnds, LoginAnswered, AbsorbCookie,
      Seed, CancelWaiting, OrphanAcquires, CancelGranted, CancelInFlight, Fail
<1> QED
  BY <1>1, <1>2

(* A disturbance is never undone: a step that leaves the session           *)
(* undisturbed found it so.                                                *)
LEMMA StepUndisturbed ==
  ASSUME IInv, LoginInv, Undisturbed', NEW c \in Callers,
         GuardStep(c) \/ WireStep(c) \/ LoginStep(c) \/ Cancel(c)
  PROVE  Undisturbed
<1> USE CallersAssumption DEF Callers, At, Goto, Moves
<1>a. TypeOK /\ LoginInv
  BY DEF IInv
<1>1. \A d \in Callers : d # c => pc'[d] = pc[d]
  BY <1>a, OneMoves
<1>2. pc[c] \notin {"orphan", "leaked", "cancelled", "truncated"}
  BY <1>a
  DEF TypeOK, Undisturbed, GuardStep, WireStep, LoginStep, Cancel, Observe, Enqueue,
      Acquire,
     Resume, Skip, StartWire, ServerRotates, RefreshFails, AnswerLost, AnswerArrives, BodyLost,
     ReadNew, Store, Return, RunExclusive, ExclusiveEnds, LoginAnswered, AbsorbCookie, Seed,
     CancelWaiting, OrphanAcquires, CancelGranted, CancelInFlight, Fail
<1>3. c \in LoginCallers => pc[c] = "start"
  BY <1>a
  DEF TypeOK, Undisturbed, NoLoginYet, GuardStep, WireStep, LoginStep, Cancel,
      Observe, Enqueue, Acquire,
     Resume, Skip, StartWire, ServerRotates, RefreshFails, AnswerLost, AnswerArrives, BodyLost,
     ReadNew, Store, Return, RunExclusive, ExclusiveEnds, LoginAnswered, AbsorbCookie, Seed,
     CancelWaiting, OrphanAcquires, CancelGranted, CancelInFlight, Fail
<1> QED
  BY <1>1, <1>2, <1>3 DEF Undisturbed, NoLoginYet

(* Every step of one caller keeps the logins apart.                        *)
LEMMA StepLoginInv ==
  ASSUME IInv, LoginInv, NEW c \in Callers,
         GuardStep(c) \/ WireStep(c) \/ LoginStep(c) \/ Cancel(c)
  PROVE  LoginInv'
<1> QED
  BY
  DEF IInv, TypeOK, LoginInv, Callers, At, Goto, Moves, GuardStep, WireStep,
      LoginStep, Cancel, Observe, Enqueue, Acquire,
     Resume, Skip, StartWire, ServerRotates, RefreshFails, AnswerLost, AnswerArrives, BodyLost,
     ReadNew, Store, Return, RunExclusive, ExclusiveEnds, LoginAnswered, AbsorbCookie, Seed,
     CancelWaiting, OrphanAcquires, CancelGranted, CancelInFlight, Fail

(* As long as the session stays undisturbed, every step of one caller      *)
(* keeps baseline and jar together.                                        *)
LEMMA StepQInv ==
  ASSUME QInv, Undisturbed', NEW c \in Callers,
         GuardStep(c) \/ WireStep(c) \/ LoginStep(c) \/ Cancel(c)
  PROVE  SyncInv' /\ FreshInv'
<1> USE CallersAssumption DEF Callers, Places, Critical, InFlight, Finished, At,
        Goto, Moves, SessionUnchanged, ServerUnchanged
<1>a. /\ TypeOK /\ LockInv /\ KindInv /\ LoginInv
      /\ SyncInv /\ FreshInv /\ Undisturbed /\ Undisturbed'
  BY StepUndisturbed DEF QInv, IInv
<1>1. CASE Observe(c)
  BY <1>a, <1>1
  DEF Observe, TypeOK, LockInv, KindInv, SyncInv, FreshInv, Tokens
<1>2. CASE Enqueue(c)
  BY <1>a, <1>2
  DEF Enqueue, TypeOK, LockInv, KindInv, SyncInv, FreshInv, Tokens
<1>3. CASE Acquire(c)
  BY <1>a, <1>3
  DEF Acquire, LockFree, TypeOK, LockInv, KindInv, SyncInv, FreshInv, Tokens
<1>4. CASE Resume(c)
  BY <1>a, <1>4
  DEF Resume, TypeOK, LockInv, KindInv, SyncInv, FreshInv, Tokens
<1>5. CASE Skip(c)
  BY <1>a, <1>5
  DEF Skip, ShouldSkip, TypeOK, LockInv, KindInv, SyncInv, FreshInv, Tokens
<1>6. CASE StartWire(c)
  BY <1>a, <1>6
  DEF StartWire, TokenToSend, ShouldSkip, TypeOK, LockInv, KindInv, SyncInv,
      FreshInv, Tokens
<1>7. CASE ServerRotates(c)
  BY <1>a, <1>7
  DEF ServerRotates, TypeOK, LockInv, KindInv, SyncInv, FreshInv, Tokens
<1>8. CASE RefreshFails(c)
  BY <1>a, <1>8
  DEF RefreshFails, Fail, Release, TypeOK, LockInv, KindInv, SyncInv, FreshInv, Tokens
<1>9. CASE AnswerLost(c)
  BY <1>a, <1>9
  DEF AnswerLost, Fail, Release, TypeOK, LockInv, KindInv, SyncInv, FreshInv, Tokens
<1>10. CASE AnswerArrives(c)
  BY <1>a, <1>10
  DEF AnswerArrives, TypeOK, LockInv, KindInv, SyncInv, FreshInv, Tokens
<1>11. CASE BodyLost(c)
  BY <1>a, <1>11 DEF BodyLost, Fail, TypeOK, LoginInv, Undisturbed, NoLoginYet
<1>12. CASE ReadNew(c)
  BY <1>a, <1>12
  DEF ReadNew, NewAccess, TypeOK, LockInv, KindInv, SyncInv, FreshInv, Tokens
<1>13. CASE Store(c)
  BY <1>a, <1>13
  DEF Store, TypeOK, LockInv, KindInv, SyncInv, FreshInv, Tokens
<1>14. CASE Return(c)
  BY <1>a, <1>14
  DEF Return, Release, TypeOK, LockInv, KindInv, SyncInv, FreshInv, Tokens
<1>15. CASE RunExclusive(c)
  BY <1>a, <1>15
  DEF RunExclusive, TypeOK, LockInv, KindInv, SyncInv, FreshInv, Tokens
<1>16. CASE ExclusiveEnds(c)
  BY <1>a, <1>16
  DEF ExclusiveEnds, Release, TypeOK, LockInv, KindInv, SyncInv, FreshInv, Tokens
<1>17. CASE LoginAnswered(c)
  BY <1>a, <1>17 DEF LoginAnswered, Fail, TypeOK, LoginInv, Undisturbed, NoLoginYet
<1>18. CASE AbsorbCookie(c)
  BY <1>a, <1>18 DEF AbsorbCookie, Fail, TypeOK, LoginInv, Undisturbed, NoLoginYet
<1>19. CASE Seed(c)
  BY <1>a, <1>19 DEF Seed, Fail, TypeOK, LoginInv, Undisturbed, NoLoginYet
<1>20. CASE CancelWaiting(c)
  BY <1>a, <1>20 DEF CancelWaiting, Fail, TypeOK, LoginInv, Undisturbed, NoLoginYet
<1>21. CASE OrphanAcquires(c)
  BY <1>a, <1>21 DEF OrphanAcquires, Fail, TypeOK, LoginInv, Undisturbed, NoLoginYet
<1>22. CASE CancelGranted(c)
  BY <1>a, <1>22 DEF CancelGranted, Fail, TypeOK, LoginInv, Undisturbed, NoLoginYet
<1>23. CASE CancelInFlight(c)
  BY <1>a, <1>23 DEF CancelInFlight, Fail, TypeOK, LoginInv, Undisturbed, NoLoginYet
<1> QED
  BY <1>1, <1>2, <1>3, <1>4, <1>5, <1>6, <1>7, <1>8, <1>9, <1>10, <1>11, <1>12,
     <1>13, <1>14, <1>15, <1>16, <1>17, <1>18, <1>19, <1>20, <1>21, <1>22, <1>23
  DEF GuardStep, WireStep, LoginStep, Cancel

(* The stronger inductive invariant holds in every reachable state.        *)
THEOREM StrongInvariance == Spec => []QInv
<1>1. Init => QInv
  BY InitQInv
<1>2. QInv /\ [Next]_vars => QInv'
  <2> SUFFICES ASSUME QInv, [Next]_vars PROVE QInv'
    OBVIOUS
  <2>1. IInv'
    BY InductiveIInv DEF QInv
  <2>2. CASE \E c \in Callers : GuardStep(c) \/ WireStep(c) \/ LoginStep(c) \/ Cancel(c)
    BY <2>1, <2>2, StepQInv, StepLoginInv DEF QInv
  <2>3. CASE UNCHANGED vars
    BY <2>1, <2>3 DEF vars, QInv, SyncInv, FreshInv, LoginInv, Undisturbed, NoLoginYet
  <2> QED
    BY <2>2, <2>3 DEF Next
<1> QED
  BY <1>1, <1>2, PTL DEF Spec

(* Until a login, a cancellation or a truncated answer comes between, a    *)
(* refresh() that returns has replaced the token its caller saw rejected.  *)
THEOREM RefreshReplaces == Spec => []ReturnsFresher
<1>1. QInv => ReturnsFresher
  BY DEF QInv, FreshInv, ReturnsFresher
<1> QED
  BY <1>1, StrongInvariance, PTL

(* ... and once every caller of the guard has finished its baseline is the *)
(* jar's token.                                                            *)
THEOREM BaselineKept == Spec => []BaselineInSync
<1>1. QInv => BaselineInSync
  BY CallersAssumption
  DEF QInv, SyncInv, LoginInv, BaselineInSync, Undisturbed, NoLoginYet, Finished, Callers
<1> QED
  BY <1>1, StrongInvariance, PTL

-----------------------------------------------------------------------------
(* While nobody has logged in, tokens only get newer: the jar's is newer   *)
(* than what any caller observed once its answer is in, and the guard's is *)
(* never newer than the jar's.                                             *)
AheadInv ==
    /\ cached <= jar
    /\ \A c \in RefreshCallers :
          /\ observed[c] <= jar
          /\ pc[c] \in {"waiting", "granted", "holding"} => observed[c] # NoToken
          /\ pc[c] = "answering" => result[c] > jar
          /\ pc[c] = "arrived" => jar > observed[c]
          /\ pc[c] = "storing" => result[c] = jar /\ jar > observed[c]

(* A caller that sent its refresh is on the wire, has failed, or has given *)
(* the guard a token that its followers do not take for the rejected one.  *)
SpentInv ==
    \A c \in RefreshCallers : sent[c] # NoToken =>
        /\ pc[c] \in InFlight \cup
              {"returning", "done", "failed", "truncated", "cancelled"}
        /\ pc[c] \in {"returning", "done"} => hasAny /\ cached > observed[c]

RotationInv == AheadInv /\ SpentInv /\ OneRotationPerToken

RInv == IInv /\ LoginInv /\ (NoLoginYet => RotationInv)

LEMMA InitRInv == Init => RInv
<1> SUFFICES ASSUME Init PROVE RInv
  OBVIOUS
<1>1. IInv
  BY InitIInv
<1>2. LoginInv /\ RotationInv
  BY <1>1
  DEF Init, IInv, TypeOK, Tokens, LoginInv, RotationInv, AheadInv, SpentInv,
      OneRotationPerToken, Callers
<1> QED
  BY <1>1, <1>2 DEF RInv

(* As long as nobody logs in, every step of one caller keeps it so.        *)
LEMMA StepRotationInv ==
  ASSUME RInv, NoLoginYet', NEW c \in Callers,
         GuardStep(c) \/ WireStep(c) \/ LoginStep(c) \/ Cancel(c)
  PROVE  RotationInv'
<1> USE CallersAssumption DEF Callers, Places, Critical, InFlight, Finished, At,
        Goto, Moves, SessionUnchanged, ServerUnchanged
<1>a. TypeOK /\ LockInv /\ KindInv /\ LoginInv
  BY DEF RInv, IInv
<1>b. c \notin LoginCallers /\ NoLoginYet
  BY <1>a, OneMoves DEF NoLoginYet
<1>c. AheadInv /\ SpentInv /\ OneRotationPerToken
  BY <1>b DEF RInv, RotationInv
<1>1. CASE Observe(c)
  BY <1>a, <1>b, <1>c, <1>1
  DEF Observe, TypeOK, LockInv, KindInv, RotationInv, AheadInv, SpentInv,
      OneRotationPerToken, NoLoginYet, Tokens
<1>2. CASE Enqueue(c)
  BY <1>a, <1>b, <1>c, <1>2
  DEF Enqueue, TypeOK, LockInv, KindInv, RotationInv, AheadInv, SpentInv,
      OneRotationPerToken, NoLoginYet, Tokens
<1>3. CASE Acquire(c)
  BY <1>a, <1>b, <1>c, <1>3
  DEF Acquire, LockFree, TypeOK, LockInv, KindInv, RotationInv, AheadInv, SpentInv,
      OneRotationPerToken, NoLoginYet, Tokens
<1>4. CASE Resume(c)
  BY <1>a, <1>b, <1>c, <1>4
  DEF Resume, TypeOK, LockInv, KindInv, RotationInv, AheadInv, SpentInv,
      OneRotationPerToken, NoLoginYet, Tokens
<1>5. CASE Skip(c)
  BY <1>a, <1>b, <1>c, <1>5
  DEF Skip, ShouldSkip, TypeOK, LockInv, KindInv, RotationInv, AheadInv, SpentInv,
      OneRotationPerToken, NoLoginYet, Tokens
<1>6. CASE StartWire(c)
  <2>1. /\ pc' = [pc EXCEPT ![c] = "wire"] /\ sent' = [sent EXCEPT ![c] = jar]
        /\ UNCHANGED <<cached, hasAny, jar, observed, result>>
        /\ c \in RefreshCallers /\ pc[c] = "holding" /\ ~ShouldSkip(c)
    BY <1>6 DEF StartWire, TokenToSend
  <2>2. AheadInv' /\ SpentInv'
    BY <1>a, <1>c, <2>1 DEF TypeOK, AheadInv, SpentInv
  <2>3. ASSUME NEW d \in RefreshCallers, d # c, sent[d] # NoToken, observed[d] = observed[c]
        PROVE  pc[d] \in {"failed", "truncated", "cancelled"}
    <3>1. pc[d] \notin InFlight \cup {"returning"}
      BY <1>a, <2>1, <2>3 DEF LockInv
    <3>2. pc[d] # "done"
      BY <1>a, <1>c, <2>1, <2>3 DEF ShouldSkip, AheadInv, SpentInv, TypeOK, Tokens
    <3> QED
      BY <1>c, <2>3, <3>1, <3>2 DEF SpentInv
  <2>4. OneRotationPerToken'
    BY <1>a, <1>b, <1>c, <2>1, <2>3 DEF TypeOK, OneRotationPerToken
  <2> QED
    BY <2>2, <2>4 DEF RotationInv
<1>7. CASE ServerRotates(c)
  BY <1>a, <1>b, <1>c, <1>7
  DEF ServerRotates, TypeOK, LockInv, KindInv, RotationInv, AheadInv, SpentInv,
      OneRotationPerToken, NoLoginYet, Tokens
<1>8. CASE RefreshFails(c)
  BY <1>a, <1>b, <1>c, <1>8
  DEF RefreshFails, Fail, Release, TypeOK, LockInv, KindInv, RotationInv, AheadInv,
      SpentInv,
      OneRotationPerToken, NoLoginYet, Tokens
<1>9. CASE AnswerLost(c)
  BY <1>a, <1>b, <1>c, <1>9
  DEF AnswerLost, Fail, Release, TypeOK, LockInv, KindInv, RotationInv, AheadInv, SpentInv,
      OneRotationPerToken, NoLoginYet, Tokens
<1>10. CASE AnswerArrives(c)
  BY <1>a, <1>b, <1>c, <1>10
  DEF AnswerArrives, TypeOK, LockInv, KindInv, RotationInv, AheadInv, SpentInv,
      OneRotationPerToken, NoLoginYet, Tokens
<1>11. CASE BodyLost(c)
  BY <1>a, <1>b, <1>c, <1>11
  DEF BodyLost, Fail, Release, TypeOK, LockInv, KindInv, RotationInv, AheadInv, SpentInv,
      OneRotationPerToken, NoLoginYet, Tokens
<1>12. CASE ReadNew(c)
  BY <1>a, <1>b, <1>c, <1>12
  DEF ReadNew, NewAccess, TypeOK, LockInv, KindInv, RotationInv, AheadInv, SpentInv,
      OneRotationPerToken, NoLoginYet, Tokens
<1>13. CASE Store(c)
  BY <1>a, <1>b, <1>c, <1>13
  DEF Store, TypeOK, LockInv, KindInv, RotationInv, AheadInv, SpentInv,
      OneRotationPerToken, NoLoginYet, Tokens
<1>14. CASE Return(c)
  BY <1>a, <1>b, <1>c, <1>14
  DEF Return, Release, TypeOK, LockInv, KindInv, RotationInv, AheadInv, SpentInv,
      OneRotationPerToken, NoLoginYet, Tokens
<1>15. CASE RunExclusive(c)
  BY <1>a, <1>b, <1>c, <1>15
  DEF RunExclusive, TypeOK, LockInv, KindInv, RotationInv, AheadInv, SpentInv,
      OneRotationPerToken, NoLoginYet, Tokens
<1>16. CASE ExclusiveEnds(c)
  BY <1>a, <1>b, <1>c, <1>16
  DEF ExclusiveEnds, Release, TypeOK, LockInv, KindInv, RotationInv, AheadInv, SpentInv,
      OneRotationPerToken, NoLoginYet, Tokens
<1>17. CASE CancelWaiting(c)
  BY <1>a, <1>b, <1>c, <1>17
  DEF CancelWaiting, TypeOK, LockInv, KindInv, RotationInv, AheadInv, SpentInv,
      OneRotationPerToken, NoLoginYet, Tokens
<1>18. CASE OrphanAcquires(c)
  BY <1>a, <1>b, <1>c, <1>18
  DEF OrphanAcquires, LockFree, TypeOK, LockInv, KindInv, RotationInv, AheadInv, SpentInv,
      OneRotationPerToken, NoLoginYet, Tokens
<1>19. CASE CancelGranted(c)
  BY <1>a, <1>b, <1>c, <1>19
  DEF CancelGranted, TypeOK, LockInv, KindInv, RotationInv, AheadInv, SpentInv,
      OneRotationPerToken, NoLoginYet, Tokens
<1>20. CASE CancelInFlight(c)
  BY <1>a, <1>b, <1>c, <1>20
  DEF CancelInFlight, Release, TypeOK, LockInv, KindInv, RotationInv, AheadInv, SpentInv,
      OneRotationPerToken, NoLoginYet, Tokens
<1>l. CASE LoginStep(c)
  BY <1>a, <1>b, <1>l DEF LoginStep, LoginAnswered, AbsorbCookie, Seed, LoginInv
<1> QED
  BY <1>1, <1>2, <1>3, <1>4, <1>5, <1>6, <1>7, <1>8, <1>9, <1>10, <1>11, <1>12,
     <1>13, <1>14, <1>15, <1>16, <1>17, <1>18, <1>19, <1>20, <1>l
  DEF GuardStep, WireStep, Cancel

(* The inductive invariant of the rotations.                               *)
THEOREM RotationInvariance == Spec => []RInv
<1>1. Init => RInv
  BY InitRInv
<1>2. RInv /\ [Next]_vars => RInv'
  <2> SUFFICES ASSUME RInv, [Next]_vars PROVE RInv'
    OBVIOUS
  <2>1. IInv'
    BY InductiveIInv DEF RInv
  <2>2. CASE \E c \in Callers : GuardStep(c) \/ WireStep(c) \/ LoginStep(c) \/ Cancel(c)
    BY <2>1, <2>2, StepRotationInv, StepLoginInv DEF RInv
  <2>3. CASE UNCHANGED vars
    BY <2>1, <2>3
    DEF vars, RInv, LoginInv, NoLoginYet, RotationInv, AheadInv, SpentInv,
        OneRotationPerToken
  <2> QED
    BY <2>2, <2>3 DEF Next
<1> QED
  BY <1>1, <1>2, PTL DEF Spec

(* Until somebody logs in, of the callers that saw the same token rejected *)
(* at most one rotates it without failing, whatever fails or is cancelled. *)
THEOREM RotatesOnce == Spec => []OneRotationPerToken
<1>1. RInv => OneRotationPerToken
  BY DEF RInv, RotationInv, OneRotationPerToken
<1> QED
  BY <1>1, RotationInvariance, PTL
=============================================================================
