---------------------------- MODULE RefreshGuard ----------------------------
(***************************************************************************)
(* The single-flight refresh guard of one session                          *)
(* (axiam_sdk/token/refresh_guard.py) together with everything its         *)
(* correctness depends on: the cookie jar that refresh() reads and that    *)
(* the transport updates (_client.py), the logins that seed the guard      *)
(* without taking its lock, the oidc_refresh calls that borrow the lock    *)
(* (run_exclusive), and a server that rotates single-use refresh tokens.   *)
(*                                                                         *)
(* A caller makes one call.  An access token and the refresh token issued  *)
(* with it are one number, numbered in the order the server issues them. A *)
(* caller in AsyncCallers is a coroutine: its acquire() runs on an         *)
(* executor thread, and the coroutine resumes later.  A caller in          *)
(* Cancellable may be cancelled at any await.                              *)
(***************************************************************************)
EXTENDS Naturals, FiniteSets

CONSTANTS
    RefreshCallers,    \* callers of refresh(), each after a 401 of its own
    ExclusiveCallers,  \* leaders of an oidc_refresh, in run_exclusive
    LoginCallers,      \* callers of login() and the other calls that open a session
    AsyncCallers,      \* the callers that are coroutines; the others are threads
    Cancellable,       \* the coroutines that may be cancelled
    Faults,            \* which failures the transport and the server may show
    NoOne              \* the holder of a free lock

Callers == RefreshCallers \cup ExclusiveCallers \cup LoginCallers

(* The three kinds of callers are disjoint, only a coroutine that takes    *)
(* the lock can be cancelled, and NoOne is no caller.                      *)
ASSUME CallersAssumption ==
    /\ RefreshCallers \cap ExclusiveCallers = {}
    /\ RefreshCallers \cap LoginCallers = {}
    /\ ExclusiveCallers \cap LoginCallers = {}
    /\ AsyncCallers \subseteq RefreshCallers \cup ExclusiveCallers
    /\ Cancellable \subseteq AsyncCallers
    /\ NoOne \notin Callers

(* "refused": the server or the transport fails the call and the token is  *)
(* still good; "lost": the server rotated and the answer never arrives;    *)
(* "truncated": the headers, and so the cookies, arrive and the body does  *)
(* not.                                                                    *)
ASSUME FaultsAssumption == Faults \subseteq {"refused", "lost", "truncated"}

NoToken == 0

VARIABLES
    pc,        \* where each caller is
    lock,      \* RefreshGuard._lock: the caller it was acquired for, or NoOne
    cached,    \* RefreshGuard._cached_access
    hasAny,    \* RefreshGuard._has_any
    jar,       \* the session's cookie jar
    observed,  \* the token each caller read before it queued for the lock
    sent,      \* the token each caller's refresh request carried
    result,    \* the token each caller was answered with, or read back
    valid,     \* the tokens the server would accept now
    lost,      \* tokens the server consumed in a call that then failed
    issued     \* how many tokens the server has issued

vars == <<pc, lock, cached, hasAny, jar, observed, sent, result, valid, lost,
          issued>>

(* Where a caller may be.  "granted": an executor thread has acquired the  *)
(* lock for a coroutine that has not resumed.  "orphan": the coroutine was *)
(* cancelled while its executor thread is still blocked in acquire();      *)
(* "leaked": such a thread was given the lock, and nobody will release it. *)
InFlight == {"wire", "answering", "arrived", "storing"}
Critical == {"granted", "holding", "returning"} \cup InFlight
Finished == {"done", "failed", "truncated", "cancelled", "leaked"}
Places   == {"start", "waiting", "orphan", "absorbing", "seeding"}
                \cup Critical \cup Finished

Init ==
    /\ pc = [c \in Callers |-> "start"]
    /\ lock = NoOne
    /\ jar \in {NoToken, 1}
    /\ hasAny \in IF jar = NoToken THEN {FALSE} ELSE BOOLEAN
    /\ cached = IF hasAny THEN jar ELSE NoToken
    /\ issued = jar
    /\ valid = {jar} \ {NoToken}
    /\ lost = {}
    /\ observed = [c \in Callers |-> NoToken]
    /\ sent = [c \in Callers |-> NoToken]
    /\ result = [c \in Callers |-> NoToken]

-----------------------------------------------------------------------------
(* What one step of a caller is made of.                                   *)

At(c, place) == pc[c] = place

Goto(c, place) == pc' = [pc EXCEPT ![c] = place]

(* Mutant: one lock per paradigm, the defect CR-01 fixed.                  *)
LockFree_TwoLocks(c) ==
    lock = NoOne \/ ((lock \in AsyncCallers) # (c \in AsyncCallers))

(* One OS-level lock for both paradigms.                                   *)
LockFree(c) == lock = NoOne

(* Mutant: run_exclusive forgets its `finally`.                            *)
Release_NotExclusive(c) == lock' = IF c \in ExclusiveCallers THEN lock ELSE NoOne

(* The `finally` of both entry points.                                     *)
Release(c) == lock' = NoOne

(* Mutants: no double check; any cached token is good enough.              *)
ShouldSkip_Never(c)  == FALSE
ShouldSkip_Always(c) == hasAny

(* _should_skip_refresh.                                                   *)
ShouldSkip(c) == hasAny /\ observed[c] # NoToken /\ cached # observed[c]

(* Mutant: the request carries the guard's token.                          *)
TokenToSend_Cached(c) == cached

(* The refresh request carries whatever the jar holds when it is built.    *)
TokenToSend(c) == jar

(* Mutant: the token read before the answer's cookies were.                *)
NewAccess_Old(c) == observed[c]

(* _handle_refresh_response reads the new token back from the shared jar.  *)
NewAccess(c) == jar

(* The session's state is left alone.                                      *)
SessionUnchanged == UNCHANGED <<cached, hasAny, jar>>
ServerUnchanged  == UNCHANGED <<valid, lost, issued>>

(* A step that only moves c, and possibly changes the lock.                *)
Moves(c, place) ==
    /\ Goto(c, place)
    /\ SessionUnchanged /\ ServerUnchanged
    /\ UNCHANGED <<observed, sent, result>>

(* The refresh of c fails: the exception leaves the critical section.      *)
Fail(c, place) ==
    /\ Goto(c, place)
    /\ Release(c)

-----------------------------------------------------------------------------
(* refresh() up to the guard: the observed token is read from the jar.     *)
Observe(c) ==
    /\ c \in RefreshCallers
    /\ At(c, "start")
    /\ IF jar = NoToken
          THEN Goto(c, "failed") /\ UNCHANGED observed
          ELSE Goto(c, "waiting") /\ observed' = [observed EXCEPT ![c] = jar]
    /\ SessionUnchanged /\ ServerUnchanged
    /\ UNCHANGED <<lock, sent, result>>

(* A call of run_exclusive queues for the lock at once.                    *)
Enqueue(c) ==
    /\ c \in ExclusiveCallers
    /\ At(c, "start")
    /\ Moves(c, "waiting")
    /\ UNCHANGED lock

(* acquire() returns: in the thread itself, or in an executor thread.      *)
Acquire(c) ==
    /\ At(c, "waiting")
    /\ LockFree(c)
    /\ lock' = c
    /\ Moves(c, IF c \in AsyncCallers THEN "granted" ELSE "holding")

(* The event loop resumes the coroutine whose acquire() has returned.      *)
Resume(c) ==
    /\ At(c, "granted")
    /\ Moves(c, "holding")
    /\ UNCHANGED lock

(* The double check finds that somebody else refreshed.                    *)
Skip(c) ==
    /\ c \in RefreshCallers
    /\ At(c, "holding")
    /\ ShouldSkip(c)
    /\ Moves(c, "returning")
    /\ UNCHANGED lock

(* do_refresh builds and sends the request, with the jar's cookie.         *)
StartWire(c) ==
    /\ c \in RefreshCallers
    /\ At(c, "holding")
    /\ ~ShouldSkip(c)
    /\ sent' = [sent EXCEPT ![c] = TokenToSend(c)]
    /\ Goto(c, "wire")
    /\ SessionUnchanged /\ ServerUnchanged
    /\ UNCHANGED <<lock, observed, result>>

(* The server consumes the token and issues its successor.                 *)
ServerRotates(c) ==
    /\ c \in RefreshCallers
    /\ At(c, "wire")
    /\ sent[c] \in valid
    /\ issued' = issued + 1
    /\ valid' = (valid \ {sent[c]}) \cup {issued'}
    /\ result' = [result EXCEPT ![c] = issued']
    /\ Goto(c, "answering")
    /\ SessionUnchanged
    /\ UNCHANGED <<lock, observed, sent, lost>>

(* A status other than 200, or a transport failure the server never saw.   *)
RefreshFails(c) ==
    /\ c \in RefreshCallers
    /\ At(c, "wire")
    /\ sent[c] \notin valid \/ "refused" \in Faults
    /\ Fail(c, "failed")
    /\ SessionUnchanged /\ ServerUnchanged
    /\ UNCHANGED <<observed, sent, result>>

(* The server rotated and the connection broke before its answer.          *)
AnswerLost(c) ==
    /\ At(c, "answering")
    /\ "lost" \in Faults
    /\ Fail(c, "failed")
    /\ lost' = lost \cup {sent[c]}
    /\ SessionUnchanged
    /\ UNCHANGED <<observed, sent, result, valid, issued>>

(* The answer's headers arrive: the transport puts its cookies in the jar. *)
AnswerArrives(c) ==
    /\ At(c, "answering")
    /\ jar' = result[c]
    /\ Goto(c, "arrived")
    /\ ServerUnchanged
    /\ UNCHANGED <<lock, cached, hasAny, observed, sent, result>>

(* The body of the answer cannot be read.                                  *)
BodyLost(c) ==
    /\ At(c, "arrived")
    /\ "truncated" \in Faults
    /\ Fail(c, "truncated")
    /\ SessionUnchanged /\ ServerUnchanged
    /\ UNCHANGED <<observed, sent, result>>

(* _handle_refresh_response.                                               *)
ReadNew(c) ==
    /\ At(c, "arrived")
    /\ result' = [result EXCEPT ![c] = NewAccess(c)]
    /\ Goto(c, "storing")
    /\ SessionUnchanged /\ ServerUnchanged
    /\ UNCHANGED <<lock, observed, sent>>

(* _store_refreshed.                                                       *)
Store(c) ==
    /\ At(c, "storing")
    /\ cached' = result[c]
    /\ hasAny' = TRUE
    /\ Goto(c, "returning")
    /\ ServerUnchanged
    /\ UNCHANGED <<lock, jar, observed, sent, result>>

(* _require_cached_access, and the lock is released.                       *)
Return(c) ==
    /\ At(c, "returning")
    /\ result' = [result EXCEPT ![c] = cached]
    /\ Goto(c, "done")
    /\ Release(c)
    /\ SessionUnchanged /\ ServerUnchanged
    /\ UNCHANGED <<observed, sent>>

(* run_exclusive: fn() is on the wire, then it returns or raises.          *)
RunExclusive(c) ==
    /\ c \in ExclusiveCallers
    /\ At(c, "holding")
    /\ Moves(c, "wire")
    /\ UNCHANGED lock

ExclusiveEnds(c) ==
    /\ c \in ExclusiveCallers
    /\ At(c, "wire")
    /\ Moves(c, "done") \/ Moves(c, "failed")
    /\ Release(c)

-----------------------------------------------------------------------------
(* A login is answered: a new session, whose cookies are now in the jar.   *)
LoginAnswered(c) ==
    /\ c \in LoginCallers
    /\ At(c, "start")
    /\ issued' = issued + 1
    /\ valid' = valid \cup {issued'}
    /\ jar' = issued'
    /\ Goto(c, "absorbing")
    /\ UNCHANGED <<lock, cached, hasAny, observed, sent, result, lost>>

(* _absorb_session_cookies reads the token back from the shared jar ...    *)
AbsorbCookie(c) ==
    /\ At(c, "absorbing")
    /\ result' = [result EXCEPT ![c] = jar]
    /\ Goto(c, "seeding")
    /\ SessionUnchanged /\ ServerUnchanged
    /\ UNCHANGED <<lock, observed, sent>>

(* ... and seeds the guard, without its lock.                              *)
Seed(c) ==
    /\ At(c, "seeding")
    /\ cached' = result[c]
    /\ hasAny' = TRUE
    /\ Goto(c, "done")
    /\ ServerUnchanged
    /\ UNCHANGED <<lock, jar, observed, sent, result>>

-----------------------------------------------------------------------------
(* A coroutine is cancelled while it awaits the executor.  A thread that   *)
(* is already blocked in acquire() stays there; one still queued in the    *)
(* pool is dropped.                                                        *)
CancelWaiting(c) ==
    /\ c \in Cancellable
    /\ At(c, "waiting")
    /\ Moves(c, "orphan") \/ Moves(c, "cancelled")
    /\ UNCHANGED lock

(* The abandoned thread is given the lock.                                 *)
OrphanAcquires(c) ==
    /\ At(c, "orphan")
    /\ LockFree(c)
    /\ lock' = c
    /\ Moves(c, "leaked")

(* Cancelled after acquire() has returned and before the coroutine         *)
(* resumed: the CancelledError is raised outside the `try`.                *)
CancelGranted(c) ==
    /\ c \in Cancellable
    /\ At(c, "granted")
    /\ Moves(c, "leaked")
    /\ UNCHANGED lock

(* Cancelled inside do_refresh() or fn(): the `finally` releases the lock. *)
CancelInFlight(c) ==
    /\ c \in Cancellable
    /\ pc[c] \in {"wire", "answering", "arrived"}
    /\ Goto(c, "cancelled")
    /\ Release(c)
    /\ lost' = IF At(c, "answering") THEN lost \cup {sent[c]} ELSE lost
    /\ SessionUnchanged
    /\ UNCHANGED <<observed, sent, result, valid, issued>>

-----------------------------------------------------------------------------
(* Steps the program takes by itself; a cancellation comes from outside.   *)
GuardStep(c) ==
    \/ Observe(c) \/ Enqueue(c) \/ Acquire(c) \/ Resume(c)
    \/ Skip(c) \/ StartWire(c) \/ ReadNew(c) \/ Store(c) \/ Return(c)
    \/ RunExclusive(c) \/ ExclusiveEnds(c)
    \/ OrphanAcquires(c)

WireStep(c) ==
    \/ ServerRotates(c) \/ RefreshFails(c) \/ AnswerLost(c)
    \/ AnswerArrives(c) \/ BodyLost(c)

LoginStep(c) == LoginAnswered(c) \/ AbsorbCookie(c) \/ Seed(c)

Cancel(c) == CancelWaiting(c) \/ CancelGranted(c) \/ CancelInFlight(c)

Next == \E c \in Callers : GuardStep(c) \/ WireStep(c) \/ LoginStep(c) \/ Cancel(c)

Spec == Init /\ [][Next]_vars

(* Threads and coroutines are scheduled, and every request is answered or  *)
(* times out.  Nothing is assumed of cancellation.                         *)
FairSpec ==
    /\ Spec
    /\ \A c \in Callers : WF_vars(GuardStep(c) \/ WireStep(c) \/ LoginStep(c))

-----------------------------------------------------------------------------
Tokens == 0 .. issued

(* The type invariant; no token is known that the server has not issued    *)
(* (_require_cached_access).                                               *)
TypeOK ==
    /\ pc \in [Callers -> Places]
    /\ lock \in Callers \cup {NoOne}
    /\ issued \in Nat
    /\ cached \in Tokens /\ jar \in Tokens
    /\ hasAny \in BOOLEAN
    /\ observed \in [Callers -> Tokens]
    /\ sent \in [Callers -> Tokens]
    /\ result \in [Callers -> Tokens]
    /\ valid \subseteq Tokens \ {NoToken}
    /\ lost \subseteq Tokens \ {NoToken}

(* At any time at most one call that rotates tokens is in flight,          *)
(* whichever of sync, async and oidc_refresh started it (refresh_guard.py, *)
(* CR-01).                                                                 *)
MutualExclusion ==
    \A c, d \in Callers : pc[c] \in InFlight /\ pc[d] \in InFlight => c = d

(* A refresh never carries a token that an earlier refresh has consumed,   *)
(* unless that refresh's answer was lost, and then the SDK cannot know:    *)
(* the request is built from the jar, under the lock, and the jar is       *)
(* updated before the lock is released (_do_refresh_sync,                  *)
(* _do_refresh_async).                                                     *)
NoReplay ==
    \A c \in RefreshCallers : pc[c] = "wire" => sent[c] \in valid \cup lost

(* The lock is held only by a caller that will go through the `finally` of *)
(* the entry points; "the lock is always released in a `finally`".         *)
ReleasedByFinally == lock # NoOne => pc[lock] \in Critical

NoLoginYet == \A c \in LoginCallers : pc[c] = "start"

(* Of the callers that set out from the same token, which refresh() reads  *)
(* from the jar after the 401, at most one performs a refresh that does    *)
(* not fail: the others find its token in the cache                        *)
(* (_should_skip_refresh), unless a login has changed it meanwhile.        *)
OneRotationPerToken ==
    NoLoginYet => \A c, d \in RefreshCallers :
        /\ c # d
        /\ observed[c] = observed[d]
        /\ sent[c] # NoToken /\ sent[d] # NoToken
        => {pc[c], pc[d]} \cap {"failed", "truncated", "cancelled"} # {}

(* So far nobody has logged in, no coroutine was cancelled, and no answer  *)
(* was cut off between its cookies and its body.                           *)
Undisturbed ==
    /\ NoLoginYet
    /\ \A c \in Callers :
          pc[c] \notin {"orphan", "leaked", "cancelled", "truncated"}

(* refresh() returns normally only with a token issued after the one the   *)
(* caller saw rejected, so the retry that follows does not repeat the 401. *)
ReturnsFresher ==
    Undisturbed =>
        \A c \in RefreshCallers : pc[c] = "done" => result[c] > observed[c]

(* Once nothing is in progress, the guard's baseline is the session's      *)
(* token: the next 401 compares the observed token with that very token.   *)
BaselineInSync ==
    /\ Undisturbed /\ hasAny
    /\ \A c \in Callers \ LoginCallers : pc[c] \in Finished
    => cached = jar

(* Every caller is answered, with a token or an exception: nobody waits    *)
(* for the lock for ever, unless a cancelled acquire() left it held.       *)
AllAnswered ==
    \A c \in Callers :
        <>(pc[c] \in Finished \/ \E d \in Callers : pc[d] = "leaked")
=============================================================================
