------------------------------ MODULE Session -------------------------------
(* Whose credential an AsyncAxiamClient uses (_session.py, _client.py,     *)
(* _async_client.py): the cookie jar, the device credential that may be    *)
(* held in its place, and the guard that the next refresh goes through,    *)
(* while requests, logins, a device login and a logout overlap on one      *)
(* event loop.  What a coroutine does between two awaits is one step.      *)
(* RefreshGuard has the inside of one guard; here logout and               *)
(* authenticate_device replace it while a refresh still holds the old one. *)
(* Cookies are numbered in the order the server issues them.               *)
EXTENDS Naturals

CONSTANTS
    Requesters,   \* coroutines that call check_access, one call each
    Logins,       \* coroutines that call login(), or another such call
    Devices,      \* coroutines that call authenticate_device()
    Logouts,      \* coroutines that call logout()
    NoOne         \* the holder of a free lock

VARIABLES
    spc,         \* where each coroutine is
    jar,         \* the session's axiam_access cookie, or NoCookie
    bearer,      \* whether the session holds a device credential
    guard,       \* the number of the current refresh_guard
    lock,        \* of every guard so far: who holds its lock
    baseline,    \* of every guard so far: its cached access token
    entered,     \* the guard each requester's refresh goes through
    observed,    \* the cookie each requester's refresh set out from
    request,     \* the last request each requester sent
    held,        \* history: whether a device credential was held then
    answer,      \* the cookie a refresh or a logout was sent with, then the
                 \* one the server's answer carries
    redeemable,  \* the cookies whose refresh token the server would accept
    issued       \* how many cookies the server has issued

store == <<jar, bearer, guard, lock, baseline>>
calls == <<entered, observed, request, held, answer>>
server == <<redeemable, issued>>
vars == <<spc, store, calls, server>>

Callers == Requesters \cup Logins \cup Devices \cup Logouts
NoCookie == 0
Guards == 0 .. 4   \* bound of how often the guard is replaced

Unsent == [cookie |-> NoCookie, bearer |-> FALSE]

Init ==
    /\ spc = [c \in Callers |-> "start"]
    /\ jar = 1 /\ bearer = FALSE
    /\ guard = 0
    /\ lock = [g \in Guards |-> NoOne]
    /\ baseline = [g \in Guards |-> IF g = 0 THEN jar ELSE NoCookie]
    /\ entered = [c \in Requesters |-> 0]
    /\ observed = [c \in Requesters |-> NoCookie]
    /\ request = [c \in Requesters |-> Unsent]
    /\ held = [c \in Requesters |-> FALSE]
    /\ answer = [c \in Requesters \cup Logouts |-> NoCookie]
    /\ redeemable = {1} /\ issued = 1

At(c, place) == spc[c] = place
Goto(c, place) == spc' = [spc EXCEPT ![c] = place]

-----------------------------------------------------------------------------
(* Mutant: no explicit empty Cookie; clearing the jar is thought enough.   *)
Prepared_KeepsCookie(authorization) ==
    [cookie |-> jar, bearer |-> authorization \/ bearer]

(* What build_request and _apply_bearer_credential make of a request: the  *)
(* jar's cookie, unless a device credential is held or the request brings  *)
(* an Authorization header of its own.                                     *)
Prepared(authorization) ==
    IF authorization \/ bearer
        THEN [cookie |-> NoCookie, bearer |-> TRUE]
        ELSE [cookie |-> jar, bearer |-> FALSE]

Sends(c, authorization) ==
    /\ request' = [request EXCEPT ![c] = Prepared(authorization)]
    /\ held' = [held EXCEPT ![c] = bearer]

(* A new RefreshGuard in place of the old one; whoever is inside the old   *)
(* one stays there.                                                        *)
ResetGuard == guard + 1 \in Guards /\ guard' = guard + 1 /\ UNCHANGED <<lock, baseline>>

Release(c) == lock' = [lock EXCEPT ![entered[c]] = NoOne]

(* _retry_after_refresh_async: the request is built again, with the        *)
(* headers of the first but for its cookie.                                *)
Resend(c) == Sends(c, request[c].bearer) /\ Goto(c, "resent")

-----------------------------------------------------------------------------
(* check_access sends its request.                                         *)
Send(c) ==
    /\ c \in Requesters /\ At(c, "start")
    /\ Sends(c, FALSE)
    /\ Goto(c, "sent")
    /\ UNCHANGED <<store, entered, observed, answer, server>>

(* The server takes the request, or refuses it for good.                   *)
Answered(c) ==
    /\ c \in Requesters /\ spc[c] \in {"sent", "resent"}
    /\ Goto(c, "done") \/ Goto(c, "failed")
    /\ UNCHANGED <<store, calls, server>>

(* A 401 to the first request: refresh(), unless a device credential is    *)
(* held or there is nothing to refresh.                                    *)
Unauthorized(c) ==
    /\ c \in Requesters /\ At(c, "sent")
    /\ ~bearer /\ jar # NoCookie
    /\ observed' = [observed EXCEPT ![c] = jar]
    /\ entered' = [entered EXCEPT ![c] = guard]
    /\ Goto(c, "queued")
    /\ UNCHANGED <<store, request, held, answer, server>>

(* The lock is had, and the double check finds a newer token.              *)
SkipRefresh(c) ==
    /\ c \in Requesters /\ At(c, "queued")
    /\ lock[entered[c]] = NoOne
    /\ baseline[entered[c]] \notin {NoCookie, observed[c]}
    /\ Resend(c)
    /\ UNCHANGED <<store, entered, observed, answer, server>>

(* The lock is had and the refresh request sent.  It waits on the wire.    *)
SendRefresh(c) ==
    /\ c \in Requesters /\ At(c, "queued")
    /\ lock[entered[c]] = NoOne
    /\ baseline[entered[c]] \in {NoCookie, observed[c]}
    /\ lock' = [lock EXCEPT ![entered[c]] = c]
    /\ answer' = [answer EXCEPT ![c] = Prepared(FALSE).cookie]
    /\ Goto(c, "refreshing")
    /\ UNCHANGED <<jar, bearer, guard, baseline, entered, observed, request, held, server>>

(* The server rotates the refresh token it was sent ...                    *)
Rotate(c) ==
    /\ c \in Requesters /\ At(c, "refreshing")
    /\ answer[c] \in redeemable
    /\ issued' = issued + 1
    /\ redeemable' = (redeemable \ {answer[c]}) \cup {issued'}
    /\ answer' = [answer EXCEPT ![c] = issued']
    /\ Goto(c, "rotated")
    /\ UNCHANGED <<store, entered, observed, request, held>>

(* ... or refuses it, or the transport fails: so does the whole call.      *)
RefreshFails(c) ==
    /\ c \in Requesters /\ spc[c] \in {"refreshing", "rotated", "arrived"}
    /\ Release(c)
    /\ Goto(c, "failed")
    /\ UNCHANGED <<jar, bearer, guard, baseline, calls, server>>

(* The answer's headers arrive, whatever became of the session meanwhile:  *)
(* httpx puts its cookies in the jar.                                      *)
AnswerArrives(c) ==
    /\ c \in Requesters /\ At(c, "rotated")
    /\ jar' = answer[c]
    /\ Goto(c, "arrived")
    /\ UNCHANGED <<bearer, guard, lock, baseline, calls, server>>

(* Mutant: the answer is stored in whichever guard the session has by now. *)
StoredIn_Current(c) == guard

(* The guard that was entered is the one the answer is stored in.          *)
StoredIn(c) == entered[c]

(* _handle_refresh_response reads the jar, the guard keeps what was read,  *)
(* the lock is released and the first request sent again.                  *)
Refreshed(c) ==
    /\ c \in Requesters /\ At(c, "arrived")
    /\ Release(c)
    /\ IF jar = NoCookie
          THEN Goto(c, "failed") /\ UNCHANGED <<baseline, request, held>>
          ELSE baseline' = [baseline EXCEPT ![StoredIn(c)] = jar] /\ Resend(c)
    /\ UNCHANGED <<jar, bearer, guard, entered, observed, answer, server>>

-----------------------------------------------------------------------------
(* The answer to a login arrives: its cookies are in the jar.              *)
LoginAnswered(c) ==
    /\ c \in Logins /\ At(c, "start")
    /\ issued' = issued + 1
    /\ redeemable' = redeemable \cup {issued'}
    /\ jar' = issued'
    /\ Goto(c, "arrived")
    /\ UNCHANGED <<bearer, guard, lock, baseline, calls>>

(* Mutant: the device credential is dropped before the cookies are looked  *)
(* for.                                                                    *)
BearerAfterLogin_Dropped == FALSE

(* clear_bearer_credential is reached only with a cookie in the jar.       *)
BearerAfterLogin == bearer /\ jar = NoCookie

(* _absorb_session_cookies.                                                *)
Absorb(c) ==
    /\ c \in Logins /\ At(c, "arrived")
    /\ bearer' = BearerAfterLogin
    /\ IF jar = NoCookie
          THEN Goto(c, "failed") /\ UNCHANGED baseline
          ELSE Goto(c, "done") /\ baseline' = [baseline EXCEPT ![guard] = jar]
    /\ UNCHANGED <<jar, guard, lock, calls, server>>

(* adopt_bearer_credential, when a device login is answered.               *)
Adopt(c) ==
    /\ c \in Devices /\ At(c, "start")
    /\ jar' = NoCookie
    /\ ResetGuard
    /\ bearer' = TRUE
    /\ Goto(c, "done")
    /\ UNCHANGED <<calls, server>>

(* logout() names the session of the jar's cookie, or else the device's.   *)
SendLogout(c) ==
    /\ c \in Logouts /\ At(c, "start")
    /\ jar # NoCookie \/ bearer
    /\ answer' = [answer EXCEPT ![c] = jar]
    /\ Goto(c, "sent")
    /\ UNCHANGED <<store, entered, observed, request, held, server>>

(* The server ends that session, and its answer empties the jar, whatever  *)
(* is in it by now ...                                                     *)
LogoutAnswered(c) ==
    /\ c \in Logouts /\ At(c, "sent")
    /\ redeemable' = redeemable \ {answer[c]}
    /\ jar' = NoCookie
    /\ Goto(c, "arrived")
    /\ UNCHANGED <<bearer, guard, lock, baseline, calls, issued>>

(* ... and the client then forgets guard and device credential.            *)
EndSession(c) ==
    /\ c \in Logouts /\ At(c, "arrived")
    /\ ResetGuard
    /\ bearer' = FALSE
    /\ Goto(c, "done")
    /\ UNCHANGED <<jar, calls, server>>

-----------------------------------------------------------------------------
Request(c) ==
    \/ Send(c) \/ Answered(c) \/ Unauthorized(c) \/ SkipRefresh(c)
    \/ SendRefresh(c) \/ Rotate(c) \/ RefreshFails(c) \/ AnswerArrives(c)
    \/ Refreshed(c)

SignInOrOut(c) ==
    \/ LoginAnswered(c) \/ Absorb(c) \/ Adopt(c)
    \/ SendLogout(c) \/ LogoutAnswered(c) \/ EndSession(c)

Next == \E c \in Callers : Request(c) \/ SignInOrOut(c)

Spec == Init /\ [][Next]_vars

-----------------------------------------------------------------------------
(* The type invariant.                                                     *)
TypeOK ==
    /\ spc \in [Callers -> {"start", "sent", "queued", "refreshing", "rotated",
                            "arrived", "resent", "done", "failed"}]
    /\ jar \in 0 .. issued /\ bearer \in BOOLEAN
    /\ guard \in Guards
    /\ lock \in [Guards -> Requesters \cup {NoOne}]
    /\ baseline \in [Guards -> 0 .. issued]
    /\ entered \in [Requesters -> Guards]
    /\ observed \in [Requesters -> 0 .. issued]
    /\ request \in [Requesters -> [cookie : 0 .. issued, bearer : BOOLEAN]]
    /\ held \in [Requesters -> BOOLEAN]
    /\ answer \in [Requesters \cup Logouts -> 0 .. issued]
    /\ redeemable \subseteq 1 .. issued

(* While a device credential is held, no request is sent that the server   *)
(* would run as an earlier session, though the answer of a refresh that    *)
(* was in flight may have put that session's cookie back into the jar: the *)
(* server reads the cookie before the header (_apply_bearer_credential).   *)
RunsAsAdopted ==
    \A c \in Requesters : held[c] => request[c].cookie = NoCookie /\ request[c].bearer

(* "An earlier session's observed baseline must not survive into one that  *)
(* has nothing to refresh against", whatever answers are still to come     *)
(* (adopt_bearer_credential).                                              *)
BaselineForgotten == bearer => baseline[guard] = NoCookie

(* A login or a device login that returned normally leaves the session     *)
(* with a credential until somebody logs out, in whatever order the        *)
(* answers of several arrive (_absorb_session_cookies).                    *)
NotStranded ==
    /\ \E c \in Logins \cup Devices : At(c, "done")
    /\ \A c \in Logouts : At(c, "start")
    => jar # NoCookie \/ bearer
=============================================================================
