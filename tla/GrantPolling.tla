---------------------------- MODULE GrantPolling ----------------------------
(* device_login and ciba_await (_client.py), the schedule they poll on     *)
(* (PollSchedule of _oidc.py) and the retry inside a poll (_retry.py),     *)
(* against a token endpoint that is external: it may be slow, fail, ask    *)
(* for more time, or answer and have its answer lost.                      *)
EXTENDS Naturals

CONSTANTS
    Interval,     \* interval of the authorization's answer
    Increment,    \* SLOW_DOWN_INCREMENT_SECONDS
    ExpiresIn,    \* expires_in, counted from that answer
    RetryAfters,  \* the Retry-After a server may send, 0 for none
    Jitter,       \* the backoffs that delay_ms may draw
    MAX_ATTEMPTS,
    MaxTime       \* bound: the clock stops there, after the deadline

VARIABLES
    grant,      \* device or ciba
    now,        \* the monotonic clock, 0 when the authorization arrived
    pc,         \* where the caller is
    interval,   \* _interval
    floor,      \* _floor
    remaining,  \* _remaining, the sum-of-waits bound
    wake,       \* when the sleep under way ends
    attempt,    \* of the poll under way
    reply,      \* what the endpoint has answered to the request
    decision,   \* the user's, then redeemed
    result,     \* how the caller's wait ended
    sentAt,     \* history: when the last request was sent
    slowed,     \* history: how often slow_down was answered
    earliest    \* history: before which the server expects no request

schedule == <<interval, floor, remaining>>
request == <<attempt, reply, sentAt>>
history == <<slowed, earliest>>
vars == <<grant, now, pc, schedule, wake, request, decision, result, history>>

Init ==
    /\ grant \in {"device", "ciba"}
    /\ now = 0
    /\ pc = "user_code"
    /\ interval = Interval /\ floor = 0 /\ remaining = ExpiresIn
    /\ wake = 0
    /\ attempt = 0 /\ reply = "none" /\ sentAt = 0
    /\ decision = "pending"
    /\ result = "none"
    /\ slowed = 0 /\ earliest = 0

Longer(a, b) == IF a >= b THEN a ELSE b
Shorter(a, b) == IF a <= b THEN a ELSE b

(* Mutant: a schedule without a clock, whose deadline is the sum of waits. *)
Remaining_Waits == remaining

(* The time left to the deadline: device_login's schedule reads the clock  *)
(* and its waits; ciba_await the clock.                                    *)
Remaining ==
    LET byClock == IF now < ExpiresIn THEN ExpiresIn - now ELSE 0
    IN  IF grant = "device" THEN Shorter(remaining, byClock) ELSE byClock

-----------------------------------------------------------------------------
(* on_user_code returns, after any time; ciba_await polls at once.         *)
Begin ==
    /\ pc = "user_code"
    /\ pc' = "deciding"
    /\ UNCHANGED <<grant, now, schedule, wake, request, decision, result, history>>

Wait == Longer(interval, floor)

(* tick, and the loop of ciba_await: the next wait, unless it reaches the  *)
(* deadline.                                                               *)
Sleep ==
    /\ pc = "deciding" /\ Wait < Remaining
    /\ pc' = "sleeping"
    /\ wake' = now + Wait
    /\ floor' = 0
    /\ remaining' = Remaining - Wait
    /\ attempt' = 1
    /\ UNCHANGED <<grant, now, interval, reply, sentAt, decision, result, history>>

Expire ==
    /\ pc = "deciding" /\ Wait >= Remaining
    /\ pc' = "done" /\ result' = "expired"
    /\ UNCHANGED <<grant, now, schedule, wake, request, decision, history>>

(* The sleep is over, before a poll or before a retry within it.           *)
Send ==
    /\ pc = "sleeping" /\ now = wake
    /\ pc' = "sent"
    /\ sentAt' = now
    /\ reply' = "none"
    /\ UNCHANGED <<grant, now, schedule, wake, attempt, decision, result, history>>

-----------------------------------------------------------------------------
(* The user decides.                                                       *)
Decide(d) ==
    /\ decision = "pending"
    /\ decision' = d
    /\ UNCHANGED <<grant, now, pc, schedule, wake, request, result, history>>

(* The endpoint handles the request; an approved grant is redeemed once.   *)
Handle(r) ==
    /\ pc = "sent" /\ reply = "none"
    /\ \/ decision = "pending" /\ r \in {"pending", "slow_down", "expired_token"}
       \/ decision = "approved" /\ r = "tokens"
       \/ decision = "denied" /\ r = "access_denied"
       \/ decision = "redeemed" /\ r = "invalid_grant"
    /\ reply' = r
    /\ decision' = IF r = "tokens" THEN "redeemed" ELSE decision
    /\ UNCHANGED <<grant, now, pc, schedule, wake, attempt, sentAt, result, history>>

(* Mutant: an answer that is not slow_down puts the interval back.         *)
Slowed_Reset(r) == IF r = "slow_down" THEN interval + Increment ELSE Interval

(* The interval after an answer: slow_down adds to it, for good.           *)
Slowed(r) == IF r = "slow_down" THEN interval + Increment ELSE interval

(* A new poll is due an interval after this answer, as the server counts   *)
(* intervals.                                                              *)
NextPoll(slows) == now + Interval + Increment * slows

(* authorization_pending or slow_down: the loop goes on.                   *)
Undecided ==
    /\ pc = "sent" /\ reply \in {"pending", "slow_down"}
    /\ pc' = "deciding"
    /\ interval' = Slowed(reply)
    /\ slowed' = IF reply = "slow_down" THEN slowed + 1 ELSE slowed
    /\ earliest' = NextPoll(slowed')
    /\ UNCHANGED <<grant, now, floor, remaining, wake, request, decision, result>>

(* The tokens, or a terminal error: the caller returns or raises.          *)
Answered ==
    /\ pc = "sent"
    /\ reply \in {"tokens", "access_denied", "expired_token", "invalid_grant"}
    /\ pc' = "done" /\ result' = reply
    /\ UNCHANGED <<grant, now, schedule, wake, request, decision, history>>

(* 429: not retried within the poll; the next wait is at least Retry-After *)
(* and the interval stays.                                                 *)
RateLimited(after) ==
    /\ pc = "sent" /\ reply = "none"
    /\ pc' = "deciding"
    /\ floor' = after
    /\ earliest' = Longer(NextPoll(slowed), now + after)
    /\ UNCHANGED <<grant, now, interval, remaining, wake, request, decision,
                   result, slowed>>

(* The failure that leaves a poll takes its Retry-After to the next wait.  *)
Floor(after) == after

(* A transport failure, which may have lost an answer, or a 5xx: retried   *)
(* within the poll, unless that was the last attempt or the wait reaches   *)
(* the deadline.                                                           *)
Fails(after, jitter) ==
    /\ pc = "sent"
    /\ reply = "none" \/ after = 0
    /\ LET wait == Longer(jitter, after)
       IN  IF attempt < MAX_ATTEMPTS /\ wait < Remaining
              THEN /\ pc' = "sleeping"
                   /\ wake' = now + wait
                   /\ attempt' = attempt + 1
                   /\ earliest' = now + after
                   /\ UNCHANGED floor
              ELSE /\ pc' = "deciding"
                   /\ floor' = Floor(after)
                   /\ earliest' = Longer(NextPoll(slowed), now + after)
                   /\ UNCHANGED <<wake, attempt>>
    /\ UNCHANGED <<grant, now, interval, remaining, reply, sentAt, decision,
                   result, slowed>>

(* Time passes; a sleep ends when it should.                               *)
Tick ==
    /\ now < MaxTime
    /\ pc = "sleeping" => now < wake
    /\ pc \in {"user_code", "sleeping", "sent"}
    /\ now' = now + 1
    /\ UNCHANGED <<grant, pc, schedule, wake, request, decision, result, history>>

Replies == {"pending", "slow_down", "expired_token", "tokens", "access_denied",
            "invalid_grant"}

Next ==
    \/ Tick \/ Begin \/ Sleep \/ Expire \/ Send \/ Undecided \/ Answered
    \/ \E d \in {"approved", "denied"} : Decide(d)
    \/ \E r \in Replies : Handle(r)
    \/ \E after \in RetryAfters :
          RateLimited(after) \/ \E jitter \in Jitter : Fails(after, jitter)

Spec == Init /\ [][Next]_vars

-----------------------------------------------------------------------------
TypeOK ==
    /\ grant \in {"device", "ciba"}
    /\ now \in 0 .. MaxTime /\ wake \in Nat
    /\ pc \in {"user_code", "deciding", "sleeping", "sent", "done"}
    /\ interval >= Interval /\ floor \in RetryAfters
    /\ remaining \in 0 .. ExpiresIn
    /\ attempt \in 0 .. MAX_ATTEMPTS
    /\ reply \in Replies \cup {"none"}
    /\ decision \in {"pending", "approved", "denied", "redeemed"}

(* No request, retries included, is sent at or after expires_in, whatever  *)
(* time the callback, the waits and slow answers took.                     *)
NothingSentAfterDeadline == pc = "sent" => sentAt < ExpiresIn

(* No request is sent before the server expects it: not before the last    *)
(* Retry-After, and a new poll not before the interval that every          *)
(* slow_down so far has added to.                                          *)
NeverTooEarly == pc = "sent" => sentAt >= earliest

(* What retry_sync asks of the operations it repeats ("MUST be             *)
(* side-effect-free ... a device code at redemption"): no grant that the   *)
(* server has redeemed is presented again.                                 *)
NeverReplayed == pc = "sent" /\ reply = "none" => decision # "redeemed"
=============================================================================
