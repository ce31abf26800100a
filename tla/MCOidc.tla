------------------------------ MODULE MCOidc -------------------------------
(* What the SDK does as an OpenID Connect relying party: the two           *)
(* coalescers in front of oidc_refresh, the waits for a device or a CIBA   *)
(* grant, and the logins of a web application. They share no state, so one *)
(* behaviour is one of the four parts, chosen at the start.                *)
EXTENDS AsyncSingleFlight, Naturals, TLC

CONSTANTS
    t1, t2, t3, t4,
    Interval, Increment, ExpiresIn, RetryAfters, Jitter, MAX_ATTEMPTS, MaxTime,
    w1, w2, l1, l2, Workers, Logins, StateTTL, DocTTL, NoOne

ASSUME DurationsAssumption ==
    /\ Interval \in Nat /\ Increment \in Nat /\ ExpiresIn \in Nat
    /\ RetryAfters \subseteq Nat /\ Jitter \subseteq Nat
    /\ StateTTL \in Nat

VARIABLES
    part,
    ypc, slot, joined, wire, outcome, settled, unwound, ygot,
    grant, now, ppc, interval, floor, remaining, wake, attempt, reply,
    decision, result, sentAt, slowed, earliest,
    lpc, route, login, document, lock, stored, left, code, age, presented, late

sync == <<ypc, slot, joined, wire, outcome, settled, unwound, ygot>>
polling == <<grant, now, ppc, interval, floor, remaining, wake, attempt, reply,
             decision, result, sentAt, slowed, earliest>>
logins == <<lpc, route, login, document, lock, stored, left, code, age,
            presented, late>>
mcvars == <<part, vars, sync, polling, logins>>

Sync == INSTANCE SyncSingleFlight WITH pc <- ypc, got <- ygot
Polling == INSTANCE GrantPolling WITH pc <- ppc
Login == INSTANCE OidcLogin WITH pc <- lpc

MCInit ==
    /\ part \in {"async", "sync", "polling", "login"}
    /\ Init /\ Sync!Init /\ Polling!Init /\ Login!Init
    /\ part # "polling" => grant = "device"

AsyncPart == part = "async" /\ Next /\ UNCHANGED <<part, sync, polling, logins>>
SyncPart == part = "sync" /\ Sync!Next /\ UNCHANGED <<part, vars, polling, logins>>
PollingPart == part = "polling" /\ Polling!Next /\ UNCHANGED <<part, vars, sync, logins>>
LoginPart == part = "login" /\ Login!Next /\ UNCHANGED <<part, vars, sync, polling>>

MCNext == AsyncPart \/ SyncPart \/ PollingPart \/ LoginPart

(* The fairness of Sync!FairSpec.                                          *)
MCSpec ==
    /\ MCInit /\ [][MCNext]_mcvars
    /\ \A c \in Callers : WF_mcvars(part = "sync" /\ Sync!Step(c)
                                        /\ UNCHANGED <<part, vars, polling, logins>>)

-----------------------------------------------------------------------------
(* Of the sync coalescer: every caller is answered, whatever the wire call *)
(* came to.                                                                *)
AllAnswered == part = "sync" => Sync!AllAnswered

(* _SyncSingleFlight implements Coalescer, as _AsyncSingleFlight does.     *)
SyncImplements == Sync!Implements

(* Of the waits for a grant: nothing is sent once the deadline of the      *)
(* authorization has passed (RFC 8628 3.5, device_login, ciba_await).      *)
NothingSentAfterDeadline == Polling!NothingSentAfterDeadline

(* Of the waits for a grant: no poll comes earlier than the server last    *)
(* asked for (PollSchedule).                                               *)
NeverTooEarly == Polling!NeverTooEarly

(* Of the web logins: a code is presented to the token endpoint at most    *)
(* once, and never for a state that has expired (MemoryOidcStateStore).    *)
OneExchangePerState == Login!OneExchangePerState
=============================================================================
