-------------------------- MODULE MCVerification ---------------------------
(* What the SDK trusts a signed token for: the verifier's signing keys,    *)
(* the feed of revoked sessions, and the security events it receives. They *)
(* share no state - a receiver of events has a key set of its own - so one *)
(* behaviour is one of the three, chosen at the start.                     *)
EXTENDS Naturals, TLC

CONSTANTS
    t1, t2, c1, c2, s1, s2, sid1, Threads, NoOne, Never, Timeout,
    MaxKey, Lifespan, MinInterval, MaxTime,
    Sids, PollInterval, FeedMaxTime,
    Callers, Sets, Minute, JwksLifespan

ASSUME TimesAssumption ==
    /\ PollInterval \in Nat \ {0}   \* MIN_POLL_INTERVAL_SECONDS
    /\ Timeout \in Nat /\ Lifespan \in Nat
    /\ MaxKey \in Nat \ {0}

ASSUME NeverAssumption ==
    Never \notin Nat /\ \A list \in SUBSET Sids : Never # list

VARIABLES
    part,
    now, published, newest, withdrawn, cacheOn, cached, lastForced, lock, pc,
    kid, began, attempt, refresh, fetch, blip, delivered,
    fnow, revokedAt, entries, lastAttempt, fpc, sid, fbegan, doc, rejected,
    known, failed, overlapped,
    skid, genuine, spublished, offered, buffer, scached, life, cool, seen,
    spc, left, current, asked, result, sdelivered, cut, cooled

Keys == INSTANCE SigningKeys
Feed == INSTANCE RevocationFeed WITH
    MaxTime <- FeedMaxTime, now <- fnow, pc <- fpc, began <- fbegan
Ssf == INSTANCE SsfReceiver WITH
    Lifespan <- JwksLifespan, kid <- skid, published <- spublished,
    cached <- scached, pc <- spc, delivered <- sdelivered

keys == <<now, published, newest, withdrawn, cacheOn, cached, lastForced, lock,
          pc, kid, began, attempt, refresh, fetch, blip, delivered>>
feed == <<fnow, revokedAt, entries, lastAttempt, fpc, sid, fbegan, doc,
          rejected, known, failed, overlapped>>
events == <<skid, genuine, spublished, offered, buffer, scached, life, cool,
            seen, spc, left, current, asked, result, sdelivered, cut, cooled>>
mcvars == <<part, keys, feed, events>>

MCInit ==
    /\ part \in {"keys", "feed", "events"}
    /\ Keys!Init /\ Feed!Init /\ Ssf!Init
    /\ part # "events" => genuine = {} /\ skid = [s \in Sets |-> "other"]

KeysPart == part = "keys" /\ Keys!Next /\ UNCHANGED <<part, feed, events>>
FeedPart == part = "feed" /\ Feed!Next /\ UNCHANGED <<part, keys, events>>
EventsPart == part = "events" /\ Ssf!Next /\ UNCHANGED <<part, keys, feed>>

MCNext == KeysPart \/ FeedPart \/ EventsPart

MCSpec == MCInit /\ [][MCNext]_mcvars

(* Threads, callers and SETs are interchangeable.                          *)
Symmetry == Permutations({t1, t2}) \cup Permutations({c1, c2}) \cup Permutations({s1, s2})

-----------------------------------------------------------------------------
(* Of the keys: a token whose key was withdrawn is refused once the cached *)
(* key set has passed its lifespan (JwksVerifier).                         *)
WithdrawnKeyExpires == Keys!WithdrawnKeyExpires

(* Of the keys: a token is refused only for a key that is not published, a *)
(* failed fetch or the cool-down, never for losing a race (CR-03).         *)
RefusedForCause == Keys!RefusedForCause

(* Of the feed: a revoked session is rejected within one poll interval and *)
(* one poll, in whatever order overlapping polls end.                      *)
RejectedWithinInterval == Feed!RejectedWithinInterval

(* Of the feed: a poll that fails forgets no revocation.                   *)
BlipKeepsRejecting == Feed!BlipKeepsRejecting

(* Of the events: an event is delivered to the application at most once,   *)
(* by all the polls that overlap.                                          *)
AcceptedOnce == Ssf!AcceptedOnce

(* Of the events: the transmitter gives up a genuine event only when the   *)
(* application was given it, or a poll was cancelled between.              *)
NothingLost == Ssf!NothingLost
=============================================================================
