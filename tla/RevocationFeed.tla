--------------------------- MODULE RevocationFeed ---------------------------
(* The poller of the session-revocation feed                               *)
(* (axiam_sdk/_revocation_feed.py): guards on several threads ask whether  *)
(* a session is revoked, and whichever of them finds the poll interval     *)
(* over polls, without a lock.  The server only ever adds to the feed; any *)
(* poll may fail, or bring a document that is unusable.                    *)
EXTENDS Naturals

CONSTANTS
    Threads,
    Sids,          \* the sessions that the tokens name
    PollInterval,  \* _poll_interval
    Timeout,       \* how long one poll may last
    MaxTime,       \* bound: the clock stops there
    Never          \* a time that has not come, a feed never fetched

VARIABLES
    now,          \* the monotonic clock
    revokedAt,    \* when each session was revoked
    entries,      \* _entries
    lastAttempt,  \* _last_attempt
    pc,           \* where each thread is
    sid,          \* the session each thread asks about
    began,        \* when it asked, or its poll began
    doc,          \* what its poll has fetched, or Never
    rejected,     \* history: sessions that some guard has rejected
    known,        \* history: rejected was that when the thread asked
    failed,       \* history: a poll has failed
    overlapped    \* history: two polls have been in flight at once

vars == <<now, revokedAt, entries, lastAttempt, pc, sid, began, doc, rejected,
          known, failed, overlapped>>

Init ==
    /\ now = 0
    /\ revokedAt = [s \in Sids |-> Never]
    /\ entries = Never
    /\ lastAttempt = Never
    /\ pc = [t \in Threads |-> "idle"]
    /\ sid \in [Threads -> Sids]
    /\ began = [t \in Threads |-> 0]
    /\ doc = [t \in Threads |-> Never]
    /\ rejected = {}
    /\ known = [t \in Threads |-> {}]
    /\ failed = FALSE /\ overlapped = FALSE

At(t, place) == pc[t] = place

Goto(t, place) == pc' = [pc EXCEPT ![t] = place]

Polling == {t \in Threads : pc[t] \in {"polling", "fetched"}}

(* Mutant: the interval is counted from the last poll's timeout.           *)
Due_Late == lastAttempt = Never \/ now - lastAttempt > PollInterval + Timeout

(* The poll interval has elapsed since the last attempt.                   *)
Due == lastAttempt = Never \/ now - lastAttempt >= PollInterval

(* Mutant: a failed poll empties the set.                                  *)
Kept_Cleared(t) == IF doc[t] = Never THEN {} ELSE doc[t]

(* What is kept after a poll: on failure, what was known before.           *)
Kept(t) == IF doc[t] = Never THEN entries ELSE doc[t]

-----------------------------------------------------------------------------
(* The server revokes a session: from now on the document lists it.        *)
Revoke(s) ==
    /\ revokedAt[s] = Never
    /\ revokedAt' = [revokedAt EXCEPT ![s] = now]
    /\ UNCHANGED <<now, entries, lastAttempt, pc, sid, began, doc, rejected,
                   known, failed, overlapped>>

Tick ==
    /\ now < MaxTime
    /\ \A t \in Polling : now - began[t] < Timeout
    /\ now' = now + 1
    /\ UNCHANGED <<revokedAt, entries, lastAttempt, pc, sid, began, doc,
                   rejected, known, failed, overlapped>>

(* is_revoked is called at the end of a verification.                      *)
Ask(t, s) ==
    /\ At(t, "idle")
    /\ Goto(t, "asked")
    /\ sid' = [sid EXCEPT ![t] = s]
    /\ began' = [began EXCEPT ![t] = now]
    /\ known' = [known EXCEPT ![t] = rejected]
    /\ UNCHANGED <<now, revokedAt, entries, lastAttempt, doc, rejected, failed,
                   overlapped>>

(* _refresh_if_stale reads the clock and the last attempt under the lock,  *)
(* which it then lets go.                                                  *)
RefreshIfStale(t) ==
    /\ At(t, "asked")
    /\ IF Due
          THEN /\ Goto(t, "polling")
               /\ began' = [began EXCEPT ![t] = now]
               /\ overlapped' = (overlapped \/ Polling # {})
          ELSE Goto(t, "reading") /\ UNCHANGED <<began, overlapped>>
    /\ UNCHANGED <<now, revokedAt, entries, lastAttempt, sid, doc, rejected,
                   known, failed>>

(* _fetch_once: the document as it is at some instant of the poll ...      *)
Fetch(t) ==
    /\ At(t, "polling")
    /\ Goto(t, "fetched")
    /\ doc' = [doc EXCEPT ![t] = {s \in Sids : revokedAt[s] # Never}]
    /\ UNCHANGED <<now, revokedAt, entries, lastAttempt, sid, began, rejected,
                   known, failed, overlapped>>

(* ... or None, for every kind of failure alike.                           *)
FetchFails(t) ==
    /\ At(t, "polling")
    /\ Goto(t, "fetched")
    /\ failed' = TRUE
    /\ UNCHANGED <<now, revokedAt, entries, lastAttempt, sid, began, doc,
                   rejected, known, overlapped>>

(* refresh: the outcome is stored under the lock.                          *)
Refresh(t) ==
    /\ At(t, "fetched")
    /\ lastAttempt' = now
    /\ entries' = Kept(t)
    /\ doc' = [doc EXCEPT ![t] = Never]
    /\ Goto(t, "reading")
    /\ UNCHANGED <<now, revokedAt, sid, began, rejected, known, failed,
                   overlapped>>

Listed(t) == entries # Never /\ sid[t] \in entries

(* is_revoked answers from the set it finds; a feed that was never fetched *)
(* rejects nobody.                                                         *)
Answer(t) ==
    /\ At(t, "reading")
    /\ Goto(t, IF Listed(t) THEN "rejected" ELSE "admitted")
    /\ rejected' = IF Listed(t) THEN rejected \cup {sid[t]} ELSE rejected
    /\ UNCHANGED <<now, revokedAt, entries, lastAttempt, sid, began, doc,
                   known, failed, overlapped>>

(* The guard goes on to its next request.                                  *)
Leave(t) ==
    /\ pc[t] \in {"rejected", "admitted"}
    /\ Goto(t, "idle")
    /\ began' = [began EXCEPT ![t] = 0]
    /\ known' = [known EXCEPT ![t] = {}]
    /\ UNCHANGED <<now, revokedAt, entries, lastAttempt, sid, doc, rejected,
                   failed, overlapped>>

ThreadStep(t) ==
    \/ \E s \in Sids : Ask(t, s)
    \/ RefreshIfStale(t) \/ Fetch(t) \/ FetchFails(t) \/ Refresh(t)
    \/ Answer(t) \/ Leave(t)

Next == Tick \/ (\E s \in Sids : Revoke(s)) \/ (\E t \in Threads : ThreadStep(t))

Spec == Init /\ [][Next]_vars

-----------------------------------------------------------------------------
Times == 0 .. MaxTime

(* The type invariant; only a session that the server has revoked is ever  *)
(* listed, fetched or rejected.                                            *)
TypeOK ==
    /\ now \in Times
    /\ revokedAt \in [Sids -> Times \cup {Never}]
    /\ lastAttempt \in Times \cup {Never}
    /\ sid \in [Threads -> Sids] /\ began \in [Threads -> Times]
    /\ \A set \in {entries, rejected} \cup {doc[t] : t \in Threads} :
          set # Never => \A s \in set : s \in Sids /\ revokedAt[s] # Never

(* As long as no poll fails, a guard that asks later than one interval and *)
(* one poll after a revocation rejects the session, polls that overlap or  *)
(* not: "rejects a revoked session within one poll interval"               *)
(* (_revocation_feed.py).                                                  *)
RejectedWithinInterval ==
    \A t \in Threads :
        /\ At(t, "admitted")
        /\ revokedAt[sid[t]] # Never
        /\ ~failed
        => began[t] < revokedAt[sid[t]] + PollInterval + Timeout

(* A session that was rejected is not admitted again when polls fail later *)
(* ("a blip must not un-revoke a session the guard already knows about"),  *)
(* unless polls have overlapped.                                           *)
BlipKeepsRejecting ==
    \A t \in Threads :
        At(t, "admitted") /\ sid[t] \in known[t] => overlapped
=============================================================================
