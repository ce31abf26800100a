-------------------------- MODULE VerificationProofs --------------------------
(* What the SDK trusts a signed token for: the lookups of signing keys,    *)
(* the feed of revoked sessions and the receiver of security events, each  *)
(* for any number of threads, keys, sessions, SETs and any times.          *)
EXTENDS MCVerification, Integers, TLAPS

(* The parts that a step of MCVerification belongs to.                     *)
LEMMA Parts ==
    [MCNext]_mcvars =>
        /\ [Keys!Next]_keys /\ [Feed!Next]_feed /\ [Ssf!Next]_events
  BY DEF MCNext, KeysPart, FeedPart, EventsPart, mcvars

-----------------------------------------------------------------------------
(* The signing keys.                                                       *)
KeyTypes ==
    /\ now \in Nat
    /\ newest \in Keys!Keys /\ published \in SUBSET {newest}
    /\ withdrawn \in [Keys!Keys -> Nat \cup {Never}]
    /\ cacheOn \in BOOLEAN
    /\ pc \in [Threads -> {"idle", "waiting", "looking", "fetching", "served", "erred",
                           "found", "refused"}]
    /\ kid \in [Threads -> 0 .. MaxKey]
    /\ attempt \in [Threads -> {1, 2}]
    /\ fetch \in [Threads -> [at : Nat, keys : SUBSET Keys!Keys]]

(* A key that was withdrawn does not come back, and one to come was never  *)
(* withdrawn.                                                              *)
WithdrawnInv ==
    /\ \A k \in Keys!Keys : withdrawn[k] # Never =>
          withdrawn[k] <= now /\ k <= newest /\ k \notin published

(* What was fetched was published when the fetch began or later, and what  *)
(* is cached no more than a timeout before it was stored.                  *)
FetchInv ==
    /\ \A t \in Threads : pc[t] \in {"fetching", "served"} =>
          fetch[t].at <= now /\ now - fetch[t].at <= Timeout
    /\ \A t \in Threads : pc[t] = "served" => \A k \in fetch[t].keys :
          withdrawn[k] # Never => withdrawn[k] >= fetch[t].at
    /\ cached # Never =>
          /\ cached.at \in Nat /\ cached.at <= now /\ cached.keys \in SUBSET Keys!Keys
          /\ \A k \in cached.keys :
                withdrawn[k] # Never => withdrawn[k] + Timeout >= cached.at

(* A second lookup finds the cache dropped; a key that was fetched without *)
(* is not published.                                                       *)
LookupInv ==
    /\ lastForced # Never => ~cacheOn
    /\ \A t \in Threads :
          /\ attempt[t] = 2 => ~cacheOn
          /\ kid[t] <= newest
          /\ pc[t] \in {"found", "refused"} => kid[t] = 0
          /\ pc[t] = "served" /\ kid[t] \in published => kid[t] \in fetch[t].keys

KeysInv == KeyTypes /\ WithdrawnInv /\ FetchInv /\ LookupInv

LEMMA KeysInit == Keys!Init => KeysInv
<1> SUFFICES ASSUME Keys!Init PROVE KeysInv
  OBVIOUS
<1> USE NeverAssumption, TimesAssumption
    DEF Keys!Init, Keys!Keys, Keys!NoFetch, Keys!Unknown
<1>1. KeyTypes
  BY DEF KeyTypes
<1>2. WithdrawnInv /\ FetchInv /\ LookupInv
  BY DEF WithdrawnInv, FetchInv, LookupInv
<1> QED
  BY <1>1, <1>2 DEF KeysInv

(* How a lookup goes on.                                                   *)
Continues(t) ==
    /\ pc' \in [Threads -> {"idle", "waiting", "looking", "fetching", "served", "erred",
                            "found", "refused"}]
    /\ kid' \in [Threads -> 0 .. MaxKey] /\ attempt' \in [Threads -> {1, 2}]
    /\ fetch' \in [Threads -> [at : Nat, keys : SUBSET Keys!Keys]]
    /\ \A u \in Threads \ {t} :
          pc'[u] = pc[u] /\ kid'[u] = kid[u] /\ attempt'[u] = attempt[u] /\ fetch'[u] = fetch[u]
    /\ kid'[t] \in {0, kid[t]}
    /\ attempt'[t] \in {1, attempt[t]}
    /\ pc'[t] \in {"found", "refused", "erred", "fetching"}
    /\ pc'[t] = "fetching" => fetch'[t] = [at |-> now, keys |-> {}]
    /\ pc'[t] \in {"found", "refused"} => kid'[t] = 0

LEMMA FoundContinues ==
  ASSUME KeyTypes, NEW t \in Threads, Keys!Found(t) PROVE Continues(t) /\ pc'[t] = "found"
  BY TimesAssumption
  DEF KeyTypes, Continues, Keys!Found, Keys!Return, Keys!NoFetch, Keys!Unknown

LEMMA ErrorContinues ==
  ASSUME KeyTypes, NEW t \in Threads, NEW b, Keys!Error(t, b)
  PROVE  Continues(t) /\ (pc'[t] = "refused" => attempt[t] = 2) /\ pc'[t] # "found"
<1>1. CASE attempt[t] = 1
  BY <1>1, TimesAssumption DEF KeyTypes, Continues, Keys!Error, Keys!NoFetch
<1>2. CASE attempt[t] = 2
  BY <1>2, TimesAssumption
  DEF KeyTypes, Continues, Keys!Error, Keys!Return, Keys!NoFetch, Keys!Unknown
<1> QED
  BY <1>1, <1>2 DEF KeyTypes

LEMMA FetchContinues ==
  ASSUME KeyTypes, NEW t \in Threads, NEW b, Keys!Fetch(t, b)
  PROVE  Continues(t) /\ pc'[t] = "fetching"
  BY DEF KeyTypes, Continues, Keys!Fetch

(* The key is found in the set only if it is there; for want of it, the    *)
(* token is refused at the second lookup only.                             *)
LEMMA MatchContinues ==
  ASSUME KeyTypes, NEW t \in Threads, NEW set, NEW b, Keys!Match(t, set, b)
  PROVE  /\ Continues(t)
         /\ pc'[t] = "found" => kid[t] \in set
         /\ pc'[t] = "refused" => kid[t] \notin set /\ attempt[t] = 2
  BY FoundContinues, ErrorContinues, FetchContinues DEF Keys!Match

(* A lookup that goes on, with the server and the cache as they were or    *)
(* the cache renewed, keeps the invariant.                                 *)
LEMMA ContinuesKeepsInv ==
  ASSUME KeysInv, NEW t \in Threads, Continues(t),
         Keys!ServerUnchanged, UNCHANGED <<cacheOn, lastForced>>,
         \/ cached' \in {cached, Never}
         \/ pc[t] = "served" /\ cached' = Keys!KeySet(fetch[t].keys)
  PROVE  KeysInv'
<1> USE NeverAssumption, TimesAssumption DEF KeysInv, Keys!ServerUnchanged
<1>1. KeyTypes' /\ WithdrawnInv'
  BY DEF KeyTypes, WithdrawnInv, Continues
<1>2. FetchInv'
  <2>1. ASSUME NEW u \in Threads
        PROVE  /\ pc'[u] = "served" => u # t /\ pc[u] = "served" /\ fetch'[u] = fetch[u]
               /\ pc'[u] = "fetching" =>
                    fetch'[u].at = now \/ (pc[u] = "fetching" /\ fetch'[u] = fetch[u])
    <3>1. u # t => pc'[u] = pc[u] /\ fetch'[u] = fetch[u]
      BY DEF Continues
    <3>2. pc'[t] # "served" /\ (pc'[t] = "fetching" => fetch'[t].at = now)
      BY DEF Continues
    <3> QED
      BY <3>1, <3>2
  <2>2. \A u \in Threads : pc'[u] \in {"fetching", "served"} =>
           fetch'[u].at <= now /\ now - fetch'[u].at <= Timeout
    BY <2>1 DEF KeyTypes, FetchInv
  <2>3. CASE cached' \in {cached, Never}
    BY <2>1, <2>2, <2>3 DEF FetchInv
  <2>4. CASE pc[t] = "served" /\ cached' = Keys!KeySet(fetch[t].keys)
    <3>1. cached'.at = now /\ cached'.keys = fetch[t].keys
      BY <2>4 DEF Keys!KeySet
    <3>2. fetch[t].at \in Nat /\ fetch[t].keys \in SUBSET Keys!Keys
      BY DEF KeyTypes
    <3>3. \A k \in fetch[t].keys : withdrawn[k] # Never => withdrawn[k] + Timeout >= now
      BY <2>4, <3>2 DEF KeyTypes, FetchInv
    <3> QED
      BY <2>1, <2>2, <3>1, <3>2, <3>3 DEF FetchInv, KeyTypes
  <2> QED
    BY <2>3, <2>4
<1>3. LookupInv'
  <2>1. newest \in Nat /\ \A u \in Threads : kid[u] \in Nat
    BY DEF KeyTypes, Keys!Keys
  <2> QED
    BY <2>1 DEF LookupInv, Continues
<1> QED
  BY <1>1, <1>2, <1>3

(* Every step of the server, the clock and a thread keeps the invariant.   *)
LEMMA KeysStep == KeysInv /\ [Keys!Next]_keys => KeysInv'
<1> SUFFICES ASSUME KeysInv, [Keys!Next]_keys PROVE KeysInv'
  OBVIOUS
<1> USE NeverAssumption, TimesAssumption DEF KeysInv
<1>1. CASE UNCHANGED keys
  BY <1>1 DEF keys, KeyTypes, WithdrawnInv, FetchInv, LookupInv
<1>2. CASE Keys!Rotate \/ Keys!Withdraw
  <2>1. PICK set \in SUBSET {newest'} : Keys!Publish(set)
    BY <1>2 DEF Keys!Rotate, Keys!Withdraw
  <2>2. /\ published' = set
        /\ withdrawn' = [k \in Keys!Keys |->
                            IF k \in published \ set THEN now ELSE withdrawn[k]]
        /\ UNCHANGED <<now, cacheOn, cached, lastForced, lock, pc, kid, began, attempt,
                       refresh, fetch, blip>>
    BY <2>1 DEF Keys!Publish
  <2>3. /\ newest' \in Keys!Keys /\ newest <= newest'
        /\ set = {} \/ newest < newest'
    <3>1. CASE Keys!Rotate
      BY <3>1 DEF Keys!Rotate, Keys!Keys, KeyTypes
    <3>2. CASE Keys!Withdraw
      <4>1. published' = {} /\ newest' = newest
        BY <3>2 DEF Keys!Withdraw, Keys!Publish
      <4> QED
        BY <2>2, <4>1 DEF Keys!Keys, KeyTypes
    <3> QED
      BY <1>2, <3>1, <3>2
  <2>4. KeyTypes'
    BY <2>2, <2>3 DEF KeyTypes
  <2>5. WithdrawnInv'
    BY <2>2, <2>3 DEF KeyTypes, WithdrawnInv, Keys!Keys
  <2>6. FetchInv'
    BY <2>2 DEF KeyTypes, FetchInv
  <2>7. LookupInv'
    BY <2>2, <2>3 DEF KeyTypes, LookupInv, Keys!Keys
  <2> QED
    BY <2>4, <2>5, <2>6, <2>7
<1>3. CASE Keys!Tick
  BY <1>3 DEF Keys!Tick, Keys!Fetching, KeyTypes, WithdrawnInv, FetchInv, LookupInv
<1>4. ASSUME NEW t \in Threads, NEW k \in 0 .. MaxKey, Keys!Verify(t, k) PROVE KeysInv'
  BY <1>4
  DEF Keys!Verify, Keys!ServerUnchanged, Keys!Keys, KeyTypes, WithdrawnInv, FetchInv,
      LookupInv
<1>5. ASSUME NEW t \in Threads, Keys!Acquire(t) PROVE KeysInv'
  BY <1>5
  DEF Keys!Acquire, Keys!ServerUnchanged, KeyTypes, WithdrawnInv, FetchInv, LookupInv
<1>6. ASSUME NEW t \in Threads, Keys!Look(t) PROVE KeysInv'
  <2>1. Continues(t)
    BY <1>6, MatchContinues, FetchContinues DEF Keys!Look
  <2> QED
    BY <1>6, <2>1, ContinuesKeepsInv DEF Keys!Look
<1>7. ASSUME NEW t \in Threads, Keys!Serve(t) PROVE KeysInv'
  <2>1. /\ pc[t] = "fetching" /\ pc' = [pc EXCEPT ![t] = "served"]
        /\ fetch' = [fetch EXCEPT ![t].keys = published]
        /\ UNCHANGED <<now, published, newest, withdrawn, cacheOn, cached, lastForced, kid,
                       attempt>>
    BY <1>7 DEF Keys!Serve, Keys!At, Keys!ServerUnchanged
  <2>2. published \in SUBSET Keys!Keys
    BY DEF KeyTypes
  <2>3. /\ fetch' \in [Threads -> [at : Nat, keys : SUBSET Keys!Keys]]
        /\ \A u \in Threads \ {t} : fetch'[u] = fetch[u]
        /\ fetch'[t].at = fetch[t].at /\ fetch'[t].keys = published
    BY <2>1, <2>2 DEF KeyTypes
  <2>4. KeyTypes' /\ WithdrawnInv'
    BY <2>1, <2>3 DEF KeyTypes, WithdrawnInv
  <2>5. FetchInv'
    BY <2>1, <2>2, <2>3 DEF KeyTypes, WithdrawnInv, FetchInv
  <2>6. LookupInv'
    BY <2>1, <2>3 DEF KeyTypes, LookupInv
  <2> QED
    BY <2>4, <2>5, <2>6
<1>8. ASSUME NEW t \in Threads, Keys!Deliver(t) PROVE KeysInv'
  <2>1. Continues(t)
    BY <1>8, MatchContinues DEF Keys!Deliver
  <2> QED
    BY <1>8, <2>1, ContinuesKeepsInv DEF Keys!Deliver, Keys!At
<1>9. ASSUME NEW t \in Threads, Keys!FetchFails(t) PROVE KeysInv'
  <2>1. Continues(t)
    BY <1>9, ErrorContinues DEF Keys!FetchFails
  <2> QED
    BY <1>9, <2>1, ContinuesKeepsInv DEF Keys!FetchFails
<1>10. ASSUME NEW t \in Threads, Keys!LookAgain(t) PROVE KeysInv'
  BY <1>10
  DEF Keys!LookAgain, Keys!RateLimited, Keys!ServerUnchanged, KeyTypes, WithdrawnInv,
      FetchInv, LookupInv
<1> QED
  BY <1>1, <1>2, <1>3, <1>4, <1>5, <1>6, <1>7, <1>8, <1>9, <1>10
  DEF Keys!Next, Keys!ThreadStep

(* The inductive invariant of the key lookups.                             *)
THEOREM KeysInvariance == MCSpec => []KeysInv
<1>1. MCInit => KeysInv
  BY KeysInit DEF MCInit
<1> QED
  BY <1>1, KeysStep, Parts, PTL DEF MCSpec

(* A verdict is a lookup's: from the cache, from a fetch, or for want of   *)
(* one.                                                                    *)
LEMMA VerdictFacts ==
  ASSUME KeysInv, Keys!Next, NEW t \in Threads,
         pc'[t] # pc[t], pc'[t] \in {"found", "refused"}
  PROVE  Keys!Look(t) \/ Keys!Deliver(t) \/ Keys!FetchFails(t)
<1>1. PICK u \in Threads : Keys!ThreadStep(u)
  BY DEF Keys!Next, Keys!Rotate, Keys!Withdraw, Keys!Publish, Keys!Tick
<1>2. CASE Keys!Look(u) \/ Keys!Deliver(u) \/ Keys!FetchFails(u)
  <2>0. KeyTypes
    BY DEF KeysInv
  <2>1. Continues(u)
    <3>1. CASE Keys!Look(u)
      BY <2>0, <3>1, MatchContinues, FetchContinues DEF Keys!Look
    <3>2. CASE Keys!Deliver(u)
      BY <2>0, <3>2, MatchContinues DEF Keys!Deliver
    <3>3. CASE Keys!FetchFails(u)
      BY <2>0, <3>3, ErrorContinues DEF Keys!FetchFails
    <3> QED
      BY <1>2, <3>1, <3>2, <3>3
  <2> QED
    BY <1>2, <2>1 DEF Continues
<1>3. CASE ~(Keys!Look(u) \/ Keys!Deliver(u) \/ Keys!FetchFails(u))
  BY <1>1, <1>3
  DEF KeysInv, KeyTypes, Keys!ThreadStep, Keys!Verify, Keys!Acquire, Keys!Serve,
      Keys!LookAgain
<1> QED
  BY <1>2, <1>3

(* A key is honoured for at most the cache's lifespan and one fetch after  *)
(* it was withdrawn, for any number of threads and rotations.              *)
THEOREM WithdrawnKeysExpire == MCSpec => WithdrawnKeyExpires
<1> DEFINE Step ==
        \A t \in Threads :
            /\ pc[t] # "found" /\ pc'[t] = "found"
            /\ withdrawn[kid[t]] # Never
            => now - withdrawn[kid[t]] <= Lifespan + Timeout
<1>1. KeysInv /\ [Keys!Next]_keys => [Step]_Keys!vars
  <2> SUFFICES ASSUME KeysInv, Keys!Next, NEW t \in Threads,
                      pc[t] # "found", pc'[t] = "found", withdrawn[kid[t]] # Never
               PROVE  now - withdrawn[kid[t]] <= Lifespan + Timeout
    BY DEF keys, Keys!vars
  <2> USE NeverAssumption, TimesAssumption DEF KeysInv, KeyTypes
  <2>1. CASE Keys!Look(t)
    <3>1. Keys!Fresh /\ Keys!Match(t, cached.keys, FALSE)
      BY <2>1, FetchContinues DEF Keys!Look
    <3>2. kid[t] \in cached.keys
      BY <3>1, MatchContinues
    <3> QED
      BY <3>1, <3>2 DEF Keys!Fresh, FetchInv
  <2>2. CASE Keys!Deliver(t)
    <3>1. pc[t] = "served" /\ kid[t] \in fetch[t].keys
      BY <2>2, MatchContinues DEF Keys!Deliver, Keys!At
    <3> QED
      BY <3>1 DEF FetchInv
  <2>3. CASE Keys!FetchFails(t)
    BY <2>3, ErrorContinues DEF Keys!FetchFails
  <2> QED
    BY <2>1, <2>2, <2>3, VerdictFacts
<1> QED
  BY <1>1, KeysInvariance, Parts, PTL
  DEF MCSpec, WithdrawnKeyExpires, Keys!WithdrawnKeyExpires

(* No token is refused for want of a key that is published, but by a fetch *)
(* that fails: neither the cool-down nor a key set that was cached during  *)
(* a rotation hides a key that is there.                                   *)
THEOREM RefusalsHaveCause == MCSpec => RefusedForCause
<1> DEFINE Step ==
        \A t \in Threads :
            /\ pc[t] # "fetching" /\ pc'[t] = "refused"
            /\ kid[t] \in published
            => blip[t]
<1>1. KeysInv /\ [Keys!Next]_keys => [Step]_Keys!vars
  <2> SUFFICES ASSUME KeysInv, Keys!Next, NEW t \in Threads,
                      pc[t] # "fetching", pc'[t] = "refused", kid[t] \in published
               PROVE  blip[t]
    BY DEF keys, Keys!vars
  <2> USE DEF KeysInv
  <2>1. CASE pc[t] = "refused"
    BY <2>1 DEF KeyTypes, LookupInv, Keys!Keys
  <2>2. CASE Keys!Look(t)
    <3>1. ~cacheOn
      BY <2>2, MatchContinues, FetchContinues DEF Keys!Look, LookupInv
    <3> QED
      BY <2>2, <3>1, FetchContinues DEF Keys!Look, Keys!Fresh
  <2>3. CASE Keys!Deliver(t)
    <3>1. pc[t] = "served" /\ kid[t] \notin fetch[t].keys
      BY <2>3, MatchContinues DEF Keys!Deliver, Keys!At
    <3> QED
      BY <3>1 DEF LookupInv
  <2>4. CASE Keys!FetchFails(t)
    BY <2>4 DEF Keys!FetchFails, Keys!At
  <2> QED
    BY <2>1, <2>2, <2>3, <2>4, VerdictFacts
<1> QED
  BY <1>1, KeysInvariance, Parts, PTL DEF MCSpec, RefusedForCause, Keys!RefusedForCause

-----------------------------------------------------------------------------
(* The feed of revoked sessions.                                           *)
Documents == (SUBSET Sids) \cup {Never}

FeedTypes ==
    /\ fnow \in Nat
    /\ revokedAt \in [Sids -> Nat \cup {Never}]
    /\ entries \in Documents /\ lastAttempt \in Nat \cup {Never}
    /\ fpc \in [Threads -> {"idle", "asked", "polling", "fetched", "reading",
                            "rejected", "admitted"}]
    /\ sid \in [Threads -> Sids] /\ fbegan \in [Threads -> Nat]
    /\ doc \in [Threads -> Documents]
    /\ rejected \in SUBSET Sids /\ known \in [Threads -> SUBSET Sids]
    /\ failed \in BOOLEAN /\ overlapped \in BOOLEAN

Revoked(s) == revokedAt[s] # Never

Misses(d, s) == d # Never /\ s \notin d

(* No clock is ahead, and a poll lasts no longer than its timeout.         *)
ClockInv ==
    /\ \A s \in Sids : Revoked(s) => revokedAt[s] <= fnow
    /\ \A t \in Threads : fbegan[t] <= fnow
    /\ \A t \in Threads : fpc[t] \in {"polling", "fetched"} => fnow - fbegan[t] <= Timeout
    /\ lastAttempt # Never => lastAttempt <= fnow

(* A document lists revoked sessions only, and one is at hand only between *)
(* the fetch and its storing.                                              *)
ListInv ==
    /\ entries # Never => \A s \in entries : Revoked(s)
    /\ \A t \in Threads : doc[t] # Never => \A s \in doc[t] : Revoked(s)
    /\ \A t \in Threads : fpc[t] # "fetched" => doc[t] = Never
    /\ \A s \in rejected : Revoked(s)
    /\ \A t \in Threads : known[t] \subseteq rejected

(* While no poll fails: a document that misses a revoked session is older  *)
(* than the revocation, the set that misses it was stored no later than a  *)
(* timeout after it, and a guard that asked late enough finds it listed.   *)
IntervalInv ==
    ~failed =>
        /\ entries = Never <=> lastAttempt = Never
        /\ \A t \in Threads : fpc[t] = "fetched" => doc[t] # Never
        /\ \A s \in Sids : Revoked(s) =>
              /\ Misses(entries, s) => lastAttempt <= revokedAt[s] + Timeout
              /\ \A t \in Threads :
                    Misses(doc[t], s) => fbegan[t] <= revokedAt[s]
        /\ \A t \in Threads :
              /\ fpc[t] \in {"reading", "admitted"} /\ Revoked(sid[t])
              /\ fbegan[t] >= revokedAt[sid[t]] + PollInterval + Timeout
              => fpc[t] = "reading" /\ entries # Never /\ sid[t] \in entries

(* While polls do not overlap: what is known when a document is fetched is *)
(* in it, so that storing it forgets nothing.                              *)
BlipInv ==
    ~overlapped =>
        /\ \A t, u \in Feed!Polling : t = u
        /\ \A t \in Threads : doc[t] # Never /\ entries # Never => entries \subseteq doc[t]
        /\ rejected # {} => entries # Never /\ rejected \subseteq entries
        /\ \A t \in Threads : fpc[t] = "admitted" => sid[t] \notin known[t]

FeedInv == FeedTypes /\ ClockInv /\ ListInv /\ IntervalInv /\ BlipInv

LEMMA FeedInit == Feed!Init => FeedInv
<1> SUFFICES ASSUME Feed!Init PROVE FeedInv
  OBVIOUS
<1> USE NeverAssumption, TimesAssumption DEF Feed!Init, Feed!Polling
<1>1. FeedTypes
  BY DEF FeedTypes, Documents
<1>2. ClockInv /\ ListInv
  BY DEF ClockInv, ListInv, Revoked
<1>3. IntervalInv /\ BlipInv
  BY DEF IntervalInv, BlipInv, Revoked, Misses
<1> QED
  BY <1>1, <1>2, <1>3 DEF FeedInv

(* Every step of the server, the clock and a guard keeps the invariant.    *)
LEMMA FeedStep == FeedInv /\ [Feed!Next]_feed => FeedInv'
<1> SUFFICES ASSUME FeedInv, [Feed!Next]_feed PROVE FeedInv'
  OBVIOUS
<1> USE NeverAssumption, TimesAssumption
    DEF FeedInv, FeedTypes, Documents, ClockInv, ListInv, IntervalInv, BlipInv,
        Revoked, Misses, Feed!At, Feed!Goto, Feed!Polling
<1>1. CASE UNCHANGED feed
  BY <1>1 DEF feed
<1>2. CASE Feed!Tick
  BY <1>2 DEF Feed!Tick
<1>3. ASSUME NEW s \in Sids, Feed!Revoke(s) PROVE FeedInv'
  BY <1>3 DEF Feed!Revoke
<1>4. ASSUME NEW t \in Threads, NEW s \in Sids, Feed!Ask(t, s) PROVE FeedInv'
  BY <1>4 DEF Feed!Ask
<1>5. ASSUME NEW t \in Threads, Feed!RefreshIfStale(t) PROVE FeedInv'
  <2>1. CASE Feed!Due
    <3>1. /\ fpc[t] = "asked" /\ fpc' = [fpc EXCEPT ![t] = "polling"]
          /\ fbegan' = [fbegan EXCEPT ![t] = fnow]
          /\ overlapped' \in BOOLEAN
          /\ ~overlapped' => ~overlapped /\ Feed!Polling = {}
          /\ UNCHANGED <<fnow, revokedAt, entries, lastAttempt, sid, doc, rejected, known,
                         failed>>
      BY <1>5, <2>1 DEF Feed!RefreshIfStale
    <3>2. FeedTypes' /\ ClockInv' /\ ListInv'
      BY <3>1
    <3>3. IntervalInv'
      BY <3>1
    <3>4. BlipInv'
      BY <3>1
    <3> QED
      BY <3>2, <3>3, <3>4
  <2>2. CASE ~Feed!Due
    BY <1>5, <2>2 DEF Feed!RefreshIfStale, Feed!Due
  <2> QED
    BY <2>1, <2>2
<1>6. ASSUME NEW t \in Threads, Feed!Fetch(t) PROVE FeedInv'
  BY <1>6 DEF Feed!Fetch
<1>7. ASSUME NEW t \in Threads, Feed!FetchFails(t) PROVE FeedInv'
  BY <1>7 DEF Feed!FetchFails
<1>8. ASSUME NEW t \in Threads, Feed!Refresh(t) PROVE FeedInv'
  BY <1>8 DEF Feed!Refresh, Feed!Kept
<1>9. ASSUME NEW t \in Threads, Feed!Answer(t) PROVE FeedInv'
  BY <1>9 DEF Feed!Answer, Feed!Listed
<1>10. ASSUME NEW t \in Threads, Feed!Leave(t) PROVE FeedInv'
  BY <1>10 DEF Feed!Leave
<1> QED
  BY <1>1, <1>2, <1>3, <1>4, <1>5, <1>6, <1>7, <1>8, <1>9, <1>10
  DEF Feed!Next, Feed!ThreadStep

(* The inductive invariant of the feed.                                    *)
THEOREM FeedInvariance == MCSpec => []FeedInv
<1>1. MCInit => FeedInv
  BY FeedInit DEF MCInit
<1> QED
  BY <1>1, FeedStep, Parts, PTL DEF MCSpec

(* As long as no poll fails, a guard that asks later than one interval and *)
(* one poll after a revocation rejects the session, for any number of      *)
(* guards and polls that overlap.                                          *)
THEOREM RevocationArrives == MCSpec => []RejectedWithinInterval
<1>1. FeedInv => RejectedWithinInterval
  BY TimesAssumption, NeverAssumption
  DEF FeedInv, FeedTypes, IntervalInv, Revoked, RejectedWithinInterval,
      Feed!RejectedWithinInterval, Feed!At
<1> QED
  BY <1>1, FeedInvariance, PTL

(* A poll that fails forgets no revocation, unless polls have overlapped.  *)
THEOREM BlipForgetsNothing == MCSpec => []BlipKeepsRejecting
<1>1. FeedInv => BlipKeepsRejecting
  BY DEF FeedInv, BlipInv, BlipKeepsRejecting, Feed!BlipKeepsRejecting, Feed!At
<1> QED
  BY <1>1, FeedInvariance, PTL

-----------------------------------------------------------------------------
(* The receiver of security events.                                        *)
Results == [Callers -> [Ssf!Verdicts -> SUBSET Sets]]

Judging(t) == spc[t] # "idle"

Batched(s) == \E t \in Callers : Judging(t) /\ s \in result[t]["events"]

EventTypes ==
    /\ skid \in [Sets -> {"old", "new", "other"}]
    /\ genuine \in SUBSET Sets /\ offered \in SUBSET Sets /\ buffer \in SUBSET offered
    /\ seen \in SUBSET Sets
    /\ sdelivered \in SUBSET Sets /\ cut \in SUBSET Sets /\ cooled \in SUBSET Sets
    /\ spc \in [Callers -> {"idle", "polling", "pushed"}]
    /\ left \in [Callers -> SUBSET Sets] /\ current \in [Callers -> SUBSET Sets]
    /\ result \in Results

(* A SET that is offered, or about to be judged, was signed with a key     *)
(* that is published, unless it is forged.                                 *)
OfferInv ==
    /\ \A s \in offered : skid[s] \in spublished \cup {"other"}
    /\ \A s \in genuine : skid[s] # "other"
    /\ \A t \in Callers : left[t] \subseteq offered

(* Whoever is idle has judged the whole batch and returned its events.     *)
IdleInv ==
    \A t \in Callers : ~Judging(t) =>
        left[t] = {} /\ current[t] = {} /\ result[t]["events"] \subseteq sdelivered

(* What the replay store holds was returned, is about to be, or was lost   *)
(* with a cancelled poll; and it holds whatever has one of these verdicts. *)
SeenInv ==
    /\ sdelivered \subseteq seen
    /\ \A t \in Callers : result[t]["replayed"] \subseteq seen
    /\ \A t \in Callers : Judging(t) => result[t]["events"] \subseteq seen
    /\ \A s \in seen : s \in sdelivered \/ s \in cut \/ Batched(s)

OnceInv ==
    /\ \A t \in Callers : Judging(t) => result[t]["events"] \cap sdelivered = {}
    /\ \A t, u \in Callers : t # u /\ Judging(t) /\ Judging(u) =>
          result[t]["events"] \cap result[u]["events"] = {}

(* A genuine SET is refused only for a key that might not be fetched yet,  *)
(* and the transmitter drops it only for a verdict.                        *)
LostInv ==
    /\ \A t \in Callers : result[t]["refused"] \cap genuine \subseteq cooled
    /\ \A s \in genuine \cap offered : s \notin buffer =>
          s \in sdelivered \/ s \in cut \/ s \in cooled \/ Batched(s)

EventsInv == EventTypes /\ OfferInv /\ IdleInv /\ SeenInv /\ OnceInv /\ LostInv

LEMMA EventsInit == Ssf!Init => EventsInv
<1> SUFFICES ASSUME Ssf!Init PROVE EventsInv
  OBVIOUS
<1> USE DEF Ssf!Init, Ssf!Kids, Ssf!Empty, Ssf!Verdicts
<1>1. EventTypes
  BY DEF EventTypes, Results
<1>2. OfferInv /\ IdleInv
  BY DEF OfferInv, IdleInv, Judging
<1>3. SeenInv /\ OnceInv /\ LostInv
  BY DEF SeenInv, OnceInv, LostInv, Judging
<1> QED
  BY <1>1, <1>2, <1>3 DEF EventsInv

(* A verdict goes to one caller's result.                                  *)
LEMMA PutFacts ==
  ASSUME EventTypes, NEW t \in Callers, NEW v \in Ssf!Verdicts, NEW set \in SUBSET Sets,
         Ssf!Put(t, v, set)
  PROVE  /\ result' \in Results
         /\ \A u \in Callers, w \in Ssf!Verdicts :
               result'[u][w] = IF u = t /\ w = v
                               THEN result[u][w] \cup set ELSE result[u][w]
<1> DEFINE row == [result[t] EXCEPT ![v] = @ \cup set]
<1>1. result \in [Callers -> [Ssf!Verdicts -> SUBSET Sets]]
  BY DEF EventTypes, Results
<1>2. /\ row \in [Ssf!Verdicts -> SUBSET Sets]
      /\ \A w \in Ssf!Verdicts :
            row[w] = IF w = v THEN result[t][w] \cup set ELSE result[t][w]
  BY <1>1
<1>3. result' = [result EXCEPT ![t] = row]
  BY <1>1 DEF Ssf!Put
<1> HIDE DEF row
<1>4. result' \in Results
  BY <1>1, <1>2, <1>3 DEF Results
<1>5. /\ result'[t] = row
      /\ \A u \in Callers : u # t => result'[u] = result[u]
  BY <1>1, <1>3
<1> QED
  BY <1>2, <1>4, <1>5

(* A caller begins a batch, or is cut off from one, with an empty result.  *)
LEMMA StartFacts ==
  ASSUME EventTypes, NEW t \in Callers, NEW place \in {"idle", "polling", "pushed"},
         NEW set \in SUBSET Sets, Ssf!Start(t, place, set)
  PROVE  /\ spc' = [spc EXCEPT ![t] = place]
         /\ left' = [left EXCEPT ![t] = set]
         /\ current' = [current EXCEPT ![t] = {}]
         /\ result' \in Results
         /\ \A u \in Callers, w \in Ssf!Verdicts :
               result'[u][w] = IF u = t THEN {} ELSE result[u][w]
  BY DEF EventTypes, Results, Ssf!Start, Ssf!Goto, Ssf!Empty, Ssf!Verdicts

(* Every step of the transmitter and of time keeps the invariant ...       *)
LEMMA TransmitterStep ==
  ASSUME EventsInv,
         Ssf!Rotate \/ Ssf!Tick \/ (\E s \in Sets : Ssf!Issue(s)) \/ UNCHANGED events
  PROVE  EventsInv'
  BY DEF EventsInv, EventTypes, OfferInv, IdleInv, SeenInv, OnceInv, LostInv,
         Judging, Batched, Results, events, Ssf!Rotate, Ssf!Tick, Ssf!Issue, Ssf!transmitter,
         Ssf!keys, Ssf!batch, Ssf!history

(* ... and so does every step of a caller.                                 *)
LEMMA CallerStep ==
  ASSUME EventsInv, NEW t \in Callers, Ssf!CallerStep(t)
  PROVE  EventsInv'
<1>i. EventTypes /\ OfferInv /\ IdleInv /\ SeenInv /\ OnceInv /\ LostInv
  BY DEF EventsInv
<1>s. Ssf!Settled(t) =
        result[t]["events"] \cup result[t]["replayed"] \cup result[t]["refused"]
  BY DEF Ssf!Settled
<1>v. Ssf!Verdicts = {"events", "refused", "replayed", "unjudged"}
  BY DEF Ssf!Verdicts
<1>1. CASE Ssf!Poll(t)
  <2>1. PICK set \in SUBSET (buffer \ Ssf!Settled(t)) : Ssf!Start(t, "polling", set)
    BY <1>1 DEF Ssf!Poll
  <2>2. /\ spc' = [spc EXCEPT ![t] = "polling"]
        /\ left' = [left EXCEPT ![t] = set]
        /\ current' = [current EXCEPT ![t] = {}]
        /\ result' \in Results
        /\ \A u \in Callers, w \in Ssf!Verdicts :
               result'[u][w] = IF u = t THEN {} ELSE result[u][w]
    <3>1. set \in SUBSET Sets
      BY <1>i DEF EventTypes
    <3> QED
      BY <1>i, <2>1, <3>1, StartFacts
  <2>3. /\ spc[t] = "idle" /\ buffer' = buffer \ Ssf!Settled(t)
        /\ UNCHANGED <<skid, genuine, spublished, offered, seen, sdelivered, cut, cooled>>
    BY <1>1 DEF Ssf!transmitter, Ssf!keys, Ssf!batch, Ssf!history, Ssf!Poll
  <2>c1. EventTypes'
    BY <1>i, <1>s, <1>v, <2>2, <2>3
      DEF EventTypes, Results
  <2>c2. OfferInv'
    BY <1>i, <1>s, <1>v, <2>2, <2>3
      DEF EventTypes, OfferInv, IdleInv
  <2>c3. IdleInv'
    BY <1>i, <1>s, <1>v, <2>2, <2>3
      DEF EventTypes, Results, IdleInv, OfferInv, Judging
  <2>c4. SeenInv'
    BY <1>i, <1>s, <1>v, <2>2, <2>3
      DEF EventTypes, Results, IdleInv, SeenInv, Judging, Batched
  <2>c5. OnceInv'
    BY <1>i, <1>s, <1>v, <2>2, <2>3
      DEF EventTypes, Results, IdleInv, SeenInv, OnceInv, Judging
  <2>c6. LostInv'
    BY <1>i, <1>s, <1>v, <2>2, <2>3
      DEF EventTypes, Results, OfferInv, IdleInv, SeenInv, LostInv, Judging, Batched
  <2> QED
    BY <2>c1, <2>c2, <2>c3, <2>c4, <2>c5, <2>c6 DEF EventsInv
<1>2. CASE Ssf!PollFails(t)
  BY <1>2, <1>i, <1>s
  DEF Ssf!PollFails, Ssf!keys, Ssf!batch, Ssf!history, EventsInv, EventTypes,
      OfferInv, IdleInv, SeenInv, OnceInv, LostInv,
      Judging, Batched, Results
<1>3. CASE Ssf!Return(t)
  <2>1. CASE spc[t] = "polling"
    BY <1>3, <2>1, <1>i
    DEF Ssf!Return, Ssf!Goto, Ssf!keys, EventsInv, EventTypes, OfferInv, IdleInv,
        SeenInv, OnceInv, LostInv,
      Judging, Batched, Results
  <2>2. CASE spc[t] = "pushed"
    <3>1. /\ result' \in Results
          /\ \A u \in Callers, w \in Ssf!Verdicts :
               result'[u][w] = IF u = t THEN {} ELSE result[u][w]
      <4>1. result' = [result EXCEPT ![t] = Ssf!Empty]
        BY <1>3, <2>2 DEF Ssf!Return
      <4> QED
        BY <1>i, <4>1 DEF Ssf!Empty, Ssf!Verdicts, EventTypes, Results
    <3>2. /\ left[t] = {} /\ current[t] = {} /\ spc' = [spc EXCEPT ![t] = "idle"]
          /\ sdelivered' = sdelivered \cup result[t]["events"]
          /\ buffer' \in {buffer, buffer \ Ssf!Settled(t)}
          /\ UNCHANGED <<skid, genuine, spublished, offered, seen, left, current,
                         cut, cooled>>
      BY <1>3, <2>2
      DEF Ssf!transmitter, Ssf!keys, Ssf!batch, Ssf!history, Ssf!Return, Ssf!Goto
    <3>c1. EventTypes'
      BY <1>i, <1>s, <1>v, <2>2, <3>1, <3>2
      DEF EventTypes, Results
    <3>c2. OfferInv'
      BY <1>i, <1>s, <1>v, <2>2, <3>1, <3>2
      DEF EventTypes, OfferInv, IdleInv
    <3>c3. IdleInv'
      BY <1>i, <1>s, <1>v, <2>2, <3>1, <3>2
      DEF EventTypes, Results, IdleInv, OfferInv, Judging
    <3>c4. SeenInv'
      BY <1>i, <1>s, <1>v, <2>2, <3>1, <3>2
      DEF EventTypes, Results, IdleInv, SeenInv, Judging, Batched
    <3>c5. OnceInv'
      BY <1>i, <1>s, <1>v, <2>2, <3>1, <3>2
      DEF EventTypes, Results, IdleInv, SeenInv, OnceInv, Judging
    <3>c6. LostInv'
      BY <1>i, <1>s, <1>v, <2>2, <3>1, <3>2
      DEF EventTypes, Results, OfferInv, IdleInv, SeenInv, LostInv, Judging, Batched
    <3> QED
      BY <3>c1, <3>c2, <3>c3, <3>c4, <3>c5, <3>c6 DEF EventsInv
  <2> QED
    BY <1>3, <2>1, <2>2 DEF Ssf!Return
<1>4. CASE Ssf!Cancel(t)
  <2>1. Ssf!Start(t, "idle", {})
    BY <1>4 DEF Ssf!Cancel
  <2>2. /\ spc' = [spc EXCEPT ![t] = "idle"]
        /\ left' = [left EXCEPT ![t] = {}]
        /\ current' = [current EXCEPT ![t] = {}]
        /\ result' \in Results
        /\ \A u \in Callers, w \in Ssf!Verdicts :
               result'[u][w] = IF u = t THEN {} ELSE result[u][w]
    BY <1>i, <2>1, StartFacts
  <2>3. /\ spc[t] = "polling" /\ cut' = cut \cup result[t]["events"]
        /\ UNCHANGED <<skid, genuine, spublished, offered, buffer, seen, sdelivered,
                       cooled>>
    BY <1>4 DEF Ssf!transmitter, Ssf!keys, Ssf!batch, Ssf!history, Ssf!Cancel
  <2>c1. EventTypes'
    BY <1>i, <1>v, <2>2, <2>3
      DEF EventTypes, Results
  <2>c2. OfferInv'
    BY <1>i, <1>v, <2>2, <2>3
      DEF EventTypes, OfferInv, IdleInv
  <2>c3. IdleInv'
    BY <1>i, <1>v, <2>2, <2>3
      DEF EventTypes, Results, IdleInv, OfferInv, Judging
  <2>c4. SeenInv'
    BY <1>i, <1>v, <2>2, <2>3
      DEF EventTypes, Results, IdleInv, SeenInv, Judging, Batched
  <2>c5. OnceInv'
    BY <1>i, <1>v, <2>2, <2>3
      DEF EventTypes, Results, IdleInv, SeenInv, OnceInv, Judging
  <2>c6. LostInv'
    BY <1>i, <1>v, <2>2, <2>3
      DEF EventTypes, Results, OfferInv, IdleInv, SeenInv, LostInv, Judging, Batched
  <2> QED
    BY <2>c1, <2>c2, <2>c3, <2>c4, <2>c5, <2>c6 DEF EventsInv
<1>5. ASSUME NEW s \in Sets, Ssf!Push(t, s) PROVE EventsInv'
  <2>1. Ssf!Start(t, "pushed", {s})
    BY <1>5 DEF Ssf!Push
  <2>2. /\ spc' = [spc EXCEPT ![t] = "pushed"]
        /\ left' = [left EXCEPT ![t] = {s}]
        /\ current' = [current EXCEPT ![t] = {}]
        /\ result' \in Results
        /\ \A u \in Callers, w \in Ssf!Verdicts :
               result'[u][w] = IF u = t THEN {} ELSE result[u][w]
    BY <1>i, <2>1, StartFacts
  <2>3. /\ spc[t] = "idle" /\ s \in buffer
        /\ UNCHANGED <<skid, genuine, spublished, offered, buffer, seen, sdelivered,
                       cut, cooled>>
    BY <1>5 DEF Ssf!transmitter, Ssf!keys, Ssf!batch, Ssf!history, Ssf!Push
  <2>c1. EventTypes'
    BY <1>i, <1>v, <2>2, <2>3
      DEF EventTypes, Results
  <2>c2. OfferInv'
    BY <1>i, <1>v, <2>2, <2>3
      DEF EventTypes, OfferInv, IdleInv
  <2>c3. IdleInv'
    BY <1>i, <1>v, <2>2, <2>3
      DEF EventTypes, Results, IdleInv, OfferInv, Judging
  <2>c4. SeenInv'
    BY <1>i, <1>v, <2>2, <2>3
      DEF EventTypes, Results, IdleInv, SeenInv, Judging, Batched
  <2>c5. OnceInv'
    BY <1>i, <1>v, <2>2, <2>3
      DEF EventTypes, Results, IdleInv, SeenInv, OnceInv, Judging
  <2>c6. LostInv'
    BY <1>i, <1>v, <2>2, <2>3
      DEF EventTypes, Results, OfferInv, IdleInv, SeenInv, LostInv, Judging, Batched
  <2> QED
    BY <2>c1, <2>c2, <2>c3, <2>c4, <2>c5, <2>c6 DEF EventsInv
<1>6. ASSUME NEW s \in Sets, Ssf!Unfetched(t, s) PROVE EventsInv'
  <2>1. /\ result' \in Results
        /\ \A u \in Callers, w \in Ssf!Verdicts \ {"unjudged"} :
              result'[u][w] = result[u][w]
    BY <1>6, <1>i DEF Ssf!Unfetched, Ssf!Kept, Ssf!Verdicts, EventTypes, Results
  <2>2. /\ left' = [left EXCEPT ![t] = {}] /\ spc[t] # "idle"
        /\ UNCHANGED <<skid, genuine, spublished, offered, buffer, seen, spc,
                       current, sdelivered, cut, cooled>>
    BY <1>6 DEF Ssf!transmitter, Ssf!keys, Ssf!batch, Ssf!history, Ssf!Unfetched
  <2>c1. EventTypes'
    BY <1>i, <1>v, <2>1, <2>2
      DEF EventTypes, Results
  <2>c2. OfferInv'
    BY <1>i, <1>v, <2>1, <2>2
      DEF EventTypes, OfferInv, IdleInv
  <2>c3. IdleInv'
    BY <1>i, <1>v, <2>1, <2>2
      DEF EventTypes, Results, IdleInv, OfferInv, Judging
  <2>c4. SeenInv'
    BY <1>i, <1>v, <2>1, <2>2
      DEF EventTypes, Results, IdleInv, SeenInv, Judging, Batched
  <2>c5. OnceInv'
    BY <1>i, <1>v, <2>1, <2>2
      DEF EventTypes, Results, IdleInv, SeenInv, OnceInv, Judging
  <2>c6. LostInv'
    BY <1>i, <1>v, <2>1, <2>2
      DEF EventTypes, Results, OfferInv, IdleInv, SeenInv, LostInv, Judging, Batched
  <2> QED
    BY <2>c1, <2>c2, <2>c3, <2>c4, <2>c5, <2>c6 DEF EventsInv
<1>7. ASSUME NEW s \in Sets, Ssf!Judge(t, s) PROVE EventsInv'
  <2>1. /\ spc[t] # "idle" /\ s \in left[t] /\ left' = [left EXCEPT ![t] = @ \ {s}]
        /\ cooled' = IF skid[s] \in spublished \ scached' THEN cooled \cup {s} ELSE cooled
        /\ UNCHANGED <<skid, genuine, spublished, offered, buffer, seen, spc,
                       sdelivered, cut>>
    BY <1>7 DEF Ssf!transmitter, Ssf!keys, Ssf!batch, Ssf!history, Ssf!Judge
  <2>2. \/ current' = [current EXCEPT ![t] = {s}] /\ UNCHANGED result
        \/ Ssf!Put(t, "unjudged", {s}) /\ UNCHANGED current
        \/ (s \in genuine => s \in cooled') /\ Ssf!Put(t, "refused", {s}) /\ UNCHANGED current
    BY <1>7, <1>i, <2>1 DEF Ssf!Judge, OfferInv
  <2>3. /\ current' \in [Callers -> SUBSET Sets]
        /\ \A u \in Callers : u # t => current'[u] = current[u]
    BY <1>i, <2>2 DEF EventTypes
  <2>4. /\ result' \in Results
        /\ \A u \in Callers, w \in {"events", "replayed"} : result'[u][w] = result[u][w]
        /\ \A u \in Callers :
              \/ result'[u]["refused"] = result[u]["refused"]
              \/ /\ result'[u]["refused"] = result[u]["refused"] \cup {s}
                 /\ s \in genuine => s \in cooled'
    <3>1. CASE UNCHANGED result
      BY <1>i, <3>1 DEF EventTypes
    <3>2. CASE Ssf!Put(t, "unjudged", {s})
      <4>1. /\ result' \in Results
            /\ \A u \in Callers, w \in Ssf!Verdicts :
                  result'[u][w] = IF u = t /\ w = "unjudged"
                                  THEN result[u][w] \cup {s} ELSE result[u][w]
        <5>1. "unjudged" \in Ssf!Verdicts /\ {s} \in SUBSET Sets
          BY <1>v
        <5> QED
          BY <1>i, <3>2, <5>1, PutFacts
      <4> QED
        BY <1>v, <4>1
    <3>3. CASE (s \in genuine => s \in cooled') /\ Ssf!Put(t, "refused", {s})
      <4>1. /\ result' \in Results
            /\ \A u \in Callers, w \in Ssf!Verdicts :
                  result'[u][w] = IF u = t /\ w = "refused"
                                  THEN result[u][w] \cup {s} ELSE result[u][w]
        <5>1. "refused" \in Ssf!Verdicts /\ {s} \in SUBSET Sets
          BY <1>v
        <5> QED
          BY <1>i, <3>3, <5>1, PutFacts
      <4> QED
        BY <1>v, <3>3, <4>1
    <3> QED
      BY <2>2, <3>1, <3>2, <3>3
  <2>c1. EventTypes'
    BY <1>i, <1>v, <2>1, <2>3, <2>4
    DEF EventTypes, Results
  <2>c2. OfferInv'
    BY <1>i, <1>v, <2>1, <2>3, <2>4
    DEF EventTypes, OfferInv, IdleInv
  <2>c3. IdleInv'
    BY <1>i, <1>v, <2>1, <2>3, <2>4
    DEF EventTypes, Results, IdleInv, OfferInv, Judging
  <2>c4. SeenInv'
    BY <1>i, <1>v, <2>1, <2>3, <2>4
    DEF EventTypes, Results, IdleInv, SeenInv, Judging, Batched
  <2>c5. OnceInv'
    BY <1>i, <1>v, <2>1, <2>3, <2>4
    DEF EventTypes, Results, IdleInv, SeenInv, OnceInv, Judging
  <2>5. cooled \subseteq cooled'
    BY <2>1
  <2>6. \A u \in Callers : result'[u]["refused"] \cap genuine \subseteq cooled'
    BY <1>i, <2>4, <2>5 DEF LostInv
  <2>7. \A x : Batched(x)' <=> Batched(x)
    BY <2>1, <2>4 DEF Batched, Judging
  <2>c6. LostInv'
    BY <1>i, <2>1, <2>5, <2>6, <2>7 DEF LostInv
  <2> QED
    BY <2>c1, <2>c2, <2>c3, <2>c4, <2>c5, <2>c6 DEF EventsInv
<1>8. ASSUME NEW s \in Sets, Ssf!Record(t, s) PROVE EventsInv'
  <2>1. /\ current[t] = {s} /\ current' = [current EXCEPT ![t] = {}] /\ seen' = seen \cup {s}
        /\ spc[t] # "idle"
        /\ UNCHANGED <<skid, genuine, spublished, offered, buffer, spc, left,
                       sdelivered, cut, cooled>>
    BY <1>8, <1>i
    DEF Ssf!Record, Ssf!transmitter, Ssf!keys, Ssf!batch, Ssf!history, IdleInv, Judging
  <2>2. CASE s \in seen
    <3>1. Ssf!Put(t, "replayed", {s})
      BY <1>8, <2>2 DEF Ssf!Record, Ssf!Held
    <3>2. /\ result' \in Results
          /\ \A u \in Callers, w \in Ssf!Verdicts :
                result'[u][w] = IF u = t /\ w = "replayed"
                                THEN result[u][w] \cup {s} ELSE result[u][w]
      <4>1. "replayed" \in Ssf!Verdicts /\ {s} \in SUBSET Sets
        BY <1>v
      <4> QED
        BY <1>i, <3>1, <4>1, PutFacts
    <3>c1. EventTypes'
      BY <1>i, <1>v, <2>1, <2>2, <3>2
      DEF EventTypes, Results
    <3>c2. OfferInv'
      BY <1>i, <1>v, <2>1, <2>2, <3>2
      DEF EventTypes, OfferInv, IdleInv
    <3>c3. IdleInv'
      BY <1>i, <1>v, <2>1, <2>2, <3>2
      DEF EventTypes, Results, IdleInv, OfferInv, Judging
    <3>c4. SeenInv'
      <4>1. /\ \A u \in Callers : result'[u]["replayed"] \subseteq result[u]["replayed"] \cup {s}
            /\ \A u \in Callers : result'[u]["events"] = result[u]["events"]
        BY <1>v, <3>2
      <4>2. seen' = seen /\ sdelivered' = sdelivered /\ cut' = cut /\ spc' = spc
        BY <2>1, <2>2
      <4>3. \A x : Batched(x)' <=> Batched(x)
        BY <4>1, <4>2 DEF Batched, Judging
      <4> QED
        BY <1>i, <2>2, <4>1, <4>2, <4>3 DEF SeenInv, Judging
    <3>c5. OnceInv'
      BY <1>i, <1>v, <2>1, <2>2, <3>2
      DEF EventTypes, Results, IdleInv, SeenInv, OnceInv, Judging
    <3>c6. LostInv'
      BY <1>i, <1>v, <2>1, <2>2, <3>2
      DEF EventTypes, Results, OfferInv, IdleInv, SeenInv, LostInv, Judging, Batched
    <3> QED
      BY <3>c1, <3>c2, <3>c3, <3>c4, <3>c5, <3>c6 DEF EventsInv
  <2>3. CASE s \notin seen
    <3>1. Ssf!Put(t, "events", {s})
      BY <1>8, <2>3 DEF Ssf!Record, Ssf!Held
    <3>2. /\ result' \in Results
          /\ \A u \in Callers, w \in Ssf!Verdicts :
                result'[u][w] = IF u = t /\ w = "events"
                                THEN result[u][w] \cup {s} ELSE result[u][w]
      <4>1. "events" \in Ssf!Verdicts /\ {s} \in SUBSET Sets
        BY <1>v
      <4> QED
        BY <1>i, <3>1, <4>1, PutFacts
    <3>c1. EventTypes'
      BY <1>i, <1>v, <2>1, <2>3, <3>2
      DEF EventTypes, Results
    <3>c2. OfferInv'
      BY <1>i, <1>v, <2>1, <2>3, <3>2
      DEF EventTypes, OfferInv, IdleInv
    <3>c3. IdleInv'
      BY <1>i, <1>v, <2>1, <2>3, <3>2
      DEF EventTypes, Results, IdleInv, OfferInv, Judging
    <3>c4. SeenInv'
      <4>1. /\ \A u \in Callers : result'[u]["replayed"] = result[u]["replayed"]
            /\ \A u \in Callers : u # t => result'[u]["events"] = result[u]["events"]
            /\ result'[t]["events"] = result[t]["events"] \cup {s}
        BY <1>v, <3>2
      <4>2. seen' = seen \cup {s} /\ sdelivered' = sdelivered /\ cut' = cut /\ spc' = spc
        BY <2>1
      <4>3. /\ \A x : Batched(x) => Batched(x)'
            /\ Batched(s)'
        BY <2>1, <4>1, <4>2 DEF Batched, Judging
      <4> QED
        BY <1>i, <4>1, <4>2, <4>3 DEF SeenInv, Judging
    <3>c5. OnceInv'
      <4>1. /\ \A u \in Callers : Judging(u)' = Judging(u)
            /\ sdelivered' = sdelivered /\ s \notin sdelivered
            /\ \A u \in Callers : Judging(u) => s \notin result[u]["events"]
        BY <1>i, <2>1, <2>3 DEF SeenInv, Judging
      <4>2. \A u \in Callers : result'[u]["events"] =
               IF u = t THEN result[u]["events"] \cup {s} ELSE result[u]["events"]
        BY <1>v, <3>2
      <4>3. \A u \in Callers : Judging(u)' => result'[u]["events"] \cap sdelivered' = {}
        BY <1>i, <4>1, <4>2 DEF OnceInv
      <4>4. ASSUME NEW u \in Callers, NEW w \in Callers, u # w, Judging(u)', Judging(w)'
            PROVE  result'[u]["events"] \cap result'[w]["events"] = {}
        <5>1. /\ result[u]["events"] \cap result[w]["events"] = {}
              /\ s \notin result[u]["events"] /\ s \notin result[w]["events"]
          BY <1>i, <4>1, <4>4 DEF OnceInv
        <5> QED
          BY <4>2, <4>4, <5>1
      <4> QED
        BY <4>3, <4>4 DEF OnceInv
    <3>c6. LostInv'
      BY <1>i, <1>v, <2>1, <2>3, <3>2
      DEF EventTypes, Results, OfferInv, IdleInv, SeenInv, LostInv, Judging, Batched
    <3> QED
      BY <3>c1, <3>c2, <3>c3, <3>c4, <3>c5, <3>c6 DEF EventsInv
  <2> QED
    BY <2>2, <2>3
<1>9. ASSUME NEW s \in Sets, Ssf!StoreFails(t, s) PROVE EventsInv'
  <2>1. /\ current[t] = {s} /\ current' = [current EXCEPT ![t] = {}] /\ spc[t] # "idle"
        /\ UNCHANGED <<skid, genuine, spublished, offered, buffer, seen, spc, left,
                       sdelivered, cut, cooled>>
    BY <1>9, <1>i
    DEF Ssf!StoreFails, Ssf!transmitter, Ssf!keys, Ssf!batch, Ssf!history, IdleInv, Judging
  <2>2. /\ result' \in Results
        /\ \A u \in Callers, w \in Ssf!Verdicts \ {"unjudged"} :
              result'[u][w] = result[u][w]
    <3>1. Ssf!Put(t, "unjudged", {s})
      BY <1>9 DEF Ssf!StoreFails, Ssf!NoAnswer
    <3>2. /\ result' \in Results
          /\ \A u \in Callers, w \in Ssf!Verdicts :
                result'[u][w] = IF u = t /\ w = "unjudged"
                                THEN result[u][w] \cup {s} ELSE result[u][w]
      <4>1. "unjudged" \in Ssf!Verdicts /\ {s} \in SUBSET Sets
        BY <1>v
      <4> QED
        BY <1>i, <3>1, <4>1, PutFacts
    <3> QED
      BY <1>v, <3>2
  <2>c1. EventTypes'
    BY <1>i, <1>v, <2>1, <2>2
      DEF EventTypes, Results
  <2>c2. OfferInv'
    BY <1>i, <1>v, <2>1, <2>2
      DEF EventTypes, OfferInv, IdleInv
  <2>c3. IdleInv'
    BY <1>i, <1>v, <2>1, <2>2
      DEF EventTypes, Results, IdleInv, OfferInv, Judging
  <2>c4. SeenInv'
    BY <1>i, <1>v, <2>1, <2>2
      DEF EventTypes, Results, IdleInv, SeenInv, Judging, Batched
  <2>c5. OnceInv'
    BY <1>i, <1>v, <2>1, <2>2
      DEF EventTypes, Results, IdleInv, SeenInv, OnceInv, Judging
  <2>c6. LostInv'
    BY <1>i, <1>v, <2>1, <2>2
      DEF EventTypes, Results, OfferInv, IdleInv, SeenInv, LostInv, Judging, Batched
  <2> QED
    BY <2>c1, <2>c2, <2>c3, <2>c4, <2>c5, <2>c6 DEF EventsInv
<1> QED
  BY <1>1, <1>2, <1>3, <1>4, <1>5, <1>6, <1>7, <1>8, <1>9 DEF Ssf!CallerStep

(* The inductive invariant of the receiver.                                *)
THEOREM EventsInvariance == MCSpec => []EventsInv
<1>1. MCInit => EventsInv
  BY EventsInit DEF MCInit
<1>2. EventsInv /\ [Ssf!Next]_events => EventsInv'
  BY TransmitterStep, CallerStep DEF Ssf!Next
<1> QED
  BY <1>1, <1>2, Parts, PTL DEF MCSpec

(* For any number of callers and SETs, an event is returned once, by one   *)
(* of the batches that overlap.                                            *)
THEOREM EventsAreAcceptedOnce == MCSpec => []AcceptedOnce
<1>1. EventsInv => AcceptedOnce
  <2> SUFFICES ASSUME EventsInv PROVE AcceptedOnce
    OBVIOUS
  <2>1. \A s \in Ssf!Underway : Batched(s)
    BY DEF Ssf!Underway, Batched, Judging
  <2>2. Ssf!Underway \cap sdelivered = {}
    BY <2>1 DEF EventsInv, OnceInv, Batched
  <2> QED
    BY <2>2 DEF EventsInv, OnceInv, Judging, AcceptedOnce, Ssf!AcceptedOnce
<1> QED
  BY <1>1, EventsInvariance, PTL

(* The transmitter gives up a genuine SET only when it was returned, or is *)
(* about to be, but for the two losses that are named: a poll that was     *)
(* cancelled, and a rotated key within the minute after a refetch.         *)
THEOREM EventsAreNotLost == MCSpec => []NothingLost
<1>1. EventsInv => NothingLost
  <2> SUFFICES ASSUME EventsInv PROVE NothingLost
    OBVIOUS
  <2>1. \A s : Batched(s) => s \in Ssf!Underway
    BY DEF Ssf!Underway, Batched, Judging
  <2> QED
    BY <2>1 DEF EventsInv, LostInv, NothingLost, Ssf!NothingLost
<1> QED
  BY <1>1, EventsInvariance, PTL
==============================================================================
