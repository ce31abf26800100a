---------------------------- MODULE SigningKeys -----------------------------
(* JwksVerifier._get_signing_key (axiam_sdk/_jwks.py): threads that verify *)
(* tokens look their signing keys up in one cached key set, one at a time, *)
(* while the server rotates its key and fetches may fail.  The lookup and  *)
(* its cache are PyJWT's PyJWKClient, modelled from how _jwks.py and its   *)
(* tests use it.  Keys are numbered in the order they are published.       *)
EXTENDS Naturals

CONSTANTS
    Threads,
    MaxKey,        \* bound: how many keys the server ever publishes
    Lifespan,      \* lifespan of the cached key set
    MinInterval,   \* _FORCED_REFETCH_MIN_INTERVAL_SECONDS
    Timeout,       \* how long one fetch may last
    MaxTime,       \* bound: the clock stops there
    NoOne,         \* holder of the free lock
    Never          \* a time that has not come, an empty cache

Keys == 1 .. MaxKey

(* The key id of a token that no key of the server ever had.               *)
Unknown == 0

VARIABLES
    now,        \* time.monotonic()
    published,  \* the key set the endpoint serves
    newest,     \* the last key published
    withdrawn,  \* when each key left the published set
    cacheOn,    \* jwk_set_cache is not None
    cached,     \* the cached key set and when it was stored, or Never
    lastForced, \* _last_forced_refetch
    lock,       \* _refetch_lock
    pc,         \* where each thread is
    kid,        \* the key id in the header of the thread's token
    began,      \* when the thread called _get_signing_key
    attempt,    \* whether this is its first or its second lookup
    refresh,    \* whether the lookup is at its own refresh
    fetch,      \* when the fetch of the thread began, and what was served
    blip,       \* history: a fetch of its lookups has failed
    delivered   \* history: the last key set a fetch delivered, and when

vars == <<now, published, newest, withdrawn, cacheOn, cached, lastForced, lock,
          pc, kid, began, attempt, refresh, fetch, blip, delivered>>

NoFetch == [at |-> 0, keys |-> {}]

Init ==
    /\ now = 0
    /\ newest = 1 /\ published = {1}
    /\ withdrawn = [k \in Keys |-> Never]
    /\ cacheOn = TRUE
    /\ cached = Never
    /\ lastForced = Never
    /\ lock = NoOne
    /\ pc = [t \in Threads |-> "idle"]
    /\ kid = [t \in Threads |-> Unknown]
    /\ began = [t \in Threads |-> 0]
    /\ attempt = [t \in Threads |-> 1]
    /\ refresh = [t \in Threads |-> FALSE]
    /\ fetch = [t \in Threads |-> NoFetch]
    /\ blip = [t \in Threads |-> FALSE]
    /\ delivered = Never

At(t, place) == pc[t] = place

KeySet(keys) == [keys |-> keys, at |-> now]

(* Mutant: the per-key cache without a lifespan is on.                     *)
Fresh_PerKey == cached # Never

(* The lock spans the whole lookup, fetches included.                      *)
LockFree(t) == lock = NoOne

(* cache_jwk_set=True: a key set is served until its lifespan is over.     *)
Fresh == cacheOn /\ cached # Never /\ now - cached.at <= Lifespan

(* Mutant: no refetch is ever forced.                                      *)
RateLimited_Always == TRUE

RateLimited == lastForced # Never /\ now - lastForced < MinInterval

-----------------------------------------------------------------------------
(* The server publishes its next key instead of the current one; between   *)
(* the two its key set may be empty.                                       *)
Publish(keys) ==
    /\ published' = keys
    /\ withdrawn' = [k \in Keys |-> IF k \in published \ keys THEN now ELSE withdrawn[k]]
    /\ UNCHANGED <<now, cacheOn, cached, lastForced, lock, pc, kid, began,
                   attempt, refresh, fetch, blip, delivered>>

Rotate   == newest < MaxKey /\ newest' = newest + 1 /\ Publish({newest'})
Withdraw == published # {} /\ newest < MaxKey /\ UNCHANGED newest /\ Publish({})

Fetching == {t \in Threads : pc[t] \in {"fetching", "served"}}

(* A fetch ends within its timeout.                                        *)
Tick ==
    /\ now < MaxTime
    /\ \A t \in Fetching : now - fetch[t].at < Timeout
    /\ now' = now + 1
    /\ UNCHANGED <<published, newest, withdrawn, cacheOn, cached, lastForced,
                   lock, pc, kid, began, attempt, refresh, fetch, blip,
                   delivered>>

ServerUnchanged == UNCHANGED <<now, published, newest, withdrawn>>

-----------------------------------------------------------------------------
(* A token arrives.  Its algorithm has been pinned before.                 *)
Verify(t, k) ==
    /\ pc[t] \in {"idle", "found", "refused"}
    /\ k \in 0 .. newest
    /\ pc' = [pc EXCEPT ![t] = "waiting"]
    /\ kid' = [kid EXCEPT ![t] = k]
    /\ began' = [began EXCEPT ![t] = now]
    /\ ServerUnchanged
    /\ UNCHANGED <<cacheOn, cached, lastForced, lock, attempt, refresh, fetch,
                   blip, delivered>>

Acquire(t) ==
    /\ At(t, "waiting")
    /\ LockFree(t)
    /\ lock' = t
    /\ pc' = [pc EXCEPT ![t] = "looking"]
    /\ ServerUnchanged
    /\ UNCHANGED <<cacheOn, cached, lastForced, kid, began, attempt, refresh,
                   fetch, blip, delivered>>

(* The thread leaves with the lock released.                               *)
Return(t, verdict) ==
    /\ pc' = [pc EXCEPT ![t] = verdict]
    /\ lock' = NoOne
    /\ kid' = [kid EXCEPT ![t] = Unknown]
    /\ began' = [began EXCEPT ![t] = 0]
    /\ attempt' = [attempt EXCEPT ![t] = 1]
    /\ blip' = [blip EXCEPT ![t] = FALSE]

(* How a lookup goes on: with its key, with an error, or with a fetch.     *)
Found(t) ==
    /\ Return(t, "found")
    /\ refresh' = [refresh EXCEPT ![t] = FALSE]
    /\ fetch' = [fetch EXCEPT ![t] = NoFetch]

Error(t, isBlip) ==
    /\ \/ /\ attempt[t] = 1
          /\ pc' = [pc EXCEPT ![t] = "erred"]
          /\ blip' = [blip EXCEPT ![t] = @ \/ isBlip]
          /\ UNCHANGED <<lock, kid, began, attempt>>
       \/ attempt[t] = 2 /\ Return(t, "refused")
    /\ refresh' = [refresh EXCEPT ![t] = FALSE]
    /\ fetch' = [fetch EXCEPT ![t] = NoFetch]

Fetch(t, isRefresh) ==
    /\ pc' = [pc EXCEPT ![t] = "fetching"]
    /\ refresh' = [refresh EXCEPT ![t] = isRefresh]
    /\ fetch' = [fetch EXCEPT ![t] = [at |-> now, keys |-> {}]]
    /\ UNCHANGED <<lock, kid, began, attempt, blip>>

(* A key set is at hand: an empty one is an error, and one without the key *)
(* is refreshed once.                                                      *)
Match(t, keys, isRefresh) ==
    \/ kid[t] \in keys /\ Found(t)
    \/ keys = {} /\ Error(t, FALSE)
    \/ keys # {} /\ kid[t] \notin keys /\ isRefresh /\ Error(t, FALSE)
    \/ keys # {} /\ kid[t] \notin keys /\ ~isRefresh /\ Fetch(t, TRUE)

(* get_signing_key_from_jwt, up to its first fetch.                        *)
Look(t) ==
    /\ At(t, "looking")
    /\ IF Fresh THEN Match(t, cached.keys, FALSE) ELSE Fetch(t, FALSE)
    /\ ServerUnchanged
    /\ UNCHANGED <<cacheOn, cached, lastForced, delivered>>

(* The endpoint answers with what it publishes at that moment.             *)
Serve(t) ==
    /\ At(t, "fetching")
    /\ fetch' = [fetch EXCEPT ![t].keys = published]
    /\ pc' = [pc EXCEPT ![t] = "served"]
    /\ ServerUnchanged
    /\ UNCHANGED <<cacheOn, cached, lastForced, lock, kid, began, attempt,
                   refresh, blip, delivered>>

(* The answer arrives and is cached, if there is a cache still.            *)
Deliver(t) ==
    /\ At(t, "served")
    /\ cached' = IF cacheOn THEN KeySet(fetch[t].keys) ELSE cached
    /\ delivered' = KeySet(fetch[t].keys)
    /\ Match(t, fetch[t].keys, refresh[t])
    /\ ServerUnchanged
    /\ UNCHANGED <<cacheOn, lastForced>>

(* The fetch fails; whether the cache survives that is the library's       *)
(* choice.                                                                 *)
FetchFails(t) ==
    /\ At(t, "fetching")
    /\ cached' \in {cached, Never}
    /\ delivered' = Never
    /\ Error(t, TRUE)
    /\ ServerUnchanged
    /\ UNCHANGED <<cacheOn, lastForced>>

(* The first lookup has failed: within the minimum interval of the last    *)
(* forced refetch it is repeated as it is, otherwise the cache is dropped  *)
(* first, and for good.                                                    *)
LookAgain(t) ==
    /\ At(t, "erred")
    /\ pc' = [pc EXCEPT ![t] = "looking"]
    /\ attempt' = [attempt EXCEPT ![t] = 2]
    /\ IF RateLimited
          THEN UNCHANGED <<cacheOn, lastForced>>
          ELSE cacheOn' = FALSE /\ lastForced' = now
    /\ ServerUnchanged
    /\ UNCHANGED <<cached, lock, kid, began, refresh, fetch, blip,
                   delivered>>

ThreadStep(t) ==
    \/ \E k \in 0 .. MaxKey : Verify(t, k)
    \/ Acquire(t) \/ Look(t) \/ Serve(t) \/ Deliver(t) \/ FetchFails(t)
    \/ LookAgain(t)

Next == Rotate \/ Withdraw \/ Tick \/ \E t \in Threads : ThreadStep(t)

Spec == Init /\ [][Next]_vars

-----------------------------------------------------------------------------
Times == 0 .. MaxTime

(* The type invariant; the threads inside the lookup hold the lock.        *)
TypeOK ==
    /\ now \in Times
    /\ published \subseteq Keys /\ newest \in Keys
    /\ withdrawn \in [Keys -> Times \cup {Never}]
    /\ cacheOn \in BOOLEAN
    /\ cached # Never => cached \in [keys : SUBSET Keys, at : Times]
    /\ lastForced \in Times \cup {Never}
    /\ \A t \in Threads :
          pc[t] \in {"looking", "fetching", "served", "erred"} => lock = t

(* A key is honoured for at most the cache's lifespan, and one fetch,      *)
(* after it was withdrawn: JwksVerifier.__init__ caches the key set and    *)
(* not the keys, so as not to serve "a rotated/revoked key indefinitely".  *)
WithdrawnKeyExpires ==
    [][\A t \in Threads :
          /\ pc[t] # "found" /\ pc'[t] = "found"
          /\ withdrawn[kid[t]] # Never
          => now - withdrawn[kid[t]] <= Lifespan + Timeout]_vars

(* A token is refused for want of a key only if its key was not published  *)
(* all the while or a fetch failed: the cool-down of _get_signing_key and  *)
(* a key set cached during a rotation never hide a key that is there.      *)
RefusedForCause ==
    [][\A t \in Threads :
          /\ pc[t] # "fetching" /\ pc'[t] = "refused"
          /\ kid[t] \in published
          => blip[t]]_vars

(* A caller that waited while another's fetch delivered its key does not   *)
(* fetch: "every waiter [...] first retries against whatever a prior lock- *)
(* holder may have already fetched/repaired" (_get_signing_key).           *)
BurstCollapses ==
    \A t \in Fetching :
        /\ delivered # Never
        /\ began[t] <= delivered.at
        /\ now - delivered.at <= Lifespan
        => kid[t] \notin delivered.keys

(* BurstCollapses as far as it holds: until a refetch is forced.           *)
BurstCollapsesCached == cacheOn => BurstCollapses
=============================================================================
