----------------------------- MODULE OidcLogin ------------------------------
(* The redirect login of the web integrations (fastapi/__init__.py         *)
(* oidc_login_router, django/oidc.py): workers that serve the login and    *)
(* the callback routes, the store of login states (_oidc_state.py) and the *)
(* discovery cache (_DiscoveryCache of _oidc.py) that they share.          *)
(* External: browsers, which may deliver a callback late, again, or to two *)
(* workers at once, and a token endpoint that redeems a code once.  Time   *)
(* is what is left of a lifetime.                                          *)
EXTENDS Naturals

CONSTANTS
    Workers,
    Logins,     \* the attempts to sign in, each with its own state and code
    StateTTL,   \* OIDC_STATE_TTL_SECONDS
    DocTTL,     \* the lifetime of a discovery document
    NoOne

VARIABLES
    pc,         \* where each worker is
    route,      \* which route it serves
    login,      \* for which login
    document,   \* what is left of the cached document's lifetime
    lock,       \* who holds the lock of the discovery cache
    stored,     \* the states in the store
    left,       \* what is left of the lifetime of each
    code,       \* of each login: none, issued, spent
    age,        \* history: time since the login was saved, up to StateTTL
    presented,  \* history: how often its code was presented
    late        \* history: logins resumed after the lifetime of their state

worker == <<pc, route, login>>
cache == <<document, lock>>
store == <<stored, left>>
history == <<age, presented, late>>
vars == <<worker, cache, store, code, history>>

Init ==
    /\ pc = [w \in Workers |-> "idle"]
    /\ route = [w \in Workers |-> "none"]
    /\ login = [w \in Workers |-> NoOne]
    /\ document = 0 /\ lock = NoOne
    /\ stored = {} /\ left = [l \in Logins |-> 0]
    /\ code = [l \in Logins |-> "none"]
    /\ age = [l \in Logins |-> 0]
    /\ presented = [l \in Logins |-> 0]
    /\ late = {}

At(w, place) == pc[w] = place

Goto(w, place) == pc' = [pc EXCEPT ![w] = place]

Serve(w, path, l) ==
    /\ Goto(w, "discovering")
    /\ route' = [route EXCEPT ![w] = path]
    /\ login' = [login EXCEPT ![w] = l]

(* What follows the discovery document on either route.                    *)
Proceed(w) == Goto(w, IF route[w] = "login" THEN "saving" ELSE "exchanging")

-----------------------------------------------------------------------------
(* The login route is called for a login that has not begun.               *)
LoginRequest(w, l) ==
    /\ At(w, "idle")
    /\ code[l] = "none" /\ l \notin stored
    /\ \A v \in Workers : ~(login[v] = l /\ pc[v] # "idle")
    /\ Serve(w, "login", l)
    /\ UNCHANGED <<cache, store, code, history>>

(* get_sync, get_async: the cached document, if it is fresh ...            *)
Discover(w) ==
    /\ At(w, "discovering")
    /\ IF document > 0 THEN Proceed(w) ELSE Goto(w, "waiting")
    /\ UNCHANGED <<route, login, cache, store, code, history>>

(* ... or the document that another worker fetched while this one waited   *)
(* for the lock ...                                                        *)
FreshUnderLock == document > 0

Acquire(w) ==
    /\ At(w, "waiting") /\ lock = NoOne
    /\ IF FreshUnderLock THEN Proceed(w) /\ UNCHANGED lock
       ELSE Goto(w, "fetching") /\ lock' = w
    /\ UNCHANGED <<route, login, document, store, code, history>>

(* ... or a new one, fetched with the lock held.                           *)
Fetched(w) ==
    /\ At(w, "fetching")
    /\ Proceed(w)
    /\ document' = DocTTL /\ lock' = NoOne
    /\ UNCHANGED <<route, login, store, code, history>>

(* The request is answered with a 503; on the callback route the state has *)
(* been consumed by then.                                                  *)
FetchFails(w) ==
    /\ At(w, "fetching")
    /\ Goto(w, "idle")
    /\ lock' = NoOne
    /\ UNCHANGED <<route, login, document, store, code, history>>

(* save: what has expired is swept, the new state begins its lifetime.     *)
Save(w) ==
    /\ At(w, "saving")
    /\ Goto(w, "idle")
    /\ stored' = {l \in stored : left[l] > 0} \cup {login[w]}
    /\ left' = [left EXCEPT ![login[w]] = StateTTL]
    /\ age' = [age EXCEPT ![login[w]] = 0]
    /\ UNCHANGED <<route, login, cache, code, presented, late>>

(* The user signs in at the provider, which redirects the browser.         *)
Authorize(l) ==
    /\ l \in stored /\ code[l] = "none"
    /\ code' = [code EXCEPT ![l] = "issued"]
    /\ UNCHANGED <<worker, cache, store, history>>

(* Mutant: the entry stays until the exchange is done.                     *)
Popped_Kept(l) == stored

(* consume deletes the entry, and then looks at its age.                   *)
Popped(l) == stored \ {l}
Unexpired(l) == left[l] > 0

(* The callback route is called; a state that is not stored is refused.    *)
Callback(w, l) ==
    /\ At(w, "idle")
    /\ code[l] # "none" /\ l \in stored
    /\ stored' = Popped(l)
    /\ IF Unexpired(l)
          THEN /\ Serve(w, "callback", l)
               /\ late' = IF age[l] < StateTTL THEN late ELSE late \cup {l}
          ELSE UNCHANGED <<worker, late>>
    /\ UNCHANGED <<cache, left, code, age, presented>>

(* oidc_exchange: the request reaches the endpoint; the worker gets the    *)
(* tokens and signs the user in, or an error, or no answer.  It does not   *)
(* try again.                                                              *)
Exchange(w) ==
    /\ At(w, "exchanging")
    /\ Goto(w, "idle")
    /\ code' = [code EXCEPT ![login[w]] = "spent"]
    /\ presented' = [presented EXCEPT ![login[w]] = @ + 1]
    /\ UNCHANGED <<route, login, cache, store, age, late>>

Tick ==
    /\ document > 0 \/ \E l \in Logins : left[l] > 0
    /\ document' = IF document > 0 THEN document - 1 ELSE 0
    /\ left' = [l \in Logins |-> IF left[l] > 0 THEN left[l] - 1 ELSE 0]
    /\ age' = [l \in Logins |-> IF age[l] < StateTTL THEN age[l] + 1 ELSE age[l]]
    /\ UNCHANGED <<worker, lock, stored, code, presented, late>>

WorkerStep(w) ==
    \/ Discover(w) \/ Acquire(w) \/ Fetched(w) \/ FetchFails(w)
    \/ Save(w) \/ Exchange(w)
    \/ \E l \in Logins : LoginRequest(w, l) \/ Callback(w, l)

Next ==
    \/ Tick
    \/ \E l \in Logins : Authorize(l)
    \/ \E w \in Workers : WorkerStep(w)

Spec == Init /\ [][Next]_vars

-----------------------------------------------------------------------------
TypeOK ==
    /\ pc \in [Workers -> {"idle", "discovering", "waiting", "fetching",
                           "saving", "exchanging"}]
    /\ route \in [Workers -> {"none", "login", "callback"}]
    /\ login \in [Workers -> Logins \cup {NoOne}]
    /\ document \in 0 .. DocTTL /\ lock \in Workers \cup {NoOne}
    /\ stored \subseteq Logins /\ left \in [Logins -> 0 .. StateTTL]
    /\ code \in [Logins -> {"none", "issued", "spent"}]
    /\ age \in [Logins -> 0 .. StateTTL]
    /\ presented \in [Logins -> Nat] /\ late \subseteq Logins

(* A state is good for one exchange, within its lifetime, whatever browser *)
(* delivers the callback again, to another worker at the same moment, or   *)
(* late ("a replayed callback finds nothing", fastapi/__init__.py).        *)
OneExchangePerState ==
    \A l \in Logins : presented[l] <= 1 /\ l \notin late
=============================================================================
