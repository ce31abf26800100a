# A TLA+ model of the AXIAM Python SDK

The SDK (`src/axiam_sdk`) is a client library: it signs a program in to an AXIAM
server, keeps the session alive, asks the server for authorization decisions,
verifies tokens offline and consumes the server's signed events. Most of it is
one request per method. What is hard is the state those methods share between
threads, coroutines and deliveries: single-use refresh tokens behind one lock,
an in-flight slot that callers join, a memo of decisions, a record of nonces;
and, in the manifest engine, long sequences of writes that nothing makes atomic.
This directory models that state, model-checks it with TLC and proves the most
important properties with TLAPS.

Source paths below are relative to `src/axiam_sdk/` of the SDK; "§" is a section of its
`CONTRACT.md`.

## 1. Inventory

| component | state it keeps | operations | who uses it |
|---|---|---|---|
| `token/refresh_guard.py` `RefreshGuard` | one `threading.Lock`; cached access/refresh/exp; `_has_any` | `refresh_if_needed_sync/async`, `run_exclusive_sync/async`, `seed`, lock-free reads | both clients, the gRPC interceptor, `oidc_refresh` |
| `_session.py` | cookie jar shared by the sync and async httpx clients, CSRF token, adopted bearer credential, the current `RefreshGuard` | cookie capture on every response, `adopt_bearer_credential`, `clear_bearer_credential` | both clients |
| `_client.py`, `_async_client.py` | organisation and tenant ids, principal scope, `closed`, decision memo, retry switch | `login` and its variants, `refresh`, `logout`, `check_access`, `batch_check`, acting-tenant handles, `oidc_*`, `sso_*` | the application, in any number of threads and coroutines |
| `_oidc.py` `_SyncSingleFlight`, `_AsyncSingleFlight` | the in-flight slot (a publication, or a task) | `run` | `oidc_refresh` |
| `_oidc.py` `_DiscoveryCache`, `PollSchedule`, device and CIBA loops (`_ciba.py`) | documents with a deadline; interval, remaining life | `get_sync/async`; `tick`, `slow_down`, `rate_limited` | OIDC operations |
| `_oidc_state.py` `MemoryOidcStateStore` | login states with a deadline | `save`, `consume` | `oidc_authorize_url`, `oidc_exchange` |
| `_decision_memo.py` `DecisionMemo` | ordered dict key -> (decision, time), under a lock | `get`, `set`, `clear` | `check_access`, every credential change |
| `_retry.py` | attempt counter | `retry_sync/async` | read-only operations, polling |
| `_jwks.py` `JwksVerifier` | key set cache, time of the last forced refetch, a lock | `get_signing_key`, `verify_*` | framework integrations, ID tokens |
| `_revocation_feed.py` `RevocationFeed` | revoked entries or "never fetched", time of the last attempt | `is_revoked`, `refresh` | framework integrations |
| `amqp/_consumer.py`, `amqp/_replay.py` | `NonceStore` | `_on_message`: verify, parse, freshness, dispatch, ack/nack | the application's event handler |
| `amqp/_reactor*.py` | reconnect attempt, in-flight dispatches, nonce store, event registry | `reactor_serve`, `_run_session`, `dispatch_reactor_delivery` | the application's decision handler |
| `ssf/_receiver.py` | JWKS cache, replay store of seen `jti` | `verify_set`, `poll` | the application |
| `management/_request.py`, `_page.py` | none across calls; within a walk: the offset and what was gathered | `send_management`, `collect_pages` | every management method |
| `management/manifest/*` | none across calls; within one: a snapshot of the tenant, ids resolved so far, the ordered steps | `plan`, `apply`, `_rebind_role` | the application |
| `management/ops`, `management/models.py`, `grpc/gen` | none | generated requests and types | the application |
| `fastapi`, `django` | per-request verdicts | dependencies, middleware, decorators | web applications |
| `grpc/client.py`, `_interceptor.py` | channel | metadata from the guard's cached token | the application |
| `_mcp.py`, `_dpop.py`, `_opaque.py`, `_webauthn.py`, `_account.py`, `_registration.py`, `webhook/_verify.py`, `_oidc_pkce.py`, `_oidc_idtoken.py`, `amqp/_hmac.py` | none across calls | protocol steps, cryptography, validation | clients |

**How they interact.** A `check_access` reads the memo; on a miss it posts; on a
401 it calls `refresh()`, which clears the memo, reads the access cookie from
the jar and enters the guard; the guard serialises it with every other rotating
call, in whatever paradigm; the answer's cookies enter the jar through httpx
before the body is read; the guard's cache is updated, the lock released, and
the check is sent once more. Logins write the same jar and seed the guard
without the lock. `oidc_refresh` first goes through a coalescer, and the leader
it elects takes the guard's lock.

**What is hard, and what correctness means:**

* *Guard.* Threads and coroutines share one lock that coroutines acquire on an
  executor thread. At most one rotation in flight; a consumed token is never
  sent knowingly; one rotation per rejected token; the lock is always released;
  nobody waits for ever. Hazards: the token observed before queueing is stale
  afterwards, a refresh fails or half-fails, a coroutine is cancelled at any of
  its awaits, logins move jar and baseline underneath.
* *Coalescers.* Everybody who joined gets the outcome of the one wire call;
  the slot is never empty while an outcome is unpublished; late unwinding never
  clears a newer attempt; one caller's cancellation is nobody else's.
* *Memo.* An answer is for the asker's own question, tenant and principal, and
  is no older than promised; the cap holds.
* *Consumer.* The handler sees each nonce at most once, genuine messages are
  dropped only for a stated cause, nothing circles.
* *Manifest engine.* What an apply that stopped half-way leaves behind, the next
  one completes; a complete apply leaves nothing to do; a step runs when the ids
  it names are known; a binding that is moved is moved whole, or given back, or
  reported.
* *Session.* Whose credential a request carries while logins, a device login, a
  logout and late refresh answers overlap; logout replaces the guard under a
  refresh that still holds the old one.
* *Polling and login.* No poll after the deadline or before the server expects
  one; a login state is spent once; one discovery fetch at a time.
* *Reactor.* One hand-over per event through redeliveries and reconnections; no
  dispatch outlives its session; a cancelled reactor stops.
* *Verification.* A revoked session is rejected within one poll; a rotated key is
  found and a withdrawn one expires; a security event is recorded, returned and
  acknowledged, in that order, or offered again.
* *Management.* Offsets shift under a walk; a write whose answer is lost is not
  sent again; a wrong total costs one request.
* *Web guards.* Two implementations of one chain of refusals: who is let in, with
  which status, and what a challenge tells.

`PROJECT.json` lists the hazards at their lines with the properties that cover
them; an open one has a note saying why no property does.

## 2. Modules

| module | models |
|---|---|
| `RefreshGuard` | `RefreshGuard`, the jar, the refresh and login calls that surround it, a rotating server |
| `Session` | whose credential the client uses: jar, device credential, current guard; `check_access` with its 401, logins, `adopt_bearer_credential`, `logout` |
| `Coalescer` | what `oidc_refresh`'s de-duplication promises, whatever the paradigm (abstract); `CoalescerCalls` is the part of it about calls |
| `SyncSingleFlight` | `_SyncSingleFlight`/`_SyncFlight`; implements `Coalescer` |
| `AsyncSingleFlight` | `_AsyncSingleFlight`; implements `Coalescer` |
| `GrantPolling` | `device_login`, `ciba_await`, `PollSchedule`, the retry inside a poll |
| `OidcLogin` | login and callback routes of both web frameworks, `MemoryOidcStateStore`, `_DiscoveryCache` |
| `DecisionMemo` | `DecisionMemo`, `check_access` with its 401 retry, the principal-changing calls |
| `AmqpConsumer` | `_on_message`, `validate_freshness`, `NonceStore`, a redelivering broker |
| `Reactor` | `reactor_serve`, `_run_session`, `dispatch_reactor_delivery`, `_publish_answer` |
| `SigningKeys` | `JwksVerifier._get_signing_key` over PyJWT's key cache (external) |
| `RevocationFeed` | `is_revoked`, `_refresh_if_stale`, `refresh`, `_fetch_once` |
| `SsfReceiver` | `verify_set`, `poll`, the key cache, the replay store; a transmitter |
| `ManifestApply` | `ManifestApi.plan`/`apply`, `validate`, `topological_order`, `_compute`, `_execute`, `_run`, `_rebind_role` (and their async twins), the tenant, its server and other administrators |
| `NetworkReconcile` | the manifest's `network` section: `_read`, `_plan_network`, `_profile_input`, `_run` |
| `ManagementCalls` | `list_all` and a `create` through `send_management`, the 401 refresh and the retry runner |
| `WebGuard` | the guards of FastAPI and of Django over `verify_access_token` and the MCP challenges |
| `MC*` | model values, symmetry sets and compositions for TLC |
| `RefreshGuardProofs`, `SyncSingleFlightProofs` | theorems and proofs about the module of that name |
| `OidcProofs` | theorems about `AsyncSingleFlight`, `GrantPolling`, `OidcLogin` and, as `MCOidc` composes them, `SyncSingleFlight` |
| `SessionProofs`, `AmqpProofs`, `ManifestProofs`, `RequestsProofs`, `VerificationProofs` | theorems about what `MCSession`, `MCAmqp`, `MCManifest`, `MCRequests`, `MCVerification` compose |

The modules are written so that they can be proved about: no RECURSIVE operators,
constants with named assumptions, one action per step of the code. A definition
`Op_Word` is a deliberately wrong variant of `Op`, used to show that the
properties notice the fault; nothing else refers to it.

**Compositions.** `MCOidc`, `MCSession`, `MCAmqp`, `MCVerification`, `MCManifest` and `MCRequests`
put components with no common state into one run. A behaviour of such a
module is a behaviour of one component, chosen at the start by `part`, while the
others rest in one initial state: nothing is lost, since the steps of one never
enable a step of another. `MCSession` has the memo and the session apart for
this reason too: `DecisionMemo` abstracts a credential change to what it does to
the principal, `Session` has its steps.

### RefreshGuard

A caller makes one call. Callers are of three kinds: `RefreshCallers` are
`refresh()` calls after a 401 of their own, `ExclusiveCallers` the leaders of an
`oidc_refresh`, `LoginCallers` any call that ends in `_absorb_session_cookies`.
`AsyncCallers` are coroutines. A session's access token and refresh token are
issued together and are one number, in the order of issue; `exp` plays no part
in the control and is left out.

| TLA+ | code |
|---|---|
| `lock`, `cached`, `hasAny` | `_lock`, `_cached_access`, `_has_any` |
| `jar` | the access/refresh cookies of `_session._cookies` |
| `Observe` | `refresh()` up to the guard: the observed token |
| `Acquire`, `Resume` | `with self._lock`, or `run_in_executor(None, self._lock.acquire)` returning in the thread, then in the coroutine |
| `Skip`, `StartWire` | the double check; `_do_refresh_sync/async` building the request from the jar |
| `ServerRotates`, `RefreshFails`, `AnswerLost`, `AnswerArrives`, `BodyLost` | the server and the transport |
| `ReadNew`, `Store`, `Return` | `_handle_refresh_response`, `_store_refreshed`, `_require_cached_access` and the `finally` |
| `LoginAnswered`, `AbsorbCookie`, `Seed` | a login's answer, reading the jar back, `seed` |
| `Cancel*`, `OrphanAcquires` | cancellation of a coroutine at each await |

`BodyLost` exists because httpx extracts cookies from a response's headers
before its body is read. `lost` remembers tokens consumed by a call whose
answer did not arrive; sending one of those again cannot be avoided, and
`NoReplay` allows it. A call that read the cookies and not the body ends in
`truncated`, `Enqueue`, `RunExclusive` and `ExclusiveEnds` are the `oidc_refresh`
that runs under the same guard. `Undisturbed` says that so far no login, no
cancellation and no truncated answer has come between; `ReturnsFresher` and
`BaselineInSync` promise something only until then. That `logout` and
`adopt_bearer_credential` replace the guard object is modelled in `Session`.

### Session

One `AsyncAxiamClient` on one event loop: what a coroutine does between two awaits
is one step, so the interleavings are those of the awaits. Cookies are numbers
in the order of issue.

| TLA+ | code |
|---|---|
| `jar`, `bearer`, `guard`, `baseline` | the `axiam_access` cookie, `bearer_token`, `refresh_guard` (a number: the object's identity), its cached token |
| `Send`, `Answered`, `Unauthorized`, `Refreshed` | `_authz_post_async_once`, `_retry_after_refresh_async`; the second request copies the headers of the first |
| `SkipRefresh`, `SendRefresh`, `Rotate`, `RefreshFails`, `AnswerArrives` | `refresh()` through the guard it found; httpx puts the cookies in the jar whoever's they are |
| `LoginAnswered`, `Absorb`, `Adopt` | `login`, `_absorb_session_cookies`, `adopt_bearer_credential` |
| `SendLogout`, `LogoutAnswered`, `EndSession` | `logout` |

At most four guards come to be in an instance (`Guards`).

### Coalescer, SyncSingleFlight, AsyncSingleFlight

`Coalescer` says: an attempt begins only when no attempt can be joined;
whoever asks joins the current attempt; it succeeds, fails or is torn down, and
every participant that stays gets just that outcome. `SyncSingleFlight` breaks
`publish` and `_publish_then_vacate` into the three writes other threads can see
between (`Unwinding`). `AsyncSingleFlight` runs the done callback some time
after the task ended, before any of the task's shields wakes its participant,
because callbacks run in the order they were registered. Each is shown to
implement `Coalescer` under a refinement mapping, by TLC and by proof.

### GrantPolling, OidcLogin

`GrantPolling` is one caller that waits for a device or a CIBA grant: `Begin`,
`Sleep`, `Expire`, `Send`, then one of `Undecided` (pending, slow_down), `Answered`,
`RateLimited`, `Fails`. `floor` is the `Retry-After` that the next wait must not
undercut, `remaining` the sum-of-waits bound. A device poll runs inside the
retry policy, a CIBA poll does not (`Fails`). The endpoint (`Handle`) may answer
and have its answer lost; the user (`Decide`) decides at any time.

`OidcLogin` has workers that serve one request at a time: `LoginRequest` and
`Discover`/`Acquire`/`Fetched`/`FetchFails` (the double-checked discovery cache),
`Save` (which sweeps), `Callback` (which consumes the state), `Exchange` (never
retried). The browser may deliver one callback late, again or twice at once.

### DecisionMemo

A decision is a record of the principal and the question it was made for, the
acting tenant and when the server made it. `Serialized = TRUE` is a
usage rule, not a property of the code: the application does not run a
credential change while a check is in progress. `kind` picks the change:
`login`, `logout`, `refresh` clear the memo first; `authenticate_device` when
its answer is handled; the `sso_complete*` family never.
A 401 with a device credential is not refreshed by the code; the model lets any
check refresh, which allows more clearing and more behaviours, not fewer.
`Transit` bounds how long an answer may travel between the server's decision
and `set`; the code has no bound but its request timeout, and `StalenessBound`
is stated relative to it.

### AmqpConsumer

`nonce`, `issuedAt` and `genuine` are fixed by the publisher: two copies with one
nonce are a publisher's retry (or a replay). A delivery up to the awaited
handler is one step, because `_on_message` awaits nothing before it on the
accepting path. The wall clock and the monotonic clock are one `clock`, i.e.
nobody adjusts the consumer's wall clock; `Ahead < Skew` bounds the publishers'.
A restart of the consumer process loses the in-memory store and is not modelled:
within the freshness window a redelivery after it would be handled again.

### Reactor

`serve` is where `reactor_serve` is (dialling, consuming, draining, waiting to
reconnect, stopped), `task` where the dispatch of each event is. `Accept` verifies
and records the nonce in one step, `HandlerDecides` and `HandlerFails` end the
handler, `Replied` and `Ack` may hang for ever, as awaiting the broker may.
`ConnectionLost` takes back what was not acknowledged, `Restored` is the robust
connection, `SessionEnds` and `DrainEnds` join what is in flight or give up after
the grace, `Cancel` is the task's cancellation at any await. That nonces
expire is left to `AmqpConsumer`, whose store it shares.

### SigningKeys, RevocationFeed, SsfReceiver

`SigningKeys`: a thread verifies (`Verify`), takes the lock, looks the key up in
the cached set, refreshes it once by itself (PyJWT) and once by force
(`LookAgain`), subject to the cool-down; `Serve` and `Deliver` are apart, so that
a fetch may bring what was published when it began. `RevocationFeed`: any thread
that finds the interval over polls, without a lock; `Fetch` and `Refresh` are apart
for the same reason. `SsfReceiver`: `Poll` and `Push` put a batch before a caller,
which judges each set (`Judge`), fetches keys (`Unfetched`, `Load`), records
(`Record`, `StoreFails`) and returns (`Return`); an async poll may be cancelled
between any two (`Cancel`). The transmitter issues, rotates its key, and offers a
set until it is acknowledged or refused. The replay window, as long as sets
are offered, does not end.

### ManifestApply

A manifest is a constant: seven kinds of objects and the links (grants,
memberships) and role bindings between them, as sequences in the order the
manifest states them; `Needs` says which keys an entry names. `parent` and
`wanted`, the parts that the interesting cases turn on, are chosen at the start.
The seven kinds of objects run the same control (match by natural key, compare
fields, create or update), so an object is `absent`, `stale` or `stated`, or for
service accounts, whose names are not unique, `twice`; the three kinds of
subject of a binding likewise differ only in the request they send. What the
fields hold is left out, including a grant's effect and scopes, which the code
does not compare either: a grant that exists with another effect is `no-change`.

| TLA+ | code |
|---|---|
| `things`, `links`, `bound` | the tenant on the server |
| `plan`, `resolved`, `report` | the list `_compute` returns, `Resolved`, the `ApplyReport` |
| `Chain`, `Order`, `TopologicalOrder`, `HasCycle` | `topological_order`: the `chain` of a resource, and `order` after each resource. Where the code raises on a key that it meets again, the chain goes on, and places a key twice |
| `Items`, `StepOf`, `Compute` | the steps of `_compute`, in its order; a step's `kind` is what the code's `Step.kind` says of its target |
| `ObjectChange`, `LinkChange`, `StatedShape`, `BindingChange` | `_compute`, `_binding_resource_and_inherit`, `_plan_role_binding` |
| `Begin` | `validate`, `_read`, `_no_ambiguous_service_accounts`, `_compute` |
| `RunNoop`, `RunStep`, `StepRefused`, `StepLost` | one turn of `_execute`, with `_run`; `Goes` and `Stops` are its two ends |
| `Unassign` .. `RestoreFails` | `_rebind_role`, one action per request |
| `Crash` | the process dies between two requests |
| `OtherWrites` | another administrator creates or edits an object |

`_read` is one step although it is many GETs: a write between two of them is, for
the control, a write after the last. Management writes are never retried
(`send_management`), so a lost answer is final. `OtherWrites` deletes nothing
and touches no binding. The server refuses a second object of one natural key
and a second binding of one (subject, role), as `_engine.py` and CONTRACT §27.6.1
say. Users are assumed to state an `initial_password`.

### NetworkReconcile

The `network` section is a tenant-wide policy with a cap on timeouts, segments,
and one reply profile per segment. `ReadPolicy`, `ReadSegments` and `ReadProfiles` are the
three requests of `_read`; `Steps` the plan, a step for each row in the order they are
run, those with nothing to write included (`RunNoop`); a row the manifest leaves out,
which the code does not step on, counts as one of these. A step that writes sends a
full replacement, the
read with the stated members over it, and names the version that was read
(`VersionSent`) or that this apply's own write has made since (`Learns`). `rank` and
`action` stand for the members a manifest may leave unstated. The server (§27.6.2,
§36.3) refuses a stale version and lowers a profile's timeout to the cap when it
is read (`Effective`). `OtherWrites` is one write of another administrator, who
deletes nothing.

### ManagementCalls

`users.list_all` and `users.create` stand for the two shapes of generated method. A
request may fail, be refused, meet an expired token (`Unauthorized`, `Refreshed`,
once per attempt and never with a device credential) or, for a write, take effect
and lose its answer. `Page` is one turn of `collect_pages`; the page echoes the
offset it was asked for, its total may be one too many. Another administrator
writes while the walk is under way: before it, that would be another collection
to begin with. Async twins share the actions.

### WebGuard

A request (`case`) is a record of what the guards look at: route, credential,
double submit, the claims of the token with `exp` and `nbf` relative to now, the
configuration and what the server decides. It is put to FastAPI, then to Django;
each guard is the chain `extract`, `csrf`, `verify`, `route`, `check`, `deny` of its own
code. The steps of the middleware and of the decorators are one chain, as they
are for a request, and a view may be without the middleware. CSRF texts are
taken to be ASCII, since `compare_digest` raises on others. What `check_access`
does inside is `Session` and `DecisionMemo`.

## 3. Runs

| run | question | bounds | states |
|---|---|---|---|
| `guard` | one rotation at a time, nothing replayed, one rotation per token, a fresher token for whoever refreshed, and everybody is answered | 2 refreshes (a thread, a cancellable coroutine), 1 cancellable `oidc_refresh`, 1 login; calls refused, answers lost or cut off | 110 000 |
| `oidc` | do both coalescers implement `Coalescer`; one caller's cancellation; the schedule of polling; a login state's one exchange | coalescers: 4 callers, 2 cancellable. Polling: interval 2 (+2), lifetime 10, clock 11, `Retry-After` 0, 1 or 4, jitter 0 or 1, 3 attempts. Logins: 2 workers, 2 logins, state lifetime 2, document lifetime 1 | 240 000 |
| `session` | whose credential is used; how old, and whose, a memoized decision is | session: 2 requests, 1 login, 1 device login, 1 logout. Memo: 3 checks, 1 change, 2 principals, 2 tenants, cap 1, TTL 3 clamped to 2, clock 3 | 900 000 |
| `manifest` | what a failed apply leaves, a complete one achieves, a rebind did and said; nothing of others overwritten in the network section | shape: 2 resources in every parent graph, one object of each other kind but groups, one scope, grant and binding; any one object drifted, or an empty tenant; 2 applies, 2 faults, 1 foreign write; no plain binding at the start. Network: 2 segments, 2 timeouts, 1 fault, 1 foreign write | 6 000 000 |
| `amqp` | one hand-over per event; drops have a cause; everything is settled, and a cancelled reactor stops | consumer: 2 copies, 2 nonces, skew 2, ahead 1, clock 5, 1 lost connection. Reactor: 2 events, reply window 2, grace 3 | 540 000 |
| `verification` | withdrawn and rotated keys; revoked sessions; security events accepted once and not lost | keys: 2 threads, 2 keys, lifespan 1, cool-down 2, fetch 1, clock 3. Feed: 2 threads, 1 session, interval 2, clock 6. Events: 2 callers, 2 sets, cool-down 1, lifespan 2 | 2 300 000 |
| `requests` | what foreign writes cost a walk, what a write did, that a walk ends; who is let in, and that two frameworks answer alike | management: at most 3 rows, pages of 1 or 2, 1 foreign write, 3 attempts. Guards: 25 600 requests, up to two fields away from one that is served, for every kind of route and configuration; leeway 1, `exp` from 2 before to 1 after now | 2 000 000 |
| `guard_lock_leak` | is the lock always released? (no) | 2 refreshes, one cancellable | |
| `memo_sso` | own principal after a federation login (no) | 2 checks, 1 federation login | |
| `consumer_transient` | is a transiently failed message retried? (no) | 2 copies, no losses | |
| `manifest_pending` | convergence when a plain binding is to move (no) | as `manifest`, 1 apply, no faults | |
| `jwks_burst` | does a burst of waiters fetch once? (no) | 2 threads | |

Why the bounds suffice. *Guard:* every property relates at most two callers;
with three rotating callers and a login there is a holder, one that queued with
the same token, one that arrives later, and one that writes without the lock.
*Coalescers:* four callers give a leader, a waiter, a leader of the next attempt
and a late arrival, the longest chain rules 6a-6d speak of. *Polling:* the
clock passes the lifetime, and each kind of answer fits in it more than once.
*Logins:* two workers race one callback, and both lifetimes end. *Session:*
one request rotates while the other waits, and each kind of change may fall
anywhere between. *Memo:* one check fills, one is in flight, one reads; cap 1 makes
every second store evict; the clock passes the TTL. *Consumer:* two copies share
a nonce or not; the clock passes the freshness of the earliest messages and
the lifetime `2 * Skew` of an entry. *Reactor:* one event is in flight while
another is redelivered, and the grace passes the window. *Verification:* one
rotation; the clock passes the lifespan, the cool-down and, for the feed, two
intervals. *Manifest:* two resources are enough for a parent listed after its
child and for a cycle; one link and one binding show every dependency a step
has; one fault leaves the tenant half-way and the second fails the restore; the
second apply is the recovery. Groups and memberships run the control of users
and grants and are empty in the instance. *Network:* two segments show that one
segment's write moves only its own version. *Requests:* three rows are two
pages and a rest, with a write before, on or after the border; a guard's answer
depends on the first check that refuses, so two deviations show every order of
two refusals. The proofs remove the bounds where they apply.

All runs but `verification` and `jwks_burst` set `CHECK_DEADLOCK FALSE`: each caller
makes one call, and messages are finite in number, so the modelled system comes
to rest. That nobody rests in the middle of something is what `AllAnswered`,
`AllSettled`, `StopsWhenCancelled` and `WalkEnds` check. In `verification` callers verify
and poll again and again, and never come to a state none of them can leave.
Symmetry is used only in runs without liveness properties.

**Fairness** is weak and assumed only of what the code's scheduling brings
about. `RefreshGuard` and `SyncSingleFlight`: each caller's own steps, as threads and
coroutines are scheduled and a request ends because the transport has timeouts;
weak fairness is enough for the lock because every caller makes one call, so a
holder is followed by finitely many others. `AmqpConsumer`: the broker delivers what
it holds and handlers end. `Reactor`: the clock advances, the drain ends, and a
handler that has to be cut off ends. `ManagementCalls`: the walk is scheduled and
its requests end. Nothing is assumed of cancellation, of lost connections,
publishers, browsers, clocks (but the reactor's) or other administrators.

## 4. What disagrees with the documentation

Each is a run that TLC must find violated; `PROJECT.json` quotes the lines.

1. `guard_lock_leak`: a coroutine cancelled at `run_in_executor(None, acquire)`
   leaves the lock held; the `try` begins after that await.
2. `memo_sso`: federation logins do not clear the memo.
3. `consumer_transient`: the nonce is recorded before the handler runs, so the
   requeued message is refused as its own replay and dropped.
4. `manifest_pending`: a binding the manifest scopes to a resource that this
   apply is still to create reads as scoped to none, because the pending
   resource has no id. A plain binding the subject already holds is then
   `no-change`; the apply completes, and the next plan is an update, against
   §27.6 rule 6.
5. `jwks_burst`: a forced refetch drops PyJWT's cache object and not its content, so
   that from then on nothing is cached and each waiter fetches.

More was met than has a run of its own. It shows where a property stops, or
when a constant of a run is changed:

* *Guard.* Waiters do not share a failure, against §9 rule 2
  (`CONTRACT.md:1309-1311`): each makes a call of its own. `refresh()` reads the jar after
  the 401 and not the token that was rejected, so a late 401 rotates once more;
  `OneRotationPerToken` is about callers that set out from one token. After a
  truncated answer, a cancellation or a login that overlaps, the baseline may be
  another token than the session's; `ReturnsFresher` and `BaselineInSync` promise
  something only `Undisturbed`.
* *Session.* A refresh answer that arrives after `logout` fills the jar again.
  `logout` followed by a login replaces the guard, so two refreshes under two
  locks may redeem one token. The request that `_retry_after_refresh` builds copies the
  first one's `Authorization` header, an earlier device credential included.
  `logout` names the session of the jar though a device credential is held.
  `AsyncAxiamClient.batch_check` does not call `_ensure_open`.
* *Memo.* With `Serialized = FALSE` a check in flight across a login stores the former
  principal's decision after the memo was cleared (`OwnPrincipal`). The docstrings
  of the web guards say "No decision caching"; a client with the memo on answers
  them from it.
* *Polling.* A device poll runs inside the retry policy, though `_retry.py:121-125`
  asks for operations without side effects: a poll whose answer with the
  tokens was lost presents the redeemed grant again (`NeverReplayed`, violated).
* *Reactor.* A reactor cancelled during its drain cuts off what it was draining,
  against "on every path" (`DrainedOnEveryPath`, violated).
* *Feed.* Polls that overlap may store the older document last; `BlipKeepsRejecting`
  leaves them out.
* *Security events.* An async poll that is cancelled after it recorded a set never
  returns it, though `ssf/_receiver.py:1110-1111` says "a `jti` is never kept that is not
  returned"; within the minute after a forced refetch a set signed with a newer
  key is refused for good. `NothingLost` leaves out both (`cut`, `cooled`).
* *Manifest.* After a rebind whose restore failed too, or a crash between
  unassign and assign, the next apply assigns a new binding: the `tenant_scope` is
  known to nobody any more (`ScopeCarried` is about one apply). When the answer of
  the new assign is lost, the restore meets a conflict, and the message "NOT
  restored" is wrong (`RebindHonest` says nothing of a restore reported as failed).
* *Network section.* Raising the cap leaves a profile that the old cap had
  clamped at "no-change", and the next plan is an update, against §27.6 rule 6;
  `NetworkConverges` leaves it out (`Unclamped`). A timeout above the cap never converges, by
  design (`Acceptable`).
* *Management.* An answer without `offset`, or with an empty body, makes `collect_pages`
  begin again or stop early; the model's server sends complete envelopes.
* *Web guards.* A verified token whose `scope` claim is a number ends in an
  unhandled 500 in both frameworks (`fastapi/__init__.py:300`, `django/middleware.py:173`,
  whose `except` names another error), where the comments promise a 401 "never a
  500"; `Entitled` excludes such a token, and nobody is let in.

## 5. Proofs

All proofs are checked by TLAPS from the modules as they stand; assumptions are
only the named `ASSUME`s of the modules and those a theorem states. A theorem about
a composition is a theorem of its `MCSpec`, for all constants: a step of the other
parts leaves the component's variables alone (`Parts` in each module), and the
component's own steps keep its inductive invariant.

The assumptions on constants say what the code's types and checks give: durations
are numbers of seconds (`DurationsAssumption`, `TimesAssumption`, which also has the feed's
minimum interval), a coroutine that sends requests is not the one that logs in or
out (`RolesAssumption`), "never" is no time and no list (`NeverAssumption`), a row that is
created is another than those there are (`RowsAssumption`), a
manifest names what it declares and states each thing once, as `validate` demands of
keys, parents and bindings (`ManifestAssumption`, `SegmentsAssumption`; it does not look for a
grant or a membership stated twice, which the assumption excludes too), and a request is one a deployment can get: the metadata
document exists when MCP is configured, which needs an audience (`CasesAssumption`).

**RefreshGuardProofs.** `Invariance` is the inductive invariant `IInv`:
`TypeOK`, `LockInv` (whoever is in the critical section holds the lock),
`WireInv` (what the request on the wire carries is acceptable to the server or
was lost), `KindInv` (each kind of caller stays in its own places), `JarInv` (the
jar holds an acceptable or a lost token, except while an answer is on its way to
it) and `QueuedInv`. `MutualExclusion` follows from `LockInv`. `NoReplay` is not
inductive by itself: when a request is built from the jar one has to know that
the jar's token is acceptable *then*, which is `JarInv`, which in turn holds
because nobody else can be between a rotation and its cookie while the lock is
held. `QInv` adds what holds `Undisturbed`: outside the window between cookie and
store the baseline equals the jar, and a jar token is never older than an
observed one. It is preserved by each step, or the step ends `Undisturbed`; once
ended it stays so (`StepUndisturbed`). `ReturnsFresher` and `BaselineInSync`
follow, with logins, cancellations and cut-off answers in the model.
`OneRotationPerToken` needs less than `Undisturbed`: only that nobody has logged in.
`RInv` adds that nobody observed a token newer than the jar's (`AheadInv`), and that
whoever sent a refresh is on the wire, has failed, or left the guard with a
token newer than the one observed (`SpentInv`): then the next holder that observed
the same token finds the guard ahead of it and skips.

**SyncSingleFlightProofs.** Every participant gets the one outcome; the slot is
never empty while an attempt has not published (`PublishBeforeVacate`); a late caller
joins no attempt whose leader has returned (`LateCallersLead`); and refinement: initial
states map to initial states, every step maps to a step of `Coalescer` or to a
stutter.

**OidcProofs.** *The async coalescer:* one live task, the one in the slot; it is
vacated by its owner; a cancelled caller takes no task along, because the wire
task's fate changes in its own steps only; and refinement. `SyncRefinement` carries
the refinement of the sync coalescer to the composition. *Polling:* `DueInv` says
for each place of the loop that the request to come is not `earliest`'s
predecessor, and that a sleep ends before the deadline; it rests on `IntervalInv` (the
interval is the first one and an increment for every slow_down) and on the fact
that a wait is never shorter than `interval` and `floor` (`WaitFacts`). *Logins:* `AloneInv`
(whoever works on a login took it out of the store, alone, before any code was
presented) and `LifeInv` (age and what is left make up the lifetime).

**SessionProofs.** *The memo:* `IInv` = `TypeOK`, `QuestionInv` (an entry or an answer
is for its key), `AgeInv` (an entry is stored at most `Transit` after it was made)
and `RoleInv`. `OwnQuestion` and `BoundedStaleness` follow for any interleaving of
checks and changes. `ServesOwnPrincipal` assumes `Apart` (`Serialized` and no
`sso`): then every entry, and every check in flight, is the signed-in
principal's. `MemoIsBounded` and `NewestIsKept`, which no run names: an overfull memo has a
second entry, since the cap is positive, and that one was inserted earlier, so the
least insertion number is not the new entry's (`FirstExists`, `RememberSize`).
*The session:* `GuardInv` says that a guard not yet installed has no baseline, that
the current one has none while a device credential is held, and that a refresh then
runs under an older guard: what it stores goes to a guard that nobody uses. `CredentialInv` is `NotStranded` with what makes it inductive, that a
refresh's answer brings a cookie.

**AmqpProofs.** `AtMostOnce` from: a nonce with a started handler is in
the store for as long as its message is fresh. The step that needs the
assumption `Ahead < Skew` is recording: the entry expires at `now + 2*Skew`,
the message is fresh until `issuedAt + Skew <= now + Ahead + Skew`. With
`Ahead = Skew` there is an instant at which the message is fresh and its entry
has expired. `DropsHaveCause` from: only a fresh, genuine delivery is recorded.
`ReactsOnce`: an event whose handler was started is on record, and stays there
through reconnections, because the store outlives the session (`StoreInv`).

**VerificationProofs.** *Keys:* `FetchInv` says that a cached key set holds a key that
was published at most one fetch before it was stored, so that the lifespan, counted
from the storing, bounds how long a withdrawn key lives. `LookupInv` says that a
second lookup finds the cache dropped, so what it is served was fetched for it;
a key that is published now is in it. *Feed:* `IntervalInv` follows a revocation from
the server into a document, the document into the list, and the guard that asks
later than an interval and a timeout; `BlipInv` does the same for polls that do not
overlap. *Events:* `SeenInv` says that what is on record was returned, is in a batch
that is about to return it, or was cut off with a cancelled poll, and `OnceInv` that
batches under way share no event: recording is one step of check and insert.
`LostInv` follows a genuine set from the transmitter's buffer to its verdict.

**ManifestProofs.** *The shape:* `ShapeInv` holds the report together with the plan
(`ReportInv`: the steps before `at` are reported, and no other), and the plan with
the tenant: what a step knows as `old` is what was bound when the plan was
computed, and a subject that lost a role is the one of the step under way, or of
the step reported as failed (`LossInv`). It needs that two steps of a plan never move
one binding (`MovesOnce`). `RebindHonest` and `ScopeCarried` follow for every manifest and every
sequence of faults. *The plan:* `ItemsFacts` says that a plan without a cycle is all that
the manifest states, each thing once, and anything that names others after
them. `topological_order` is a loop in a loop: `CountingUp` (what holds of 0 and of each
next number holds of all, by the least number of which it does not) and
`StepByStep` (a function defined by recursion exists) are the induction that takes,
said of sets so that the provers can use it. *Reruns:* `SettleInv` rests on that.
While nobody disturbs an apply, what is before `at` is done and what is after is
due as it was planned (`WorkInv`); whoever disturbs it, what a binding names exists
(`TenantInv`), so the plan sees every binding that the tenant has, and a plain one
is not taken for a scoped one, if the tenant had none such at first.
`RerunRecovers` follows, and with `PlainHolders = FALSE`, `Converges`; the run `manifest_pending` shows
what happens with `TRUE`. *The network section:* `ReadInv`, a row only moves to a higher
version, so a write that the server accepts was computed from the very row it
replaces (`AcceptedIsCurrent`): `NothingOverwritten`. For `NetworkConverges`, `KeptInv` says what has
become of the rows that were read, as long as nobody disturbs the apply: those
whose step is over are as stated, the others as they were, and the known version
of each segment is its own. A refusal is then the server's of a timeout above
the cap (`RefusalIsStated`), and at the end everything is as stated (`KeptIsStated`). It needs that
each segment has one step and its profile another (`WhereAt`), hence `SegmentsAssumption`:
segments are stated once, timeouts are positive numbers. *Parents:* `IdsAreResolved`, that no
write names a thing whose id is unknown, needs that parents come first in
`TopologicalOrder`. It places a resource by climbing its chain of parents until a placed one
or a root; a chain without a repetition is at most as long as the resources are many
(`FewResources`, the pigeonhole principle), so without a cycle the climb ends there
(`ChainClimbs`), and reversing it puts parents first (`ParentsComeFirst`). `ResolvedInv` adds
that an apply knows the id of what it found or has been through. No run names
`ResolvedBeforeUse`.

**RequestsProofs.** `WriteTruthful`, for any collection, page size and
number of attempts. `IInv` = `CallInv` (a create that has not ended has no result),
`MadeInv` (nothing is made before it ends, and then one row at most) and
`OutcomeInv` (what was made fits the result). What carries it is that the retry
runner is never entered by a write (`Retried`): the one failure after which a row
may exist ends the call, and the resend after a refresh follows a 401, which
made nothing. `OneRowForEachWrite` compares the walk with the listing as the server
has it now: `BoundInv` says that of the rows behind the offset each deletion cost
one at most, and that the rows taken that are ahead of it again, which will be
repeated, are no more than the insertions, less those repeated already. A page keeps both
(`PageCounts`), an insertion or a deletion anywhere moves one row at most across the
offset (`OneRowMore`), and on the last page nothing is ahead. The view, a recursive
function, is reasoned about by induction over sequences (`Growing`). *The web guards:* `Answer` is what a request deserves, written once and
without steps; `StageInv` says what each guard has found out when it has come to a
stage, and that its answer at the end is `Answer`, but for the documented
exceptions (`AnswerOf`: the metadata document, a view without the middleware).
`OpensToTheEntitled` and `GuardsAgree` follow for every request, where the run takes
those at most two fields away from one that is served.

**Only model-checked:**

* Liveness: `AllAnswered` of the guard and the coalescers, `AllSettled`, `StopsWhenCancelled`,
  `WalkEnds`. They turn on fairness and `ENABLED`, which are outside the prover's reach.

Every safety invariant and every action property that a passing run checks is a
theorem too: `OwnPrincipal` and `Converges` under the condition that their run has in its
constants (`Serialized` and no `sso`; no plain binding at first), the others without one.

## 6. Abstractions

Tokens, questions, principals, messages, tenants and rows are model values or
numbers; logging, telemetry, wording, headers other than the credential, and
everything `httpx`, PyJWT, `aio-pika`, FastAPI and Django do inside is left out. The
server, the network, the broker, the transmitter, the browser and the key cache
are modelled from how the SDK uses them, as the map says. Signatures are
membership in `genuine`, or a field of the request. Bounds: clocks (`MaxClock`, `MaxTime`,
`FeedMaxTime`), lost connections (`MaxLosses`), transit (`Transit`), keys (`MaxKey`), a manifest's
history (`MaxDrift`, `MaxApplies`, `MaxFaults`, `MaxWrites`, `NetworkFaults`), and a collection's
(`MaxRows`, `MaxPage`, `MaxWrites`). These are the only ones, and the proofs hold for all values
of those they meet.

## 7. Not modelled

The map covers about a tenth of the implementation's lines. What remains is
large and has little to say to a model checker:

* generated operations and models and their generator (`management/ops`,
  `management/models.py`, `scripts/gen_management.py`), gRPC stubs, `_models.py`: one request or one
  record each. `ManagementCalls` has the two shapes of request they all share;
* the many methods of both clients that are one request and its answer
  (`_account.py`, `_registration.py`, most of `_client.py`, `_async_client.py` and `_oidc.py`), their docstrings
  included: no state of the client outlives them;
* cryptography and canonical bytes (`_dpop.py`, `_opaque.py`, `_webauthn.py`, `_oidc_pkce.py`,
  `_oidc_idtoken.py`, `amqp/_hmac.py`, `webhook/_verify.py`): functions of their input. Their verdicts
  are inputs of the models that use them;
* parsing and wire conversion (`_declarative.py`, `_wire.py`, `_reactor_protocol.py`, the decoding of
  security events), settings read once (TLS, proxies, Django's settings);
* `grpc/client.py`: each call reads the guard's token without its lock, and
  neither retries nor refreshes.

## 8. Plan

1. `ManifestApply` and `NetworkReconcile` with two applies at once, groups in the instance, and
   another administrator who deletes.
2. An abstract session (which principal, since when) that `RefreshGuard` and `Session`
   implement together.
