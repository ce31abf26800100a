---------------------------- MODULE SsfReceiver -----------------------------
(* The receiver of security event tokens (ssf/_receiver.py): verify_set    *)
(* behind a push endpoint, poll, the key cache and the replay store, used  *)
(* by several callers; and, external, a transmitter that offers a SET      *)
(* until it is acknowledged or refused.  Time is what is left of a timer.  *)
(* The lock of _key_for is held over the fetch, so a key lookup is one     *)
(* step.  The replay window (seven days, as long as a SET is offered) does *)
(* not end.                                                                *)
EXTENDS Naturals

CONSTANTS
    Callers,
    Sets,      \* the SETs, each with its own jti
    Minute,    \* _FORCED_REFETCH_MIN_INTERVAL_SECONDS
    Lifespan   \* _JWKS_LIFESPAN_SECONDS

VARIABLES
    kid,        \* of each SET: old, new (after the rotation), other (never)
    genuine,    \* the SETs that steps 1-8 find in order, given the key
    published,  \* the JWKS
    offered,    \* the SETs issued so far
    buffer,     \* those that the transmitter still offers
    cached,     \* core.keys
    life,       \* what is left of its lifespan
    cool,       \* what is left of the minute after last_forced
    seen,       \* the replay store
    pc,         \* where each caller is
    left,       \* the SETs of its batch that are still to be judged
    current,    \* the one that is about to be recorded
    asked,      \* the replay store has answered so far, for each batch
    result,     \* the SsfPollResult under construction, then the last one
    delivered,  \* history: returned as events
    cut,        \* history: recorded by a poll that was cancelled
    cooled      \* history: refused for a key that might not be fetched yet

transmitter == <<kid, genuine, published, offered, buffer>>
keys == <<cached, life, cool>>
batch == <<pc, left, current, asked, result>>
history == <<delivered, cut, cooled>>
vars == <<transmitter, keys, seen, batch, history>>

Kids == {"old", "new", "other"}

Verdicts == {"events", "refused", "replayed", "unjudged"}

Empty == [v \in Verdicts |-> {}]

Init ==
    /\ kid \in [Sets -> Kids]
    /\ genuine \in SUBSET {s \in Sets : kid[s] # "other"}
    /\ published = {"old"}
    /\ offered = {} /\ buffer = {}
    /\ cached = {} /\ life = 0 /\ cool = 0
    /\ seen = {}
    /\ pc = [t \in Callers |-> "idle"]
    /\ left = [t \in Callers |-> {}]
    /\ current = [t \in Callers |-> {}]
    /\ asked = [t \in Callers |-> TRUE]
    /\ result = [t \in Callers |-> Empty]
    /\ delivered = {} /\ cut = {} /\ cooled = {}

Goto(t, place) == pc' = [pc EXCEPT ![t] = place]

Put(t, verdict, set) ==
    result' = [result EXCEPT ![t][verdict] = @ \cup set]

-----------------------------------------------------------------------------
(* The transmitter rotates its key, then signs SETs with the new one.      *)
Rotate ==
    /\ published = {"old"}
    /\ published' = {"old", "new"}
    /\ UNCHANGED <<kid, genuine, offered, buffer, keys, seen, batch, history>>

Issue(s) ==
    /\ s \notin offered
    /\ kid[s] \in published \cup {"other"}
    /\ offered' = offered \cup {s} /\ buffer' = buffer \cup {s}
    /\ UNCHANGED <<kid, genuine, published, keys, seen, batch, history>>

Tick ==
    /\ cool > 0 \/ life > 0
    /\ cool' = IF cool > 0 THEN cool - 1 ELSE 0
    /\ life' = IF life > 0 THEN life - 1 ELSE 0
    /\ UNCHANGED <<transmitter, cached, seen, batch, history>>

(* What the caller tells the transmitter after a poll: it acknowledges     *)
(* what it processed and what was replayed, and reports the rest of what   *)
(* was refused.  Nothing is said of what was left unjudged.                *)
Settled(t) ==
    result[t]["events"] \cup result[t]["replayed"] \cup result[t]["refused"]

Start(t, place, set) ==
    /\ Goto(t, place)
    /\ left' = [left EXCEPT ![t] = set]
    /\ asked' = [asked EXCEPT ![t] = TRUE]
    /\ result' = [result EXCEPT ![t] = Empty]
    /\ current' = [current EXCEPT ![t] = {}]

(* poll: the answer is any part of the buffer.                             *)
Poll(t) ==
    /\ pc[t] = "idle"
    /\ buffer' = buffer \ Settled(t)
    /\ \E set \in SUBSET (buffer \ Settled(t)) : Start(t, "polling", set)
    /\ UNCHANGED <<kid, genuine, published, offered, keys, seen, history>>

(* poll raises, whether the request reached the transmitter or not: the    *)
(* caller will tell it again.                                              *)
PollFails(t) ==
    /\ pc[t] = "idle"
    /\ buffer' = buffer \ Settled(t)
    /\ UNCHANGED <<kid, genuine, published, offered, keys, seen, batch, history>>

(* A SET is pushed, and verify_set is called; a transmitter that misses    *)
(* the answer pushes again.                                                *)
Push(t, s) ==
    /\ pc[t] = "idle" /\ result[t] = Empty /\ s \in buffer
    /\ Start(t, "pushed", {s})
    /\ UNCHANGED <<transmitter, keys, seen, history>>

-----------------------------------------------------------------------------
(* needs_fetch: the cache is empty or past its lifespan.                   *)
Cold == life = 0

MustFetch(s) == Cold \/ kid[s] \notin cached

(* store_jwks.                                                             *)
Load == cached' = published /\ life' = Lifespan

(* What a failed fetch leaves of the result: all of it.                    *)
Kept(t) == result[t]

(* No key could be fetched: because the last fetch that counts is less     *)
(* than a minute ago, or because the fetch fails, which counts.  This SET  *)
(* and every one after it stay unjudged.                                   *)
Unfetched(t, s) ==
    /\ pc[t] \in {"polling", "pushed"} /\ s \in left[t] /\ current[t] = {}
    /\ \/ Cold /\ cool > 0 /\ UNCHANGED keys
       \/ /\ MustFetch(s) /\ cool = 0
          /\ cool' = Minute
          /\ \/ UNCHANGED <<cached, life>>
             \/ Cold /\ kid[s] \notin published /\ Load
    /\ result' = [result EXCEPT
                     ![t] = [Kept(t) EXCEPT !["unjudged"] = @ \cup left[t]]]
    /\ left' = [left EXCEPT ![t] = {}]
    /\ UNCHANGED <<transmitter, seen, pc, current, asked, history>>

(* _key_for answers, perhaps after a fetch, and steps 5-8 are done.        *)
Judge(t, s) ==
    /\ pc[t] \in {"polling", "pushed"} /\ s \in left[t] /\ current[t] = {}
    /\ \/ ~Cold /\ (kid[s] \in cached \/ cool > 0) /\ UNCHANGED keys
       \/ /\ MustFetch(s) /\ cool = 0
          /\ Load
          /\ cool' = IF Cold /\ kid[s] \in published THEN cool ELSE Minute
    /\ left' = [left EXCEPT ![t] = @ \ {s}]
    /\ IF s \in genuine /\ kid[s] \in cached'
          THEN IF asked[t]
                  THEN current' = [current EXCEPT ![t] = {s}] /\ UNCHANGED result
                  ELSE Put(t, "unjudged", {s}) /\ UNCHANGED current
          ELSE Put(t, "refused", {s}) /\ UNCHANGED current
    /\ cooled' = IF kid[s] \in published \ cached' THEN cooled \cup {s} ELSE cooled
    /\ UNCHANGED <<transmitter, seen, pc, asked, delivered, cut>>

(* Mutant: a store for each caller's batch.                                *)
Held_PerBatch(t, s) == s \in result[t]["events"]

(* check_and_record finds the jti in the store.                            *)
Held(t, s) == s \in seen

(* Step 9.                                                                 *)
Record(t, s) ==
    /\ current[t] = {s}
    /\ current' = [current EXCEPT ![t] = {}]
    /\ seen' = seen \cup {s}
    /\ Put(t, IF Held(t, s) THEN "replayed" ELSE "events", {s})
    /\ UNCHANGED <<transmitter, keys, pc, left, asked, history>>

(* Mutant: a store that cannot answer has "seen" the jti.                  *)
NoAnswer_Seen == "replayed"

(* The verdict on a SET when the store cannot answer: none.                *)
NoAnswer == "unjudged"

(* The store raises; nothing more is asked of it in this batch.            *)
StoreFails(t, s) ==
    /\ current[t] = {s}
    /\ current' = [current EXCEPT ![t] = {}]
    /\ asked' = [asked EXCEPT ![t] = FALSE]
    /\ Put(t, NoAnswer, {s})
    /\ UNCHANGED <<transmitter, keys, seen, pc, left, history>>

(* poll returns; or verify_set does, and the push is answered: the         *)
(* transmitter offers again only what was answered with a 5xx.             *)
Return(t) ==
    /\ pc[t] \in {"polling", "pushed"} /\ left[t] = {} /\ current[t] = {}
    /\ Goto(t, "idle")
    /\ delivered' = delivered \cup result[t]["events"]
    /\ IF pc[t] = "pushed"
          THEN /\ buffer' \in {buffer, buffer \ Settled(t)}
               /\ result' = [result EXCEPT ![t] = Empty]
          ELSE UNCHANGED <<buffer, result>>
    /\ UNCHANGED <<kid, genuine, published, offered, keys, seen, left, current,
                   asked, cut, cooled>>

(* The task that awaits the asynchronous poll is cancelled.                *)
Cancel(t) ==
    /\ pc[t] = "polling" /\ (left[t] # {} \/ current[t] # {})
    /\ Start(t, "idle", {})
    /\ cut' = cut \cup result[t]["events"]
    /\ UNCHANGED <<transmitter, keys, seen, delivered, cooled>>

CallerStep(t) ==
    \/ Poll(t) \/ PollFails(t) \/ Return(t) \/ Cancel(t)
    \/ \E s \in Sets : \/ Push(t, s) \/ Unfetched(t, s) \/ Judge(t, s)
                       \/ Record(t, s) \/ StoreFails(t, s)

Next ==
    \/ Rotate \/ Tick
    \/ \E s \in Sets : Issue(s)
    \/ \E t \in Callers : CallerStep(t)

Spec == Init /\ [][Next]_vars

-----------------------------------------------------------------------------
(* The SETs recorded by a batch that is still being judged.                *)
Underway == UNION {result[t]["events"] : t \in {u \in Callers : pc[u] # "idle"}}

TypeOK ==
    /\ genuine \subseteq Sets /\ buffer \subseteq offered /\ offered \subseteq Sets
    /\ cached \in {{}, {"old"}, {"old", "new"}}
    /\ life \in 0 .. Lifespan /\ cool \in 0 .. Minute
    /\ pc \in [Callers -> {"idle", "polling", "pushed"}]
    /\ left \in [Callers -> SUBSET Sets] /\ current \in [Callers -> SUBSET Sets]
    /\ asked \in [Callers -> BOOLEAN]
    /\ result \in [Callers -> [Verdicts -> SUBSET Sets]]
    /\ seen \subseteq genuine /\ delivered \subseteq genuine

(* A SET is returned as an event once: to one caller, whatever is offered  *)
(* again or to several callers at the same time.                           *)
AcceptedOnce ==
    /\ Underway \cap delivered = {}
    /\ \A t, u \in Callers :
          t # u /\ pc[t] # "idle" /\ pc[u] # "idle"
          => result[t]["events"] \cap result[u]["events"] = {}

(* The transmitter stops offering a genuine SET only when it has been      *)
(* returned, or is about to be: neither a fetch that fails nor a store     *)
(* that cannot answer loses one.  Two kinds are lost: SETs judged within   *)
(* the minute after a refetch, before the rotated key may be fetched, and  *)
(* those that a cancelled poll had recorded.                               *)
NothingLost ==
    genuine \cap (offered \ buffer) \subseteq delivered \cup Underway \cup cut \cup cooled
=============================================================================
