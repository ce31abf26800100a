---------------------------- MODULE DecisionMemo ----------------------------
(* The opt-in memo of authorization decisions (_decision_memo.py) with the *)
(* calls that use it: check_access, which reads it, asks the server and    *)
(* stores the answer, and the calls that change the session's principal,   *)
(* which clear it (_client.py, _on_credential_change). A decision is known *)
(* by the principal and the question it was made for and by when the       *)
(* server made it; what it says does not matter.                           *)
EXTENDS Integers, FiniteSets

CONSTANTS
    Checkers,       \* threads that call check_access, one call each
    Changers,       \* threads that change the principal, one call each
    Kinds,          \* the calls Changers may make
    Principals,     \* who may be signed in
    Nobody,
    Questions,      \* (subject, resource, action, scope)
    Tenants,        \* acting tenants, the principal's own among them
    Serialized,     \* whether the application keeps checks and changes apart
    RequestedTTL, MaxTTL, Cap,
    Transit,        \* bound: how long an answer travels before it is stored
    MaxClock,       \* bound of the clock
    None

ASSUME ConstantsAssumption ==
    /\ Checkers \cap Changers = {}
    /\ Kinds \subseteq {"login", "logout", "refresh", "device", "sso"}
    /\ Nobody \notin Principals
    /\ Serialized \in BOOLEAN
    /\ RequestedTTL \in Nat /\ MaxTTL \in Nat /\ Cap \in Nat \ {0}
    /\ Transit \in Nat /\ MaxClock \in Nat
    /\ None \notin [who : Principals, question : Questions, tenant : Tenants, at : Nat]

VARIABLES
    pc,         \* where each thread is
    asks,       \* what each check_access is called with
    kind,       \* which call each Changer makes
    asked,      \* the principal whose credential each check's request carried
    got,        \* the decision each check was answered with
    principal,  \* who the session's credential belongs to
    entries,    \* DecisionMemo._entries: the decision of each key, or None
    stored,     \* when each entry was stored
    order,      \* the insertion number of each entry
    inserted,   \* how many insertions were made
    clock       \* time.monotonic()

memo == <<entries, stored, order, inserted>>
calls == <<asks, kind>>
vars == <<pc, calls, asked, got, principal, memo, clock>>

Keys == [question : Questions, tenant : Tenants]

Decisions == [who : Principals, question : Questions, tenant : Tenants, at : 0 .. MaxClock]

Empty == [k \in Keys |-> None]

Init ==
    /\ pc = [c \in Checkers \cup Changers |-> "start"]
    /\ asks \in [Checkers -> Keys]
    /\ kind \in [Changers -> Kinds]
    /\ asked = [c \in Checkers |-> Nobody]
    /\ got = [c \in Checkers |-> None]
    /\ principal \in Principals
    /\ entries = Empty
    /\ stored = [k \in Keys |-> 0]
    /\ order = [k \in Keys |-> 0]
    /\ inserted = 0
    /\ clock = 0

-----------------------------------------------------------------------------
(* memo_key joins all the components, the acting tenant included.          *)
MemoKey(c) == asks[c]

(* Mutant: the configured TTL is taken as it is.                           *)
TTL_Unclamped == RequestedTTL

(* The TTL after the clamp of DecisionMemo.__init__; 0 disables the memo.  *)
TTL == IF RequestedTTL > MaxTTL THEN MaxTTL ELSE RequestedTTL

Expired(k) == clock - stored[k] >= TTL

Live(e) == {k \in Keys : e[k] # None}

(* The entry that popitem(last=False) removes.                             *)
Evicted(e, o) == CHOOSE k \in Live(e) : \A j \in Live(e) : o[k] <= o[j]

Overfull(e) == Cardinality(Live(e)) > Cap

(* What set keeps beside the decision.                                     *)
StoredAt == clock

(* DecisionMemo.set: the entry goes last, the first one makes room.        *)
Remember(k, decision) ==
    LET e == [entries EXCEPT ![k] = decision]
        o == [order EXCEPT ![k] = inserted + 1]
    IN  IF TTL = 0 THEN UNCHANGED memo
        ELSE /\ entries' = IF Overfull(e) THEN [e EXCEPT ![Evicted(e, o)] = None] ELSE e
             /\ stored' = [stored EXCEPT ![k] = StoredAt]
             /\ order' = o
             /\ inserted' = inserted + 1

(* DecisionMemo.clear.                                                     *)
Forget == entries' = Empty /\ UNCHANGED <<stored, order, inserted>>

(* Mutant: logout does not drop the entries.                               *)
ClearsFirst_NotLogout(k) == k \in {"login", "refresh"}

(* The calls that begin with _on_credential_change ...                     *)
ClearsFirst(k) == k \in {"login", "logout", "refresh"}

(* ... and the one that makes it when its answer has come. The three       *)
(* sso_complete operations make it nowhere: they go straight to            *)
(* _absorb_session_cookies.                                                *)
ClearsLast(k) == k = "device"

(* The threads that are in the middle of a call.                           *)
Busy == {c \in Checkers \cup Changers : pc[c] \notin {"start", "done", "failed"}}

(* When the application keeps them apart, a change runs alone.             *)
MayStart(c) ==
    Serialized => IF c \in Changers THEN Busy = {} ELSE Busy \cap Changers = {}

Goto(c, place) == pc' = [pc EXCEPT ![c] = place]

-----------------------------------------------------------------------------
(* check_access finds a live decision: it returns it.                      *)
Hit(c) ==
    /\ c \in Checkers /\ pc[c] = "start" /\ MayStart(c)
    /\ TTL > 0
    /\ entries[MemoKey(c)] # None
    /\ ~Expired(MemoKey(c))
    /\ got' = [got EXCEPT ![c] = entries[MemoKey(c)]]
    /\ Goto(c, "done")
    /\ UNCHANGED <<calls, asked, principal, memo, clock>>

(* check_access finds none, or drops an expired one, and sends its         *)
(* request.                                                                *)
Miss(c) ==
    /\ c \in Checkers /\ pc[c] = "start" /\ MayStart(c)
    /\ TTL = 0 \/ entries[MemoKey(c)] = None \/ Expired(MemoKey(c))
    /\ entries' = IF TTL = 0 THEN entries ELSE [entries EXCEPT ![MemoKey(c)] = None]
    /\ asked' = [asked EXCEPT ![c] = principal]
    /\ Goto(c, "wire")
    /\ UNCHANGED <<calls, got, principal, stored, order, inserted, clock>>

(* The server decides, for whom the request's credential names.            *)
Decide(c) ==
    /\ c \in Checkers /\ pc[c] \in {"wire", "retried"}
    /\ asked[c] # Nobody
    /\ got' = [got EXCEPT ![c] = [who |-> asked[c], question |-> asks[c].question,
                                  tenant |-> asks[c].tenant, at |-> clock]]
    /\ Goto(c, "storing")
    /\ UNCHANGED <<calls, asked, principal, memo, clock>>

(* A 401: refresh(), which clears the memo ...                             *)
Refresh(c) ==
    /\ c \in Checkers /\ pc[c] = "wire"
    /\ Forget
    /\ Goto(c, "refreshing")
    /\ UNCHANGED <<calls, asked, got, principal, clock>>

(* ... and one retry, with the credential the session holds by then.       *)
Retry(c) ==
    /\ c \in Checkers /\ pc[c] = "refreshing"
    /\ principal # Nobody
    /\ asked' = [asked EXCEPT ![c] = principal]
    /\ Goto(c, "retried")
    /\ UNCHANGED <<calls, got, principal, memo, clock>>

(* Any failure leaves check_access by an exception: nothing is stored.     *)
CheckFails(c) ==
    /\ c \in Checkers /\ pc[c] \in {"wire", "refreshing", "retried"}
    /\ Goto(c, "failed")
    /\ UNCHANGED <<calls, asked, got, principal, memo, clock>>

(* The answer has arrived: it is memoized and returned.                    *)
Memoize(c) ==
    /\ c \in Checkers /\ pc[c] = "storing"
    /\ Remember(MemoKey(c), got[c])
    /\ Goto(c, "done")
    /\ UNCHANGED <<calls, asked, got, principal, clock>>

(* login(), logout(), refresh(), authenticate_device() and sso_complete()  *)
(* before their request ...                                                *)
Begin(c) ==
    /\ c \in Changers /\ pc[c] = "start" /\ MayStart(c)
    /\ IF ClearsFirst(kind[c]) THEN Forget ELSE UNCHANGED memo
    /\ Goto(c, "changing")
    /\ UNCHANGED <<calls, asked, got, principal, clock>>

(* Whose credential the session may hold after the call.                   *)
Successors(k) ==
    CASE k \in {"login", "device", "sso"} -> Principals
      [] k = "logout" -> {Nobody}
      [] k = "refresh" -> {principal}

(* ... and when it is answered.                                            *)
Change(c) ==
    /\ c \in Changers /\ pc[c] = "changing"
    /\ principal' \in Successors(kind[c])
    /\ IF ClearsLast(kind[c]) THEN Forget ELSE UNCHANGED memo
    /\ Goto(c, "done")
    /\ UNCHANGED <<calls, asked, got, clock>>

(* The request is refused: nothing changes but the memo that was cleared.  *)
ChangeFails(c) ==
    /\ c \in Changers /\ pc[c] = "changing"
    /\ Goto(c, "failed")
    /\ UNCHANGED <<calls, asked, got, principal, memo, clock>>

(* Time passes, but no answer travels for longer than Transit.             *)
Tick ==
    /\ clock < MaxClock
    /\ \A c \in Checkers : pc[c] = "storing" => clock < got[c].at + Transit
    /\ clock' = clock + 1
    /\ UNCHANGED <<pc, calls, asked, got, principal, memo>>

Check(c) == Hit(c) \/ Miss(c) \/ Decide(c) \/ Refresh(c) \/ Retry(c)
                \/ CheckFails(c) \/ Memoize(c)

SwitchPrincipal(c) == Begin(c) \/ Change(c) \/ ChangeFails(c)

Next ==
    \/ Tick
    \/ \E c \in Checkers : Check(c)
    \/ \E c \in Changers : SwitchPrincipal(c)

Spec == Init /\ [][Next]_vars

-----------------------------------------------------------------------------
(* The type invariant; no decision is Nobody's, for an unsigned request is *)
(* never answered with one.                                                *)
TypeOK ==
    /\ pc \in [Checkers \cup Changers -> {"start", "wire", "refreshing", "retried",
                                          "storing", "changing", "done", "failed"}]
    /\ asks \in [Checkers -> Keys]
    /\ kind \in [Changers -> Kinds]
    /\ asked \in [Checkers -> Principals \cup {Nobody}]
    /\ got \in [Checkers -> Decisions \cup {None}]
    /\ principal \in Principals \cup {Nobody}
    /\ entries \in [Keys -> Decisions \cup {None}]
    /\ stored \in [Keys -> 0 .. MaxClock]
    /\ order \in [Keys -> 0 .. inserted]
    /\ inserted \in Nat
    /\ clock \in 0 .. MaxClock

(* A check is answered with a decision made for its own question and its   *)
(* own acting tenant, though handles acting on several tenants share the   *)
(* memo (CONTRACT.md 17.1 rule 3).                                         *)
AnswersOwnQuestion ==
    \A c \in Checkers :
        pc[c] = "done" => [question |-> got[c].question, tenant |-> got[c].tenant] = asks[c]

(* The memo never grows beyond its cap, whatever is stored (17.1 rule 8).  *)
Bounded == Cardinality(Live(entries)) <= Cap

(* A decision that was just memoized is there for the next check: it is    *)
(* an older entry that makes room (17.1 rule 8).                           *)
NewestSurvives ==
    [][\A c \in Checkers :
          TTL > 0 /\ pc[c] = "storing" /\ pc'[c] = "done" => entries'[MemoKey(c)] = got[c]]_vars

(* A decision served from the memo is never older than the clamped TTL and *)
(* the transit of the answer (17.1 rules 2 and 6).                         *)
StalenessBound ==
    [][\A c \in Checkers :
          pc[c] = "start" /\ pc'[c] = "done" => clock - got'[c].at < MaxTTL + Transit]_vars

(* A decision served from the memo was made for the principal that is      *)
(* signed in when it is served (17.1 rule 9).                              *)
OwnPrincipal ==
    [][\A c \in Checkers :
          pc[c] = "start" /\ pc'[c] = "done" => got'[c].who = principal]_vars
=============================================================================
