--------------------------- MODULE SessionProofs ----------------------------
(* Whose credential a session uses, for any number of coroutines; and what *)
(* a memoized decision is worth, for any number of threads, keys and       *)
(* principals: it answers the question it was made for, it is no older     *)
(* than the clamped TTL and the time its answer travelled, it is one of at *)
(* most Cap, the newest of which always is there; and, if checks           *)
(* and changes of the principal are kept apart and no federation login is  *)
(* made, it was made for the principal who is signed in.                   *)
EXTENDS MCSession, Integers, FiniteSetTheorems, WellFoundedInduction, TLAPS

(* An entry answers the question it is kept under, as does the answer a    *)
(* check holds.                                                            *)
QuestionInv ==
    /\ \A k \in Keys : entries[k] # None =>
          entries[k].question = k.question /\ entries[k].tenant = k.tenant
    /\ \A c \in Checkers : pc[c] \in {"storing", "done"} =>
          /\ got[c] # None
          /\ got[c].question = asks[c].question /\ got[c].tenant = asks[c].tenant

(* An entry was stored, and is stored, soon after its decision was made.   *)
AgeInv ==
    /\ \A k \in Keys : entries[k] # None => stored[k] <= entries[k].at + Transit
    /\ \A c \in Checkers : pc[c] = "storing" => clock <= got[c].at + Transit

(* A check never changes the principal, and a change never asks.           *)
RoleInv ==
    /\ \A c \in Checkers : pc[c] # "changing"
    /\ \A c \in Changers : pc[c] \in {"start", "changing", "done", "failed"}

IInv == TypeOK /\ QuestionInv /\ AgeInv /\ RoleInv

-----------------------------------------------------------------------------
(* The clamp of the constructor.                                           *)
LEMMA ClampedTTL == TTL \in Nat /\ TTL <= MaxTTL
  BY ConstantsAssumption DEF TTL

(* A record of Decisions is not None, and a key is its two fields.         *)
LEMMA DecisionFacts ==
  /\ None \notin Decisions
  /\ \A k \in Keys : k = [question |-> k.question, tenant |-> k.tenant]
<1>1. Decisions \subseteq [who : Principals, question : Questions, tenant : Tenants, at : Nat]
  BY ConstantsAssumption DEF Decisions
<1>2. None \notin Decisions
  BY <1>1, ConstantsAssumption
<1> QED BY <1>2 DEF Keys

(* What DecisionMemo.set leaves in the memo: besides the new entry, only   *)
(* entries that were there.                                                *)
LEMMA RememberFacts ==
  ASSUME TypeOK, NEW k \in Keys, NEW d \in Decisions, Remember(k, d)
  PROVE  /\ entries' \in [Keys -> Decisions \cup {None}]
         /\ stored' \in [Keys -> 0 .. MaxClock]
         /\ inserted' \in Nat /\ order' \in [Keys -> 0 .. inserted']
         /\ \A j \in Keys : \/ entries'[j] = None
                            \/ entries'[j] = entries[j] /\ stored'[j] = stored[j]
                            \/ j = k /\ entries'[j] = d /\ stored'[j] = clock
<1>1. CASE TTL = 0
  BY <1>1 DEF Remember, memo, TypeOK
<1>2. CASE TTL # 0
  <2> DEFINE e == [entries EXCEPT ![k] = d]
             x == Evicted(e, [order EXCEPT ![k] = inserted + 1])
  <2>1. /\ entries' = IF Overfull(e) THEN [e EXCEPT ![x] = None] ELSE e
        /\ stored' = [stored EXCEPT ![k] = clock]
        /\ order' = [order EXCEPT ![k] = inserted + 1]
        /\ inserted' = inserted + 1
    BY <1>2 DEF Remember, StoredAt
  <2> HIDE DEF x
  <2>2. /\ e \in [Keys -> Decisions \cup {None}]
        /\ \A j \in Keys : e[j] = IF j = k THEN d ELSE entries[j]
    BY DEF TypeOK
  <2>3. /\ stored' \in [Keys -> 0 .. MaxClock]
        /\ \A j \in Keys : stored'[j] = IF j = k THEN clock ELSE stored[j]
    BY <2>1 DEF TypeOK
  <2>4. /\ inserted' \in Nat
        /\ order' \in [Keys -> 0 .. inserted']
    BY <2>1 DEF TypeOK
  <2>5. \A j \in Keys : entries'[j] \in {e[j], None}
    BY <2>1, <2>2
  <2>6. entries' \in [Keys -> Decisions \cup {None}]
    BY <2>1, <2>2
  <2> QED BY <2>2, <2>3, <2>4, <2>5, <2>6
<1> QED BY <1>1, <1>2

(* Init establishes the invariant.                                         *)
LEMMA InitIInv == Init => IInv
<1> SUFFICES ASSUME Init PROVE IInv
  OBVIOUS
<1>1. TypeOK
  BY ConstantsAssumption DEF Init, TypeOK, Empty
<1>2. QuestionInv /\ AgeInv /\ RoleInv
  BY DEF Init, QuestionInv, AgeInv, RoleInv, Empty
<1> QED BY <1>1, <1>2 DEF IInv

(* Every step preserves it.                                                *)
LEMMA StepIInv == IInv /\ [Next]_vars => IInv'
<1> SUFFICES ASSUME IInv, [Next]_vars PROVE IInv'
  OBVIOUS
<1> USE ConstantsAssumption DEF Goto, MemoKey
<1>t. TypeOK /\ QuestionInv /\ AgeInv /\ RoleInv
  BY DEF IInv
<1>1. CASE Tick
  <2>1. /\ clock' = clock + 1 /\ clock < MaxClock
        /\ \A c \in Checkers : pc[c] = "storing" => clock < got[c].at + Transit
        /\ UNCHANGED <<pc, asks, kind, asked, got, principal, entries, stored,
                       order, inserted>>
    BY <1>1 DEF Tick, calls, memo
  <2>2. \A c \in Checkers : pc[c] = "storing" => got[c].at \in Nat
    BY <1>t DEF TypeOK, QuestionInv, Decisions
  <2>3. TypeOK' /\ QuestionInv' /\ RoleInv'
    BY <1>t, <2>1 DEF TypeOK, QuestionInv, RoleInv, Decisions
  <2>4. AgeInv'
    BY <1>t, <2>1, <2>2 DEF TypeOK, AgeInv
  <2> QED BY <2>3, <2>4 DEF IInv
<1>2. ASSUME NEW c \in Checkers, Hit(c) PROVE IInv'
  <2>1. /\ pc[c] = "start" /\ entries[asks[c]] # None
        /\ got' = [got EXCEPT ![c] = entries[asks[c]]]
        /\ pc' = [pc EXCEPT ![c] = "done"]
        /\ UNCHANGED <<asks, kind, asked, principal, entries, stored, order,
                       inserted, clock>>
    BY <1>2 DEF Hit, calls, memo
  <2>2. asks[c] \in Keys
    BY <1>t DEF TypeOK
  <2>3. TypeOK'
    BY <1>t, <2>1, <2>2 DEF TypeOK
  <2>4. QuestionInv' /\ AgeInv' /\ RoleInv'
    BY <1>t, <2>1, <2>2 DEF TypeOK, QuestionInv, AgeInv, RoleInv
  <2> QED BY <2>3, <2>4 DEF IInv
<1>3. ASSUME NEW c \in Checkers, Miss(c) PROVE IInv'
  <2>1. /\ pc[c] = "start"
        /\ entries' = IF TTL = 0 THEN entries ELSE [entries EXCEPT ![asks[c]] = None]
        /\ asked' = [asked EXCEPT ![c] = principal]
        /\ pc' = [pc EXCEPT ![c] = "wire"]
        /\ UNCHANGED <<asks, kind, got, principal, stored, order, inserted, clock>>
    BY <1>3 DEF Miss, calls
  <2>2. \A k \in Keys : entries'[k] \in {entries[k], None}
    BY <1>t, <2>1 DEF TypeOK
  <2>3. TypeOK'
    BY <1>t, <2>1 DEF TypeOK
  <2>4. QuestionInv' /\ AgeInv' /\ RoleInv'
    BY <1>t, <2>1, <2>2 DEF TypeOK, QuestionInv, AgeInv, RoleInv
  <2> QED BY <2>3, <2>4 DEF IInv
<1>4. ASSUME NEW c \in Checkers, Decide(c) PROVE IInv'
  <2> DEFINE d == [who |-> asked[c], question |-> asks[c].question,
                   tenant |-> asks[c].tenant, at |-> clock]
  <2>1. /\ pc[c] \in {"wire", "retried"} /\ asked[c] # Nobody
        /\ got' = [got EXCEPT ![c] = d]
        /\ pc' = [pc EXCEPT ![c] = "storing"]
        /\ UNCHANGED <<asks, kind, asked, principal, entries, stored, order,
                       inserted, clock>>
    BY <1>4 DEF Decide, calls, memo
  <2>2. asks[c] \in Keys /\ d \in Decisions
    BY <1>t, <2>1 DEF TypeOK, Keys, Decisions
  <2>3. /\ d # None /\ d.question = asks[c].question /\ d.tenant = asks[c].tenant
        /\ d.at = clock
    BY <2>2, DecisionFacts
  <2> HIDE DEF d
  <2>4. TypeOK'
    BY <1>t, <2>1, <2>2 DEF TypeOK
  <2>5. QuestionInv' /\ AgeInv' /\ RoleInv'
    BY <1>t, <2>1, <2>3 DEF TypeOK, QuestionInv, AgeInv, RoleInv
  <2> QED BY <2>4, <2>5 DEF IInv
<1>5. ASSUME NEW c \in Checkers, Refresh(c) PROVE IInv'
  <2>1. /\ pc[c] = "wire" /\ entries' = Empty
        /\ pc' = [pc EXCEPT ![c] = "refreshing"]
        /\ UNCHANGED <<asks, kind, asked, got, principal, stored, order, inserted, clock>>
    BY <1>5 DEF Refresh, Forget, calls
  <2>2. TypeOK'
    BY <1>t, <2>1 DEF TypeOK, Empty
  <2>3. QuestionInv' /\ AgeInv' /\ RoleInv'
    BY <1>t, <2>1 DEF TypeOK, QuestionInv, AgeInv, RoleInv, Empty
  <2> QED BY <2>2, <2>3 DEF IInv
<1>6. ASSUME NEW c \in Checkers, Retry(c) PROVE IInv'
  <2>1. /\ pc[c] = "refreshing"
        /\ asked' = [asked EXCEPT ![c] = principal]
        /\ pc' = [pc EXCEPT ![c] = "retried"]
        /\ UNCHANGED <<asks, kind, got, principal, entries, stored, order, inserted, clock>>
    BY <1>6 DEF Retry, calls, memo
  <2>2. TypeOK'
    BY <1>t, <2>1 DEF TypeOK
  <2>3. QuestionInv' /\ AgeInv' /\ RoleInv'
    BY <1>t, <2>1 DEF TypeOK, QuestionInv, AgeInv, RoleInv
  <2> QED BY <2>2, <2>3 DEF IInv
<1>7. ASSUME NEW c \in Checkers, CheckFails(c) PROVE IInv'
  <2>1. /\ pc' = [pc EXCEPT ![c] = "failed"]
        /\ UNCHANGED <<asks, kind, asked, got, principal, entries, stored, order,
                       inserted, clock>>
    BY <1>7 DEF CheckFails, calls, memo
  <2>2. TypeOK'
    BY <1>t, <2>1 DEF TypeOK
  <2>3. QuestionInv' /\ AgeInv' /\ RoleInv'
    BY <1>t, <2>1 DEF TypeOK, QuestionInv, AgeInv, RoleInv
  <2> QED BY <2>2, <2>3 DEF IInv
<1>8. ASSUME NEW c \in Checkers, Memoize(c) PROVE IInv'
  <2>1. /\ pc[c] = "storing" /\ Remember(asks[c], got[c])
        /\ pc' = [pc EXCEPT ![c] = "done"]
        /\ UNCHANGED <<asks, kind, asked, got, principal, clock>>
    BY <1>8 DEF Memoize, calls
  <2>2. asks[c] \in Keys /\ got[c] \in Decisions
    BY <1>t, <2>1 DEF TypeOK, QuestionInv
  <2>3. /\ entries' \in [Keys -> Decisions \cup {None}]
        /\ stored' \in [Keys -> 0 .. MaxClock]
        /\ inserted' \in Nat /\ order' \in [Keys -> 0 .. inserted']
        /\ \A j \in Keys :
              \/ entries'[j] = None
              \/ entries'[j] = entries[j] /\ stored'[j] = stored[j]
              \/ j = asks[c] /\ entries'[j] = got[c] /\ stored'[j] = clock
    BY <1>t, <2>1, <2>2, RememberFacts
  <2>4. TypeOK'
    BY <1>t, <2>1, <2>3 DEF TypeOK
  <2>5. QuestionInv'
    BY <1>t, <2>1, <2>3 DEF TypeOK, QuestionInv
  <2>6. AgeInv' /\ RoleInv'
    BY <1>t, <2>1, <2>3 DEF TypeOK, AgeInv, RoleInv
  <2> QED BY <2>4, <2>5, <2>6 DEF IInv
<1>9. ASSUME NEW s \in Changers, SwitchPrincipal(s) PROVE IInv'
  <2>1. /\ pc[s] \in {"start", "changing"}
        /\ \E place \in {"changing", "done", "failed"} : pc' = [pc EXCEPT ![s] = place]
        /\ entries' = entries \/ entries' = Empty
        /\ UNCHANGED <<asks, kind, asked, got, stored, order, inserted, clock>>
    BY <1>9 DEF SwitchPrincipal, Begin, Change, ChangeFails, Forget, calls, memo
  <2>2. principal' \in Principals \cup {Nobody}
    <3>1. kind[s] \in {"login", "logout", "refresh", "device", "sso"}
      BY <1>t DEF TypeOK
    <3>2. Successors(kind[s]) \subseteq Principals \cup {Nobody}
      BY <1>t, <3>1 DEF TypeOK, Successors
    <3> QED
      BY <1>t, <1>9, <3>2 DEF SwitchPrincipal, Begin, Change, ChangeFails, TypeOK
  <2>3. TypeOK'
    BY <1>t, <2>1, <2>2 DEF TypeOK, Empty
  <2>4. \A c \in Checkers : pc'[c] = pc[c]
    BY <1>t, <2>1 DEF TypeOK
  <2>5. QuestionInv' /\ AgeInv'
    BY <1>t, <2>1, <2>4 DEF QuestionInv, AgeInv, Empty
  <2>6. RoleInv'
    BY <1>t, <2>1, <2>4 DEF RoleInv, TypeOK
  <2> QED BY <2>3, <2>5, <2>6 DEF IInv
<1>10. CASE UNCHANGED vars
  BY <1>t, <1>10 DEF vars, calls, memo, IInv, TypeOK, QuestionInv, AgeInv, RoleInv,
     Decisions
<1> QED
  BY <1>1, <1>2, <1>3, <1>4, <1>5, <1>6, <1>7, <1>8, <1>9, <1>10
  DEF Next, Check

-----------------------------------------------------------------------------
(* The inductive invariant holds in every reachable state of the memo.     *)
THEOREM Invariance == Spec => []IInv
  BY InitIInv, StepIInv, PTL DEF Spec

(* A check is answered with a decision made for its own question and its   *)
(* own acting tenant, also from the memo that several handles share        *)
(* (memo_key).                                                             *)
THEOREM OwnQuestion == Spec => []AnswersOwnQuestion
<1>1. IInv => AnswersOwnQuestion
  <2> SUFFICES ASSUME IInv, NEW c \in Checkers, pc[c] = "done"
               PROVE  [question |-> got[c].question, tenant |-> got[c].tenant] = asks[c]
    BY DEF AnswersOwnQuestion
  <2>1. asks[c] \in Keys
    BY DEF IInv, TypeOK
  <2>2. got[c].question = asks[c].question /\ got[c].tenant = asks[c].tenant
    BY DEF IInv, QuestionInv
  <2> QED BY <2>1, <2>2, DecisionFacts
<1> QED BY <1>1, Invariance, PTL

(* The only step that answers a check without a request is a hit.          *)
LEMMA OnlyHitServes ==
  ASSUME IInv, [Next]_vars, NEW c \in Checkers, pc[c] = "start", pc'[c] = "done"
  PROVE  Hit(c)
<1> USE DEF Goto
<1>1. pc \in [Checkers \cup Changers -> {"start", "wire", "refreshing", "retried",
                                         "storing", "changing", "done", "failed"}]
  BY DEF IInv, TypeOK
<1>2. ASSUME NEW d \in Checkers, Check(d) PROVE Hit(c)
  <2>1. \E place : pc' = [pc EXCEPT ![d] = place]
    BY <1>2 DEF Check, Hit, Miss, Decide, Refresh, Retry, CheckFails, Memoize
  <2>2. d = c
    BY <1>1, <2>1
  <2>3. ~Miss(c) /\ ~Decide(c) /\ ~Refresh(c) /\ ~Retry(c) /\ ~CheckFails(c) /\ ~Memoize(c)
    BY <1>1 DEF Miss, Decide, Refresh, Retry, CheckFails, Memoize
  <2> QED BY <1>2, <2>2, <2>3 DEF Check
<1>3. ASSUME NEW s \in Changers, SwitchPrincipal(s) PROVE Hit(c)
  <2>1. \E place : pc' = [pc EXCEPT ![s] = place]
    BY <1>3 DEF SwitchPrincipal, Begin, Change, ChangeFails
  <2>2. s # c
    BY ConstantsAssumption
  <2> QED BY <1>1, <2>1, <2>2
<1>4. CASE Tick
  BY <1>4 DEF Tick
<1>5. CASE UNCHANGED vars
  BY <1>5 DEF vars
<1> QED BY <1>2, <1>3, <1>4, <1>5 DEF Next

(* A decision served from the memo is younger than the clamped TTL and the *)
(* transit of its answer (DecisionMemo.__init__ and get).                  *)
THEOREM BoundedStaleness == Spec => StalenessBound
<1>1. ASSUME IInv, [Next]_vars, NEW c \in Checkers, pc[c] = "start", pc'[c] = "done"
      PROVE  clock - got'[c].at < MaxTTL + Transit
  <2>1. Hit(c)
    BY <1>1, OnlyHitServes
  <2>2. asks[c] \in Keys /\ entries[asks[c]] # None
    BY <1>1, <2>1 DEF Hit, MemoKey, IInv, TypeOK
  <2>3. /\ got'[c] = entries[asks[c]]
        /\ clock - stored[asks[c]] < TTL
    <3>1. clock \in Int /\ stored[asks[c]] \in Int
      BY <1>1, <2>2, ConstantsAssumption DEF IInv, TypeOK
    <3> QED BY <1>1, <2>1, <3>1, ClampedTTL DEF Hit, MemoKey, Expired, IInv, TypeOK
  <2>4. /\ entries[asks[c]].at \in Nat
        /\ stored[asks[c]] <= entries[asks[c]].at + Transit
    BY <1>1, <2>2 DEF IInv, TypeOK, AgeInv, Decisions
  <2>5. clock \in Nat /\ stored[asks[c]] \in Nat
    BY <1>1, <2>2, ConstantsAssumption DEF IInv, TypeOK
  <2> QED BY <2>3, <2>4, <2>5, ClampedTTL, ConstantsAssumption
<1>2. IInv /\ [Next]_vars =>
        [\A c \in Checkers :
           pc[c] = "start" /\ pc'[c] = "done" => clock - got'[c].at < MaxTTL + Transit]_vars
  BY <1>1
<1> QED BY <1>2, Invariance, PTL DEF Spec, StalenessBound

-----------------------------------------------------------------------------
(* Checks and changes of the principal are kept apart, and the changes are *)
(* those that clear the memo.                                              *)
Apart == Serialized = TRUE /\ "sso" \notin Kinds

(* Whatever the memo holds, and whatever is on its way to it, was decided  *)
(* for the principal who is signed in.                                     *)
WhoInv ==
    /\ \A k \in Keys : entries[k] # None => entries[k].who = principal
    /\ \A c \in Checkers : pc[c] \in {"wire", "retried"} => asked[c] = principal
    /\ \A c \in Checkers : pc[c] = "storing" => got[c].who = principal

(* A change is alone, and it starts with nothing memoized unless it clears *)
(* the memo when it is answered.                                           *)
AloneInv ==
    \A s \in Changers : pc[s] = "changing" =>
        /\ \A c \in Checkers \cup Changers : c = s \/ pc[c] \in {"start", "done", "failed"}
        /\ ClearsFirst(kind[s]) => entries = Empty

ApartInv == IInv /\ WhoInv /\ AloneInv

(* An empty memo and no call under way satisfy the invariant of checks and *)
(* changes that are kept apart.                                            *)
LEMMA InitApart == Init => ApartInv
<1>1. Init => WhoInv /\ AloneInv
  BY DEF Init, WhoInv, AloneInv, Empty
<1> QED BY <1>1, InitIInv DEF ApartInv

(* A change that is not to be made alone does not start, and no check      *)
(* starts during one.                                                      *)
LEMMA StartsApart ==
  ASSUME Apart, NEW c \in Checkers \cup Changers, MayStart(c)
  PROVE  /\ c \in Changers => \A d \in Checkers \cup Changers :
                                 pc[d] \in {"start", "done", "failed"}
         /\ c \in Checkers => \A s \in Changers : pc[s] \in {"start", "done", "failed"}
  BY ConstantsAssumption DEF Apart, MayStart, Busy

(* Every step keeps it: a change that clears the memo runs alone, so       *)
(* nothing of the former principal is stored behind it.                    *)
LEMMA StepApart == Apart /\ ApartInv /\ [Next]_vars => ApartInv'
<1> SUFFICES ASSUME Apart, ApartInv, [Next]_vars PROVE ApartInv'
  OBVIOUS
<1> USE ConstantsAssumption DEF Goto, MemoKey
<1>t. /\ TypeOK /\ QuestionInv /\ RoleInv /\ WhoInv /\ AloneInv
      /\ IInv'
  BY StepIInv DEF ApartInv, IInv
<1>1. CASE Tick
  BY <1>t, <1>1 DEF Tick, calls, memo, ApartInv, WhoInv, AloneInv
<1>2. ASSUME NEW c \in Checkers, Hit(c) PROVE WhoInv' /\ AloneInv'
  <2>1. /\ pc[c] = "start"
        /\ got' = [got EXCEPT ![c] = entries[asks[c]]]
        /\ pc' = [pc EXCEPT ![c] = "done"]
        /\ UNCHANGED <<asks, kind, asked, principal, entries>>
    BY <1>2 DEF Hit, calls, memo
  <2> QED BY <1>t, <2>1 DEF WhoInv, AloneInv, TypeOK
<1>3. ASSUME NEW c \in Checkers, Miss(c) PROVE WhoInv' /\ AloneInv'
  <2>1. /\ pc[c] = "start" /\ MayStart(c)
        /\ entries' = IF TTL = 0 THEN entries ELSE [entries EXCEPT ![asks[c]] = None]
        /\ asked' = [asked EXCEPT ![c] = principal]
        /\ pc' = [pc EXCEPT ![c] = "wire"]
        /\ UNCHANGED <<asks, kind, got, principal>>
    BY <1>3 DEF Miss, calls
  <2>2. \A s \in Changers : pc[s] # "changing"
    BY <2>1, StartsApart
  <2>3. \A s \in Changers : pc'[s] # "changing"
    BY <1>t, <2>1, <2>2 DEF TypeOK
  <2>4. \A k \in Keys : entries'[k] \in {entries[k], None}
    BY <1>t, <2>1 DEF TypeOK
  <2> QED BY <1>t, <2>1, <2>3, <2>4 DEF WhoInv, AloneInv, TypeOK
<1>4. ASSUME NEW c \in Checkers, Decide(c) PROVE WhoInv' /\ AloneInv'
  <2> DEFINE d == [who |-> asked[c], question |-> asks[c].question,
                   tenant |-> asks[c].tenant, at |-> clock]
  <2>1. /\ pc[c] \in {"wire", "retried"}
        /\ got' = [got EXCEPT ![c] = d]
        /\ pc' = [pc EXCEPT ![c] = "storing"]
        /\ UNCHANGED <<asks, kind, asked, principal, entries>>
    BY <1>4 DEF Decide, calls, memo
  <2>2. d.who = principal
    BY <1>t, <2>1 DEF WhoInv
  <2> HIDE DEF d
  <2>3. WhoInv'
    BY <1>t, <2>1, <2>2 DEF WhoInv, TypeOK
  <2>4. AloneInv'
    BY <1>t, <2>1 DEF AloneInv, TypeOK
  <2> QED BY <2>3, <2>4
<1>5. ASSUME NEW c \in Checkers, Refresh(c) PROVE WhoInv' /\ AloneInv'
  <2>1. /\ pc[c] = "wire" /\ entries' = Empty
        /\ pc' = [pc EXCEPT ![c] = "refreshing"]
        /\ UNCHANGED <<asks, kind, asked, got, principal>>
    BY <1>5 DEF Refresh, Forget, calls
  <2> QED BY <1>t, <2>1 DEF WhoInv, AloneInv, TypeOK, Empty
<1>6. ASSUME NEW c \in Checkers, Retry(c) PROVE WhoInv' /\ AloneInv'
  <2>1. /\ pc[c] = "refreshing"
        /\ asked' = [asked EXCEPT ![c] = principal]
        /\ pc' = [pc EXCEPT ![c] = "retried"]
        /\ UNCHANGED <<asks, kind, got, principal, entries>>
    BY <1>6 DEF Retry, calls, memo
  <2> QED BY <1>t, <2>1 DEF WhoInv, AloneInv, TypeOK
<1>7. ASSUME NEW c \in Checkers, CheckFails(c) PROVE WhoInv' /\ AloneInv'
  <2>1. /\ pc' = [pc EXCEPT ![c] = "failed"]
        /\ UNCHANGED <<asks, kind, asked, got, principal, entries>>
    BY <1>7 DEF CheckFails, calls, memo
  <2> QED BY <1>t, <2>1 DEF WhoInv, AloneInv, TypeOK
<1>8. ASSUME NEW c \in Checkers, Memoize(c) PROVE WhoInv' /\ AloneInv'
  <2>1. /\ pc[c] = "storing" /\ Remember(asks[c], got[c])
        /\ pc' = [pc EXCEPT ![c] = "done"]
        /\ UNCHANGED <<asks, kind, asked, got, principal>>
    BY <1>8 DEF Memoize, calls
  <2>2. asks[c] \in Keys /\ got[c] \in Decisions /\ got[c].who = principal
    BY <1>t, <2>1 DEF TypeOK, QuestionInv, WhoInv
  <2>3. \A j \in Keys : entries'[j] \in {None, entries[j], got[c]}
    BY <1>t, <2>1, <2>2, RememberFacts
  <2>4. \A s \in Changers : pc[s] # "changing"
    BY <1>t, <2>1 DEF AloneInv, RoleInv
  <2>5. \A s \in Changers : pc'[s] # "changing"
    BY <1>t, <2>1, <2>4 DEF TypeOK
  <2>6. WhoInv'
    BY <1>t, <2>1, <2>2, <2>3 DEF WhoInv, TypeOK
  <2> QED BY <2>5, <2>6 DEF AloneInv
<1>9. ASSUME NEW s \in Changers, Begin(s) PROVE WhoInv' /\ AloneInv'
  <2>1. /\ pc[s] = "start" /\ MayStart(s)
        /\ IF ClearsFirst(kind[s]) THEN entries' = Empty ELSE entries' = entries
        /\ pc' = [pc EXCEPT ![s] = "changing"]
        /\ UNCHANGED <<asks, kind, asked, got, principal>>
    BY <1>9 DEF Begin, Forget, calls, memo
  <2>2. \A d \in Checkers \cup Changers : pc[d] \in {"start", "done", "failed"}
    BY <2>1, StartsApart
  <2>3. \A d \in Checkers \cup Changers :
           pc'[d] = IF d = s THEN "changing" ELSE pc[d]
    BY <1>t, <2>1 DEF TypeOK
  <2>4. AloneInv'
    BY <2>1, <2>2, <2>3 DEF AloneInv
  <2>5. WhoInv'
    BY <1>t, <2>1, <2>2, <2>3 DEF WhoInv, Empty
  <2> QED BY <2>4, <2>5
<1>10. ASSUME NEW s \in Changers, Change(s) PROVE WhoInv' /\ AloneInv'
  <2>1. /\ pc[s] = "changing" /\ principal' \in Successors(kind[s])
        /\ IF ClearsLast(kind[s]) THEN entries' = Empty ELSE entries' = entries
        /\ pc' = [pc EXCEPT ![s] = "done"]
        /\ UNCHANGED <<asks, kind, asked, got>>
    BY <1>10 DEF Change, Forget, calls, memo
  (* Every kind but "sso" has emptied the memo by now.                     *)
  <2>2. entries' = Empty
    <3>1. kind[s] \in {"login", "logout", "refresh", "device"}
      <4>1. kind[s] \in Kinds
        BY <1>t DEF TypeOK
      <4> QED BY <4>1 DEF Apart
    <3> QED BY <1>t, <2>1, <3>1 DEF ClearsFirst, ClearsLast, AloneInv
  <2>3. \A d \in Checkers \cup Changers : d = s \/ pc[d] \in {"start", "done", "failed"}
    BY <1>t, <2>1 DEF AloneInv
  <2>4. \A d \in Checkers \cup Changers : pc'[d] \in {"start", "done", "failed"}
    BY <1>t, <2>1, <2>3 DEF TypeOK
  <2> QED BY <2>2, <2>4 DEF WhoInv, AloneInv, Empty
<1>11. ASSUME NEW s \in Changers, ChangeFails(s) PROVE WhoInv' /\ AloneInv'
  <2>1. /\ pc' = [pc EXCEPT ![s] = "failed"]
        /\ UNCHANGED <<asks, kind, asked, got, principal, entries>>
    BY <1>11 DEF ChangeFails, calls, memo
  <2> QED BY <1>t, <2>1 DEF WhoInv, AloneInv, TypeOK
<1>12. CASE UNCHANGED vars
  BY <1>t, <1>12 DEF vars, calls, memo, ApartInv, WhoInv, AloneInv
<1> QED
  BY <1>t, <1>1, <1>2, <1>3, <1>4, <1>5, <1>6, <1>7, <1>8, <1>9, <1>10, <1>11, <1>12
  DEF Next, Check, SwitchPrincipal, ApartInv

(* While checks and changes of the principal are kept apart and no         *)
(* federation login is made, a decision served from the memo was made for  *)
(* the principal who is signed in (_on_credential_change).                 *)
THEOREM ServesOwnPrincipal ==
  ASSUME Apart PROVE Spec => OwnPrincipal
<1>1. ASSUME ApartInv, [Next]_vars, NEW c \in Checkers, pc[c] = "start", pc'[c] = "done"
      PROVE  got'[c].who = principal
  <2>1. Hit(c)
    BY <1>1, OnlyHitServes DEF ApartInv
  <2>2. asks[c] \in Keys /\ entries[asks[c]] # None /\ got'[c] = entries[asks[c]]
    BY <1>1, <2>1 DEF Hit, MemoKey, ApartInv, IInv, TypeOK
  <2> QED BY <1>1, <2>2 DEF ApartInv, WhoInv
<1>2. ApartInv /\ [Next]_vars =>
        [\A c \in Checkers :
           pc[c] = "start" /\ pc'[c] = "done" => got'[c].who = principal]_vars
  BY <1>1
<1>3. ApartInv /\ [Next]_vars => ApartInv'
  BY StepApart
<1> QED BY <1>2, <1>3, InitApart, PTL DEF Spec, OwnPrincipal

-----------------------------------------------------------------------------
(* The memo has no more entries than its cap.                              *)
SizeInv == IsFiniteSet(Live(entries)) /\ Bounded

(* One insertion number is the least, so popitem finds an entry.           *)
LEMMA FirstExists ==
  ASSUME NEW L, L # {}, NEW o, \A k \in L : o[k] \in Nat
  PROVE  \E k \in L : \A j \in L : o[k] <= o[j]
<1> DEFINE Numbers == { o[k] : k \in L }
           R == { ss \in Nat \X Nat : ss[1] < ss[2] }
<1>1. IsWellFoundedOn(R, Nat) /\ Numbers \subseteq Nat /\ Numbers # {}
  BY NatLessThanWellFounded DEF OpToRel
<1>2. \A a, b \in Nat : a < b => <<a, b>> \in R
  OBVIOUS
<1> HIDE DEF R
<1>3. PICK x \in Numbers : \A y \in Numbers : <<y, x>> \notin R
  BY <1>1, WFMin
<1>4. PICK k \in L : o[k] = x
  BY <1>3
<1>5. ASSUME NEW j \in L PROVE o[k] <= o[j]
  <2>1. o[j] \in Numbers /\ o[j] \in Nat /\ o[k] \in Nat
    OBVIOUS
  <2>2. ~(o[j] < o[k])
    BY <1>2, <1>3, <1>4, <2>1
  <2> QED
    BY <2>1, <2>2
<1> QED
  BY <1>5

(* DecisionMemo.set keeps the memo within its cap, and the entry it set.   *)
LEMMA RememberSize ==
  ASSUME TypeOK, SizeInv, NEW k \in Keys, NEW d \in Decisions, Remember(k, d)
  PROVE  SizeInv' /\ (TTL > 0 => entries'[k] = d)
<1>0. TTL \in Nat /\ d # None
  BY ClampedTTL, DecisionFacts
<1>1. CASE TTL = 0
  BY <1>1 DEF Remember, memo, SizeInv, Bounded
<1>2. CASE TTL # 0
  <2> DEFINE e == [entries EXCEPT ![k] = d]
             o == [order EXCEPT ![k] = inserted + 1]
             x == Evicted(e, o)
             L == Live(entries)
  <2>1. entries' = IF Overfull(e) THEN [e EXCEPT ![x] = None] ELSE e
    BY <1>2 DEF Remember
  <2>2. /\ e \in [Keys -> Decisions \cup {None}]
        /\ \A j \in Keys : e[j] = IF j = k THEN d ELSE entries[j]
        /\ \A j \in Keys : o[j] = IF j = k THEN inserted + 1 ELSE order[j]
        /\ \A j \in Keys : order[j] \in Nat /\ order[j] <= inserted
        /\ inserted \in Nat
    BY DEF TypeOK
  <2>3. Live(e) = L \cup {k}
    BY <1>0, <2>2 DEF Live
  <2>4. /\ IsFiniteSet(L) /\ Cardinality(L) \in Nat /\ Cardinality(L) <= Cap
        /\ IsFiniteSet(Live(e))
        /\ Cardinality(Live(e)) = IF k \in L THEN Cardinality(L) ELSE Cardinality(L) + 1
    <3>1. IsFiniteSet(L) /\ Cardinality(L) <= Cap
      BY DEF SizeInv, Bounded
    <3> HIDE DEF L, e
    <3>2. Cardinality(L) \in Nat
      BY <3>1, FS_CardinalityType
    <3>3. /\ IsFiniteSet(L \cup {k})
          /\ Cardinality(L \cup {k}) = IF k \in L THEN Cardinality(L) ELSE Cardinality(L) + 1
      BY <3>1, FS_AddElement
    <3> QED
      BY <2>3, <3>1, <3>2, <3>3
  <2>5. CASE ~Overfull(e)
    <3>1. entries' = e /\ entries'[k] = d
      BY <2>1, <2>2, <2>5
    <3>2. Live(entries)' = Live(e)
      BY <3>1 DEF Live
    <3>3. Cardinality(Live(e)) <= Cap
      BY <2>4, <2>5, ConstantsAssumption DEF Overfull
    <3> QED
      BY <2>4, <3>1, <3>2, <3>3 DEF SizeInv, Bounded
  <2>6. CASE Overfull(e)
    <3>1. Cardinality(Live(e)) = Cap + 1 /\ Cap \in Nat \ {0}
      BY <2>4, <2>6, ConstantsAssumption DEF Overfull
    <3>2. PICK j \in Live(e) : j # k
      <4>1. ASSUME Live(e) \subseteq {k} PROVE FALSE
        <5>1. Live(e) = {k}
          BY <2>3, <4>1
        <5>2. Cardinality(Live(e)) = 1
          BY <5>1, FS_Singleton
        <5> QED
          BY <3>1, <5>2
      <4> QED
        BY <4>1
    <3>3. x \in Live(e) /\ \A i \in Live(e) : o[x] <= o[i]
      <4>1. \A i \in Live(e) : o[i] \in Nat
        BY <2>2 DEF Live
      <4> HIDE DEF o, e
      <4>2. \E l \in Live(e) : \A i \in Live(e) : o[l] <= o[i]
        BY <3>2, <4>1, FirstExists
      <4> QED
        BY <4>2 DEF Evicted
    <3>4. x \in Keys /\ j \in Keys /\ o[x] <= o[j]
      BY <3>2, <3>3 DEF Live
    <3> HIDE DEF x, e, o
    <3>5. x # k
      <4>1. o[j] <= inserted /\ o[k] = inserted + 1 /\ o[j] \in Nat
        BY <2>2, <3>2, <3>4
      <4> QED
        BY <2>2, <3>4, <4>1
    <3>6. /\ entries' = [e EXCEPT ![x] = None] /\ entries'[k] = d
          /\ \A i \in Keys : entries'[i] = IF i = x THEN None ELSE e[i]
      BY <2>1, <2>2, <2>6, <3>5
    <3>7. Live(entries)' = Live(e) \ {x}
      BY <3>6 DEF Live
    <3>8. IsFiniteSet(Live(e) \ {x}) /\ Cardinality(Live(e) \ {x}) = Cardinality(Live(e)) - 1
      BY <2>4, <3>3, FS_RemoveElement
    <3>9. Cardinality(Live(e) \ {x}) <= Cap
      BY <3>1, <3>8
    <3> QED
      BY <3>6, <3>7, <3>8, <3>9 DEF SizeInv, Bounded
  <2> QED
    BY <2>5, <2>6
<1> QED
  BY <1>1, <1>2

(* Every other step drops entries or leaves them alone.                    *)
LEMMA StepSize == IInv /\ SizeInv /\ [Next]_vars => SizeInv'
<1> SUFFICES ASSUME IInv, SizeInv, [Next]_vars PROVE SizeInv'
  OBVIOUS
<1>0. TypeOK /\ QuestionInv /\ RoleInv
  BY DEF IInv
<1>1. ASSUME Live(entries)' \subseteq Live(entries) PROVE SizeInv'
  <2>1. Live(entries)' \in SUBSET Live(entries) /\ IsFiniteSet(Live(entries))
    BY <1>1 DEF SizeInv
  <2>2. /\ IsFiniteSet(Live(entries)')
        /\ Cardinality(Live(entries)') <= Cardinality(Live(entries))
    BY <2>1, FS_Subset
  <2>3. Cardinality(Live(entries)') \in Nat /\ Cardinality(Live(entries)) \in Nat
    BY <2>1, <2>2, FS_CardinalityType
  <2> QED
    BY <2>2, <2>3, ConstantsAssumption DEF SizeInv, Bounded
<1>2. ASSUME NEW c \in Checkers, Memoize(c) PROVE SizeInv'
  <2>1. got[c] \in Decisions /\ MemoKey(c) \in Keys /\ Remember(MemoKey(c), got[c])
    BY <1>0, <1>2 DEF Memoize, TypeOK, QuestionInv, MemoKey
  <2> QED
    BY <1>0, <2>1, RememberSize
<1>3. ASSUME \/ entries' = entries \/ entries' = Empty
             \/ \E k : entries' = [entries EXCEPT ![k] = None]
      PROVE  SizeInv'
  BY <1>0, <1>1, <1>3 DEF Live, Empty, TypeOK
<1>4. ASSUME NEW c \in Checkers, Check(c), ~Memoize(c) PROVE SizeInv'
  BY <1>3, <1>4 DEF Check, Hit, Miss, Decide, Refresh, Retry, CheckFails, Forget, memo
<1>5. ASSUME NEW c \in Changers, SwitchPrincipal(c) PROVE SizeInv'
  BY <1>3, <1>5 DEF SwitchPrincipal, Begin, Change, ChangeFails, Forget, memo
<1>6. CASE Tick \/ UNCHANGED vars
  BY <1>3, <1>6 DEF Tick, vars, memo
<1> QED
  BY <1>2, <1>4, <1>5, <1>6 DEF Next

(* The memo is empty at first.                                             *)
LEMMA InitSize == Init => SizeInv
<1> SUFFICES ASSUME Init PROVE SizeInv
  OBVIOUS
<1>1. Live(entries) = {}
  BY DEF Init, Live, Empty
<1> QED
  BY <1>1, FS_EmptySet, ConstantsAssumption DEF SizeInv, Bounded

(* The memo never holds more entries than its cap, for any number of keys  *)
(* and threads: DecisionMemo.set makes room as it stores.                  *)
THEOREM MemoIsBounded == Spec => []Bounded
<1>1. SizeInv => Bounded
  BY DEF SizeInv
<1> QED
  BY <1>1, InitSize, StepSize, Invariance, PTL DEF Spec

(* A decision that was just memoized is there for the next check: the      *)
(* entry that DecisionMemo.set evicts is an older one.                     *)
THEOREM NewestIsKept == Spec => NewestSurvives
<1>2. ASSUME IInv, SizeInv, [Next]_vars, NEW c \in Checkers,
             TTL > 0, pc[c] = "storing", pc'[c] = "done"
      PROVE  entries'[MemoKey(c)] = got[c]
  <2>1. pc \in [Checkers \cup Changers -> {"start", "wire", "refreshing", "retried",
                                           "storing", "changing", "done", "failed"}]
    BY <1>2 DEF IInv, TypeOK
  <2>2. CASE \E k \in Checkers : Check(k)
    <3>1. PICK k \in Checkers : Check(k)
      BY <2>2
    <3>2. k = c
      BY <1>2, <2>1, <3>1
      DEF Check, Hit, Miss, Decide, Refresh, Retry, CheckFails, Memoize, Goto
    <3>3. Memoize(c)
      BY <1>2, <2>1, <3>1, <3>2
      DEF Check, Hit, Miss, Decide, Refresh, Retry, CheckFails, Memoize, Goto
    <3>4. got[c] \in Decisions /\ MemoKey(c) \in Keys /\ Remember(MemoKey(c), got[c])
      BY <1>2, <3>3 DEF Memoize, IInv, TypeOK, QuestionInv, MemoKey
    <3> QED
      BY <1>2, <3>4, RememberSize DEF IInv
  <2>3. CASE \E k \in Changers : SwitchPrincipal(k)
    BY <1>2, <2>1, <2>3, ConstantsAssumption
    DEF SwitchPrincipal, Begin, Change, ChangeFails, Goto
  <2>4. CASE Tick \/ UNCHANGED vars
    BY <1>2, <2>4 DEF Tick, vars
  <2> QED
    BY <1>2, <2>2, <2>3, <2>4 DEF Next
<1>3. IInv /\ SizeInv /\ [Next]_vars =>
        [\A c \in Checkers :
           TTL > 0 /\ pc[c] = "storing" /\ pc'[c] = "done" => entries'[MemoKey(c)] = got[c]]_vars
  BY <1>2
<1> QED
  BY <1>3, InitSize, StepSize, Invariance, PTL DEF Spec, NewestSurvives

-----------------------------------------------------------------------------
(* The parts that a step of MCSession belongs to.                          *)
LEMMA Parts == [MCNext]_mcvars => [Next]_vars /\ [Session!Next]_session
  BY DEF MCNext, MemoPart, SessionPart, mcvars

(* The credential of the session.                                          *)
Refreshing == {"queued", "refreshing", "rotated", "arrived"}

SessionTypes ==
    /\ spc \in [Session!Callers -> {"start", "sent", "queued", "refreshing", "rotated",
                                    "arrived", "resent", "done", "failed"}]
    /\ jar \in Nat /\ bearer \in BOOLEAN /\ guard \in Session!Guards
    /\ lock \in [Session!Guards -> Requesters \cup {NoOne}]
    /\ baseline \in [Session!Guards -> Nat]
    /\ entered \in [Requesters -> Session!Guards]
    /\ request \in [Requesters -> [cookie : Nat, bearer : BOOLEAN]]
    /\ held \in [Requesters -> BOOLEAN]
    /\ answer \in [Requesters \cup Logouts -> Nat]
    /\ issued \in Nat

(* Guards to come are empty, and so is the guard of a session with a       *)
(* device credential: a refresh that is still under way entered an earlier *)
(* one.                                                                    *)
GuardInv ==
    /\ \A g \in Session!Guards : guard < g => baseline[g] = Session!NoCookie
    /\ bearer => baseline[guard] = Session!NoCookie
    /\ \A c \in Requesters : spc[c] \in Refreshing =>
          entered[c] <= guard /\ (bearer => entered[c] < guard)

(* The session has a credential until somebody logs out: a refresh brings  *)
(* a cookie.                                                               *)
CredentialInv ==
    /\ \A c \in Requesters : spc[c] = "rotated" => answer[c] # Session!NoCookie
    /\ (\A c \in Logouts : spc[c] = "start") => jar # Session!NoCookie \/ bearer

SessionInv == SessionTypes /\ RunsAsAdopted /\ GuardInv /\ CredentialInv

LEMMA SessionInit == Session!Init => SessionInv
<1> SUFFICES ASSUME Session!Init PROVE SessionInv
  OBVIOUS
<1> USE RolesAssumption DEF Session!Init, Session!NoCookie
<1>1. SessionTypes
  <2>1. request \in [Requesters -> [cookie : Nat, bearer : BOOLEAN]]
    BY DEF Session!Unsent
  <2>2. spc \in [Session!Callers -> {"start"}]
    OBVIOUS
  <2>3. baseline \in [Session!Guards -> Nat]
    OBVIOUS
  <2>4. lock \in [Session!Guards -> Requesters \cup {NoOne}]
    OBVIOUS
  <2>5. entered \in [Requesters -> Session!Guards] /\ guard \in Session!Guards
    BY DEF Session!Guards
  <2>6. held \in [Requesters -> BOOLEAN] /\ answer \in [Requesters \cup Logouts -> Nat]
    OBVIOUS
  <2> QED
    BY <2>1, <2>2, <2>3, <2>4, <2>5, <2>6 DEF SessionTypes
<1>2. RunsAsAdopted
  BY DEF RunsAsAdopted, Session!RunsAsAdopted
<1>3. GuardInv
  BY DEF GuardInv, Session!Guards, Session!Callers, Refreshing
<1>4. CredentialInv
  BY DEF CredentialInv, Session!Callers
<1> QED
  BY <1>1, <1>2, <1>3, <1>4 DEF SessionInv

(* What a request carries: nothing but the device credential while one is  *)
(* held.                                                                   *)
LEMMA PreparedFacts ==
  ASSUME SessionTypes, NEW a \in BOOLEAN
  PROVE  /\ Session!Prepared(a) \in [cookie : Nat, bearer : BOOLEAN]
         /\ bearer => Session!Prepared(a).cookie = Session!NoCookie
                      /\ Session!Prepared(a).bearer
  BY DEF SessionTypes, Session!Prepared, Session!NoCookie

LEMMA SendsFacts ==
  ASSUME SessionTypes, RunsAsAdopted, NEW c \in Requesters, NEW a \in BOOLEAN,
         Session!Sends(c, a)
  PROVE  /\ RunsAsAdopted'
         /\ request' \in [Requesters -> [cookie : Nat, bearer : BOOLEAN]]
         /\ held' \in [Requesters -> BOOLEAN]
  BY PreparedFacts
  DEF SessionTypes, RunsAsAdopted, Session!RunsAsAdopted, Session!Sends

(* Every step of a request keeps the invariant.                            *)
LEMMA RequestStep ==
  ASSUME SessionInv, NEW c \in Session!Callers, Session!Request(c)
  PROVE  SessionInv'
<1> USE RolesAssumption
    DEF SessionInv, SessionTypes, GuardInv, CredentialInv, Refreshing,
        Session!Callers, Session!Guards, Session!NoCookie, Session!At, Session!Goto,
        Session!store, Session!calls, Session!server
<1>1. CASE Session!Send(c)
  BY <1>1, SendsFacts DEF Session!Send
<1>2. CASE Session!Answered(c)
  <2>1. GuardInv' /\ CredentialInv'
    BY <1>2 DEF Session!Answered
  <2>2. SessionTypes'
    BY <1>2 DEF Session!Answered
  <2>3. RunsAsAdopted'
    BY <1>2 DEF Session!Answered, RunsAsAdopted, Session!RunsAsAdopted
  <2> QED
    BY <2>1, <2>2, <2>3
<1>3. CASE Session!Unauthorized(c)
  BY <1>3 DEF Session!Unauthorized, RunsAsAdopted, Session!RunsAsAdopted
<1>4. CASE Session!SkipRefresh(c)
  BY <1>4, SendsFacts DEF Session!SkipRefresh, Session!Resend
<1>5. CASE Session!SendRefresh(c)
  BY <1>5, PreparedFacts DEF Session!SendRefresh, RunsAsAdopted, Session!RunsAsAdopted
<1>6. CASE Session!Rotate(c)
  BY <1>6 DEF Session!Rotate, RunsAsAdopted, Session!RunsAsAdopted
<1>7. CASE Session!RefreshFails(c)
  BY <1>7 DEF Session!RefreshFails, Session!Release, RunsAsAdopted, Session!RunsAsAdopted
<1>8. CASE Session!AnswerArrives(c)
  BY <1>8 DEF Session!AnswerArrives, RunsAsAdopted, Session!RunsAsAdopted
<1>9. CASE Session!Refreshed(c)
  <2>1. CASE jar = Session!NoCookie
    BY <1>9, <2>1
    DEF Session!Refreshed, Session!Release, RunsAsAdopted, Session!RunsAsAdopted
  <2>2. CASE jar # Session!NoCookie
    <3>1. /\ baseline' = [baseline EXCEPT ![entered[c]] = jar]
          /\ lock' = [lock EXCEPT ![entered[c]] = NoOne]
          /\ spc' = [spc EXCEPT ![c] = "resent"]
          /\ c \in Requesters /\ spc[c] = "arrived"
          /\ Session!Sends(c, request[c].bearer)
          /\ UNCHANGED <<jar, bearer, guard, entered, observed, answer, redeemable, issued>>
      BY <1>9, <2>2
      DEF Session!Refreshed, Session!Release, Session!StoredIn, Session!Resend
    <3>2. /\ RunsAsAdopted'
          /\ request' \in [Requesters -> [cookie : Nat, bearer : BOOLEAN]]
          /\ held' \in [Requesters -> BOOLEAN]
      BY <3>1, SendsFacts
    <3>3. SessionTypes'
      BY <3>1, <3>2
    <3>4. GuardInv'
      BY <3>1
    <3>5. CredentialInv'
      BY <3>1
    <3> QED
      BY <3>2, <3>3, <3>4, <3>5
  <2> QED
    BY <2>1, <2>2
<1> QED
  BY <1>1, <1>2, <1>3, <1>4, <1>5, <1>6, <1>7, <1>8, <1>9 DEF Session!Request

(* So does every step of a login, a device login and a logout.             *)
LEMMA SignInOrOutStep ==
  ASSUME SessionInv, NEW c \in Session!Callers, Session!SignInOrOut(c)
  PROVE  SessionInv'
<1> USE RolesAssumption
    DEF SessionInv, SessionTypes, RunsAsAdopted, Session!RunsAsAdopted, GuardInv,
        CredentialInv, Refreshing, Session!Callers, Session!Guards,
        Session!NoCookie, Session!At, Session!Goto, Session!store, Session!calls,
        Session!server
<1>1. CASE Session!LoginAnswered(c)
  BY <1>1 DEF Session!LoginAnswered
<1>2. CASE Session!Absorb(c)
  <2>1. CASE jar = Session!NoCookie
    BY <1>2, <2>1 DEF Session!Absorb, Session!BearerAfterLogin
  <2>2. CASE jar # Session!NoCookie
    <3>1. /\ c \in Logins /\ spc[c] = "arrived" /\ spc' = [spc EXCEPT ![c] = "done"]
          /\ ~bearer' /\ baseline' = [baseline EXCEPT ![guard] = jar]
          /\ UNCHANGED <<jar, guard, lock, entered, observed, request, held, answer,
                         redeemable, issued>>
      BY <1>2, <2>2 DEF Session!Absorb, Session!BearerAfterLogin
    <3>2. SessionTypes'
      BY <1>2, <3>1 DEF Session!Absorb, Session!BearerAfterLogin
    <3>3. GuardInv'
      BY <3>1
    <3>4. RunsAsAdopted' /\ CredentialInv'
      BY <3>1, <2>2
    <3> QED
      BY <3>2, <3>3, <3>4
  <2> QED
    BY <2>1, <2>2
<1>3. CASE Session!Adopt(c)
  BY <1>3 DEF Session!Adopt, Session!ResetGuard
<1>4. CASE Session!SendLogout(c)
  BY <1>4 DEF Session!SendLogout
<1>5. CASE Session!LogoutAnswered(c)
  BY <1>5 DEF Session!LogoutAnswered
<1>6. CASE Session!EndSession(c)
  <2>1. /\ c \in Logouts /\ spc[c] = "arrived" /\ spc' = [spc EXCEPT ![c] = "done"]
        /\ guard + 1 \in Session!Guards /\ guard' = guard + 1 /\ ~bearer'
        /\ UNCHANGED <<lock, baseline, jar, entered, observed, request, held, answer,
                       redeemable, issued>>
    BY <1>6 DEF Session!EndSession, Session!ResetGuard
  <2>2. SessionTypes'
    BY <1>6, <2>1 DEF Session!EndSession
  <2>3. GuardInv'
    BY <2>1
  <2>4. RunsAsAdopted' /\ CredentialInv'
    BY <2>1
  <2> QED
    BY <2>2, <2>3, <2>4
<1> QED
  BY <1>1, <1>2, <1>3, <1>4, <1>5, <1>6 DEF Session!SignInOrOut

(* The inductive invariant of the session.                                 *)
THEOREM SessionInvariance == MCSpec => []SessionInv
<1>1. MCInit => SessionInv
  BY SessionInit DEF MCInit
<1>2. SessionInv /\ [Session!Next]_session => SessionInv'
  <2> SUFFICES ASSUME SessionInv, [Session!Next]_session PROVE SessionInv'
    OBVIOUS
  <2>1. CASE Session!Next
    BY <2>1, RequestStep, SignInOrOutStep DEF Session!Next
  <2>2. CASE UNCHANGED session
    BY <2>2
    DEF session, SessionInv, SessionTypes, RunsAsAdopted, Session!RunsAsAdopted,
        GuardInv, CredentialInv
  <2> QED
    BY <2>1, <2>2
<1> QED
  BY <1>1, <1>2, Parts, PTL DEF MCSpec

(* While a device credential is held, no request is sent that the server   *)
(* would run as an earlier session, whatever answers are still to come     *)
(* (_apply_bearer_credential).                                             *)
THEOREM DeviceIsNotImpersonated == MCSpec => []RunsAsAdopted
<1>1. SessionInv => RunsAsAdopted
  BY DEF SessionInv
<1> QED
  BY <1>1, SessionInvariance, PTL

(* No refresh of an earlier session stores its token in the guard of a     *)
(* session with a device credential (adopt_bearer_credential).             *)
THEOREM BaselineDoesNotSurvive == MCSpec => []BaselineForgotten
<1>1. SessionInv => BaselineForgotten
  BY DEF SessionInv, GuardInv, BaselineForgotten, Session!BaselineForgotten
<1> QED
  BY <1>1, SessionInvariance, PTL

(* In whatever order the answers of logins, device logins and refreshes    *)
(* arrive, the session keeps a credential until somebody logs out          *)
(* (_absorb_session_cookies).                                              *)
THEOREM LoginsDoNotStrand == MCSpec => []NotStranded
<1>1. SessionInv => NotStranded
  BY DEF SessionInv, CredentialInv, NotStranded, Session!NotStranded, Session!At
<1> QED
  BY <1>1, SessionInvariance, PTL
=============================================================================
