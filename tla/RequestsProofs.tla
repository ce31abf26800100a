--------------------------- MODULE RequestsProofs ----------------------------
(* What a write of the management surface may have done, for any           *)
(* collection, page size, number of attempts and of foreign writes; and    *)
(* what the web guards answer, for any request and clock skew.             *)
EXTENDS MCRequests, FiniteSetTheorems, SequenceTheorems, WellFoundedInduction, TLAPS

-----------------------------------------------------------------------------
(* The parts that a step of MCRequests belongs to.                         *)
LEMMA Parts == [MCNext]_mcvars => [Next]_vars /\ [Web!Next]_web
  BY DEF MCNext, ManagementPart, WebPart, mcvars

-----------------------------------------------------------------------------
(* Each call is somewhere, and has a result only when it is over.          *)
CallInv ==
    /\ pc \in [Calls -> {"called", "sent", "refreshing", "done"}]
    /\ result \in [Calls -> {"none", "ok", "error", "unknown"}]
    /\ pc["create"] # "done" => result["create"] = "none"

(* create() has made a row only when it is over: nothing is sent after the *)
(* request that the server carried out.                                    *)
MadeInv ==
    /\ pc["create"] # "done" => made \cap Mine = {}
    /\ made \cap Mine = {} \/ \E r \in Mine : made \cap Mine = {r}

OutcomeInv ==
    /\ result["create"] = "ok" => made \cap Mine # {}
    /\ result["create"] = "error" => made \cap Mine = {}

IInv == CallInv /\ MadeInv /\ OutcomeInv

-----------------------------------------------------------------------------
LEMMA InitIInv == Init => IInv
  BY DEF Init, IInv, CallInv, MadeInv, OutcomeInv, Calls

(* A step that sends, resends or ends the call of a list_all leaves what   *)
(* create() did alone.                                                     *)
LEMMA ElsewhereIInv ==
  ASSUME IInv, made' \cap Mine = made \cap Mine, CallInv',
         pc'["create"] = pc["create"], result'["create"] = result["create"]
  PROVE  IInv'
  BY DEF IInv, CallInv, MadeInv, OutcomeInv

(* What Sends and Ends leave of the places and the results.                *)
LEMMA SendsFacts ==
  ASSUME CallInv, NEW c \in Calls, pc[c] # "done", NEW n, NEW again, Sends(c, n, again)
  PROVE  /\ CallInv'
         /\ pc'["create"] = IF c = "create" THEN "sent" ELSE pc["create"]
         /\ result' = result
  BY DEF CallInv, Sends, Calls

LEMMA EndsFacts ==
  ASSUME CallInv, NEW c \in Calls, NEW r \in {"ok", "error", "unknown"}, Ends(c, r)
  PROVE  /\ CallInv'
         /\ pc'["create"] = IF c = "create" THEN "done" ELSE pc["create"]
         /\ result'["create"] = IF c = "create" THEN r ELSE result["create"]
  BY DEF CallInv, Ends, Calls

(* A step of a call that creates nothing: it goes on, or ends with an      *)
(* error or in a NetworkError.                                             *)
LEMMA QuietIInv ==
  ASSUME IInv, NEW c \in Calls, pc[c] # "done", made' = made,
         \/ \E n, again : Sends(c, n, again)
         \/ Ends(c, "error") \/ Ends(c, "unknown")
  PROVE  IInv'
<1>1. CASE \E n, again : Sends(c, n, again)
  <2>1. PICK n, again : Sends(c, n, again)
    BY <1>1
  <2> QED
    BY <2>1, SendsFacts DEF IInv, MadeInv, OutcomeInv
<1>2. CASE Ends(c, "error") \/ Ends(c, "unknown")
  <2>1. PICK r \in {"error", "unknown"} : Ends(c, r)
    BY <1>2
  <2>2. CallInv' /\ pc'["create"] = IF c = "create" THEN "done" ELSE pc["create"]
    BY <2>1, EndsFacts DEF IInv
  <2>3. result'["create"] = IF c = "create" THEN r ELSE result["create"]
    BY <2>1, EndsFacts DEF IInv
  <2> QED
    BY <2>1, <2>2, <2>3 DEF IInv, MadeInv, OutcomeInv
<1> QED BY <1>1, <1>2

(* A write that ends in a NetworkError is not sent again.                  *)
LEMMA CreateIInv ==
  ASSUME IInv, NEW lost \in BOOLEAN, Create(lost)
  PROVE  IInv'
<1>1. PICK r \in Mine \ made : made' = made \cup {r}
  BY DEF Create
<1>2. made \cap Mine = {} /\ pc["create"] = "sent"
  BY DEF Create, IInv, MadeInv
<1>3. made' \cap Mine = {r}
  BY <1>1, <1>2
<1>4. ~Retried("create")
  BY DEF Retried
<1>5. Ends("create", "ok") \/ Ends("create", "unknown")
  BY <1>4 DEF Create, NetworkFails
<1>6. PICK end \in {"ok", "unknown"} : Ends("create", end)
  BY <1>5
<1>7. CallInv' /\ pc'["create"] = "done" /\ result'["create"] = end
  BY <1>6, EndsFacts DEF IInv, Calls
<1> QED
  BY <1>1, <1>3, <1>7 DEF IInv, MadeInv, OutcomeInv

(* Every step preserves the invariant.                                     *)
LEMMA StepIInv == IInv /\ [Next]_vars => IInv'
<1> SUFFICES ASSUME IInv, [Next]_vars PROVE IInv'
  OBVIOUS
<1>1. ASSUME NEW c \in Calls, Step(c) PROVE IInv'
  <2>1. CASE Unauthorized(c) /\ Refreshes(c)
    <3>1. pc' = [pc EXCEPT ![c] = "refreshing"] /\ UNCHANGED <<result, made>> /\ pc[c] = "sent"
      BY <2>1 DEF Unauthorized
    <3>2. CallInv' /\ (pc'["create"] # pc["create"] => pc["create"] = "sent")
      BY <3>1 DEF IInv, CallInv, Calls
    <3> QED
      BY <3>1, <3>2 DEF IInv, MadeInv, OutcomeInv
  <2>2. CASE ~(Unauthorized(c) /\ Refreshes(c))
    <3>1. pc[c] # "done" /\ made' = made
      BY <1>1
      DEF Step, Begin, Refused, Fails, Unauthorized, Refreshed, RefreshFails, history
    <3>2. \/ \E n, again : Sends(c, n, again)
          \/ Ends(c, "error") \/ Ends(c, "unknown")
      BY <1>1, <2>2 DEF Step, Begin, Refused, Fails, Unauthorized, Refreshed,
         RefreshFails, NetworkFails
    <3> QED
      BY <3>1, <3>2, QuietIInv
  <2> QED BY <2>1, <2>2
<1>2. ASSUME NEW lost \in BOOLEAN, Create(lost) PROVE IInv'
  BY <1>2, CreateIInv
<1>3. ASSUME NEW excess \in {0, 1}, Page(excess) PROVE IInv'
  <2>1. made' = made /\ pc["list_all"] # "done"
    BY <1>3 DEF Page
  <2>2. Ends("list_all", "ok") \/ Sends("list_all", 1, FALSE)
    BY <1>3 DEF Page
  <2>3. CallInv' /\ pc'["create"] = pc["create"] /\ result'["create"] = result["create"]
    BY <2>1, <2>2, EndsFacts, SendsFacts DEF IInv, Calls
  <2> QED
    BY <2>1, <2>3, ElsewhereIInv
<1>4. ASSUME OtherCreates PROVE IInv'
  <2>1. PICK r \in Others \ made : made' = made \cup {r}
    BY <1>4 DEF OtherCreates
  <2>2. made' \cap Mine = made \cap Mine
    BY <2>1, RowsAssumption
  <2>3. pc' = pc /\ result' = result
    BY <1>4 DEF OtherCreates, progress
  <2>4. CallInv'
    BY <2>3 DEF IInv, CallInv
  <2> QED
    BY <2>2, <2>3, <2>4, ElsewhereIInv
<1>5. CASE Expire \/ (\E i \in DOMAIN collection : OtherDeletes(i)) \/ UNCHANGED vars
  <2>1. UNCHANGED <<pc, result, made>>
    BY <1>5 DEF Expire, OtherDeletes, vars, progress
  <2> QED
    BY <2>1 DEF IInv, CallInv, MadeInv, OutcomeInv
<1> QED
  BY <1>1, <1>2, <1>3, <1>4, <1>5 DEF Next, Pages

(* A write that returned made one row, one that raised the server's error  *)
(* made none, one that ended in a NetworkError made at most one: the retry *)
(* runner and the resend after a 401 never carry it out twice.             *)
THEOREM WriteTruthful == MCSpec => []WriteIsTruthful
<1>1. IInv => WriteIsTruthful
  <2>1. ASSUME IInv PROVE Cardinality(made \cap Mine) <= 1
    <3>1. CASE made \cap Mine = {}
      BY <3>1, FS_EmptySet
    <3>2. CASE \E r \in Mine : made \cap Mine = {r}
      BY <3>2, FS_Singleton
    <3> QED BY <2>1, <3>1, <3>2 DEF IInv, MadeInv
  <2> QED BY <2>1 DEF IInv, OutcomeInv, WriteIsTruthful
<1>2. MCSpec => []IInv
  <2>1. MCInit => IInv
    BY InitIInv DEF MCInit
  <2> QED
    BY <2>1, StepIInv, Parts, PTL DEF MCSpec
<1> QED BY <1>1, <1>2, PTL

-----------------------------------------------------------------------------
(* Induction, said of sets so that the provers can use it.                 *)
(* Counting up to N: what holds of 0 and of the next number of each holds  *)
(* of all.  Said of a set, where the library says it of an operator.       *)
LEMMA CountingUp ==
  ASSUME NEW N \in Nat, NEW T, 0 \in T, \A n \in 1 .. N : n - 1 \in T => n \in T
  PROVE  N \in T
<1> DEFINE Rest == (0 .. N) \ T
           R == { ss \in Nat \X Nat : ss[1] < ss[2] }
<1> SUFFICES ASSUME Rest # {} PROVE FALSE
  OBVIOUS
<1>1. IsWellFoundedOn(R, Nat) /\ Rest \subseteq Nat
  BY NatLessThanWellFounded DEF OpToRel
<1>2. \A a, b \in Nat : a < b => <<a, b>> \in R
  OBVIOUS
<1> HIDE DEF R
<1>3. PICK x \in Rest : \A y \in Rest : <<y, x>> \notin R
  BY <1>1, WFMin
<1>4. x \in 1 .. N
  OBVIOUS
<1>5. x - 1 \in Nat /\ x \in Nat /\ x - 1 < x
  BY <1>4
<1>6. x - 1 \notin Rest
  BY <1>2, <1>3, <1>5
<1> QED
  BY <1>4, <1>6

(* What holds of the empty sequence and of whatever is one longer, holds   *)
(* of every sequence.                                                      *)
LEMMA Growing ==
  ASSUME NEW S, NEW T, <<>> \in T, \A q \in Seq(S), r \in S : q \in T => Append(q, r) \in T
  PROVE  Seq(S) \subseteq T
<1> SUFFICES ASSUME NEW s \in Seq(S) PROVE s \in T
  OBVIOUS
<1> DEFINE P == { n \in 0 .. Len(s) : SubSeq(s, 1, n) \in T }
<1>1. Len(s) \in Nat /\ SubSeq(s, 1, Len(s)) = s /\ SubSeq(s, 1, 0) = <<>>
  OBVIOUS
<1>2. 0 \in P
  <2>1. 0 \in 0 .. Len(s)
    BY <1>1
  <2> QED
    BY <1>1, <2>1
<1>3. ASSUME NEW n \in 1 .. Len(s), n - 1 \in P PROVE n \in P
  <2>1. /\ SubSeq(s, 1, n - 1) \in Seq(S) /\ s[n] \in S /\ n \in 0 .. Len(s)
        /\ SubSeq(s, 1, n) = Append(SubSeq(s, 1, n - 1), s[n])
    OBVIOUS
  <2> QED
    BY <1>3, <2>1
<1>4. Len(s) \in P
  <2> HIDE DEF P
  <2> QED
    BY <1>1, <1>2, <1>3, CountingUp
<1> QED
  BY <1>1, <1>4

(* What one more row makes of a sequence.                                  *)
LEMMA AppendFacts ==
  ASSUME NEW S, NEW q \in Seq(S), NEW r \in S
  PROVE  /\ Append(q, r) \in Seq(S) /\ Len(Append(q, r)) = Len(q) + 1
         /\ ToSet(Append(q, r)) = ToSet(q) \cup {r}
         /\ IsInjective(Append(q, r)) <=> IsInjective(q) /\ r \notin ToSet(q)
<1> DEFINE n == Len(q)
           p == Append(q, r)
<1>1. /\ n \in Nat /\ DOMAIN q = 1 .. n /\ DOMAIN p = 1 .. n + 1 /\ p \in Seq(S)
      /\ Len(p) = n + 1
      /\ p[n + 1] = r /\ \A i \in 1 .. n : p[i] = q[i]
  OBVIOUS
<1> HIDE DEF n, p
<1>2. \A i \in 1 .. n + 1 : i \in 1 .. n \/ i = n + 1
  BY <1>1
<1>3. \A i \in 1 .. n : i \in 1 .. n + 1 /\ i # n + 1
  BY <1>1
<1>4. n + 1 \in 1 .. n + 1
  BY <1>1
<1>5. ToSet(p) = ToSet(q) \cup {r}
  BY <1>1, <1>2, <1>3, <1>4 DEF ToSet
<1>6. IsInjective(p) <=> IsInjective(q) /\ r \notin ToSet(q)
  BY <1>1, <1>2, <1>3, <1>4 DEF ToSet, IsInjective
<1> QED
  BY <1>1, <1>5, <1>6 DEF p, n

-----------------------------------------------------------------------------
(* The view of a listing grows with it.                                    *)
Extend(q, r) == IF Selected(r) THEN Append(q, r) ELSE q

Views(f, s) ==
    /\ f[0] = <<>>
    /\ \A n \in 1 .. Len(s) : f[n] = Extend(f[n - 1], s[n])

(* There is such a run for every listing, by induction on it ...           *)
LEMMA ViewRun ==
  ASSUME NEW S, NEW s \in Seq(S)
  PROVE  \E f : f \in [0 .. Len(s) -> Seq(S)] /\ Views(f, s)
<1> DEFINE T == { q \in Seq(S) : \E f : f \in [0 .. Len(q) -> Seq(S)] /\ Views(f, q) }
<1>1. <<>> \in T
  <2>1. [i \in 0 .. 0 |-> <<>>] \in [0 .. Len(<<>>) -> Seq(S)] /\ Views([i \in 0 .. 0 |-> <<>>], <<>>)
    BY DEF Views
  <2> QED
    BY <2>1
<1>2. ASSUME NEW q \in Seq(S), NEW r \in S, q \in T PROVE Append(q, r) \in T
  <2>1. PICK f : f \in [0 .. Len(q) -> Seq(S)] /\ Views(f, q)
    BY <1>2
  <2> DEFINE n == Len(q)
             p == Append(q, r)
             g == [i \in 0 .. n + 1 |-> IF i = n + 1 THEN Extend(f[n], r) ELSE f[i]]
  <2>2. /\ n \in Nat /\ p \in Seq(S) /\ Len(p) = n + 1
        /\ p[n + 1] = r /\ \A i \in 1 .. n : p[i] = q[i]
    OBVIOUS
  <2>3. Extend(f[n], r) \in Seq(S)
    <3>1. n \in 0 .. Len(q)
      BY <2>2
    <3>2. f[n] \in Seq(S)
      BY <2>1, <3>1
    <3>3. Append(f[n], r) \in Seq(S)
      BY <3>2, AppendProperties
    <3> QED
      BY <3>2, <3>3 DEF Extend
  <2>4. g \in [0 .. n + 1 -> Seq(S)] /\ g[0] = <<>> /\ g[n + 1] = Extend(f[n], r)
    BY <2>1, <2>2, <2>3 DEF Views
  <2>5. \A i \in 0 .. n : g[i] = f[i]
    BY <2>2
  <2> HIDE DEF g, p
  <2>6. ASSUME NEW i \in 1 .. n + 1 PROVE g[i] = Extend(g[i - 1], p[i])
    <3>1. CASE i = n + 1
      <4>1. i - 1 = n /\ n \in 0 .. n
        BY <2>2, <3>1
      <4>2. g[i - 1] = f[n]
        BY <2>5, <4>1
      <4>3. g[i] = Extend(f[n], r) /\ p[i] = r
        BY <2>2, <2>4, <3>1
      <4> QED
        BY <4>2, <4>3
    <3>2. CASE i # n + 1
      <4>1. i \in 1 .. n /\ i \in 0 .. n /\ i - 1 \in 0 .. n
        BY <2>2, <3>2
      <4> QED
        BY <2>1, <2>2, <2>5, <4>1 DEF Views
    <3> QED
      BY <3>1, <3>2
  <2>7. Views(g, p)
    BY <2>2, <2>4, <2>6 DEF Views
  <2> QED
    BY <2>2, <2>4, <2>7 DEF p
<1> HIDE DEF T
<1>3. Seq(S) \subseteq T
  BY <1>1, <1>2, Growing
<1> QED
  BY <1>3 DEF T

(* ... and its last value is the view.                                     *)
LEMMA ViewIsLast ==
  ASSUME NEW S, NEW s \in Seq(S), NEW f, f \in [0 .. Len(s) -> Seq(S)], Views(f, s)
  PROVE  View(s) = f[Len(s)]
<1> DEFINE N == Len(s)
           shown == CHOOSE shown : shown =
                      [n \in 0 .. N |-> IF n = 0 THEN <<>>
                                        ELSE IF Selected(s[n]) THEN Append(shown[n - 1], s[n])
                                        ELSE shown[n - 1]]
<1>1. N \in Nat
  OBVIOUS
<1>2. f = [n \in 0 .. N |-> IF n = 0 THEN <<>>
                            ELSE IF Selected(s[n]) THEN Append(f[n - 1], s[n])
                            ELSE f[n - 1]]
  <2>1. \A n \in 0 .. N : n # 0 => n \in 1 .. N
    BY <1>1
  <2> QED
    BY <2>1, Zenon DEF Views, Extend
<1>3. shown = [n \in 0 .. N |-> IF n = 0 THEN <<>>
                                ELSE IF Selected(s[n]) THEN Append(shown[n - 1], s[n])
                                ELSE shown[n - 1]]
  BY <1>2, Zenon
<1>4. View(s) = shown[N]
  BY DEF View
<1> HIDE DEF shown, N
<1> DEFINE T == { n \in 0 .. N : shown[n] = f[n] }
<1>5. 0 \in T
  BY <1>1, <1>3 DEF Views
<1>6. ASSUME NEW n \in 1 .. N, n - 1 \in T PROVE n \in T
  <2>1. n \in 0 .. N /\ n # 0
    BY <1>1
  <2>2. shown[n] = Extend(shown[n - 1], s[n])
    BY <1>3, <2>1 DEF Extend
  <2> QED
    BY <1>6, <2>1, <2>2 DEF Views, N
<1>7. N \in T
  <2> HIDE DEF T
  <2> QED
    BY <1>1, <1>5, <1>6, CountingUp
<1> QED
  BY <1>4, <1>7 DEF N

(* So the view can be had row by row.                                      *)
LEMMA ViewGrows ==
  ASSUME NEW S
  PROVE  /\ View(<<>>) = <<>>
         /\ \A q \in Seq(S), r \in S : View(Append(q, r)) = Extend(View(q), r)
<1>1. View(<<>>) = <<>>
  <2>1. <<>> \in Seq(S) /\ Len(<<>>) = 0
    OBVIOUS
  <2>2. PICK f : f \in [0 .. Len(<<>>) -> Seq(S)] /\ Views(f, <<>>)
    BY <2>1, ViewRun
  <2>3. View(<<>>) = f[Len(<<>>)]
    BY <2>1, <2>2, ViewIsLast
  <2> QED
    BY <2>1, <2>2, <2>3 DEF Views
<1>2. ASSUME NEW q \in Seq(S), NEW r \in S PROVE View(Append(q, r)) = Extend(View(q), r)
  <2> DEFINE p == Append(q, r)
             n == Len(q)
  <2>1. /\ n \in Nat /\ p \in Seq(S) /\ Len(p) = n + 1
        /\ p[n + 1] = r /\ \A i \in 1 .. n : p[i] = q[i]
    OBVIOUS
  <2> HIDE DEF p
  <2>2. PICK f : f \in [0 .. Len(p) -> Seq(S)] /\ Views(f, p)
    BY <2>1, ViewRun
  <2>3. View(p) = f[n + 1]
    BY <2>1, <2>2, ViewIsLast
  <2>4. f[n + 1] = Extend(f[n], r)
    <3>1. n + 1 \in 1 .. Len(p) /\ (n + 1) - 1 = n
      BY <2>1
    <3> QED
      BY <2>1, <2>2, <3>1 DEF Views
  <2> DEFINE e == [i \in 0 .. n |-> f[i]]
  <2>5. e \in [0 .. Len(q) -> Seq(S)] /\ \A i \in 0 .. n : e[i] = f[i]
    BY <2>1, <2>2
  <2>6. Views(e, q)
    <3>1. \A i \in 1 .. n : i \in 0 .. n /\ i - 1 \in 0 .. n /\ i \in 1 .. n + 1
      BY <2>1
    <3>2. ASSUME NEW i \in 1 .. n PROVE e[i] = Extend(e[i - 1], q[i])
      <4>1. f[i] = Extend(f[i - 1], p[i])
        BY <2>1, <2>2, <3>1 DEF Views
      <4> QED
        BY <2>1, <2>5, <3>1, <4>1
    <3>3. e[0] = <<>>
      BY <2>1, <2>2 DEF Views
    <3> QED
      BY <3>2, <3>3 DEF Views
  <2> HIDE DEF e
  <2>7. View(q) = e[n]
    BY <2>5, <2>6, ViewIsLast
  <2>8. e[n] = f[n]
    BY <2>1, <2>5
  <2> QED
    BY <2>3, <2>4, <2>7, <2>8 DEF p
<1> QED
  BY <1>1, <1>2

(* It is what is selected, in the same order.                              *)
LEMMA ViewFacts ==
  ASSUME NEW S, NEW s \in Seq(S)
  PROVE  /\ View(s) \in Seq(S)
         /\ ToSet(View(s)) = { r \in ToSet(s) : Selected(r) }
         /\ IsInjective(s) => IsInjective(View(s))
<1> DEFINE Fits(q) == /\ View(q) \in Seq(S)
                      /\ ToSet(View(q)) = { r \in ToSet(q) : Selected(r) }
                      /\ IsInjective(q) => IsInjective(View(q))
           T == { q \in Seq(S) : Fits(q) }
<1>1. <<>> \in T
  <2>1. <<>> \in Seq(S) /\ View(<<>>) = <<>> /\ DOMAIN <<>> = {}
    BY ViewGrows
  <2> QED
    BY <2>1 DEF ToSet, IsInjective
<1>2. ASSUME NEW q \in Seq(S), NEW r \in S, q \in T PROVE Append(q, r) \in T
  <2>1. View(Append(q, r)) = Extend(View(q), r) /\ Fits(q)
    BY <1>2, ViewGrows
  <2>2. /\ Append(q, r) \in Seq(S) /\ ToSet(Append(q, r)) = ToSet(q) \cup {r}
        /\ IsInjective(Append(q, r)) => IsInjective(q) /\ r \notin ToSet(q)
    BY AppendFacts
  <2>3. CASE ~Selected(r)
    BY <2>1, <2>2, <2>3 DEF Extend
  <2>4. CASE Selected(r)
    <3>1. View(Append(q, r)) = Append(View(q), r)
      BY <2>1, <2>4 DEF Extend
    <3>2. /\ View(Append(q, r)) \in Seq(S)
          /\ ToSet(View(Append(q, r))) = ToSet(View(q)) \cup {r}
          /\ IsInjective(View(Append(q, r)))
               <=> IsInjective(View(q)) /\ r \notin ToSet(View(q))
      BY <2>1, <3>1, AppendFacts
    <3> QED
      BY <2>1, <2>2, <2>4, <3>2
  <2> QED
    BY <2>3, <2>4
<1> HIDE DEF T
<1>3. Seq(S) \subseteq T
  BY <1>1, <1>2, Growing
<1> QED
  BY <1>3 DEF T

(* A row more at the end of two sequences joined is one more in the second. *)
LEMMA AppendToJoin ==
  ASSUME NEW S, NEW p \in Seq(S), NEW q \in Seq(S), NEW r \in S
  PROVE  p \o Append(q, r) = Append(p \o q, r)
<1>1. p \o q \in Seq(S) /\ <<r>> \in Seq(S)
  BY ConcatProperties
<1>2. Append(p \o q, r) = (p \o q) \o <<r>> /\ Append(q, r) = q \o <<r>>
  BY <1>1, AppendIsConcat
<1>3. (p \o q) \o <<r>> = p \o (q \o <<r>>)
  BY <1>1, ConcatAssociative
<1> QED
  BY <1>2, <1>3

(* The view of a listing in two parts is that of the parts.                *)
LEMMA ViewOfJoin ==
  ASSUME NEW S, NEW p \in Seq(S), NEW q \in Seq(S)
  PROVE  View(p \o q) = View(p) \o View(q)
<1> DEFINE T == { t \in Seq(S) : View(p \o t) = View(p) \o View(t) }
<1>1. <<>> \in T
  <2>1. View(p) \in Seq(S) /\ p \o <<>> = p /\ View(<<>>) = <<>>
    BY ViewFacts, ViewGrows
  <2> HIDE DEF T
  <2>2. View(p) \o <<>> = View(p)
    BY <2>1
  <2> QED
    BY <2>1, <2>2 DEF T
<1>2. ASSUME NEW t \in Seq(S), NEW r \in S, t \in T PROVE Append(t, r) \in T
  <2>1. /\ p \o Append(t, r) = Append(p \o t, r) /\ p \o t \in Seq(S)
        /\ Append(t, r) \in Seq(S)
    BY AppendToJoin, ConcatProperties, AppendProperties
  <2>2. /\ View(p \o Append(t, r)) = Extend(View(p \o t), r)
        /\ View(Append(t, r)) = Extend(View(t), r)
        /\ View(p \o t) = View(p) \o View(t)
    BY <1>2, <2>1, ViewGrows
  <2>3. View(p) \in Seq(S) /\ View(t) \in Seq(S)
    BY ViewFacts
  <2> DEFINE a == View(p)
             b == View(t)
  <2> HIDE DEF a, b
  <2>4. a \o Append(b, r) = Append(a \o b, r)
    <3>1. a \in Seq(S) /\ b \in Seq(S) /\ r \in S
      BY <1>2, <2>3 DEF a, b
    <3> QED
      BY ONLY <3>1, AppendToJoin
  <2> QED
    BY <2>1, <2>2, <2>4 DEF Extend, a, b
<1> HIDE DEF T
<1>3. Seq(S) \subseteq T
  BY <1>1, <1>2, Growing
<1> QED
  BY <1>3 DEF T

(* The first n rows of a view: those a walk that is at offset n has passed. *)
Passed(v, n) == { v[j] : j \in { k \in DOMAIN v : k <= n } }

(* Of v, which has one row more than u: what is passed is at most that row *)
(* more, and one row less.                                                 *)
Shifted(u, v, r, n) ==
    /\ Passed(v, n) \subseteq Passed(u, n) \cup {r}
    /\ \E x : Passed(u, n) \subseteq Passed(v, n) \cup {x}

(* One row more or less in a sequence moves one row at most past a place.  *)
LEMMA OneMore ==
  ASSUME NEW S, NEW p \in Seq(S), NEW q \in Seq(S), NEW r \in S, NEW n \in Nat
  PROVE  /\ p \o <<r>> \o q \in Seq(S) /\ p \o q \in Seq(S)
         /\ ToSet(p \o <<r>> \o q) = ToSet(p \o q) \cup {r}
         /\ IsInjective(p \o <<r>> \o q) <=> IsInjective(p \o q) /\ r \notin ToSet(p \o q)
         /\ Shifted(p \o q, p \o <<r>> \o q, r, n)
<1> DEFINE long == p \o <<r>> \o q
           short == p \o q
           a == Len(p)
           b == Len(q)
<1>1. /\ a \in Nat /\ b \in Nat /\ long \in Seq(S) /\ short \in Seq(S)
      /\ DOMAIN long = 1 .. a + b + 1 /\ DOMAIN short = 1 .. a + b
  OBVIOUS
<1>2. /\ \A j \in 1 .. a : short[j] = p[j] /\ long[j] = p[j]
      /\ \A j \in 1 .. b : short[a + j] = q[j] /\ long[a + 1 + j] = q[j]
      /\ long[a + 1] = r
  <2>1. \A j \in 1 .. a : short[j] = p[j] /\ long[j] = p[j]
    OBVIOUS
  <2>2. \A j \in 1 .. b : short[a + j] = q[j]
    OBVIOUS
  <2>3. \A j \in 1 .. b : long[a + 1 + j] = q[j]
    OBVIOUS
  <2>4. long[a + 1] = r
    OBVIOUS
  <2> QED
    BY <2>1, <2>2, <2>3, <2>4
<1> HIDE DEF long, short, a, b
<1>3. /\ \A j \in 1 .. a : long[j] = short[j]
      /\ \A j \in a + 1 .. a + b : long[j + 1] = short[j]
  <2>1. ASSUME NEW j \in a + 1 .. a + b PROVE long[j + 1] = short[j]
    <3>1. j - a \in 1 .. b /\ a + (j - a) = j /\ a + 1 + (j - a) = j + 1
      BY <1>1
    <3> QED
      BY <1>2, <3>1
  <2> QED
    BY <1>1, <1>2, <2>1
<1>4. \A j \in 1 .. a + b : IF j <= a THEN long[j] = short[j] ELSE long[j + 1] = short[j]
  <2>1. ASSUME NEW j \in 1 .. a + b, j <= a PROVE long[j] = short[j]
    <3>1. j \in 1 .. a
      BY <1>1, <2>1
    <3> QED
      BY <1>3, <3>1
  <2>2. ASSUME NEW j \in 1 .. a + b, ~(j <= a) PROVE long[j + 1] = short[j]
    <3>1. j \in a + 1 .. a + b
      BY <1>1, <2>2
    <3> QED
      BY <1>3, <3>1
  <2> QED
    BY <2>1, <2>2
<1>5. ASSUME NEW i \in 1 .. a + b + 1, i # a + 1
      PROVE  \E j \in 1 .. a + b : /\ long[i] = short[j] /\ j <= i
                                   /\ i = IF j <= a THEN j ELSE j + 1
  <2>1. CASE i <= a
    BY <1>1, <1>3, <2>1
  <2>2. CASE i > a + 1
    <3>1. i - 1 \in a + 1 .. a + b /\ (i - 1) + 1 = i /\ i - 1 \in 1 .. a + b
      BY <1>1, <2>2
    <3>2. long[i] = short[i - 1]
      BY <1>3, <3>1
    <3>3. i - 1 <= i /\ ~(i - 1 <= a)
      BY <1>1, <2>2
    <3> QED
      BY <3>1, <3>2, <3>3
  <2> QED
    BY <1>1, <1>5, <2>1, <2>2
<1>6. ASSUME NEW j \in 1 .. a + b
      PROVE  \E i \in 1 .. a + b + 1 : /\ long[i] = short[j] /\ i # a + 1
                                       /\ i = IF j <= a THEN j ELSE j + 1
  <2>1. CASE j <= a
    BY <1>1, <1>3, <2>1
  <2>2. CASE ~(j <= a)
    BY <1>1, <1>3, <2>2
  <2> QED
    BY <2>1, <2>2
<1>7. a + 1 \in 1 .. a + b + 1
  BY <1>1
<1>8. ToSet(long) = ToSet(short) \cup {r}
  <2>1. ASSUME NEW x \in ToSet(long) PROVE x \in ToSet(short) \cup {r}
    <3>1. PICK i \in 1 .. a + b + 1 : long[i] = x
      BY <1>1, <2>1 DEF ToSet
    <3>2. CASE i = a + 1
      BY <1>2, <3>1, <3>2
    <3>3. CASE i # a + 1
      <4>1. PICK j \in 1 .. a + b : long[i] = short[j]
        BY <1>5, <3>3
      <4> QED
        BY <1>1, <3>1, <4>1 DEF ToSet
    <3> QED
      BY <3>2, <3>3
  <2>2. ASSUME NEW x \in ToSet(short) PROVE x \in ToSet(long)
    BY <1>1, <1>6 DEF ToSet
  <2>3. r \in ToSet(long)
    BY <1>1, <1>2, <1>7 DEF ToSet
  <2> QED
    BY <2>1, <2>2, <2>3
<1>9. ASSUME IsInjective(long) PROVE IsInjective(short) /\ r \notin ToSet(short)
  <2>1. ASSUME NEW j \in 1 .. a + b, NEW k \in 1 .. a + b, short[j] = short[k] PROVE j = k
    <3>1. PICK i \in 1 .. a + b + 1 : /\ long[i] = short[j]
                                      /\ i = IF j <= a THEN j ELSE j + 1
      BY <1>6
    <3>2. PICK l \in 1 .. a + b + 1 : /\ long[l] = short[k]
                                      /\ l = IF k <= a THEN k ELSE k + 1
      BY <1>6
    <3>3. i = l
      BY <1>1, <1>9, <2>1, <3>1, <3>2 DEF IsInjective
    <3> QED
      BY <1>1, <3>1, <3>2, <3>3
  <2>2. ASSUME NEW j \in 1 .. a + b PROVE short[j] # r
    <3>1. PICK i \in 1 .. a + b + 1 : long[i] = short[j] /\ i # a + 1
      BY <1>6
    <3> QED
      BY <1>1, <1>2, <1>7, <1>9, <3>1 DEF IsInjective
  <2> QED
    BY <1>1, <2>1, <2>2 DEF IsInjective, ToSet
<1>10. ASSUME IsInjective(short), r \notin ToSet(short) PROVE IsInjective(long)
  <2> SUFFICES ASSUME NEW i \in 1 .. a + b + 1, NEW l \in 1 .. a + b + 1, long[i] = long[l]
               PROVE  i = l
    BY <1>1 DEF IsInjective
  <2>1. ASSUME NEW k \in 1 .. a + b + 1, k # a + 1 PROVE long[k] # r
    BY <1>1, <1>5, <1>10, <2>1 DEF ToSet
  <2>2. CASE i = a + 1 \/ l = a + 1
    BY <1>2, <2>1, <2>2
  <2>3. CASE i # a + 1 /\ l # a + 1
    <3>1. PICK j \in 1 .. a + b : long[i] = short[j] /\ i = IF j <= a THEN j ELSE j + 1
      BY <1>5, <2>3
    <3>2. PICK k \in 1 .. a + b : long[l] = short[k] /\ l = IF k <= a THEN k ELSE k + 1
      BY <1>5, <2>3
    <3>3. j = k
      BY <1>1, <1>10, <3>1, <3>2 DEF IsInjective
    <3> QED
      BY <3>1, <3>2, <3>3
  <2> QED
    BY <2>2, <2>3
<1>11. Passed(long, n) \subseteq Passed(short, n) \cup {r}
  <2> SUFFICES ASSUME NEW i \in 1 .. a + b + 1, i <= n, i # a + 1
               PROVE  long[i] \in Passed(short, n)
    BY <1>1, <1>2 DEF Passed
  <2>1. PICK j \in 1 .. a + b : long[i] = short[j] /\ j <= i
    BY <1>5
  <2>2. j <= n
    BY <1>1, <2>1
  <2> QED
    BY <1>1, <2>1, <2>2 DEF Passed
<1>12. Passed(short, n) \subseteq Passed(long, n) \cup {short[n]}
  <2> SUFFICES ASSUME NEW j \in 1 .. a + b, j <= n, j # n
               PROVE  short[j] \in Passed(long, n)
    BY <1>1 DEF Passed
  <2>1. PICK i \in 1 .. a + b + 1 : long[i] = short[j] /\ i = IF j <= a THEN j ELSE j + 1
    BY <1>6
  <2>2. i <= n
    BY <1>1, <2>1
  <2> QED
    BY <1>1, <2>1, <2>2 DEF Passed
<1>13. Shifted(short, long, r, n)
  BY <1>11, <1>12 DEF Shifted
<1> QED
  BY <1>1, <1>8, <1>9, <1>10, <1>13 DEF long, short

(* What a new row, or one row less, does to a listing and to what a walk   *)
(* of it has passed.                                                       *)
Moved(s, t, r, n) == Shifted(View(s), View(t), r, n)

(* One row more in a listing is one row more at most in its view.          *)
LEMMA OneRowMore ==
  ASSUME NEW S, NEW p \in Seq(S), NEW q \in Seq(S), NEW r \in S, NEW n \in Nat
  PROVE  Moved(p \o q, p \o <<r>> \o q, r, n)
<1>1. /\ View(p) \in Seq(S) /\ View(q) \in Seq(S) /\ <<r>> \in Seq(S)
      /\ p \o <<r>> \in Seq(S)
  BY ViewFacts
<1>2. View(p \o q) = View(p) \o View(q) /\ View(p \o <<r>> \o q) = View(p \o <<r>>) \o View(q)
  BY <1>1, ViewOfJoin
<1>3. View(p \o <<r>>) = View(p) \o View(<<r>>)
  BY <1>1, ViewOfJoin
<1>4. View(<<r>>) = Extend(<<>>, r)
  <2>1. <<>> \in Seq(S) /\ Append(<<>>, r) = <<r>>
    OBVIOUS
  <2> QED
    BY <2>1, ViewGrows
<1>5. CASE Selected(r)
  <2>1. View(<<r>>) = <<r>>
    BY <1>4, <1>5 DEF Extend
  <2> DEFINE a == View(p)
             b == View(q)
  <2> HIDE DEF a, b
  <2>2. a \in Seq(S) /\ b \in Seq(S)
    BY <1>1 DEF a, b
  <2>3. Shifted(a \o b, a \o <<r>> \o b, r, n)
    BY <2>2, OneMore
  <2>4. View(p \o q) = a \o b /\ View(p \o <<r>> \o q) = a \o <<r>> \o b
    BY <1>2, <1>3, <2>1 DEF a, b
  <2> QED
    BY <2>3, <2>4 DEF Moved
<1>6. CASE ~Selected(r)
  <2>1. View(<<r>>) = <<>> /\ View(p) \in Seq(S)
    BY <1>1, <1>4, <1>6 DEF Extend
  <2>2. View(p) \o <<>> = View(p)
    BY <2>1, ConcatEmptySeq
  <2> QED
    BY <1>2, <1>3, <2>1, <2>2 DEF Moved, Shifted
<1> QED
  BY <1>5, <1>6

(* What InsertAt does to a listing.                                        *)
LEMMA InsertFacts ==
  ASSUME NEW S, NEW s \in Seq(S), NEW r \in S, NEW i \in 1 .. Len(s) + 1,
         IsInjective(s), r \notin ToSet(s), NEW n \in Nat
  PROVE  /\ InsertAt(s, i, r) \in Seq(S) /\ IsInjective(InsertAt(s, i, r))
         /\ ToSet(InsertAt(s, i, r)) = ToSet(s) \cup {r}
         /\ Moved(s, InsertAt(s, i, r), r, n)
<1> DEFINE p == SubSeq(s, 1, i - 1)
           q == SubSeq(s, i, Len(s))
<1>1. p \in Seq(S) /\ q \in Seq(S) /\ p \o q = s
  <2>1. /\ 1 \in 1 .. Len(s) + 1 /\ i - 1 \in 1 - 1 .. Len(s) /\ Len(s) \in i - 1 .. Len(s)
        /\ (i - 1) + 1 = i
    OBVIOUS
  <2>2. SubSeq(s, 1, i - 1) \o SubSeq(s, (i - 1) + 1, Len(s)) = SubSeq(s, 1, Len(s))
    BY <2>1, ConcatAdjacentSubSeq
  <2>3. SubSeq(s, 1, Len(s)) = s
    BY SubSeqFull
  <2>4. p \in Seq(S) /\ q \in Seq(S)
    OBVIOUS
  <2>5. SubSeq(s, (i - 1) + 1, Len(s)) = q
    BY <2>1
  <2>6. p \o q = s
    BY <2>2, <2>3, <2>5, Zenon
  <2> QED
    BY <2>4, <2>6, Zenon
<1>2. InsertAt(s, i, r) = p \o <<r>> \o q
  BY DEF InsertAt
<1> HIDE DEF p, q
<1>3. /\ p \o <<r>> \o q \in Seq(S) /\ ToSet(p \o <<r>> \o q) = ToSet(p \o q) \cup {r}
      /\ IsInjective(p \o <<r>> \o q) <=> IsInjective(p \o q) /\ r \notin ToSet(p \o q)
      /\ Shifted(p \o q, p \o <<r>> \o q, r, n)
  <2>1. p \in Seq(S) /\ q \in Seq(S) /\ r \in S /\ n \in Nat
    BY <1>1
  <2> QED
    BY ONLY <2>1, OneMore
<1>4. Moved(p \o q, p \o <<r>> \o q, r, n)
  BY <1>1, OneRowMore
<1> QED
  BY <1>1, <1>2, <1>3, <1>4, Zenon

(* What RemoveAt does to a listing.                                        *)
LEMMA RemoveFacts ==
  ASSUME NEW S, NEW s \in Seq(S), NEW i \in DOMAIN s, IsInjective(s), NEW n \in Nat
  PROVE  /\ RemoveAt(s, i) \in Seq(S) /\ IsInjective(RemoveAt(s, i))
         /\ ToSet(RemoveAt(s, i)) = ToSet(s) \ {s[i]}
         /\ Moved(RemoveAt(s, i), s, s[i], n)
<1> DEFINE p == SubSeq(s, 1, i - 1)
           q == SubSeq(s, i + 1, Len(s))
           r == s[i]
<1>1. p \in Seq(S) /\ q \in Seq(S) /\ r \in S /\ p \o <<r>> \o q = s
  <2>1. /\ 1 \in 1 .. Len(s) + 1 /\ i \in 1 - 1 .. Len(s) /\ Len(s) \in i .. Len(s)
        /\ 1 \in 1 .. Len(s) /\ i \in 1 .. Len(s)
    OBVIOUS
  <2>2. p \o <<r>> = SubSeq(s, 1, i)
    BY <2>1, SubSeqRecursiveSecond
  <2>3. SubSeq(s, 1, i) \o q = SubSeq(s, 1, Len(s))
    BY <2>1, ConcatAdjacentSubSeq
  <2>4. SubSeq(s, 1, Len(s)) = s
    BY SubSeqFull
  <2>5. p \in Seq(S) /\ q \in Seq(S) /\ r \in S
    OBVIOUS
  <2> QED
    BY <2>2, <2>3, <2>4, <2>5
<1>2. RemoveAt(s, i) = p \o q
  BY DEF RemoveAt
<1> HIDE DEF p, q, r
<1>3. /\ p \o q \in Seq(S) /\ ToSet(p \o <<r>> \o q) = ToSet(p \o q) \cup {r}
      /\ IsInjective(p \o <<r>> \o q) <=> IsInjective(p \o q) /\ r \notin ToSet(p \o q)
      /\ Shifted(p \o q, p \o <<r>> \o q, r, n)
  BY ONLY <1>1, OneMore, n \in Nat
<1>4. Moved(p \o q, p \o <<r>> \o q, r, n)
  BY <1>1, OneRowMore
<1>5. r = s[i]
  BY DEF r
<1> QED
  BY <1>1, <1>2, <1>3, <1>4, <1>5

(* A sequence has finitely many rows, and without repetition its length.   *)
LEMMA SeqCount ==
  ASSUME NEW S, NEW s \in Seq(S)
  PROVE  /\ IsFiniteSet(ToSet(s)) /\ Cardinality(ToSet(s)) \in Nat
         /\ IsInjective(s) => Cardinality(ToSet(s)) = Len(s)
<1> DEFINE T == { q \in Seq(S) : /\ IsFiniteSet(ToSet(q))
                                 /\ IsInjective(q) => Cardinality(ToSet(q)) = Len(q) }
<1>1. <<>> \in T
  <2>1. ToSet(<<>>) = {} /\ <<>> \in Seq(S) /\ Len(<<>>) = 0
    BY DEF ToSet
  <2> QED
    BY <2>1, FS_EmptySet
<1>2. ASSUME NEW q \in Seq(S), NEW r \in S, q \in T PROVE Append(q, r) \in T
  <2>1. IsFiniteSet(ToSet(q)) /\ (IsInjective(q) => Cardinality(ToSet(q)) = Len(q))
    BY <1>2
  <2>2. /\ IsFiniteSet(ToSet(q) \cup {r})
        /\ r \notin ToSet(q) => Cardinality(ToSet(q) \cup {r}) = Cardinality(ToSet(q)) + 1
    BY <2>1, FS_AddElement
  <2>3. /\ Append(q, r) \in Seq(S) /\ Len(Append(q, r)) = Len(q) + 1
        /\ ToSet(Append(q, r)) = ToSet(q) \cup {r}
        /\ IsInjective(Append(q, r)) => IsInjective(q) /\ r \notin ToSet(q)
    BY AppendFacts
  <2> HIDE DEF T
  <2>4. /\ IsFiniteSet(ToSet(Append(q, r)))
        /\ IsInjective(Append(q, r)) => Cardinality(ToSet(Append(q, r))) = Len(Append(q, r))
    BY <2>1, <2>2, <2>3
  <2> QED
    BY <2>3, <2>4 DEF T
<1> HIDE DEF T
<1>3. Seq(S) \subseteq T
  BY <1>1, <1>2, Growing
<1> QED
  BY <1>3, FS_CardinalityType DEF T

(* The view after a step is the view of the listing after it.              *)
LEMMA SameSearch ==
  ASSUME search' = search
  PROVE  View(collection)' = View(collection')
  BY DEF View, Selected

(* The rows of a sequence in two parts are those of the parts.             *)
LEMMA ToSetConcat ==
  ASSUME NEW S, NEW p \in Seq(S), NEW q \in Seq(S)
  PROVE  ToSet(p \o q) = ToSet(p) \cup ToSet(q)
<1> DEFINE a == Len(p)
           b == Len(q)
           w == p \o q
<1>1. /\ a \in Nat /\ b \in Nat /\ DOMAIN p = 1 .. a /\ DOMAIN q = 1 .. b
      /\ DOMAIN w = 1 .. a + b
      /\ \A i \in 1 .. a : w[i] = p[i]
      /\ \A i \in 1 .. b : w[a + i] = q[i]
  OBVIOUS
<1> HIDE DEF a, b, w
<1>2. /\ \A i \in 1 .. a : i \in 1 .. a + b
      /\ \A i \in 1 .. b : a + i \in 1 .. a + b
      /\ \A i \in 1 .. a + b : i \in 1 .. a \/ \E j \in 1 .. b : i = a + j
  <2>1. ASSUME NEW i \in 1 .. a + b, i \notin 1 .. a PROVE \E j \in 1 .. b : i = a + j
    <3>1. i - a \in 1 .. b /\ i = a + (i - a)
      BY <1>1, <2>1
    <3> QED
      BY <3>1
  <2> QED
    BY <1>1, <2>1
<1>3. ToSet(w) = ToSet(p) \cup ToSet(q)
  <2>1. ASSUME NEW x \in ToSet(w) PROVE x \in ToSet(p) \cup ToSet(q)
    <3>1. PICK i \in 1 .. a + b : w[i] = x
      BY <1>1, <2>1 DEF ToSet
    <3> QED
      BY <1>1, <1>2, <3>1 DEF ToSet
  <2>2. ToSet(p) \subseteq ToSet(w) /\ ToSet(q) \subseteq ToSet(w)
    BY <1>1, <1>2 DEF ToSet
  <2> QED
    BY <2>1, <2>2
<1> QED
  BY <1>3 DEF w

(* One element more counts one more at most.                               *)
LEMMA OneElement ==
  ASSUME NEW A, IsFiniteSet(A), NEW B, NEW x, B \subseteq A \cup {x}
  PROVE  IsFiniteSet(B) /\ Cardinality(B) <= Cardinality(A) + 1
<1>1. IsFiniteSet(A \cup {x}) /\ Cardinality(A \cup {x}) <= Cardinality(A) + 1
  <2>1. Cardinality(A) \in Nat
    BY FS_CardinalityType
  <2>2. /\ IsFiniteSet(A \cup {x})
        /\ Cardinality(A \cup {x}) = IF x \in A THEN Cardinality(A) ELSE Cardinality(A) + 1
    BY FS_AddElement
  <2> QED
    BY <2>1, <2>2
<1>2. IsFiniteSet(B) /\ Cardinality(B) <= Cardinality(A \cup {x})
  BY <1>1, FS_Subset
<1> QED
  BY <1>1, <1>2, FS_CardinalityType

(* What a page I brings of what is listed (A) and not passed (P): those that *)
(* the walk (G) has already are no longer ahead.                           *)
Balanced(G, A, P, I) ==
    Cardinality(I) + Cardinality(((G \cup I) \cap A) \ (P \cup I)) + Cardinality(G)
      = Cardinality((G \cap A) \ P) + Cardinality(G \cup I)

LEMMA PageCounts ==
  ASSUME NEW G, IsFiniteSet(G), NEW A, NEW P, NEW I, IsFiniteSet(I),
         I \subseteq A, I \cap P = {}
  PROVE  Balanced(G, A, P, I)
<1> DEFINE X == (G \cap A) \ P
           Y == ((G \cup I) \cap A) \ (P \cup I)
<1>1. IsFiniteSet(X) /\ IsFiniteSet(G \cap I)
  <2>1. X \in SUBSET G /\ G \cap I \in SUBSET G
    OBVIOUS
  <2> QED
    BY <2>1, FS_Subset
<1>2. Y = X \ I /\ X \cap I = G \cap I
  OBVIOUS
<1> HIDE DEF X, Y
<1>3. IsFiniteSet(Y) /\ Cardinality(Y) = Cardinality(X) - Cardinality(G \cap I)
  BY <1>1, <1>2, FS_Difference
<1>4. Cardinality(G \cup I) = Cardinality(G) + Cardinality(I) - Cardinality(G \cap I)
  BY FS_Union
<1>5. /\ Cardinality(X) \in Nat /\ Cardinality(G) \in Nat /\ Cardinality(I) \in Nat
      /\ Cardinality(G \cap I) \in Nat
  BY <1>1, FS_CardinalityType
<1> QED
  BY <1>3, <1>4, <1>5 DEF X, Y, Balanced

(* A page: rows of the view, none of those passed, and all that are passed *)
(* with it.                                                                *)
LEMMA ShownFacts ==
  ASSUME NEW S, NEW v \in Seq(S), IsInjective(v), offset \in Nat, limit \in Nat \ {0}
  PROVE  /\ Shown(v) \in Seq(S) /\ IsInjective(Shown(v))
         /\ ToSet(Shown(v)) \subseteq ToSet(v)
         /\ ToSet(Shown(v)) \cap Passed(v, offset) = {}
         /\ Passed(v, offset + Len(Shown(v))) = Passed(v, offset) \cup ToSet(Shown(v))
         /\ Shown(v) = <<>> \/ offset + Len(Shown(v)) >= Len(v)
              => Passed(v, offset) \cup ToSet(Shown(v)) = ToSet(v)
<1> DEFINE hi == IF offset + limit <= Len(v) THEN offset + limit ELSE Len(v)
           t == Shown(v)
           n == Len(t)
<1>1. t = SubSeq(v, offset + 1, hi)
  BY DEF Shown
<1>2. /\ Len(v) \in Nat /\ hi \in Nat /\ DOMAIN v = 1 .. Len(v)
      /\ hi <= Len(v)
      /\ offset < Len(v) => offset < hi
  OBVIOUS
<1> HIDE DEF hi, t
<1>3. /\ t \in Seq(S) /\ n \in Nat /\ DOMAIN t = 1 .. n
      /\ \A i \in 1 .. n : t[i] = v[offset + i]
      /\ n = 0 \/ offset + n = hi
      /\ offset < hi => n = hi - offset
  BY <1>1, <1>2
<1>4. \A i \in 1 .. n : offset + i \in 1 .. Len(v) /\ ~(offset + i <= offset)
  BY <1>2, <1>3
<1>5. \A j \in 1 .. Len(v) : j <= offset + n <=> j <= offset \/ \E i \in 1 .. n : j = offset + i
  <2> SUFFICES ASSUME NEW j \in 1 .. Len(v)
               PROVE  j <= offset + n <=> j <= offset \/ \E i \in 1 .. n : j = offset + i
    OBVIOUS
  <2>1. CASE j <= offset
    BY <1>2, <1>3, <2>1
  <2>2. CASE ~(j <= offset)
    <3>1. j - offset \in Nat \ {0} /\ j = offset + (j - offset)
      BY <1>2, <2>2
    <3>2. j <= offset + n => j - offset \in 1 .. n
      BY <1>2, <1>3, <3>1
    <3> QED
      BY <1>2, <1>3, <2>2, <3>1, <3>2
  <2> QED
    BY <2>1, <2>2
<1>6. IsInjective(t)
  <2>1. \A i, k \in 1 .. n : t[i] = t[k] => offset + i = offset + k
    BY <1>2, <1>3, <1>4 DEF IsInjective
  <2> QED
    BY <1>3, <2>1 DEF IsInjective
<1>7. ToSet(t) = { v[offset + i] : i \in 1 .. n }
  BY <1>3 DEF ToSet
<1>8. ToSet(t) \subseteq ToSet(v)
  BY <1>2, <1>4, <1>7 DEF ToSet
<1>9. ToSet(t) \cap Passed(v, offset) = {}
  BY <1>2, <1>4, <1>7 DEF Passed, IsInjective
<1>10. Passed(v, offset + n) = Passed(v, offset) \cup ToSet(t)
  BY <1>2, <1>4, <1>5, <1>7 DEF Passed
<1>11. ASSUME t = <<>> \/ offset + n >= Len(v)
       PROVE  Passed(v, offset + n) = ToSet(v)
  <2>1. offset + n >= Len(v)
    BY <1>2, <1>3, <1>11
  <2>2. \A j \in 1 .. Len(v) : j <= offset + n
    BY <1>2, <1>3, <2>1
  <2> QED
    BY <1>2, <2>2 DEF Passed, ToSet
<1> QED
  BY <1>3, <1>6, <1>8, <1>9, <1>10, <1>11 DEF t

-----------------------------------------------------------------------------
Open == pc["list_all"] \in {"sent", "refreshing"}

(* The rows asked for that the server has, and those a walk has passed.    *)
Listed == ToSet(View(collection))
Behind == Passed(View(collection), offset)

(* Rows are listed once, a new one is none of them.                        *)
ListInv ==
    /\ collection \in Seq(Rows) /\ IsInjective(collection)
    /\ ToSet(collection) \subseteq 1 .. MaxRows \cup made
    /\ made \subseteq Mine \cup Others
    /\ limit \in Nat \ {0} /\ offset \in Nat /\ inserted \in Nat /\ deleted \in Nat
    /\ out \in Seq(Rows) /\ ToSet(out) \subseteq 1 .. MaxRows \cup made
    /\ search => ToSet(out) \subseteq Matching

(* Of the rows passed, deletions cost one each; of those ahead, insertions *)
(* will repeat one each.                                                   *)
BoundInv ==
    /\ throughout \subseteq Listed
    /\ Cardinality((throughout \ ToSet(out)) \cap Behind) <= deleted
    /\ Len(out) + Cardinality((ToSet(out) \cap Listed) \ Behind)
         <= inserted + Cardinality(ToSet(out))

EndInv ==
    /\ Cardinality(throughout \ ToSet(out)) <= deleted
    /\ Len(out) <= inserted + Cardinality(ToSet(out))

WalkInv ==
    /\ pc["list_all"] = "called" => offset = 0 /\ out = <<>>
    /\ pc["list_all"] # "done" => result["list_all"] = "none"
    /\ Open => BoundInv
    /\ Walked => EndInv

(* What is listed, and that it can be counted.                             *)
LEMMA ListFacts ==
  ASSUME ListInv
  PROVE  /\ View(collection) \in Seq(Rows) /\ IsInjective(View(collection))
         /\ Listed = { r \in ToSet(collection) : Selected(r) }
         /\ IsFiniteSet(Listed) /\ IsFiniteSet(ToSet(out))
         /\ Cardinality(ToSet(out)) \in Nat
         /\ Behind \subseteq Listed
<1>1. /\ View(collection) \in Seq(Rows) /\ IsInjective(View(collection))
      /\ Listed = { r \in ToSet(collection) : Selected(r) }
  BY ViewFacts DEF ListInv, Listed
<1>2. IsFiniteSet(Listed) /\ IsFiniteSet(ToSet(out)) /\ Cardinality(ToSet(out)) \in Nat
  BY <1>1, SeqCount DEF ListInv, Listed
<1>3. Behind \subseteq Listed
  BY DEF Behind, Listed, Passed, ToSet
<1> QED
  BY <1>1, <1>2, <1>3

(* The two sets that are counted are finite.                               *)
LEMMA CountedFinite ==
  ASSUME ListInv, throughout \subseteq Listed
  PROVE  /\ IsFiniteSet((throughout \ ToSet(out)) \cap Behind)
         /\ IsFiniteSet((ToSet(out) \cap Listed) \ Behind)
<1>1. /\ (throughout \ ToSet(out)) \cap Behind \in SUBSET Listed
      /\ (ToSet(out) \cap Listed) \ Behind \in SUBSET Listed
  OBVIOUS
<1> QED
  BY <1>1, ListFacts, FS_Subset

(* It holds at first.                                                      *)
LEMMA InitWalk == Init => ListInv /\ WalkInv
<1> SUFFICES ASSUME Init PROVE ListInv /\ WalkInv
  OBVIOUS
<1>1. PICK n \in 0 .. MaxRows : collection = [i \in 1 .. n |-> i]
  BY DEF Init
<1>2. n \in Nat /\ 1 .. n \subseteq 1 .. MaxRows
  BY RowsAssumption
<1>3. \A i \in 1 .. n : i \in Rows
  BY <1>2 DEF Rows
<1>4. collection \in Seq(Rows)
  BY <1>1, <1>2, <1>3
<1>5. IsInjective(collection) /\ ToSet(collection) \subseteq 1 .. MaxRows
  BY <1>1, <1>2 DEF IsInjective, ToSet
<1>6. out \in Seq(Rows) /\ ToSet(out) = {}
  BY DEF Init, ToSet
<1>7. limit \in Nat \ {0}
  BY RowsAssumption DEF Init
<1>8. ListInv
  BY <1>4, <1>5, <1>6, <1>7 DEF Init, ListInv
<1>9. WalkInv
  BY DEF Init, WalkInv, Open, Walked, Calls
<1> QED
  BY <1>8, <1>9

-----------------------------------------------------------------------------
(* A step that touches neither the listing nor the walk.                   *)
Aside ==
    /\ UNCHANGED <<collection, search, limit, walk, made, history>>
    /\ Open' => Open
    /\ pc'["list_all"] = "called" => pc["list_all"] = "called"
    /\ pc'["list_all"] # "done" => result'["list_all"] = "none"
    /\ result'["list_all"] = "ok" => Walked

(* Such a step keeps the invariant.                                        *)
LEMMA AsideWalk == ListInv /\ WalkInv /\ Aside => ListInv' /\ WalkInv'
<1> SUFFICES ASSUME ListInv, WalkInv, Aside PROVE ListInv' /\ WalkInv'
  OBVIOUS
<1>1. /\ collection' = collection /\ search' = search /\ limit' = limit
      /\ offset' = offset /\ out' = out /\ made' = made
      /\ throughout' = throughout /\ inserted' = inserted /\ deleted' = deleted
  BY DEF Aside, walk, history
<1>2. View(collection)' = View(collection)
  BY <1>1, SameSearch
<1>3. Listed' = Listed /\ Behind' = Behind
  BY <1>1, <1>2 DEF Listed, Behind
<1>4. ListInv'
  BY <1>1 DEF ListInv
<1>5. (BoundInv => BoundInv') /\ (EndInv => EndInv')
  BY <1>1, <1>3 DEF BoundInv, EndInv
<1>6. Walked' <=> result'["list_all"] = "ok"
  BY DEF Walked
<1> QED
  BY <1>1, <1>4, <1>5, <1>6 DEF WalkInv, Aside

(* At the start nothing is behind, and nothing was taken.                  *)
LEMMA BeginWalk ==
  ASSUME ListInv, WalkInv, CallInv, Begin("list_all")
  PROVE  ListInv' /\ WalkInv'
<1>1. /\ collection' = collection /\ search' = search /\ limit' = limit
      /\ offset' = offset /\ out' = out /\ made' = made
      /\ throughout' = Listed /\ inserted' = 0 /\ deleted' = 0
      /\ pc["list_all"] = "called" /\ pc'["list_all"] = "sent" /\ result' = result
  BY DEF Begin, Sends, walk, config, CallInv, Calls, Listed
<1>2. offset = 0 /\ out = <<>> /\ result["list_all"] = "none"
  BY <1>1 DEF WalkInv
<1>3. View(collection)' = View(collection)
  BY <1>1, SameSearch
<1>4. Listed' = Listed /\ Behind' = Behind
  BY <1>1, <1>3 DEF Listed, Behind
<1>5. ToSet(out) = {} /\ Len(out) = 0 /\ Behind = {}
  <2>1. DOMAIN View(collection) = 1 .. Len(View(collection))
    BY ListFacts
  <2>2. Behind = {}
    BY <1>2, <2>1 DEF Behind, Passed
  <2> QED
    BY <1>2, <2>2 DEF ToSet
<1>6. ListInv'
  BY <1>1 DEF ListInv
<1>7. BoundInv'
  BY <1>1, <1>4, <1>5, FS_EmptySet DEF BoundInv
<1> QED
  BY <1>1, <1>2, <1>6, <1>7 DEF WalkInv, Walked

(* A page: it moves rows from ahead to behind, and takes them along.       *)
LEMMA PageWalk ==
  ASSUME ListInv, WalkInv, CallInv, NEW excess \in {0, 1}, Page(excess)
  PROVE  ListInv' /\ WalkInv'
<1> DEFINE V == View(collection)
           I == ToSet(Items)
           G == ToSet(out)
<1>1. /\ collection' = collection /\ search' = search /\ limit' = limit /\ made' = made
      /\ throughout' = throughout /\ inserted' = inserted /\ deleted' = deleted
      /\ out' = out \o Items /\ pc["list_all"] = "sent"
  BY DEF Page, history, config
<1>2. V' = V /\ Listed' = Listed
  BY <1>1, SameSearch DEF Listed
<1>3. BoundInv /\ result["list_all"] = "none"
  BY <1>1 DEF WalkInv, Open
<1>4. /\ Items \in Seq(Rows) /\ IsInjective(Items) /\ I \subseteq Listed /\ I \cap Behind = {}
      /\ Passed(V, offset + Len(Items)) = Behind \cup I
      /\ Items = <<>> \/ offset + Len(Items) >= Len(V) => Behind \cup I = Listed
  BY ListFacts, ShownFacts DEF ListInv, Items, Behind, Listed
<1>5. IsFiniteSet(I) /\ Cardinality(I) \in Nat /\ Cardinality(I) = Len(Items)
  BY <1>4, SeqCount
<1>6. /\ out \in Seq(Rows) /\ Len(out) \in Nat /\ Len(Items) \in Nat
      /\ out' \in Seq(Rows) /\ Len(out') = Len(out) + Len(Items) /\ ToSet(out') = G \cup I
  <2>1. out \in Seq(Rows)
    BY DEF ListInv
  <2>2. Len(out) \in Nat /\ Len(Items) \in Nat /\ out \o Items \in Seq(Rows)
        /\ Len(out \o Items) = Len(out) + Len(Items)
    BY <1>4, <2>1
  <2>3. ToSet(out \o Items) = G \cup I
    BY <1>4, <2>1, ToSetConcat
  <2> QED
    BY <1>1, <2>1, <2>2, <2>3
<1>7. /\ IsFiniteSet(G) /\ IsFiniteSet((throughout \ G) \cap Behind)
      /\ IsFiniteSet((G \cap Listed) \ Behind) /\ IsFiniteSet(G \cup I)
  BY <1>3, <1>5, ListFacts, CountedFinite, FS_Union DEF BoundInv
<1>8. /\ Cardinality(I) + Cardinality(((G \cup I) \cap Listed) \ (Behind \cup I)) + Cardinality(G)
           = Cardinality((G \cap Listed) \ Behind) + Cardinality(G \cup I)
  <2> HIDE DEF I, G
  <2>1. IsFiniteSet(G) /\ IsFiniteSet(I) /\ I \subseteq Listed /\ I \cap Behind = {}
    BY <1>4, <1>5, <1>7
  <2>2. Balanced(G, Listed, Behind, I)
    BY ONLY <2>1, PageCounts
  <2> QED
    BY <2>2 DEF Balanced
<1>9. /\ (throughout \ (G \cup I)) \cap (Behind \cup I) \in SUBSET ((throughout \ G) \cap Behind)
      /\ ((G \cup I) \cap Listed) \ (Behind \cup I) \in SUBSET (G \cup I)
  OBVIOUS
<1>10. /\ Cardinality((throughout \ (G \cup I)) \cap (Behind \cup I)) \in Nat
       /\ Cardinality((throughout \ (G \cup I)) \cap (Behind \cup I))
            <= Cardinality((throughout \ G) \cap Behind)
       /\ Cardinality((throughout \ G) \cap Behind) \in Nat
       /\ Cardinality(G) \in Nat /\ Cardinality(G \cup I) \in Nat
       /\ Cardinality((G \cap Listed) \ Behind) \in Nat
       /\ Cardinality(((G \cup I) \cap Listed) \ (Behind \cup I)) \in Nat
  BY <1>7, <1>9, FS_Subset, FS_CardinalityType
<1>11. /\ Cardinality((throughout \ (G \cup I)) \cap (Behind \cup I)) <= deleted
       /\ Len(out') + Cardinality(((G \cup I) \cap Listed) \ (Behind \cup I))
            <= inserted + Cardinality(G \cup I)
  <2>1. deleted \in Nat /\ inserted \in Nat
    BY DEF ListInv
  <2>2. /\ Cardinality((throughout \ G) \cap Behind) <= deleted
        /\ Len(out) + Cardinality((G \cap Listed) \ Behind) <= inserted + Cardinality(G)
    BY <1>3 DEF BoundInv
  <2> HIDE DEF I, G
  <2>3. Cardinality((throughout \ (G \cup I)) \cap (Behind \cup I)) <= deleted
    BY <1>10, <2>1, <2>2
  <2>4. Len(out') + Cardinality(((G \cup I) \cap Listed) \ (Behind \cup I))
          <= inserted + Cardinality(G \cup I)
    <3> DEFINE x == Cardinality(((G \cup I) \cap Listed) \ (Behind \cup I))
               y == Cardinality((G \cap Listed) \ Behind)
               u == Cardinality(G \cup I)
               g == Cardinality(G)
               i == Cardinality(I)
    <3>1. /\ x \in Nat /\ y \in Nat /\ u \in Nat /\ g \in Nat /\ i \in Nat
          /\ i + x + g = y + u /\ Len(out') = Len(out) + i /\ Len(out) + y <= inserted + g
          /\ Len(out) \in Nat /\ inserted \in Nat
      BY <1>5, <1>6, <1>8, <1>10, <2>1, <2>2
    <3> HIDE DEF x, y, u, g, i
    <3>2. Len(out') + x <= inserted + u
      BY <3>1
    <3> QED
      BY <3>2 DEF x, u
  <2> QED
    BY <2>3, <2>4
<1>12. offset' \in Nat
  <2>1. offset' = offset \/ offset' = offset + Len(Items)
    BY DEF Page, NextOffset
  <2>2. offset \in Nat /\ Len(Items) \in Nat
    BY <1>6 DEF ListInv
  <2> QED
    BY <2>1, <2>2
<1>13. ListInv'
  <2>1. I \subseteq 1 .. MaxRows \cup made /\ (search => I \subseteq Matching)
    BY <1>4, ListFacts DEF ListInv, Selected
  <2> QED
    BY <1>1, <1>6, <1>12, <2>1 DEF ListInv
<1>14. CASE ~Exhausted(Len(V) + excess)
  <2>1. pc'["list_all"] = "sent" /\ result' = result /\ offset' = offset + Len(Items)
    BY <1>14 DEF Page, Sends, NextOffset, CallInv, Calls
  <2>2. Behind' = Behind \cup I
    BY <1>2, <1>4, <2>1 DEF Behind
  <2>3. BoundInv'
    BY <1>1, <1>2, <1>3, <1>6, <1>11, <2>2 DEF BoundInv
  <2> QED
    BY <1>3, <1>13, <2>1, <2>3 DEF WalkInv, Walked
<1>15. CASE Exhausted(Len(V) + excess)
  <2>1. pc'["list_all"] = "done"
    BY <1>15 DEF Page, Ends, CallInv, Calls
  <2>2. Items = <<>> \/ offset + Len(Items) >= Len(V)
    <3>1. Len(V) \in Nat /\ offset \in Nat
      BY ListFacts DEF ListInv
    <3> HIDE DEF V
    <3> QED
      BY <1>6, <1>15, <3>1 DEF Exhausted
  <2>3. Behind \cup I = Listed
    BY <1>4, <2>2
  <2>4. (throughout \ (G \cup I)) \cap (Behind \cup I) = throughout \ (G \cup I)
    BY <1>3, <2>3 DEF BoundInv
  <2>5. inserted \in Nat /\ deleted \in Nat
    BY DEF ListInv
  <2>6. EndInv'
    <3>1. Cardinality(throughout \ (G \cup I)) <= deleted
      BY <1>11, <2>4
    <3>2. Len(out') <= inserted + Cardinality(G \cup I)
      <4> HIDE DEF I, G
      <4> QED
        BY <1>6, <1>10, <1>11, <2>5
    <3> QED
      BY <1>1, <1>6, <3>1, <3>2 DEF EndInv
  <2> QED
    BY <1>13, <2>1, <2>6 DEF WalkInv, Open
<1> QED
  BY <1>14, <1>15

(* A new row: it is not one the walk has, and repeats one row at most.     *)
LEMMA ArrivalWalk ==
  ASSUME ListInv, WalkInv, NEW r \in (Mine \cup Others) \ made, Appears(r),
         made' = made \cup {r}, UNCHANGED <<search, limit, walk>>,
         pc'["list_all"] = pc["list_all"], result'["list_all"] = result["list_all"]
  PROVE  ListInv' /\ WalkInv'
<1> DEFINE G == ToSet(out)
           X == (G \cap Listed) \ Behind
           Y == (throughout \ G) \cap Behind
<1>1. /\ search' = search /\ limit' = limit /\ offset' = offset /\ out' = out
      /\ throughout' = throughout /\ inserted' = inserted + 1 /\ deleted' = deleted
  BY DEF Appears, walk
<1>2. PICK i \in 1 .. Len(collection) + 1 : collection' = InsertAt(collection, i, r)
  BY DEF Appears
<1>3. r \notin 1 .. MaxRows \cup made /\ r \in Rows
  BY RowsAssumption DEF Rows
<1>4. r \notin ToSet(collection) /\ r \notin G
  BY <1>3 DEF ListInv
<1>5. collection \in Seq(Rows) /\ IsInjective(collection) /\ offset \in Nat
  BY DEF ListInv
<1>6. /\ collection' \in Seq(Rows) /\ IsInjective(collection')
      /\ ToSet(collection') = ToSet(collection) \cup {r}
      /\ Moved(collection, collection', r, offset)
  BY <1>2, <1>3, <1>4, <1>5, InsertFacts
<1>7. ListInv'
  BY <1>1, <1>6 DEF ListInv
<1>8. /\ View(collection)' = View(collection')
      /\ Listed' = { x \in ToSet(collection') : Selected(x) }
      /\ Behind' = Passed(View(collection'), offset)
  BY <1>1, <1>6, SameSearch, ViewFacts DEF Listed, Behind
<1>9. PICK y : Behind' \subseteq Behind \cup {r} /\ Behind \subseteq Behind' \cup {y}
  BY <1>6, <1>8 DEF Moved, Shifted, Behind
<1>10. /\ Listed \subseteq Listed' /\ Listed' \subseteq Listed \cup {r} /\ r \notin Listed
  BY <1>4, <1>6, <1>8, ListFacts
<1>11. ASSUME BoundInv PROVE BoundInv'
  <2>1. throughout \subseteq Listed' /\ r \notin throughout
    BY <1>10, <1>11 DEF BoundInv
  <2>2. (throughout \ G) \cap Behind' \in SUBSET Y
    BY <1>9, <2>1
  <2>3. (G \cap Listed') \ Behind' \subseteq X \cup {y}
    BY <1>4, <1>9, <1>10
  <2>4. IsFiniteSet(X) /\ IsFiniteSet(Y)
    BY <1>11, CountedFinite DEF BoundInv
  <2> HIDE DEF X, Y, G
  <2>5. /\ Cardinality((throughout \ G) \cap Behind') <= Cardinality(Y)
        /\ IsFiniteSet((throughout \ G) \cap Behind')
    BY <2>2, <2>4, FS_Subset
  <2>6. /\ Cardinality((G \cap Listed') \ Behind') <= Cardinality(X) + 1
        /\ IsFiniteSet((G \cap Listed') \ Behind')
    BY <2>3, <2>4, OneElement
  <2>7. /\ Cardinality(X) \in Nat /\ Cardinality(Y) \in Nat
        /\ Cardinality((throughout \ G) \cap Behind') \in Nat
        /\ Cardinality((G \cap Listed') \ Behind') \in Nat
    BY <2>4, <2>5, <2>6, FS_CardinalityType
  <2>8. /\ Cardinality(Y) <= deleted /\ Len(out) + Cardinality(X) <= inserted + Cardinality(G)
        /\ deleted \in Nat /\ inserted \in Nat /\ Len(out) \in Nat /\ Cardinality(G) \in Nat
    BY <1>11, ListFacts DEF BoundInv, ListInv, X, Y, G
  <2>9. /\ Cardinality((throughout \ G) \cap Behind') <= deleted
        /\ Len(out) + Cardinality((G \cap Listed') \ Behind')
             <= (inserted + 1) + Cardinality(G)
    BY <2>5, <2>6, <2>7, <2>8
  <2> QED
    BY <1>1, <2>1, <2>9 DEF BoundInv, G
<1>12. ASSUME EndInv PROVE EndInv'
  <2>1. inserted \in Nat /\ Len(out) \in Nat /\ Cardinality(ToSet(out)) \in Nat
    BY ListFacts DEF ListInv
  <2>2. Len(out) <= (inserted + 1) + Cardinality(ToSet(out))
    BY <1>12, <2>1 DEF EndInv
  <2> QED
    BY <1>1, <1>12, <2>2 DEF EndInv
<1>13. (Open' <=> Open) /\ (Walked' <=> Walked)
  BY DEF Open, Walked
<1> QED
  BY <1>1, <1>7, <1>11, <1>12, <1>13 DEF WalkInv

(* A row less: it costs one of those that are ahead at most.               *)
LEMMA DeletionWalk ==
  ASSUME ListInv, WalkInv, NEW i \in DOMAIN collection, OtherDeletes(i)
  PROVE  ListInv' /\ WalkInv'
<1> DEFINE G == ToSet(out)
           X == (G \cap Listed) \ Behind
           Y == (throughout \ G) \cap Behind
           r == collection[i]
<1>1. /\ search' = search /\ limit' = limit /\ offset' = offset /\ out' = out
      /\ throughout' = throughout \ {r} /\ inserted' = inserted /\ deleted' = deleted + 1
      /\ pc' = pc /\ result' = result /\ made' = made
      /\ collection' = RemoveAt(collection, i) /\ Open
  BY DEF OtherDeletes, OtherWrites, Open, walk, progress, config
<1>2. collection \in Seq(Rows) /\ IsInjective(collection) /\ offset \in Nat
  BY DEF ListInv
<1>3. /\ collection' \in Seq(Rows) /\ IsInjective(collection')
      /\ ToSet(collection') = ToSet(collection) \ {r}
      /\ Moved(collection', collection, r, offset)
  BY <1>1, <1>2, RemoveFacts
<1>4. ListInv'
  BY <1>1, <1>3 DEF ListInv
<1>5. /\ View(collection)' = View(collection')
      /\ Listed' = { x \in ToSet(collection') : Selected(x) }
      /\ Behind' = Passed(View(collection'), offset)
  BY <1>1, <1>3, SameSearch, ViewFacts DEF Listed, Behind
<1>6. PICK y : Behind \subseteq Behind' \cup {r} /\ Behind' \subseteq Behind \cup {y}
  BY <1>3, <1>5 DEF Moved, Shifted, Behind
<1>7. Listed' = Listed \ {r}
  BY <1>3, <1>5, ListFacts
<1>8. BoundInv
  BY <1>1 DEF WalkInv
<1>9. BoundInv'
  <2>1. throughout \ {r} \subseteq Listed'
    BY <1>7, <1>8 DEF BoundInv
  <2>2. ((throughout \ {r}) \ G) \cap Behind' \subseteq Y \cup {y}
    BY <1>6
  <2>3. (G \cap Listed') \ Behind' \in SUBSET X
    BY <1>6, <1>7
  <2>4. IsFiniteSet(X) /\ IsFiniteSet(Y)
    BY <1>8, CountedFinite DEF BoundInv
  <2> HIDE DEF X, Y, G
  <2>5. /\ Cardinality(((throughout \ {r}) \ G) \cap Behind') <= Cardinality(Y) + 1
        /\ IsFiniteSet(((throughout \ {r}) \ G) \cap Behind')
    BY <2>2, <2>4, OneElement
  <2>6. /\ Cardinality((G \cap Listed') \ Behind') <= Cardinality(X)
        /\ IsFiniteSet((G \cap Listed') \ Behind')
    BY <2>3, <2>4, FS_Subset
  <2>7. /\ Cardinality(X) \in Nat /\ Cardinality(Y) \in Nat
        /\ Cardinality(((throughout \ {r}) \ G) \cap Behind') \in Nat
        /\ Cardinality((G \cap Listed') \ Behind') \in Nat
    BY <2>4, <2>5, <2>6, FS_CardinalityType
  <2>8. /\ Cardinality(Y) <= deleted /\ Len(out) + Cardinality(X) <= inserted + Cardinality(G)
        /\ deleted \in Nat /\ inserted \in Nat /\ Len(out) \in Nat /\ Cardinality(G) \in Nat
    BY <1>8, ListFacts DEF BoundInv, ListInv, X, Y, G
  <2>9. /\ Cardinality(((throughout \ {r}) \ G) \cap Behind') <= deleted + 1
        /\ Len(out) + Cardinality((G \cap Listed') \ Behind') <= inserted + Cardinality(G)
    BY <2>5, <2>6, <2>7, <2>8
  <2> QED
    BY <1>1, <2>1, <2>9 DEF BoundInv, G
<1>10. Open' /\ result["list_all"] = "none"
  BY <1>1 DEF Open, WalkInv
<1> QED
  BY <1>1, <1>4, <1>9, <1>10 DEF WalkInv, Open, Walked

-----------------------------------------------------------------------------
(* A call that sends or ends, but not by a page.                           *)
LEMMA CallsAside ==
  ASSUME CallInv, WalkInv, NEW c \in Calls, pc[c] # "called",
         UNCHANGED <<collection, search, limit, walk, made, history>>,
         \/ \E n, again : Sends(c, n, again) /\ pc[c] # "done"
         \/ Ends(c, "error") \/ Ends(c, "unknown")
         \/ pc[c] = "sent" /\ pc' = [pc EXCEPT ![c] = "refreshing"] /\ result' = result
  PROVE  Aside
<1>1. \/ /\ pc' = [pc EXCEPT ![c] = "sent"] /\ result' = result /\ pc[c] # "done"
      \/ /\ pc' = [pc EXCEPT ![c] = "done"]
         /\ \E e \in {"error", "unknown"} : result' = [result EXCEPT ![c] = e]
      \/ /\ pc' = [pc EXCEPT ![c] = "refreshing"] /\ result' = result /\ pc[c] = "sent"
  BY DEF Sends, Ends
<1>2. /\ DOMAIN pc = Calls /\ DOMAIN result = Calls /\ "list_all" \in Calls
      /\ pc["list_all"] \in {"called", "sent", "refreshing", "done"}
  BY DEF CallInv, Calls
<1>3. CASE c = "list_all"
  BY <1>1, <1>2, <1>3 DEF Aside, Open, Walked, WalkInv
<1>4. CASE c # "list_all"
  <2>1. pc'["list_all"] = pc["list_all"] /\ result'["list_all"] = result["list_all"]
    BY <1>1, <1>2, <1>4
  <2> QED
    BY <2>1 DEF Aside, Open, Walked, WalkInv
<1> QED
  BY <1>3, <1>4

(* Every step preserves the invariant.                                     *)
LEMMA StepWalk == IInv /\ ListInv /\ WalkInv /\ [Next]_vars => ListInv' /\ WalkInv'
<1> SUFFICES ASSUME IInv, ListInv, WalkInv, [Next]_vars PROVE ListInv' /\ WalkInv'
  OBVIOUS
<1> USE DEF IInv
<1>1. ASSUME NEW c \in Calls, Step(c) PROVE ListInv' /\ WalkInv'
  <2>1. CASE Begin(c)
    <3>1. CASE c = "list_all"
      BY <2>1, <3>1, BeginWalk
    <3>2. CASE c # "list_all"
      <4>1. /\ UNCHANGED <<collection, search, limit, walk, made, history>>
            /\ pc' = [pc EXCEPT ![c] = "sent"] /\ result' = result
        BY <2>1, <3>2 DEF Begin, Sends, config, history
      <4>2. pc'["list_all"] = pc["list_all"] /\ result'["list_all"] = result["list_all"]
        BY <3>2, <4>1 DEF CallInv, Calls
      <4>3. Aside
        BY <4>1, <4>2 DEF Aside, Open, Walked, WalkInv
      <4> QED
        BY <4>3, AsideWalk
    <3> QED
      BY <3>1, <3>2
  <2>2. CASE Refused(c) \/ Fails(c) \/ Unauthorized(c) \/ Refreshed(c) \/ RefreshFails(c)
    <3>1. /\ UNCHANGED <<collection, search, limit, walk, made, history>>
          /\ pc[c] \in {"sent", "refreshing"}
      BY <2>2 DEF Refused, Fails, Unauthorized, Refreshed, RefreshFails, config
    <3>2. \/ \E n, again : Sends(c, n, again) /\ pc[c] # "done"
          \/ Ends(c, "error") \/ Ends(c, "unknown")
          \/ pc[c] = "sent" /\ pc' = [pc EXCEPT ![c] = "refreshing"] /\ result' = result
      BY <2>2, <3>1 DEF Refused, Fails, Unauthorized, Refreshed, RefreshFails, NetworkFails
    <3>3. Aside
      BY <3>1, <3>2, CallsAside
    <3> QED
      BY <3>3, AsideWalk
  <2> QED
    BY <1>1, <2>1, <2>2 DEF Step
<1>2. ASSUME NEW lost \in BOOLEAN, Create(lost) PROVE ListInv' /\ WalkInv'
  <2>1. PICK r \in Mine \ made : Appears(r) /\ made' = made \cup {r}
    BY <1>2 DEF Create
  <2>2. ~Retried("create")
    BY DEF Retried
  <2>3. Ends("create", "ok") \/ Ends("create", "unknown")
    BY <1>2, <2>2 DEF Create, NetworkFails
  <2>4. pc'["list_all"] = pc["list_all"] /\ result'["list_all"] = result["list_all"]
    BY <2>3 DEF Ends, CallInv, Calls
  <2>5. r \in (Mine \cup Others) \ made /\ UNCHANGED <<search, limit, walk>>
    BY <1>2, <2>1 DEF Create, config
  <2> QED
    BY <2>1, <2>4, <2>5, ArrivalWalk
<1>3. ASSUME NEW excess \in {0, 1}, Page(excess) PROVE ListInv' /\ WalkInv'
  BY <1>3, PageWalk
<1>4. ASSUME OtherCreates PROVE ListInv' /\ WalkInv'
  <2>1. PICK r \in Others \ made : Appears(r) /\ made' = made \cup {r}
    BY <1>4 DEF OtherCreates
  <2>2. /\ r \in (Mine \cup Others) \ made /\ UNCHANGED <<search, limit, walk>>
        /\ pc' = pc /\ result' = result
    BY <1>4, <2>1 DEF OtherCreates, config, progress
  <2> QED
    BY <2>1, <2>2, ArrivalWalk
<1>5. ASSUME NEW i \in DOMAIN collection, OtherDeletes(i) PROVE ListInv' /\ WalkInv'
  BY <1>5, DeletionWalk
<1>6. CASE Expire \/ UNCHANGED vars
  <2>1. /\ UNCHANGED <<collection, search, limit, walk, made, history>>
        /\ pc' = pc /\ result' = result
    BY <1>6 DEF Expire, vars, config, progress, walk, history
  <2>2. Aside
    BY <2>1 DEF Aside, Open, Walked, WalkInv
  <2> QED
    BY <2>2, AsideWalk
<1> QED
  BY <1>1, <1>2, <1>3, <1>4, <1>5, <1>6 DEF Next, Pages

(* A list_all that returned missed no more rows than were deleted while it *)
(* walked, repeated none but for insertions, and brought only what was     *)
(* searched for, whatever failed and was retried (collect_pages and the    *)
(* retry runner).                                                          *)
THEOREM OneRowForEachWrite == MCSpec => []OneRowPerWrite
<1>1. ListInv /\ WalkInv => OneRowPerWrite
  <2> SUFFICES ASSUME ListInv, WalkInv, Walked PROVE /\ Cardinality(throughout \ ToSet(out)) <= deleted
                                                     /\ Len(out) - Cardinality(ToSet(out)) <= inserted
                                                     /\ search => ToSet(out) \subseteq Matching
    BY DEF OneRowPerWrite
  <2>1. EndInv
    BY DEF WalkInv
  <2>2. inserted \in Nat /\ Len(out) \in Nat /\ Cardinality(ToSet(out)) \in Nat
    BY ListFacts DEF ListInv
  <2>3. Len(out) - Cardinality(ToSet(out)) <= inserted
    BY <2>1, <2>2 DEF EndInv
  <2> QED
    BY <2>1, <2>3 DEF EndInv, ListInv
<1>2. MCSpec => [](IInv /\ ListInv /\ WalkInv)
  <2>1. MCInit => IInv /\ ListInv /\ WalkInv
    BY InitIInv, InitWalk DEF MCInit
  <2>2. (IInv /\ ListInv /\ WalkInv) /\ [MCNext]_mcvars => (IInv /\ ListInv /\ WalkInv)'
    BY StepIInv, StepWalk, Parts
  <2> QED
    BY <2>1, <2>2, PTL DEF MCSpec
<1> QED
  BY <1>1, <1>2, PTL

-----------------------------------------------------------------------------
(* The guards of the web routes. What is known of the request under way.   *)
CaseInv ==
    /\ case.route \in {"user", "role", "access", "document"}
    /\ case.header \in {"bearer", "absent", "other"}
    /\ case.sub \in {"user", "empty", "absent"}
    /\ case.exp \in Int /\ case.expType \in {"number", "absent", "text"}
    /\ case.nbf \in Int /\ case.nbfType \in {"number", "absent", "text"}
    /\ case.decision \in {"allowed", "no_grant", "denied_by_rule", "authz_error",
                          "undecided"}
    /\ case.route = "document" => case.mcp
    /\ case.mcp => case.expectsAudience

(* A credential that the double submit lets through.                       *)
Submitted ==
    \/ case.header = "bearer"
    \/ case.header = "absent" /\ case.cookie /\ (case.safe \/ case.csrf = "equal")

Refuses(status, challenge) == [status |-> status, challenge |-> challenge]

(* What each guard answers to a request that carries a token it verifies.  *)
Decided ==
    CASE case.route = "user" -> Refuses(200, "none")
      [] case.route = "role" ->
            Refuses(IF Web!Roles = "held" THEN 200 ELSE 403, "none")
      [] case.route = "access" ->
            IF case.resource # "uuid" THEN Refuses(400, "none")
            ELSE CASE case.decision = "undecided" -> Refuses(503, "none")
                   [] case.decision = "allowed" -> Refuses(200, "none")
                   [] OTHER ->
                        Refuses(403, IF case.uma /\ case.ticket THEN "uma"
                                     ELSE Web!Challenge403(case.decision))

Answer ==
    IF ~Web!Presented THEN Refuses(401, Web!Challenge401(FALSE))
    ELSE IF ~Submitted THEN Refuses(403, "none")
    ELSE IF ~Web!Verified THEN Refuses(401, Web!Challenge401(TRUE))
    ELSE IF ~Web!Iterable THEN Refuses(500, "none")
    ELSE IF case.sub = "empty" THEN Refuses(401, Web!Challenge401(TRUE))
    ELSE Decided

(* Without its middleware, Django knows no user.                           *)
AnswerOf(f) ==
    IF case.route = "document" THEN Refuses(200, "none")
    ELSE IF f = "django" /\ ~case.installed
         THEN Refuses(401, Web!Challenge401(Web!Presented))
    ELSE Answer

(* The request got past the middleware, or past the dependency.            *)
Known == Submitted /\ Web!Verified /\ Web!Iterable /\ case.sub = "user"

(* What a guard has found out when it has come to a stage.                 *)
Found(f, at, roles) ==
    /\ at \in {"csrf", "verify", "check", "deny"} =>
          /\ case.route # "document" /\ Web!Presented
          /\ f = "django" => case.installed
    /\ at \in {"extract", "csrf", "verify"} => roles = "none"
    /\ at = "csrf" => case.header = "absent"
    /\ at = "verify" => Submitted
    /\ at = "route" =>
          IF roles = "none"
             THEN f = "django" /\ (case.route = "document" \/ ~case.installed)
             ELSE /\ case.route # "document" /\ Known /\ roles = Web!Roles
                  /\ f = "django" => case.installed
    /\ at \in {"check", "deny"} =>
          Known /\ case.route = "access" /\ case.resource = "uuid"
    /\ at = "deny" => case.decision \in {"no_grant", "denied_by_rule", "authz_error"}

(* How far a guard has come is what it found out; its answer is AnswerOf.  *)
StageInv(f) ==
    /\ Found(f, stage[f], user[f])
    /\ stage[f] = "done" => response[f] = AnswerOf(f)

Stages == {"extract", "csrf", "verify", "route", "check", "deny", "done"}

GuardTypes ==
    /\ stage \in [Web!Frameworks -> Stages]
    /\ user \in [Web!Frameworks -> {"none", "held", "lacking"}]
    /\ DOMAIN response = Web!Frameworks
    /\ response = [f \in Web!Frameworks |-> response[f]]

GuardInv == CaseInv /\ GuardTypes /\ \A f \in Web!Frameworks : StageInv(f)

LEMMA CasesAreRequests == ASSUME case \in Cases PROVE CaseInv
<1>1. case \in Request /\ (case.route = "document" => case.mcp) /\ (case.mcp => case.expectsAudience)
  BY CasesAssumption
<1>2. /\ case.route \in {"user", "role", "access", "document"}
      /\ case.header \in {"bearer", "absent", "other"}
      /\ case.sub \in {"user", "empty", "absent"}
      /\ case.exp \in Int /\ case.expType \in {"number", "absent", "text"}
      /\ case.nbf \in Int /\ case.nbfType \in {"number", "absent", "text"}
      /\ case.decision \in {"allowed", "no_grant", "denied_by_rule", "authz_error",
                          "undecided"}
  BY <1>1 DEF Request
<1> QED
  BY <1>1, <1>2 DEF CaseInv

LEMMA GuardInit == Web!Init => GuardInv
<1> SUFFICES ASSUME Web!Init PROVE GuardInv
  OBVIOUS
<1>1. CaseInv
  BY CasesAreRequests DEF Web!Init
<1> QED
  BY <1>1
  DEF Web!Init, GuardInv, GuardTypes, Stages, StageInv, Found, Web!Frameworks

(* What a guard is to find out depends on the request alone.               *)
LEMMA RequestOnly ==
  ASSUME case' = case, NEW f
  PROVE  /\ Submitted' <=> Submitted
         /\ Known' <=> Known
         /\ Web!Presented' <=> Web!Presented
         /\ Web!Roles' = Web!Roles
         /\ AnswerOf(f)' = AnswerOf(f)
<1>1. Submitted' <=> Submitted
  BY DEF Submitted
<1>2. Web!Presented' <=> Web!Presented
  BY DEF Web!Presented
<1>3. Web!Verified' <=> Web!Verified
  BY DEF Web!Verified, Web!Current, Web!Expired, Web!Mature, Web!Immature, Web!Unbound
<1>4. (Web!Iterable' <=> Web!Iterable) /\ Web!Roles' = Web!Roles
  BY DEF Web!Iterable, Web!Roles
<1>5. Known' <=> Known
  BY <1>1, <1>3, <1>4 DEF Known
<1>6. \A p \in BOOLEAN : Web!Challenge401(p)' = Web!Challenge401(p)
  BY DEF Web!Challenge401
<1>7. \A r : Web!Challenge403(r)' = Web!Challenge403(r)
  BY DEF Web!Challenge403
<1>8. Decided' = Decided
  BY <1>4, <1>7 DEF Decided
<1>9. Answer' = Answer
  <2>1. /\ Web!Challenge401(FALSE)' = Web!Challenge401(FALSE)
        /\ Web!Challenge401(TRUE)' = Web!Challenge401(TRUE)
    BY <1>6
  <2>2. CASE ~Web!Presented
    <3>1. ~Web!Presented'
      BY <1>1, <1>2, <1>3, <1>4, <2>2
    <3>2. Answer = Refuses(401, Web!Challenge401(FALSE))
      BY <2>2 DEF Answer
    <3>3. Answer' = Refuses(401, Web!Challenge401(FALSE)')
      BY <3>1 DEF Answer
    <3> QED
      BY <1>8, <2>1, <3>2, <3>3
  <2>3. CASE Web!Presented /\ ~Submitted
    <3>1. Web!Presented' /\ ~Submitted'
      BY <1>1, <1>2, <1>3, <1>4, <2>3
    <3>2. Answer = Refuses(403, "none")
      BY <2>3 DEF Answer
    <3>3. Answer' = Refuses(403, "none")
      BY <3>1 DEF Answer
    <3> QED
      BY <1>8, <2>1, <3>2, <3>3
  <2>4. CASE Web!Presented /\ Submitted /\ ~Web!Verified
    <3>1. Web!Presented' /\ Submitted' /\ ~Web!Verified'
      BY <1>1, <1>2, <1>3, <1>4, <2>4
    <3>2. Answer = Refuses(401, Web!Challenge401(TRUE))
      BY <2>4 DEF Answer
    <3>3. Answer' = Refuses(401, Web!Challenge401(TRUE)')
      BY <3>1 DEF Answer
    <3> QED
      BY <1>8, <2>1, <3>2, <3>3
  <2>5. CASE Web!Presented /\ Submitted /\ Web!Verified /\ ~Web!Iterable
    <3>1. Web!Presented' /\ Submitted' /\ Web!Verified' /\ ~Web!Iterable'
      BY <1>1, <1>2, <1>3, <1>4, <2>5
    <3>2. Answer = Refuses(500, "none")
      BY <2>5 DEF Answer
    <3>3. Answer' = Refuses(500, "none")
      BY <3>1 DEF Answer
    <3> QED
      BY <1>8, <2>1, <3>2, <3>3
  <2>6. CASE Web!Presented /\ Submitted /\ Web!Verified /\ Web!Iterable /\ case.sub = "empty"
    <3>1. Web!Presented' /\ Submitted' /\ Web!Verified' /\ Web!Iterable' /\ case'.sub = "empty"
      BY <1>1, <1>2, <1>3, <1>4, <2>6
    <3>2. Answer = Refuses(401, Web!Challenge401(TRUE))
      BY <2>6 DEF Answer
    <3>3. Answer' = Refuses(401, Web!Challenge401(TRUE)')
      BY <3>1 DEF Answer
    <3> QED
      BY <1>8, <2>1, <3>2, <3>3
  <2>7. CASE Web!Presented /\ Submitted /\ Web!Verified /\ Web!Iterable /\ case.sub # "empty"
    <3>1. Web!Presented' /\ Submitted' /\ Web!Verified' /\ Web!Iterable' /\ case'.sub # "empty"
      BY <1>1, <1>2, <1>3, <1>4, <2>7
    <3>2. Answer = Decided
      BY <2>7 DEF Answer
    <3>3. Answer' = Decided'
      BY <3>1 DEF Answer
    <3> QED
      BY <1>8, <2>1, <3>2, <3>3
  <2> QED
    BY <2>2, <2>3, <2>4, <2>5, <2>6, <2>7
<1>10. AnswerOf(f)' = AnswerOf(f)
  BY <1>9, <1>6, <1>2 DEF AnswerOf, Web!Challenge401, Web!Presented
<1> QED
  BY <1>1, <1>2, <1>4, <1>5, <1>10

(* What Answer is, case by case.                                           *)
LEMMA AnswerCases ==
  /\ ~Web!Presented => Answer = Refuses(401, Web!Challenge401(FALSE))
  /\ Web!Presented /\ ~Submitted => Answer = Refuses(403, "none")
  /\ Web!Presented /\ Submitted /\ ~Web!Verified =>
        Answer = Refuses(401, Web!Challenge401(TRUE))
  /\ Web!Presented /\ Submitted /\ Web!Verified /\ ~Web!Iterable =>
        Answer = Refuses(500, "none")
  /\ Web!Presented /\ Submitted /\ Web!Verified /\ Web!Iterable =>
        /\ case.sub = "empty" => Answer = Refuses(401, Web!Challenge401(TRUE))
        /\ case.sub # "empty" => Answer = Decided
<1>1. ~Web!Presented => Answer = Refuses(401, Web!Challenge401(FALSE))
  BY DEF Answer
<1>2. Web!Presented /\ ~Submitted => Answer = Refuses(403, "none")
  BY DEF Answer
<1>3. Web!Presented /\ Submitted /\ ~Web!Verified =>
        Answer = Refuses(401, Web!Challenge401(TRUE))
  BY DEF Answer
<1>4. Web!Presented /\ Submitted /\ Web!Verified /\ ~Web!Iterable =>
        Answer = Refuses(500, "none")
  BY DEF Answer
<1>5. Web!Presented /\ Submitted /\ Web!Verified /\ Web!Iterable /\ case.sub = "empty" =>
        Answer = Refuses(401, Web!Challenge401(TRUE))
  BY DEF Answer
<1>6. Web!Presented /\ Submitted /\ Web!Verified /\ Web!Iterable /\ case.sub # "empty" =>
        Answer = Decided
  BY DEF Answer
<1> QED
  BY <1>1, <1>2, <1>3, <1>4, <1>5, <1>6

(* A step of one guard: the other guard and the request stay as they are.  *)
LEMMA Elsewhere ==
  ASSUME GuardInv, NEW f \in Web!Frameworks, case' = case, GuardTypes',
         \A g \in Web!Frameworks \ {f} :
            stage'[g] = stage[g] /\ user'[g] = user[g] /\ response'[g] = response[g],
         StageInv(f)'
  PROVE  GuardInv'
<1>1. ASSUME NEW g \in Web!Frameworks, g # f PROVE StageInv(g)'
  <2>1. stage'[g] = stage[g] /\ user'[g] = user[g] /\ response'[g] = response[g]
    BY <1>1
  <2> QED
    BY <2>1, RequestOnly DEF GuardInv, StageInv, Found
<1>2. CaseInv'
  BY DEF GuardInv, CaseInv
<1> QED
  BY <1>1, <1>2 DEF GuardInv

LEMMA GoesOn ==
  ASSUME GuardInv, NEW f \in Web!Frameworks, NEW s \in Stages \ {"done"},
         Web!Goes(f, s), Found(f, s, user[f])
  PROVE  GuardInv'
<1>1. /\ GuardTypes' /\ case' = case
      /\ \A g \in Web!Frameworks \ {f} :
            stage'[g] = stage[g] /\ user'[g] = user[g] /\ response'[g] = response[g]
      /\ stage'[f] = s /\ user'[f] = user[f]
  BY DEF GuardInv, GuardTypes, Web!Goes
<1>2. StageInv(f)'
  BY <1>1, RequestOnly DEF StageInv, Found
<1> QED
  BY <1>1, <1>2, Elsewhere

LEMMA Learns ==
  ASSUME GuardInv, NEW f \in Web!Frameworks, NEW roles \in {"held", "lacking"},
         Web!Knows(f, roles), Found(f, "route", roles)
  PROVE  GuardInv'
<1>1. /\ GuardTypes' /\ case' = case
      /\ \A g \in Web!Frameworks \ {f} :
            stage'[g] = stage[g] /\ user'[g] = user[g] /\ response'[g] = response[g]
      /\ stage'[f] = "route" /\ user'[f] = roles
  BY DEF GuardInv, GuardTypes, Web!Knows, Stages
<1>2. StageInv(f)'
  BY <1>1, RequestOnly DEF StageInv, Found
<1> QED
  BY <1>1, <1>2, Elsewhere

LEMMA Answers ==
  ASSUME GuardInv, NEW f \in Web!Frameworks, NEW status, NEW challenge,
         Web!Responds(f, status, challenge), AnswerOf(f) = Refuses(status, challenge)
  PROVE  GuardInv'
<1>1. /\ GuardTypes' /\ case' = case
      /\ \A g \in Web!Frameworks \ {f} :
            stage'[g] = stage[g] /\ user'[g] = user[g] /\ response'[g] = response[g]
      /\ stage'[f] = "done" /\ response'[f] = Refuses(status, challenge)
  BY DEF GuardInv, GuardTypes, Web!Responds, Stages, Refuses
<1>2. AnswerOf(f)' = response'[f]
  BY <1>1, RequestOnly
<1>3. StageInv(f)'
  BY <1>1, <1>2 DEF StageInv, Found
<1> QED
  BY <1>1, <1>3, Elsewhere

LEMMA KnownDecided ==
  ASSUME Known, case.route # "document", NEW f, f = "django" => case.installed
  PROVE  AnswerOf(f) = Decided /\ Web!Presented
<1>1. Submitted /\ Web!Verified /\ Web!Iterable /\ case.sub = "user"
  BY DEF Known
<1>2. Web!Presented
  BY <1>1 DEF Submitted, Web!Presented
<1> QED
  BY <1>1, <1>2, AnswerCases DEF AnswerOf

-----------------------------------------------------------------------------
(* The steps of the guards.                                                *)
LEMMA FastApiSteps ==
  ASSUME GuardInv, Web!FastApiExtract \/ Web!FastApiVerify \/ Web!FastApiRoute
  PROVE  GuardInv'
<1> "fastapi" \in Web!Frameworks
  BY DEF Web!Frameworks
<1> USE DEF GuardInv, StageInv, Stages
<1>1. CASE Web!FastApiExtract
  <2> USE <1>1 DEF Web!FastApiExtract
  <2>0. user["fastapi"] = "none"
    BY DEF Found
  <2>1. CASE Web!Goes("fastapi", "verify") /\ case.route # "document" /\ case.header = "bearer"
    BY <2>0, <2>1, GoesOn DEF Found, Submitted, Web!Presented
  <2>2. CASE Web!Goes("fastapi", "csrf") /\ case.route # "document" /\ case.header = "absent" /\ case.cookie
    BY <2>0, <2>2, GoesOn DEF Found, Web!Presented
  <2>3. CASE Web!Responds("fastapi", 200, "none") /\ case.route = "document"
    BY <2>3, Answers DEF AnswerOf
  <2>4. CASE Web!Unauthorized("fastapi", FALSE) /\ case.route # "document" /\ ~Web!Presented
    BY <2>4, Answers, AnswerCases DEF AnswerOf, Web!Unauthorized
  <2> QED
    BY <2>1, <2>2, <2>3, <2>4 DEF Web!Presented
<1>2. CASE Web!FastApiVerify
  <2> USE <1>2 DEF Web!FastApiVerify
  <2>0. /\ case.route # "document" /\ Web!Presented /\ Submitted
        /\ AnswerOf("fastapi") = Answer
    BY DEF Found, AnswerOf
  <2>1. CASE ~Web!Verified
    <3>1. AnswerOf("fastapi") = Refuses(401, Web!Challenge401(TRUE))
      BY ONLY <2>0, <2>1, AnswerCases
    <3>2. Web!Responds("fastapi", 401, Web!Challenge401(TRUE))
      BY <2>1 DEF Web!Unauthorized
    <3> QED
      BY <3>1, <3>2, Answers
  <2>2. CASE Web!Verified /\ ~Web!Iterable
    <3>1. AnswerOf("fastapi") = Refuses(500, "none")
      BY ONLY <2>0, <2>2, AnswerCases
    <3>2. Web!Responds("fastapi", 500, "none")
      BY <2>2
    <3> QED
      BY <3>1, <3>2, Answers
  <2>3. CASE Web!Verified /\ Web!Iterable /\ case.sub = "empty"
    <3>1. AnswerOf("fastapi") = Refuses(401, Web!Challenge401(TRUE))
      BY ONLY <2>0, <2>3, AnswerCases
    <3>2. Web!Responds("fastapi", 401, Web!Challenge401(TRUE))
      BY <2>3 DEF Web!Unauthorized
    <3> QED
      BY <3>1, <3>2, Answers
  <2>4. CASE Web!Verified /\ Web!Iterable /\ case.sub = "user"
    <3>1. Web!Roles \in {"held", "lacking"}
      BY DEF Web!Roles
    <3>2. Found("fastapi", "route", Web!Roles)
      BY <2>0, <2>4, <3>1 DEF Found, Known
    <3> QED
      BY <2>4, <3>1, <3>2, Learns
  <2> QED
    BY <2>1, <2>2, <2>3, <2>4
<1>3. CASE Web!FastApiRoute
  <2> USE <1>3 DEF Web!FastApiRoute
  <2>0. /\ case.route # "document" /\ Known /\ user["fastapi"] = Web!Roles
        /\ AnswerOf("fastapi") = Decided
    <3>1. case.route # "document" /\ Known /\ user["fastapi"] = Web!Roles
      BY DEF Found
    <3> QED
      BY <3>1, KnownDecided
  <2>1. CASE case.route = "user"
    BY <2>0, <2>1, Answers DEF Decided
  <2>2. CASE case.route = "role"
    BY <2>0, <2>2, Answers DEF Decided
  <2>3. CASE case.route = "access" /\ case.resource # "uuid"
    BY <2>0, <2>3, Answers DEF Decided
  <2>4. CASE case.route = "access" /\ case.resource = "uuid"
    <3>1. Web!Goes("fastapi", "check") /\ Web!Presented
      BY <2>0, <2>4, KnownDecided
    <3> QED
      BY <2>0, <2>4, <3>1, GoesOn DEF Found
  <2> QED
    BY <2>0, <2>1, <2>2, <2>3, <2>4 DEF CaseInv
<1> QED
  BY <1>1, <1>2, <1>3

LEMMA DjangoSteps ==
  ASSUME GuardInv, Web!DjangoExtract \/ Web!DjangoVerify \/ Web!DjangoRoute
  PROVE  GuardInv'
<1> "django" \in Web!Frameworks
  BY DEF Web!Frameworks
<1> USE DEF GuardInv, StageInv, Stages
<1>1. CASE Web!DjangoExtract
  <2> USE <1>1 DEF Web!DjangoExtract
  <2>0. user["django"] = "none"
    BY DEF Found
  <2>1. CASE Web!Exempt \/ ~case.installed
    <3>1. Found("django", "route", user["django"])
      BY <2>0, <2>1 DEF Found, Web!Exempt
    <3> QED
      BY <2>1, <3>1, GoesOn
  <2>2. CASE ~Web!Exempt /\ case.installed /\ ~Web!Presented
    <3>1. AnswerOf("django") = Refuses(401, Web!Challenge401(FALSE))
      BY <2>2, AnswerCases DEF AnswerOf, Web!Exempt, CaseInv
    <3> QED
      BY <2>2, <3>1, Answers DEF Web!Unauthorized
  <2>3. CASE ~Web!Exempt /\ case.installed /\ Web!Presented
    <3>1. case.route # "document"
      BY <2>3 DEF Web!Exempt, CaseInv
    <3>2. CASE case.header = "bearer"
      <4>1. Found("django", "verify", user["django"])
        BY <2>0, <2>3, <3>1, <3>2 DEF Found, Submitted
      <4> QED
        BY <2>3, <3>2, <4>1, GoesOn
    <3>3. CASE case.header # "bearer"
      <4>1. Found("django", "csrf", user["django"])
        BY <2>0, <2>3, <3>1, <3>3 DEF Found, Web!Presented
      <4> QED
        BY <2>3, <3>3, <4>1, GoesOn
    <3> QED
      BY <3>2, <3>3
  <2> QED
    BY <2>1, <2>2, <2>3
<1>2. CASE Web!DjangoVerify
  <2> USE <1>2 DEF Web!DjangoVerify
  <2>0. /\ case.route # "document" /\ Web!Presented /\ Submitted /\ case.installed
        /\ AnswerOf("django") = Answer
    BY DEF Found, AnswerOf
  <2>1. CASE ~Web!Verified
    <3>1. AnswerOf("django") = Refuses(401, Web!Challenge401(TRUE))
      BY ONLY <2>0, <2>1, AnswerCases
    <3>2. Web!Responds("django", 401, Web!Challenge401(TRUE))
      BY <2>1 DEF Web!Unauthorized
    <3> QED
      BY <3>1, <3>2, Answers
  <2>2. CASE Web!Verified /\ ~Web!Iterable
    <3>1. AnswerOf("django") = Refuses(500, "none")
      BY ONLY <2>0, <2>2, AnswerCases
    <3>2. Web!Responds("django", 500, "none")
      BY <2>2
    <3> QED
      BY <3>1, <3>2, Answers
  <2>3. CASE Web!Verified /\ Web!Iterable /\ Web!Malformed
    <3>1. AnswerOf("django") = Refuses(401, Web!Challenge401(TRUE))
      BY ONLY <2>0, <2>3, AnswerCases DEF Web!Malformed
    <3>2. Web!Responds("django", 401, Web!Challenge401(TRUE))
      BY <2>3 DEF Web!Unauthorized
    <3> QED
      BY <3>1, <3>2, Answers
  <2>4. CASE Web!Verified /\ Web!Iterable /\ ~Web!Malformed
    <3>1. Web!Roles \in {"held", "lacking"}
      BY DEF Web!Roles
    <3>2. case.sub = "user"
      BY <2>4 DEF CaseInv, Web!Verified, Web!Malformed
    <3>3. Found("django", "route", Web!Roles)
      BY <2>0, <2>4, <3>1, <3>2 DEF Found, Known
    <3> QED
      BY <2>4, <3>1, <3>3, Learns
  <2> QED
    BY <2>1, <2>2, <2>3, <2>4
<1>3. CASE Web!DjangoRoute
  <2> USE <1>3 DEF Web!DjangoRoute
  <2>1. CASE case.route = "document"
    BY <2>1, Answers DEF AnswerOf
  <2>2. CASE case.route # "document" /\ Web!UserMissing
    <3>1. ~case.installed
      BY <2>2 DEF Found, Web!UserMissing
    <3> QED
      BY <2>2, <3>1, Answers DEF AnswerOf, Web!Unauthorized
  <2>3. CASE case.route # "document" /\ ~Web!UserMissing
    <3>0. Known /\ case.installed /\ user["django"] = Web!Roles
      BY <2>3 DEF Found, Web!UserMissing
    <3>1. AnswerOf("django") = Decided /\ Web!Presented
      BY <2>3, <3>0, KnownDecided
    <3>2. CASE case.route = "user"
      BY <2>3, <3>1, <3>2, Answers DEF Decided
    <3>3. CASE case.route = "role"
      BY <2>3, <3>0, <3>1, <3>3, Answers DEF Decided
    <3>4. CASE case.route = "access" /\ case.resource # "uuid"
      BY <2>3, <3>1, <3>4, Answers DEF Decided
    <3>5. CASE case.route = "access" /\ case.resource = "uuid"
      <4>1. Found("django", "check", user["django"])
        BY <3>0, <3>1, <3>5 DEF Found
      <4> QED
        BY <2>3, <3>5, <4>1, GoesOn
    <3> QED
      BY <2>3, <3>2, <3>3, <3>4, <3>5 DEF CaseInv
  <2> QED
    BY <2>1, <2>2, <2>3
<1> QED
  BY <1>1, <1>2, <1>3

LEMMA SharedSteps ==
  ASSUME GuardInv, NEW f \in Web!Frameworks,
         Web!Csrf(f) \/ Web!Check(f) \/ Web!Deny(f)
  PROVE  GuardInv'
<1> USE DEF GuardInv, StageInv, Stages
<1>1. CASE Web!Csrf(f)
  <2> USE <1>1 DEF Web!Csrf
  <2>0. /\ case.route # "document" /\ Web!Presented /\ case.header = "absent" /\ case.cookie
        /\ f = "django" => case.installed
        /\ user[f] = "none"
    BY DEF Found, Web!Presented
  <2>1. CASE Web!CsrfNeeded => Web!CsrfHolds
    <3>1. Submitted
      BY <2>0, <2>1 DEF Submitted, Web!CsrfNeeded, Web!CsrfHolds
    <3>2. Found(f, "verify", user[f])
      BY <2>0, <3>1 DEF Found
    <3> QED
      BY <2>1, <3>2, GoesOn
  <2>2. CASE Web!CsrfNeeded /\ ~Web!CsrfHolds
    <3>1. ~Submitted
      BY <2>0, <2>2 DEF Submitted, Web!CsrfNeeded, Web!CsrfHolds
    <3> QED
      <4>1. AnswerOf(f) = Refuses(403, "none")
        BY ONLY <2>0, <3>1, AnswerCases DEF AnswerOf
      <4>2. Web!Responds(f, 403, "none")
        BY <2>2
      <4> QED
        BY <4>1, <4>2, Answers
  <2> QED
    BY <2>1, <2>2
<1>2. CASE Web!Check(f)
  <2> USE <1>2 DEF Web!Check
  <2>0. /\ Known /\ case.route = "access" /\ case.resource = "uuid" /\ Web!Presented
        /\ f = "django" => case.installed
    BY DEF Found
  <2>1. AnswerOf(f) = Decided
    BY <2>0, KnownDecided
  <2>2. CASE Web!Undecided
    BY <2>0, <2>1, <2>2, Answers DEF Decided, Web!Undecided
  <2>3. CASE case.decision = "allowed"
    BY <2>0, <2>1, <2>3, Answers DEF Decided, Web!Undecided
  <2>4. CASE case.decision \in {"no_grant", "denied_by_rule", "authz_error"}
    <3>1. Found(f, "deny", user[f])
      BY <2>0, <2>4 DEF Found
    <3> QED
      BY <2>4, <3>1, GoesOn DEF Web!Undecided
  <2> QED
    BY <2>2, <2>3, <2>4
<1>3. CASE Web!Deny(f)
  <2> USE <1>3 DEF Web!Deny
  <2>0. /\ Known /\ case.route = "access" /\ case.resource = "uuid"
        /\ case.decision \in {"no_grant", "denied_by_rule", "authz_error"}
        /\ f = "django" => case.installed
    BY DEF Found
  <2>1. AnswerOf(f) = Decided
    BY <2>0, KnownDecided
  <2>2. Decided = Refuses(403, IF case.uma /\ case.ticket THEN "uma"
                               ELSE Web!Challenge403(case.decision))
    BY <2>0 DEF Decided
  <2> QED
    BY <2>1, <2>2, Answers
<1> QED
  BY <1>1, <1>2, <1>3

LEMMA GuardStep == GuardInv /\ [Web!Next]_web => GuardInv'
<1> SUFFICES ASSUME GuardInv, [Web!Next]_web PROVE GuardInv'
  OBVIOUS
<1>1. CASE Web!Next
  BY <1>1, FastApiSteps, DjangoSteps, SharedSteps DEF Web!Next
<1>2. CASE UNCHANGED web
  <2>1. \A f \in Web!Frameworks : StageInv(f)'
    BY <1>2, RequestOnly DEF web, GuardInv, StageInv, Found
  <2> QED
    BY <1>2, <2>1 DEF web, GuardInv, CaseInv, GuardTypes
<1> QED
  BY <1>1, <1>2

(* The inductive invariant of the guards.                                  *)
THEOREM GuardInvariance == MCSpec => []GuardInv
<1>1. MCInit => GuardInv
  BY GuardInit DEF MCInit
<1> QED
  BY <1>1, GuardStep, Parts, PTL DEF MCSpec

(* The request is served by Answer exactly when it is entitled.            *)
LEMMA ServedIsEntitled ==
  ASSUME CaseInv, NEW f \in Web!Frameworks
  PROVE  AnswerOf(f).status = 200 <=> Web!Entitled(f)
<1>1. CASE case.route = "document"
  BY <1>1 DEF AnswerOf, Web!Entitled, Refuses
<1>2. CASE case.route # "document" /\ f = "django" /\ ~case.installed
  BY <1>2 DEF AnswerOf, Web!Entitled, Refuses
<1>3. CASE case.route # "document" /\ (f = "django" => case.installed)
  <2>1. Submitted => Web!Presented
    BY DEF Submitted, Web!Presented
  <2>2. Web!Entitled(f) <=>
           /\ Known
           /\ case.route = "role" => Web!Roles = "held"
           /\ case.route = "access" => case.resource = "uuid" /\ case.decision = "allowed"
    BY <1>3, CasesAssumption
    DEF Web!Entitled, CaseInv, Known, Submitted, Web!Verified, Web!Iterable, Web!Roles,
        Web!Current, Web!Expired, Web!Mature, Web!Immature, Web!Unbound
  <2>3. CASE ~Known
    <3>1. AnswerOf(f).status # 200
      BY <1>3, <2>1, <2>3 DEF AnswerOf, Answer, Known, CaseInv, Refuses, Web!Verified
    <3> QED
      BY <2>2, <2>3, <3>1
  <2>4. CASE Known
    <3>1. AnswerOf(f) = Decided
      BY <1>3, <2>4, KnownDecided
    <3> QED
      BY <1>3, <2>2, <2>4, <3>1 DEF Decided, CaseInv, Refuses
  <2> QED
    BY <2>3, <2>4
<1> QED
  BY <1>1, <1>2, <1>3

(* For every request and every skew, in both frameworks: a route opens to  *)
(* the entitled and to nobody else.                                        *)
THEOREM RoutesOpenToTheEntitled == MCSpec => []OpensToTheEntitled
<1>1. GuardInv => OpensToTheEntitled
  BY ServedIsEntitled
  DEF OpensToTheEntitled, Web!OpensToTheEntitled, Web!Done, GuardInv, StageInv
<1> QED
  BY <1>1, GuardInvariance, PTL

(* For every request, FastAPI and Django give the same answer, when the    *)
(* middleware is installed.                                                *)
THEOREM FrameworksAgree == MCSpec => []GuardsAgree
<1>1. GuardInv => GuardsAgree
  BY DEF GuardsAgree, Web!GuardsAgree, Web!Done, Web!Frameworks, GuardInv, StageInv,
     AnswerOf
<1> QED
  BY <1>1, GuardInvariance, PTL
==============================================================================
