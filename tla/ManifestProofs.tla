--------------------------- MODULE ManifestProofs ---------------------------
(* What apply does to a tenant, for every manifest and any number of       *)
(* applies, faults and other writers: a rebind's outcome is what happened  *)
(* to the binding; an undisturbed apply runs to its end, whatever earlier  *)
(* ones left behind, and leaves nothing to do; and the network section's   *)
(* replacements change nothing the manifest leaves out, and converge too.  *)
EXTENDS MCManifest, Integers, FiniteSetTheorems, WellFoundedInduction, TLAPS

-----------------------------------------------------------------------------
(* The parts that a step of MCManifest belongs to.                         *)
LEMMA Parts ==
    [ShapePart \/ NetworkPart]_mcvars => [Next]_vars /\ [Network!Next]_network
  BY DEF ShapePart, NetworkPart, mcvars

-----------------------------------------------------------------------------
(* The sequences a plan is made of.                                        *)

(* Counting up to N: what holds of 0 and of the next number of each holds  *)
(* of all.  Said of a set, where the library says it of an operator.       *)
LEMMA CountingUp ==
  ASSUME NEW N \in Nat, NEW T, 0 \in T, \A n \in 1 .. N : n - 1 \in T => n \in T
  PROVE  0 .. N \subseteq T
<1> DEFINE Rest == (0 .. N) \ T
           R == { ss \in Nat \X Nat : ss[1] < ss[2] }
<1> SUFFICES ASSUME Rest # {} PROVE FALSE
  OBVIOUS
<1>1. IsWellFoundedOn(R, Nat) /\ Rest \subseteq Nat
  BY NatLessThanWellFounded DEF OpToRel
<1>2. \A a, b \in Nat : a < b => <<a, b>> \in R
  OBVIOUS
<1> HIDE DEF R
<1>3. PICK x \in Rest : \A y \in Rest : <<y, x>> \notin R
  BY <1>1, WFMin
<1>4. x \in 1 .. N
  OBVIOUS
<1>5. x - 1 \in Nat /\ x \in Nat /\ x - 1 < x
  BY <1>4
<1> HIDE DEF R
<1>6. x - 1 \notin Rest
  BY <1>2, <1>3, <1>5
<1> QED
  BY <1>4, <1>6

(* Doing N steps, one from the result of the other.                        *)
IsRun(f, N, S, s, g) ==
    f \in [0 .. N -> S] /\ f[0] = s /\ \A n \in 1 .. N : f[n] = g[n][f[n - 1]]

LEMMA StepByStep ==
  ASSUME NEW N \in Nat, NEW S, NEW s \in S, NEW g, g \in [1 .. N -> [S -> S]]
  PROVE  \E f : IsRun(f, N, S, s, g)
<1> DEFINE T == { m \in 0 .. N : \E f : IsRun(f, m, S, s, g) }
<1>1. 0 \in T
  <2>1. IsRun([i \in 0 .. 0 |-> s], 0, S, s, g)
    BY DEF IsRun
  <2> QED
    BY <2>1
<1>2. ASSUME NEW m \in 1 .. N, m - 1 \in T PROVE m \in T
  <2>1. PICK f : IsRun(f, m - 1, S, s, g)
    BY <1>2
  <2> DEFINE e == [i \in 0 .. m |-> IF i = m THEN g[m][f[m - 1]] ELSE f[i]]
  <2>2. f[m - 1] \in S /\ g[m] \in [S -> S]
    BY <2>1 DEF IsRun
  <2>3. g[m][f[m - 1]] \in S
    BY <2>2
  <2>4. e \in [0 .. m -> S] /\ e[0] = s
    BY <2>1, <2>3 DEF IsRun
  <2>5. ASSUME NEW n \in 1 .. m PROVE e[n] = g[n][e[n - 1]]
    <3>1. n - 1 \in 0 .. m /\ n - 1 # m /\ e[n - 1] = f[n - 1]
      OBVIOUS
    <3>2. CASE n = m
      BY <3>1, <3>2
    <3>3. CASE n # m
      <4>1. n \in 1 .. m - 1 /\ n \in 0 .. m
        BY <3>3
      <4> QED
        BY <2>1, <3>1, <3>3, <4>1 DEF IsRun
    <3> QED
      BY <3>2, <3>3
  <2>6. IsRun(e, m, S, s, g)
    BY <2>4, <2>5 DEF IsRun
  <2> QED
    BY <2>6
<1> HIDE DEF T
<1>3. 0 .. N \subseteq T
  BY <1>1, <1>2, CountingUp
<1> QED
  BY <1>3 DEF T

ParentTyped == parent \in [ResourceSet -> ResourceSet \cup {NoResource}]
ManifestTyped == wanted \in [Bindings -> Shape] /\ ParentTyped

LEMMA ResourcesFacts ==
  /\ Resources \in Seq(ResourceSet) /\ Len(Resources) \in Nat
  /\ \A n \in 1 .. Len(Resources) : Resources[n] \in ResourceSet
  /\ \A k \in ResourceSet : \E n \in 1 .. Len(Resources) : Resources[n] = k
<1>1. Resources \in Seq(ToSet(Resources))
  BY ManifestAssumption
<1> QED
  BY <1>1 DEF ResourceSet, ToSet

(* The climb from k that a chain is the end of.                            *)
IsClimb(climb, k, placed) ==
    /\ climb[0] = <<k>> /\ Chain(k, placed) = climb[Len(Resources)]
    /\ \A n \in 1 .. Len(Resources) : climb[n] = Climb(climb[n - 1], placed)
    /\ \A n \in 0 .. Len(Resources) :
          /\ climb[n] \in Seq(ResourceSet \ placed) /\ climb[n] # <<>>
          /\ climb[n][1] = k

LEMMA ChainRun ==
  ASSUME ParentTyped, NEW k \in ResourceSet, NEW placed, k \notin placed
  PROVE  \E climb : IsClimb(climb, k, placed)
<1> DEFINE N == Len(Resources)
           R == ResourceSet \ placed
           S == { c \in Seq(R) : c # <<>> /\ c[1] = k }
           g == [n \in 1 .. N |-> [c \in S |-> Climb(c, placed)]]
           climb == CHOOSE climb : climb =
                      [n \in 0 .. N |-> IF n = 0 THEN <<k>> ELSE Climb(climb[n - 1], placed)]
<1>1. N \in Nat /\ <<k>> \in S
  BY ResourcesFacts
<1>2. ASSUME NEW c \in S PROVE Climb(c, placed) \in S
  <2>1. c \in Seq(R) /\ c # <<>> /\ c[1] = k
    OBVIOUS
  <2>2. Last(c) \in R
    BY <2>1 DEF Last
  <2> DEFINE up == parent[Last(c)]
  <2>3. up \in ResourceSet \cup {NoResource}
    BY <2>2 DEF ParentTyped
  <2>4. CASE up = NoResource \/ up \in placed
    BY <2>4 DEF Climb
  <2>5. CASE ~(up = NoResource \/ up \in placed)
    <3>1. Climb(c, placed) = Append(c, up)
      BY <2>5 DEF Climb
    <3>2. up \in R
      BY <2>3, <2>5
    <3> HIDE DEF up, R
    <3>3. Append(c, up) \in Seq(R) /\ Append(c, up) # <<>> /\ Append(c, up)[1] = k
      BY <2>1, <3>2
    <3> QED
      BY <3>1, <3>3
  <2> QED
    BY <2>4, <2>5
<1> HIDE DEF S
<1>g. g \in [1 .. N -> [S -> S]]
  BY <1>2
<1>3. PICK f : IsRun(f, N, S, <<k>>, g)
  <2> HIDE DEF g, N
  <2> QED
    BY <1>1, <1>g, StepByStep
<1>4. f = [n \in 0 .. N |-> IF n = 0 THEN <<k>> ELSE Climb(f[n - 1], placed)]
  <2> HIDE DEF N
  <2>1. ASSUME NEW n \in 1 .. N PROVE f[n] = Climb(f[n - 1], placed)
    <3>1. n - 1 \in 0 .. N
      BY <1>1
    <3>2. f[n - 1] \in S
      BY <1>3, <3>1 DEF IsRun
    <3>3. g[n][f[n - 1]] = Climb(f[n - 1], placed)
      BY <3>2
    <3> QED
      BY <1>3, <3>3 DEF IsRun
  <2> QED
    BY <1>1, <1>3, <2>1 DEF IsRun
<1>5. climb = [n \in 0 .. N |-> IF n = 0 THEN <<k>> ELSE Climb(climb[n - 1], placed)]
  BY <1>4
<1>6. Chain(k, placed) = climb[N]
  BY DEF Chain
<1> HIDE DEF climb, S, N
<1> DEFINE T == { n \in 0 .. N : climb[n] \in S }
<1>7. 0 \in T
  BY <1>1, <1>5
<1>8. ASSUME NEW n \in 1 .. N, n - 1 \in T PROVE n \in T
  BY <1>1, <1>2, <1>5, <1>8
<1>9. 0 .. N \subseteq T
  <2> HIDE DEF T
  <2> QED
    BY <1>1, <1>7, <1>8, CountingUp
<1>10. \A n \in 1 .. N : climb[n] = Climb(climb[n - 1], placed)
  BY <1>1, <1>5
<1>11. climb[0] = <<k>> /\ \A n \in 0 .. N : climb[n] \in S
  BY <1>1, <1>5, <1>9
<1>12. IsClimb(climb, k, placed)
  BY <1>6, <1>10, <1>11 DEF IsClimb, S, N
<1> QED
  BY <1>12

(* A chain starts at its resource, and no key of it was placed before.     *)
LEMMA ChainFacts ==
  ASSUME ParentTyped, NEW k \in ResourceSet, NEW placed, k \notin placed
  PROVE  Chain(k, placed) \in Seq(ResourceSet \ placed) /\ k \in ToSet(Chain(k, placed))
<1>1. PICK climb : IsClimb(climb, k, placed)
  BY ChainRun
<1> DEFINE c == climb[Len(Resources)]
<1>a. Len(Resources) \in 0 .. Len(Resources)
  BY ResourcesFacts
<1>2. c \in Seq(ResourceSet \ placed) /\ c # <<>> /\ c[1] = k /\ Chain(k, placed) = c
  BY <1>1, <1>a DEF IsClimb
<1> HIDE DEF c
<1>3. 1 \in DOMAIN c
  BY <1>2
<1> QED
  BY <1>2, <1>3 DEF ToSet

(* Concatenation keeps the elements of what it is given, and their order.  *)
LEMMA JoinFacts ==
  ASSUME NEW S, NEW p \in Seq(S), NEW q \in Seq(S)
  PROVE  /\ p \o q \in Seq(S) /\ Len(p \o q) = Len(p) + Len(q)
         /\ \A k \in 1 .. Len(p) : k \in DOMAIN (p \o q) /\ (p \o q)[k] = p[k]
         /\ \A k \in 1 .. Len(q) : Len(p) + k \in DOMAIN (p \o q)
                                     /\ (p \o q)[Len(p) + k] = q[k]
         /\ \A k \in DOMAIN (p \o q) :
               k \in 1 .. Len(p) \/ (k - Len(p) \in 1 .. Len(q) /\ k > Len(p))
         /\ ToSet(p \o q) = ToSet(p) \cup ToSet(q)
<1> DEFINE r == p \o q
<1>1. /\ r \in Seq(S) /\ Len(r) = Len(p) + Len(q) /\ DOMAIN r = 1 .. Len(r)
      /\ Len(p) \in Nat /\ Len(q) \in Nat
      /\ DOMAIN p = 1 .. Len(p) /\ DOMAIN q = 1 .. Len(q)
      /\ \A k \in 1 .. Len(p) : r[k] = p[k]
      /\ \A k \in 1 .. Len(q) : r[Len(p) + k] = q[k]
  OBVIOUS
<1> HIDE DEF r
<1>2. /\ \A k \in 1 .. Len(p) : k \in DOMAIN r
      /\ \A k \in 1 .. Len(q) : Len(p) + k \in DOMAIN r
      /\ \A k \in DOMAIN r :
            k \in 1 .. Len(p) \/ (k - Len(p) \in 1 .. Len(q) /\ k > Len(p))
  BY <1>1
<1>3. ToSet(r) = ToSet(p) \cup ToSet(q)
  <2>1. \A k \in DOMAIN r : r[k] \in ToSet(p) \cup ToSet(q)
    <3> SUFFICES ASSUME NEW k \in DOMAIN r PROVE r[k] \in ToSet(p) \cup ToSet(q)
      OBVIOUS
    <3>1. CASE k \in 1 .. Len(p)
      BY <1>1, <3>1 DEF ToSet
    <3>2. CASE k - Len(p) \in 1 .. Len(q)
      <4>1. r[Len(p) + (k - Len(p))] = q[k - Len(p)]
        BY <1>1, <3>2
      <4>2. Len(p) + (k - Len(p)) = k
        BY <1>1
      <4> QED
        BY <1>1, <3>2, <4>1, <4>2 DEF ToSet
    <3> QED
      BY <1>2, <3>1, <3>2
  <2>2. \A k \in DOMAIN p : p[k] \in ToSet(r)
    BY <1>1, <1>2 DEF ToSet
  <2>3. \A k \in DOMAIN q : q[k] \in ToSet(r)
    <3> SUFFICES ASSUME NEW k \in DOMAIN q PROVE q[k] \in ToSet(r)
      OBVIOUS
    <3>1. Len(p) + k \in DOMAIN r /\ r[Len(p) + k] = q[k]
      BY <1>1, <1>2
    <3> QED
      BY <3>1 DEF ToSet
  <2> QED
    BY <2>1, <2>2, <2>3 DEF ToSet
<1> QED
  BY <1>1, <1>2, <1>3 DEF r

(* Reversing a sequence keeps its elements.                                *)
LEMMA ReverseFacts ==
  ASSUME NEW S, NEW p \in Seq(S)
  PROVE  Reverse(p) \in Seq(S) /\ ToSet(Reverse(p)) = ToSet(p)
<1> DEFINE r == Reverse(p)
           n == Len(p)
<1>1. n \in Nat /\ DOMAIN p = 1 .. n /\ \A k \in 1 .. n : n - k + 1 \in 1 .. n
  OBVIOUS
<1>2. /\ r \in Seq(S) /\ DOMAIN r = 1 .. n
      /\ \A k \in 1 .. n : r[k] = p[n - k + 1]
  BY <1>1 DEF Reverse
<1> HIDE DEF r, n
<1>3. ASSUME NEW k \in 1 .. n PROVE r[n - k + 1] = p[k]
  <2>1. n - (n - k + 1) + 1 = k
    BY <1>1
  <2> QED
    BY <1>1, <1>2, <2>1
<1>4. ToSet(r) = ToSet(p)
  BY <1>1, <1>2, <1>3 DEF ToSet
<1> QED
  BY <1>2, <1>4 DEF r

(* Placing a resource places it, and no other than resources.              *)
LEMMA PlaceFacts ==
  ASSUME ParentTyped, NEW o \in Seq(ResourceSet), NEW k \in ResourceSet
  PROVE  /\ Place(k, o) \in Seq(ResourceSet) /\ k \in ToSet(Place(k, o))
         /\ ToSet(o) \subseteq ToSet(Place(k, o))
<1>1. CASE k \in ToSet(o)
  BY <1>1 DEF Place
<1>2. CASE k \notin ToSet(o)
  <2> DEFINE c == Chain(k, ToSet(o))
  <2>1. c \in Seq(ResourceSet \ ToSet(o)) /\ k \in ToSet(c)
    BY <1>2, ChainFacts
  <2> HIDE DEF c
  <2>2. c \in Seq(ResourceSet)
    BY <2>1
  <2>3. Reverse(c) \in Seq(ResourceSet) /\ ToSet(Reverse(c)) = ToSet(c)
    BY <2>2, ReverseFacts
  <2>4. o \o Reverse(c) \in Seq(ResourceSet) /\ ToSet(o \o Reverse(c)) = ToSet(o) \cup ToSet(c)
    BY <2>3, JoinFacts
  <2>5. Place(k, o) = o \o Reverse(c)
    BY <1>2 DEF Place, c
  <2> QED
    BY <2>1, <2>4, <2>5
<1> QED
  BY <1>1, <1>2

(* One resource of the manifest after the other is placed.                 *)
LEMMA OrderRun ==
  ASSUME ParentTyped
  PROVE  /\ Order[0] = <<>>
         /\ \A n \in 1 .. Len(Resources) : Order[n] = Place(Resources[n], Order[n - 1])
         /\ \A n \in 0 .. Len(Resources) : Order[n] \in Seq(ResourceSet)
<1> DEFINE N == Len(Resources)
           S == Seq(ResourceSet)
           g == [n \in 1 .. N |-> [o \in S |-> Place(Resources[n], o)]]
<1>1. N \in Nat /\ <<>> \in S
  BY ResourcesFacts
<1>2. \A o \in S, k \in ResourceSet : Place(k, o) \in S
  BY PlaceFacts
<1> HIDE DEF S
<1>3. g \in [1 .. N -> [S -> S]]
  BY <1>2, ResourcesFacts
<1>4. PICK f : IsRun(f, N, S, <<>>, g)
  <2> HIDE DEF g, N
  <2> QED
    BY <1>1, <1>3, StepByStep
<1>5. f = [n \in 0 .. N |-> IF n = 0 THEN <<>> ELSE Place(Resources[n], f[n - 1])]
  <2> HIDE DEF N
  <2>1. ASSUME NEW n \in 1 .. N PROVE f[n] = Place(Resources[n], f[n - 1])
    <3>1. n - 1 \in 0 .. N
      BY <1>1
    <3>2. f[n - 1] \in S
      BY <1>4, <3>1 DEF IsRun
    <3>3. g[n][f[n - 1]] = Place(Resources[n], f[n - 1])
      BY <3>2
    <3> QED
      BY <1>4, <3>3 DEF IsRun
  <2> QED
    BY <1>1, <1>4, <2>1 DEF IsRun
<1>6. Order = [n \in 0 .. N |-> IF n = 0 THEN <<>> ELSE Place(Resources[n], Order[n - 1])]
  BY <1>5 DEF Order
<1> DEFINE T == { n \in 0 .. N : Order[n] \in S }
<1> HIDE DEF N
<1>7. Order[0] = <<>> /\ \A n \in 1 .. N : Order[n] = Place(Resources[n], Order[n - 1])
  BY <1>1, <1>6
<1>8. 0 \in T
  BY <1>1, <1>7
<1>9. ASSUME NEW n \in 1 .. N, n - 1 \in T PROVE n \in T
  <2>1. Resources[n] \in ResourceSet
    BY ResourcesFacts DEF N
  <2> QED
    BY <1>1, <1>2, <1>7, <1>9, <2>1
<1>10. 0 .. N \subseteq T
  <2> HIDE DEF T
  <2> QED
    BY <1>1, <1>8, <1>9, CountingUp
<1> QED
  BY <1>7, <1>10 DEF N, S

(* The order in which resources are planned is one of the resources, all   *)
(* of them.                                                                *)
LEMMA OrderFacts ==
  ASSUME ParentTyped
  PROVE  TopologicalOrder \in Seq(ResourceSet) /\ ToSet(TopologicalOrder) = ResourceSet
<1> DEFINE N == Len(Resources)
           T == { n \in 0 .. N : \A m \in 1 .. n : Resources[m] \in ToSet(Order[n]) }
<1>1. N \in Nat
  BY ResourcesFacts
<1> HIDE DEF N
<1>2. 0 \in T
  BY <1>1
<1>3. ASSUME NEW n \in 1 .. N, n - 1 \in T PROVE n \in T
  <2>1. /\ Resources[n] \in ResourceSet /\ Order[n - 1] \in Seq(ResourceSet)
        /\ Order[n] = Place(Resources[n], Order[n - 1])
    BY <1>1, ResourcesFacts, OrderRun DEF N
  <2>2. /\ Resources[n] \in ToSet(Order[n])
        /\ ToSet(Order[n - 1]) \subseteq ToSet(Order[n])
    BY <2>1, PlaceFacts
  <2>3. \A m \in 1 .. n : m = n \/ m \in 1 .. n - 1
    BY <1>1
  <2> QED
    BY <1>3, <2>2, <2>3
<1>4. N \in T
  <2> HIDE DEF T
  <2>1. 0 .. N \subseteq T
    BY <1>1, <1>2, <1>3, CountingUp
  <2> QED
    BY <1>1, <2>1
<1>5. /\ TopologicalOrder \in Seq(ResourceSet)
      /\ \A m \in 1 .. N : Resources[m] \in ToSet(TopologicalOrder)
  BY <1>1, <1>4, OrderRun DEF TopologicalOrder, N
<1>6. ToSet(TopologicalOrder) \subseteq ResourceSet
  BY <1>5 DEF ToSet
<1>7. ASSUME NEW k \in ResourceSet PROVE k \in ToSet(TopologicalOrder)
  BY <1>5, ResourcesFacts DEF N
<1> QED
  BY <1>5, <1>6, <1>7

(* What is injective has injective parts, and they share nothing; and the  *)
(* other way round.                                                        *)
LEMMA InjectiveParts ==
  ASSUME NEW S, NEW p \in Seq(S), NEW q \in Seq(S)
  PROVE  IsInjective(p \o q)
           <=> IsInjective(p) /\ IsInjective(q) /\ ToSet(p) \cap ToSet(q) = {}
<1> DEFINE r == p \o q
           m == Len(p)
           n == Len(q)
<1>1. /\ m \in Nat /\ n \in Nat /\ DOMAIN p = 1 .. m /\ DOMAIN q = 1 .. n
      /\ \A k \in 1 .. m : k \in DOMAIN r /\ r[k] = p[k]
      /\ \A k \in 1 .. n : m + k \in DOMAIN r /\ r[m + k] = q[k]
      /\ \A k \in DOMAIN r : k \in 1 .. m \/ (k - m \in 1 .. n /\ k > m)
      /\ \A k \in DOMAIN r : k \in Nat
  BY JoinFacts
<1> HIDE DEF r, m, n
<1>2. ASSUME IsInjective(r)
      PROVE  IsInjective(p) /\ IsInjective(q) /\ ToSet(p) \cap ToSet(q) = {}
  <2>1. \A j, k \in 1 .. m : r[j] = r[k] => j = k
    BY <1>1, <1>2 DEF IsInjective
  <2>2. \A j, k \in 1 .. n : r[m + j] = r[m + k] => m + j = m + k
    BY <1>1, <1>2 DEF IsInjective
  <2>3. \A j \in 1 .. m, k \in 1 .. n : r[j] = r[m + k] => j = m + k
    BY <1>1, <1>2 DEF IsInjective
  <2>4. \A j, k \in 1 .. n : m + j = m + k => j = k
    BY <1>1
  <2>5. \A j \in 1 .. m, k \in 1 .. n : j # m + k
    BY <1>1
  <2>6. \A j, k \in 1 .. m : p[j] = p[k] => j = k
    BY <1>1, <2>1
  <2>7. \A j, k \in 1 .. n : q[j] = q[k] => j = k
    <3> SUFFICES ASSUME NEW j \in 1 .. n, NEW k \in 1 .. n, q[j] = q[k] PROVE j = k
      OBVIOUS
    <3>1. r[m + j] = r[m + k]
      BY <1>1
    <3>2. m + j = m + k
      BY <2>2, <3>1
    <3> QED
      BY <1>1, <3>2
  <2>8. \A j \in 1 .. m, k \in 1 .. n : p[j] # q[k]
    BY <1>1, <2>3, <2>5
  <2> QED
    BY <1>1, <2>6, <2>7, <2>8 DEF IsInjective, ToSet
<1>3. ASSUME IsInjective(p), IsInjective(q), ToSet(p) \cap ToSet(q) = {}
      PROVE  IsInjective(r)
  <2> SUFFICES ASSUME NEW j \in DOMAIN r, NEW k \in DOMAIN r, r[j] = r[k] PROVE j = k
    BY DEF IsInjective
  <2>1. ASSUME NEW i \in DOMAIN r, i - m \in 1 .. n PROVE r[i] = q[i - m]
    <3>1. m + (i - m) = i
      BY <1>1
    <3> QED
      BY <1>1, <2>1, <3>1
  <2>2. CASE j \in 1 .. m /\ k \in 1 .. m
    BY <1>1, <1>3, <2>2 DEF IsInjective
  <2>3. CASE j - m \in 1 .. n /\ k - m \in 1 .. n
    <3>1. j - m = k - m
      BY <1>1, <1>3, <2>1, <2>3 DEF IsInjective
    <3> QED
      BY <1>1, <3>1
  <2>4. ASSUME NEW a \in DOMAIN r, NEW b \in DOMAIN r, a \in 1 .. m, b - m \in 1 .. n
        PROVE  r[a] # r[b]
    <3>1. r[a] \in ToSet(p)
      BY <1>1, <2>4 DEF ToSet
    <3>2. r[b] \in ToSet(q)
      BY <1>1, <2>1, <2>4 DEF ToSet
    <3> QED
      BY <1>3, <3>1, <3>2
  <2> QED
    BY <1>1, <2>2, <2>3, <2>4
<1> QED
  BY <1>2, <1>3 DEF r

(* Whatever an item of p names is in base, or earlier in p.                *)
InOrder(p, base) ==
    \A k \in DOMAIN p : p[k] \in DOMAIN Needs
        => Needs[p[k]] \subseteq base \cup { p[j] : j \in 1 .. k - 1 }

(* Two sequences in order, the second after the first, are one in order.   *)
LEMMA OrderedJoin ==
  ASSUME NEW S, NEW p \in Seq(S), NEW q \in Seq(S), NEW base,
         InOrder(p, base), InOrder(q, base \cup ToSet(p))
  PROVE  InOrder(p \o q, base)
<1> DEFINE r == p \o q
           m == Len(p)
<1>1. /\ m \in Nat /\ Len(q) \in Nat /\ DOMAIN p = 1 .. m /\ DOMAIN q = 1 .. Len(q)
      /\ \A k \in 1 .. m : k \in DOMAIN r /\ r[k] = p[k]
      /\ \A k \in 1 .. Len(q) : m + k \in DOMAIN r /\ r[m + k] = q[k]
      /\ \A k \in DOMAIN r : k \in 1 .. m \/ (k - m \in 1 .. Len(q) /\ k > m)
      /\ \A k \in DOMAIN r : k \in Nat
  BY JoinFacts
<1> HIDE DEF r, m
<1> SUFFICES ASSUME NEW k \in DOMAIN r, r[k] \in DOMAIN Needs
             PROVE  Needs[r[k]] \subseteq base \cup { r[j] : j \in 1 .. k - 1 }
  BY DEF InOrder, r
<1>2. CASE k \in 1 .. m
  <2>1. \A j \in 1 .. k - 1 : r[j] = p[j]
    BY <1>1, <1>2
  <2>2. Needs[p[k]] \subseteq base \cup { p[j] : j \in 1 .. k - 1 }
    BY <1>1, <1>2 DEF InOrder
  <2> QED
    BY <1>1, <1>2, <2>1, <2>2
<1>3. CASE k - m \in 1 .. Len(q) /\ k > m
  <2> DEFINE Earlier == { r[j] : j \in 1 .. k - 1 }
  <2>1. m + (k - m) = k
    BY <1>1
  <2>2. r[k] = q[k - m]
    BY <1>1, <1>3, <2>1
  <2>3. Needs[r[k]] \subseteq base \cup ToSet(p) \cup { q[j] : j \in 1 .. (k - m) - 1 }
    BY <1>1, <1>3, <2>2 DEF InOrder
  <2>4. \A j \in 1 .. m : j \in 1 .. k - 1 /\ r[j] = p[j]
    BY <1>1, <1>3
  <2>5. ToSet(p) \subseteq Earlier
    BY <1>1, <2>4 DEF ToSet
  <2>6. ASSUME NEW j \in 1 .. (k - m) - 1 PROVE q[j] \in Earlier
    <3>1. j \in 1 .. Len(q) /\ m + j \in 1 .. k - 1
      BY <1>1, <1>3
    <3>2. r[m + j] = q[j]
      BY <1>1, <3>1
    <3> QED
      BY <3>1, <3>2
  <2> QED
    BY <2>3, <2>5, <2>6
<1> QED
  BY <1>1, <1>2, <1>3

Named == Objects \cup Links \cup Bindings

(* The things a manifest names, by section.                                *)
LEMMA SectionFacts ==
  /\ Objects = ResourceSet \cup ToSet(Scopes) \cup ToSet(Permissions) \cup ToSet(Roles)
                 \cup ToSet(Groups) \cup ToSet(Users) \cup ToSet(Accounts)
  /\ Links = ToSet(Grants) \cup ToSet(Members)
  /\ Bindings = ToSet(GroupBindings) \cup ToSet(UserBindings) \cup ToSet(AccountBindings)
  /\ \A s \in {Resources, Scopes, Permissions, Roles, Grants, Groups, GroupBindings,
               Users, UserBindings, Accounts, AccountBindings, Members} : s \in Seq(Named)
<1> DEFINE A == ResourceSet \cup ToSet(Scopes) \cup ToSet(Permissions) \cup ToSet(Roles)
                  \cup ToSet(Grants) \cup ToSet(Groups) \cup ToSet(GroupBindings)
                  \cup ToSet(Users) \cup ToSet(UserBindings) \cup ToSet(Accounts)
                  \cup ToSet(AccountBindings) \cup ToSet(Members)
           sections == {Resources, Scopes, Permissions, Roles, Grants, Groups,
                        GroupBindings, Users, UserBindings, Accounts, AccountBindings,
                        Members}
<1>1. \A s \in sections : s \in Seq(ToSet(s)) /\ ToSet(s) \subseteq A
  BY ManifestAssumption DEF ResourceSet
<1>2. ASSUME NEW s \in sections PROVE s \in Seq(A)
  BY <1>1
<1> HIDE DEF A
<1>3. ASSUME NEW p \in Seq(A), NEW q \in Seq(A)
      PROVE  p \o q \in Seq(A) /\ ToSet(p \o q) = ToSet(p) \cup ToSet(q)
  BY JoinFacts
<1>4. Objects = ResourceSet \cup ToSet(Scopes) \cup ToSet(Permissions) \cup ToSet(Roles)
                  \cup ToSet(Groups) \cup ToSet(Users) \cup ToSet(Accounts)
  <2> DEFINE p1 == Resources \o Scopes
             p2 == p1 \o Permissions
             p3 == p2 \o Roles
             p4 == p3 \o Groups
             p5 == p4 \o Users
             p6 == p5 \o Accounts
  <2>1. p1 \in Seq(A) /\ ToSet(p1) = ToSet(Resources) \cup ToSet(Scopes)
    BY <1>2, <1>3
  <2> HIDE DEF p1
  <2>2. p2 \in Seq(A) /\ ToSet(p2) = ToSet(p1) \cup ToSet(Permissions)
    BY <1>2, <1>3, <2>1
  <2> HIDE DEF p2
  <2>3. p3 \in Seq(A) /\ ToSet(p3) = ToSet(p2) \cup ToSet(Roles)
    BY <1>2, <1>3, <2>2
  <2> HIDE DEF p3
  <2>4. p4 \in Seq(A) /\ ToSet(p4) = ToSet(p3) \cup ToSet(Groups)
    BY <1>2, <1>3, <2>3
  <2> HIDE DEF p4
  <2>5. p5 \in Seq(A) /\ ToSet(p5) = ToSet(p4) \cup ToSet(Users)
    BY <1>2, <1>3, <2>4
  <2> HIDE DEF p5
  <2>6. p6 \in Seq(A) /\ ToSet(p6) = ToSet(p5) \cup ToSet(Accounts)
    BY <1>2, <1>3, <2>5
  <2>7. Objects = ToSet(p6)
    BY DEF Objects, p1, p2, p3, p4, p5, p6
  <2> HIDE DEF p6
  <2> QED
    BY <2>1, <2>2, <2>3, <2>4, <2>5, <2>6, <2>7 DEF ResourceSet
<1>5. Links = ToSet(Grants) \cup ToSet(Members)
  BY <1>2, <1>3 DEF Links
<1>6. Bindings = ToSet(GroupBindings) \cup ToSet(UserBindings) \cup ToSet(AccountBindings)
  <2>1. /\ GroupBindings \o UserBindings \in Seq(A)
        /\ ToSet(GroupBindings \o UserBindings)
             = ToSet(GroupBindings) \cup ToSet(UserBindings)
    BY <1>2, <1>3
  <2> QED
    BY <1>2, <1>3, <2>1 DEF Bindings
<1>7. A = Named
  BY <1>4, <1>5, <1>6 DEF A, Named
<1> QED
  BY <1>2, <1>4, <1>5, <1>6, <1>7

(* What follows the resources: everything else, each thing once and after  *)
(* the things it names.                                                    *)
LEMMA LaterFacts ==
  /\ Later \in Seq(Named) /\ ResourceSet \cup ToSet(Later) = Named
  /\ IsInjective(Later) /\ ResourceSet \cap ToSet(Later) = {}
  /\ InOrder(Later, ResourceSet)
  /\ Objects \cap Links = {} /\ (Objects \cup Links) \cap Bindings = {}
  /\ DOMAIN Needs \subseteq ToSet(Later) /\ Bindings \subseteq DOMAIN Needs
  /\ \A i \in DOMAIN Needs : Needs[i] \subseteq Objects
<1> DEFINE
           p1 == Scopes
           p2 == p1 \o Permissions
           p3 == p2 \o Roles
           p4 == p3 \o Grants
           p5 == p4 \o Groups
           p6 == p5 \o GroupBindings
           p7 == p6 \o Users
           p8 == p7 \o UserBindings
           p9 == p8 \o Accounts
           p10 == p9 \o AccountBindings
           p11 == p10 \o Members
           Join(p, q, r) == /\ r \in Seq(Named) /\ ToSet(r) = ToSet(p) \cup ToSet(q)
                            /\ IsInjective(r)
                                 => IsInjective(p) /\ ToSet(p) \cap ToSet(q) = {}
<1>1. ASSUME NEW p \in Seq(Named), NEW q \in Seq(Named) PROVE Join(p, q, p \o q)
  BY JoinFacts, InjectiveParts
<1> HIDE DEF Join
<1>2. p1 \in Seq(Named) /\ InOrder(p1, ResourceSet)
  BY SectionFacts, ManifestAssumption DEF InOrder, ToSet
<1>j2. Join(p1, Permissions, p2) /\ p2 \in Seq(Named)
  BY <1>1, <1>2, SectionFacts DEF Join
<1>j3. Join(p2, Roles, p3) /\ p3 \in Seq(Named)
  BY <1>1, <1>j2, SectionFacts DEF Join
<1>j4. Join(p3, Grants, p4) /\ p4 \in Seq(Named)
  BY <1>1, <1>j3, SectionFacts DEF Join
<1>j5. Join(p4, Groups, p5) /\ p5 \in Seq(Named)
  BY <1>1, <1>j4, SectionFacts DEF Join
<1>j6. Join(p5, GroupBindings, p6) /\ p6 \in Seq(Named)
  BY <1>1, <1>j5, SectionFacts DEF Join
<1>j7. Join(p6, Users, p7) /\ p7 \in Seq(Named)
  BY <1>1, <1>j6, SectionFacts DEF Join
<1>j8. Join(p7, UserBindings, p8) /\ p8 \in Seq(Named)
  BY <1>1, <1>j7, SectionFacts DEF Join
<1>j9. Join(p8, Accounts, p9) /\ p9 \in Seq(Named)
  BY <1>1, <1>j8, SectionFacts DEF Join
<1>j10. Join(p9, AccountBindings, p10) /\ p10 \in Seq(Named)
  BY <1>1, <1>j9, SectionFacts DEF Join
<1>j11. Join(p10, Members, p11) /\ p11 \in Seq(Named)
  BY <1>1, <1>j10, SectionFacts DEF Join
<1>3. Later = p11
  BY DEF Later
<1> HIDE DEF p1, p2, p3, p4, p5, p6, p7, p8, p9, p10, p11
<1>4. IsInjective(p11) /\ ResourceSet \cap ToSet(p11) = {}
  <2>1. Resources \in Seq(Named) /\ p11 \in Seq(Named) /\ IsInjective(Resources \o p11)
    BY <1>3, <1>j11, SectionFacts, ManifestAssumption
  <2> QED
    BY <2>1, InjectiveParts DEF ResourceSet
<1>d11. IsInjective(p10) /\ ToSet(p10) \cap ToSet(Members) = {}
  BY <1>j11, <1>4 DEF Join
<1>d10. IsInjective(p9) /\ ToSet(p9) \cap ToSet(AccountBindings) = {}
  BY <1>j10, <1>d11 DEF Join
<1>d9. IsInjective(p8) /\ ToSet(p8) \cap ToSet(Accounts) = {}
  BY <1>j9, <1>d10 DEF Join
<1>d8. IsInjective(p7) /\ ToSet(p7) \cap ToSet(UserBindings) = {}
  BY <1>j8, <1>d9 DEF Join
<1>d7. IsInjective(p6) /\ ToSet(p6) \cap ToSet(Users) = {}
  BY <1>j7, <1>d8 DEF Join
<1>d6. IsInjective(p5) /\ ToSet(p5) \cap ToSet(GroupBindings) = {}
  BY <1>j6, <1>d7 DEF Join
<1>d5. IsInjective(p4) /\ ToSet(p4) \cap ToSet(Groups) = {}
  BY <1>j5, <1>d6 DEF Join
<1>d4. IsInjective(p3) /\ ToSet(p3) \cap ToSet(Grants) = {}
  BY <1>j4, <1>d5 DEF Join
<1>d3. IsInjective(p2) /\ ToSet(p2) \cap ToSet(Roles) = {}
  BY <1>j3, <1>d4 DEF Join
<1>d2. IsInjective(p1) /\ ToSet(p1) \cap ToSet(Permissions) = {}
  BY <1>j2, <1>d3 DEF Join
<1>t. /\ ToSet(p1) = ToSet(Scopes)
      /\ ToSet(p2) = ToSet(p1) \cup ToSet(Permissions)
      /\ ToSet(p3) = ToSet(p2) \cup ToSet(Roles)
      /\ ToSet(p4) = ToSet(p3) \cup ToSet(Grants)
      /\ ToSet(p5) = ToSet(p4) \cup ToSet(Groups)
      /\ ToSet(p6) = ToSet(p5) \cup ToSet(GroupBindings)
      /\ ToSet(p7) = ToSet(p6) \cup ToSet(Users)
      /\ ToSet(p8) = ToSet(p7) \cup ToSet(UserBindings)
      /\ ToSet(p9) = ToSet(p8) \cup ToSet(Accounts)
      /\ ToSet(p10) = ToSet(p9) \cup ToSet(AccountBindings)
      /\ ToSet(p11) = ToSet(p10) \cup ToSet(Members)
  BY <1>j2, <1>j3, <1>j4, <1>j5, <1>j6, <1>j7, <1>j8, <1>j9, <1>j10, <1>j11 DEF Join, p1
<1>5. ResourceSet \cup ToSet(p11) = Named
  BY <1>t, SectionFacts DEF Named
<1>6. Objects \cap Links = {} /\ (Objects \cup Links) \cap Bindings = {}
  BY <1>4, <1>t, SectionFacts,
     <1>d2, <1>d3, <1>d4, <1>d5, <1>d6, <1>d7, <1>d8, <1>d9, <1>d10, <1>d11
<1>7. /\ \A i \in ToSet(Scopes) : Needs[i] \subseteq ResourceSet
      /\ \A i \in ToSet(Grants) :
            Needs[i] \subseteq ToSet(Scopes) \cup ToSet(Permissions) \cup ToSet(Roles)
      /\ \A i \in ToSet(GroupBindings) : Needs[i] \subseteq ToSet(Roles) \cup ToSet(Groups)
      /\ \A i \in ToSet(UserBindings) : Needs[i] \subseteq ToSet(Roles) \cup ToSet(Users)
      /\ \A i \in ToSet(AccountBindings) :
            Needs[i] \subseteq ToSet(Roles) \cup ToSet(Accounts)
      /\ \A i \in ToSet(Members) : Needs[i] \subseteq ToSet(Groups) \cup ToSet(Users)
      /\ DOMAIN Needs = ToSet(Scopes) \cup Links \cup Bindings
  <2>1. ASSUME NEW p \in Seq(Named), NEW q \in Seq(Named)
        PROVE  p \o q \in Seq(Named) /\ ToSet(p \o q) = ToSet(p) \cup ToSet(q)
    BY JoinFacts
  <2>2. /\ Scopes \o Permissions \in Seq(Named)
        /\ ToSet(Scopes \o Permissions) = ToSet(Scopes) \cup ToSet(Permissions)
    BY <2>1, SectionFacts
  <2>3. /\ ToSet(Scopes \o Permissions \o Roles)
             = ToSet(Scopes) \cup ToSet(Permissions) \cup ToSet(Roles)
        /\ ToSet(Roles \o Groups) = ToSet(Roles) \cup ToSet(Groups)
        /\ ToSet(Roles \o Users) = ToSet(Roles) \cup ToSet(Users)
        /\ ToSet(Roles \o Accounts) = ToSet(Roles) \cup ToSet(Accounts)
        /\ ToSet(Groups \o Users) = ToSet(Groups) \cup ToSet(Users)
    BY <2>1, <2>2, SectionFacts
  <2> QED
    BY <2>3, ManifestAssumption
<1>f. ASSUME NEW p \in Seq(Named), NEW q \in Seq(Named), InOrder(p, ResourceSet),
              \A i \in ToSet(q) : i \in DOMAIN Needs
                 => Needs[i] \subseteq ResourceSet \cup ToSet(p)
      PROVE  InOrder(p \o q, ResourceSet)
  <2>1. \A k \in DOMAIN q : q[k] \in ToSet(q)
    BY DEF ToSet
  <2>2. InOrder(q, ResourceSet \cup ToSet(p))
    BY <1>f, <2>1 DEF InOrder
  <2> QED
    BY <1>f, <2>2, OrderedJoin
<1>o2. InOrder(p2, ResourceSet)
  <2>1. \A i \in ToSet(Permissions) : i \in DOMAIN Needs
                => Needs[i] \subseteq ResourceSet \cup ToSet(p1)
    BY <1>4, <1>6, <1>7, <1>t, <1>d2, SectionFacts
  <2>2. p1 \in Seq(Named) /\ Permissions \in Seq(Named) /\ p2 = p1 \o Permissions
    BY <1>2, SectionFacts DEF p2
  <2> QED
    BY <1>2, <2>1, <2>2, <1>f
<1>o3. InOrder(p3, ResourceSet)
  <2>1. \A i \in ToSet(Roles) : i \in DOMAIN Needs
                => Needs[i] \subseteq ResourceSet \cup ToSet(p2)
    BY <1>4, <1>6, <1>7, <1>t, <1>d3, SectionFacts
  <2>2. p2 \in Seq(Named) /\ Roles \in Seq(Named) /\ p3 = p2 \o Roles
    BY <1>j2, SectionFacts DEF p3
  <2> QED
    BY <1>o2, <2>1, <2>2, <1>f
<1>o4. InOrder(p4, ResourceSet)
  <2>1. \A i \in ToSet(Grants) : i \in DOMAIN Needs
                => Needs[i] \subseteq ResourceSet \cup ToSet(p3)
    BY <1>t, <1>7
  <2>2. p3 \in Seq(Named) /\ Grants \in Seq(Named) /\ p4 = p3 \o Grants
    BY <1>j3, SectionFacts DEF p4
  <2> QED
    BY <1>o3, <2>1, <2>2, <1>f
<1>o5. InOrder(p5, ResourceSet)
  <2>1. \A i \in ToSet(Groups) : i \in DOMAIN Needs
                => Needs[i] \subseteq ResourceSet \cup ToSet(p4)
    BY <1>4, <1>6, <1>7, <1>t, <1>d5, SectionFacts
  <2>2. p4 \in Seq(Named) /\ Groups \in Seq(Named) /\ p5 = p4 \o Groups
    BY <1>j4, SectionFacts DEF p5
  <2> QED
    BY <1>o4, <2>1, <2>2, <1>f
<1>o6. InOrder(p6, ResourceSet)
  <2>1. \A i \in ToSet(GroupBindings) : i \in DOMAIN Needs
                => Needs[i] \subseteq ResourceSet \cup ToSet(p5)
    BY <1>t, <1>7
  <2>2. p5 \in Seq(Named) /\ GroupBindings \in Seq(Named) /\ p6 = p5 \o GroupBindings
    BY <1>j5, SectionFacts DEF p6
  <2> QED
    BY <1>o5, <2>1, <2>2, <1>f
<1>o7. InOrder(p7, ResourceSet)
  <2>1. \A i \in ToSet(Users) : i \in DOMAIN Needs
                => Needs[i] \subseteq ResourceSet \cup ToSet(p6)
    BY <1>4, <1>6, <1>7, <1>t, <1>d7, SectionFacts
  <2>2. p6 \in Seq(Named) /\ Users \in Seq(Named) /\ p7 = p6 \o Users
    BY <1>j6, SectionFacts DEF p7
  <2> QED
    BY <1>o6, <2>1, <2>2, <1>f
<1>o8. InOrder(p8, ResourceSet)
  <2>1. \A i \in ToSet(UserBindings) : i \in DOMAIN Needs
                => Needs[i] \subseteq ResourceSet \cup ToSet(p7)
    BY <1>t, <1>7
  <2>2. p7 \in Seq(Named) /\ UserBindings \in Seq(Named) /\ p8 = p7 \o UserBindings
    BY <1>j7, SectionFacts DEF p8
  <2> QED
    BY <1>o7, <2>1, <2>2, <1>f
<1>o9. InOrder(p9, ResourceSet)
  <2>1. \A i \in ToSet(Accounts) : i \in DOMAIN Needs
                => Needs[i] \subseteq ResourceSet \cup ToSet(p8)
    BY <1>4, <1>6, <1>7, <1>t, <1>d9, SectionFacts
  <2>2. p8 \in Seq(Named) /\ Accounts \in Seq(Named) /\ p9 = p8 \o Accounts
    BY <1>j8, SectionFacts DEF p9
  <2> QED
    BY <1>o8, <2>1, <2>2, <1>f
<1>o10. InOrder(p10, ResourceSet)
  <2>1. \A i \in ToSet(AccountBindings) : i \in DOMAIN Needs
                => Needs[i] \subseteq ResourceSet \cup ToSet(p9)
    BY <1>t, <1>7
  <2>2. p9 \in Seq(Named) /\ AccountBindings \in Seq(Named) /\ p10 = p9 \o AccountBindings
    BY <1>j9, SectionFacts DEF p10
  <2> QED
    BY <1>o9, <2>1, <2>2, <1>f
<1>o11. InOrder(p11, ResourceSet)
  <2>1. \A i \in ToSet(Members) : i \in DOMAIN Needs
                => Needs[i] \subseteq ResourceSet \cup ToSet(p10)
    BY <1>t, <1>7
  <2>2. p10 \in Seq(Named) /\ Members \in Seq(Named) /\ p11 = p10 \o Members
    BY <1>j10, SectionFacts DEF p11
  <2> QED
    BY <1>o10, <2>1, <2>2, <1>f
<1>8. DOMAIN Needs \subseteq ToSet(p11) /\ Bindings \subseteq DOMAIN Needs
  BY <1>7, <1>t, SectionFacts
<1>9. \A i \in DOMAIN Needs : Needs[i] \subseteq Objects
  BY <1>7, SectionFacts
<1> QED
  BY <1>3, <1>4, <1>5, <1>6, <1>8, <1>9, <1>j11, <1>o11

(* The manifest's resources are no more than it states.                    *)
LEMMA FewResources ==
  /\ IsFiniteSet(ResourceSet)
  /\ \A c \in Seq(ResourceSet) : Len(c) = Len(Resources) + 1 => ~IsInjective(c)
<1> DEFINE N == Len(Resources)
<1>1. N \in Nat /\ Resources \in [1 .. N -> ResourceSet]
  BY ResourcesFacts
<1> HIDE DEF N
<1>2. Resources \in Surjection(1 .. N, ResourceSet)
  BY <1>1, ResourcesFacts DEF Surjection, N
<1>3. ExistsSurjection(1 .. N, ResourceSet)
  BY <1>2 DEF ExistsSurjection
<1>4. IsFiniteSet(1 .. N) /\ IsFiniteSet(1 .. N + 1) /\ Cardinality(1 .. N + 1) = N + 1
  BY <1>1, FS_Interval
<1>5. IsFiniteSet(ResourceSet)
  <2> HIDE DEF N
  <2> QED
    BY ONLY <1>2, <1>4, FS_Surjection
<1>6. Cardinality(ResourceSet) <= N /\ Cardinality(ResourceSet) \in Nat
  BY <1>1, <1>3, <1>5, FS_SurjCardinalityBound, FS_CardinalityType
<1>7. ASSUME NEW c \in Seq(ResourceSet), Len(c) = N + 1 PROVE ~IsInjective(c)
  <2>1. c \in [1 .. N + 1 -> ResourceSet] /\ DOMAIN c = 1 .. N + 1
    BY <1>7
  <2>2. Cardinality(ResourceSet) < Cardinality(1 .. N + 1)
    BY <1>1, <1>4, <1>6
  <2>3. \E x, y \in 1 .. N + 1 : x # y /\ c[x] = c[y]
    BY <1>4, <1>5, <2>1, <2>2, FS_PigeonHole
  <2> QED
    BY <2>1, <2>3 DEF IsInjective
<1> QED
  BY <1>5, <1>7 DEF N

(* Whoever follows r in c is r's parent, up to the end of c.               *)
Climbs(c) == \A i \in 1 .. Len(c) - 1 : c[i + 1] = parent[c[i]]
Ended(c, placed) == parent[c[Len(c)]] \in placed \cup {NoResource}

(* A chain without a cycle goes from a resource to the last of its parents *)
(* that is not placed yet.                                                 *)
LEMMA ChainClimbs ==
  ASSUME ParentTyped, NEW k \in ResourceSet, NEW placed, k \notin placed,
         IsInjective(Chain(k, placed))
  PROVE  /\ Climbs(Chain(k, placed)) /\ Ended(Chain(k, placed), placed)
         /\ Chain(k, placed) # <<>>
<1> DEFINE N == Len(Resources)
<1>c. PICK climb : IsClimb(climb, k, placed)
  BY ChainRun
<1>1. /\ climb[0] = <<k>> /\ Chain(k, placed) = climb[N]
      /\ \A n \in 1 .. N : climb[n] = Climb(climb[n - 1], placed)
      /\ \A n \in 0 .. N :
            /\ climb[n] \in Seq(ResourceSet \ placed) /\ climb[n] # <<>>
            /\ climb[n][1] = k
  BY <1>c DEF IsClimb
<1>2. N \in Nat
  BY ResourcesFacts
<1> HIDE DEF N
<1> DEFINE Fits(c, n) == Climbs(c) /\ (Ended(c, placed) \/ Len(c) = n + 1)
           T == { n \in 0 .. N : Fits(climb[n], n) }
<1>3. 0 \in T
  <2>1. Climbs(<<k>>) /\ Len(<<k>>) = 0 + 1
    BY DEF Climbs
  <2>2. Fits(<<k>>, 0)
    BY <2>1
  <2>3. climb[0] = <<k>> /\ 0 \in 0 .. N
    BY <1>1, <1>2
  <2> HIDE DEF Fits
  <2> QED
    BY <2>2, <2>3
<1>4. ASSUME NEW n \in 1 .. N, n - 1 \in T PROVE n \in T
  <2> DEFINE c == climb[n - 1]
             up == parent[Last(c)]
  <2>1. n \in Nat /\ n \in 0 .. N /\ n - 1 \in 0 .. N
    BY <1>2
  <2>2. /\ c \in Seq(ResourceSet \ placed) /\ c # <<>>
        /\ climb[n] = Climb(c, placed) /\ Fits(c, n - 1)
    BY <1>1, <1>4, <2>1
  <2> HIDE DEF c
  <2>3. Len(c) \in Nat \ {0} /\ Last(c) = c[Len(c)]
    BY <2>2 DEF Last
  <2>4. CASE Ended(c, placed)
    BY <2>1, <2>2, <2>3, <2>4 DEF Climb, Ended
  <2>5. CASE ~Ended(c, placed)
    <3> DEFINE d == Append(c, up)
    <3>1. climb[n] = d /\ Len(c) = n
      BY <2>1, <2>2, <2>3, <2>5 DEF Climb, Ended
    <3>2. /\ Len(d) = n + 1 /\ d[n + 1] = up
          /\ \A i \in 1 .. n : d[i] = c[i]
      BY <2>2, <3>1
    <3>3. up = parent[c[n]]
      BY <2>3, <3>1
    <3> HIDE DEF d, up
    <3>4. ASSUME NEW i \in 1 .. Len(d) - 1 PROVE d[i + 1] = parent[d[i]]
      <4>1. CASE i = n
        BY <2>1, <3>2, <3>3, <4>1
      <4>2. CASE i # n
        <5>1. i \in 1 .. Len(c) - 1 /\ i + 1 \in 1 .. n /\ i \in 1 .. n
          BY <2>1, <3>1, <3>2, <4>2
        <5> QED
          BY <2>2, <3>2, <5>1 DEF Climbs
      <4> QED
        BY <4>1, <4>2
    <3> QED
      BY <2>1, <3>1, <3>2, <3>4 DEF Climbs
  <2> QED
    BY <2>4, <2>5
<1>5. N \in T
  <2> HIDE DEF T
  <2>1. 0 .. N \subseteq T
    BY <1>2, <1>3, <1>4, CountingUp
  <2> QED
    BY <1>2, <2>1
<1>6. climb[N] \in Seq(ResourceSet) /\ climb[N] # <<>> /\ IsInjective(climb[N])
  <2>1. Seq(ResourceSet \ placed) \subseteq Seq(ResourceSet)
    OBVIOUS
  <2> QED
    BY <1>1, <1>2, <2>1
<1>7. Len(climb[N]) # N + 1
  BY <1>6, FewResources DEF N
<1> QED
  BY <1>1, <1>5, <1>6, <1>7

(* A resource's parent is earlier in p.                                    *)
ParentsFirst(p) ==
    \A k \in DOMAIN p :
        parent[p[k]] # NoResource => \E j \in 1 .. k - 1 : p[j] = parent[p[k]]

LEMMA PlaceKeepsOrder ==
  ASSUME ParentTyped, NoResource \notin ResourceSet, NEW k \in ResourceSet, NEW o \in Seq(ResourceSet),
         ParentsFirst(o), IsInjective(Place(k, o))
  PROVE  ParentsFirst(Place(k, o))
<1> SUFFICES ASSUME k \notin ToSet(o) PROVE ParentsFirst(Place(k, o))
  BY DEF Place
<1> DEFINE c == Chain(k, ToSet(o))
           e == Reverse(c)
           m == Len(o)
           n == Len(c)
           r == o \o e
<1>1. Place(k, o) = r
  BY DEF Place
<1>2. c \in Seq(ResourceSet)
  <2>1. Seq(ResourceSet \ ToSet(o)) \subseteq Seq(ResourceSet)
    OBVIOUS
  <2> QED
    BY <2>1, ChainFacts
<1> HIDE DEF c
<1>3. /\ e \in Seq(ResourceSet) /\ Len(e) = n /\ n \in Nat /\ m \in Nat
      /\ DOMAIN e = 1 .. n /\ DOMAIN c = 1 .. n /\ DOMAIN o = 1 .. m
      /\ \A i \in 1 .. n : e[i] = c[n - i + 1]
  BY <1>2 DEF Reverse
<1> HIDE DEF e
<1>4. /\ \A i \in 1 .. m : i \in DOMAIN r /\ r[i] = o[i]
      /\ \A i \in 1 .. n : m + i \in DOMAIN r /\ r[m + i] = e[i]
      /\ \A i \in DOMAIN r : i \in 1 .. m \/ (i - m \in 1 .. n /\ i > m)
      /\ \A i \in DOMAIN r : i \in Nat
      /\ IsInjective(e)
  <2>1. DOMAIN r = 1 .. Len(r)
    BY <1>3
  <2> QED
    BY <1>1, <1>3, <2>1, JoinFacts, InjectiveParts
<1>5. IsInjective(c)
  <2> SUFFICES ASSUME NEW i \in 1 .. n, NEW j \in 1 .. n, c[i] = c[j] PROVE i = j
    BY <1>3 DEF IsInjective
  <2>1. /\ n - i + 1 \in 1 .. n /\ n - j + 1 \in 1 .. n
        /\ n - (n - i + 1) + 1 = i /\ n - (n - j + 1) + 1 = j
    BY <1>3
  <2>2. e[n - i + 1] = e[n - j + 1]
    BY <1>3, <2>1
  <2>3. n - i + 1 = n - j + 1
    BY <1>3, <1>4, <2>1, <2>2 DEF IsInjective
  <2> QED
    BY <1>3, <2>3
<1>6. Climbs(c) /\ Ended(c, ToSet(o)) /\ n # 0
  BY <1>2, <1>5, ChainClimbs DEF c
<1> HIDE DEF r
<1> SUFFICES ASSUME NEW i \in DOMAIN r, parent[r[i]] # NoResource
             PROVE  \E j \in 1 .. i - 1 : r[j] = parent[r[i]]
  BY <1>1 DEF ParentsFirst
<1>7. CASE i \in 1 .. m
  <2>1. PICK j \in 1 .. i - 1 : o[j] = parent[o[i]]
    BY <1>3, <1>4, <1>7 DEF ParentsFirst
  <2>2. j \in 1 .. m
    BY <1>3, <1>7
  <2> QED
    BY <1>4, <1>7, <2>1, <2>2
<1>8. CASE i - m \in 1 .. n /\ i > m
  <2> DEFINE h == i - m
             l == n - h + 1
  <2>1. /\ h \in 1 .. n /\ m + h = i /\ l \in 1 .. n
        /\ i \in Nat /\ h \in Nat
    BY <1>3, <1>4, <1>8
  <2>2. r[i] = c[l]
    BY <1>3, <1>4, <2>1
  <2>3. CASE l = n
    <3>1. parent[r[i]] \in ToSet(o)
      BY <1>6, <2>2, <2>3 DEF Ended
    <3>2. PICK j \in 1 .. m : o[j] = parent[r[i]]
      BY <1>3, <3>1 DEF ToSet
    <3>3. j \in 1 .. i - 1 /\ r[j] = o[j]
      BY <1>3, <1>4, <1>8, <3>2
    <3> QED
      BY <3>2, <3>3
  <2>4. CASE l # n
    <3>a. h \in 2 .. n
      BY <1>3, <2>1, <2>4
    <3>1. l \in 1 .. n - 1 /\ h - 1 \in 1 .. n /\ n - (h - 1) + 1 = l + 1
      <4> HIDE DEF h
      <4> QED
        BY <1>3, <2>1, <3>a
    <3>2. c[l + 1] = parent[r[i]]
      BY <1>6, <2>2, <3>1 DEF Climbs
    <3>3. r[m + (h - 1)] = c[l + 1] /\ m + (h - 1) \in 1 .. i - 1
      <4>1. m + (h - 1) \in 1 .. i - 1
        <5> HIDE DEF h, m
        <5> QED
          BY <1>3, <2>1, <3>a
      <4>2. r[m + (h - 1)] = e[h - 1] /\ e[h - 1] = c[n - (h - 1) + 1]
        BY <1>3, <1>4, <3>1
      <4> QED
        BY <3>1, <4>1, <4>2
    <3> QED
      BY <3>2, <3>3
  <2> QED
    BY <2>3, <2>4
<1> QED
  BY <1>4, <1>7, <1>8

(* topological_order: a parent before its children.                        *)
LEMMA ParentsComeFirst ==
  ASSUME ParentTyped, ~HasCycle
  PROVE  ParentsFirst(TopologicalOrder)
<1> DEFINE N == Len(Resources)
           T == { n \in 0 .. N : IsInjective(Order[n]) => ParentsFirst(Order[n]) }
<1>0. NoResource \notin ResourceSet
  BY ManifestAssumption, SectionFacts
<1>1. N \in Nat
  BY ResourcesFacts
<1>2. 0 \in T
  BY <1>1, OrderRun DEF ParentsFirst
<1>3. ASSUME NEW n \in 1 .. N, n - 1 \in T PROVE n \in T
  <2> SUFFICES ASSUME IsInjective(Order[n]) PROVE ParentsFirst(Order[n])
    BY <1>1
  <2> DEFINE o == Order[n - 1]
             k == Resources[n]
  <2>1. n - 1 \in 0 .. N
    BY <1>1
  <2>2. o \in Seq(ResourceSet) /\ Order[n] = Place(k, o) /\ k \in ResourceSet
    BY <2>1, OrderRun, ResourcesFacts
  <2>3. IsInjective(o) => ParentsFirst(o)
    BY <1>3
  <2> HIDE DEF o, k, T
  <2>4. IsInjective(o)
    <3>1. CASE k \in ToSet(o)
      BY <2>2, <3>1 DEF Place
    <3>2. CASE k \notin ToSet(o)
      <4> DEFINE c == Chain(k, ToSet(o))
      <4>1. Seq(ResourceSet \ ToSet(o)) \subseteq Seq(ResourceSet)
        OBVIOUS
      <4>2. c \in Seq(ResourceSet)
        BY <2>2, <3>2, <4>1, ChainFacts
      <4>3. Order[n] = o \o Reverse(c)
        BY <2>2, <3>2 DEF Place
      <4> HIDE DEF c
      <4> QED
        BY <2>2, <4>2, <4>3, ReverseFacts, InjectiveParts
    <3> QED
      BY <3>1, <3>2
  <2> QED
    BY <1>0, <2>2, <2>3, <2>4, PlaceKeepsOrder
<1>4. N \in T
  <2> HIDE DEF T
  <2>1. 0 .. N \subseteq T
    BY <1>1, <1>2, <1>3, CountingUp
  <2> QED
    BY <1>1, <2>1
<1> QED
  BY <1>4 DEF TopologicalOrder, HasCycle

(* A plan is all that the manifest states, each thing once, and anything   *)
(* that names others after them.                                           *)
LEMMA ItemsFacts ==
  ASSUME ParentTyped, ~HasCycle
  PROVE  /\ Items \in Seq(Named) /\ ToSet(Items) = Named /\ IsInjective(Items)
         /\ InOrder(Items, {})
<1> DEFINE first == TopologicalOrder
<1>1. first \in Seq(ResourceSet) /\ ToSet(first) = ResourceSet /\ IsInjective(first)
  BY OrderFacts DEF HasCycle
<1>2. Items = first \o Later
  BY DEF Items
<1> HIDE DEF first
<1>3. first \in Seq(Named)
  BY <1>1, LaterFacts
<1>4. InOrder(first, {})
  <2>1. \A k \in DOMAIN first : first[k] \in ToSet(first)
    BY DEF ToSet
  <2> QED
    BY <1>1, <2>1, LaterFacts DEF InOrder
<1>5. {} \cup ToSet(first) = ResourceSet
  BY <1>1
<1>6. InOrder(Items, {})
  BY <1>2, <1>3, <1>4, <1>5, LaterFacts, OrderedJoin
<1>7. Items \in Seq(Named) /\ ToSet(Items) = ToSet(first) \cup ToSet(Later)
  BY <1>2, <1>3, LaterFacts, JoinFacts
<1>8. IsInjective(Items)
  BY <1>1, <1>2, <1>3, LaterFacts, InjectiveParts
<1> QED
  BY <1>1, <1>6, <1>7, <1>8, LaterFacts

(* And whatever the write of an item needs the id of: a child its parent's *)
(* and a scoped binding its resource's, as well.                           *)
LEMMA NeededFirst ==
  ASSUME ManifestTyped, ~HasCycle, NEW k \in DOMAIN Items
  PROVE  NeededBy(Items[k]) \subseteq Objects \cap { Items[j] : j \in 1 .. k - 1 }
<1> DEFINE first == TopologicalOrder
           m == Len(first)
           i == Items[k]
           Earlier == { Items[j] : j \in 1 .. k - 1 }
<1>1. /\ ParentTyped /\ NoResource \notin ResourceSet /\ ResourceSet \subseteq Objects
      /\ wanted \in [Bindings -> Shape]
  BY ManifestAssumption, SectionFacts DEF ManifestTyped
<1>2. first \in Seq(ResourceSet) /\ ToSet(first) = ResourceSet /\ ParentsFirst(first)
  BY <1>1, OrderFacts, ParentsComeFirst
<1>3. i \in Named /\ InOrder(Items, {}) /\ Items = first \o Later
  BY <1>1, ItemsFacts DEF Items
<1> HIDE DEF first
<1>4. /\ m \in Nat /\ k \in Nat /\ DOMAIN first = 1 .. m
      /\ \A j \in 1 .. m : j \in DOMAIN Items /\ Items[j] = first[j]
      /\ k \in 1 .. m \/ (k > m /\ i \in ToSet(Later))
  <2>1. first \in Seq(Named)
    BY <1>2, LaterFacts
  <2>2. /\ \A j \in 1 .. m : j \in DOMAIN Items /\ Items[j] = first[j]
        /\ \A j \in 1 .. Len(Later) : Items[m + j] = Later[j]
        /\ k \in 1 .. m \/ (k - m \in 1 .. Len(Later) /\ k > m)
    BY <1>3, <2>1, LaterFacts, JoinFacts
  <2>3. m \in Nat /\ DOMAIN first = 1 .. m /\ k \in Nat
    BY <1>2, <1>3, ItemsFacts, <1>1
  <2>4. ASSUME k - m \in 1 .. Len(Later) PROVE i \in ToSet(Later)
    <3>0. m + (k - m) = k
      BY <2>3
    <3>1. Items[m + (k - m)] = Later[k - m]
      BY <2>2, <2>4
    <3>2. k - m \in DOMAIN Later
      BY <2>4, LaterFacts
    <3> QED
      BY <3>0, <3>1, <3>2 DEF ToSet
  <2>5. k > m /\ k - m \in 1 .. Len(Later) => i \in ToSet(Later)
    BY <2>4
  <2> QED
    BY <2>2, <2>3, <2>5, Zenon
<1>5. ASSUME k > m PROVE ResourceSet \subseteq Earlier
  <2> SUFFICES ASSUME NEW r \in ResourceSet PROVE r \in Earlier
    OBVIOUS
  <2>1. PICK j \in 1 .. m : first[j] = r
    BY <1>2, <1>4 DEF ToSet
  <2>2. j \in 1 .. k - 1
    BY <1>4, <1>5
  <2> QED
    BY <1>4, <2>1, <2>2
<1>6. i \in DOMAIN Needs => Needs[i] \subseteq Objects \cap Earlier
  BY <1>3, LaterFacts DEF InOrder
<1>7. CASE i \in ResourceSet
  <2>1. k \in 1 .. m
    BY <1>4, <1>7, LaterFacts
  <2>2. parent[i] # NoResource => \E j \in 1 .. k - 1 : first[j] = parent[i]
    BY <1>4, <2>1, <1>2 DEF ParentsFirst
  <2>3. \A j \in 1 .. k - 1 : j \in 1 .. m
    BY <1>4, <2>1
  <2>4. parent[i] \in ResourceSet \cup {NoResource}
    BY <1>1, <1>7 DEF ParentTyped
  <2>5. parent[i] # NoResource => parent[i] \in Earlier /\ parent[i] \in Objects
    BY <1>1, <1>4, <2>2, <2>3, <2>4
  <2> QED
    BY <1>7, <2>5 DEF NeededBy
<1>8. CASE i \in Bindings
  <2>1. i \notin ResourceSet /\ k > m
    BY <1>1, <1>2, <1>4, <1>8, LaterFacts DEF ToSet
  <2>2. wanted[i].resource \in ResourceSet \cup {NoResource} /\ i \in DOMAIN Needs
    BY <1>1, <1>8, LaterFacts DEF Shape
  <2> QED
    BY <1>1, <1>5, <1>6, <1>8, <2>1, <2>2 DEF NeededBy
<1>9. CASE i \notin ResourceSet /\ i \notin Bindings
  BY <1>6, <1>9 DEF NeededBy
<1> QED
  BY <1>7, <1>8, <1>9

-----------------------------------------------------------------------------
(* The shape of the tenant. What a plan says of bindings: each binding is  *)
(* moved by one step at most, and a step knows what the subject held when  *)
(* the plan was computed.                                                  *)
StepFits(step) ==
    IF step.kind = "binding"
    THEN /\ step.item \in Bindings /\ step.old \in Holding \cup {Unbound}
         /\ step.change \in {"create", "update", "no-change"}
         /\ step.change = "update" => step.old # Unbound
         /\ step.change = "create" => step.old = Unbound
    ELSE step.old = Unbound

MovesOnce(p) ==
    \A j, k \in DOMAIN p :
        p[j].kind = "binding" /\ p[k].kind = "binding" /\ p[j].item = p[k].item
            => j = k

PlanFits(p) ==
    /\ p \in Seq(ToSet(p))
    /\ \A k \in DOMAIN p : StepFits(p[k])
    /\ MovesOnce(p)

(* When it is computed, what the plan knows is what the tenant holds.      *)
Fresh(p) == \A k \in DOMAIN p : p[k].old # Unbound => bound[p[k].item] = p[k].old

(* What a manifest states of a binding, with a reach, can be held.         *)
LEMMA HoldingFacts ==
  /\ \A w \in Shape, t \in {"whole", "narrowed"} :
        [resource |-> w.resource, inherit |-> w.inherit, scope |-> t] \in Holding
  /\ \A h \in Holding : h.scope \in {"whole", "narrowed"}
  /\ Unbound \notin Holding
<1>1. \A h \in Holding : h.scope \in {"whole", "narrowed"}
  BY DEF Holding
<1>2. \A w \in Shape, t \in {"whole", "narrowed"} :
        [resource |-> w.resource, inherit |-> w.inherit, scope |-> t] \in Holding
  <2> SUFFICES ASSUME NEW w \in Shape, NEW t \in {"whole", "narrowed"}
               PROVE  [resource |-> w.resource, inherit |-> w.inherit, scope |-> t]
                        \in Holding
    OBVIOUS
  <2>1. \E s \in Shape, r \in {"whole", "narrowed"} :
           [resource |-> w.resource, inherit |-> w.inherit, scope |-> t]
             = [resource |-> s.resource, inherit |-> s.inherit, scope |-> r]
    OBVIOUS
  <2> QED
    BY <2>1 DEF Holding
<1>3. Unbound \notin Holding
  BY <1>1 DEF Unbound
<1> QED
  BY <1>1, <1>2, <1>3

BoundTyped == bound \in [Bindings -> Holding \cup {Unbound}]

(* A plan has one step for each item.                                      *)
LEMMA ComputeFacts ==
  ASSUME ParentTyped, ~HasCycle
  PROVE  /\ Compute \in Seq(ToSet(Compute))
         /\ DOMAIN Compute = 1 .. Len(Items) /\ DOMAIN Items = 1 .. Len(Items)
         /\ Len(Items) \in Nat /\ Len(Compute) = Len(Items)
         /\ \A k \in 1 .. Len(Items) : Compute[k] = StepOf(Items[k]) /\ Items[k] \in Named
<1>1. Items \in Seq(Named)
  BY ItemsFacts
<1>2. Compute = [k \in 1 .. Len(Items) |-> StepOf(Items[k])]
  BY <1>1 DEF Compute
<1> QED
  BY <1>1, <1>2 DEF ToSet

(* What it says of the bindings is so.                                     *)
LEMMA ComputeFits ==
  ASSUME ParentTyped, BoundTyped, ~HasCycle
  PROVE  PlanFits(Compute) /\ Fresh(Compute)
<1>1. ASSUME NEW i \in Named
      PROVE  /\ StepFits(StepOf(i)) /\ StepOf(i).item = i
             /\ StepOf(i).old # Unbound => bound[i] = StepOf(i).old
  <2>1. ASSUME i \in Bindings
        PROVE  /\ Held(i) \in {bound[i], Unbound} /\ Held(i) \in Holding \cup {Unbound}
               /\ BindingChange(i) \in {"create", "update", "no-change"}
               /\ BindingChange(i) = "update" => Held(i) # Unbound
               /\ BindingChange(i) = "create" => Held(i) = Unbound
    BY <2>1 DEF Held, BindingChange, BoundTyped
  <2> QED
    BY <2>1 DEF Named, StepOf, StepFits
<1>2. MovesOnce(Compute)
  BY <1>1, ComputeFacts, ItemsFacts DEF MovesOnce, IsInjective
<1> QED
  BY <1>1, <1>2, ComputeFacts DEF PlanFits, Fresh

(* A rebind that is under way, or was stopped: the one step that may have  *)
(* left its subject without the role.                                      *)
Moving(k) == k = at /\ pc \in {"unassigned", "restoring"}

(* While an apply runs, the steps before `at` are reported and no other.   *)
ReportInv ==
    /\ pc \in {"idle", "running", "unassigned", "restoring"}
    /\ PlanFits(plan)
    /\ report \in Seq(Outcomes) /\ at \in Nat
    /\ pc # "idle" => at \in DOMAIN plan /\ Len(report) = at - 1
    /\ pc = "idle" => Len(report) \in {0, Len(plan)}
    /\ pc \in {"unassigned", "restoring"} => IsRebind

(* What the report says of the bindings is so.                             *)
LossInv ==
    \A k \in DOMAIN plan :
        plan[k].old # Unbound /\ bound[plan[k].item] = Unbound
            => Moving(k) \/ (k \in DOMAIN report /\ report[k] = "failed")

RestoreInv ==
    /\ pc # "idle" => restore = "none"
    /\ RestoreTruthful

ShapeInv ==
    /\ ManifestTyped /\ BoundTyped
    /\ ReportInv /\ ScopeCarried /\ LossInv /\ RestoreInv

(* What the two ways for a step to end do to the report.                   *)
LEMMA GoesFacts ==
  ASSUME ReportInv, pc # "idle", NEW o \in Outcomes, Goes(o)
  PROVE  /\ report' \in Seq(Outcomes) /\ DOMAIN report' = 1 .. at
         /\ \A k \in 1 .. at - 1 : k \in DOMAIN report /\ report'[k] = report[k]
         /\ report'[at] = o
         /\ \A k \in DOMAIN report : report'[k] = report[k] /\ k # at
         /\ UNCHANGED plan => ReportInv'
<1>1. /\ report' = Append(report, o) /\ at' = at + 1
      /\ pc' = IF at = Len(plan) THEN "idle" ELSE "running"
      /\ at \in DOMAIN plan /\ Len(report) = at - 1 /\ at \in Nat
  BY DEF Goes, ReportInv
<1>2. report \in Seq(Outcomes) /\ plan \in Seq(ToSet(plan))
  BY DEF ReportInv, PlanFits
<1>3. DOMAIN plan = 1 .. Len(plan) /\ Len(plan) \in Nat /\ DOMAIN report = 1 .. at - 1
  BY <1>1, <1>2
<1>4. /\ report' \in Seq(Outcomes) /\ Len(report') = at /\ DOMAIN report' = 1 .. at
      /\ \A k \in 1 .. at - 1 : report'[k] = report[k]
      /\ report'[at] = o
  BY <1>1, <1>2, <1>3
<1>5. ASSUME UNCHANGED plan PROVE ReportInv'
  <2>1. /\ at' \in Nat /\ Len(report') = at' - 1
        /\ pc' = "idle" => Len(report') = Len(plan')
        /\ pc' # "idle" => pc' = "running" /\ at' \in DOMAIN plan'
    BY <1>1, <1>3, <1>4, <1>5
  <2> QED
    BY <1>1, <1>4, <1>5, <2>1 DEF ReportInv
<1> QED
  BY <1>1, <1>3, <1>4, <1>5

LEMMA StopsFacts ==
  ASSUME ReportInv, pc # "idle", Stops
  PROVE  /\ report' \in Seq(Outcomes) /\ DOMAIN report' = DOMAIN plan
         /\ \A k \in DOMAIN report : report'[k] = report[k] /\ k # at
         /\ at \in DOMAIN plan /\ report'[at] = "failed"
         /\ \A k \in DOMAIN plan :
               report'[k] = "updated" => k \in DOMAIN report
         /\ report' # <<>>
         /\ UNCHANGED plan => ReportInv'
<1> DEFINE failed == Append(report, "failed")
           rest == [k \in 1 .. Len(plan) - at |-> "not-attempted"]
<1>1. /\ report' = failed \o rest /\ at' = at /\ pc' = "idle"
      /\ at \in DOMAIN plan /\ Len(report) = at - 1 /\ at \in Nat
  BY DEF Stops, ReportInv
<1>2. report \in Seq(Outcomes) /\ plan \in Seq(ToSet(plan))
  BY DEF ReportInv, PlanFits
<1>3. DOMAIN plan = 1 .. Len(plan) /\ Len(plan) \in Nat /\ DOMAIN report = 1 .. at - 1
  BY <1>1, <1>2
<1>4. /\ failed \in Seq(Outcomes) /\ Len(failed) = at
      /\ \A k \in 1 .. at - 1 : failed[k] = report[k]
      /\ failed[at] = "failed"
  BY <1>1, <1>2, <1>3 DEF Outcomes
<1>5. /\ rest \in Seq(Outcomes) /\ Len(rest) = Len(plan) - at
      /\ \A k \in 1 .. Len(plan) - at : rest[k] = "not-attempted"
  BY <1>1, <1>3 DEF Outcomes
<1> HIDE DEF failed, rest
<1>6. /\ report' \in Seq(Outcomes) /\ Len(report') = Len(plan)
      /\ \A k \in 1 .. at : report'[k] = failed[k]
      /\ \A k \in at + 1 .. Len(plan) : report'[k] = rest[k - at]
  <2>1. ASSUME NEW p \in Seq(Outcomes), NEW q \in Seq(Outcomes)
        PROVE  /\ p \o q \in Seq(Outcomes) /\ Len(p \o q) = Len(p) + Len(q)
               /\ \A k \in 1 .. Len(p) : (p \o q)[k] = p[k]
               /\ \A k \in Len(p) + 1 .. Len(p) + Len(q) : (p \o q)[k] = q[k - Len(p)]
    OBVIOUS
  <2>2. at + (Len(plan) - at) = Len(plan)
    BY <1>1, <1>3
  <2>3. /\ failed \o rest \in Seq(Outcomes)
        /\ Len(failed \o rest) = Len(failed) + Len(rest)
        /\ \A k \in 1 .. Len(failed) : (failed \o rest)[k] = failed[k]
        /\ \A k \in Len(failed) + 1 .. Len(failed) + Len(rest) :
              (failed \o rest)[k] = rest[k - Len(failed)]
    BY <1>4, <1>5, <2>1
  <2>4. Len(failed) = at /\ Len(failed) + Len(rest) = Len(plan) /\ report' = failed \o rest
    BY <1>1, <1>4, <1>5, <2>2
  <2> QED
    BY <2>3, <2>4, Zenon
<1>7. DOMAIN report' = DOMAIN plan
  BY <1>3, <1>6
<1>8. ASSUME NEW k \in DOMAIN plan, k \notin DOMAIN report PROVE report'[k] # "updated"
  <2>1. CASE k = at
    BY <1>1, <1>3, <1>4, <1>6, <2>1
  <2>2. CASE k \in at + 1 .. Len(plan)
    <3>1. k - at \in 1 .. Len(plan) - at
      BY <1>1, <1>3, <2>2
    <3> QED
      BY <1>5, <1>6, <2>2, <3>1
  <2>3. k \in 1 .. Len(plan) /\ k \notin 1 .. at - 1 /\ at \in Nat /\ Len(plan) \in Nat
    BY <1>1, <1>3, <1>8
  <2>4. k = at \/ k \in at + 1 .. Len(plan)
    BY <2>3
  <2> QED
    BY <2>1, <2>2, <2>4
<1>9. UNCHANGED plan => ReportInv'
  BY <1>1, <1>3, <1>6 DEF ReportInv
<1>10. report' # <<>>
  BY <1>1, <1>3, <1>6
<1>11. \A k \in DOMAIN report : report'[k] = report[k] /\ k # at
  BY <1>1, <1>3, <1>4, <1>6
<1>12. at \in DOMAIN plan /\ report'[at] = "failed"
  BY <1>1, <1>3, <1>4, <1>6
<1> QED
  BY <1>6, <1>7, <1>8, <1>9, <1>10, <1>11, <1>12

(* Two steps of a plan do not move the same binding.                       *)
LEMMA ItemsApart ==
  ASSUME ReportInv, pc # "idle", Kind = "binding",
         NEW k \in DOMAIN plan, plan[k].kind = "binding", k # at
  PROVE  plan[k].item # Item
  BY DEF ReportInv, PlanFits, MovesOnce, Item, Kind

(* In each step of an apply, bound changes at the step's own binding only. *)
OnlyItemMoves ==
    bound' = bound \/ (Kind = "binding" /\ \E h \in Holding \cup {Unbound} :
                          bound' = [bound EXCEPT ![Item] = h])

LEMMA OthersStay ==
  ASSUME ReportInv, BoundTyped, pc # "idle", OnlyItemMoves
  PROVE  /\ BoundTyped'
         /\ \A k \in DOMAIN plan : plan[k].kind = "binding" /\ k # at
               => bound'[plan[k].item] = bound[plan[k].item]
<1>1. BoundTyped'
  BY DEF OnlyItemMoves, BoundTyped
<1>2. ASSUME NEW k \in DOMAIN plan, plan[k].kind = "binding", k # at
      PROVE  bound'[plan[k].item] = bound[plan[k].item]
  <2>1. CASE bound' = bound
    BY <2>1
  <2>2. CASE Kind = "binding"
    <3>1. plan[k].item # Item
      BY <1>2, <2>2, ItemsApart
    <3>2. plan[k].item \in Bindings
      BY <1>2 DEF ReportInv, PlanFits, StepFits
    <3> QED
      BY <3>1, <3>2 DEF OnlyItemMoves, BoundTyped
  <2> QED
    BY <2>1, <2>2 DEF OnlyItemMoves
<1> QED
  BY <1>1, <1>2

(* A step that stops the apply: its own outcome is a failure.              *)
LEMMA StopKeeps ==
  ASSUME ShapeInv, pc # "idle", Stops, OnlyItemMoves, UNCHANGED <<manifest, plan>>,
         restore' = "none" \/
            (/\ Kind = "binding"
             /\ restore' = "restored" => bound'[Item] = plan[at].old)
  PROVE  ShapeInv'
<1>1. BoundTyped' /\ ReportInv' /\ ManifestTyped'
  BY OthersStay, StopsFacts DEF ShapeInv, manifest, ManifestTyped, ParentTyped
<1>2. ScopeCarried'
  <2> SUFFICES ASSUME NEW k \in DOMAIN plan, plan[k].kind = "binding",
                      report'[k] = "updated"
               PROVE  bound'[plan[k].item].scope = plan[k].old.scope
    BY StopsFacts DEF ShapeInv, ScopeCarried
  <2>1. k \in DOMAIN report /\ report[k] = "updated" /\ k # at
    BY StopsFacts DEF ShapeInv
  <2> QED
    BY <2>1, OthersStay DEF ShapeInv, ScopeCarried
<1>3. LossInv'
  <2> SUFFICES ASSUME NEW k \in DOMAIN plan, plan[k].old # Unbound, k # at,
                      bound'[plan[k].item] = Unbound
               PROVE  k \in DOMAIN report /\ report[k] = "failed"
    BY StopsFacts DEF ShapeInv, LossInv
  <2>1. plan[k].kind = "binding"
    BY DEF ShapeInv, ReportInv, PlanFits, StepFits
  <2> QED
    BY <2>1, OthersStay DEF ShapeInv, LossInv, Moving
<1>4. RestoreInv'
  <2>1. pc' = "idle" /\ at \in DOMAIN report' /\ report'[at] = "failed"
    BY StopsFacts DEF ShapeInv, Stops
  <2> QED
    BY <2>1 DEF RestoreInv, RestoreTruthful, Kind, Item
<1> QED
  BY <1>1, <1>2, <1>3, <1>4 DEF ShapeInv

(* A step that succeeds: it left its subject with the role.                *)
LEMMA GoKeeps ==
  ASSUME ShapeInv, pc # "idle", NEW o \in Outcomes, Goes(o), OnlyItemMoves,
         UNCHANGED <<manifest, plan, restore>>,
         plan[at].old # Unbound => bound'[Item] # Unbound,
         o = "updated" /\ Kind = "binding" => bound'[Item].scope = plan[at].old.scope
  PROVE  ShapeInv'
<1>1. BoundTyped' /\ ReportInv' /\ ManifestTyped'
  BY OthersStay, GoesFacts DEF ShapeInv, manifest, ManifestTyped, ParentTyped
<1>2. DOMAIN report' \subseteq DOMAIN plan
  BY <1>1 DEF ReportInv, PlanFits
<1>3. ScopeCarried'
  <2> SUFFICES ASSUME NEW k \in DOMAIN report', plan[k].kind = "binding",
                      report'[k] = "updated"
               PROVE  bound'[plan[k].item].scope = plan[k].old.scope
    BY DEF ScopeCarried
  <2>1. CASE k = at
    BY <2>1, GoesFacts DEF ShapeInv, Kind, Item
  <2>2. CASE k # at
    <3>1. k \in DOMAIN report /\ report[k] = "updated"
      BY <2>2, GoesFacts DEF ShapeInv, ReportInv
    <3> QED
      BY <1>2, <2>2, <3>1, OthersStay DEF ShapeInv, ScopeCarried
  <2> QED
    BY <2>1, <2>2
<1>4. LossInv'
  <2> SUFFICES ASSUME NEW k \in DOMAIN plan, plan[k].old # Unbound, k # at,
                      bound'[plan[k].item] = Unbound
               PROVE  k \in DOMAIN report' /\ report'[k] = "failed"
    BY DEF LossInv, Item
  <2>1. plan[k].kind = "binding"
    BY DEF ShapeInv, ReportInv, PlanFits, StepFits
  <2>2. k \in DOMAIN report /\ report[k] = "failed"
    BY <2>1, OthersStay DEF ShapeInv, LossInv, Moving
  <2> QED
    BY <2>2, GoesFacts DEF ShapeInv, ReportInv
<1>5. RestoreInv'
  BY DEF ShapeInv, RestoreInv, RestoreTruthful, Reported
<1> QED
  BY <1>1, <1>3, <1>4, <1>5 DEF ShapeInv

LEMMA ShapeStep == ShapeInv /\ [Next]_vars => ShapeInv'
<1> SUFFICES ASSUME ShapeInv, [Next]_vars PROVE ShapeInv'
  OBVIOUS
<1>types. ASSUME pc # "idle"
          PROVE  /\ at \in DOMAIN plan /\ StepFits(plan[at]) /\ restore = "none"
                 /\ pc \in {"unassigned", "restoring"} => IsRebind
  BY <1>types DEF ShapeInv, ReportInv, PlanFits, RestoreInv
<1>effect. ASSUME Writing, TakesEffect
           PROVE  /\ OnlyItemMoves
                  /\ plan[at].old # Unbound => bound'[Item] # Unbound
  <2>1. CASE Kind = "binding" /\ bound' = [bound EXCEPT ![Item] =
                [resource |-> wanted[Item].resource, inherit |-> wanted[Item].inherit,
                 scope |-> "whole"]]
    <3>1. Item \in Bindings
      BY <1>types, <1>effect, <2>1 DEF Writing, StepFits, Kind, Item
    <3>2. [resource |-> wanted[Item].resource, inherit |-> wanted[Item].inherit,
           scope |-> "whole"] \in Holding
      BY <3>1, HoldingFacts DEF ShapeInv, ManifestTyped
    <3>3. bound'[Item] \in Holding
      BY <2>1, <3>1, <3>2 DEF ShapeInv, BoundTyped
    <3> QED
      BY <2>1, <3>2, <3>3, HoldingFacts DEF OnlyItemMoves
  <2>2. CASE Kind # "binding" /\ UNCHANGED bound
    BY <1>types, <1>effect, <2>2 DEF Writing, StepFits, Kind, OnlyItemMoves
  <2> QED
    BY <1>effect, <2>1, <2>2 DEF TakesEffect
<1>rebind. ASSUME pc # "idle", IsRebind
           PROVE  /\ Kind = "binding" /\ Item \in Bindings /\ plan[at].old \in Holding
                  /\ Rebound \in Holding /\ Rebound.scope = plan[at].old.scope
  <2>1. Item \in Bindings /\ plan[at].old \in Holding /\ Kind = "binding"
    BY <1>types, <1>rebind DEF IsRebind, StepFits, Kind, Item, Change
  <2>2. wanted[Item] \in Shape /\ plan[at].old.scope \in {"whole", "narrowed"}
    BY <2>1, HoldingFacts DEF ShapeInv, ManifestTyped
  <2> QED
    BY <2>1, <2>2, HoldingFacts DEF Rebound
<1>1. CASE Begin
  <2>1. /\ ManifestTyped' /\ bound' = bound /\ plan' = Compute
        /\ report' = <<>> /\ restore' = "none" /\ at' = 1
        /\ pc' = IF plan' = <<>> THEN "idle" ELSE "running"
    BY <1>1 DEF Begin, manifest, ManifestTyped, ParentTyped, tenant, ShapeInv
  <2>2. PlanFits(plan') /\ BoundTyped' /\ Fresh(plan')
    <3>1. ParentTyped /\ BoundTyped /\ ~HasCycle
      BY <1>1 DEF Begin, ShapeInv, ManifestTyped
    <3> QED
      BY <2>1, <3>1, ComputeFits DEF BoundTyped
  <2>3. ReportInv'
    <3>1. plan' # <<>> => 1 \in DOMAIN plan'
      BY <2>2 DEF PlanFits
    <3> QED
      BY <2>1, <2>2, <3>1 DEF ReportInv
  <2>4. LossInv'
    <3> SUFFICES ASSUME NEW k \in DOMAIN plan', plan'[k].old # Unbound
                 PROVE  bound'[plan'[k].item] # Unbound
      BY DEF LossInv
    <3> QED
      BY <2>1, <2>2 DEF Fresh
  <2>5. ScopeCarried' /\ RestoreInv'
    BY <2>1 DEF ScopeCarried, RestoreInv, RestoreTruthful
  <2> QED
    BY <2>1, <2>2, <2>3, <2>4, <2>5 DEF ShapeInv
<1>2. CASE RunNoop
  <2>1. at \in DOMAIN plan /\ at \notin DOMAIN report
    BY <1>2 DEF RunNoop, ShapeInv, ReportInv
  <2>2. plan[at].old # Unbound => bound[Item] # Unbound
    BY <1>2, <2>1 DEF RunNoop, ShapeInv, LossInv, Moving, Item
  <2> QED
    BY <1>2, <2>2, GoKeeps DEF RunNoop, Outcomes, tenant, OnlyItemMoves
<1>3. CASE RunStep
  <2>1. OnlyItemMoves /\ (plan[at].old # Unbound => bound'[Item] # Unbound)
    BY <1>3, <1>effect DEF RunStep
  <2>2. Kind = "binding" => Change = "create"
    BY <1>3, <1>types DEF RunStep, Writing, IsRebind, StepFits, Kind, Change
  <2> DEFINE o == IF Change = "create" THEN "created" ELSE "updated"
  <2>3. /\ Goes(o) /\ o \in Outcomes /\ pc # "idle"
        /\ UNCHANGED <<manifest, plan, restore>>
    BY <1>3 DEF RunStep, Outcomes, Writing
  <2>4. o = "updated" => Kind # "binding"
    BY <2>2
  <2> QED
    BY <2>1, <2>3, <2>4, GoKeeps
<1>4. CASE StepRefused
  BY <1>4, <1>types, StopKeeps DEF StepRefused, Writing, tenant, OnlyItemMoves
<1>5. CASE StepLost
  <2>1. OnlyItemMoves
    BY <1>5, <1>effect DEF StepLost
  <2> QED
    BY <1>5, <1>types, <2>1, StopKeeps DEF StepLost, Writing
<1>6. CASE Unassign
  <2>1. OnlyItemMoves
    BY <1>6, <1>rebind DEF Unassign, OnlyItemMoves
  <2>2. /\ BoundTyped' /\ ManifestTyped'
        /\ \A k \in DOMAIN plan : plan[k].kind = "binding" /\ k # at
              => bound'[plan[k].item] = bound[plan[k].item]
    BY <1>6, <2>1, OthersStay DEF Unassign, manifest, ManifestTyped, ParentTyped, ShapeInv
  <2>3. ReportInv'
    BY <1>6 DEF Unassign, ShapeInv, ReportInv, IsRebind, Kind, Change
  <2>4. ScopeCarried'
    <3> SUFFICES ASSUME NEW k \in DOMAIN report, plan[k].kind = "binding",
                        report[k] = "updated"
                 PROVE  bound'[plan[k].item].scope = plan[k].old.scope
      BY <1>6 DEF Unassign, ScopeCarried
    <3>1. k # at /\ k \in DOMAIN plan
      BY <1>6 DEF Unassign, ShapeInv, ReportInv, PlanFits
    <3> QED
      BY <2>2, <3>1 DEF ShapeInv, ScopeCarried
  <2>5. LossInv'
    <3> SUFFICES ASSUME NEW k \in DOMAIN plan, plan[k].old # Unbound, k # at,
                        bound'[plan[k].item] = Unbound
                 PROVE  k \in DOMAIN report /\ report[k] = "failed"
      BY <1>6 DEF Unassign, LossInv, Moving
    <3>1. plan[k].kind = "binding"
      BY DEF ShapeInv, ReportInv, PlanFits, StepFits
    <3> QED
      BY <2>2, <3>1 DEF ShapeInv, LossInv, Moving
  <2>6. RestoreInv'
    BY <1>6, <1>types DEF Unassign, RestoreInv, RestoreTruthful
  <2> QED
    BY <2>2, <2>3, <2>4, <2>5, <2>6 DEF ShapeInv
<1>7. CASE UnassignFails
  <2>1. OnlyItemMoves
    BY <1>7, <1>rebind DEF UnassignFails, OnlyItemMoves
  <2> QED
    BY <1>7, <1>types, <2>1, StopKeeps DEF UnassignFails
<1>8. CASE Assign
  <2>1. OnlyItemMoves /\ bound'[Item] = Rebound
    BY <1>8, <1>types, <1>rebind DEF Assign, OnlyItemMoves, ShapeInv, BoundTyped
  <2>2. bound'[Item] # Unbound /\ bound'[Item].scope = plan[at].old.scope
    BY <1>8, <1>types, <1>rebind, <2>1, HoldingFacts DEF Assign
  <2>3. /\ Goes("updated") /\ "updated" \in Outcomes /\ pc # "idle"
        /\ UNCHANGED <<manifest, plan, restore>>
    BY <1>8 DEF Assign, Outcomes
  <2> QED
    BY <2>1, <2>2, <2>3, GoKeeps
<1>9. CASE AssignFails
  <2>1. OnlyItemMoves
    BY <1>9, <1>types, <1>rebind DEF AssignFails, OnlyItemMoves
  <2>2. /\ BoundTyped' /\ ManifestTyped'
        /\ \A k \in DOMAIN plan : plan[k].kind = "binding" /\ k # at
              => bound'[plan[k].item] = bound[plan[k].item]
    BY <1>9, <2>1, OthersStay DEF AssignFails, manifest, ManifestTyped, ParentTyped, ShapeInv
  <2>3. ReportInv'
    BY <1>9 DEF AssignFails, ShapeInv, ReportInv, IsRebind, Kind, Change
  <2>4. ScopeCarried'
    <3> SUFFICES ASSUME NEW k \in DOMAIN report, plan[k].kind = "binding",
                        report[k] = "updated"
                 PROVE  bound'[plan[k].item].scope = plan[k].old.scope
      BY <1>9 DEF AssignFails, ScopeCarried
    <3>1. k # at /\ k \in DOMAIN plan
      BY <1>9 DEF AssignFails, ShapeInv, ReportInv, PlanFits
    <3> QED
      BY <2>2, <3>1 DEF ShapeInv, ScopeCarried
  <2>5. LossInv'
    <3> SUFFICES ASSUME NEW k \in DOMAIN plan, plan[k].old # Unbound, k # at,
                        bound'[plan[k].item] = Unbound
                 PROVE  k \in DOMAIN report /\ report[k] = "failed"
      BY <1>9 DEF AssignFails, LossInv, Moving
    <3>1. plan[k].kind = "binding"
      BY DEF ShapeInv, ReportInv, PlanFits, StepFits
    <3> QED
      BY <2>2, <3>1 DEF ShapeInv, LossInv, Moving
  <2>6. RestoreInv'
    BY <1>9, <1>types DEF AssignFails, RestoreInv, RestoreTruthful
  <2> QED
    BY <2>2, <2>3, <2>4, <2>5, <2>6 DEF ShapeInv
<1>10. CASE RestoreSucceeds
  <2>1. OnlyItemMoves /\ bound'[Item] = plan[at].old /\ Kind = "binding"
    BY <1>10, <1>types, <1>rebind DEF RestoreSucceeds, OnlyItemMoves, ShapeInv, BoundTyped
  <2> QED
    BY <1>10, <2>1, StopKeeps DEF RestoreSucceeds
<1>11. CASE RestoreFails
  <2>1. OnlyItemMoves /\ Kind = "binding"
    BY <1>11, <1>types, <1>rebind DEF RestoreFails, OnlyItemMoves
  <2> QED
    BY <1>11, <2>1, StopKeeps DEF RestoreFails
<1>12. CASE Crash
  <2>1. PlanFits(<<>>)
    BY DEF PlanFits, MovesOnce
  <2>2. /\ BoundTyped' /\ ManifestTyped' /\ restore' = restore
        /\ pc' = "idle" /\ report' = <<>> /\ plan' = <<>> /\ at' = 0
    BY <1>12 DEF Crash, manifest, ManifestTyped, ParentTyped, tenant, ShapeInv, BoundTyped
  <2> QED
    BY <2>1, <2>2
    DEF ShapeInv, ReportInv, ScopeCarried, LossInv, RestoreInv, RestoreTruthful, Reported
<1>13. CASE (\E o \in Objects : OtherWrites(o)) \/ UNCHANGED vars
  <2>1. UNCHANGED <<parent, wanted, bound, pc, plan, at, report, restore>>
    BY <1>13 DEF OtherWrites, manifest, vars, tenant
  <2> QED
    BY <2>1
    DEF ShapeInv, ManifestTyped, ParentTyped, BoundTyped, ReportInv, ScopeCarried, LossInv,
        RestoreInv, RestoreTruthful, Reported, Moving, IsRebind, Kind, Change
<1> QED
  BY <1>1, <1>2, <1>3, <1>4, <1>5, <1>6, <1>7, <1>8, <1>9, <1>10, <1>11, <1>12, <1>13
  DEF Next

(* The inductive invariant of the shape of the tenant.                     *)
THEOREM ShapeInvariance == MCSpec => []ShapeInv
<1>1. MCInit => ShapeInv
  <2> SUFFICES ASSUME Init PROVE ShapeInv
    BY DEF MCInit
  <2>1. PlanFits(<<>>)
    BY DEF PlanFits, MovesOnce
  <2> QED
    BY <2>1
    DEF Init, ShapeInv, ManifestTyped, ParentTyped, BoundTyped, ReportInv, ScopeCarried,
        LossInv, RestoreInv, RestoreTruthful
<1> QED
  BY <1>1, Parts, ShapeStep, PTL DEF MCSpec

(* Whatever fails, a rebind that is reported as an update left the subject *)
(* with the reach it had.                                                  *)
THEOREM ScopesAreCarried == MCSpec => []ScopeCarried
<1>1. ShapeInv => ScopeCarried
  BY DEF ShapeInv
<1> QED
  BY <1>1, ShapeInvariance, PTL

(* Whatever fails, an apply never says wrongly that a role was restored,   *)
(* and never takes a role from a subject without reporting a failure.      *)
THEOREM RebindsAreHonest == MCSpec => []RebindHonest
<1>1. ShapeInv => RebindHonest
  <2> SUFFICES ASSUME ShapeInv, Reported PROVE LossReported
    BY DEF ShapeInv, RestoreInv, RebindHonest, LossReported
  <2> QED
    BY DEF ShapeInv, LossInv, LossReported, Reported, Moving
<1> QED
  BY <1>1, ShapeInvariance, PTL

-----------------------------------------------------------------------------
(* What an apply settles, and whether it gets to its end.                  *)
KindOf(i) == IF i \in Objects THEN "object" ELSE IF i \in Links THEN "link" ELSE "binding"

(* While there is a plan, it is of all that the manifest states.           *)
PlanMade ==
    plan # <<>> =>
        /\ ~HasCycle /\ DOMAIN plan = 1 .. Len(Items)
        /\ \A k \in DOMAIN plan :
              plan[k].item = Items[k] /\ plan[k].kind = KindOf(Items[k])

(* What a subject may hold: what the binding names exists, and it is not   *)
(* plain when the manifest's is scoped, unless the tenant had such.        *)
MayHold(b, h) ==
    h # Unbound =>
        /\ \A n \in Needs[b] : things[n] # "absent"
        /\ ~PlainHolders /\ h.resource = NoResource => wanted[b].resource = NoResource

TenantInv ==
    /\ things \in [Objects -> {"absent", "stale", "stated", "twice"}]
    /\ \A o \in Objects : things[o] = "twice" => o \in ToSet(Accounts)
    /\ \A b \in Bindings : MayHold(b, bound[b])

(* What the plan relies on still is there, and what its steps before `at`  *)
(* made is too.                                                            *)
PlanInv ==
    /\ \A k \in DOMAIN plan :
          plan[k].item \in Bindings => MayHold(plan[k].item, plan[k].old)
    /\ pc # "idle" =>
          \A k \in DOMAIN plan :
             plan[k].item \in Objects /\ (k < at \/ plan[k].change # "create")
                => things[plan[k].item] # "absent"

(* The tenant holds i as the manifest states it.                           *)
Done(i) ==
    IF i \in Objects THEN things[i] = "stated"
    ELSE IF i \in Links THEN i \in links
    ELSE bound[i] # Unbound /\ (~PlainHolders => ShapeOf(bound[i]) = wanted[i])

(* What a step says is to be done to i is what is to be done.              *)
StillDue(i, step) ==
    IF i \in Objects
    THEN things[i] # "twice" /\ step.change = ObjectChange(i)
    ELSE IF i \in Links THEN step.change = LinkChange(i)
    ELSE /\ step.old = bound[i] /\ (step.change = "create" <=> bound[i] = Unbound)
         /\ step.change = "no-change" /\ ~PlainHolders => ShapeOf(bound[i]) = wanted[i]

(* An apply that is not disturbed: its steps before `at` are done, those   *)
(* after are due as they were planned, and none has failed.                *)
WorkInv ==
    ~disturbed =>
        /\ pc # "restoring"
        /\ \A k \in DOMAIN report : report[k] # "failed"
        /\ pc # "idle" => \A k \in DOMAIN plan :
              /\ k < at => Done(plan[k].item)
              /\ k > at \/ (k = at /\ pc = "running") => StillDue(plan[k].item, plan[k])
        /\ pc = "idle" /\ report # <<>> => \A k \in DOMAIN plan : Done(plan[k].item)

SettleInv == PlanMade /\ TenantInv /\ PlanInv /\ WorkInv

(* The things of a manifest, and their order, do not change.               *)
LEMMA ItemsStay == UNCHANGED parent => Items' = Items /\ HasCycle' = HasCycle
<1> SUFFICES ASSUME parent' = parent PROVE Items' = Items /\ HasCycle' = HasCycle
  OBVIOUS
<1>1. TopologicalOrder' = TopologicalOrder
  BY DEF TopologicalOrder, Order, Place, Chain, Climb
<1> QED
  BY <1>1 DEF Items, HasCycle

(* The step that is run is one of the manifest's items, no other step of   *)
(* the plan is of the same one, and what a binding names is there by then. *)
LEMMA AtWork ==
  ASSUME ShapeInv, SettleInv, pc # "idle"
  PROVE  /\ at \in DOMAIN plan /\ at \in Nat
         /\ Item \in Named /\ Kind = KindOf(Item)
         /\ \A k \in DOMAIN plan : plan[k].item \in Named
         /\ \A k \in DOMAIN plan : k # at => plan[k].item # Item
         /\ \A k \in DOMAIN plan : k \in Nat
         /\ Item \in Bindings => \A n \in Needs[Item] : things[n] # "absent"
<1>1. at \in DOMAIN plan /\ at \in Nat /\ plan \in Seq(ToSet(plan))
  BY DEF ShapeInv, ReportInv, PlanFits
<1>2. plan # <<>>
  BY <1>1
<1>3. /\ DOMAIN plan = 1 .. Len(Items) /\ ~HasCycle
      /\ \A k \in DOMAIN plan : plan[k].item = Items[k] /\ plan[k].kind = KindOf(Items[k])
  BY <1>2 DEF SettleInv, PlanMade
<1>4. ParentTyped
  BY DEF ShapeInv, ManifestTyped
<1>5. /\ Items \in Seq(Named) /\ IsInjective(Items) /\ InOrder(Items, {})
  BY <1>3, <1>4, ItemsFacts
<1>6. DOMAIN Items = 1 .. Len(Items) /\ Len(Items) \in Nat
  BY <1>5
<1>7. \A k \in DOMAIN plan : plan[k].item \in Named
  BY <1>3, <1>5, <1>6
<1>8. \A k \in DOMAIN plan : k # at => plan[k].item # Item
  BY <1>1, <1>3, <1>5, <1>6 DEF IsInjective, Item
<1>9. ASSUME Item \in Bindings, NEW n \in Needs[Item] PROVE things[n] # "absent"
  <2>1. Item \in DOMAIN Needs /\ n \in Objects
    BY <1>9, LaterFacts
  <2>2. PICK j \in 1 .. at - 1 : Items[j] = n
    BY <1>1, <1>3, <1>5, <1>6, <1>9, <2>1 DEF InOrder, Item
  <2>3. j \in DOMAIN plan /\ j < at
    BY <1>1, <1>3, <1>6, <2>2
  <2>4. plan[j].item = n
    BY <1>3, <2>2, <2>3
  <2> QED
    BY <2>1, <2>3, <2>4 DEF SettleInv, PlanInv
<1> QED
  BY <1>1, <1>3, <1>6, <1>7, <1>8, <1>9 DEF Item, Kind

(* In the steps of an apply the tenant changes at the step's own item.     *)
SameElsewhere ==
    /\ things' \in [Objects -> {"absent", "stale", "stated", "twice"}]
    /\ \A i \in Objects : i # Item => things'[i] = things[i]
    /\ \A i : i # Item => (i \in links' <=> i \in links)
    /\ \A i \in Bindings : i # Item => bound'[i] = bound[i]

LEMMA OthersAsBefore ==
  ASSUME ShapeInv, SettleInv, pc # "idle", SameElsewhere, UNCHANGED <<manifest, plan>>
  PROVE  \A k \in DOMAIN plan : k # at =>
            /\ Done(plan[k].item) => Done(plan[k].item)'
            /\ StillDue(plan[k].item, plan[k]) => StillDue(plan[k].item, plan[k])'
<1> SUFFICES ASSUME NEW k \in DOMAIN plan, k # at
             PROVE  /\ Done(plan[k].item) => Done(plan[k].item)'
                    /\ StillDue(plan[k].item, plan[k]) => StillDue(plan[k].item, plan[k])'
  OBVIOUS
<1>1. plan[k].item \in Named /\ plan[k].item # Item /\ plan' = plan /\ wanted' = wanted
  BY AtWork DEF manifest
<1>2. plan[k].item \in Objects => things'[plan[k].item] = things[plan[k].item]
  BY <1>1 DEF SameElsewhere
<1>3. plan[k].item \in links' <=> plan[k].item \in links
  BY <1>1 DEF SameElsewhere
<1>4. plan[k].item \in Bindings => bound'[plan[k].item] = bound[plan[k].item]
  BY <1>1 DEF SameElsewhere
<1>5. Done(plan[k].item) => Done(plan[k].item)'
  BY <1>1, <1>2, <1>3, <1>4 DEF Done, Named
<1>6. StillDue(plan[k].item, plan[k]) => StillDue(plan[k].item, plan[k])'
  BY <1>1, <1>2, <1>3, <1>4 DEF StillDue, ObjectChange, LinkChange, Found, Named
<1> QED
  BY <1>5, <1>6

(* What is there stays there, and what may be held may still be held.      *)
Grows ==
    /\ things' \in [Objects -> {"absent", "stale", "stated", "twice"}]
    /\ \A o \in Objects : things[o] # "absent" => things'[o] # "absent"
    /\ \A o \in Objects : things'[o] = "twice" => o \in ToSet(Accounts)

LEMMA MayStillHold ==
  ASSUME Grows, UNCHANGED wanted, NEW b \in Bindings, NEW h, MayHold(b, h)
  PROVE  h # Unbound =>
           /\ \A n \in Needs[b] : things'[n] # "absent"
           /\ ~PlainHolders /\ h.resource = NoResource => wanted'[b].resource = NoResource
<1>1. Needs[b] \subseteq Objects
  BY LaterFacts
<1> QED
  BY <1>1 DEF Grows, MayHold

LEMMA TenantKept ==
  ASSUME TenantInv, Grows, UNCHANGED wanted, \A b \in Bindings : MayHold(b, bound'[b])
  PROVE  TenantInv'
<1>1. \A b \in Bindings : MayHold(b, bound[b])'
  BY MayStillHold DEF MayHold
<1> QED
  BY <1>1 DEF TenantInv, Grows

(* What a plan relies on is kept by whatever keeps the plan.               *)
LEMMA PlanKeptInv ==
  ASSUME PlanInv, Grows, UNCHANGED <<wanted, plan>>, at \in Nat,
         \A k \in DOMAIN plan : k \in Nat /\ plan[k].item \in Named,
         pc' # "idle" => pc # "idle" /\ at' \in {at, at + 1},
         pc' # "idle" /\ at' = at + 1 /\ plan[at].item \in Objects
           => things'[plan[at].item] # "absent"
  PROVE  PlanInv'
<1>1. ASSUME NEW k \in DOMAIN plan, plan[k].item \in Bindings
      PROVE  MayHold(plan[k].item, plan[k].old)'
  BY <1>1, MayStillHold DEF PlanInv, MayHold
<1>2. ASSUME pc' # "idle", NEW k \in DOMAIN plan, plan[k].item \in Objects,
             k < at' \/ plan[k].change # "create"
      PROVE  things'[plan[k].item] # "absent"
  <2>1. CASE k < at \/ plan[k].change # "create"
    BY <1>2, <2>1 DEF PlanInv, Grows
  <2>2. CASE ~(k < at) /\ k < at'
    <3>1. k = at /\ at' = at + 1
      BY <1>2, <2>2
    <3> QED
      BY <1>2, <3>1
  <2> QED
    BY <1>2, <2>1, <2>2
<1> QED
  BY <1>1, <1>2 DEF PlanInv

(* A step that succeeds.                                                   *)
LEMMA GoSettles ==
  ASSUME ShapeInv, SettleInv, pc # "idle", NEW o \in Outcomes, o # "failed", Goes(o),
         SameElsewhere, Grows, UNCHANGED <<manifest, plan, disturbed>>,
         \A b \in Bindings : MayHold(b, bound'[b]),
         Item \in Objects => things'[Item] # "absent",
         ~disturbed => \A i \in {Item} : Done(i)'
  PROVE  SettleInv'
<1>1. /\ at' = at + 1 /\ pc' = IF at = Len(plan) THEN "idle" ELSE "running"
      /\ at \in Nat /\ \A k \in DOMAIN plan : k \in Nat /\ plan[k].item \in Named
      /\ wanted' = wanted /\ parent' = parent
  BY AtWork DEF Goes, manifest
<1>2. PlanMade'
  BY <1>1, ItemsStay DEF SettleInv, PlanMade, KindOf
<1>3. TenantInv'
  BY <1>1, TenantKept DEF SettleInv
<1>4. PlanInv'
  BY <1>1, PlanKeptInv DEF SettleInv, Item
<1>5. WorkInv'
  <2> SUFFICES ASSUME ~disturbed
               PROVE  /\ \A k \in DOMAIN report' : report'[k] # "failed"
                      /\ pc' # "idle" => \A k \in DOMAIN plan :
                            /\ k < at' => Done(plan[k].item)'
                            /\ k >= at' => StillDue(plan[k].item, plan[k])'
                      /\ pc' = "idle" => \A k \in DOMAIN plan : Done(plan[k].item)'
    <3>1. pc' # "restoring" /\ plan' = plan /\ disturbed' = disturbed /\ at' \in Nat
      BY <1>1
    <3>2. \A k \in DOMAIN plan : k > at' \/ k = at' => k >= at'
      BY <1>1
    <3> QED
      BY <3>1, <3>2 DEF WorkInv
  <2>1. \A k \in DOMAIN report' : report'[k] # "failed"
    <3>1. /\ DOMAIN report' = 1 .. at /\ report'[at] = o
          /\ \A k \in 1 .. at - 1 : k \in DOMAIN report /\ report'[k] = report[k]
      BY GoesFacts DEF ShapeInv
    <3>2. \A k \in 1 .. at : k = at \/ k \in 1 .. at - 1
      BY <1>1
    <3> QED
      BY <3>1, <3>2 DEF SettleInv, WorkInv
  <2>2. \A k \in DOMAIN plan : k <= at => Done(plan[k].item)'
    <3> SUFFICES ASSUME NEW k \in DOMAIN plan, k <= at PROVE Done(plan[k].item)'
      OBVIOUS
    <3>1. CASE k = at
      <4>1. plan'[k].item = Item
        BY <3>1 DEF Item
      <4> QED
        BY <4>1 DEF Done
    <3>2. CASE k # at
      <4>1. k < at
        BY <1>1, <3>2
      <4> QED
        BY <3>2, <4>1, OthersAsBefore DEF SettleInv, WorkInv
    <3> QED
      BY <3>1, <3>2
  <2>3. \A k \in DOMAIN plan : k > at => StillDue(plan[k].item, plan[k])'
    <3> SUFFICES ASSUME NEW k \in DOMAIN plan, k > at PROVE StillDue(plan[k].item, plan[k])'
      OBVIOUS
    <3>1. k # at
      BY <1>1
    <3> QED
      BY <3>1, OthersAsBefore DEF SettleInv, WorkInv
  <2>4. pc' = "idle" => \A k \in DOMAIN plan : k <= at
    <3>1. plan \in Seq(ToSet(plan))
      BY DEF ShapeInv, ReportInv, PlanFits
    <3> QED
      BY <1>1, <3>1
  <2>5. \A k \in DOMAIN plan : (k < at' => k <= at) /\ (k >= at' => k > at)
    BY <1>1
  <2> QED
    BY <2>1, <2>2, <2>3, <2>4, <2>5
<1> QED
  BY <1>2, <1>3, <1>4, <1>5 DEF SettleInv

(* A step that stops the apply, or a disturbance while it runs.            *)
LEMMA DisturbedSettles ==
  ASSUME ShapeInv, SettleInv, Grows, UNCHANGED <<manifest, plan>>, disturbed',
         \A b \in Bindings : MayHold(b, bound'[b]),
         pc' # "idle" => pc # "idle" /\ at' = at
  PROVE  SettleInv'
<1>1. wanted' = wanted /\ parent' = parent /\ plan' = plan
  BY DEF manifest
<1>2. PlanMade'
  BY <1>1, ItemsStay DEF SettleInv, PlanMade, KindOf
<1>3. TenantInv'
  BY <1>1, TenantKept DEF SettleInv
<1>4. PlanInv'
  <2>1. ASSUME NEW k \in DOMAIN plan, plan[k].item \in Bindings
        PROVE  MayHold(plan[k].item, plan[k].old)'
    BY <1>1, <2>1, MayStillHold DEF SettleInv, PlanInv, MayHold
  <2>2. pc' # "idle" => \A k \in DOMAIN plan :
           plan[k].item \in Objects /\ (k < at' \/ plan[k].change # "create")
              => things'[plan[k].item] # "absent"
    BY DEF SettleInv, PlanInv, Grows
  <2> QED
    BY <1>1, <2>1, <2>2 DEF PlanInv
<1>5. WorkInv'
  BY DEF WorkInv
<1> QED
  BY <1>2, <1>3, <1>4, <1>5 DEF SettleInv

(* A first apply finds a tenant that may hold what it holds.               *)
LEMMA SettleInit == Init => SettleInv
<1> SUFFICES ASSUME Init PROVE SettleInv
  OBVIOUS
<1>1. things \in [Objects -> {"absent", "stale", "stated"}]
  BY DEF Init
<1>2. \A b \in Bindings : MayHold(b, bound[b])
  <2> SUFFICES ASSUME NEW b \in Bindings, bound[b] # Unbound
               PROVE  /\ \A n \in Needs[b] : things[n] # "absent"
                      /\ ~PlainHolders => bound[b].resource # NoResource
    BY DEF MayHold
  <2> QED
    BY DEF Init, WellFormed, Found
<1>3. PlanMade /\ PlanInv /\ WorkInv
  BY DEF Init, PlanMade, PlanInv, WorkInv
<1> QED
  BY <1>1, <1>2, <1>3 DEF SettleInv, TenantInv

(* What a plan says of a binding, when it is computed.                     *)
LEMMA BindingPlanned ==
  ASSUME ShapeInv, SettleInv, NEW b \in Bindings
  PROVE  /\ Held(b) = bound[b] /\ MayHold(b, Held(b))
         /\ BindingChange(b) = "create" <=> bound[b] = Unbound
         /\ BindingChange(b) = "no-change" /\ ~PlainHolders => ShapeOf(bound[b]) = wanted[b]
<1>1. MayHold(b, bound[b]) /\ Needs[b] \subseteq Objects
  BY LaterFacts DEF SettleInv, TenantInv
<1>2. Held(b) = bound[b]
  BY <1>1 DEF Held, MayHold, Found
<1>3. BindingChange(b) = "create" <=> bound[b] = Unbound
  BY <1>2 DEF BindingChange
<1>4. ASSUME BindingChange(b) = "no-change", ~PlainHolders
      PROVE  ShapeOf(bound[b]) = wanted[b]
  <2>1. bound[b] # Unbound /\ ShapeOf(bound[b]) = StatedShape(b)
    BY <1>2, <1>4 DEF BindingChange
  <2>2. wanted[b] \in [resource : ResourceSet \cup {NoResource}, inherit : BOOLEAN]
    BY DEF ShapeInv, ManifestTyped, Shape
  <2>3. CASE wanted[b].resource \in Found
    BY <2>1, <2>2, <2>3 DEF StatedShape
  <2>4. CASE wanted[b].resource \notin Found
    <3>1. bound[b].resource = NoResource
      BY <2>1, <2>4 DEF StatedShape, ShapeOf
    <3>2. wanted[b].resource = NoResource
      BY <1>1, <1>4, <2>1, <3>1 DEF MayHold
    <3> QED
      BY <2>1, <2>2, <2>4, <3>2 DEF StatedShape
  <2> QED
    BY <2>3, <2>4
<1> QED
  BY <1>1, <1>2, <1>3, <1>4

(* An apply begins with all its work ahead of it, and due.                 *)
LEMMA BeginSettles == ShapeInv /\ SettleInv /\ Begin => SettleInv'
<1> SUFFICES ASSUME ShapeInv, SettleInv, Begin PROVE SettleInv'
  OBVIOUS
<1>1. /\ ~HasCycle /\ ~Ambiguous /\ plan' = Compute /\ at' = 1 /\ report' = <<>>
      /\ pc' \in {"idle", "running"} /\ parent' = parent /\ wanted' = wanted
      /\ things' = things /\ links' = links /\ bound' = bound
  BY DEF Begin, manifest, tenant
<1>2. /\ DOMAIN plan' = 1 .. Len(Items)
      /\ \A k \in DOMAIN plan' : plan'[k] = StepOf(Items[k]) /\ Items[k] \in Named
  BY <1>1, ComputeFacts DEF ShapeInv, ManifestTyped
<1>3. \A i \in Named : StepOf(i).item = i /\ StepOf(i).kind = KindOf(i)
  BY DEF StepOf, KindOf
<1>4. PlanMade'
  BY <1>1, <1>2, <1>3, ItemsStay DEF PlanMade, KindOf
<1>5. TenantInv'
  BY <1>1 DEF SettleInv, TenantInv, MayHold
<1>6. ASSUME NEW i \in Named
      PROVE  /\ i \in Bindings => MayHold(i, StepOf(i).old)
             /\ i \in Objects /\ StepOf(i).change # "create" => things[i] # "absent"
             /\ StillDue(i, StepOf(i))
  <2>1. CASE i \in Objects
    <3>1. i \notin Bindings /\ StepOf(i).change = ObjectChange(i)
      BY <2>1, LaterFacts DEF StepOf
    <3>2. things[i] # "twice"
      BY <1>1, <2>1 DEF Ambiguous, SettleInv, TenantInv
    <3> QED
      BY <2>1, <3>1, <3>2 DEF StillDue, ObjectChange, Found
  <2>2. CASE i \in Links
    BY <2>2, LaterFacts DEF StepOf, StillDue
  <2>3. CASE i \in Bindings
    <3>1. i \notin Objects /\ i \notin Links
      BY <2>3, LaterFacts
    <3>2. StepOf(i).change = BindingChange(i) /\ StepOf(i).old = Held(i)
      BY <3>1 DEF StepOf
    <3> QED
      BY <2>3, <3>1, <3>2, BindingPlanned DEF StillDue
  <2> QED
    BY <2>1, <2>2, <2>3 DEF Named
<1>7. PlanInv'
  <2>1. ASSUME NEW k \in DOMAIN plan', plan'[k].item \in Bindings
        PROVE  MayHold(plan[k].item, plan[k].old)'
    <3>1. MayHold(plan'[k].item, plan'[k].old)
      BY <1>2, <1>3, <1>6, <2>1
    <3> QED
      BY <1>1, <3>1 DEF MayHold
  <2>2. ASSUME NEW k \in DOMAIN plan', plan'[k].item \in Objects, plan'[k].change # "create"
        PROVE  things'[plan'[k].item] # "absent"
    BY <1>1, <1>2, <1>3, <1>6, <2>2
  <2>3. \A k \in DOMAIN plan' : ~(k < at')
    BY <1>1, <1>2
  <2> QED
    BY <2>1, <2>2, <2>3 DEF PlanInv
<1>8. WorkInv'
  <2>1. ASSUME NEW k \in DOMAIN plan' PROVE StillDue(plan[k].item, plan[k])'
    <3>1. StillDue(plan'[k].item, plan'[k])
      BY <1>2, <1>3, <1>6
    <3> QED
      BY <1>1, <3>1 DEF StillDue, ObjectChange, LinkChange, Found
  <2>2. \A k \in DOMAIN plan' : ~(k < at')
    BY <1>1, <1>2
  <2> QED
    BY <1>1, <2>1, <2>2 DEF WorkInv
<1> QED
  BY <1>4, <1>5, <1>7, <1>8 DEF SettleInv

(* A write of a binding: the subject holds it as the manifest states.      *)
LEMMA WrittenHolding ==
  ASSUME ShapeInv, SettleInv, pc # "idle", Item \in Bindings, NEW h \in Holding,
         h.resource = wanted[Item].resource, h.inherit = wanted[Item].inherit
  PROVE  MayHold(Item, h) /\ h # Unbound /\ ShapeOf(h) = wanted[Item]
<1>1. wanted[Item] \in [resource : ResourceSet \cup {NoResource}, inherit : BOOLEAN]
  BY DEF ShapeInv, ManifestTyped, Shape
<1> QED
  BY <1>1, AtWork, HoldingFacts DEF MayHold, ShapeOf

(* Whatever a step does to its binding alone, to what it may hold.         *)
LEMMA BindingMoves ==
  ASSUME ShapeInv, SettleInv, pc # "idle", Item \in Bindings, UNCHANGED <<things, links>>,
         NEW h, MayHold(Item, h), bound' = bound \/ bound' = [bound EXCEPT ![Item] = h]
  PROVE  SameElsewhere /\ Grows /\ \A b \in Bindings : MayHold(b, bound'[b])
<1>1. bound \in [Bindings -> Holding \cup {Unbound}]
  BY DEF ShapeInv, BoundTyped
<1>2. \A b \in Bindings : MayHold(b, bound[b])
  BY DEF SettleInv, TenantInv
<1>3. \A b \in Bindings : bound'[b] = bound[b] \/ (b = Item /\ bound'[b] = h)
  BY <1>1
<1>4. Grows /\ things' \in [Objects -> {"absent", "stale", "stated", "twice"}]
  BY DEF Grows, SettleInv, TenantInv
<1> QED
  BY <1>2, <1>3, <1>4 DEF SameElsewhere

(* One write that is not a rebind, when it takes effect.                   *)
LEMMA EffectSettles ==
  ASSUME ShapeInv, SettleInv, Writing, ~Refuses, TakesEffect, UNCHANGED wanted
  PROVE  /\ SameElsewhere /\ Grows /\ \A b \in Bindings : MayHold(b, bound'[b])
         /\ Item \in Objects => things'[Item] # "absent"
         /\ ~disturbed => \A i \in {Item} : Done(i)'
<1>1. /\ pc = "running" /\ pc # "idle" /\ Change # "no-change" /\ ~IsRebind
      /\ Item \in Named /\ Kind = KindOf(Item)
  BY AtWork DEF Writing
<1>2. things \in [Objects -> {"absent", "stale", "stated", "twice"}]
  BY DEF SettleInv, TenantInv
<1>3. ~disturbed => StillDue(Item, plan[at])
  BY <1>1, AtWork DEF SettleInv, WorkInv, Item
<1>4. CASE Kind = "object"
  <2> DEFINE t == IF Change = "create" /\ things[Item] # "absent" THEN "twice" ELSE "stated"
  <2>1. Item \in Objects /\ Item \notin Bindings
    BY <1>1, <1>4, LaterFacts DEF KindOf
  <2>2. things' = [things EXCEPT ![Item] = t] /\ links' = links /\ bound' = bound
    BY <1>1, <1>2, <1>4, <2>1 DEF TakesEffect
  <2>3. t = "twice" => Item \in ToSet(Accounts)
    BY <1>4 DEF Refuses
  <2>4. SameElsewhere /\ things'[Item] = t
    BY <1>2, <2>1, <2>2 DEF SameElsewhere
  <2>5. Grows
    BY <1>2, <2>1, <2>2, <2>3 DEF Grows, SettleInv, TenantInv
  <2>6. \A b \in Bindings : MayHold(b, bound'[b])
    BY <2>2 DEF SettleInv, TenantInv
  <2>7. ~disturbed => t = "stated"
    BY <1>3, <2>1 DEF StillDue, ObjectChange, Found, Change
  <2> QED
    BY <2>1, <2>4, <2>5, <2>6, <2>7 DEF Done
<1>5. CASE Kind = "link"
  <2>1. Item \in Links /\ Item \notin Objects /\ Item \notin Bindings
    BY <1>1, <1>5, LaterFacts DEF KindOf
  <2>2. links' = links \cup {Item} /\ things' = things /\ bound' = bound
    BY <1>5 DEF TakesEffect
  <2> QED
    BY <1>2, <2>1, <2>2 DEF SameElsewhere, Grows, Done, SettleInv, TenantInv
<1>6. CASE Kind = "binding"
  <2> DEFINE h == [resource |-> wanted[Item].resource, inherit |-> wanted[Item].inherit,
                   scope |-> "whole"]
  <2>1. Item \in Bindings /\ Item \notin Objects /\ Item \notin Links
    BY <1>1, <1>6, LaterFacts DEF KindOf, Named
  <2>2. bound' = [bound EXCEPT ![Item] = h] /\ things' = things /\ links' = links
    BY <1>6 DEF TakesEffect
  <2>3. h \in Holding
    BY <2>1, HoldingFacts DEF ShapeInv, ManifestTyped
  <2>4. MayHold(Item, h) /\ h # Unbound /\ ShapeOf(h) = wanted[Item]
    BY <1>1, <2>1, <2>3, WrittenHolding
  <2>5. bound'[Item] = h
    BY <2>1, <2>2 DEF ShapeInv, BoundTyped
  <2> HIDE DEF h
  <2>6. SameElsewhere /\ Grows /\ \A b \in Bindings : MayHold(b, bound'[b])
    BY <1>1, <2>1, <2>2, <2>4, BindingMoves
  <2> QED
    BY <2>1, <2>4, <2>5, <2>6 DEF Done
<1> QED
  BY <1>1, <1>4, <1>5, <1>6 DEF KindOf

(* Every step keeps it, one case per action.                               *)
LEMMA SettleStep == ShapeInv /\ SettleInv /\ [Next]_vars => SettleInv'
<1> SUFFICES ASSUME ShapeInv, SettleInv, [Next]_vars PROVE SettleInv'
  OBVIOUS
<1>typed. things \in [Objects -> {"absent", "stale", "stated", "twice"}]
  BY DEF SettleInv, TenantInv
<1>same. ASSUME UNCHANGED tenant
         PROVE  SameElsewhere /\ Grows /\ \A b \in Bindings : MayHold(b, bound'[b])
  BY <1>typed, <1>same DEF tenant, SameElsewhere, Grows, SettleInv, TenantInv
<1>rebind. ASSUME pc # "idle", IsRebind
           PROVE  /\ Item \in Bindings /\ Item \notin Objects /\ Item \notin Links
                  /\ MayHold(Item, Unbound) /\ MayHold(Item, plan[at].old)
                  /\ MayHold(Item, Rebound) /\ Rebound # Unbound
                  /\ ShapeOf(Rebound) = wanted[Item]
  <2>1. Item \in Bindings /\ Item \notin Objects /\ Item \notin Links
    BY <1>rebind, AtWork, LaterFacts DEF IsRebind, KindOf, Named
  <2>2. at \in DOMAIN plan /\ StepFits(plan[at])
    BY <1>rebind, AtWork DEF ShapeInv, ReportInv, PlanFits
  <2>3. plan[at].old \in Holding
    BY <1>rebind, <2>2 DEF IsRebind, StepFits, Kind, Change
  <2>4. Rebound \in Holding
    BY <2>1, <2>3, HoldingFacts DEF Rebound, ShapeInv, ManifestTyped
  <2>5. Rebound.resource = wanted[Item].resource /\ Rebound.inherit = wanted[Item].inherit
    BY DEF Rebound
  <2>6. MayHold(Item, Rebound) /\ Rebound # Unbound /\ ShapeOf(Rebound) = wanted[Item]
    BY <1>rebind, <2>1, <2>4, <2>5, WrittenHolding
  <2>7. MayHold(Item, plan[at].old)
    BY <2>1, <2>2 DEF SettleInv, PlanInv, Item
  <2> QED
    BY <2>1, <2>6, <2>7 DEF MayHold
<1>rebinding. pc \in {"unassigned", "restoring"} => IsRebind
  BY DEF ShapeInv, ReportInv
<1>due. ASSUME pc = "running", ~disturbed PROVE StillDue(Item, plan[at])
  BY <1>due, AtWork DEF SettleInv, WorkInv, Item
<1>1. CASE Begin
  BY <1>1, BeginSettles
<1>2. CASE RunNoop
  <2>1. /\ pc # "idle" /\ pc = "running" /\ Change = "no-change" /\ Goes("unchanged")
        /\ UNCHANGED <<manifest, plan, disturbed>> /\ UNCHANGED tenant
    BY <1>2 DEF RunNoop
  <2>2. Item \in Named
    BY <2>1, AtWork
  <2>3. Item \in Objects => things'[Item] # "absent"
    BY <2>1, AtWork DEF SettleInv, PlanInv, Item, Change, tenant
  <2>4. ~disturbed => \A i \in {Item} : Done(i)'
    BY <1>typed, <1>due, <2>1, <2>2
    DEF Done, StillDue, ObjectChange, LinkChange, Found, Change, tenant, manifest, Named
  <2> QED
    BY <1>same, <2>1, <2>3, <2>4, GoSettles DEF Outcomes
<1>3. CASE RunStep
  <2> DEFINE o == IF Change = "create" THEN "created" ELSE "updated"
  <2>1. /\ Writing /\ ~Refuses /\ TakesEffect /\ Goes(o)
        /\ UNCHANGED <<manifest, plan, disturbed>> /\ UNCHANGED wanted
    BY <1>3 DEF RunStep, manifest
  <2>2. pc # "idle" /\ o \in Outcomes /\ o # "failed"
    BY <2>1 DEF Writing, Outcomes
  <2> HIDE DEF o
  <2> QED
    BY <2>1, <2>2, EffectSettles, GoSettles
<1>4. CASE StepRefused
  <2>1. disturbed'
    <3>1. CASE Refuses
      <4>1. disturbed
        <5> SUFFICES ASSUME ~disturbed PROVE FALSE
          OBVIOUS
        <5>1. pc = "running" /\ StillDue(Item, plan[at]) /\ pc # "idle"
          BY <1>4, <1>due DEF StepRefused, Writing
        <5>2. Item \in Named /\ Kind = KindOf(Item)
          BY <5>1, AtWork
        <5> QED
          BY <3>1, <5>1, <5>2, LaterFacts
          DEF Refuses, StillDue, ObjectChange, LinkChange, Found, Change, KindOf, Named
      <4> QED
        BY <1>4, <4>1 DEF StepRefused, Fault
    <3>2. CASE ~Refuses
      BY <1>4, <3>2 DEF StepRefused, Fault
    <3> QED
      BY <3>1, <3>2
  <2>2. pc' = "idle" /\ UNCHANGED <<manifest, plan>> /\ UNCHANGED tenant
    BY <1>4 DEF StepRefused, Stops
  <2> QED
    BY <1>same, <2>1, <2>2, DisturbedSettles
<1>5. CASE StepLost
  <2>1. /\ Writing /\ ~Refuses /\ TakesEffect /\ UNCHANGED <<manifest, plan>>
        /\ UNCHANGED wanted /\ disturbed' /\ pc' = "idle"
    BY <1>5 DEF StepLost, Fault, Stops, manifest
  <2> QED
    BY <2>1, EffectSettles, DisturbedSettles
<1>6. CASE Unassign
  <2>1. /\ pc = "running" /\ pc # "idle" /\ IsRebind /\ pc' = "unassigned" /\ at' = at
        /\ bound' = [bound EXCEPT ![Item] = Unbound] /\ UNCHANGED <<things, links>>
        /\ UNCHANGED <<manifest, plan, report, disturbed>> /\ UNCHANGED wanted
    BY <1>6 DEF Unassign, manifest
  <2>2. SameElsewhere /\ Grows /\ \A b \in Bindings : MayHold(b, bound'[b])
    BY <1>rebind, <2>1, BindingMoves
  <2>3. PlanMade' /\ TenantInv'
    BY <2>1, <2>2, ItemsStay, TenantKept DEF SettleInv, PlanMade, KindOf, manifest
  <2>4. PlanInv'
    BY <2>1, <2>2, PlanKeptInv, AtWork DEF SettleInv
  <2>5. WorkInv'
    <3> SUFFICES ASSUME ~disturbed
                 PROVE  /\ \A k \in DOMAIN report : report[k] # "failed"
                        /\ \A k \in DOMAIN plan :
                              /\ k < at => Done(plan[k].item)'
                              /\ k > at => StillDue(plan[k].item, plan[k])'
      BY <2>1 DEF WorkInv
    <3>1. \A k \in DOMAIN plan : (k < at => k # at) /\ (k > at => k # at)
      BY <2>1, AtWork
    <3> QED
      BY <2>1, <2>2, <3>1, OthersAsBefore DEF SettleInv, WorkInv
  <2> QED
    BY <2>3, <2>4, <2>5 DEF SettleInv
<1>7. CASE UnassignFails
  <2>1. /\ pc # "idle" /\ IsRebind /\ pc' = "idle" /\ disturbed'
        /\ bound' = bound \/ bound' = [bound EXCEPT ![Item] = Unbound]
        /\ UNCHANGED <<things, links>> /\ UNCHANGED <<manifest, plan>>
    BY <1>7 DEF UnassignFails, Fault, Stops
  <2>2. Grows /\ \A b \in Bindings : MayHold(b, bound'[b])
    BY <1>rebind, <2>1, BindingMoves
  <2> QED
    BY <2>1, <2>2, DisturbedSettles
<1>8. CASE Assign
  <2>1. /\ pc = "unassigned" /\ pc # "idle" /\ IsRebind
        /\ bound' = [bound EXCEPT ![Item] = Rebound] /\ UNCHANGED <<things, links>>
        /\ Goes("updated") /\ UNCHANGED <<manifest, plan, disturbed>> /\ wanted' = wanted
    BY <1>8, <1>rebinding DEF Assign, manifest
  <2>2. SameElsewhere /\ Grows /\ \A b \in Bindings : MayHold(b, bound'[b])
    BY <1>rebind, <2>1, BindingMoves
  <2>3. bound'[Item] = Rebound
    BY <1>rebind, <2>1 DEF ShapeInv, BoundTyped
  <2>4. \A i \in {Item} : Done(i)'
    BY <1>rebind, <2>1, <2>3 DEF Done
  <2> QED
    BY <1>rebind, <2>1, <2>2, <2>4, GoSettles DEF Outcomes
<1>9. CASE AssignFails
  <2>1. /\ pc # "idle" /\ IsRebind /\ at' = at /\ disturbed'
        /\ bound' = bound \/ bound' = [bound EXCEPT ![Item] = Rebound]
        /\ UNCHANGED <<things, links>> /\ UNCHANGED <<manifest, plan>>
    BY <1>9, <1>rebinding DEF AssignFails, Fault
  <2>2. Grows /\ \A b \in Bindings : MayHold(b, bound'[b])
    BY <1>rebind, <2>1, BindingMoves
  <2> QED
    BY <2>1, <2>2, DisturbedSettles
<1>10. CASE RestoreSucceeds \/ RestoreFails
  <2>1. /\ pc = "restoring" /\ pc # "idle" /\ IsRebind /\ pc' = "idle"
        /\ bound' = bound \/ bound' = [bound EXCEPT ![Item] = plan[at].old]
        /\ UNCHANGED <<things, links>> /\ UNCHANGED <<manifest, plan>>
        /\ disturbed' = disturbed \/ disturbed' = TRUE
    BY <1>10, <1>rebinding DEF RestoreSucceeds, RestoreFails, Fault, Stops
  <2>2. disturbed'
    BY <2>1 DEF SettleInv, WorkInv
  <2>3. Grows /\ \A b \in Bindings : MayHold(b, bound'[b])
    BY <1>rebind, <2>1, BindingMoves
  <2> QED
    BY <2>1, <2>2, <2>3, DisturbedSettles
<1>11. CASE Crash
  <2>1. /\ UNCHANGED manifest /\ UNCHANGED tenant /\ plan' = <<>> /\ pc' = "idle"
        /\ disturbed' /\ wanted' = wanted
    BY <1>11 DEF Crash, Fault, manifest
  <2>2. TenantInv'
    BY <1>same, <2>1, TenantKept DEF SettleInv
  <2> QED
    BY <2>1, <2>2 DEF SettleInv, PlanMade, PlanInv, WorkInv
<1>12. ASSUME NEW o \in Objects, OtherWrites(o) PROVE SettleInv'
  <2>1. PICK t \in {"stated", "stale"} : things[o] # "twice"
                                           /\ things' = [things EXCEPT ![o] = t]
    BY <1>12 DEF OtherWrites
  <2>2. Grows
    BY <1>typed, <2>1 DEF Grows, SettleInv, TenantInv
  <2>3. /\ bound' = bound /\ UNCHANGED <<manifest, plan>> /\ disturbed'
        /\ pc' = pc /\ at' = at
    BY <1>12 DEF OtherWrites
  <2>4. \A b \in Bindings : MayHold(b, bound'[b])
    BY <2>3 DEF SettleInv, TenantInv
  <2> QED
    BY <2>2, <2>3, <2>4, DisturbedSettles
<1>13. CASE UNCHANGED vars
  <2>1. /\ UNCHANGED <<parent, wanted, things, links, bound, pc, plan, at, report>>
        /\ UNCHANGED disturbed
    BY <1>13 DEF vars, manifest, tenant
  <2>2. PlanMade' /\ TenantInv' /\ PlanInv'
    BY <2>1, ItemsStay DEF SettleInv, PlanMade, TenantInv, PlanInv, MayHold, KindOf
  <2>3. WorkInv'
    BY <2>1
    DEF SettleInv, WorkInv, Done, StillDue, ObjectChange, LinkChange, Found
  <2> QED
    BY <2>2, <2>3 DEF SettleInv
<1> QED
  BY <1>1, <1>2, <1>3, <1>4, <1>5, <1>6, <1>7, <1>8, <1>9, <1>10, <1>11, <1>12, <1>13
  DEF Next

(* The inductive invariant of what an apply has done and has yet to do.    *)
THEOREM SettleInvariance == MCSpec => [](ShapeInv /\ SettleInv)
<1>1. MCInit => SettleInv
  BY SettleInit DEF MCInit
<1> QED
  BY <1>1, Parts, SettleStep, ShapeInvariance, PTL DEF MCSpec

(* Whatever earlier applies left behind, an apply that meets no new fault  *)
(* and no other writer runs to its end: no step of it fails.               *)
THEOREM RerunsRecover == MCSpec => []RerunRecovers
<1>1. SettleInv => RerunRecovers
  BY DEF SettleInv, WorkInv, RerunRecovers, ToSet
<1> QED
  BY <1>1, SettleInvariance, PTL

(* An apply knows the id of every object it found or has been through.     *)
ResolvedInv ==
    pc # "idle" =>
        \A k \in DOMAIN plan :
           plan[k].item \in Objects /\ (k < at \/ plan[k].change # "create")
              => plan[k].item \in resolved

LEMMA ResolvedStep == ShapeInv /\ SettleInv /\ ResolvedInv /\ [Next]_vars => ResolvedInv'
<1> SUFFICES ASSUME ShapeInv, SettleInv, ResolvedInv, [Next]_vars PROVE ResolvedInv'
  OBVIOUS
<1>1. CASE Begin
  <2>1. plan' = Compute /\ at' = 1 /\ resolved' = Found /\ ~HasCycle
    BY <1>1 DEF Begin
  <2>2. \A k \in DOMAIN plan' : plan'[k] = StepOf(Items[k]) /\ k \in Nat /\ ~(k < 1)
    BY <2>1, ComputeFacts DEF ShapeInv, ManifestTyped
  <2>3. \A i \in Objects : StepOf(i).change # "create" => i \in Found
    BY DEF StepOf, ObjectChange
  <2>4. \A i : StepOf(i).item = i
    BY DEF StepOf
  <2> QED
    BY <2>1, <2>2, <2>3, <2>4 DEF ResolvedInv
<1>2. ASSUME pc # "idle", plan' = plan, resolved \subseteq resolved', at' \in {at, at + 1},
             at' = at + 1 /\ Item \in Objects => Change # "create" \/ Item \in resolved'
      PROVE  ResolvedInv'
  <2>1. at \in Nat /\ \A k \in DOMAIN plan : k \in Nat
    BY <1>2, AtWork
  <2> SUFFICES ASSUME NEW k \in DOMAIN plan, plan[k].item \in Objects,
                      k < at' \/ plan[k].change # "create"
               PROVE  plan[k].item \in resolved'
    BY <1>2 DEF ResolvedInv
  <2>2. CASE k < at \/ plan[k].change # "create"
    BY <1>2, <2>2 DEF ResolvedInv
  <2>3. CASE k = at /\ at' = at + 1 /\ plan[k].change = "create"
    BY <1>2, <2>3 DEF Item, Change
  <2> QED
    BY <1>2, <2>1, <2>2, <2>3
<1>at. pc # "idle" => at \in Nat /\ at # at + 1
  BY AtWork
<1>3. ASSUME pc' = "idle" PROVE ResolvedInv'
  BY <1>3 DEF ResolvedInv
<1>4. CASE RunNoop
  BY <1>2, <1>4 DEF RunNoop, Goes
<1>5. CASE RunStep
  <2>1. pc # "idle" /\ Kind = KindOf(Item)
    BY <1>5, AtWork DEF RunStep, Writing
  <2> QED
    BY <1>2, <1>5, <2>1 DEF RunStep, Goes, KindOf
<1>6. CASE StepRefused \/ StepLost
  BY <1>3, <1>6 DEF StepRefused, StepLost, Stops
<1>7. CASE Unassign
  BY <1>2, <1>at, <1>7 DEF Unassign
<1>8. CASE UnassignFails
  BY <1>3, <1>8 DEF UnassignFails, Stops
<1>9. CASE Assign
  <2>1. pc # "idle" /\ IsRebind
    BY <1>9 DEF Assign, ShapeInv, ReportInv
  <2> QED
    BY <1>2, <1>9, <2>1 DEF Assign, Goes, IsRebind
<1>10. CASE AssignFails
  BY <1>2, <1>at, <1>10 DEF AssignFails
<1>11. CASE RestoreSucceeds \/ RestoreFails
  BY <1>3, <1>11 DEF RestoreSucceeds, RestoreFails, Stops
<1>12. CASE Crash
  BY <1>3, <1>12 DEF Crash
<1>13. ASSUME NEW o \in Objects, OtherWrites(o) PROVE ResolvedInv'
  BY <1>13 DEF OtherWrites, ResolvedInv
<1>14. CASE UNCHANGED vars
  BY <1>14 DEF vars, ResolvedInv
<1> QED
  BY <1>1, <1>4, <1>5, <1>6, <1>7, <1>8, <1>9, <1>10, <1>11, <1>12, <1>13, <1>14 DEF Next

(* No write of an apply names a thing whose id it does not know: a parent  *)
(* is created before its children, and everything a scope, a grant, a      *)
(* binding or a membership names before it, whatever fails or is rerun.    *)
THEOREM IdsAreResolved == MCSpec => []ResolvedBeforeUse
<1>1. MCInit => ResolvedInv
  BY DEF MCInit, Init, ResolvedInv
<1>2. ASSUME ShapeInv, SettleInv, ResolvedInv PROVE ResolvedBeforeUse
  <2> SUFFICES ASSUME pc # "idle", Change # "no-change"
               PROVE  /\ NeededBy(Item) \subseteq resolved
                      /\ Change = "update" /\ Kind = "object" => Item \in resolved
    BY DEF ResolvedBeforeUse
  <2>1. /\ at \in DOMAIN plan /\ Kind = KindOf(Item) /\ plan # <<>>
        /\ Item \in Named /\ at \in Nat
    BY <1>2, AtWork
  <2>2. /\ ManifestTyped /\ ~HasCycle /\ DOMAIN plan = DOMAIN Items
        /\ DOMAIN plan = 1 .. Len(Items) /\ Len(Items) \in Nat
        /\ \A k \in DOMAIN plan : plan[k].item = Items[k]
    BY <1>2, <2>1, ComputeFacts DEF ShapeInv, ManifestTyped, SettleInv, PlanMade
  <2>3. NeededBy(Item) \subseteq Objects \cap { Items[j] : j \in 1 .. at - 1 }
    BY <2>1, <2>2, NeededFirst DEF Item
  <2>4. \A j \in 1 .. at - 1 : j \in DOMAIN plan /\ j < at /\ plan[j].item = Items[j]
    BY <2>1, <2>2
  <2>5. \A j \in 1 .. at - 1 : Items[j] \in Objects => Items[j] \in resolved
    BY <1>2, <2>4 DEF ResolvedInv
  <2>6. Change = "update" /\ Kind = "object" => Item \in resolved
    BY <1>2, <2>1 DEF ResolvedInv, Item, Change, KindOf
  <2> QED
    BY <2>3, <2>5, <2>6
<1> QED
  BY <1>1, <1>2, Parts, ResolvedStep, SettleInvariance, PTL DEF MCSpec

(* When an undisturbed apply is over, everything is as the manifest states *)
(* it.                                                                     *)
LEMMA AllDone ==
  ASSUME ShapeInv, SettleInv, Reported, ~disturbed
  PROVE  ParentTyped /\ ~HasCycle /\ \A i \in Named : Done(i)
<1>1. plan # <<>>
  <2>1. report \in Seq(Outcomes) /\ report # <<>> /\ Len(report) \in {0, Len(plan)}
    BY DEF ShapeInv, ReportInv, Reported
  <2> QED
    BY <2>1
<1>2. ParentTyped /\ ~HasCycle
  BY <1>1 DEF ShapeInv, ManifestTyped, SettleInv, PlanMade
<1>3. ASSUME NEW i \in Named PROVE Done(i)
  <2>1. PICK k \in DOMAIN Items : Items[k] = i
    BY <1>2, ItemsFacts DEF ToSet
  <2>2. k \in DOMAIN plan /\ plan[k].item = i
    BY <1>1, <1>2, <2>1, ItemsFacts, ComputeFacts DEF SettleInv, PlanMade
  <2> QED
    BY <2>2 DEF SettleInv, WorkInv, Reported
<1> QED
  BY <1>2, <1>3

(* An apply that completes undisturbed leaves nothing to do: the next plan *)
(* is of no-changes, and every binding is the one the manifest states, if  *)
(* the tenant held no plain binding at first.                              *)
THEOREM AppliesConverge ==
  ASSUME PlainHolders = FALSE
  PROVE  MCSpec => []Converges
<1>1. ASSUME ShapeInv, SettleInv PROVE Converges
  <2> SUFFICES ASSUME Reported, ~disturbed
               PROVE  /\ \A step \in ToSet(Compute) : step.change = "no-change"
                      /\ \A b \in Bindings : ShapeOf(bound[b]) = wanted[b]
    BY DEF Converges, Complete
  <2>1. ParentTyped /\ ~HasCycle /\ \A i \in Named : Done(i)
    BY <1>1, AllDone
  <2>2. \A o \in Objects : things[o] = "stated" /\ o \in Found
    BY <2>1 DEF Done, Named, Found
  <2>3. ASSUME NEW b \in Bindings
        PROVE  /\ b \notin Objects /\ b \notin Links /\ bound[b] # Unbound
               /\ ShapeOf(bound[b]) = wanted[b]
    BY <2>1, LaterFacts DEF Done, Named
  <2>4. ASSUME NEW b \in Bindings PROVE BindingChange(b) = "no-change"
    <3>1. Held(b) = bound[b]
      BY <1>1, BindingPlanned
    <3>2. /\ wanted[b] \in [resource : ResourceSet \cup {NoResource}, inherit : BOOLEAN]
          /\ ResourceSet \subseteq Objects
      BY <1>1, SectionFacts DEF ShapeInv, ManifestTyped, Shape
    <3>3. StatedShape(b) = wanted[b]
      BY <2>2, <3>2 DEF StatedShape
    <3> QED
      BY <2>3, <3>1, <3>3 DEF BindingChange
  <2>5. ASSUME NEW i \in Named PROVE StepOf(i).change = "no-change"
    BY <2>1, <2>2, <2>3, <2>4 DEF StepOf, Named, Done, ObjectChange, LinkChange
  <2>6. \A step \in ToSet(Compute) : \E i \in Named : step = StepOf(i)
    BY <2>1, ComputeFacts DEF ToSet
  <2> QED
    BY <2>3, <2>5, <2>6
<1> QED
  BY <1>1, SettleInvariance, PTL

-----------------------------------------------------------------------------
(* The network section. A row only moves to a higher version, so one that  *)
(* still has the version that was read is the row that was read.           *)
Caps == Secs \cup {0, Unstated}
PolicyRow == [cap : Caps, version : Nat]
SegmentRow == [vlan : {"none", "stale", "stated"},
               rank : {"none", "default", "r1", "r2"}, version : Nat]
ProfileRow == [timeout : Caps, action : {"none", "default", "a1", "a2", "unknown"},
               version : Nat]
SegmentRows == [Network!SegmentSet -> SegmentRow]
ProfileRows == [Network!SegmentSet -> ProfileRow]

NetworkTypes ==
    /\ wantCap \in Caps /\ wantTimeout \in [Network!SegmentSet -> Caps]
    /\ policy \in PolicyRow /\ segment \in SegmentRows /\ profile \in ProfileRows
    /\ read \in [policy : PolicyRow, segment : SegmentRows, profile : ProfileRows]

(* The read of a row is the row as it was, and a profile that exists has a *)
(* version.                                                                *)
ReadInv ==
    \A s \in Network!SegmentSet :
        /\ read.segment[s].version <= segment[s].version
        /\ read.segment[s].version = segment[s].version => read.segment[s] = segment[s]
        /\ read.profile[s].version <= profile[s].version
        /\ read.profile[s].version = profile[s].version
              => read.profile[s].action = profile[s].action
        /\ profile[s] # Network!NoProfile => profile[s].version > 0

NetworkInv == NetworkTypes /\ ReadInv

CountInv == nWrites \in Nat

LEMMA NetworkInit == Network!Init => NetworkInv
<1> SUFFICES ASSUME Network!Init PROVE NetworkInv
  OBVIOUS
<1> USE DEF Network!Init, Caps, PolicyRow, SegmentRow, ProfileRow, SegmentRows, ProfileRows,
        Network!NoSegment, Network!NoProfile
<1>1. NetworkTypes
  <2>1. policy \in PolicyRow /\ wantCap \in Caps
    OBVIOUS
  <2>2. wantTimeout \in [Network!SegmentSet -> Caps]
    OBVIOUS
  <2>3. segment \in SegmentRows
    OBVIOUS
  <2>4. profile \in ProfileRows
    OBVIOUS
  <2> QED
    BY <2>1, <2>2, <2>3, <2>4 DEF NetworkTypes
<1>2. ReadInv
  BY <1>1 DEF ReadInv, NetworkTypes
<1> QED
  BY <1>1, <1>2 DEF NetworkInv

(* A write moves one row on by one version and leaves the others alone.    *)
Moves(old, new) == new = old \/ new.version = old.version + 1

LEMMA WritesMoveRows ==
  ASSUME NetworkInv, Network!TakesEffect \/ Network!OtherWrites \/ UNCHANGED Network!tenant
  PROVE  /\ policy' \in PolicyRow /\ segment' \in SegmentRows /\ profile' \in ProfileRows
         /\ \A s \in Network!SegmentSet :
               Moves(segment[s], segment'[s]) /\ Moves(profile[s], profile'[s])
<1> USE DEF NetworkInv, NetworkTypes, Moves
<1>1. CASE UNCHANGED Network!tenant
  BY <1>1 DEF Network!tenant
<1>2. CASE Network!TakesEffect
  <2> DEFINE here == Network!Here
  <2>1. CASE /\ policy' = [cap |-> wantCap, version |-> policy.version + 1]
             /\ UNCHANGED <<segment, profile>>
    BY <2>1 DEF PolicyRow
  <2>2. CASE /\ segment' = [segment EXCEPT ![here] = Network!SegmentBody(here)]
             /\ UNCHANGED <<policy, profile>>
    <3>1. here \in Network!SegmentSet =>
             /\ Network!SegmentBody(here) \in SegmentRow
             /\ Network!SegmentBody(here).version = segment[here].version + 1
      BY DEF Network!SegmentBody, SegmentRow, SegmentRows
    <3> HIDE DEF here
    <3> QED
      BY <2>2, <3>1 DEF SegmentRows
  <2>3. CASE /\ profile' = [profile EXCEPT ![here] = Network!ProfileBody(here)]
             /\ UNCHANGED <<policy, segment>>
    <3>1. here \in Network!SegmentSet =>
             /\ Network!ProfileBody(here) \in ProfileRow
             /\ Network!ProfileBody(here).version = profile[here].version + 1
      BY DEF Network!ProfileBody, Network!ProfileIn, Network!NoProfile, ProfileRow,
         ProfileRows, SegmentRows
    <3> HIDE DEF here
    <3> QED
      BY <2>3, <3>1 DEF ProfileRows
  <2> QED
    BY <1>2, <2>1, <2>2, <2>3 DEF Network!TakesEffect
<1>3. CASE Network!OtherWrites
  <2>1. CASE \E c \in Secs \ {policy.cap} :
                policy' = [cap |-> c, version |-> policy.version + 1]
    BY <1>3, <2>1 DEF Network!OtherWrites, PolicyRow, Caps
  <2>2. CASE \E s \in Network!SegmentSet : segment' = [segment EXCEPT ![s] =
                   [vlan |-> "stale", rank |-> "r2", version |-> @.version + 1]]
    BY <1>3, <2>2 DEF Network!OtherWrites, SegmentRow, SegmentRows
  <2>3. CASE \E s \in Network!SegmentSet, t \in Secs : profile' = [profile EXCEPT ![s] =
                   [timeout |-> t, action |-> "a2", version |-> @.version + 1]]
    BY <1>3, <2>3 DEF Network!OtherWrites, ProfileRow, ProfileRows, Caps
  <2> QED
    BY <1>3, <2>1, <2>2, <2>3 DEF Network!OtherWrites
<1> QED
  BY <1>1, <1>2, <1>3

(* The read is left alone, and stays older than what it was a read of.     *)
LEMMA ReadStaysOlder ==
  ASSUME NetworkInv, Network!TakesEffect \/ Network!OtherWrites \/ UNCHANGED Network!tenant,
         UNCHANGED <<wantCap, wantTimeout, read>>
  PROVE  NetworkInv'
<1>1. NetworkTypes'
  BY WritesMoveRows DEF NetworkInv, NetworkTypes
<1>2. ASSUME NEW s \in Network!SegmentSet
      PROVE  /\ read.segment[s] \in SegmentRow /\ read.profile[s] \in ProfileRow
             /\ segment[s] \in SegmentRow /\ profile[s] \in ProfileRow
             /\ Moves(segment[s], segment'[s]) /\ Moves(profile[s], profile'[s])
  BY WritesMoveRows DEF NetworkInv, NetworkTypes, SegmentRows, ProfileRows
<1>3. ReadInv'
  BY <1>2 DEF NetworkInv, ReadInv, Moves, SegmentRow, ProfileRow
<1> QED
  BY <1>1, <1>3 DEF NetworkInv

(* What a read returns of a profile differs in the timeout only.           *)
LEMMA EffectiveFacts ==
  ASSUME NEW p \in ProfileRow, policy \in PolicyRow
  PROVE  /\ Network!Effective(p) \in ProfileRow
         /\ Network!Effective(p).version = p.version
         /\ Network!Effective(p).action = p.action
  BY DEF Network!Effective, ProfileRow, PolicyRow

LEMMA NetworkStep == NetworkInv /\ [Network!Next]_network => NetworkInv'
<1> SUFFICES ASSUME NetworkInv, [Network!Next]_network PROVE NetworkInv'
  OBVIOUS
<1>1. CASE Network!ReadPolicy
  <2>1. /\ read' = [read EXCEPT !.policy = policy]
        /\ UNCHANGED <<wantCap, wantTimeout, policy, segment, profile>>
    BY <1>1 DEF Network!ReadPolicy, Network!manifest, Network!tenant
  <2>2. NetworkTypes' /\ read'.segment = read.segment /\ read'.profile = read.profile
    BY <2>1 DEF NetworkInv, NetworkTypes
  <2> QED
    BY <2>1, <2>2 DEF NetworkInv, ReadInv
<1>2. CASE Network!ReadSegments
  <2>1. /\ read' = [read EXCEPT !.segment = segment]
        /\ UNCHANGED <<wantCap, wantTimeout, policy, segment, profile>>
    BY <1>2 DEF Network!ReadSegments, Network!manifest, Network!tenant
  <2>2. NetworkTypes' /\ read'.segment = segment /\ read'.profile = read.profile
    BY <2>1 DEF NetworkInv, NetworkTypes
  <2>3. \A s \in Network!SegmentSet : segment[s].version \in Nat
    BY DEF NetworkInv, NetworkTypes, SegmentRows, SegmentRow
  <2> QED
    BY <2>1, <2>2, <2>3 DEF NetworkInv, ReadInv
<1>3. CASE Network!ReadProfiles
  <2>1. /\ read' = [read EXCEPT !.profile =
                      [s \in Network!SegmentSet |-> Network!Effective(profile[s])]]
        /\ UNCHANGED <<wantCap, wantTimeout, policy, segment, profile>>
    BY <1>3 DEF Network!ReadProfiles, Network!manifest, Network!tenant
  <2>2. ASSUME NEW s \in Network!SegmentSet
        PROVE  /\ Network!Effective(profile[s]) \in ProfileRow
               /\ Network!Effective(profile[s]).version = profile[s].version
               /\ Network!Effective(profile[s]).action = profile[s].action
               /\ profile[s].version \in Nat
    BY EffectiveFacts DEF NetworkInv, NetworkTypes, ProfileRows, ProfileRow
  <2>3. /\ NetworkTypes' /\ read'.segment = read.segment
        /\ \A s \in Network!SegmentSet :
              read'.profile[s] = Network!Effective(profile[s])
    BY <2>1, <2>2 DEF NetworkInv, NetworkTypes, ProfileRows
  <2> QED
    BY <2>1, <2>2, <2>3 DEF NetworkInv, ReadInv
<1>4. CASE Network!RunNoop \/ Network!RunStep \/ Network!StepRefused \/ Network!StepLost
           \/ Network!Crash \/ Network!OtherWrites \/ UNCHANGED network
  BY <1>4, ReadStaysOlder
  DEF Network!RunNoop, Network!RunStep, Network!StepRefused, Network!StepLost,
      Network!Crash, Network!OtherWrites, Network!manifest, Network!tenant, network
<1> QED
  BY <1>1, <1>2, <1>3, <1>4 DEF Network!Next

LEMMA CountStep == CountInv /\ [Network!Next]_network => CountInv'
  BY DEF CountInv, network, Network!Next, Network!ReadPolicy, Network!ReadSegments,
     Network!ReadProfiles, Network!RunNoop, Network!RunStep, Network!StepRefused,
     Network!StepLost, Network!Crash, Network!OtherWrites, Network!Fault, Network!bounds

(* The inductive invariant of the network section.                         *)
THEOREM NetworkInvariance == MCSpec => [](NetworkInv /\ CountInv)
<1>1. MCInit => NetworkInv /\ CountInv
  BY NetworkInit DEF MCInit, Network!Init, CountInv
<1> QED
  BY <1>1, Parts, NetworkStep, CountStep, PTL DEF MCSpec

(* A write that the server accepts was computed from the row it replaces.  *)
LEMMA AcceptedIsCurrent ==
  ASSUME NetworkInv, Network!Accepts, Network!TakesEffect, NEW s \in Network!SegmentSet
  PROVE  /\ segment[s] # Network!NoSegment => segment'[s].rank = segment[s].rank
         /\ profile[s] # Network!NoProfile => profile'[s].action = profile[s].action
<1> USE DEF NetworkInv
<1>1. CASE Network!Running("policy")
  BY <1>1 DEF Network!TakesEffect, Network!Running
<1>2. CASE Network!Running("segment")
  <2>1. /\ segment[Network!Here].version = read.segment[Network!Here].version
        /\ segment' = [segment EXCEPT ![Network!Here] = Network!SegmentBody(Network!Here)]
        /\ profile' = profile
    BY <1>2 DEF Network!Accepts, Network!TakesEffect, Network!VersionSent, Network!Running
  <2>2. CASE s = Network!Here /\ segment[s] # Network!NoSegment
    <3>1. read.segment[s] = segment[s]
      BY <2>1, <2>2 DEF ReadInv
    <3>2. segment'[s] = Network!SegmentBody(s)
      BY <2>1, <2>2 DEF NetworkTypes, SegmentRows
    <3> QED
      BY <2>1, <2>2, <3>1, <3>2 DEF Network!SegmentBody
  <2> QED
    BY <2>1, <2>2 DEF NetworkTypes, SegmentRows
<1>3. CASE Network!Running("profile")
  <2>1. /\ profile[Network!Here].version = Network!ProfileIn(read, Network!Here).version
        /\ profile' = [profile EXCEPT ![Network!Here] = Network!ProfileBody(Network!Here)]
        /\ segment' = segment
    BY <1>3 DEF Network!Accepts, Network!TakesEffect, Network!VersionSent, Network!Running
  <2>2. CASE s = Network!Here /\ profile[s] # Network!NoProfile
    <3>1. profile[s].version > 0
      BY <2>2 DEF ReadInv
    <3>2. Network!ProfileIn(read, s) # Network!NoProfile
      BY <2>1, <2>2, <3>1 DEF Network!NoProfile
    <3>3. Network!ProfileIn(read, s) = read.profile[s]
      BY <3>2 DEF Network!ProfileIn
    <3>4. read.profile[s].action = profile[s].action
      BY <2>1, <2>2, <3>3 DEF ReadInv
    <3>5. profile'[s] = Network!ProfileBody(s)
      BY <2>1, <2>2 DEF NetworkTypes, ProfileRows
    <3> QED
      BY <2>1, <3>2, <3>3, <3>4, <3>5 DEF Network!ProfileBody
  <2> QED
    BY <2>1, <2>2 DEF NetworkTypes, ProfileRows
<1> QED
  BY <1>1, <1>2, <1>3 DEF Network!Accepts

(* For any manifest and any writers, an apply changes no member that the   *)
(* manifest leaves out, not even one written between read and replacement. *)
THEOREM NothingIsOverwritten == MCSpec => NothingOverwritten
<1> DEFINE Step ==
        nWrites' = nWrites =>
          \A s \in Network!SegmentSet :
             /\ segment[s] # Network!NoSegment => segment'[s].rank = segment[s].rank
             /\ profile[s] # Network!NoProfile => profile'[s].action = profile[s].action
<1>1. NetworkInv /\ CountInv /\ [Network!Next]_network => [Step]_(Network!vars)
  <2> SUFFICES ASSUME NetworkInv, CountInv, Network!Next, nWrites' = nWrites
               PROVE  Step
    BY DEF network, Network!vars, Network!manifest, Network!tenant, Network!bounds
  <2>1. CASE Network!RunStep \/ Network!StepLost
    BY <2>1, AcceptedIsCurrent DEF Network!RunStep, Network!StepLost
  <2>2. CASE UNCHANGED Network!tenant
    BY <2>2 DEF Network!tenant
  <2>3. CASE Network!OtherWrites
    <3>1. nWrites' = nWrites + 1
      BY <2>3 DEF Network!OtherWrites
    <3> QED
      BY <3>1 DEF CountInv
  <2> QED
    BY <2>1, <2>2, <2>3
    DEF Network!Next, Network!ReadPolicy, Network!ReadSegments, Network!ReadProfiles,
        Network!RunNoop, Network!StepRefused, Network!Crash
<1> QED
  BY <1>1, Parts, NetworkInvariance, PTL
  DEF MCSpec, NothingOverwritten, Network!NothingOverwritten

-----------------------------------------------------------------------------
(* Convergence of the network section. Each segment is stated at one       *)
(* place, and the plan has one step for it and one for its profile.        *)
N == Len(Segments)

(* Segments are numbered 1 to N, each once.                                *)
LEMMA SegmentFacts ==
  /\ N \in Nat /\ DOMAIN Segments = 1 .. N
  /\ Network!SegmentSet = {Segments[k] : k \in 1 .. N}
  /\ \A j, k \in 1 .. N : Segments[j] = Segments[k] => j = k
<1>1. N \in Nat /\ DOMAIN Segments = 1 .. N
  BY SegmentsAssumption DEF N
<1>2. Network!SegmentSet = {Segments[k] : k \in 1 .. N}
  BY <1>1 DEF Network!SegmentSet, Network!ToSet
<1>3. \A j, k \in 1 .. N : Segments[j] = Segments[k] => j = k
  <2>1. IsInjective(Segments)
    BY SegmentsAssumption
  <2> QED
    BY <1>1, <2>1 DEF IsInjective
<1> QED
  BY <1>1, <1>2, <1>3

(* The step that has come to its turn: the policy's, or the k-th segment's *)
(* or its profile's.                                                       *)
AtPolicy ==
    /\ nAt = 1 /\ nPlan[nAt].kind = "policy"
    /\ nPlan[nAt].differs = Network!PolicyDiffers(read)
AtSegment(k) ==
    /\ nAt = 1 + k /\ nPlan[nAt].kind = "segment" /\ Network!Here = Segments[k]
    /\ nPlan[nAt].differs = Network!SegmentDiffers(read, Segments[k])
AtProfile(k) ==
    /\ nAt = 1 + N + k /\ nPlan[nAt].kind = "profile" /\ Network!Here = Segments[k]
    /\ nPlan[nAt].differs = Network!ProfileDiffers(read, Segments[k])

Planned == nPlan = Network!Steps(read) /\ nAt \in 1 .. 1 + N + N

(* It is one of these.                                                     *)
LEMMA WhereAt ==
  ASSUME Planned
  PROVE  /\ Len(nPlan) = 1 + N + N /\ DOMAIN nPlan = 1 .. 1 + N + N
         /\ AtPolicy \/ \E k \in 1 .. N : AtSegment(k) \/ AtProfile(k)
<1> DEFINE first == << [kind |-> "policy", segment |-> "all",
                        differs |-> Network!PolicyDiffers(read)] >>
           second == [k \in DOMAIN Segments |->
                        [kind |-> "segment", segment |-> Segments[k],
                         differs |-> Network!SegmentDiffers(read, Segments[k])]]
           third == [k \in DOMAIN Segments |->
                       [kind |-> "profile", segment |-> Segments[k],
                        differs |-> Network!ProfileDiffers(read, Segments[k])]]
           S == ToSet(first) \cup ToSet(second) \cup ToSet(third)
<1>1. first \in Seq(S) /\ second \in Seq(S) /\ third \in Seq(S)
  BY SegmentFacts DEF ToSet
<1>2. Len(first) = 1 /\ Len(second) = N /\ Len(third) = N
  BY SegmentFacts
<1>3. nPlan = (first \o second) \o third
  BY DEF Planned, Network!Steps
<1>4. /\ first[1].kind = "policy"
      /\ first[1].differs = Network!PolicyDiffers(read)
      /\ \A k \in 1 .. N :
            /\ second[k].kind = "segment" /\ second[k].segment = Segments[k]
            /\ second[k].differs = Network!SegmentDiffers(read, Segments[k])
            /\ third[k].kind = "profile" /\ third[k].segment = Segments[k]
            /\ third[k].differs = Network!ProfileDiffers(read, Segments[k])
  BY SegmentFacts
<1> HIDE DEF first, second, third, S
<1>5. ASSUME NEW p \in Seq(S), NEW q \in Seq(S)
      PROVE  /\ p \o q \in Seq(S) /\ Len(p \o q) = Len(p) + Len(q)
             /\ \A k \in 1 .. Len(p) : (p \o q)[k] = p[k]
             /\ \A k \in 1 .. Len(q) : (p \o q)[Len(p) + k] = q[k]
  OBVIOUS
<1> DEFINE mid == first \o second
<1>6. /\ mid \in Seq(S) /\ Len(mid) = 1 + N /\ mid[1] = first[1]
      /\ \A k \in 1 .. N : mid[1 + k] = second[k]
  <2>1. /\ mid \in Seq(S) /\ Len(mid) = Len(first) + Len(second)
        /\ \A k \in 1 .. Len(first) : mid[k] = first[k]
        /\ \A k \in 1 .. Len(second) : mid[Len(first) + k] = second[k]
    BY <1>1, <1>5
  <2> HIDE DEF mid
  <2> QED
    BY <1>2, <2>1, SegmentFacts
<1> HIDE DEF mid
<1>7. /\ Len(nPlan) = 1 + N + N /\ nPlan \in Seq(S)
      /\ \A k \in 1 .. 1 + N : nPlan[k] = mid[k]
      /\ \A k \in 1 .. N : nPlan[1 + N + k] = third[k]
  <2>1. nPlan = mid \o third
    BY <1>3 DEF mid
  <2>2. /\ nPlan \in Seq(S) /\ Len(nPlan) = Len(mid) + Len(third)
        /\ \A k \in 1 .. Len(mid) : nPlan[k] = mid[k]
        /\ \A k \in 1 .. Len(third) : nPlan[Len(mid) + k] = third[k]
    <3>1. mid \in Seq(S) /\ third \in Seq(S)
      BY <1>1, <1>6
    <3>2. /\ mid \o third \in Seq(S) /\ Len(mid \o third) = Len(mid) + Len(third)
          /\ \A k \in 1 .. Len(mid) : (mid \o third)[k] = mid[k]
          /\ \A k \in 1 .. Len(third) : (mid \o third)[Len(mid) + k] = third[k]
      BY <1>5, <3>1
    <3> QED
      BY <2>1, <3>2, Zenon
  <2> QED
    BY <1>2, <1>6, <2>2, SegmentFacts
<1>8. nAt = 1 \/ (\E k \in 1 .. N : nAt = 1 + k) \/ (\E k \in 1 .. N : nAt = 1 + N + k)
  <2>1. CASE nAt \in 2 .. 1 + N
    <3>1. nAt - 1 \in 1 .. N /\ nAt = 1 + (nAt - 1)
      BY <2>1, SegmentFacts
    <3> QED
      BY <3>1
  <2>2. CASE nAt \in 2 + N .. 1 + N + N
    <3>1. nAt - 1 - N \in 1 .. N /\ nAt = 1 + N + (nAt - 1 - N)
      BY <2>2, SegmentFacts
    <3> QED
      BY <3>1
  <2> QED
    BY <2>1, <2>2, SegmentFacts DEF Planned
<1>9. CASE nAt = 1
  <2>1. nPlan[1] = first[1]
    BY <1>6, <1>7, SegmentFacts
  <2> QED
    BY <1>4, <1>7, <1>9, <2>1 DEF AtPolicy
<1>10. ASSUME NEW k \in 1 .. N, nAt = 1 + k PROVE AtSegment(k)
  <2>1. 1 + k \in 1 .. 1 + N
    BY SegmentFacts
  <2>2. nPlan[1 + k] = mid[1 + k] /\ mid[1 + k] = second[k]
    BY <1>6, <1>7, <2>1
  <2>3. nPlan[nAt] = second[k]
    BY <1>10, <2>2
  <2> QED
    BY <1>4, <1>10, <2>3 DEF AtSegment, Network!Here
<1>11. ASSUME NEW k \in 1 .. N, nAt = 1 + N + k PROVE AtProfile(k)
  <2>1. nPlan[nAt] = third[k]
    BY <1>7, <1>11, SegmentFacts
  <2> QED
    BY <1>4, <1>11, <2>1 DEF AtProfile, Network!Here
<1>12. DOMAIN nPlan = 1 .. 1 + N + N
  BY <1>7
<1> QED
  BY <1>7, <1>8, <1>9, <1>10, <1>11, <1>12

-----------------------------------------------------------------------------
(* Caps and timeouts are numbers.                                          *)
NumbersInv ==
    /\ wantCap \in Secs \cup {Unstated}
    /\ \A s \in Network!SegmentSet : wantTimeout[s] \in Secs \cup {Unstated}
    /\ policy.cap \in Secs /\ read.policy.cap \in Secs
    /\ \A s \in Network!SegmentSet :
          profile[s].timeout \in Secs \cup {0} /\ read.profile[s].timeout \in Secs \cup {0}

(* Nothing is deleted, and a profile has its segment.                      *)
ExistInv ==
    /\ \A s \in Network!SegmentSet :
          /\ profile[s] # Network!NoProfile => segment[s] # Network!NoSegment
          /\ read.segment[s] # Network!NoSegment => segment[s] # Network!NoSegment
    /\ phase = "running" => \A k \in 1 .. N :
          nAt > 1 + k => segment[Segments[k]] # Network!NoSegment

PhaseInv ==
    /\ phase \in {"idle", "segments", "profiles", "running"}
    /\ phase # "idle" => outcome = "none"
    /\ phase = "running" => Planned
    /\ outcome \in {"none", "complete", "failed", "refused"}
    /\ nDisturbed \in BOOLEAN

(* What has become of the rows that were read, when nobody else wrote: the *)
(* ones whose step is over are as stated, the others as they were.         *)
CapKept ==
    IF nAt > 1 /\ Network!PolicyDiffers(read) THEN policy.cap = wantCap
    ELSE policy = read.policy
SegmentKept(k) ==
    IF nAt > 1 + k /\ Network!SegmentDiffers(read, Segments[k])
    THEN segment[Segments[k]].vlan = "stated"
    ELSE segment[Segments[k]] = read.segment[Segments[k]]
ProfileKept(k) ==
    IF nAt > 1 + N + k /\ Network!ProfileDiffers(read, Segments[k])
    THEN profile[Segments[k]].timeout = wantTimeout[Segments[k]]
    ELSE /\ profile[Segments[k]].version = Network!ProfileIn(read, Segments[k]).version
         /\ read.profile[Segments[k]].timeout <= profile[Segments[k]].timeout
Kept ==
    /\ CapKept
    /\ \A k \in 1 .. N : SegmentKept(k) /\ ProfileKept(k)
    /\ segVersion = [s \in Network!SegmentSet |-> segment[s].version]

KeptInv ==
    ~nDisturbed =>
        /\ phase \in {"segments", "profiles"} => policy = read.policy
        /\ phase = "profiles" => segment = read.segment
        /\ phase = "running" => Kept
        /\ outcome = "complete" => nAt = 2 + N + N /\ Kept
        /\ outcome = "failed" => ~Network!Acceptable

ConvergeInv == NumbersInv /\ ExistInv /\ PhaseInv /\ KeptInv

(* Nothing has been applied at the start.                                  *)
LEMMA ConvergeInit == Network!Init => ConvergeInv
<1> SUFFICES ASSUME Network!Init PROVE ConvergeInv
  OBVIOUS
<1>1. NumbersInv
  BY DEF Network!Init, NumbersInv, Network!NoProfile
<1>2. ExistInv /\ PhaseInv /\ KeptInv
  BY DEF Network!Init, ExistInv, PhaseInv, KeptInv
<1> QED
  BY <1>1, <1>2 DEF ConvergeInv

(* The write that takes effect is the one of the step that has come to its *)
(* turn.                                                                   *)
LEMMA WhatIsWritten ==
  ASSUME PhaseInv, Network!Writing, Network!TakesEffect
  PROVE  \/ /\ AtPolicy /\ Network!PolicyDiffers(read) /\ ~Network!Running("segment")
            /\ policy' = [cap |-> wantCap, version |-> policy.version + 1]
            /\ UNCHANGED <<segment, profile>>
         \/ \E k \in 1 .. N :
               /\ AtSegment(k) /\ Network!SegmentDiffers(read, Segments[k])
               /\ Network!Running("segment")
               /\ segment' = [segment EXCEPT ![Segments[k]] =
                                 Network!SegmentBody(Segments[k])]
               /\ UNCHANGED <<policy, profile>>
         \/ \E k \in 1 .. N :
               /\ AtProfile(k) /\ Network!ProfileDiffers(read, Segments[k])
               /\ ~Network!Running("segment")
               /\ profile' = [profile EXCEPT ![Segments[k]] =
                                 Network!ProfileBody(Segments[k])]
               /\ UNCHANGED <<policy, segment>>
<1>1. Planned /\ nPlan[nAt].differs
  BY DEF PhaseInv, Network!Writing
<1>2. CASE AtPolicy
  BY <1>1, <1>2 DEF AtPolicy, Network!TakesEffect, Network!Running
<1>3. ASSUME NEW k \in 1 .. N, AtSegment(k)
      PROVE  /\ Network!SegmentDiffers(read, Segments[k]) /\ Network!Running("segment")
             /\ segment' = [segment EXCEPT ![Segments[k]] = Network!SegmentBody(Segments[k])]
             /\ UNCHANGED <<policy, profile>>
  BY <1>1, <1>3 DEF AtSegment, Network!TakesEffect, Network!Running
<1>4. ASSUME NEW k \in 1 .. N, AtProfile(k)
      PROVE  /\ Network!ProfileDiffers(read, Segments[k]) /\ ~Network!Running("segment")
             /\ profile' = [profile EXCEPT ![Segments[k]] = Network!ProfileBody(Segments[k])]
             /\ UNCHANGED <<policy, segment>>
  BY <1>1, <1>4 DEF AtProfile, Network!TakesEffect, Network!Running
<1>5. AtPolicy \/ \E k \in 1 .. N : AtSegment(k) \/ AtProfile(k)
  BY <1>1, WhereAt
<1>6. CASE \E k \in 1 .. N : AtSegment(k)
  BY <1>3, <1>6
<1>7. CASE \E k \in 1 .. N : AtProfile(k)
  BY <1>4, <1>7
<1> QED
  BY <1>2, <1>5, <1>6, <1>7

(* The manifest and the tenant are left alone.                             *)
Quiet == UNCHANGED <<wantCap, wantTimeout, policy, segment, profile>>

(* The rows that are written keep to the numbers and exist.                *)
LEMMA WritesKeepRows ==
  ASSUME NetworkInv, NumbersInv, ExistInv,
         \/ Quiet
         \/ /\ PhaseInv /\ Network!Writing /\ Network!TakesEffect
            /\ UNCHANGED <<wantCap, wantTimeout>>
         \/ Network!OtherWrites
  PROVE  /\ policy'.cap \in Secs
         /\ \A s \in Network!SegmentSet :
               /\ profile'[s].timeout \in Secs \cup {0}
               /\ segment[s] # Network!NoSegment => segment'[s] # Network!NoSegment
               /\ profile'[s] # Network!NoProfile => segment'[s] # Network!NoSegment
<1> USE DEF NumbersInv, ExistInv
<1>1. segment \in SegmentRows /\ profile \in ProfileRows
  BY DEF NetworkInv, NetworkTypes
<1>2. CASE Quiet
  BY <1>2 DEF Quiet
<1>3. CASE PhaseInv /\ Network!Writing /\ Network!TakesEffect
  <2>1. CASE /\ Network!PolicyDiffers(read)
             /\ policy' = [cap |-> wantCap, version |-> policy.version + 1]
             /\ UNCHANGED <<segment, profile>>
    BY <2>1 DEF Network!PolicyDiffers
  <2>2. ASSUME NEW k \in 1 .. N, UNCHANGED <<policy, profile>>,
               segment' = [segment EXCEPT ![Segments[k]] =
                              Network!SegmentBody(Segments[k])]
        PROVE  \A s \in Network!SegmentSet :
                  segment[s] # Network!NoSegment => segment'[s] # Network!NoSegment
    <3>1. Network!SegmentBody(Segments[k]) # Network!NoSegment
      BY DEF Network!SegmentBody, Network!NoSegment
    <3> QED
      BY <1>1, <2>2, <3>1 DEF SegmentRows
  <2>3. ASSUME NEW k \in 1 .. N, AtProfile(k), UNCHANGED <<policy, segment>>,
               Network!ProfileDiffers(read, Segments[k]),
               profile' = [profile EXCEPT ![Segments[k]] =
                              Network!ProfileBody(Segments[k])]
        PROVE  \A s \in Network!SegmentSet :
                  /\ profile'[s].timeout \in Secs \cup {0}
                  /\ profile'[s] # Network!NoProfile => segment'[s] # Network!NoSegment
    <3>1. Segments[k] \in Network!SegmentSet /\ nAt > 1 + k /\ phase = "running"
      BY <1>3, <2>3, SegmentFacts DEF AtProfile, Network!Writing
    <3>2. segment[Segments[k]] # Network!NoSegment
      BY <3>1
    <3>3. Network!ProfileBody(Segments[k]).timeout \in Secs
      BY <2>3, <3>1 DEF Network!ProfileBody, Network!ProfileDiffers
    <3> QED
      BY <1>1, <2>3, <3>1, <3>2, <3>3 DEF ProfileRows
  <2> QED
    BY <1>3, <2>1, <2>2, <2>3, WhatIsWritten
<1>4. CASE Network!OtherWrites
  <2>1. CASE /\ \E c \in Secs \ {policy.cap} :
                   policy' = [cap |-> c, version |-> policy.version + 1]
             /\ UNCHANGED <<segment, profile>>
    BY <2>1
  <2>2. CASE /\ \E s \in Network!SegmentSet : segment' = [segment EXCEPT ![s] =
                   [vlan |-> "stale", rank |-> "r2", version |-> @.version + 1]]
             /\ UNCHANGED <<policy, profile>>
    BY <1>1, <2>2 DEF SegmentRows, Network!NoSegment
  <2>3. CASE /\ \E s \in Network!SegmentSet, t \in Secs :
                   /\ segment[s] # Network!NoSegment /\ t <= policy.cap
                   /\ profile' = [profile EXCEPT ![s] =
                         [timeout |-> t, action |-> "a2", version |-> @.version + 1]]
             /\ UNCHANGED <<policy, segment>>
    BY <1>1, <2>3 DEF ProfileRows
  <2> QED
    BY <1>4, <2>1, <2>2, <2>3 DEF Network!OtherWrites
<1> QED
  BY <1>2, <1>3, <1>4

(* So does every step of the network section.                              *)
LEMMA RowsStep ==
  ASSUME NetworkInv, ConvergeInv, Network!Next
  PROVE  /\ policy'.cap \in Secs /\ UNCHANGED <<wantCap, wantTimeout>>
         /\ \A s \in Network!SegmentSet :
               /\ profile'[s].timeout \in Secs \cup {0}
               /\ segment[s] # Network!NoSegment => segment'[s] # Network!NoSegment
               /\ profile'[s] # Network!NoProfile => segment'[s] # Network!NoSegment
<1> USE DEF Network!manifest, Network!tenant
<1>1. CASE \/ Network!ReadPolicy \/ Network!ReadSegments \/ Network!ReadProfiles
           \/ Network!RunNoop \/ Network!StepRefused \/ Network!Crash
  <2>1. Quiet
    BY <1>1 DEF Quiet, Network!ReadPolicy, Network!ReadSegments, Network!ReadProfiles,
       Network!RunNoop, Network!StepRefused, Network!Crash
  <2> QED
    BY <2>1, WritesKeepRows DEF ConvergeInv, Quiet
<1>2. CASE Network!RunStep \/ Network!StepLost
  BY <1>2, WritesKeepRows DEF ConvergeInv, Network!RunStep, Network!StepLost
<1>3. CASE Network!OtherWrites
  BY <1>3, WritesKeepRows DEF ConvergeInv, Network!OtherWrites
<1> QED
  BY <1>1, <1>2, <1>3 DEF Network!Next

(* The numbers stay numbers; a read lowers some of them.                   *)
LEMMA NumbersStep ==
  ASSUME NetworkInv, ConvergeInv, Network!Next
  PROVE  NumbersInv'
<1>1. /\ wantCap' \in Secs \cup {Unstated} /\ policy'.cap \in Secs
      /\ \A s \in Network!SegmentSet :
            /\ wantTimeout'[s] \in Secs \cup {Unstated}
            /\ profile'[s].timeout \in Secs \cup {0}
  BY RowsStep DEF ConvergeInv, NumbersInv
<1>2. /\ read'.policy.cap \in Secs
      /\ \A s \in Network!SegmentSet : read'.profile[s].timeout \in Secs \cup {0}
  <2>1. CASE Network!ReadPolicy
    BY <2>1 DEF Network!ReadPolicy, ConvergeInv, NumbersInv, NetworkInv, NetworkTypes
  <2>2. CASE Network!ReadSegments
    BY <2>2 DEF Network!ReadSegments, ConvergeInv, NumbersInv, NetworkInv, NetworkTypes
  <2>3. CASE Network!ReadProfiles
    <3>1. /\ read'.policy = read.policy
          /\ \A s \in Network!SegmentSet :
                read'.profile[s] = Network!Effective(profile[s])
      BY <2>3 DEF Network!ReadProfiles, NetworkInv, NetworkTypes
    <3>2. \A s \in Network!SegmentSet :
             Network!Effective(profile[s]).timeout \in Secs \cup {0}
      BY DEF Network!Effective, ConvergeInv, NumbersInv, NetworkInv, NetworkTypes,
         ProfileRows, ProfileRow
    <3> QED
      BY <3>1, <3>2 DEF ConvergeInv, NumbersInv
  <2>4. CASE UNCHANGED read
    BY <2>4 DEF ConvergeInv, NumbersInv
  <2> QED
    BY <2>1, <2>2, <2>3, <2>4
    DEF Network!Next, Network!RunNoop, Network!RunStep, Network!StepRefused,
        Network!StepLost, Network!Crash, Network!OtherWrites
<1> QED
  BY <1>1, <1>2 DEF NumbersInv

(* A read of the profiles ends in a refusal, or in the plan it is for.     *)
LEMMA PlanIsMade ==
  ASSUME NetworkInv, Network!ReadProfiles
  PROVE  /\ nPlan' = Network!Steps(read)' /\ nAt' = 1
         /\ read'.policy = read.policy /\ read'.segment = read.segment
         /\ \A s \in Network!SegmentSet :
               read'.profile[s] = Network!Effective(profile[s])
         /\ segVersion' = [s \in Network!SegmentSet |-> read.segment[s].version]
<1>1. read' = [read EXCEPT !.profile =
                   [s \in Network!SegmentSet |-> Network!Effective(profile[s])]]
  BY Zenon DEF Network!ReadProfiles
<1>2. nPlan' = Network!Steps(read') /\ nAt' = 1
  BY <1>1, Zenon DEF Network!ReadProfiles
<1>3. Network!Steps(read') = Network!Steps(read)'
  BY Zenon DEF Network!ReadProfiles, Network!manifest, Network!Steps, Network!PolicyDiffers,
     Network!SegmentDiffers, Network!ProfileDiffers, Network!ProfileIn
<1>4. /\ read'.policy = read.policy /\ read'.segment = read.segment
      /\ \A s \in Network!SegmentSet : read'.profile[s] = Network!Effective(profile[s])
  BY <1>1 DEF NetworkInv, NetworkTypes
<1>5. segVersion' = [s \in Network!SegmentSet |-> read.segment[s].version]
  BY <1>1, <1>4 DEF Network!ReadProfiles
<1> QED
  BY <1>2, <1>3, <1>4, <1>5

(* The plan is of the read, which a running apply leaves alone.            *)
PlanKept == UNCHANGED <<wantCap, wantTimeout, read, nPlan>>

(* So the plan stays the plan of that read.                                *)
LEMMA PlanStays == PlanKept => Network!Steps(read)' = Network!Steps(read)
  BY DEF PlanKept, Network!Steps, Network!PolicyDiffers, Network!SegmentDiffers,
     Network!ProfileDiffers, Network!ProfileIn

(* A running apply has a plan, and a step of it to run.                    *)
LEMMA PhaseStep ==
  ASSUME NetworkInv, ConvergeInv, Network!Next
  PROVE  PhaseInv'
<1> USE DEF ConvergeInv, PhaseInv, Network!manifest
<1>1. CASE Network!ReadPolicy
  BY <1>1 DEF Network!ReadPolicy
<1>2. CASE Network!ReadSegments
  BY <1>2 DEF Network!ReadSegments
<1>3. CASE Network!ReadProfiles
  <2>1. Planned'
    BY <1>3, PlanIsMade, SegmentFacts DEF Planned
  <2> QED
    BY <1>3, <2>1 DEF Network!ReadProfiles
<1>4. CASE Network!RunNoop \/ Network!RunStep
  <2>1. PlanKept /\ Network!Goes /\ phase = "running" /\ UNCHANGED nDisturbed
    BY <1>4 DEF Network!RunNoop, Network!RunStep, Network!Writing, PlanKept
  <2>2. Planned /\ Len(nPlan) = 1 + N + N
    BY <2>1, WhereAt
  <2>3. phase' = "running" => Planned'
    BY <2>1, <2>2, PlanStays, SegmentFacts DEF Planned, PlanKept, Network!Goes
  <2> QED
    BY <2>1, <2>3 DEF Network!Goes
<1>5. CASE Network!StepRefused \/ Network!StepLost \/ Network!Crash
  BY <1>5 DEF Network!StepRefused, Network!StepLost, Network!Crash, Network!Stops,
     Network!Fault
<1>6. CASE Network!OtherWrites
  <2>1. PlanKept /\ UNCHANGED <<phase, nAt, outcome>> /\ nDisturbed' = TRUE
    BY <1>6 DEF Network!OtherWrites, PlanKept
  <2>2. phase' = "running" => Planned'
    BY <2>1, PlanStays DEF Planned, PlanKept
  <2> QED
    BY <2>1, <2>2
<1> QED
  BY <1>1, <1>2, <1>3, <1>4, <1>5, <1>6 DEF Network!Next

(* What was read, or whose step is over, exists.                           *)
LEMMA ExistStep ==
  ASSUME NetworkInv, ConvergeInv, Network!Next
  PROVE  ExistInv'
<1> USE DEF ConvergeInv, Network!manifest
<1>1. \A s \in Network!SegmentSet :
         read'.segment[s] # Network!NoSegment => segment'[s] # Network!NoSegment
  <2>1. CASE Network!ReadSegments
    BY <2>1, RowsStep
    DEF Network!ReadSegments, Network!tenant, NetworkInv, NetworkTypes
  <2>2. CASE UNCHANGED read \/ Network!ReadPolicy
    BY <2>2, RowsStep DEF Network!ReadPolicy, ExistInv, NetworkInv, NetworkTypes
  <2>3. CASE Network!ReadProfiles
    BY <2>3, RowsStep, PlanIsMade DEF ExistInv
  <2> QED
    BY <2>1, <2>2, <2>3
    DEF Network!Next, Network!RunNoop, Network!RunStep, Network!StepRefused,
        Network!StepLost, Network!Crash, Network!OtherWrites
<1>2. ASSUME phase' = "running", NEW k \in 1 .. N, nAt' > 1 + k
      PROVE  segment'[Segments[k]] # Network!NoSegment
  <2>1. Segments[k] \in Network!SegmentSet
    BY SegmentFacts
  <2>2. CASE Network!ReadPolicy \/ Network!ReadSegments \/ Network!StepRefused
             \/ Network!StepLost \/ Network!Crash
    BY <1>2, <2>2
    DEF Network!ReadPolicy, Network!ReadSegments, Network!StepRefused, Network!StepLost,
        Network!Crash, Network!Stops
  <2>3. CASE Network!ReadProfiles
    BY <1>2, <2>3, PlanIsMade, SegmentFacts
  <2>4. CASE Network!OtherWrites
    BY <1>2, <2>1, <2>4, RowsStep DEF Network!OtherWrites, ExistInv
  <2>5. CASE Network!RunNoop \/ Network!RunStep
    <3>1. phase = "running" /\ nAt' = nAt + 1 /\ Planned
      BY <2>5 DEF Network!RunNoop, Network!RunStep, Network!Writing, Network!Goes, PhaseInv
    <3>2. CASE nAt > 1 + k
      BY <2>1, <3>1, <3>2, RowsStep DEF ExistInv
    <3>3. CASE nAt = 1 + k
      <4>1. AtSegment(k)
        BY <3>1, <3>3, WhereAt, SegmentFacts DEF AtPolicy, AtSegment, AtProfile
      <4>2. CASE Network!RunNoop
        <5>1. read.segment[Segments[k]] # Network!NoSegment
          BY <4>1, <4>2 DEF Network!RunNoop, AtSegment, Network!SegmentDiffers
        <5> QED
          BY <2>1, <5>1, RowsStep DEF ExistInv
      <4>3. CASE Network!RunStep
        <5>1. segment' = [segment EXCEPT ![Segments[k]] = Network!SegmentBody(Segments[k])]
          BY <4>1, <4>3
          DEF Network!RunStep, Network!TakesEffect, Network!Running, AtSegment
        <5>2. Network!SegmentBody(Segments[k]) # Network!NoSegment
          BY DEF Network!SegmentBody, Network!NoSegment
        <5> QED
          BY <2>1, <5>1, <5>2 DEF NetworkInv, NetworkTypes, SegmentRows
      <4> QED
        BY <2>5, <4>2, <4>3
    <3> QED
      BY <1>2, <3>1, <3>2, <3>3, SegmentFacts DEF Planned
  <2> QED
    BY <2>2, <2>3, <2>4, <2>5 DEF Network!Next
<1> QED
  BY <1>1, <1>2, RowsStep DEF ExistInv

(* Nor does what it says of each row change.                               *)
LEMMA DiffersStay ==
  ASSUME PlanKept
  PROVE  /\ Network!PolicyDiffers(read)' = Network!PolicyDiffers(read)
         /\ \A s : /\ Network!SegmentDiffers(read, s)' = Network!SegmentDiffers(read, s)
                   /\ Network!ProfileDiffers(read, s)' = Network!ProfileDiffers(read, s)
                   /\ Network!ProfileIn(read, s)' = Network!ProfileIn(read, s)
  BY DEF PlanKept, Network!PolicyDiffers, Network!SegmentDiffers, Network!ProfileDiffers,
     Network!ProfileIn

(* A step that has nothing to write keeps the rows as they are to be.      *)
LEMMA NoopKeeps ==
  ASSUME PhaseInv, Kept, Network!RunNoop
  PROVE  Kept'
<1>1. /\ PlanKept /\ UNCHANGED <<policy, segment, profile, segVersion>>
      /\ nAt' = nAt + 1 /\ ~nPlan[nAt].differs /\ Planned
  BY DEF Network!RunNoop, Network!Goes, Network!manifest, Network!tenant, PlanKept, PhaseInv
<1>2. CapKept'
  <2>1. nAt > 1 \/ ~Network!PolicyDiffers(read)
    BY <1>1, WhereAt, SegmentFacts DEF AtPolicy, AtSegment, AtProfile
  <2> QED
    BY <1>1, <2>1, DiffersStay, SegmentFacts DEF Kept, CapKept, Planned, PlanKept
<1>3. ASSUME NEW k \in 1 .. N PROVE SegmentKept(k)'
  <2>1. nAt # 1 + k \/ ~Network!SegmentDiffers(read, Segments[k])
    BY <1>1, WhereAt, SegmentFacts DEF AtPolicy, AtSegment, AtProfile
  <2>2. nAt' > 1 + k /\ Network!SegmentDiffers(read, Segments[k]) => nAt > 1 + k
    BY <1>1, <2>1, SegmentFacts DEF Planned
  <2>3. nAt > 1 + k => nAt' > 1 + k
    BY <1>1, SegmentFacts DEF Planned
  <2> QED
    BY <1>1, <2>2, <2>3, DiffersStay DEF Kept, SegmentKept, PlanKept
<1>4. ASSUME NEW k \in 1 .. N PROVE ProfileKept(k)'
  <2>1. nAt # 1 + N + k \/ ~Network!ProfileDiffers(read, Segments[k])
    BY <1>1, WhereAt, SegmentFacts DEF AtPolicy, AtSegment, AtProfile
  <2>2. nAt' > 1 + N + k /\ Network!ProfileDiffers(read, Segments[k]) => nAt > 1 + N + k
    BY <1>1, <2>1, SegmentFacts DEF Planned
  <2>3. nAt > 1 + N + k => nAt' > 1 + N + k
    BY <1>1, SegmentFacts DEF Planned
  <2> QED
    BY <1>1, <2>2, <2>3, DiffersStay DEF Kept, ProfileKept, PlanKept
<1> QED
  BY <1>1, <1>2, <1>3, <1>4 DEF Kept

(* A step that is run leaves its own row as stated and the others alone.   *)
LEMMA RunKeeps ==
  ASSUME NetworkInv, PhaseInv, Kept, Network!RunStep
  PROVE  Kept'
<1>1. /\ PlanKept /\ nAt' = nAt + 1 /\ Network!Writing /\ Network!TakesEffect
      /\ Network!Learns /\ Planned
  BY DEF Network!RunStep, Network!Goes, Network!manifest, PlanKept, PhaseInv, Network!Writing
<1>2. /\ segment \in SegmentRows /\ profile \in ProfileRows
      /\ \A k \in 1 .. N : Segments[k] \in Network!SegmentSet
  BY SegmentFacts DEF NetworkInv, NetworkTypes
<1>3. CASE /\ AtPolicy /\ Network!PolicyDiffers(read) /\ ~Network!Running("segment")
           /\ policy' = [cap |-> wantCap, version |-> policy.version + 1]
           /\ UNCHANGED <<segment, profile>>
  <2>1. nAt = 1 /\ nAt' = 2 /\ UNCHANGED segVersion
    BY <1>1, <1>3 DEF AtPolicy, Network!Learns
  <2>2. CapKept'
    BY <1>1, <1>3, <2>1, DiffersStay DEF CapKept, PlanKept
  <2>3. ASSUME NEW k \in 1 .. N
        PROVE  /\ ~(nAt > 1 + k) /\ ~(nAt' > 1 + k)
               /\ ~(nAt > 1 + N + k) /\ ~(nAt' > 1 + N + k)
    BY <2>1, SegmentFacts
  <2>4. ASSUME NEW k \in 1 .. N PROVE SegmentKept(k)' /\ ProfileKept(k)'
    BY <1>1, <1>3, <2>3, DiffersStay DEF Kept, SegmentKept, ProfileKept, PlanKept
  <2> QED
    BY <1>3, <2>1, <2>2, <2>4 DEF Kept
<1>4. ASSUME NEW k \in 1 .. N, AtSegment(k), Network!Running("segment"),
             Network!SegmentDiffers(read, Segments[k]),
             segment' = [segment EXCEPT ![Segments[k]] = Network!SegmentBody(Segments[k])],
             UNCHANGED <<policy, profile>>
      PROVE  Kept'
  <2>1. nAt = 1 + k /\ nAt' = 2 + k /\ nAt > 1 /\ nAt' > 1
    BY <1>1, <1>4, SegmentFacts DEF AtSegment
  <2>2. CapKept'
    BY <1>1, <1>4, <2>1, DiffersStay DEF Kept, CapKept, PlanKept
  <2>3. /\ segment'[Segments[k]].vlan = "stated"
        /\ \A s \in Network!SegmentSet : s # Segments[k] => segment'[s] = segment[s]
    BY <1>2, <1>4 DEF SegmentRows, Network!SegmentBody
  <2>4. ASSUME NEW j \in 1 .. N PROVE SegmentKept(j)'
    <3>1. CASE j = k
      BY <1>1, <1>4, <2>1, <2>3, <3>1, DiffersStay, SegmentFacts DEF SegmentKept, PlanKept
    <3>2. CASE j # k
      <4>1. (nAt > 1 + j) = (nAt' > 1 + j)
        BY <2>1, <3>2, SegmentFacts
      <4>2. segment'[Segments[j]] = segment[Segments[j]]
        BY <1>2, <2>3, <3>2, SegmentFacts
      <4> QED
        BY <1>1, <4>1, <4>2, DiffersStay DEF Kept, SegmentKept, PlanKept
    <3> QED
      BY <3>1, <3>2
  <2>5. ASSUME NEW j \in 1 .. N PROVE ProfileKept(j)'
    <3>1. ~(nAt > 1 + N + j) /\ ~(nAt' > 1 + N + j)
      BY <2>1, SegmentFacts
    <3> QED
      BY <1>1, <1>4, <3>1, DiffersStay DEF Kept, ProfileKept, PlanKept
  <2>6. segVersion' = [s \in Network!SegmentSet |-> segment'[s].version]
    <3>1. segVersion' = [segVersion EXCEPT ![Segments[k]] = segment'[Segments[k]].version]
      BY <1>1, <1>4 DEF Network!Learns, AtSegment
    <3> QED
      BY <2>3, <3>1 DEF Kept
  <2> QED
    BY <2>2, <2>4, <2>5, <2>6 DEF Kept
<1>5. ASSUME NEW k \in 1 .. N, AtProfile(k), ~Network!Running("segment"),
             Network!ProfileDiffers(read, Segments[k]),
             profile' = [profile EXCEPT ![Segments[k]] = Network!ProfileBody(Segments[k])],
             UNCHANGED <<policy, segment>>
      PROVE  Kept'
  <2>1. nAt = 1 + N + k /\ nAt' = 2 + N + k /\ nAt > 1 /\ nAt' > 1
    BY <1>1, <1>5, SegmentFacts DEF AtProfile
  <2>2. CapKept'
    BY <1>1, <1>5, <2>1, DiffersStay DEF Kept, CapKept, PlanKept
  <2>3. /\ profile'[Segments[k]].timeout = wantTimeout[Segments[k]]
        /\ \A s \in Network!SegmentSet : s # Segments[k] => profile'[s] = profile[s]
    BY <1>2, <1>5 DEF ProfileRows, Network!ProfileBody
  <2>4. ASSUME NEW j \in 1 .. N PROVE SegmentKept(j)'
    <3>1. nAt > 1 + j /\ nAt' > 1 + j
      BY <2>1, SegmentFacts
    <3> QED
      BY <1>1, <1>5, <3>1, DiffersStay DEF Kept, SegmentKept, PlanKept
  <2>5. ASSUME NEW j \in 1 .. N PROVE ProfileKept(j)'
    <3>1. CASE j = k
      BY <1>1, <1>5, <2>1, <2>3, <3>1, DiffersStay, SegmentFacts DEF ProfileKept, PlanKept
    <3>2. CASE j # k
      <4>1. (nAt > 1 + N + j) = (nAt' > 1 + N + j)
        BY <2>1, <3>2, SegmentFacts
      <4>2. profile'[Segments[j]] = profile[Segments[j]]
        BY <1>2, <2>3, <3>2, SegmentFacts
      <4> QED
        BY <1>1, <4>1, <4>2, DiffersStay DEF Kept, ProfileKept, PlanKept
    <3> QED
      BY <3>1, <3>2
  <2>6. segVersion' = [s \in Network!SegmentSet |-> segment'[s].version]
    BY <1>1, <1>5 DEF Network!Learns, Kept
  <2> QED
    BY <2>2, <2>4, <2>5, <2>6 DEF Kept
<1> QED
  BY <1>1, <1>3, <1>4, <1>5, WhatIsWritten

(* The read of the rows is complete, and no step is over.                  *)
LEMMA ReadKeeps ==
  ASSUME NetworkInv, ConvergeInv, Network!ReadProfiles,
         policy = read.policy, segment = read.segment
  PROVE  Kept'
<1>1. UNCHANGED <<wantCap, wantTimeout, policy, segment, profile>>
  BY DEF Network!ReadProfiles, Network!manifest, Network!tenant
<1>2. /\ nAt' = 1 /\ read'.policy = policy /\ read'.segment = segment
      /\ segVersion' = [s \in Network!SegmentSet |-> segment[s].version]
  BY PlanIsMade
<1>3. CapKept'
  BY <1>1, <1>2 DEF CapKept
<1>4. ASSUME NEW k \in 1 .. N PROVE SegmentKept(k)' /\ ProfileKept(k)'
  <2>1. ~(nAt' > 1 + k) /\ ~(nAt' > 1 + N + k) /\ Segments[k] \in Network!SegmentSet
    BY <1>2, SegmentFacts
  <2>2. SegmentKept(k)'
    BY <1>1, <1>2, <2>1 DEF SegmentKept
  <2> DEFINE p == profile[Segments[k]]
  <2>3. /\ read'.profile[Segments[k]] = Network!Effective(p)
        /\ p \in ProfileRow /\ p.timeout \in Secs \cup {0} /\ policy.cap \in Secs
    BY <2>1, PlanIsMade DEF NetworkInv, NetworkTypes, ProfileRows, ConvergeInv, NumbersInv
  <2>4. /\ Network!Effective(p).version = p.version
        /\ Network!Effective(p).timeout <= p.timeout
    BY <2>3, SegmentsAssumption DEF Network!Effective, ProfileRow
  <2>5. Network!ProfileIn(read', Segments[k]).version = p.version
    <3>1. p # Network!NoProfile => segment[Segments[k]] # Network!NoSegment
      BY <2>1 DEF ConvergeInv, ExistInv
    <3> QED
      BY <1>2, <2>3, <2>4, <3>1 DEF Network!ProfileIn, Network!NoProfile
  <2>6. ProfileKept(k)'
    BY <1>1, <2>1, <2>3, <2>4, <2>5 DEF ProfileKept, Network!ProfileIn
  <2> QED
    BY <2>2, <2>6
<1> QED
  BY <1>1, <1>2, <1>3, <1>4 DEF Kept

(* Nobody else wrote, so a refusal is the server's of a timeout above the  *)
(* cap the tenant is to have.                                              *)
LEMMA RefusalIsStated ==
  ASSUME NetworkInv, ConvergeInv, Network!Writing, Kept, ~Network!Accepts
  PROVE  ~Network!Acceptable
<1>1. Planned /\ nPlan[nAt].differs
  BY DEF ConvergeInv, PhaseInv, Network!Writing
<1>2. CASE AtPolicy
  <2>1. /\ policy = read.policy /\ Network!Running("policy")
        /\ ~Network!Running("segment") /\ ~Network!Running("profile")
    BY <1>1, <1>2 DEF Network!Writing, AtPolicy, Kept, CapKept, Network!Running
  <2>2. Network!VersionSent = read.policy.version
    BY <2>1 DEF Network!VersionSent
  <2> QED
    BY <2>1, <2>2 DEF Network!Accepts
<1>3. ASSUME NEW k \in 1 .. N, AtSegment(k) PROVE FALSE
  <2>1. segment[Segments[k]] = read.segment[Segments[k]]
    BY <1>3, SegmentFacts DEF AtSegment, Kept, SegmentKept
  <2>2. /\ Network!Running("segment")
        /\ ~Network!Running("policy") /\ ~Network!Running("profile")
    BY <1>1, <1>3 DEF Network!Writing, AtSegment, Network!Running
  <2>3. Network!VersionSent = read.segment[Segments[k]].version
    BY <1>3, <2>2 DEF Network!VersionSent, AtSegment
  <2> QED
    BY <1>3, <2>1, <2>2, <2>3 DEF Network!Accepts, AtSegment
<1>4. ASSUME NEW k \in 1 .. N, AtProfile(k) PROVE ~Network!Acceptable
  <2> DEFINE s == Segments[k]
  <2>1. s \in Network!SegmentSet /\ nAt > 1
    BY <1>4, SegmentFacts DEF AtProfile
  <2>2. profile[s].version = Network!ProfileIn(read, s).version
    BY <1>4, SegmentFacts DEF AtProfile, Kept, ProfileKept
  <2>3. /\ Network!Running("profile")
        /\ ~Network!Running("policy") /\ ~Network!Running("segment")
    BY <1>1, <1>4 DEF AtProfile, Network!Running, Network!Writing
  <2>4. Network!VersionSent = Network!ProfileIn(read, s).version
    BY <1>4, <2>3 DEF Network!VersionSent, AtProfile
  <2>5. segment[s].version = segVersion[s]
    BY <2>1 DEF Kept
  <2>6. ~(wantTimeout[s] <= policy.cap)
    BY <1>4, <2>2, <2>3, <2>4, <2>5 DEF Network!Accepts, AtProfile
  <2>7. wantTimeout[s] # Unstated
    BY <1>1, <1>4 DEF AtProfile, Network!ProfileDiffers
  <2>8. wantCap # Unstated => policy.cap = wantCap
    BY <2>1 DEF Kept, CapKept, Network!PolicyDiffers
  <2> QED
    BY <2>1, <2>6, <2>7, <2>8 DEF Network!Acceptable
<1> QED
  BY <1>1, <1>2, <1>3, <1>4, WhereAt

(* What was read is as it was or as stated, until somebody else writes.    *)
LEMMA KeptStep ==
  ASSUME NetworkInv, ConvergeInv, Network!Next
  PROVE  KeptInv'
<1> USE DEF ConvergeInv
<1>1. CASE Network!ReadPolicy
  BY <1>1 DEF Network!ReadPolicy, Network!tenant, NetworkInv, NetworkTypes, KeptInv
<1>2. CASE Network!ReadSegments
  BY <1>2 DEF Network!ReadSegments, Network!tenant, NetworkInv, NetworkTypes, KeptInv, PhaseInv
<1>3. CASE Network!ReadProfiles
  <2>1. ~nDisturbed => Kept'
    BY <1>3, ReadKeeps DEF Network!ReadProfiles, KeptInv
  <2> QED
    BY <1>3, <2>1 DEF Network!ReadProfiles, KeptInv
<1>4. CASE Network!RunNoop \/ Network!RunStep
  <2>1. phase = "running" /\ Network!Goes /\ UNCHANGED nDisturbed
    BY <1>4 DEF Network!RunNoop, Network!RunStep, Network!Writing
  <2>2. ~nDisturbed => Kept'
    BY <1>4, <2>1, NoopKeeps, RunKeeps DEF KeptInv
  <2>3. Len(nPlan) = 1 + N + N /\ nAt \in 1 .. 1 + N + N
    BY <2>1, WhereAt DEF PhaseInv, Planned
  <2> QED
    BY <2>1, <2>2, <2>3, SegmentFacts DEF Network!Goes, KeptInv
<1>5. CASE Network!StepRefused
  <2>1. phase' = "idle" /\ outcome' = "failed" /\ phase = "running"
    BY <1>5 DEF Network!StepRefused, Network!Stops, Network!Writing
  <2>2. CASE ~Network!Accepts /\ UNCHANGED nDisturbed
    <3>1. ~nDisturbed => ~Network!Acceptable
      BY <1>5, <2>1, <2>2, RefusalIsStated DEF KeptInv, Network!StepRefused
    <3>2. Network!Acceptable' = Network!Acceptable
      BY <1>5 DEF Network!StepRefused, Network!manifest, Network!tenant, Network!Acceptable
    <3> QED
      BY <2>1, <2>2, <3>1, <3>2 DEF KeptInv
  <2>3. CASE nDisturbed' = TRUE
    BY <2>3 DEF KeptInv
  <2> QED
    BY <1>5, <2>2, <2>3 DEF Network!StepRefused, Network!Fault
<1>6. CASE Network!StepLost \/ Network!Crash \/ Network!OtherWrites
  BY <1>6
  DEF Network!StepLost, Network!Crash, Network!OtherWrites, Network!Fault, KeptInv
<1> QED
  BY <1>1, <1>2, <1>3, <1>4, <1>5, <1>6 DEF Network!Next

(* All of it is kept by every step.                                        *)
LEMMA ConvergeStep == NetworkInv /\ ConvergeInv /\ [Network!Next]_network => ConvergeInv'
<1> SUFFICES ASSUME NetworkInv, ConvergeInv, [Network!Next]_network PROVE ConvergeInv'
  OBVIOUS
<1>1. CASE UNCHANGED network
  <2>1. NumbersInv' /\ ExistInv'
    BY <1>1, Zenon DEF network, ConvergeInv, NumbersInv, ExistInv
  <2>2. (Network!Acceptable' <=> Network!Acceptable) /\ (Planned' <=> Planned)
    BY <1>1, Zenon
    DEF network, Planned, Network!Acceptable, Network!Steps, Network!PolicyDiffers,
        Network!SegmentDiffers, Network!ProfileDiffers, Network!ProfileIn
  <2>3. Kept' <=> Kept
    BY <1>1, Zenon
    DEF network, Kept, CapKept, SegmentKept, ProfileKept, Network!PolicyDiffers,
        Network!SegmentDiffers, Network!ProfileDiffers, Network!ProfileIn
  <2>4. PhaseInv' /\ KeptInv'
    BY <1>1, <2>2, <2>3, Zenon DEF network, ConvergeInv, PhaseInv, KeptInv
  <2> QED
    BY <2>1, <2>4 DEF ConvergeInv
<1>2. CASE Network!Next
  <2>1. NumbersInv' /\ ExistInv' /\ PhaseInv' /\ KeptInv'
    BY <1>2, NumbersStep, ExistStep, PhaseStep, KeptStep, Zenon
  <2> QED
    BY <2>1 DEF ConvergeInv
<1> QED
  BY <1>1, <1>2, Zenon

(* All steps are over: the rows are as stated, or as they were and so as   *)
(* stated.                                                                 *)
LEMMA KeptIsStated ==
  ASSUME NetworkInv, NumbersInv, Kept, nAt = 2 + N + N, Network!Acceptable,
         outcome = "complete"
  PROVE  Network!NetworkConverges
<1> DEFINE now == [policy |-> policy, segment |-> segment,
                   profile |-> [s \in Network!SegmentSet |->
                                  Network!Effective(profile[s])]]
<1>1. nAt > 1 /\ \A k \in 1 .. N : nAt > 1 + k /\ nAt > 1 + N + k
  BY SegmentFacts
<1>2. wantCap \in {Unstated, policy.cap}
  BY <1>1 DEF Kept, CapKept, Network!PolicyDiffers
<1>3. ASSUME NEW s \in Network!SegmentSet
      PROVE  /\ ~Network!SegmentDiffers(now, s)
             /\ Network!ProfileDiffers(now, s) => Network!Unclamped(s)
  <2>1. PICK k \in 1 .. N : s = Segments[k]
    BY SegmentFacts
  <2>2. /\ segment[s] # Network!NoSegment
        /\ segment[s].vlan # "stale"
    BY <1>1, <2>1 DEF Kept, SegmentKept, Network!SegmentDiffers, Network!NoSegment
  <2>3. ~Network!SegmentDiffers(now, s)
    BY <2>2 DEF Network!SegmentDiffers
  <2>4. /\ profile[s] \in ProfileRow /\ policy.cap \in Nat
        /\ profile[s].timeout \in Nat /\ read.profile[s].timeout \in Nat
        /\ wantTimeout[s] \in Secs \cup {Unstated}
    <3>1. profile[s] \in ProfileRow
      BY DEF NetworkInv, NetworkTypes, ProfileRows
    <3>2. Secs \subseteq Nat
      BY SegmentsAssumption
    <3>3. /\ policy.cap \in Secs /\ wantTimeout[s] \in Secs \cup {Unstated}
          /\ profile[s].timeout \in Secs \cup {0}
          /\ read.profile[s].timeout \in Secs \cup {0}
      BY DEF NumbersInv
    <3>4. \A t \in Secs \cup {0} : t \in Nat
      BY <3>2
    <3> QED
      BY <3>1, <3>2, <3>3, <3>4
  <2>5. SUFFICES ASSUME Network!ProfileDiffers(now, s), ~Network!Unclamped(s) PROVE FALSE
    BY <2>3
  <2>6. now.segment[s] # Network!NoSegment /\ now.profile[s] = Network!Effective(profile[s])
    BY <2>2
  <2>7. /\ wantTimeout[s] \in Secs
        /\ wantTimeout[s] # Network!Effective(profile[s]).timeout
    BY <2>4, <2>5, <2>6 DEF Network!ProfileDiffers, Network!ProfileIn
  <2>8. wantTimeout[s] <= policy.cap
    BY <1>2, <2>5, <2>7 DEF Network!Acceptable, Network!ProfileDiffers
  <2>9. wantTimeout[s] = profile[s].timeout
    <3>1. CASE Network!ProfileDiffers(read, s)
      BY <1>1, <2>1, <3>1 DEF Kept, ProfileKept
    <3>2. CASE ~Network!ProfileDiffers(read, s)
      <4>1. wantTimeout[s] = read.profile[s].timeout
        BY <2>5, <2>7, <3>2, SegmentsAssumption
        DEF Network!ProfileDiffers, Network!ProfileIn, Network!NoProfile
      <4>2. read.profile[s].timeout <= profile[s].timeout
        BY <2>1, <3>2 DEF Kept, ProfileKept
      <4> QED
        BY <2>4, <2>5, <4>1, <4>2 DEF Network!Unclamped
    <3> QED
      BY <3>1, <3>2
  <2>10. Network!Effective(profile[s]).timeout = profile[s].timeout
    BY <2>4, <2>8, <2>9 DEF Network!Effective, ProfileRow
  <2> QED
    BY <2>7, <2>9, <2>10
<1>4. ~Network!PolicyDiffers(now)
  BY <1>2 DEF Network!PolicyDiffers
<1> QED
  BY <1>3, <1>4 DEF Network!NetworkConverges

(* An apply of the network section that meets no fault and no other writer *)
(* completes and leaves nothing to do, for every manifest and tenant.      *)
THEOREM NetworkSettles == MCSpec => []NetworkConverges
<1>1. MCInit => NetworkInv /\ ConvergeInv
  BY NetworkInit, ConvergeInit DEF MCInit
<1>2. NetworkInv /\ ConvergeInv => NetworkConverges
  BY KeptIsStated DEF ConvergeInv, KeptInv, NetworkConverges, Network!NetworkConverges
<1> QED
  BY <1>1, <1>2, Parts, NetworkStep, ConvergeStep, PTL DEF MCSpec
=============================================================================
