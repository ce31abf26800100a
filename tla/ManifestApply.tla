--------------------------- MODULE ManifestApply ----------------------------
(* client.manifest: one apply() validates a manifest, reads the tenant,    *)
(* computes the ordered steps that would reconcile the two, and runs them, *)
(* stopping at the first failure.  There is no transaction: each step is   *)
(* its own HTTP write, which the server may refuse, whose answer may be    *)
(* lost after it took effect, and between any two of which the process may *)
(* die or another administrator may write.  Moving a role binding is two   *)
(* writes, an unassign and an assign, with a restore when the assign       *)
(* fails.                                                                  *)
(*                                                                         *)
(* A manifest is its keys, in the order it states them.  An object's       *)
(* fields are two-valued: as the manifest states them, or "stale".         *)
EXTENDS Naturals, Sequences, SequencesExt, FiniteSets

CONSTANTS
    Resources, Scopes, Permissions, Roles, Grants, Groups, GroupBindings,
    Users, UserBindings, Accounts, AccountBindings, Members,  \* sequences
    Needs,         \* scope, grant, binding, member |-> the keys it names
    NoResource,    \* "at no resource", and "no parent"
    PlainHolders,  \* may a binding found in the tenant be a plain one?
    MaxDrift,      \* bound: objects that differ from the manifest at first
    MaxApplies,    \* bound: calls of apply
    MaxFaults,     \* bound: writes that fail, and crashes
    MaxWrites      \* bound: writes of another administrator

ResourceSet == ToSet(Resources)
Objects == ToSet(Resources \o Scopes \o Permissions \o Roles \o Groups
                    \o Users \o Accounts)
Links == ToSet(Grants \o Members)
Bindings == ToSet(GroupBindings \o UserBindings \o AccountBindings)

(* What _compute comes to after the resources, in its order.               *)
Later == Scopes \o Permissions \o Roles \o Grants \o Groups \o GroupBindings
           \o Users \o UserBindings \o Accounts \o AccountBindings \o Members

(* A manifest names what it declares, and states each thing once.  The     *)
(* code checks that of keys and bindings, not of grants and memberships.   *)
ASSUME ManifestAssumption ==
    /\ \A s \in {Resources, Scopes, Permissions, Roles, Grants, Groups,
                GroupBindings, Users, UserBindings, Accounts,
                AccountBindings, Members} : s \in Seq(ToSet(s))
    /\ IsInjective(Resources \o Later)
    /\ NoResource \notin Objects
    /\ DOMAIN Needs = ToSet(Scopes) \union Links \union Bindings
    /\ \A i \in ToSet(Scopes) : Needs[i] \subseteq ResourceSet
    /\ \A i \in ToSet(Grants) :
          Needs[i] \subseteq ToSet(Scopes \o Permissions \o Roles)
    /\ \A i \in ToSet(GroupBindings) : Needs[i] \subseteq ToSet(Roles \o Groups)
    /\ \A i \in ToSet(UserBindings) : Needs[i] \subseteq ToSet(Roles \o Users)
    /\ \A i \in ToSet(AccountBindings) :
          Needs[i] \subseteq ToSet(Roles \o Accounts)
    /\ \A i \in ToSet(Members) : Needs[i] \subseteq ToSet(Groups \o Users)
    /\ PlainHolders \in BOOLEAN

(* What a manifest states of a binding, and what the server holds of one:  *)
(* tenant_scope is on the server's side only.                              *)
Shape == { s \in [resource : ResourceSet \union {NoResource},
                  inherit : BOOLEAN] :
             s.resource = NoResource => s.inherit }
Unbound == [resource |-> NoResource, inherit |-> TRUE, scope |-> "unbound"]
Holding == { [resource |-> s.resource, inherit |-> s.inherit, scope |-> t] :
               s \in Shape, t \in {"whole", "narrowed"} }
ShapeOf(h) == [resource |-> h.resource, inherit |-> h.inherit]

VARIABLES
    parent,    \* manifest: resource |-> its parent, or NoResource
    wanted,    \* manifest: binding |-> the shape it states
    things,    \* tenant: object |-> absent, stale, stated, or twice
    links,     \* tenant: the grants and memberships it holds
    bound,     \* tenant: binding |-> what the subject holds, or Unbound
    pc,        \* idle, running, or a rebind's unassigned / restoring
    plan,      \* the steps computed: kind, item, change, what was held then
    at,        \* the step being run
    resolved,  \* the objects whose id this apply knows
    report,    \* the outcome of each step so far
    restore,   \* what became of a failed rebind's restore
    disturbed, \* did a fault or another administrator touch this apply?
    applies, faults, writes

manifest == <<parent, wanted>>
tenant == <<things, links, bound>>
bounds == <<applies, faults, writes>>
vars == <<manifest, tenant, pc, plan, at, resolved, report, restore,
          disturbed, bounds>>

-----------------------------------------------------------------------------
(* The parents of k, k first, that are not in placed yet: the `chain` of   *)
(* topological_order.  Bounded by the number of resources, where the code  *)
(* raises on the first key it meets again.                                 *)
Climb(chain, placed) ==
    LET up == parent[Last(chain)]
    IN  IF up = NoResource \/ up \in placed THEN chain ELSE Append(chain, up)

Chain(k, placed) ==
    LET climb[n \in 0 .. Len(Resources)] ==
          IF n = 0 THEN <<k>> ELSE Climb(climb[n - 1], placed)
    IN  climb[Len(Resources)]

(* A parent before its children, and the manifest's order otherwise: the   *)
(* `order` after the first n resources.                                    *)
Place(k, order) ==
    IF k \in ToSet(order) THEN order
    ELSE order \o Reverse(Chain(k, ToSet(order)))

Order[n \in 0 .. Len(Resources)] ==
    IF n = 0 THEN <<>> ELSE Place(Resources[n], Order[n - 1])

TopologicalOrder == Order[Len(Resources)]

(* A chain that goes round is longer than the resources are many, and a    *)
(* key of it is placed twice: the one the code meets again, and raises on. *)
HasCycle == ~IsInjective(TopologicalOrder)

(* Everything whose id the write of item i needs.                          *)
NeededBy(i) ==
    IF i \in ResourceSet THEN {parent[i]} \ {NoResource}
    ELSE IF i \in Bindings
         THEN Needs[i] \union ({wanted[i].resource} \ {NoResource})
    ELSE IF i \in DOMAIN Needs THEN Needs[i] ELSE {}

(* What _read returns and _compute matches by natural key.  A resource     *)
(* whose parent is pending is pending too; the tenant holds no child of a  *)
(* resource it does not hold, nor a link or a binding of an absent object. *)
Found == { o \in Objects : things[o] # "absent" }

Held(b) == IF Needs[b] \subseteq Found THEN bound[b] ELSE Unbound

(* The resource and inherit a binding states, as ids: a resource that is   *)
(* still to be created has no id, and its key gives None.                  *)
StatedShape(b) ==
    [resource |-> IF wanted[b].resource \in Found THEN wanted[b].resource
                  ELSE NoResource,
     inherit |-> wanted[b].inherit]

(* Mutant: inherit is not compared.                                        *)
BindingChange_NoInherit(b) ==
    IF Held(b) = Unbound THEN "create"
    ELSE IF Held(b).resource = StatedShape(b).resource THEN "no-change"
         ELSE "update"

BindingChange(b) ==
    IF Held(b) = Unbound THEN "create"
    ELSE IF ShapeOf(Held(b)) = StatedShape(b) THEN "no-change" ELSE "update"

ObjectChange(o) ==
    IF o \notin Found THEN "create"
    ELSE IF things[o] = "stale" THEN "update" ELSE "no-change"

(* Mutant: what the tenant already holds is not looked at.                 *)
LinkChange_Blind(l) == "create"

LinkChange(l) == IF l \in links THEN "no-change" ELSE "create"

StepOf(i) ==
    IF i \in Objects
    THEN [kind |-> "object", item |-> i, change |-> ObjectChange(i),
          old |-> Unbound]
    ELSE IF i \in Links
    THEN [kind |-> "link", item |-> i, change |-> LinkChange(i),
          old |-> Unbound]
    ELSE [kind |-> "binding", item |-> i, change |-> BindingChange(i),
          old |-> Held(i)]

(* The steps that would reconcile the manifest and the tenant, in order: a *)
(* thing after everything it names.                                        *)
Items == TopologicalOrder \o Later

Compute == LET items == Items
           IN  [k \in DOMAIN items |-> StepOf(items[k])]

(* Two accounts of one name: apply and plan refuse before any write.       *)
Ambiguous == \E a \in ToSet(Accounts) : things[a] = "twice"

-----------------------------------------------------------------------------
WellFormed ==
    /\ \A r \in ResourceSet :
          things[r] # "absent" => {parent[r]} \ {NoResource} \subseteq Found
    /\ \A s \in ToSet(Scopes) :
          things[s] # "absent" => Needs[s] \subseteq Found
    /\ \A l \in links : Needs[l] \subseteq Found
    /\ \A b \in Bindings : bound[b] # Unbound =>
          Needs[b] \union ({bound[b].resource} \ {NoResource}) \subseteq Found

(* The tenant before the first apply: nothing of the manifest, or all but  *)
(* MaxDrift of its objects.  The code never updates a scope.               *)
Init ==
    /\ parent \in [ResourceSet -> ResourceSet \union {NoResource}]
    /\ wanted \in [Bindings -> Shape]
    /\ \E absent \in SUBSET Objects, stale \in SUBSET (Objects \ ToSet(Scopes)) :
          /\ \/ absent = Objects
             \/ Cardinality(absent \union stale) <= MaxDrift
          /\ things = [o \in Objects |-> IF o \in absent THEN "absent"
                                         ELSE IF o \in stale THEN "stale"
                                         ELSE "stated"]
    /\ links \in SUBSET Links
    /\ bound \in [Bindings -> Holding \union {Unbound}]
    /\ \A b \in Bindings :
          bound[b] # Unbound /\ bound[b].resource = NoResource => PlainHolders
    /\ WellFormed
    /\ pc = "idle" /\ plan = <<>> /\ at = 0 /\ resolved = {}
    /\ report = <<>> /\ restore = "none" /\ disturbed = FALSE
    /\ applies = 0 /\ faults = 0 /\ writes = 0

(* validate, _read, _compute: nothing is written yet.                      *)
Begin ==
    /\ pc = "idle" /\ applies < MaxApplies
    /\ ~HasCycle /\ ~Ambiguous
    /\ plan' = Compute
    /\ resolved' = Found
    /\ pc' = IF plan' = <<>> THEN "idle" ELSE "running"
    /\ at' = 1
    /\ report' = <<>> /\ restore' = "none" /\ disturbed' = FALSE
    /\ applies' = applies + 1
    /\ UNCHANGED <<manifest, tenant, faults, writes>>

Item == plan[at].item
Kind == plan[at].kind
Change == plan[at].change

(* Step `at` is over with this outcome: the next one, or the report.       *)
Goes(outcome) ==
    /\ report' = Append(report, outcome)
    /\ at' = at + 1
    /\ pc' = IF at = Len(plan) THEN "idle" ELSE "running"

(* The first failure: every later step is reported as not attempted.       *)
Stops ==
    /\ report' = Append(report, "failed")
                   \o [k \in 1 .. Len(plan) - at |-> "not-attempted"]
    /\ at' = at /\ pc' = "idle"

RunNoop ==
    /\ pc = "running" /\ Change = "no-change"
    /\ Goes("unchanged")
    /\ UNCHANGED <<manifest, tenant, plan, resolved, restore, disturbed,
                   bounds>>

IsRebind == Kind = "binding" /\ Change = "update"

(* The server keeps natural keys unique, except the name of an account.    *)
Refuses == /\ Change = "create"
           /\ \/ /\ Kind = "object" /\ Item \notin ToSet(Accounts)
                 /\ things[Item] # "absent"
              \/ Kind = "link" /\ Item \in links
              \/ Kind = "binding" /\ bound[Item] # Unbound

(* What one write that is not a rebind does to the tenant.  A new binding  *)
(* states no tenant_scope.                                                 *)
TakesEffect ==
    \/ /\ Kind = "object"
       /\ things' = [things EXCEPT ![Item] =
             IF Change = "create" /\ @ # "absent" THEN "twice" ELSE "stated"]
       /\ UNCHANGED <<links, bound>>
    \/ /\ Kind = "link"
       /\ links' = links \union {Item}
       /\ UNCHANGED <<things, bound>>
    \/ /\ Kind = "binding"
       /\ bound' = [bound EXCEPT ![Item] =
             [resource |-> wanted[Item].resource,
              inherit |-> wanted[Item].inherit, scope |-> "whole"]]
       /\ UNCHANGED <<things, links>>

Writing == pc = "running" /\ Change # "no-change" /\ ~IsRebind

(* _run: the write is answered, and a created object's id recorded.        *)
RunStep ==
    /\ Writing /\ ~Refuses
    /\ TakesEffect
    /\ resolved' = IF Kind = "object" THEN resolved \union {Item}
                   ELSE resolved
    /\ Goes(IF Change = "create" THEN "created" ELSE "updated")
    /\ UNCHANGED <<manifest, plan, restore, disturbed, bounds>>

Fault == /\ faults < MaxFaults /\ faults' = faults + 1
         /\ disturbed' = TRUE
         /\ UNCHANGED <<applies, writes>>

(* The write is refused: by a conflict, or by a fault.                     *)
StepRefused ==
    /\ Writing
    /\ \/ Refuses /\ UNCHANGED <<disturbed, bounds>>
       \/ ~Refuses /\ Fault
    /\ Stops
    /\ UNCHANGED <<manifest, tenant, plan, resolved, restore>>

(* The write took effect and its answer was lost.  No write is retried.    *)
StepLost ==
    /\ Writing /\ ~Refuses /\ Fault
    /\ TakesEffect
    /\ Stops
    /\ UNCHANGED <<manifest, plan, resolved, restore>>

-----------------------------------------------------------------------------
(* rebind-role: unassign, outside the try.                                 *)
Unassign ==
    /\ pc = "running" /\ IsRebind
    /\ bound' = [bound EXCEPT ![Item] = Unbound]
    /\ pc' = "unassigned"
    /\ UNCHANGED <<manifest, things, links, plan, at, resolved, report,
                   restore, disturbed, bounds>>

UnassignFails ==
    /\ pc = "running" /\ IsRebind /\ Fault
    /\ bound' \in {bound, [bound EXCEPT ![Item] = Unbound]}
    /\ Stops
    /\ UNCHANGED <<manifest, things, links, plan, resolved, restore>>

(* Mutant: assigned as a new binding is, with no tenant_scope.             *)
Rebound_Widened == [resource |-> wanted[Item].resource,
                    inherit |-> wanted[Item].inherit, scope |-> "whole"]

(* The new shape, with the tenant_scope the old binding had.               *)
Rebound == [resource |-> wanted[Item].resource,
            inherit |-> wanted[Item].inherit,
            scope |-> plan[at].old.scope]

Assign ==
    /\ pc = "unassigned"
    /\ bound' = [bound EXCEPT ![Item] = Rebound]
    /\ Goes("updated")
    /\ UNCHANGED <<manifest, things, links, plan, resolved, restore,
                   disturbed, bounds>>

(* Refused, or the answer lost after it took effect: restore either way.   *)
AssignFails ==
    /\ pc = "unassigned" /\ Fault
    /\ bound' \in {bound, [bound EXCEPT ![Item] = Rebound]}
    /\ pc' = "restoring"
    /\ UNCHANGED <<manifest, things, links, plan, at, resolved, report,
                   restore>>

(* A subject holds a role at most once: the server refuses a second one.   *)
RestoreSucceeds ==
    /\ pc = "restoring" /\ bound[Item] = Unbound
    /\ bound' = [bound EXCEPT ![Item] = plan[at].old]
    /\ restore' = "restored"
    /\ Stops
    /\ UNCHANGED <<manifest, things, links, plan, resolved, disturbed,
                   bounds>>

(* Mutant: a failed restore is reported as a success.                      *)
RestoreFails_SaysRestored ==
    /\ pc = "restoring" /\ bound[Item] = Unbound /\ Fault
    /\ restore' = "restored"
    /\ Stops
    /\ UNCHANGED <<manifest, tenant, plan, resolved>>

RestoreFails ==
    /\ pc = "restoring"
    /\ \/ /\ bound[Item] # Unbound
          /\ UNCHANGED <<bound, disturbed, bounds>>
       \/ /\ bound[Item] = Unbound /\ Fault
          /\ bound' \in {bound, [bound EXCEPT ![Item] = plan[at].old]}
    /\ restore' = "not restored"
    /\ Stops
    /\ UNCHANGED <<manifest, things, links, plan, resolved>>

(* The process dies: no report, no restore, and every id is forgotten.     *)
Crash ==
    /\ pc # "idle" /\ Fault
    /\ pc' = "idle" /\ report' = <<>> /\ plan' = <<>> /\ at' = 0
    /\ resolved' = {}
    /\ UNCHANGED <<manifest, tenant, restore>>

(* Another administrator, or another apply: an object is created by hand,  *)
(* or the fields of one changed.                                           *)
OtherWrites(o) ==
    /\ writes < MaxWrites /\ writes' = writes + 1
    /\ NeededBy(o) \subseteq Found
    /\ \E t \in {"stated", "stale"} :
          /\ t = "stale" => o \notin ToSet(Scopes)
          /\ things[o] \notin {t, "twice"}
          /\ things' = [things EXCEPT ![o] = t]
    /\ disturbed' = TRUE
    /\ UNCHANGED <<manifest, links, bound, pc, plan, at, resolved, report,
                   restore, applies, faults>>

Next ==
    \/ Begin \/ RunNoop \/ RunStep \/ StepRefused \/ StepLost
    \/ Unassign \/ UnassignFails \/ Assign \/ AssignFails
    \/ RestoreSucceeds \/ RestoreFails \/ Crash
    \/ \E o \in Objects : OtherWrites(o)

Spec == Init /\ [][Next]_vars
-----------------------------------------------------------------------------
Outcomes == {"created", "updated", "unchanged", "failed", "not-attempted"}
Steps == [kind : {"object", "link", "binding"},
          item : Objects \union Links \union Bindings,
          change : {"create", "update", "no-change"},
          old : Holding \union {Unbound}]

(* Every variable has its type.                                            *)
TypeOK ==
    /\ parent \in [ResourceSet -> ResourceSet \union {NoResource}]
    /\ wanted \in [Bindings -> Shape]
    /\ things \in [Objects -> {"absent", "stale", "stated", "twice"}]
    /\ links \subseteq Links
    /\ bound \in [Bindings -> Holding \union {Unbound}]
    /\ pc \in {"idle", "running", "unassigned", "restoring"}
    /\ plan \in Seq(Steps) /\ at \in 0 .. Len(plan) + 1
    /\ pc # "idle" => at \in DOMAIN plan
    /\ resolved \subseteq Objects
    /\ report \in Seq(Outcomes)
    /\ restore \in {"none", "restored", "not restored"}
    /\ disturbed \in BOOLEAN
    /\ applies \in 0 .. MaxApplies /\ faults \in 0 .. MaxFaults
    /\ writes \in 0 .. MaxWrites

(* When a step is run, the id of everything it names is known: _run would  *)
(* otherwise create a child as a root, or fail on a missing key.           *)
ResolvedBeforeUse ==
    pc # "idle" /\ Change # "no-change" =>
        /\ NeededBy(Item) \subseteq resolved
        /\ Change = "update" /\ Kind = "object" => Item \in resolved

Reported == pc = "idle" /\ report # <<>>
Complete == Reported /\ "failed" \notin ToSet(report)

(* "apply(m) followed by plan(m) yields a plan whose actions are all       *)
(* NoChange", when nobody else wrote meanwhile (is_converged); and the     *)
(* bindings then are the ones the manifest states.                         *)
Converges ==
    Complete /\ ~disturbed =>
        /\ \A step \in ToSet(Compute) : step.change = "no-change"
        /\ \A b \in Bindings : ShapeOf(bound[b]) = wanted[b]

(* "Re-running after fixing the cause is the recovery path": whatever      *)
(* earlier applies left behind, one that meets no new fault and no other   *)
(* writer runs to its end.                                                 *)
RerunRecovers == "failed" \in ToSet(report) => disturbed

(* "tenant_scope is carried across unchanged either way": a rebind that    *)
(* is reported as an update left the subject with the reach it had.        *)
ScopeCarried ==
    \A k \in DOMAIN report :
        plan[k].kind = "binding" /\ report[k] = "updated"
            => bound[plan[k].item].scope = plan[k].old.scope

(* restore_succeeded is never claimed wrongly: it is about the one rebind  *)
(* that failed, and when true the subject holds exactly what it held,      *)
(* though the failed assign may have taken effect.                         *)
RestoreTruthful ==
    Reported /\ restore # "none" =>
        \E k \in DOMAIN report :
            /\ report[k] = "failed" /\ plan[k].kind = "binding"
            /\ restore = "restored" => bound[plan[k].item] = plan[k].old

(* An apply that took a role from a subject and did not give it back says  *)
(* so: the step that moved the binding is the one reported as failed.      *)
LossReported ==
    Reported =>
        \A k \in DOMAIN plan :
            plan[k].old # Unbound /\ bound[plan[k].item] = Unbound
                => report[k] = "failed"
=============================================================================
