----------------------------- MODULE MCManifest -----------------------------
(* The two halves of a manifest: the tenant's shape, and its network       *)
(* section, whose steps follow the other ones and read and write other     *)
(* rows.  They share no state, so one behaviour is one of the two, chosen  *)
(* at the start.  Two segments, two timeouts, two applies, one fault and   *)
(* one other writer are enough for a row to move between its read and its  *)
(* write, and for a second apply to finish what the first one left.        *)
EXTENDS MCManifestApply

CONSTANTS Segments, Secs, Unstated, NetworkFaults

VARIABLES
    part,
    wantCap, wantTimeout, policy, segment, profile, phase, read, nPlan, nAt,
    segVersion, outcome, nDisturbed, nApplies, nFaults, nWrites

network == <<wantCap, wantTimeout, policy, segment, profile, phase, read, nPlan,
             nAt, segVersion, outcome, nDisturbed, nApplies, nFaults, nWrites>>
mcvars == <<part, vars, network>>

Network == INSTANCE NetworkReconcile WITH
    MaxFaults <- NetworkFaults, plan <- nPlan, at <- nAt,
    disturbed <- nDisturbed, applies <- nApplies, faults <- nFaults,
    writes <- nWrites

(* Each segment is stated once, as validate demands, and a timeout is a    *)
(* positive number of seconds.                                             *)
ASSUME SegmentsAssumption ==
    /\ Segments \in Seq(ToSet(Segments)) /\ IsInjective(Segments)
    /\ Secs \subseteq Nat \ {0} /\ Unstated \notin Nat

TwoSegments == <<"n1", "n2">>

(* A part that is not the behaviour's own stays in one of its first        *)
(* states.                                                                 *)
MCInit ==
    /\ part \in {"shape", "network"}
    /\ IF part = "shape"
          THEN /\ wantCap = Unstated
               /\ wantTimeout = [s \in {"n1", "n2"} |-> Unstated]
               /\ policy = [cap |-> 1, version |-> 0]
               /\ segment = [s \in {"n1", "n2"} |-> Network!NoSegment]
               /\ profile = [s \in {"n1", "n2"} |-> Network!NoProfile]
          ELSE /\ parent = [r \in ResourceSet |-> NoResource]
               /\ wanted = [b \in Bindings |->
                              [resource |-> NoResource, inherit |-> TRUE]]
               /\ things = [o \in Objects |-> "absent"]
    /\ Init /\ Network!Init

ShapePart == part = "shape" /\ Next /\ UNCHANGED <<part, network>>
NetworkPart == part = "network" /\ Network!Next /\ UNCHANGED <<part, vars>>

MCSpec == MCInit /\ [][ShapePart \/ NetworkPart]_mcvars

-----------------------------------------------------------------------------
(* Of a rebind that failed: restore_succeeded is never claimed wrongly,    *)
(* and a role that was taken and not given back is reported as a failure.  *)
RebindHonest == RestoreTruthful /\ LossReported

(* Of the network section: an apply changes no member the manifest leaves  *)
(* out (_profile_input).                                                   *)
NothingOverwritten == Network!NothingOverwritten

(* Of the network section: an undisturbed apply completes, and the next    *)
(* plan is empty (_plan_network).                                          *)
NetworkConverges == Network!NetworkConverges
=============================================================================
