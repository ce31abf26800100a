-------------------------- MODULE NetworkReconcile --------------------------
(* The `network` section of client.manifest: the tenant's cap on session   *)
(* timeouts, its segments and their reply profiles, reconciled in that     *)
(* order.  apply() reads the three by three requests and writes each row   *)
(* that differs by a full replacement, whose body is the read with the     *)
(* stated members over it and whose version is the one that was read: a    *)
(* row another administrator wrote meanwhile is refused, never merged.     *)
(* A profile's write also names its segment's version, which this apply's  *)
(* own write of the segment has just moved.                                *)
(*                                                                         *)
(* Of a segment the manifest states vlan, of a profile the timeout; rank   *)
(* and action stand for the members it may leave to the read.              *)
EXTENDS Naturals, Sequences, SequencesExt

CONSTANTS
    Segments,    \* sequence: the segments the manifest states
    Secs,        \* the timeouts and caps: positive numbers
    Unstated,    \* of a cap or of a profile that the manifest leaves out
    MaxApplies,  \* bound: calls of apply
    MaxFaults,   \* bound: writes that fail, and crashes
    MaxWrites    \* bound: writes of another administrator

SegmentSet == ToSet(Segments)

NoSegment == [vlan |-> "none", rank |-> "none", version |-> 0]
NoProfile == [timeout |-> 0, action |-> "none", version |-> 0]

VARIABLES
    wantCap,      \* manifest: the cap, or Unstated
    wantTimeout,  \* manifest: segment |-> its profile's timeout, or Unstated
    policy,       \* tenant: the cap, and its version
    segment,      \* tenant: segment |-> its row, or NoSegment
    profile,      \* tenant: segment |-> its profile's row, or NoProfile
    phase,        \* idle, segments and profiles (the next read), running
    read,         \* the snapshot: policy, segment, profile
    plan, at,     \* the steps of this apply, and the one being run
    segVersion,   \* the segments' latest known versions
    outcome,      \* of the last apply: none, complete, failed, refused
    disturbed,    \* did a fault or another administrator touch this apply?
    applies, faults, writes

manifest == <<wantCap, wantTimeout>>
tenant == <<policy, segment, profile>>
bounds == <<applies, faults, writes>>
vars == <<manifest, tenant, phase, read, plan, at, segVersion, outcome,
          disturbed, bounds>>

-----------------------------------------------------------------------------
(* A read of a profile returns its timeout lowered to the cap.             *)
Effective(p) == [p EXCEPT !.timeout = IF @ > policy.cap THEN policy.cap ELSE @]

PolicyDiffers(r) == wantCap \notin {Unstated, r.policy.cap}

SegmentDiffers(r, s) == r.segment[s] = NoSegment \/ r.segment[s].vlan = "stale"

(* A profile is matched by its segment's id, which a segment that the read *)
(* did not find has not got.                                               *)
ProfileIn(r, s) == IF r.segment[s] = NoSegment THEN NoProfile ELSE r.profile[s]

ProfileDiffers(r, s) == wantTimeout[s] \notin {Unstated, ProfileIn(r, s).timeout}

(* An update would carry a value that the SDK has no name for.             *)
CarriesUnknown(r, s) ==
    ProfileDiffers(r, s) /\ ProfileIn(r, s).action = "unknown"

(* The steps, in the order they are run: each row, and whether it differs. *)
Steps(r) ==
    << [kind |-> "policy", segment |-> "all", differs |-> PolicyDiffers(r)] >>
      \o [k \in DOMAIN Segments |-> [kind |-> "segment", segment |-> Segments[k],
                                     differs |-> SegmentDiffers(r, Segments[k])]]
      \o [k \in DOMAIN Segments |-> [kind |-> "profile", segment |-> Segments[k],
                                     differs |-> ProfileDiffers(r, Segments[k])]]

Init ==
    /\ wantCap \in Secs \union {Unstated}
    /\ wantTimeout \in [SegmentSet -> Secs \union {Unstated}]
    /\ policy \in [cap : Secs, version : {0}]
    /\ segment \in [SegmentSet -> {NoSegment} \union
                      [vlan : {"stale", "stated"}, rank : {"r1"}, version : {1}]]
    /\ profile \in [SegmentSet -> {NoProfile} \union
                      [timeout : Secs, action : {"a1", "unknown"}, version : {1}]]
    /\ \A s \in SegmentSet : profile[s] # NoProfile => segment[s] # NoSegment
    /\ phase = "idle" /\ plan = <<>> /\ at = 0 /\ outcome = "none" /\ disturbed = FALSE
    /\ read = [policy |-> policy, segment |-> segment, profile |-> profile]
    /\ segVersion = [s \in SegmentSet |-> 0]
    /\ applies = 0 /\ faults = 0 /\ writes = 0

-----------------------------------------------------------------------------
(* _read: the policy, then the segments, then the profiles.                *)
ReadPolicy ==
    /\ phase = "idle" /\ applies < MaxApplies
    /\ phase' = "segments" /\ applies' = applies + 1
    /\ read' = [read EXCEPT !.policy = policy]
    /\ outcome' = "none" /\ disturbed' = FALSE
    /\ UNCHANGED <<manifest, tenant, plan, at, segVersion, faults, writes>>

ReadSegments ==
    /\ phase = "segments" /\ phase' = "profiles"
    /\ read' = [read EXCEPT !.segment = segment]
    /\ UNCHANGED <<manifest, tenant, plan, at, segVersion, outcome, disturbed,
                   bounds>>

(* The last read, and _compute: refused before any write, or the steps.    *)
ReadProfiles ==
    LET snapshot == [read EXCEPT !.profile =
                       [s \in SegmentSet |-> Effective(profile[s])]]
        refused == \E s \in SegmentSet : CarriesUnknown(snapshot, s)
    IN  /\ phase = "profiles"
        /\ read' = snapshot
        /\ segVersion' = [s \in SegmentSet |-> snapshot.segment[s].version]
        /\ plan' = Steps(snapshot) /\ at' = 1
        /\ phase' = IF refused THEN "idle" ELSE "running"
        /\ outcome' = IF refused THEN "refused" ELSE "none"
        /\ UNCHANGED <<manifest, tenant, disturbed, bounds>>

Here == plan[at].segment
Writing == phase = "running" /\ plan[at].differs
Running(kind) == Writing /\ plan[at].kind = kind

(* A step is over: the next one, or the end.                               *)
Goes ==
    /\ at' = at + 1
    /\ phase' = IF at = Len(plan) THEN "idle" ELSE "running"
    /\ outcome' = IF at = Len(plan) THEN "complete" ELSE "none"

(* The first failure: no later step is attempted, nothing is retried.      *)
Stops == at' = at /\ phase' = "idle" /\ outcome' = "failed"

RunNoop ==
    /\ phase = "running" /\ ~plan[at].differs
    /\ Goes
    /\ UNCHANGED <<manifest, tenant, read, plan, segVersion, disturbed, bounds>>

(* Mutant: the version is the server's own, as a read just before the      *)
(* write would give it.                                                    *)
VersionSent_Latest ==
    CASE Running("policy") -> policy.version
      [] Running("segment") -> segment[Here].version
      [] Running("profile") -> profile[Here].version

(* The version a replacement names: the one that was read.                 *)
VersionSent ==
    CASE Running("policy") -> read.policy.version
      [] Running("segment") -> read.segment[Here].version
      [] Running("profile") -> ProfileIn(read, Here).version

(* The server: a write of a row that moved is refused, and so is a second  *)
(* creation, which names no version, and a timeout above the cap.          *)
Accepts ==
    \/ Running("policy") /\ policy.version = VersionSent
    \/ Running("segment") /\ segment[Here].version = VersionSent
    \/ /\ Running("profile")
       /\ profile[Here].version = VersionSent
       /\ segment[Here].version = segVersion[Here]
       /\ wantTimeout[Here] <= policy.cap

(* A body: the stated members over the read's.  A creation leaves the      *)
(* others to the server.                                                   *)
SegmentBody(s) ==
    [vlan |-> "stated",
     rank |-> IF read.segment[s] = NoSegment THEN "default"
              ELSE read.segment[s].rank,
     version |-> segment[s].version + 1]

ProfileBody(s) ==
    [timeout |-> wantTimeout[s],
     action |-> IF ProfileIn(read, s) = NoProfile THEN "default"
                ELSE ProfileIn(read, s).action,
     version |-> profile[s].version + 1]

TakesEffect ==
    \/ /\ Running("policy")
       /\ policy' = [cap |-> wantCap, version |-> policy.version + 1]
       /\ UNCHANGED <<segment, profile>>
    \/ /\ Running("segment")
       /\ segment' = [segment EXCEPT ![Here] = SegmentBody(Here)]
       /\ UNCHANGED <<policy, profile>>
    \/ /\ Running("profile")
       /\ profile' = [profile EXCEPT ![Here] = ProfileBody(Here)]
       /\ UNCHANGED <<policy, segment>>

(* Mutant: the version that was read is kept.                              *)
Learns_Nothing == UNCHANGED segVersion

(* The answer to a segment's write carries the version it moved to.        *)
Learns == segVersion' = IF Running("segment")
                        THEN [segVersion EXCEPT ![Here] = segment'[Here].version]
                        ELSE segVersion

RunStep ==
    /\ Writing /\ Accepts
    /\ TakesEffect /\ Learns /\ Goes
    /\ UNCHANGED <<manifest, read, plan, disturbed, bounds>>

Fault == /\ faults < MaxFaults /\ faults' = faults + 1
         /\ disturbed' = TRUE
         /\ UNCHANGED <<applies, writes>>

StepRefused ==
    /\ Writing
    /\ \/ ~Accepts /\ UNCHANGED <<disturbed, bounds>>
       \/ Accepts /\ Fault
    /\ Stops
    /\ UNCHANGED <<manifest, tenant, read, plan, segVersion>>

(* The write took effect and its answer was lost.                          *)
StepLost ==
    /\ Writing /\ Accepts /\ Fault
    /\ TakesEffect /\ Stops
    /\ UNCHANGED <<manifest, read, plan, segVersion>>

(* A read fails, or the process dies: nothing is reported.                 *)
Crash ==
    /\ phase # "idle" /\ Fault
    /\ phase' = "idle" /\ plan' = <<>> /\ at' = 0
    /\ UNCHANGED <<manifest, tenant, read, segVersion, outcome>>

(* Another administrator, through any client: the cap, a segment or its    *)
(* profile, each of which moves a version.                                 *)
OtherWrites ==
    /\ writes < MaxWrites /\ writes' = writes + 1 /\ disturbed' = TRUE
    /\ \/ /\ \E c \in Secs \ {policy.cap} :
                policy' = [cap |-> c, version |-> policy.version + 1]
          /\ UNCHANGED <<segment, profile>>
       \/ /\ \E s \in SegmentSet :
                segment' = [segment EXCEPT ![s] =
                   [vlan |-> "stale", rank |-> "r2", version |-> @.version + 1]]
          /\ UNCHANGED <<policy, profile>>
       \/ /\ \E s \in SegmentSet, t \in Secs :
                /\ segment[s] # NoSegment /\ t <= policy.cap
                /\ profile' = [profile EXCEPT ![s] =
                      [timeout |-> t, action |-> "a2", version |-> @.version + 1]]
          /\ UNCHANGED <<policy, segment>>
    /\ UNCHANGED <<manifest, phase, read, plan, at, segVersion, outcome, applies,
                   faults>>

Next ==
    \/ ReadPolicy \/ ReadSegments \/ ReadProfiles
    \/ RunNoop \/ RunStep \/ StepRefused \/ StepLost \/ Crash \/ OtherWrites

Spec == Init /\ [][Next]_vars
-----------------------------------------------------------------------------
(* Every variable has its type.                                            *)
TypeOK ==
    /\ wantCap \in Secs \union {Unstated}
    /\ wantTimeout \in [SegmentSet -> Secs \union {Unstated}]
    /\ policy \in [cap : Secs, version : Nat]
    /\ segment \in [SegmentSet -> [vlan : {"none", "stale", "stated"},
                      rank : {"none", "default", "r1", "r2"}, version : Nat]]
    /\ profile \in [SegmentSet -> [timeout : Secs \union {0},
                      action : {"none", "default", "a1", "a2", "unknown"},
                      version : Nat]]
    /\ phase \in {"idle", "segments", "profiles", "running"}
    /\ phase = "running" => at \in DOMAIN plan
    /\ segVersion \in [SegmentSet -> Nat]
    /\ outcome \in {"none", "complete", "failed", "refused"}
    /\ disturbed \in BOOLEAN
    /\ applies \in 0 .. MaxApplies /\ faults \in 0 .. MaxFaults
    /\ writes \in 0 .. MaxWrites

(* "Every member it does not state is carried from the read": an apply     *)
(* never changes such a member, not even one that another administrator    *)
(* wrote between the read and the replacement.                             *)
NothingOverwritten ==
    [][writes' = writes =>
         \A s \in SegmentSet :
            /\ segment[s] # NoSegment => segment'[s].rank = segment[s].rank
            /\ profile[s] # NoProfile =>
                 profile'[s].action = profile[s].action]_vars

(* No stated timeout is above the cap the tenant is to have.               *)
Acceptable ==
    \A s \in SegmentSet :
        wantTimeout[s] # Unstated =>
            wantTimeout[s] <= IF wantCap = Unstated THEN policy.cap ELSE wantCap

(* The profile was read lowered to a cap that this apply has raised.       *)
Unclamped(s) == profile[s].timeout > read.profile[s].timeout

(* "Applying twice converges": an apply that meets no fault and no other   *)
(* writer runs to its end, whatever earlier ones left behind, and the next *)
(* plan has nothing to do - except for a profile that reads higher since   *)
(* the apply itself raised the cap.                                        *)
NetworkConverges ==
    LET now == [policy |-> policy, segment |-> segment,
                profile |-> [s \in SegmentSet |-> Effective(profile[s])]]
    IN  outcome \in {"complete", "failed"} /\ ~disturbed /\ Acceptable =>
          /\ outcome = "complete"
          /\ ~PolicyDiffers(now)
          /\ \A s \in SegmentSet :
                /\ ~SegmentDiffers(now, s)
                /\ ProfileDiffers(now, s) => Unclamped(s)
=============================================================================
