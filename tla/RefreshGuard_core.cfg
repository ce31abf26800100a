\* A thread and a coroutine refresh while an oidc_refresh and a login run;
\* coroutines may be cancelled, calls refused, answers lost or cut off.
\* Every caller makes one call: the program stops after the last.
SPECIFICATION FairSpec
CONSTANTS
    r1 = r1
    r2 = r2
    r3 = r3
    x1 = x1
    l1 = l1
    l2 = l2
    NoOne = NoOne
    RefreshCallers = {r1, r2}
    ExclusiveCallers = {x1}
    LoginCallers = {l1}
    AsyncCallers = {r2, x1}
    Cancellable = {r2, x1}
    Faults = {"refused", "lost", "truncated"}
CHECK_DEADLOCK FALSE
INVARIANTS
    MutualExclusion
    NoReplay
    OneRotationPerToken
    ReturnsFresher
    BaselineInSync
PROPERTIES
    AllAnswered
