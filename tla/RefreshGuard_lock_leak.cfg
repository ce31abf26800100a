\* Is the lock released when a coroutine is cancelled while it waits?
\* Every caller makes one call: the program stops after the last.
SPECIFICATION Spec
CONSTANTS
    r1 = r1
    r2 = r2
    r3 = r3
    x1 = x1
    l1 = l1
    l2 = l2
    NoOne = NoOne
    RefreshCallers = {r1, r2}
    ExclusiveCallers = {}
    LoginCallers = {}
    AsyncCallers = {r2}
    Cancellable = {r2}
    Faults = {}
CHECK_DEADLOCK FALSE
INVARIANTS
    ReleasedByFinally
