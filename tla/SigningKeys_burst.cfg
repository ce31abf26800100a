\* Does a thread that waited for another's fetch reuse what it fetched?
SPECIFICATION Spec
CONSTANTS
    t1 = t1
    t2 = t2
    Threads = {t1, t2}
    NoOne = NoOne
    Never = Never
    MaxKey = 2
    Lifespan = 1
    MinInterval = 2
    Timeout = 1
    MaxTime = 3
INVARIANTS
    BurstCollapses
