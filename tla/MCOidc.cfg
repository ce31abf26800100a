\* Every caller, waiter and login makes one call: the program stops.
SPECIFICATION MCSpec
CONSTANTS
    t1 = t1
    t2 = t2
    t3 = t3
    t4 = t4
    Callers = {t1, t2, t3, t4}
    Cancellable = {t1, t2}
    NoFlight = NoFlight
    Interval = 2
    Increment = 2
    ExpiresIn = 10
    RetryAfters = {0, 1, 4}
    Jitter = {0, 1}
    MAX_ATTEMPTS = 3
    MaxTime = 11
    w1 = w1
    w2 = w2
    l1 = l1
    l2 = l2
    Workers = {w1, w2}
    Logins = {l1, l2}
    StateTTL = 2
    DocTTL = 1
    NoOne = NoOne
CHECK_DEADLOCK FALSE
INVARIANTS
    NothingSentAfterDeadline
    NeverTooEarly
    OneExchangePerState
PROPERTIES
    
    Implements
    AllAnswered
    SyncImplements
