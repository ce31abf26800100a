\* Two threads verify while keys are rotated and withdrawn; two threads poll
\* the feed; two callers poll for two events.
SPECIFICATION MCSpec
CONSTANTS
    t1 = t1
    t2 = t2
    c1 = c1
    c2 = c2
    s1 = s1
    s2 = s2
    sid1 = sid1
    Threads = {t1, t2}
    NoOne = NoOne
    Never = Never
    Timeout = 1
    MaxKey = 2
    Lifespan = 1
    MinInterval = 2
    MaxTime = 3
    Sids = {sid1}
    PollInterval = 2
    FeedMaxTime = 6
    Callers = {c1, c2}
    Sets = {s1, s2}
    Minute = 1
    JwksLifespan = 2
SYMMETRY Symmetry
INVARIANTS
    RejectedWithinInterval
    BlipKeepsRejecting
    AcceptedOnce
    
PROPERTIES
    WithdrawnKeyExpires
    RefusedForCause
