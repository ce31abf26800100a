\* Redeliveries, duplicates and concurrent deliveries; a reactor that loses
\* its connection, drains and is cancelled.
\* Messages are finite in number: the system comes to rest.
SPECIFICATION MCSpec
CONSTANTS
    m1 = m1
    m2 = m2
    n1 = n1
    n2 = n2
    Copies = {m1, m2}
    Nonces = {n1, n2}
    Skew = 2
    Ahead = 1
    MaxClock = 5
    MaxLosses = 1
    e1 = e1
    e2 = e2
    Events = {e1, e2}
    Window = 2
    Grace = 3
CHECK_DEADLOCK FALSE
INVARIANTS
    HandledOnce
    DroppedForCause
    OncePerEvent
PROPERTIES
    AllSettled
    StopsWhenCancelled
