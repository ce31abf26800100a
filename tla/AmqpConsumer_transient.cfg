\* A handler fails with an ordinary exception.
\* Messages are finite in number: the system comes to rest.
SPECIFICATION Spec
CONSTANTS
    m1 = m1
    m2 = m2
    n1 = n1
    n2 = n2
    Copies = {m1, m2}
    Nonces = {n1, n2}
    Skew = 2
    Ahead = 1
    MaxClock = 5
    MaxLosses = 0
CHECK_DEADLOCK FALSE
INVARIANTS
    TransientIsRetried
