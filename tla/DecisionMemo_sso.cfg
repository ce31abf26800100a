\* A federation login, with no check in flight.
\* Every thread makes one call and the clock is bounded: the program stops.
SPECIFICATION Spec
CONSTANTS
    c1 = c1
    c2 = c2
    c3 = c3
    s1 = s1
    s2 = s2
    p1 = p1
    p2 = p2
    q1 = q1
    q2 = q2
    own = own
    other = other
    Nobody = Nobody
    None = None
    Checkers = {c1, c2}
    Changers = {s1}
    Kinds = {"sso"}
    Principals = {p1, p2}
    Questions = {q1}
    Tenants = {own}
    Serialized = TRUE
    RequestedTTL = 3
    MaxTTL = 2
    Cap = 1
    Transit = 1
    MaxClock = 1
CHECK_DEADLOCK FALSE
PROPERTIES
    OwnPrincipal
