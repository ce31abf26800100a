\* Checks overlap each other, and the application keeps changes apart from
\* them; two requests overlap a login, a device login and a logout.
\* Every caller makes one call and the clock is bounded: the program stops.
SPECIFICATION MCSpec
CONSTANTS
    c1 = c1
    c2 = c2
    c3 = c3
    s1 = s1
    s2 = s2
    p1 = p1
    p2 = p2
    q1 = q1
    q2 = q2
    own = own
    other = other
    Nobody = Nobody
    None = None
    Checkers = {c1, c2, c3}
    Changers = {s1}
    Kinds = {"login", "logout", "refresh", "device"}
    Principals = {p1, p2}
    Questions = {q1}
    Tenants = {own, other}
    Serialized = TRUE
    RequestedTTL = 3
    MaxTTL = 2
    Cap = 1
    Transit = 1
    MaxClock = 3
    r1 = r1
    r2 = r2
    l1 = l1
    d1 = d1
    o1 = o1
    NoOne = NoOne
    Requesters = {r1, r2}
    Logins = {l1}
    Devices = {d1}
    Logouts = {o1}
SYMMETRY MCSymmetry
CHECK_DEADLOCK FALSE
INVARIANTS
    RunsAsAdopted
    BaselineForgotten
    NotStranded
PROPERTIES
    StalenessBound
    OwnPrincipal
