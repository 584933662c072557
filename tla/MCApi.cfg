\* Two requests against limits of one and two, and a queue of one.
CONSTANTS
    v = v
    o = o
    r1 = r1
    r2 = r2
    Callers = {v, o}
    Owner = o
    Requests = {r1, r2}
    Jobs = {r1, r2}
    Plans <- MCPlans
    Levels = {0, 1}
    HoursPerDay = 2
    RateLimits <- MCRateLimits
    IpLimit <- MCIpLimit
    MaxTime = 2
    Capacity = 1

SPECIFICATION Spec

\* The process exits.
CHECK_DEADLOCK FALSE

INVARIANTS
    TypeOK
    AdmittedWithinLimit
    AcceptedProcessed

PROPERTIES
    ShutdownEnds
