SPECIFICATION Spec
CONSTANTS
    r1 = r1  r2 = r2  c1 = c1  c2 = c2  q1 = q1  q2 = q2
    None = None
    Requests = {r1, r2}
    Clients = {c1}
    Questions = {q1}
    Budget = 1
    RateLimit = 1
    MaxArrivals = 3
    MaxWindow = 2
    MaxDay = 2
    MaxLosses = 1
SYMMETRY Symmetry
INVARIANTS TypeOK RemainingIsSafe RefusedOnlyWhenSpent CallsPerDay BurstBounded
PROPERTIES SpendIsLimited
