SPECIFICATION Spec
CONSTANTS
    i1 = i1  i2 = i2  w1 = w1  w2 = w2  c1 = c1  c2 = c2
    None = None
    Postings = {1, 2}
    Contents = {c1, c2}
    Ingesters = {i1}
    Workers = {w1, w2}
    Batch = 1
    MaxRetries = 1
    Faults = {"dispatch", "broker", "crash", "timeout", "encode", "redis", "restore", "slow"}
    MaxFaults = 2
    MaxEdits = 2
SYMMETRY Symmetry
INVARIANTS TypeOK StaleIsInFlight ClaimsAreWork
PROPERTIES NoStalePublish
