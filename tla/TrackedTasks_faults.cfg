SPECIFICATION Spec
CONSTANTS
    Tasks <- AllTasks
    w1 = w1  w2 = w2
    Workers = {w1, w2}
    MaxRetries <- OneRetry
    Workloads <- Pairs
    Faults = {"error", "crash", "timeout", "write", "overtake"}
    MaxFaults = 2
    None = None
    Postings = {1, 2, 3}
    Embedded = {1}
    MinEmbedded = 2
    Clusterings = {"c1", "c2"}
    Names = {"A B", "A-B", "C"}
    Slugs = {"a-b", "c"}
    Fetches = {"f1", "f2", "d1"}
    Wanted <- ItemsOf
    CommitsEach = {"d1"}
INVARIANTS TypeOK LogTellsTheEnd LatestRunOwnsLabels LabelsHaveARun CompanyIsItsOwn
PROPERTIES EveryTaskEnds
CHECK_DEADLOCK FALSE
