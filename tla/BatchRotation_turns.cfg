SPECIFICATION FairSpec
CONSTANTS
    d1 = d1  d2 = d2
    NBoards = 9
    BatchSize = 2
    PerDay = 6
    BeforeRollup = 2
    Window = 2
    Dispatchers = {d1, d2}
    Faults = {"redis", "restore", "duplicate", "crash", "refused", "fetch"}
    MaxFaults = 1
INVARIANTS TypeOK
PROPERTIES NoBatchTwice EveryBoardCovered
