SPECIFICATION Spec
CONSTANTS
    p1 = p1  p2 = p2  f1 = f1  f2 = f2  c1 = c1  c1x = c1x  c2 = c2  h1 = h1  h2 = h2
    None = None
    Postings = {p1}
    Boards = {"acme"}
    Sources = {"greenhouse", "adzuna"}
    Authoritative = {"greenhouse"}
    BoardOf <- OneBoard
    SourceOf <- OneSource
    FuzzyKey <- OwnKey
    Contents = {c1}
    Hashes = {c1}
    HashOf <- OwnHash
    Fetchers = {f1}
    Overlap = {"fetch_rollup"}
    MaxDay = 1
    MaxFetches = 3
CHECK_DEADLOCK FALSE
INVARIANTS GoneMeansUnseen
