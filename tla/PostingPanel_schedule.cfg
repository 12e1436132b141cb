SPECIFICATION Spec
CONSTANTS
    p1 = p1  p2 = p2  f1 = f1  f2 = f2  c1 = c1  c1x = c1x  c2 = c2  h1 = h1  h2 = h2
    None = None
    Postings = {p1, p2}
    Boards = {"acme", "beta", "adzuna"}
    Sources = {"greenhouse", "adzuna"}
    Authoritative = {"greenhouse"}
    BoardOf <- TwoBoards
    SourceOf <- TwoSources
    FuzzyKey <- SameKey
    Contents = {c1, c1x, c2}
    Hashes = {h1, h2}
    HashOf <- Hashing
    Fetchers = {f1, f2}
    Overlap = {}
    MaxDay = 2
    MaxFetches = 4
SYMMETRY Symmetry
CHECK_DEADLOCK FALSE
INVARIANTS GoneMeansUnseen HashDescribesRow
PROPERTIES FailedRunMarksNothing
