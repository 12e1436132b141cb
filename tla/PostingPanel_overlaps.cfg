SPECIFICATION Spec
CONSTANTS
    p1 = p1  p2 = p2  f1 = f1  f2 = f2  c1 = c1  c1x = c1x  c2 = c2  h1 = h1  h2 = h2
    None = None
    Postings = {p1, p2}
    Boards = {"acme", "adzuna"}
    Sources = {"greenhouse", "adzuna"}
    Authoritative = {"greenhouse"}
    BoardOf <- TwoBoards
    SourceOf <- TwoSources
    FuzzyKey <- SameKey
    Contents = {c1, c2}
    Hashes = {c1, c2}
    HashOf <- OwnHash
    Fetchers = {f1, f2}
    Overlap = {"fetch_fetch", "fetch_rollup", "midnight"}
    MaxDay = 1
    MaxFetches = 4
SYMMETRY SymmetryOfContents
CHECK_DEADLOCK FALSE
INVARIANTS TypeOK VersionChain NoPhantomEpisode GoneOnlyAfterCheck SuccessIsDurable
