SPECIFICATION Spec
CONSTANTS
    c1 = c1  warmer = warmer
    Postings = {1, 2, 3}
    Contents <- Brought
    Nearness = {1, 2}
    Clients = {c1}
    Warmer = warmer
    PageSize = 1
    TopK = 2
    RrfK = 60
    MaxPages = 2
    MaxEdits = 1
    MaxRestarts = 1
INVARIANTS NothingSkipped OnlyWarmUpLoads
