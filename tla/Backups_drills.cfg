SPECIFICATION Spec
CONSTANTS
    v1 = v1  v2 = v2  v3 = v3
    None = None
    Bad = Bad
    Tags = {v1, v2, v3}
    Working = {v1, v2}
    Revision <- Revisions
    Passwords = {1, 2, 3, 4}
    MaxRows = 2
    Drills <- Mixtures
    MaxBackups = 2
INVARIANTS TypeOK RecordedPasswordOpensVolume DeployedCodeHasItsSchema DropNeedsIntactCopy VerifiedBackupIsThere
PROPERTIES RollbackReturnsToGood CompleteMeansTheDump
CHECK_DEADLOCK FALSE
