SPECIFICATION Spec
CONSTANTS
    Session = {s1, s2}
    None = None
    MaxTree = 2
    MaxStop = 1
INVARIANTS
    TypeOK
    ReadonlyAsTold
    ClaimsMatchComponents
    FolderHasKeeper
CHECK_DEADLOCK FALSE
