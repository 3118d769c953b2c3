SPECIFICATION FairSpec
CONSTANTS
    Instances = {i1, i2}
    Asked = {i1}
    Calls = {c1}
    Environments <- MCEnvironments
    NumCPU = 2
    maxAttempts = 2
    errCap = 2
    MaxCrashes = 1
    Unset = Unset
    Fail = Fail
    None = None
INVARIANTS MigratesFirst PoolOutlivesQueries WritesAnnounced
PROPERTIES StartsOrEnds StopEnds
CHECK_DEADLOCK FALSE
