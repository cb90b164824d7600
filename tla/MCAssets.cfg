SPECIFICATION FairSpec
CONSTANTS
    Files = {1, 2}
    Texts = {x, y}
    x = x
    y = y
    MaxAttempts = 2
    Setups <- MCSetups
    MaxBuilds = 1
CHECK_DEADLOCK FALSE
INVARIANTS
    SyncRecordsAll
    LockTruthful
    AssetsAccounted
PROPERTIES
    IdsStable
    SyncsCatchUp
