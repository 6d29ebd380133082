CONSTANTS
    a = a
    b = b
    Keys = {a, b}
    Values = {1, 2}
    NoValue = NoValue
    ShardSize <- MCShardSize
    MaxShard = 1
    Readers = {t1}
    Writers = {t1, t2}
    Nobody = Nobody
    Inputs <- MCInputs
    InitRoots <- MCRoots
    InitDomains <- MCDomains
    InitLocals <- MCLocals
    Staleness = 1
    MaxClock = 2
    ClockMayStepBack = TRUE
SPECIFICATION FairSpec
INVARIANTS
    TypeOK
    SnapshotIntegrity
    SizeLimitHolds
PROPERTIES
    Linearizable
    LockReleased
