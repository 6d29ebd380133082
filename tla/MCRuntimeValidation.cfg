CONSTANTS
    a = a
    b = b
    go = go
    ask = ask
    junk = junk
    deep = deep
    e1 = e1
    Keys = {a, b}
    Values = {1, 2}
    NoValue = NoValue
    ShardSize <- MCShardSize
    MaxShard = 1
    Evaluators = {e1}
    Updaters = {u}
    Inputs <- MCInputs
    InitRoots <- MCRoots
    InitDomains <- MCDomains
    InitLocals <- MCLocals
    Staleness = 1
    MaxClock = 1
    ClockMayStepBack = FALSE
    Chains = {go, junk, deep}
    Unparsable = {junk}
    UnsafeTrees = {deep}
    Parents = {p}
    NoParent = NoParent
    NoPack = NoPack
    Configs <- MCConfigs
    NoChain = NoChain
    WellShaped <- MCWellShaped
    Accepts <- MCAccepts
    Project <- MCProject
    Meaning <- MCMeaning
SPECIFICATION FairSpec
PROPERTIES
    ValidationFailureIsError
