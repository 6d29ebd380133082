CONSTANTS
    door = door
    Keys = {door}
    Conf = {1, 2, 3}
    Missing = Missing
    Invalid = Invalid
    Policies <- MCPolicies
    NoPolicy = NoPolicy
    NoTtl = NoTtl
    Untracked = Untracked
    None = None
    Absent = Absent
    MaxTicks = 6
SPECIFICATION Spec
INVARIANTS
    TypeOK
    ContextFollowsState
    LatchFollowsReadings
