CONSTANTS
    Keys = {door}
    NoKey = NoKey
    Contexts <- MCContexts
    Constants = {"true", "undefined"}
    UnaryOps = {"nai", "shi", "vek", "sha", "sem", "sek", "mek"}
    BinaryOps = {"an", "ur", "kra", "khi", "juxtaposition"}
    MaxSize = 6
SPECIFICATION Spec
\* A chain is evaluated once.
CHECK_DEADLOCK FALSE
INVARIANTS
    TypeOK
    ActionsAreGuarded
    StrictActionsAreGrounded
    StrictOnlyRefuses
    LearningNeverFlips
    CoresAgree
