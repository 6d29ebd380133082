CONSTANTS
    MaxAges = {0, 1}
    Depth = 1
    Domains = {"action", "list", "undefined", "error"}
    Verdicts <- MCVerdicts
    MaxProposals = 2
    MaxClock = 2
    MaxCrashes = 1
    NoMessage = NoMessage
    NoReading = NoReading
SPECIFICATION FairSpec
INVARIANTS
    TypeOK
    RecordsComplete
PROPERTIES
    PermitIsGrounded
    ProposalsAnswered
