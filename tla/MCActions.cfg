CONSTANTS
    parcel = parcel
    plan = plan
    delivered = delivered
    unknown = unknown
    verified = verified
    revoked = revoked
    Things = {parcel}
    Plans = {plan}
    Subject = subject
    Reports = {delivered, unknown}
    Unknown = unknown
    Findings = {verified, revoked}
    Nothing = Nothing
    Legacy <- MCLegacy
    MaxVerbs = 2
    MaxNested = 3
SPECIFICATION ActionsSpec
INVARIANTS
    HashTellsProposalsApart
    HashIsProposal
    EventIsObservation
    StrictAgreesWithPartial
