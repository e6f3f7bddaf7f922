CONSTANTS
    Clients = {"a", "b", "x"}
    Members <- MCMembers
    Histories <- MCHistories
    Requests = {r1, r2}
    MaxIssued = 3
    MaxFaults = 1
    MaxRevoked = 1
    MaxAged = 1
SPECIFICATION Spec
INVARIANTS
    TypeOK
    NoNeedlessInteraction
    RejectedTokenGone
PROPERTIES
    MovesOn
SYMMETRY Sym
CHECK_DEADLOCK FALSE
