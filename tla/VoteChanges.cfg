SPECIFICATION Spec
CONSTANTS
    h1 = h1
    h2 = h2
    p1 = p1
    v1 = v1
    v2 = v2
    None = None
    Handlers = {h1, h2}
    Messages = {p1, v1, v2}
    Timestamp <- SignedAt
    Payments = {p1}
    maxVoteChangeRecords = 2
    MaxDeliveries = 5
    MaxFeeErrors = 1
    MaxFaults = 1
SYMMETRY Symmetric
INVARIANTS
    KeepsNewest
PROPERTIES
    AcceptedIsNewer
CHECK_DEADLOCK FALSE
