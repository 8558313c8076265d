SPECIFICATION FairSpec
CONSTANTS
    r1 = r1
    r2 = r2
    a1 = a1
    a2 = a2
    None = None
    Requests = {r1, r2}
    Addresses = {a1, a2}
    Slots = 1
    MaxAttempts = 3
    MaxFaults = 3
INVARIANTS
    SlotsHeld
    PassedMeansKnown
    AnswerHonoured
PROPERTIES
    AddressKept
    RequestsEnd
