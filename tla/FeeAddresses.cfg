SPECIFICATION FairSpec
CONSTANTS
    r1 = r1
    r2 = r2
    r3 = r3
    k1 = k1
    k2 = k2
    k3 = k3
    None = None
    Requests = {r1, r2, r3}
    Keys = {k1, k2, k3}
    FirstKey = k1
    InvalidChild <- SomeInvalid
    HardenedKeyStart = 6
    MaxID = 2
    MaxIndex = 9
    MaxCrashes = 3
INVARIANTS
    NoAddressGivenTwice
    GivenIndexIsSaved
    OneActiveKey
    IInv
PROPERTIES
    SavedIndexGrows
    ImplementsAddressSource
    EveryRequestAnswered
CHECK_DEADLOCK FALSE
