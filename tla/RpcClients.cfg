SPECIFICATION FairSpec
CONSTANTS
    h1 = h1
    Run = Run
    nobody = nobody
    Handlers = {h1}
    MaxConns = 4
    MaxBlocks = 2
    MaxFaults = 2
    MaxOutages = 1
INVARIANTS
    TypeOK
    OneConnection
    OpenIsReady
PROPERTIES
    Reconnects
    NotificationsReceived
