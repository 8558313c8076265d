SPECIFICATION FairSpec
CONSTANTS
    h1 = h1
    Run = Run
    nobody = nobody
    Handlers = {h1}
    MaxConns = 4
    MaxBlocks = 1
    MaxFaults = 1
    MaxOutages = 0
PROPERTIES
    NotificationsRestored
