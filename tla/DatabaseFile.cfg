SPECIFICATION FairSpec
CONSTANTS
    t1 = t1
    None = None
    NoFile = NoFile
    Empty = Empty
    Torn = Torn
    Tickets = {t1}
    Indexes = {3}
    MaxCommits = 3
    MaxFaults = 2
INVARIANTS
    ContentKept
    LayoutKnown
    BackupUsable
PROPERTIES
    FinalBackup
    ShutdownEnds
CHECK_DEADLOCK FALSE
