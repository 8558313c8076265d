SPECIFICATION FairSpec
CONSTANTS
    t1 = t1
    t2 = t2
    s1 = s1
    s2 = s2
    Tickets = {t1, t2}
    ScriptOf <- TwoScripts
    Bought <- BoughtApart
    TicketMaturity = 1
    TicketExpiry = 2
    FirstHeight = 3
    Legacy = {}
    Clients = {}
    MaxCopies = 0
    MaxHeight = 6
    MaxFaults = 0
PROPERTIES
    EmptyOutcomeMeansVotable
CHECK_DEADLOCK FALSE
