SPECIFICATION FairSpec
CONSTANTS
    t1 = t1
    t2 = t2
    s1 = s1
    s2 = s2
    Tickets = {t1, t2}
    ScriptOf <- TwoScripts
    Bought <- BoughtApart
    TicketMaturity = 1
    TicketExpiry = 2
    FirstHeight = 3
    Legacy = {t1}
    Clients = {t2}
    MaxCopies = 2
    MaxHeight = 5
    MaxFaults = 1
INVARIANTS
    OutcomeIsTrue
    NoSpentTicketMissed
    ScanFindsAll
PROPERTIES
    OutcomeIsSettledOnce
    SpentTicketsGetOutcome
CHECK_DEADLOCK FALSE
