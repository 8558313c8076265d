CONSTANTS
    f1 = f1
    f2 = f2
    None = None
    Tickets = {t1}
    FeeTxs = {f1}
    Choices = {c1, c2}
    Requests = {r1}
    Wallets = {w1}
    Kinds = {"feeAddress", "payFee", "setVoteChoices"}
    Fees = {1}
    Payment <- OneFeePayment
    FeeLifetime = 0
    MaxTime = 0
    MaxAddr = 2
    MaxRequests = 3
    MaxFaults = 1
SPECIFICATION FairSpec
PROPERTIES ReceivedFeeMovesOn VotableTicketsReachWallets WalletsFollowDatabase
