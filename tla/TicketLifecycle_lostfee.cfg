CONSTANTS
    f1 = f1
    f2 = f2
    None = None
    Tickets = {t1}
    FeeTxs = {f1}
    Choices = {}
    Requests = {r1}
    Wallets = {w1}
    Kinds = {"feeAddress", "payFee"}
    Fees = {1}
    Payment <- OneFeePayment
    FeeLifetime = 0
    MaxTime = 0
    MaxAddr = 2
    MaxRequests = 2
    MaxFaults = 0
SPECIFICATION Spec
INVARIANTS NoFeeMeansNotReceived
