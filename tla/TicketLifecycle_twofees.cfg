CONSTANTS
    f1 = f1
    f2 = f2
    None = None
    Tickets = {t1}
    FeeTxs = {f1, f2}
    Choices = {}
    Requests = {r1, r2}
    Wallets = {w1}
    Kinds = {"feeAddress", "payFee"}
    Fees = {1}
    Payment <- TwoFeePayments
    FeeLifetime = 0
    MaxTime = 0
    MaxAddr = 2
    MaxRequests = 3
    MaxFaults = 0
SPECIFICATION Spec
PROPERTIES FeeTxNotReplaced
