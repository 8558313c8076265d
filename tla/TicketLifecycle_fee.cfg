CONSTANTS
    f1 = f1
    f2 = f2
    None = None
    Tickets = {t1}
    FeeTxs = {f1}
    Choices = {}
    Requests = {r1, r2}
    Wallets = {w1}
    Kinds = {"feeAddress", "payFee"}
    Fees = {1, 2}
    Payment <- OneFeePayment
    FeeLifetime = 0
    MaxTime = 1
    MaxAddr = 2
    MaxRequests = 3
    MaxFaults = 1
SPECIFICATION Spec
SYMMETRY Interchangeable
INVARIANTS TypeOK StoredFeeIsPaid StoredRecordIsTrue NoEarlyBroadcast HeldTicketsPaid EveryCopySound
PROPERTIES NoPaidTicketDeleted KeepsPromises
