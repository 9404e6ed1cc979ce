SPECIFICATION PurchaseSpec
CONSTANTS
    p1 = p1
    p2 = p2
    plain = plain
    coded = coded
    topup = topup
    payP = payP
    refP = refP
    undoP = undoP
    payC = payC
    refC = refC
    undoC = undoC
    Procs = {p1, p2}
    Orders = {plain, coded}
    Coded = {coded}
    DebitKey <- MCDebitKey
    RefundKey <- MCRefundKey
    UndoKey <- MCUndoKey
    Keys <- MCKeys
    TypeOf <- MCTypeOf
    Amount <- MCAmount
    OwnerKeys = {}
    DailyLimit = 9
    LargeThreshold = 9
    MaxUses = 1
    PerUser = TRUE
    Retry = "never"
    Reliable = FALSE
INVARIANTS
    ActivatedIsPaid
    RefundsAreEarned
    RejectedIsFree
    DiscountIsCounted
CHECK_DEADLOCK FALSE
