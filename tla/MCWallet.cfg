SPECIFICATION Spec
CONSTANTS
    p1 = p1
    p2 = p2
    topup = topup
    buy1 = buy1
    buy2 = buy2
    adj = adj
    adj2 = adj2
    reward = reward
    Procs = {p1, p2}
    Keys = {topup, buy1, buy2, adj}
    TypeOf <- MCTypeOf
    Amount <- MCAmount
    OwnerKeys = {}
    DailyLimit = 4
    LargeThreshold = 2
INVARIANTS
    TypeOK
    OneEffect
    StatusTellsEffect
    AcknowledgedIsApplied
PROPERTIES
    SettledForGood
    ImplementsLedger
