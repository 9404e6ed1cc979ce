SPECIFICATION RepairSpec
CONSTANTS
    p1 = p1
    a1 = a1
    topup = topup
    buy = buy
    undoTopup = undoTopup
    undoBuy = undoBuy
    Procs = {p1, a1}
    Admins = {a1}
    Keys = {topup, undoTopup, buy, undoBuy}
    TypeOf <- MCTypeOf
    Amount <- MCAmount
    CompKey <- MCCompKey
    OwnerKeys = {}
    DailyLimit = 9
    LargeThreshold = 9
    Care = "quiet"
INVARIANTS
    BalanceMatchesLedger
    VerdictIsRight
PROPERTIES
    ImplementsLedger
