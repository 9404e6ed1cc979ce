SPECIFICATION FairPaymentSpec
CONSTANTS
    online = online
    paper = paper
    charge = charge
    ali = ali
    sara = sara
    c1 = c1
    c2 = c2
    job = job
    Job = job
    Payments = {online, paper}
    Users = {ali, sara}
    Owner <- MCOwner
    Gateway = {online}
    Topups = {}
    Coded = {online, paper}
    Calls = {c1, c2}
    Ops <- MCNoDrop
    MaxUses = 1
    PerUser = TRUE
    Reliable = TRUE
    Orderly = TRUE
    Careful = TRUE
CHECK_DEADLOCK FALSE
INVARIANTS
    DiscountHeld
    CodeAccounted
    
PROPERTIES
    GatewaySettles
