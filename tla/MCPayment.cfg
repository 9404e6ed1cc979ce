SPECIFICATION PaymentSpec
CONSTANTS
    online = online
    paper = paper
    charge = charge
    ali = ali
    sara = sara
    c1 = c1
    c2 = c2
    job = job
    Job = job
    Payments = {online, charge}
    Users = {ali, sara}
    Owner <- MCOwner
    Gateway = {online}
    Topups = {charge}
    Coded = {online}
    Calls = {c1, c2}
    Ops <- MCOps
    MaxUses = 1
    PerUser = TRUE
    Reliable = FALSE
    Orderly = FALSE
    Careful = TRUE
CHECK_DEADLOCK FALSE
SYMMETRY CallSymmetry
INVARIANTS
    NothingUnpaid
    GrantedOnce
PROPERTIES
    DecidedOnce
    RefundIsTheEnd
