SPECIFICATION SubscriptionSpec
CONSTANTS
    head = head
    kid = kid
    pal = pal
    c1 = c1
    c2 = c2
    k1 = k1
    k2 = k2
    nobody = nobody
    Users = {head, kid, pal}
    Nobody = nobody
    Calls = {c1, c2}
    Workers = {c1, c2}
    Keepers = {c1, c2}
    Codes = {k1, k2}
    May <- MCChain
    Family = {head}
    Days = 1
    Seats = 2
    TTL = 2
    MaxTime = 3
    Timely = TRUE
    Degraded = FALSE
    Calm = TRUE
CHECK_DEADLOCK FALSE
INVARIANT AccessFollowsOwner
