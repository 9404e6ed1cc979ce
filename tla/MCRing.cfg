SPECIFICATION Spec
CONSTANTS
    a = a
    b = b
    c = c
    m1 = m1
    m2 = m2
    sweeper = sweeper
    Users = {a, b, c}
    Matchers = {m1, m2, sweeper}
    Sweeper = sweeper
    Compatible <- Triangle
    MaxClicks <- Once
    MaxLaps = 0
    MaxCrashes = 0
    MaxFailures = 1
    Events = {"sweep"}
SYMMETRY MCSymmetry
INVARIANTS
    TypeOK
    SessionsArePairs
    ClaimHasHolder
    RowTellsSession
CHECK_DEADLOCK FALSE
