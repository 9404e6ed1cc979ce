SPECIFICATION Spec
CONSTANTS
    a = a
    b = b
    c = c
    m1 = m1
    m2 = m2
    sweeper = sweeper
    Users = {a, b}
    Matchers = {m1, m2, sweeper}
    Sweeper = sweeper
    Compatible <- Couple
    MaxClicks <- Once
    MaxLaps = 0
    MaxCrashes = 0
    MaxFailures = 1
    Events = {"expire", "stale", "pause", "stop"}
SYMMETRY MCSymmetry
INVARIANT ClaimHasHolder
CHECK_DEADLOCK FALSE
