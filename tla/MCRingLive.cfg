SPECIFICATION FairSpec
CONSTANTS
    a = a
    b = b
    c = c
    m1 = m1
    m2 = m2
    sweeper = sweeper
    Users = {a, b}
    Matchers = {m1, m2, sweeper}
    Sweeper = sweeper
    Compatible <- Couple
    MaxClicks <- Once
    MaxLaps = 2
    MaxCrashes = 1
    MaxFailures = 0
    Events = {"sweep", "repair"}
INVARIANT NobodyMissed
PROPERTIES
    PairsMeet
    RowsMoveOn
CHECK_DEADLOCK FALSE
