SPECIFICATION FairOutboxSpec
CONSTANTS
    a = a
    b = b
    note = note
    s1 = s1
    bot = bot
    First = {a}
    Late = {b}
    Plain = {note}
    Staff = {s1}
    Bot = bot
    Limit = 2
    Attempts = 2
    MaxTroubles = 1
CHECK_DEADLOCK FALSE
INVARIANTS
    DeliveredOnce
    CountsAddUp
PROPERTIES
    CancelledStays
    EverythingCloses
