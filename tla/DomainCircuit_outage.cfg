SPECIFICATION FairSpec
CONSTANTS
    DegradedAt = 2
    OpenAt = 3
    OpenDuration = 2
    Never = Never
    DefaultConcurrency = 5
    FullConcurrency = 3
    MaxDelay = 6
    ThrottleFloor = 3
    FailureFloor = 2
    NegligibleDelay = 2
    RetryAfters = {0, 9}
    Pages = {p1, p2}
    MaxStreak = 5
INVARIANTS
    RowTellsStreak
    PausesWhileFailing
PROPERTIES
    ImplementsBreaker
    Recovers
