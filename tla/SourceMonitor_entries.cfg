SPECIFICATION FairSpec
CONSTANTS
    Urls = {u1, u2}
    Pages = {p1, p2}
    NoEntry = NoEntry
    NoTask = NoTask
    RemovalThreshold = 2
    Answers <- ThreeAnswers
    MaxRun = 3
    MaxAborts = 1
INVARIANTS
    EntriesTellHistory
    EventsTellStatus
PROPERTY StatusConverges
