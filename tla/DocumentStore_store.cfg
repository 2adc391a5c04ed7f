SPECIFICATION FairSpec
CONSTANTS
    Urls = {u1, u2}
    Contents = {c1, c2}
    Pages = {p1, p2}
    NoJob = NoJob
    MaxChanges = 1
    MaxAborts = 1
INVARIANTS
    VersionsInOrder
    EventsTellVersions
    RetrySuffices
PROPERTIES
    ImplementsHistory
    Converges
