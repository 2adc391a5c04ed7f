SPECIFICATION FairSpec
CONSTANTS
    Sites <- MCSites
    Default = "default"
    MaxSitemaps = 2
    MaxFeeds = 3
    MaxDepth = 2
    MaxNested = 2
    MaxPerFile = 2
    MaxTotal = 3
    MaxEntries = 1
    MaxHops = 1
    MaxSamples = 3
    Homepages <- MCHomepages
    Tasks = {t1, t2}
    Slots = 1
    MaxRedirects = 1
    MaxScrolls = 2
    MaxNewItems = 1
    MaxNoChange = 1
    NoPage = NoPage
    MaxOffset = 8
    Home = Home
    A1 = A1
    A2 = A2
    P2 = P2
    P3 = P3
    Shown <- MCShown
    MaxPagination = 5
    MaxTroubles = 1
INVARIANTS
    TypeOK
    WalkBounded
    UntruncatedIsComplete
    RequestsBounded
    BrowsersHoldSlots
    ListingIsRead
    MoreScoresNoLess
PROPERTIES
    ReadingEnds
CHECK_DEADLOCK FALSE
