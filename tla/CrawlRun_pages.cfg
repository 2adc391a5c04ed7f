SPECIFICATION FairSpec
CONSTANTS
    home = home
    second = second
    elsewhere = elsewhere
    late = late
    Urls <- Site
    Seeds <- SiteSeeds
    NoUrl = NoUrl
    NextPage <- SiteNext
    Items <- SiteItems
    Links <- SiteLinks
    OffSite <- SiteOffSite
    PageLimits = {2, 5}
    MaxDepth = 1
    Concurrency = 2
    MaxBrowser = 1
    MaxDiscovered = 6
    MaxPagination = 2
    MaxRaises = 1
INVARIANTS
    BudgetsNearlyKept
    CompletedIsCovered
PROPERTIES
    ReportIsFinal
    CrawlEnds
CHECK_DEADLOCK FALSE
