SPECIFICATION MCSpec
CONSTANTS
    Requests <- ProxyRequests
    Lengths = {0, 2, 3}
    OutSize = 2
    BodySize = 2
    Hosts = {h1, h2}
    Pieces = {1, 2}
    Rounds <- ExchangeRounds
    Buffered = 1
    Calls = {c1, c2, c3}
    Selections <- SelectorSetups
    MaxParents = 2
    Tasks = {t1, t2, t3}
    Jobs <- CacheJobs
    CacheCapacity = 3
    Listing <- ScheduledListing
    Cluster <- ScheduledClusters
    Callers = {c1}
    Announcer = announcer
    MaxRefreshes = 2
    Processes <- DaemonSetups
    MaxClients = 1
    Limited = {c1, c2}
    MaxCalls = 5
    BucketCount = 2
    Scale = 3
    Times = {1, 2}
    MinPieceLength = 2
    MaxPieceLength = 8
    MaxPieceCount = 3
    Downloads <- CutDownloads
    MaxRounds = 2
    MaxMerged = 3
    Files = {f1, f2, f3}
    Dirs = {dir}
    ParentOf <- ExportParents
    Exports <- ExportSetups
    MaxConcurrent = 1
    MaxFiles = 2
    MaxMessages = 3
    c1 = c1
    c2 = c2
    c3 = c3
    h1 = h1
    h2 = h2
    t1 = t1
    t2 = t2
    t3 = t3
    s1 = s1
    s2 = s2
    f1 = f1
    f2 = f2
    f3 = f3
    dir = dir
    None = None
INVARIANTS
    ResponseSafe
    SourcesSafe
    CacheSafe
    SchedulersSafe
    ProcessSafe
    LimiterExact
    PiecesExact
PROPERTIES
    ServicesEnd
CHECK_DEADLOCK FALSE
