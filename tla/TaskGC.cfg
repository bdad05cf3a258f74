SPECIFICATION FairSpec
CONSTANTS
    t1 = t1
    t2 = t2
    c = c
    d = d
    Tasks = {t1, t2}
    KindChoices <- Pairs
    Length <- Sizes
    Calls = {c}
    MaxCalls = 3
    MaxUploads = 1
    MaxTime = 1
    TaskTtl = 0
    PersistentTtl = 0
    DownloadTimeout = 0
    DiskThreshold = 10
    HighPercent = 80
    LowPercent = 40
INVARIANTS
    RecordsSafe
PROPERTIES
    SpaceIsReclaimed
