SPECIFICATION FairSpec
CONSTANTS
    a = a
    b = b
    p = p
    q = q
    Calls = {a, b}
    Pieces = {p, q}
    Requests <- PrefetchRequests
    Parents = 1
    ConcurrentPieces = 1
    MaxScheduleCount = 1
    MaxDeletes = 0
PROPERTIES
    CallsEnd
CHECK_DEADLOCK FALSE
