SPECIFICATION FairSpec
CONSTANTS
    a = a
    b = b
    p = p
    q = q
    Calls = {a, b}
    Pieces = {p, q}
    Requests <- MixedRequests
    Parents = 1
    ConcurrentPieces = 1
    MaxScheduleCount = 2
    MaxDeletes = 1
INVARIANTS
    TypeOK
    OwnersAreJobs
    OkMeansDelivered
    FinishedPeerHoldsRange
    FinishedIsLocalHit
PROPERTIES
    TerminalIsLast
    PiecesAreStored
CHECK_DEADLOCK FALSE
