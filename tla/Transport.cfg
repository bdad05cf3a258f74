SPECIFICATION MCSpec
CONSTANTS
    Requests = {1, 2}
    Clients = {1, 2, 3, 4}
    PieceLength = 1
    Setups <- TransferSetups
    Closings = 1
    d1 = d1
    d2 = d2
    d3 = d3
    Calls = {d1, d2, d3}
    Streaming = {d1}
    Bounds <- ParentsBounds
    Transfers = {1, 2}
    Leavers = {1}
    Length = 5
    ChunkSize = 2
    Inflight = 2
    RecvDepth = 3
    ConfiguredChunks = 3
    RegisteredChunks = 2
    NativeDepth = 3
    PipelineDepth = 2
    Limits <- SessionLimits
    TxWindows = 2
    None = None
INVARIANTS
    ClientsSafe
    SessionSafe
PROPERTIES
    HealthyClientKept
    TransfersEnd
CHECK_DEADLOCK FALSE
