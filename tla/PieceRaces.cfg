SPECIFICATION Spec
CONSTANTS
    Downloaders = {d1, d2, d3}
    Uploaders = {}
    Payloads = {p, q}
    Transports = {"urma"}
    Blocks = 2
    MaxCalls = 1
    MaxTimeouts = 0
    MaxCrashes = 1
    MaxDeletes = 1
CHECK_DEADLOCK FALSE
INVARIANTS TypeOK OneOwner
PROPERTIES ImplementsStore
