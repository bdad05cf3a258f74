SPECIFICATION FairSpec
CONSTANTS
    Downloaders = {d1, d2}
    Uploaders = {u1}
    Payloads = {p}
    Transports = {"stream"}
    Blocks = 2
    MaxCalls = 1
    MaxTimeouts = 1
    MaxCrashes = 0
    MaxDeletes = 0
CHECK_DEADLOCK FALSE
PROPERTIES CallsReturn
