SPECIFICATION Spec
CONSTANTS
    Downloaders = {d1, d2}
    Uploaders = {}
    Payloads = {p}
    Transports = {"stream"}
    Blocks = 2
    MaxCalls = 2
    MaxTimeouts = 0
    MaxCrashes = 1
    MaxDeletes = 0
CHECK_DEADLOCK FALSE
PROPERTIES NeverEraseFinished
