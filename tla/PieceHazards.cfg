SPECIFICATION Spec
CONSTANTS
    Downloaders = {d1, d2}
    Uploaders = {u1}
    Payloads = {p}
    Transports = {"urma", "stream", "source"}
    Blocks = 2
    MaxCalls = 1
    MaxTimeouts = 1
    MaxCrashes = 1
    MaxDeletes = 0
CHECK_DEADLOCK FALSE
SYMMETRY ThreadSymmetry
INVARIANTS NoOrphanClaim FinishedIntact UploadIntact
