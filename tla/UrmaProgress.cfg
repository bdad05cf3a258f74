SPECIFICATION FairSpec
CONSTANTS
    TxSlots = {t1}
    RxSlots = {r1}
    GenMax = 1
    LeaseIds = {1, 2}
    Lanes = {l1}
    NoLane = NoLane
    Seqs = {q1}
    MaxCredits = 1
    Faults = {"post", "status", "identity", "native"}
CHECK_DEADLOCK FALSE
PROPERTIES WrsRetire ShutdownEnds
