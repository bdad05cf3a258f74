SPECIFICATION Spec
CONSTANTS
    TxSlots = {t1, t2}
    RxSlots = {r1}
    GenMax = 1
    LeaseIds = {1, 2, 3}
    Lanes = {l1}
    NoLane = NoLane
    Seqs = {q1}
    MaxCredits = 2
    Faults = {"post", "status", "identity", "corrupt", "native"}
CHECK_DEADLOCK FALSE
SYMMETRY Symmetry
INVARIANTS TypeOK SlotOwnership PermitsBacked LeasesKept LifetimesNest
