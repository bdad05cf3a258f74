SPECIFICATION Spec
CONSTANTS
    Pieces = {1, 2}
    c1 = c1
    c2 = c2
    Calls = {c1, c2}
    KindChoices = {"persistent", "persistent_cache"}
    OpChoices <- MCOpChoices
    MaxSchedules = 1
    Parents = 1
    Permits = 1
    None = None
SYMMETRY Symmetry
INVARIANTS
    TypeOK
    FinishedIsHeld
    SuccessIsHonest
    NothingLeftClaimed
