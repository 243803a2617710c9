\* toolloop: see README.md
SPECIFICATION FairSpec
CONSTANTS
    a = a
    b = b
    d = d
    plan = plan
    SafeCall = {a}
    DangerousCall = {d}
    InvalidCall = {b}
    PlanCall = plan
    Budget = 3
    ModelLimit = 3
    PlanLimit = 1
    Duplicates = 2
    MaxBatch = 2
    Modes <- AllModes
INVARIANTS
    ReceiptTrue
    ApprovalHolds
PROPERTIES
    EffectsReserved
    LoopEnds
CHECK_DEADLOCK FALSE
