\* knowledge: see README.md
SPECIFICATION Spec
CONSTANTS
    j1 = j1
    j2 = j2
    j3 = j3
    p1 = p1
    p2 = p2
    Job <- Three
    Part <- Two
    MaxCuts = 4
    Overlap = FALSE
INVARIANTS
    ReadyIsIndexed
    NoOrphans
    RestIsSettled
SYMMETRY Interchangeable
CHECK_DEADLOCK FALSE
