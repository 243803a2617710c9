\* journal: see README.md
SPECIFICATION LiveSpec
CONSTANTS
    stream = stream
    k1 = k1
    user = user
    recovery = recovery
    c1 = c1
    Stream = stream
    Confirmation = {k1}
    User = user
    Recovery = recovery
    Reader = {c1}
    Limit = 3
    MaxDeltas = 1
    MaxCancels = 1
    MayLose = TRUE
    MayFail = {stream, k1}
INVARIANTS
    NoSkip
PROPERTIES
    OwnerSpeaks
    EndsTold
    StreamsEnd
CHECK_DEADLOCK FALSE
