\* runtime_stalled: see README.md
SPECIFICATION Spec
CONSTANTS
    s1 = s1
    s2 = s2
    r1 = r1
    r2 = r2
    c1 = c1
    NoServer = NoServer
    NoConversation = NoConversation
    Server <- TwoServers
    Run <- TwoRuns
    Conversation = {c1}
    ConversationOf <- SharedConversation
    ModeOf <- CliAndSync
    Companion = {r2}
    Capacity = 1
    Workers = 1
    MayFail = {r1, r2}
    MaySuspend = {s1, s2}
    MayCrash = {s1}
    MayClose = {}
    MaxTurns = 2
    MaxTools = 2
INVARIANTS
    OneExecutor
    ApprovedOnce
    ApprovedExactly
    CapacityBalanced
    StopBoundsTools
    ConversationExclusive
    CliWorkspaceReserved
PROPERTIES
    StopIsFinal
CONSTRAINT OneScene
CHECK_DEADLOCK FALSE
