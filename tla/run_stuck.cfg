\* run_stuck: see README.md
SPECIFICATION FairSpec
CONSTANTS
    s1 = s1
    s2 = s2
    r1 = r1
    r2 = r2
    c1 = c1
    NoServer = NoServer
    NoConversation = NoConversation
    Server <- TwoServers
    Run <- OneRun
    Conversation = {c1}
    ConversationOf <- SharedConversation
    ModeOf <- Api
    Companion <- OneRun
    Capacity = 1
    Workers = 1
    MayFail <- OneRun
    MaySuspend = {s1}
    MayCrash = {s1}
    MayClose = {}
    MaxTurns = 1
    MaxTools = 1
PROPERTIES
    RunsSettle
CHECK_DEADLOCK FALSE
