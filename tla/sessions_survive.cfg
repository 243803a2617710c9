\* sessions_survive: see README.md
SPECIFICATION SpecAll
CONSTANTS
    g = g
    u = u
    w = w
    e1 = e1
    e2 = e2
    e3 = e3
    s1 = s1
    s2 = s2
    l1 = l1
    c1 = c1
    q1 = q1
    q2 = q2
    Texts = 5
    IndexBatch = 4
    RequestBatch = 3
    SingleRetries = 2
    MaxModels = 2
    MaxJobs = 2
    MaxMessages = 3
    ChatOf <- OneGroup
    UserOf <- TwoUsers
    MaySay <- Words
    Welcome = {1, 2, 3}
    Unlucky <- First
    Parts = 2
    Limit = 3
    CacheLimit = 1
    MaxReplies = 3
    MaxDials = 2
    MaxDelay = 2
    Tab = {1, 2}
    Mortal = {2}
    MaxIssued = 5
    Sensor = {s1, s2}
    Brings <- Feeds
    LogName <- OneLog
    Channel <- Alerts
    Given <- Ids
    Absent = absent
    Severity <- Severities
    Alarming <- Alarms
    Loop = {l1}
    TickCaller = {c1}
    Retrier = {q1, q2}
    MaxRetries = 2
    MaxBegun = 4
    MaxUncounted = 1
    MayDie = {c1, q1}
    Inquiry = {1}
    HistoryTurns = 2
    MaxSpaces = 1
    MaxConversations = 2
    MaxRows = 2
    MaxFavorites = 1
    MaxCards = 1
    MaxEdits = 2
    Chunk = {1, 2, 3}
    TopK = 2
    Scores = {1, 2}
    HistoryMode = "auto"
    MaxSegments = 4
    WebCall = {1, 2}
    Numbers = {1, 2}
    Ttl = 1
    Attempts = 2
    Budget = 1
    MaxTime = 3
    Asker = {1, 2}
    Backends = {"claude", "codex", "pi"}
    MaxLines = 3
    Large = TRUE
    MaxShown = 1
    Remembered = 3
    MaxCalls = 4
INVARIANTS
    PasswordChangeEndsSessions
CHECK_DEADLOCK FALSE
