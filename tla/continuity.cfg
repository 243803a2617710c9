\* continuity: see README.md
SPECIFICATION SpecAll
CONSTANTS
    k1 = k1
    k2 = k2
    k3 = k3
    k4 = k4
    x = x
    y = y
    z = z
    m1 = m1
    t1 = t1
    t2 = t2
    t3 = t3
    p1 = p1
    e1 = e1
    g1 = g1
    Process = {p1}
    Run <- Turns
    ConversationOf <- OneConversation
    Companion = {}
    Editor = {e1}
    MinTurns = 2
    BufferCap = 2
    RecentTurns = 2
    MayFail = {t2, t3}
    MayCrash = {p1}
    Request <- Requests
    Text <- Texts
    CliRun = {k1, k2, k3}
    Other = {m1}
    Binding = {x, y}
    MaxTurns = 2
    MaxAttempts = 3
INVARIANTS
    IndexedTogether
    SessionsHonest
    TurnsWeighed
PROPERTIES
    NotesKept
SYMMETRY Interchangeable
CHECK_DEADLOCK FALSE
