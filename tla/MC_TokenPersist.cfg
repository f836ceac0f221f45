SPECIFICATION Spec
CONSTANTS
    Entries = {e1, e2}
    LogBatch = 2
    SyncBatch = 1
    LogRetry = 1
    MaxLogId = 3
    PServers = {s1}
    Global = Global
    NoPolicy = NoPolicy
    PEvals = {p1}
    PEditors = {a1, a2}
    PolicyTtl = 1
    MaxTime = 2
    MaxEdits = 2
    EditAttempts = 3
    Priorities = {0, 2000}
    TrRuns = {1, 2}
    MaxGen = 2
    MaxRotate = 2
    TimerIds = {1, 2}
    MaxOther = 1
    MStreams = {m1, m2}
    MsManaged = {c1}
    MsTemp = {c2}
    MsSessions = {n1}
    MUpdates = {w1, w2}
    MaxVersion = 3
    MaxTick = 2
    NoScope = NoScope
    GServers = {v1, v2}
    GKinds = {"tool", "resource", "prompt"}
    MaxContext = 3
    NoServer = NoServer
CHECK_DEADLOCK FALSE
INVARIANT MarkedIsSaved
