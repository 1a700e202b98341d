SPECIFICATION Spec
CONSTANTS
    SessionIds = {s1}
    SessionChunks = {x1, x2, x3}
    Savers = {y1, y2}
    SaveInterval = 2
    NoSession = NoSession
    TornFile = TornFile
    Ends = {e1, e2}
    Flows = {f1, f2}
    SyncPeers = {p1, p2}
    Requests = {q1, q2}
    Priorities = {0, 1}
    MaxConcurrent = 1
    NoPeer = NoPeer
    Callers = {k1, k2, k3}
    f1 = f1
    f2 = f2
    c1 = c1
    c2 = c2
    Handlers = {x1, x2, x3}
    Folders = {f1, f2}
    ManifestChunks <- ManifestOf
    NoFolder = NoFolder
    NoHandler = NoHandler
    MaxReceived = 1
    NoOp = NoOp
    NoTask = NoTask
    NoTemp = NoTemp
    Ids = {y1, y2}
    Clients = {t1}
    Methods <- AllMethods
    LogFaults = {"crash", "io", "database"}
SYMMETRY Symmetry
INVARIANTS
    SaveLag
    LogIsTrue
    OnlyManifestBlocks
    SummariesRight
    DeadlockNeedsThree
    DeadlockNeedsTwoSummaries
CHECK_DEADLOCK FALSE
