SPECIFICATION MCSpec
CONSTANTS
    Peers = {p1}
    Tasks = {t1, t2}
    Reporters = {r1, r2}
    None = None
    MaxAttempts = 3
    Outcomes <- AllOutcomes
    FailsSoon = FALSE
    Events = {"track", "stop"}
    NoOp = NoOp
    NoTask = NoTask
    NoTemp = NoTemp
    Ids = {o1, o2}
    Clients = {c1, c2}
    Methods = {"start", "complete", "fail"}
    LogFaults = {}
    Callers = {c1, c2}
    NoCaller = NoCaller
    NoManifest = NoManifest
    NoFile = NoFile
    Paths = {f1}
    Chunks = {k1, k2}
    Modes = {m1}
    SizeOf <- UnitSize
    MaxChunks = 2
    Stored = {k1}
    MaxWanted = 3
    MaxConcurrent = 2
CHECK_DEADLOCK FALSE
INVARIANT OneLiveTask
INVARIANT SentOnce
INVARIANT ReceiptsAreReal
PROPERTY OnlyLateAckRevives
PROPERTY TasksEnd
PROPERTY CallsReturn
PROPERTY HandlersReturn
