SPECIFICATION MCSpec
CONSTANTS
    Peers = {p1}
    Tasks = {t1}
    Reporters = {}
    None = None
    MaxAttempts = 1
    Outcomes <- AllOutcomes
    FailsSoon = FALSE
    Events = {}
    NoOp = NoOp
    NoTask = NoTask
    NoTemp = NoTemp
    Ids = {o1}
    Clients = {}
    Methods = {}
    LogFaults = {}
    Callers = {c1, c2}
    NoCaller = NoCaller
    NoManifest = NoManifest
    NoFile = NoFile
    Paths = {f1}
    Chunks = {k1, k2}
    Modes = {m1}
    SizeOf <- UnitSize
    MaxChunks = 2
    Stored = {k1}
    MaxWanted = 2
    MaxConcurrent = 2
CHECK_DEADLOCK FALSE
INVARIANT CompletedHasPeersFiles
