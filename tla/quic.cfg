SPECIFICATION Spec
CONSTANTS
    Peers = {p1}
    Callers = {c1, c2, c3, r1}
    Conns = {k1, k2, k3}
    Reconnectors = {r1}
    NoConn = NoConn
    MaxPerPeer = 1
    MaxTotal = 3
    MaxAttempts = 2
    Events <- AllEvents
    Senders = {s1, s2}
    Window = 10
    Threshold = 2
    ChunkBytes = 3
    ChunksPerCall = 2
    MaxRetransmit = 2
    Ids = {i1}
    WantedChunks = {w1, w2}
    BadChunk = BadChunk
    MaxRetries = 2
    NoEntry = NoEntry
    Requesters = {q1, q2}
    FailureThreshold = 3
    SuccessThreshold = 2
    MaxTries = 2
    Links = {l1, l2}
    MaxPingFailures = 3
    NoBreaker = NoBreaker
    NoLink = NoLink
    Dialers = {a, b}
    MaxDials = 2
SYMMETRY Symmetry
CHECK_DEADLOCK FALSE
INVARIANT PoolBounded
INVARIANT FlowConserved
INVARIANT CompletedHasAll
INVARIANT CondemnedForCause
INVARIANT HandshakeAgrees
