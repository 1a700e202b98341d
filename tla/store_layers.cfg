SPECIFICATION Spec
CONSTANTS
    a = a
    b = b
    Hashes = {a, b}
    NoHash = NoHash
    Size <- MCSize
    MaxBytes = 3
    MaxChunks = 1
    Readers = {r1}
    BatchLimit = 2
    Permits = 2
    NoTask = NoTask
    Transfers = {t1, t2}
    Checked = {t1}
    Sized = {t1}
    Pieces = 2
    MaxLen = 4
    NoFile = NoFile
    Digests = {a, b}
    StreamPermits = 1
    MaxStreams = 2
INVARIANTS
    CacheAndBatchSound
    ResumedIsWhole
    ReportsAreTrue
PROPERTY
    ReadsAreHonest
CHECK_DEADLOCK FALSE
