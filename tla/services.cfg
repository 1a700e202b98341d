SPECIFICATION Spec
CONSTANTS
    p1 = p1
    p2 = p2
    a = a
    b = b
    c = c
    d = d
    old = old
    new = new
    s1 = s1
    s2 = s2
    h1 = h1
    Paths = {p1, p2}
    Chunks = {a, b, c}
    Modes = {old, new}
    NoFile = NoFile
    SizeOf <- UnitSize
    MaxChunks = 2
    Peers = {q1}
    Cache = {}
    Trees <- SomeTrees
    ResumeIds = {s1, s2}
    SentChunks <- ChunksOfSessions
    SaveEvery = 2
    NoCheckpoint = NoCheckpoint
    TornTable = TornTable
    MaxSessions = 2
    NoRow = NoRow
    Streams = {s1, s2, s3}
    Handled = {s2, s3}
    Datas = {d, d2}
    NoData = NoData
    TornData = TornData
    Gear <- GearTable
    Width = 4
    WINDOW_SIZE = 2
    mask_bits = 2
    min_size = 2
    avg_size = 3
    max_size = 7
    MaxLength = 11
    Devices = {n1, n2}
    ConflictPaths = {p1}
    Hashes = {h1, h2}
    MaxTime = 1
    NoCopy = NoCopy
    NoConflict = NoConflict
    Never = Never
    Differs = {n1, n2}
    Roots = {r1}
    Files = {a, b, c}
    Hash <- HashTable
    num_bits = 4
    num_hashes = 2
    MaxMessages = 2
    NoManifest = NoManifest
    NoDiff = NoDiff
    FileEntries <- SomeEntries
    MaxFiles = 4
    NoMode = 999
    NoRoot = NoRoot
    Programs = {g1, g2}
    MaxVersion = 3
    Irreversible = {1}
    MaxStarts = 2
    Neighbours = {n1}
    Self = Self
    NoEvent = NoEvent
    Watchers = {w1}
    MaxFileEvents = 1
    SyncRoots = {f1}
    AnyPort = FALSE
    NotASyncRoot = NotASyncRoot
    WatchedFiles = {f1, f2, f3}
    IgnoredFiles = {f3}
    batch_size = 2
    MaxFileChanges = 3
CHECK_DEADLOCK FALSE
INVARIANTS
    PendingIsWhatIsLacking
    CheckpointFileWhole
    TablesAgree
    SuccessIsStored
    CutsAreStable
    ResolutionsAgree
    SuspectedIsMissing
    VerifiedIsSealed
    VersionsHaveNoGap
    ShellSound
    QuietIsIndexed
