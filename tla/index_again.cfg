SPECIFICATION Spec
CONSTANTS
    Paths = {p1}
    Gone = Gone
    MaxConcurrent = 1
    NoClient = NoClient
    Faults = {}
    Peers = {n1}
    MaxVersion = 1
INVARIANT VersionIsNew
