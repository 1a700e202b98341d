SPECIFICATION FairSpec
CONSTANTS
    Paths = {p1}
    Gone = Gone
    MaxConcurrent = 2
    NoClient = NoClient
    Faults = {"io", "crash"}
    Peers = {n1}
    MaxVersion = 2
INVARIANTS NamedIsStored CaughtUp
PROPERTY ChangesAreIndexed
