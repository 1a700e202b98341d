SPECIFICATION Spec
CONSTANTS
    None = None
    Empty = Empty
    Garbled = Garbled
    Compressed = FALSE
    ZeroLen = {}
    Policy = "Always"
    w1 = w1
    w2 = w2
    h1 = h1
    h2 = h2
    Hashes = {h1}
    Workers = {w1}
    Inodes = {i1, i2, i3}
    Jobs <- WriteDelete
    Faults = {}
INVARIANT AckedReadable
