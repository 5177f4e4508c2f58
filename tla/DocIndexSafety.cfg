SPECIFICATION Spec
CONSTANTS
    n1 = n1  n2 = n2
    r1 = r1  r2 = r2  r3 = r3
    a = a  b = b  c = c
    Nodes = {n1}
    Existing = {n1}
    Contents = {a, b}
    NoContent = NoContent
    ChunkCount <- MCChunkCount
    Requests = {r1, r2, r3}
    Bootstraps = {}
    Worker = Worker
    NoNode = NoNode
    NoJob = NoJob
    RetryLimit = 1
    Ops = {"save", "create", "delete", "sweep", "validate"}
    Faults = {"index", "mirror", "send"}
    MaxCrashes = 1
INVARIANTS TypeOK NothingLost QuiescentFresh
SYMMETRY MCSymmetry
CHECK_DEADLOCK FALSE
