SPECIFICATION FairSpec
CONSTANTS
    n1 = n1  n2 = n2
    r1 = r1  r2 = r2  r3 = r3
    a = a  b = b  c = c
    Nodes = {n1}
    Existing = {}
    Contents = {a, b}
    NoContent = NoContent
    ChunkCount <- MCChunkCount
    Requests = {r1, r2}
    Bootstraps = {}
    Worker = Worker
    NoNode = NoNode
    NoJob = NoJob
    RetryLimit = 2
    Ops = {"save", "create", "delete", "sweep", "reindex"}
    Faults = {"index"}
    MaxCrashes = 1
INVARIANTS QuietIsSettled
PROPERTIES Converges Settles JobsDrain
CHECK_DEADLOCK FALSE
