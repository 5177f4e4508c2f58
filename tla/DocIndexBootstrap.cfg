SPECIFICATION SearchSpec
CONSTANTS
    n1 = n1  n2 = n2
    r1 = r1  r2 = r2  r3 = r3
    a = a  b = b  c = c
    pa = pa  paMd = paMd  pb = pb  pbMd = pbMd
    Nodes = {n1, n2}
    Existing = {n1}
    Contents = {a, b, c}
    NoContent = NoContent
    ChunkCount <- MCChunkCount
    Requests = {r1, r2, r3}
    Bootstraps = {r1}
    Worker = Worker
    NoNode = NoNode
    NoJob = NoJob
    RetryLimit = 1
    Ops = {"create", "save", "delete", "validate", "sweep", "reindex"}
    Faults = {"index", "send"}
    MaxCrashes = 1
    FilePaths = {pa, paMd, pbMd}
    Spelling <- MCSpelling
    LinksOf <- MCLinksOf
    Scenes <- MCScenes
    MaxQueued = 2
    Unknown = Unknown
    Limit = 3
    MaxRows = 3
SYMMETRY Clients
INVARIANTS SearchTypeOK WholeVersion LinksExact LinksOnce ListSettles SearchExact
CHECK_DEADLOCK FALSE
