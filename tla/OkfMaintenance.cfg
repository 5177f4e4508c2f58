SPECIFICATION Spec
CONSTANTS
    u1 = u1  u2 = u2
    Worker = worker
    Callers = {u1, u2, worker}
    Internal = {worker}
    FolderNames = {"a", "ab"}
    FileNames = {"x.md", "y.md", "index.md", "log.md"}
    Concepts = {"x.md", "y.md"}
    Begins <- MCBegins
    RetryLimit = 1
    Corpora <- MCCorpora
    DocPaths <- MCDocPaths
INVARIANT TypeOK
INVARIANT WellFormed
INVARIANT Listed
INVARIANT NothingStale
INVARIANT LayersNarrow
PROPERTY TextKept
SYMMETRY Interchangeable
CHECK_DEADLOCK FALSE
