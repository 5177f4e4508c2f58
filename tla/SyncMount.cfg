SPECIFICATION FairSpec
CONSTANTS
    f1 = f1  f2 = f2
    a = a  b = b
    j1 = j1
    Files = {f1, f2}
    Contents = {a, b}
    NoContent = NoContent
    NoFile = NoFile
    Corpora = {"git", "import", "import_writeback", "mount_authoritative"}
    Jobs = {j1}
    NoJob = NoJob
    RetryLimit = 1
    MaxCommits = 0
    MaxEdits = 1
    MaxMishaps = 1
INVARIANTS TypeOK ImportedWhole
PROPERTIES TreeKept ManagedKept SyncConverges SyncedSearchable
