SPECIFICATION Spec
CONSTANTS
    f1 = f1  f2 = f2
    a = a  b = b
    j1 = j1
    Files = {f1}
    Contents = {a, b}
    NoContent = NoContent
    NoFile = NoFile
    Corpora = {"git"}
    Jobs = {j1}
    NoJob = NoJob
    RetryLimit = 1
    MaxCommits = 1
    MaxEdits = 1
    MaxMishaps = 0
PROPERTY TreeKept
