SPECIFICATION Spec
CONSTANTS
    memo = memo  page = page
    Files = {memo, page}
    Editable = {memo}
    Targets = {"main", "feature"}
    PushModes = {TRUE, FALSE}
    RetryLimit = 1
    MaxSaves = 2
    MaxForeign = 1
    MaxSyncs = 2
    MaxResets = 1
    MaxMishaps = 1
INVARIANT TypeOK
INVARIANT OnlyEditedFiles
INVARIANT PushedIsThere
INVARIANT SourceRefTrue
PROPERTY RemoteKept
CHECK_DEADLOCK FALSE
