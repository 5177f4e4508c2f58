SPECIFICATION Spec
CONSTANTS
    memo = memo  page = page
    Files = {memo, page}
    Editable = {memo}
    Targets = {"main"}
    PushModes = {TRUE}
    RetryLimit = 1
    MaxSaves = 1
    MaxForeign = 0
    MaxSyncs = 2
    MaxResets = 0
    MaxMishaps = 0
PROPERTY EditsNotDiscarded
