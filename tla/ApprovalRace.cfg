SPECIFICATION Spec
CONSTANTS
    q1 = q1  q2 = q2  c1 = c1  c2 = c2  c3 = c3
    d1 = d1  d2 = d2  n1 = n1  n2 = n2  n3 = n3
    Requests = {q1, q2}
    Decisions = {c1, c2, c3}
    Docs = {d1, d2}
    Writable = {d1}
    Nodes = {n1, n2, n3}
    NoNode = NoNode
    Path <- MCPath
    Existing = {n1, n3}
    WorkspacePolicy <- MCWorkspace
    CorpusPolicy <- MCCorpus
    Actions = {"append", "create", "update", "delete"}
    Modes <- MCModes
INVARIANTS TypeOK VerdictHolds AppliedHasEffect GatedNeedsApproval
PROPERTY LedgerSpec
SYMMETRY MCSymmetry
CHECK_DEADLOCK FALSE
