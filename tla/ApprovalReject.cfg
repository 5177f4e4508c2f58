SPECIFICATION Spec
CONSTANTS
    q1 = q1  q2 = q2  c1 = c1  c2 = c2  c3 = c3
    d1 = d1  d2 = d2  n1 = n1  n2 = n2  n3 = n3
    Requests = {q1}
    Decisions = {c1, c2}
    Docs = {d1}
    Writable = {d1}
    Nodes = {n1, n2}
    NoNode = NoNode
    Path <- MCPath
    Existing = {n1}
    WorkspacePolicy <- MCUnset
    CorpusPolicy <- MCUnset
    Actions = {"append", "create", "update", "delete"}
    Modes <- MCRacing
INVARIANTS RejectLeavesContent
SYMMETRY MCSymmetry
CHECK_DEADLOCK FALSE
