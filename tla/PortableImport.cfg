SPECIFICATION Spec
CONSTANTS
    c1 = c1  c2 = c2  c3 = c3  c4 = c4
    i1 = i1  i2 = i2  i3 = i3  i4 = i4  i5 = i5  i6 = i6
    Calls = {c1, c2, c3, c4}
    Paths = {1, 2, 3}
    Ids = {i1, i2, i3, i4, i5, i6}
    Texts = {"a", "b", "new"}
    Nothing = Nothing
    Scenes <- MCScenes
INVARIANTS TypeOK Stored
PROPERTIES Restored ErrorsExplained Untouched
CHECK_DEADLOCK FALSE
