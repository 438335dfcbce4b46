SPECIFICATION Spec
CONSTANTS
    Slots = {s1}
    Values = {v1, v2}
    MaxEdits = 2
    MaxRestores = 1
INVARIANT BlockBeforeFirstValue
CHECK_DEADLOCK FALSE
