SPECIFICATION SpecOtherThread
CONSTANTS
    Slots = {s1}
    Values = {v1, v2}
    MaxEdits = 2
    MaxRestores = 1
INVARIANT EditsInsideTouch
CHECK_DEADLOCK FALSE
