SPECIFICATION Spec
CONSTANTS
    Slots = {s1, s2}
    Values = {v1, v2}
    MaxEdits = 2
    MaxRestores = 1
INVARIANTS EditsInsideTouch NothingAtPunchIn ReportedAtRelease DisplayIsAdopted
PROPERTIES HeldReachesHost
CHECK_DEADLOCK FALSE
