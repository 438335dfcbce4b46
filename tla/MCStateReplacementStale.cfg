SPECIFICATION Spec
CONSTANTS
    Requests = {r1}
    MaxRestores = 1
    MaxPages = 3
    MaxRequests = 1
INVARIANT ImageIsCurrent
CHECK_DEADLOCK FALSE
