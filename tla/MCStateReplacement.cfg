SPECIFICATION Spec
CONSTANTS
    Requests = {r1, r2}
    MaxRestores = 2
    MaxPages = 4
    MaxRequests = 2
INVARIANTS BulkImageIsCurrent SavedIsOneGeneration
PROPERTIES RestoreCompletes
CHECK_DEADLOCK FALSE
