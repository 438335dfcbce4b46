SPECIFICATION Spec
CONSTANTS
  MaxLatency = 1
  MaxEdits = 3
  MaxFailures = 1
INVARIANTS
  Aligned
  ServicedPlanIsCurrent
PROPERTIES
  PendingIsServiced
  HostLearnsLatency
CHECK_DEADLOCK FALSE
