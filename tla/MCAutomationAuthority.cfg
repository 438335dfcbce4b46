SPECIFICATION Spec
CONSTANTS
  Values = {0, 1}
  MaxStatements = 3
INVARIANTS
  DocumentFollowsAudio
  HandOutranksLane
PROPERTIES
  LastStatementSettles
CHECK_DEADLOCK FALSE
