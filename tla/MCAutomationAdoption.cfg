SPECIFICATION Spec
CONSTANTS
  Values = {0, 1}
  MaxStatements = 3
INVARIANTS
  AdoptionIsFinal
CHECK_DEADLOCK FALSE
