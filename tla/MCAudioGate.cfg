SPECIFICATION Spec
CONSTANT Operations <- AllOperations
INVARIANTS
  WindowExclusion
  FaceExclusion
  NoFalseDiagnostic
  EngineUsable
PROPERTY OperationsFinish
