SPECIFICATION PathsSpec
CONSTANTS
  Capacity = 4
  Items = {m1, m2, m3}
  Nothing = Nothing
  RingSlots = 3
  Rooms = {1, 2}
  MaxTelemetry = 4
  Bound = 2
  PollLimit = 3
  MaxBlocks = 3
  MaxEvents = 2
  MaxResets = 1
  Fields = {f, g}
  PatientReaders = {p}
  HastyReaders = {h}
  MaxAttempts = 2
  MaxPublications = 3
  Frames = {f1, f2}
  Silence = Silence
  MaxDelay = 3
  MaxBlock = 2
  MaxFrames = 7
INVARIANTS NoSlotRace FramesAccounted PageFollowsInput SnapshotIsCurrent
PROPERTIES ImplementsBoundedQueue ImplementsDelayLine
CHECK_DEADLOCK FALSE
