SPECIFICATION Spec
CONSTANTS
  Instances = {a, b}
  None = None
  Banks = {sf2, sfz}
  ReadIds = {1}
  MaxRequests = 3
  MaxEdits = 1
  MaxPages = 1
  Stores = {presets}
  Exports = {1, 2}
  BackupSize = 2
  MaxWrites = 3
  MaxOperations = 3
INVARIANTS RegistryIsHistory PinnedReadsAreOneRevision FilesAreWhole
CHECK_DEADLOCK FALSE
SYMMETRY Symmetry
