SPECIFICATION Spec
CONSTANTS
  File = {f, g}
  Label = {1, 2}
  None = None
  VersionFile = VersionFile
  MaxCalls = 3
  MaxCrashes = 1
  MaxEdits = 1
SYMMETRY FileSymmetry
INVARIANTS
  TypeOK
  MapBelongsToDocument
  DeadXidsStayDead
PROPERTIES
  ApplyRebuilds
  DeltaAfterMap
  FailureLeavesDocuments
  OpenedFilesAreWritten
CHECK_DEADLOCK FALSE
