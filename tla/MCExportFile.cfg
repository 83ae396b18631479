SPECIFICATION FairSpec
CONSTANTS
  None = None
  MaxCrashes = 1
  Request <- MCRequest
  Asks <- MCAsks
INVARIANTS
  TypeOK
  AloneGetsOwnExport
  FreshRows
  CpsFilesRemoved
PROPERTY EveryExportAnswered
