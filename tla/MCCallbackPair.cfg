SPECIFICATION Spec
CONSTANTS
  None = None
  MaxCrashes = 1
  Atoi <- MCAtoi
  Request <- MCRequest
  FileName <- MCFileName
  Submissions <- SomeShared
INVARIANT OwnSheets
PROPERTY KeepsPromise
