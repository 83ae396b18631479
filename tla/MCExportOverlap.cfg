SPECIFICATION Spec
CONSTANTS
  None = None
  MaxCrashes = 0
  Request <- MCRequest
  Asks <- MCAsks
INVARIANT DownloadProvided
