SPECIFICATION Spec
CONSTANTS
  None = None
  MaxCrashes = 0
  Atoi <- MCAtoi
  Request <- MCRequest
  FileName <- MCFileName
  Submissions <- SomeShared
INVARIANT FirstIsSourceSecondIsClicks
