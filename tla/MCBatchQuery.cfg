SPECIFICATION FairSpec
CONSTANTS
  None = None
  MaxCrashes = 1
  Atoi <- MCAtoi
  Request <- MCRequest
  FileName <- MCFileName
  Submissions <- MCSubmissions
  Second <- MCSecond
INVARIANT TypeOK
INVARIANT AloneGetsOwnResult
INVARIANT NoForeignData
INVARIANT ResultTellsAnswers
INVARIANT AskedAllOrNothing
PROPERTY EveryBatchAnswered
