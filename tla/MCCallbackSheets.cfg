SPECIFICATION FairSpec
CONSTANTS
  None = None
  MaxCrashes = 1
  Atoi <- MCAtoi
  Request <- MCRequest
  FileName <- MCFileName
  Submissions <- MCSubmissions
INVARIANTS
  TypeOK
  SendsMatchSheets
  ReportMatchesCalls
  ErrorMeansNothingSent
  DetailsAccountForCalls
  KsSendsClickedAd
PROPERTIES
  KeepsPromise
  EveryRequestAnswered
