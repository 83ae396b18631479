SPECIFICATION FairSpec
CONSTANTS
  None = None
  NullRow = NullRow
  Key <- MCKey
  Caller <- MCCaller
  Pusher <- MCPusher
  MaxVersion = 2
  MaxPushes = 2
  MaxCalls = 2
  MaxCrashes = 1
INVARIANT TypeOK
INVARIANT FreshReads
PROPERTY DeletedRowsExpire
PROPERTY EveryGetReturns
