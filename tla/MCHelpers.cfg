SPECIFICATION Spec
CONSTANTS
  Conn <- MCConn
  Sender <- MCSender
  NoConn = NoConn
  MinOpen = 2
  MaxSends = 3
  Address <- MCAddress
  Files <- MCFiles
INVARIANT PoolTypeOK
INVARIANT AtMostOnce
INVARIANT SearchCorrect
PROPERTY SearchEnds
