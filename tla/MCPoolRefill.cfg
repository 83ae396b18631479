SPECIFICATION PoolFairSpec
CONSTANTS
  Conn = {a, b, c}
  Sender = {s1}
  NoConn = NoConn
  MinOpen = 2
  MaxSends = 1
PROPERTY MinOpenKept
CHECK_DEADLOCK FALSE
