SPECIFICATION Spec
CONSTANTS
  SizeDefault = 2
  PoolCnt = 2
  Workers = {w1, w2}
  MaxBuffer = 4
  EnderSize = 1
  Bodies = {0, 2, 4}
  Protocols = {501, 502}
  Handler <- Silent
  ReplySize = 3
  StackLengths = {3}
  MaxConns = 4
  MaxHeaders = 2
  MaxFaults = 0
INVARIANTS
  
  NoBufferLost
PROPERTIES
  ClosedByOwnReader
\* The accept loop dies on an empty pool, and the bounds end a behaviour.
CHECK_DEADLOCK FALSE
