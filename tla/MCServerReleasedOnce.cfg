SPECIFICATION Spec
CONSTANTS
  SizeDefault = 2
  PoolCnt = 2
  Workers = {w1}
  MaxBuffer = 4
  EnderSize = 1
  Bodies = {2}
  Protocols = {501}
  Handler <- Silent
  ReplySize = 3
  StackLengths = {3}
  MaxConns = 3
  MaxHeaders = 2
  MaxFaults = 0
INVARIANTS
  ReleasedOnce
\* The accept loop dies on an empty pool, and the bounds end a behaviour.
CHECK_DEADLOCK FALSE
