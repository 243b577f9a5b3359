SPECIFICATION Spec
CONSTANTS
  SizeDefault = 2
  PoolCnt = 2
  Workers = {w1}
  MaxBuffer = 4
  EnderSize = 1
  Bodies = {1, 2, 4}
  Protocols = {500}
  Handler <- Replying
  ReplySize = 3
  StackLengths = {2, 3}
  MaxConns = 3
  MaxHeaders = 2
  MaxFaults = 1
INVARIANTS
  SessionInOnePlace
  RoomToRestore
  UseCountExact
  OpenConnectionIsRead
  DiesOnlyExhausted
  
  
PROPERTIES
  LifeCycle
\* The accept loop dies on an empty pool, and the bounds end a behaviour.
CHECK_DEADLOCK FALSE
