CONSTANTS
  MaxRequests = 3
  SendSize = 3
  TryCount = 2
  HeaderSize = 2
  ReplySize = 3
  Garbage <- GarbageSizes
  MaxConnects = 2
SPECIFICATION Spec
INVARIANT SuccessHasReply
CHECK_DEADLOCK FALSE
