SPECIFICATION MCSpec
CONSTANTS
  Replies <- SomeReplies
  BufferSize = 40
  MaxRequests = 2
  MaxCuts = 2
  MaxRows = 3
  MaxConnects = 3
INVARIANTS RepliesParsed 
PROPERTIES  NothingReceivedNothingParsed
CHECK_DEADLOCK FALSE
