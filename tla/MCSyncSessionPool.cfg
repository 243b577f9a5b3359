CONSTANTS
  Threads = {t1, t2, t3}
  PoolCnt = 1
  MaxCnt = 2
  Modulus = 8
  MaxCalls = 1
  MaxFaults = 1
SPECIFICATION FairSpec
INVARIANTS TypeOK SessionExclusive CountBalance ForeignReply
PROPERTIES ExhaustedForGood 
CHECK_DEADLOCK FALSE
