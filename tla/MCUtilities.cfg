SPECIFICATION MCSpec
CONSTANTS
  Threads = {t1, t2}
  Values <- SomeValues
  Uninit <- Garbage
  ConstMaxCnt = 2
  MaxInserts = 3
  MaxClears = 1
  MaxRuns = 3
  MaxTasks = 3
  WorkerCnt = 3
  MaxPackets = 3
  MaxChunks = 4
INVARIANTS   ReadyForPackets 
 
CHECK_DEADLOCK FALSE
