CONSTANTS
  Procs = {p1, p2}
  Keys = {k1}
  Values = {v1, v2}
  None = None
  Fragment = Fragment
  MaxOps = 1
  MaxFaults = 1
  FileExists = {TRUE, FALSE}
  Pools <- MCPools
  Alignment = 2
  Sizes = {1, 3, 5}
  AllocAfterFree = 3
  MaxPages = 2
  MaxRefs = 2
  NumWorkers = 3
  Dims = {1, 2, 3, 4, 5, 7}
  BarrierDims = {1, 3, 5}
  Barriers = 2
SPECIFICATION MCSpec
INVARIANTS LockInv AnswersKept MemoryInv LaunchInv
PROPERTIES RefinesWriteOnceMap OperationsEnd HeldPagesStable UnusedPagesGo LaunchReturns
