CONSTANTS
  s1 = s1
  s2 = s2
  s3 = s3
  p1 = p1
  p2 = p2
  None = None
  Slices <- MCSlices
  Pages = {p1, p2}
  PageOf <- MCPageOf
  TasksMax = 2
  MaxPending = 1
  MaxTotalTasks = 3
  MaxBacklog = 2
  a = a
  b = b
  k = k
  Null = Null
  Backends = {"cuda", "hip"}
  Handles = {a, b}
  NumPtrs = 3
  Calls <- MCCalls
  Kernels = {k}
  Tokens = {1}
  NumSlots = 2
  FirstRoom = 2
  MaxStream = 2
SPECIFICATION MCSpec
INVARIANTS StreamInv BacklogBounded GpuInv LaunchedAsBound BuffersAsCalled
