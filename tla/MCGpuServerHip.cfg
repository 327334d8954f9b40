SPECIFICATION GpuSpec
CONSTANTS
  a = a
  b = b
  k = k
  Null = Null
  Backends = {"hip"}
  Handles = {a, b}
  NumPtrs = 3
  Calls <- MCCalls
  Kernels = {k}
  Tokens = {1}
  NumSlots = 2
  FirstRoom = 2
  MaxStream = 2
INVARIANT PointersStayAlive
