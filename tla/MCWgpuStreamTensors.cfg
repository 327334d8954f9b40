CONSTANTS
  s1 = s1
  s2 = s2
  s3 = s3
  p1 = p1
  p2 = p2
  None = None
  Slices <- MCSlices
  Pages = {p1, p2}
  PageOf <- MCPageOf
  TasksMax = 2
  MaxPending = 1
  MaxTotalTasks = 3
  MaxBacklog = 2
SPECIFICATION Spec
INVARIANT NoOutstandingWork
