CONSTANTS
  Threads = {t1, t2}
  Keys = {k1, k2}
  MaxTunables = 2
  Platforms = {"native", "wasm"}
  None = None
  MaxClears = 1
  Tunables = {a, b, c}
  Priorities = {1, 2}
  MaxTimes = 2
SPECIFICATION MCSpec
CHECK_DEADLOCK FALSE
INVARIANTS TunerInv DefaultOnlyMeanwhile PlanInv
PROPERTIES FastestStable TuningEnds LoopEnds
