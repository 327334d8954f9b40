CONSTANTS
  NumWorkers = 3
  Dims = {1, 2, 3, 4, 5, 7}
  BarrierDims = {1, 3, 5}
  Barriers = 2
SPECIFICATION LaunchSpec
PROPERTY EveryLaunchReturns
