CONSTANTS
  Configs <- Kernels
  Unset = Unset
  Zero = Zero
  Outside = Outside
  Launches <- SmallLaunches
  Word = 256
SPECIFICATION MCSpec
CHECK_DEADLOCK FALSE
INVARIANTS RaceFree OutputIsProduct NeverStuck GridInv WorkInv
