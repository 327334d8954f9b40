CONSTANTS
  Configs <- TilewiseKernels
  Unset = Unset
  Zero = Zero
  Outside = Outside
  Launches <- OneLaunch
  Word = 256
SPECIFICATION MCSpec
CHECK_DEADLOCK FALSE
INVARIANT OutputIsProduct
