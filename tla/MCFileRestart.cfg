SPECIFICATION Spec
CONSTANTS
  Conns = {1}
  Md5s = {"long"}
  Size <- Sizes
  CwdFiles = {}
  Faults = {}
  Restarts = TRUE
  Cancels = FALSE
  MaxOpened = 2
INVARIANT FinishedMeansWhole
