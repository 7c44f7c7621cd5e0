SPECIFICATION FairSpec
CONSTANTS
  Conns = {1, 2}
  Md5s = {"pair", "empty", "cwd"}
  Size <- Sizes
  CwdFiles = {"cwd"}
  Faults = {"open", "write"}
  Restarts = TRUE
  Cancels = FALSE
  MaxOpened = 2
PROPERTIES TransfersEnd
