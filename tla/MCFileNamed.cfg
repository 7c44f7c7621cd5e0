SPECIFICATION Spec
CONSTANTS
  Conns = {1}
  Md5s = {"long", "short"}
  Size <- Sizes
  CwdFiles = {}
  Faults = {}
  Restarts = FALSE
  Cancels = TRUE
  MaxOpened = 2
INVARIANT DataOfNamedFile
