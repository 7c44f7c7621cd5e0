SPECIFICATION Spec
CONSTANTS
  Conns = {c1, c2}
  Md5s = {"long", "short"}
  Size <- Sizes
  CwdFiles = {}
  Faults = {"open", "write"}
  Restarts = TRUE
  Cancels = TRUE
  MaxOpened = 2
INVARIANTS TypeOK UploadHasStream SingleUploadWhole BlocksBelong
PROPERTIES WholeFilesStay
SYMMETRY ConnSymmetry
VIEW WithoutReply
