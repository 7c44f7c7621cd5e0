CONSTANTS
  Names <- MCNames
  Passwords = {"p"}
  Infos = {}
  Boundary = 3
  DbFaults = {}
  HasOwnerColumn = TRUE
  ClientIds = {1, 3, 4}
  MaxBase = 5
  MaxUsers = 2
  MaxRelations = 1
SPECIFICATION Spec
INVARIANTS UserIdsBelowBoundary
