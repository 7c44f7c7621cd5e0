CONSTANTS
  Names <- MCNamesOfGroups
  Passwords = {"p"}
  Infos = {}
  Boundary = 2
  DbFaults = {"fail", "lost"}
  HasOwnerColumn = TRUE
  ClientIds = {1, 3}
  MaxBase = 4
  MaxUsers = 3
  MaxRelations = 1
SPECIFICATION Spec
INVARIANTS TypeOK UniqueIds CachedUsersStored
 
