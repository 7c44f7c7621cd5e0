CONSTANTS
  Names <- MCNames
  Passwords = {"p", "q"}
  Infos = {"i"}
  Boundary = 2
  DbFaults = {"fail"}
  HasOwnerColumn = TRUE
  ClientIds = {1, 3}
  MaxBase = 4
  MaxUsers = 3
  MaxRelations = 2
SPECIFICATION Spec
INVARIANTS StoredUsersCached PasswordsStored FriendsStored ProfilesStored
