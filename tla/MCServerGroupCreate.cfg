SPECIFICATION Spec
CONSTANTS
  Names <- FriendNames
  Passwords = {"p"}
  Infos = {"i"}
  Boundary = 3
  DbFaults = {}
  HasOwnerColumn = FALSE
  Conns = {1, 2}
  Ids <- FriendIds
  StartUsers <- FriendUsers
  StartRelations <- NoRows
  ChatTargets = {}
  FriendTargets <- FriendGoals
  NewPasswords = {"p"}
  Garbage = {4}
  MaxBase = 4
  MaxUsers = 2
  MaxRelations = 1
  MaxMsgs = 0
  MaxNotify = 1
PROPERTY JoinsAfterCreation
