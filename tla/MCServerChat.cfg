SPECIFICATION Spec
CONSTANTS
  Names <- ChatNames
  Passwords = {"p"}
  Infos = {}
  Boundary = 4
  DbFaults = {}
  HasOwnerColumn = TRUE
  Conns = {1, 2}
  Ids <- ChatIds
  StartUsers <- ChatUsers
  StartRelations <- ChatRelations
  ChatTargets <- ChatGoals
  FriendTargets = {}
  NewPasswords = {}
  Garbage = {}
  MaxBase = 4
  MaxUsers = 3
  MaxRelations = 2
  MaxMsgs = 3
  MaxNotify = 0
INVARIANTS ChatInOrder NoStranded
PROPERTIES KeptUntilPushed
