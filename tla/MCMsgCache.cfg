SPECIFICATION Spec
CONSTANTS
  Users = {1, 2}
  Msgs = {"a", "b"}
  MaxLen = 4
PROPERTIES ImplementsQueues
