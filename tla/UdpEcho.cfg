SPECIFICATION FairSpec
CONSTANTS
  Clients = {c1, c2}
  Messages = 3
  MaxLosses = 1
  MaxDuplicates = 1
CHECK_DEADLOCK FALSE
INVARIANTS
  TypeOK
  NumbersUnique
  ResponsesInStep
PROPERTY ClientsFinish
