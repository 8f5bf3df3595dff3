SPECIFICATION FairSpec
CONSTANTS
  f = f
  g = g
  Files = {f, g}
  Jobs = {1, 2}
  PoolSize = 1
  Commands <- MCCommands
  Remote <- MCRemote
  Local <- MCLocal
  MaxListeners = 3
  Transfers = {4, 5, 6}
  Links = {1, 2, 3, 4, 5, 6}
  Ports = {1, 2, 3}
  MaxTimeouts = 1
CHECK_DEADLOCK FALSE
INVARIANTS
  TypeOK
  OwnReplies
PROPERTIES
  GetDelivers
  PutDelivers
  CommandEnds
