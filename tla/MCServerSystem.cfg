SPECIFICATION SystemSpec
CONSTANTS
  Sessions = {s1, s2}
  Conns = {s1, s2}
  Transfers = {l1, t1}
  Listers = {l1}
  Movers = {s1}
  Root <- MCRoot
  Nodes <- MCNodes
  Arguments <- MCArguments
  Begins <- MCBegins
  MAX_CLIENTS = 1
  MaxProcs = 3
  MaxFd = 5
CHECK_DEADLOCK FALSE
INVARIANTS
  ServerTypeOK
  OwnConnectionOnly
  NobodyKeepsConnection
