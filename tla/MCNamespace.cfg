SPECIFICATION Spec
CONSTANTS
  Sessions = {s1, s2}
  Listers = {l1}
  Movers = {s1}
  Root <- MCRoot
  Nodes <- MCNodes
  Arguments <- MCArguments
  Begins <- MCBegins
CHECK_DEADLOCK FALSE
INVARIANTS
  TypeOK
  LostOnlyToOthers
  BothResolveAlike
PROPERTIES
  LeavesRootByCwd
  ListTells
