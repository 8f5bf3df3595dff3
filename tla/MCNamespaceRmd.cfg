SPECIFICATION Spec
CONSTANTS
  Sessions = {s1}
  Listers = {}
  Movers = {s1}
  Root <- MCRoot
  Nodes <- MCNodes
  Arguments <- MCArguments
  Begins <- MCBegins
CHECK_DEADLOCK FALSE
PROPERTY RmdMovesOnlyChildren
