SPECIFICATION Spec
CONSTANTS
  f = f
  g = g
  Files = {f, g}
  Jobs = {1, 2}
  PoolSize = 2
  Commands <- MCGets
  Remote <- MCRemote
  Local <- MCLocal
  MaxListeners = 2
  Transfers = {3, 4}
  Links = {1, 2, 3, 4}
  Ports = {1}
  MaxTimeouts = 0
CHECK_DEADLOCK FALSE
PROPERTY GetDelivers
