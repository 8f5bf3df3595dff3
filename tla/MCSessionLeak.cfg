SPECIFICATION Spec
CONSTANTS
  Transfers = {t1}
  MaxFd = 6
  MaxListeners = 3
  MaxBacklog = 1
  Ports = {20}
  Offsets = {}
CHECK_DEADLOCK FALSE
INVARIANT ListenerClosedAfterAccept
