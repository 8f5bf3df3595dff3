SPECIFICATION FairSpec
CONSTANTS
  Transfers = {t1, t2}
  MaxFd = 5
  MaxListeners = 2
  MaxBacklog = 1
  Ports = {20}
  Offsets = {}
CHECK_DEADLOCK FALSE
PROPERTIES
  ConnectedTransferEnds
  ImplementsEndpoint
