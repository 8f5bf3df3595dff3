SPECIFICATION Spec
CONSTANTS
  Transfers = {t1, t2}
  MaxFd = 5
  MaxListeners = 3
  MaxBacklog = 1
  Ports = {20}
  Offsets = {7}
SYMMETRY MCSymmetry
CHECK_DEADLOCK FALSE
INVARIANTS
  TypeOK
  DescriptorLedger
  PassiveListensUnlessStale
  OneListenerPerTransfer
  NothingBeforeLogin
PROPERTY No425AfterCleanPasv
