SPECIFICATION Spec
CONSTANTS
  Transfers = {t1, t2}
  Ops = {"RETR", "STOR"}
  BUFFER_SIZE = 2
  OldSize = 3
  UploadSize = 2
  Offsets = {0}
CHECK_DEADLOCK FALSE
INVARIANT CompleteMeansSent
