SPECIFICATION FairSpec
CONSTANTS
  Transfers = {t1, t2}
  Ops = {"RETR", "STOR", "APPE"}
  BUFFER_SIZE = 2
  OldSize = 3
  UploadSize = 4
  Offsets = {0, 2, 4}
CHECK_DEADLOCK FALSE
INVARIANTS
  TypeOK
  RetrDeliversFile
  AppeKeepsAll
  StorReplacesFile
PROPERTY TransferEnds
