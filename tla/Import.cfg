SPECIFICATION Spec
CONSTANTS
  Export    <- MCExport
  Others    <- MCOthers
  Existing  <- MCExisting
  Removable <- MCRemovable
  Workers = 2
  MaxRuns = 2
INVARIANTS
  TypeOK
  CountsFaithful
  NoTwins
  WipeFirst
PROPERTY ImportEnds
CHECK_DEADLOCK FALSE
