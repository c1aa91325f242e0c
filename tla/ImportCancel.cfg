SPECIFICATION Spec
CONSTANTS
  Export    <- MCExport
  Others    <- MCOthers
  Existing  <- MCExisting
  Removable <- MCRemovable
  Workers = 2
  MaxRuns = 1
INVARIANT ImportComplete
CHECK_DEADLOCK FALSE
