CONSTANTS
  MaxControls = 1
  MaxPending = 2
  MaxMsgs = 1
SPECIFICATION Spec
CHECK_DEADLOCK FALSE
PROPERTY
  SyncReturns
