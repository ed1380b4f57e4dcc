CONSTANTS
  MaxControls = 1
  MaxPending = 3
  MaxMsgs = 2
SPECIFICATION Spec
CHECK_DEADLOCK FALSE
INVARIANTS
  TypeOK
  WaitsForPending
  NoDanglingContext
  CallbackOnce
  RepliesMatchRequests
PROPERTIES
  RequestsEnd
  ControlIsApplied
