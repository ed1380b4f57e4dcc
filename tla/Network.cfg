CONSTANTS
  MaxWire = 2
  MaxEvents = 2
SPECIFICATION Spec
CHECK_DEADLOCK FALSE
INVARIANTS
  AckIsSeen
  DisplayIsTrue
  SuccessIsConfirmed
  SubscribedIsHandled
  ConstructedWhenReported
