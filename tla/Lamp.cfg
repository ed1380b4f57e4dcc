SPECIFICATION Spec
CONSTANTS
  Full = 2
  Span = 1
  MaxSpeed = 1
  MaxOrders = 2
INVARIANTS
  CommandKept
  LightIsShown
PROPERTIES
  LightSettles
