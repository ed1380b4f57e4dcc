CONSTANTS
  Byte = {b1, b2}
  NUL = NUL
  None = None
  Size = 4
SPECIFICATION Spec
INVARIANTS
  SizeImpliesArray
PROPERTIES
  ImplementsQueue
  PoppedSlotIsStable
  BytesAreConsumed
