CONSTANTS
  MaxNodes = 4
  Modulus = 8
SPECIFICATION Spec
CHECK_DEADLOCK FALSE
INVARIANTS
  CalmFifo
  CalmListIsSound
PROPERTY
  CalmIsDelivered
