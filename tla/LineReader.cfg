SPECIFICATION Spec
CONSTANTS
  recv_bufsz = 4
  MaxLines = 3
INVARIANTS
  TypeOK
  CalmLinesAreSent
  DamageIsLocal
CHECK_DEADLOCK FALSE
