CONSTANTS
  flash_count = 1
  LEDS = 4
  WORD = 16
  Requests = {0, 14, 20, 46}
SPECIFICATION StripSpec
INVARIANTS
  PixelsInStrip
  OffIsDark
PROPERTIES
  ServiceReturns
CHECK_DEADLOCK FALSE
