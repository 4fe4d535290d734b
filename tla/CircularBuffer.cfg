CONSTANTS
  Capacity = 4
  Byte = {a, b}
  MinLen = 1
SPECIFICATION RingSpec
INVARIANTS RingTypeOK SpansAreSafe
PROPERTY ImplementsFifo
