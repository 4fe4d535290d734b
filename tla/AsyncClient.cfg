CONSTANTS
  BufMax = 2
  DecMax = 2
  Sizes = {0, 2}
  MaxControl = 2
  Faults = {"handshake", "close"}
  UserClears = FALSE
SPECIFICATION Spec
INVARIANTS ReaderIntegrity WireWellFormed
PROPERTIES NoCallAfterShutdown
