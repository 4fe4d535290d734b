CONSTANTS
  BufMax = 3
  DecMax = 2
  Sizes = {0, 1, 2, 5}
  MaxControl = 4
  Faults = {"handshake", "close"}
  UserClears = FALSE
SPECIFICATION FairSpec
INVARIANTS TypeOK MessageIntegrity NothingSkipped ReadStateInStep BuffersBounded WireWellFormed NoUseAfterShutdown
PROPERTIES SilentFailure CallsReturn
