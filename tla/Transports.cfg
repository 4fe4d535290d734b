SPECIFICATION Spec
CONSTANTS
  Objects = {a, b}
  MaxFd = 2
  Lens = {1, 2}
  TcpBytes = 2
  TlsBytes = 1
  AsioBytes = 2
INVARIANTS OneOwner ConnectedIsReal NothingLostSilently
PROPERTIES ReportsAreTrue CallsReturn
CHECK_DEADLOCK FALSE
