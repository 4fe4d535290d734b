CONSTANTS
  Objects = {a, b}
  MaxFd = 2
  MaxBytes = 2
  Lens = {1, 2}
  Reuse = FALSE
SPECIFICATION Spec
PROPERTY OthersUntouched
CHECK_DEADLOCK FALSE
