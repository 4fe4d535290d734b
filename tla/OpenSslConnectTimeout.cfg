CONSTANTS
  Objects = {a}
  MaxBytes = 1
  PreConnected = FALSE
SPECIFICATION Spec
INVARIANT ConnectedMeansHandshaken
CHECK_DEADLOCK FALSE
