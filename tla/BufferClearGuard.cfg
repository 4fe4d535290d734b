CONSTANTS
  BufMax = 3
  DecMax = 2
  Sizes = {0, 1, 2, 5}
  MaxControl = 4
  Faults = {}
  UserClears = TRUE
SPECIFICATION Spec
INVARIANT ClearingIsHarmless
