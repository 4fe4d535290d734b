CONSTANTS
  Capacity = 4
  MinLen = 1
  StreamLen = 12
  Byte = {0, 1, 2, 3, 4, 5, 6, 7, 8, 9, 10, 11, 12}
  DelimLen = 3
  DelimAt = {1, 2, 3, 4, 6, 7}
  MaxSize = 9
  ReadSizes = {1, 2, 5}
SPECIFICATION Spec
INVARIANT PushBackFits
CHECK_DEADLOCK FALSE
