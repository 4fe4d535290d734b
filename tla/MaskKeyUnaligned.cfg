SPECIFICATION Spec
CONSTANTS
  Aligns = {8, 16}
  Addrs = {0, 1, 2, 3, 4, 5, 6, 7, 8, 9, 10, 11, 12, 13, 14, 15}
  MaxLen = 37
  MaxCalls = 1
INVARIANTS
  MaskedWithKey
