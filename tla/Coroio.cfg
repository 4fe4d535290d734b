SPECIFICATION Spec
CONSTANTS
  MaxData = 1
  MaxChanges = 3
  Clients = {c1, c2}
  Requests = {a, b}
  XidMod = 3
  Main = m
  BufSize = 2
  Hello = 3
  Finished = 1
  Record = 3
  MaxBytes = 13
  MaxRecords = 5
INVARIANTS NoStrayResume NoWaiterForgotten AnswerIsForRequest NothingHeldBack WireInOrder
PROPERTY CallsReturn
CHECK_DEADLOCK FALSE
