CONSTANTS
  Guests = {g1, g2}
  Serial = TRUE
  Keys = {k1, k2}
  Values = {v1}
  Children = {2, 3}
  PipeSize = 2
  Timeout = 1
  MaxResponse = 1
  MaxReceipts = 3
  None = None
  MaxCalls = 4
  MaxCrashes = 1
SPECIFICATION Spec
CHECK_DEADLOCK FALSE
INVARIANT ReceiptsVerify
