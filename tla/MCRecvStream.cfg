SPECIFICATION Spec
CONSTANTS
  c1 = c1
  c2 = c2
  f = f
  Clients <- MCClients
  Names <- MCNames
  NoGet = NoGet
  Block = 3
  MaxFaults = 1
  FileSizes <- MCFileSizes
  Limits <- MCLimits
INVARIANT ReceivesEntireStream
CHECK_DEADLOCK FALSE
