SPECIFICATION FairSpec
CONSTANTS
  c1 = c1
  c2 = c2
  f = f
  Clients <- MCClients
  Names <- MCNames
  NoGet = NoGet
  Block = 3
  MaxFaults = 1
  FileSizes <- MCFileSizes
  Limits <- MCLimits
INVARIANTS
  TypeOK
  Framed
  
  NoCrash
 
CHECK_DEADLOCK FALSE
