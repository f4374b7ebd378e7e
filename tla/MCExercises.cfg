SPECIFICATION Spec
CONSTANTS
  c1 = c1
  c2 = c2
  t1 = t1
  t2 = t2
  CR = CR
  LF = LF
  Letter = Letter
  AddressLists <- MCAddressLists
  Clients <- MCClients
  Files <- MCFiles
  MAX_FILE_LENGTH = 12
  MAX_INT_LENGTH = 3
  MAXDATASIZE = 15
  ProcLimits <- MCProcLimits
  MaxFaults = 2
  Talkers <- MCTalkers
  Arguments <- MCArguments
  MAXBUFLEN = 4
  MaxRepeats = 1
  GENERATOR_LENGTH = 4
  INT_BITS = 15
  LONG_BITS = 16
  Generators <- MCGenerators
  Messages <- MCMessages
  SHORT_BITS = 4
  LOOKUP_LENGTH = 2
  WORD = 65536
  Lines <- MCLines
  Streams <- MCStreams
INVARIANTS
  FirstUsable
  NoZombieForgotten
  PrintsLengthAndStart
  ShowsOneMessage
  Dividing
  DetectsErrors
  TableAgrees
  RightButForTheCarry
PROPERTIES
  StreamClientsEnd
  TakesLines
CHECK_DEADLOCK FALSE
