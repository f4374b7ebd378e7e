SPECIFICATION Spec
CONSTANTS
  p1 = p1
  p2 = p2
  NoPeer = NoPeer
  LossFiles <- MCLossFiles
  SeqNums <- MCSeqNums
  EstimatedRTT0 = 9
  DevRTT0 = 2
  WORD = 256
  MaxTime = 24
  Steps <- MCSteps
  Clocks <- MCClocks
  MaxSends = 3
  Processes <- MCProcesses
  LOCAL_PORT = 5050
  Ports <- MCPorts
  MaxStrayDrops = 1
  MMSBYTES = 3
  FileLen = 5
  Wrap = 32
  Base <- MCBase
  Peers <- MCProcesses
  LossPatterns <- MCLossPatterns
INVARIANTS
  AsWritten
  
  FailsCleanly
  
  AnswersOwnerOfFirstByte
PROPERTIES
  LoadingEnds
  HopelessEnds
CHECK_DEADLOCK FALSE
