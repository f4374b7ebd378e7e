SPECIFICATION Spec
CONSTANTS
  sender = sender
  NoPeer = NoPeer
  MMSBYTES = 3
  FileLen = 13
  Wrap = 64
  MaxNotAcked = 3
  InitSsthresh = 9
  MaxStrayDrops = 1
  Fifo = TRUE
  MaxFaults = 0
  MaxEarly = 0
  Overruns <- MCCompensated
  Uninitialised <- MCUninitialised
  Peers <- MCPeers
  LossPatterns <- MCSecond
INVARIANTS
  SavedBytesAreExpected
