SPECIFICATION Spec
CONSTANTS
  sender = sender
  NoPeer = NoPeer
  MMSBYTES = 3
  FileLen = 43
  Wrap = 128
  MaxNotAcked = 8
  InitSsthresh = 15
  MaxStrayDrops = 1
  Fifo = TRUE
  MaxFaults = 0
  MaxEarly = 0
  Overruns <- MCCompensated
  Uninitialised <- MCUninitialised
  Peers <- MCPeers
  LossPatterns <- MCSixth
INVARIANTS
  NotAckedIsACount
