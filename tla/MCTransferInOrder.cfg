SPECIFICATION RestartSpec
CONSTANTS
  sender = sender
  NoPeer = NoPeer
  MMSBYTES = 10
  FileLen = 91
  Wrap = 256
  MaxNotAcked = 4
  InitSsthresh = 30
  MaxStrayDrops = 1
  Fifo = TRUE
  MaxFaults = 0
  MaxEarly = 0
  Overruns <- MCEitherOverrun
  Uninitialised <- MCUninitialised
  Peers <- MCPeers
  LossPatterns <- MCNoPattern
INVARIANTS
  SavedBytesAreExpected
  CountsInFlight
