SPECIFICATION FairRestartSpec
CONSTANTS
  sender = sender
  NoPeer = NoPeer
  MMSBYTES = 3
  FileLen = 13
  Wrap = 64
  MaxNotAcked = 3
  InitSsthresh = 9
  MaxStrayDrops = 1
  Fifo = FALSE
  MaxFaults = 1
  MaxEarly = 1
  Overruns <- MCCompensated
  Uninitialised <- MCUninitialised
  Peers <- MCPeers
  LossPatterns <- MCAllPatterns
INVARIANTS
  AckSound
  SuccessMeansDelivered
PROPERTIES
  ReceiverCompletes
