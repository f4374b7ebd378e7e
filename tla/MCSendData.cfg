SPECIFICATION Spec
CONSTANTS
  MMSBYTES = 3
  FileLen = 10
  Wrap = 32
  MaxNotAcked = 4
  InitSsthresh = 9
  MaxCwnd = 7
  Overruns <- MCOverruns
  Uninitialised <- MCUninitialised
PROPERTY SendDataReturnsBytesSent
CHECK_DEADLOCK FALSE
