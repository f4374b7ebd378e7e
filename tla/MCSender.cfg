SPECIFICATION Spec
CONSTANTS
  MMSBYTES = 3
  FileLen = 10
  Wrap = 32
  MaxNotAcked = 4
  InitSsthresh = 9
  MaxCwnd = 7
  Overruns <- MCOverruns
  Uninitialised <- MCUninitialised
INVARIANTS
  TypeOK
  ThreeDupAcksMeanFastRecovery
  InflatedWindow
  CongestionAvoidanceGrows
  SlowStartBelowThreshold
PROPERTY OnlyNewAckMislabels
CHECK_DEADLOCK FALSE
