SPECIFICATION Spec
CONSTANTS
  p1 = p1
  p2 = p2
  NoPeer = NoPeer
  MaxStrayDrops = 1
  MMSBYTES = 3
  FileLen = 7
  Wrap = 32
  Peers <- MCPeers
  LossPatterns <- MCLossPatterns
INVARIANTS
  TypeOK
  InOrder
  Complete
  NothingDueIsBuffered
  ReplyAddressKnown
PROPERTY DeliversFileStream
CHECK_DEADLOCK FALSE
