----------------------------- MODULE MCTransfer -----------------------------
(* Transfer for TLC: one sender, and the loss patterns the runs choose from. *)
EXTENDS Transfer, LossPattern

CONSTANT sender

MCPeers == {sender}
MCNoPattern == {NoLoss}
MCSecond == {SpecificLoss(<<2>>)}
MCSixth == {SpecificLoss(<<6>>)}
MCAllPatterns ==
  {NoLoss, PeriodicLoss(2), PeriodicLoss(3),
   SpecificLoss(<<2>>), SpecificLoss(<<2, 3>>), SpecificLoss(<<3, 5, 6>>)}

MCCompensated == {2}        \* the overrun that the -2 in sendData() undoes
MCEitherOverrun == {0, 2}   \* those seen in builds of the code
MCUninitialised == {0}
=============================================================================
