----------------------------- MODULE MCReceiver -----------------------------
(* ReceiverOpen for TLC: a small file, three ways of losing packets. *)
EXTENDS ReceiverOpen

CONSTANTS p1, p2

MCPeers == {p1, p2}
MCLossPatterns == {NoLoss, PeriodicLoss(2), SpecificLoss(<<2, 3>>)}
=============================================================================
