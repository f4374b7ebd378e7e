-------------------------- MODULE MCTransferRestart --------------------------
(* TransferRestart for TLC, with the constants of MCTransfer. *)
EXTENDS TransferRestart, MCTransfer
=============================================================================
