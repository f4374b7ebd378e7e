------------------------------ MODULE MCSender ------------------------------
(* SenderOpen for TLC: a file of four segments, the last of one byte. *)
EXTENDS SenderOpen

MCOverruns == {2}
MCUninitialised == {-1, 5}
=============================================================================
