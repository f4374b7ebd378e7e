----------------------------- MODULE FileStream -----------------------------
(***************************************************************************)
(* What the receiver promises its caller (MP2/receiver.cpp prints what     *)
(* receive() returns): the bytes delivered are always a prefix of the      *)
(* file, in order and without holes, they only ever grow, and receive()    *)
(* returns exactly when the whole file is there.  Bytes are identified     *)
(* with their file offsets, as in Packet.                                  *)
(***************************************************************************)
EXTENDS Integers, Sequences

CONSTANT FileLen
VARIABLES delivered, closed

Prefix(n) == [i \in 1 .. n |-> i - 1]

Init == delivered = <<>> /\ closed = FALSE

Deliver ==
  /\ ~closed
  /\ \E n \in Len(delivered) .. FileLen :
       /\ delivered' = Prefix(n)
       /\ closed' \in {FALSE, n = FileLen}

Spec == Init /\ [][Deliver]_<<delivered, closed>>
=============================================================================
