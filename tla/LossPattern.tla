---------------------------- MODULE LossPattern ----------------------------
(***************************************************************************)
(* The loss patterns that openLossPatern() produces                        *)
(* (MP2/receiver_state_machine.cpp) from the file the receiver is given.   *)
(***************************************************************************)
EXTENDS Integers, Sequences

NoLoss == [kind |-> "none", lossPeriod_ |-> 0, specificPackets_ |-> <<>>]
PeriodicLoss(n) == [kind |-> "periodic", lossPeriod_ |-> n, specificPackets_ |-> <<>>]
SpecificLoss(s) == [kind |-> "specific", lossPeriod_ |-> 0, specificPackets_ |-> s]

(* "losing every packet is not allowed": a period is at least 2; and a list
   of packets to drop is not empty.                                        *)
IsLossPattern(l) ==
  \/ l = NoLoss
  \/ l = PeriodicLoss(l.lossPeriod_) /\ l.lossPeriod_ \in Nat \ {0, 1}
  \/ /\ l = SpecificLoss(l.specificPackets_)
     /\ l.specificPackets_ \in Seq(Nat \ {0}) \ {<<>>}
=============================================================================
