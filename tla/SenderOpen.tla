----------------------------- MODULE SenderOpen -----------------------------
(***************************************************************************)
(* SenderStateMachine on its own: any acknowledgement a receiver of the    *)
(* file could send may arrive at any time, any number of times, and any    *)
(* wait may end in a timeout.  What holds here of the congestion window    *)
(* holds whatever the network and the receiver do.                         *)
(***************************************************************************)
EXTENDS Sender

CONSTANT MaxCwnd    \* bound: no acknowledgement arrives at a larger window

PossibleAcks == [ack_num : 1 .. FileLen + 1, FIN : BOOLEAN]

AckArrives ==
  /\ cwnd_ < MaxCwnd
  /\ \E a \in PossibleAcks :
       \/ HandleAck(a)
       \/ FastRetransmit(a)
       \/ FastRetransmitTooShort(a)
       \/ FastRetransmitFails(a)

Next == SendNext \/ SendNextFails \/ AckArrives \/ Timeout

Spec == SenderInit /\ [][Next]_senderVars

-----------------------------------------------------------------------------
TypeOK ==
  /\ cwnd_ \in Nat
  /\ notAcked_ \in Int
  /\ ssthresh_ \in Nat
  /\ dupAckCount_ \in Nat
  /\ ackedPosition_ \in 1 .. FileLen + 1
  /\ filePosition_ \in 0 .. Wrap - 1
  /\ caAckCount_ \in Int
  /\ state_ \in {"SLOW_START", "CONGESTION_AVOIDANCE", "FAST_RECOVERY"}
  /\ message_ \in Nat \cup {Failed}
  /\ overrun \in Overruns
  /\ result \in {"running", "true", "false"}

(* dupAckCount_ is compared with 3 for equality in two of the three states:
   every way into and out of FAST_RECOVERY has to keep the count and the
   state in step, or a third duplicate would never be recognised.          *)
ThreeDupAcksMeanFastRecovery == state_ = "FAST_RECOVERY" <=> dupAckCount_ >= 3

(* In FAST_RECOVERY each duplicate, the first three included, has inflated
   the window by exactly one packet over the new threshold.                *)
InflatedWindow ==
  state_ = "FAST_RECOVERY" => cwnd_ = ssthresh_ \div MMSBYTES + dupAckCount_

(* cwnd_ grows in CONGESTION_AVOIDANCE when caAckCount_ *equals* it: a count
   that ever got past the window would stop the growth for good.  The one
   window that can never be reached is 0, and only a fast retransmit from a
   window of one packet leads to it.                                       *)
CongestionAvoidanceGrows ==
  state_ = "CONGESTION_AVOIDANCE" =>
    \/ 0 <= caAckCount_ /\ caAckCount_ < cwnd_
    \/ cwnd_ = 0 /\ ssthresh_ = 0

(* Slow start ends in time: a window over one packet is below ssthresh_. *)
SlowStartBelowThreshold ==
  state_ = "SLOW_START" /\ cwnd_ > 1 => cwnd_ * MMSBYTES < ssthresh_

(* Label and content of the next segment agree ... *)
Aligned == result = "running" /\ message_ # Failed => filePosition_ = message_

(* ... and on a build whose strlen() overrun is the two bytes that sendData()
   subtracts, the one thing that separates them is newAck() moving the
   stream over bytes that a timeout had rewound it to.  The end of the file,
   send errors, timeouts and fast retransmissions do not.                  *)
OnlyNewAckMislabels ==
  [][Aligned /\ ~Aligned' =>
       0 < message_ /\ message_ < ackedPosition_' - 1 /\ ackedPosition_ # ackedPosition_']_senderVars

(* sender_state_machine.h:57-61: sendData() "returns number of bytes sent",
   and transmit() advances filePosition_ by what it returns.               *)
SendDataReturnsBytesSent ==
  [][SendNext => filePosition_' = U32(filePosition_ + GCount(message_))]_senderVars
=============================================================================
