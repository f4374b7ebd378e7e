------------------------------- MODULE Sender -------------------------------
(***************************************************************************)
(* SenderStateMachine (MP2/sender_state_machine.cpp): one thread that      *)
(* alternates between filling the congestion window from the file and      *)
(* waiting for one acknowledgement or a timeout.                           *)
(*                                                                         *)
(* transmit() has no state of its own beyond the fields: while CanSend     *)
(* holds it sends, and as soon as it does not it receives.  A send is one  *)
(* action and so is everything done about one acknowledgement.             *)
(***************************************************************************)
EXTENDS Packet

CONSTANTS
  MaxNotAcked,    \* maxNotAcked_ (25)
  InitSsthresh,   \* initial ssthresh_ (1000 bytes)
  Overruns,       \* what strlen() may count past a full packet_data
  Uninitialised   \* values caAckCount_ may have before it is assigned

ASSUME SenderAssumption ==
  /\ MaxNotAcked \in Nat \ {0}
  /\ InitSsthresh \in Nat
  /\ Overruns \subseteq Nat /\ \A o \in Overruns : o <= MMSBYTES
  /\ Uninitialised \subseteq Int

VARIABLES
  cwnd_,          \* congestion window, in packets
  notAcked_,      \* the sender's count of packets in flight
  ssthresh_,      \* slow start threshold, in bytes
  dupAckCount_,
  ackedPosition_, \* last ack_num: the next byte the receiver wants, from 1
  filePosition_,  \* uint32_t: label of the next segment, minus 1
  caAckCount_,    \* acks since cwnd_ last grew in congestion avoidance
  state_,
  message_,       \* read position of the file stream; Failed after a short read
  overrun,        \* bytes strlen() counts past a full packet_data, see below
  result          \* "running", or what transmit() returned

windowVars == <<cwnd_, ssthresh_, caAckCount_, state_>>
streamVars == <<filePosition_, message_>>
senderVars == <<windowVars, streamVars, notAcked_, dupAckCount_,
                ackedPosition_, overrun, result>>

Failed == -1

SenderInit ==
  /\ cwnd_ = 1
  /\ notAcked_ = 0
  /\ ssthresh_ = InitSsthresh
  /\ dupAckCount_ = 0
  /\ ackedPosition_ = 1
  /\ filePosition_ = 0
  /\ caAckCount_ \in Uninitialised
  /\ state_ = "SLOW_START"
  /\ message_ = 0
  /\ overrun \in Overruns
  /\ result = "running"

-----------------------------------------------------------------------------
(* Sending *)

(* sendData() returns strlen(packet_data) - 2.  A full packet_data has no
   room for a NUL, so strlen() runs on into the stack: by how much is fixed
   for a process but not by the program.  A short one ends at its own NUL.  *)
BytesSentUncorrected(pos) ==
  IF FullRead(pos) THEN MMSBYTES + overrun ELSE GCount(pos)
BytesSent(pos) ==
  IF FullRead(pos) THEN MMSBYTES + overrun - 2 ELSE GCount(pos) - 2

AfterReadSkipsByte(pos) == IF FullRead(pos) THEN pos + MMSBYTES + 1 ELSE Failed
AfterRead(pos) == IF FullRead(pos) THEN pos + MMSBYTES ELSE Failed

CanSend ==
  /\ result = "running"
  /\ message_ # Failed
  /\ notAcked_ < cwnd_
  /\ notAcked_ < MaxNotAcked

Waiting == result = "running" /\ ~CanSend

(* The packet the send loop builds next. *)
NextSegment == Segment(filePosition_, message_)

SendNextCountsFullOnly ==
  /\ CanSend
  /\ filePosition_' = U32(filePosition_ + BytesSent(message_))
  /\ message_' = AfterRead(message_)
  /\ notAcked_' = IF FullRead(message_) THEN notAcked_ + 1 ELSE notAcked_
  /\ UNCHANGED <<windowVars, dupAckCount_, ackedPosition_, overrun, result>>
SendNext ==
  /\ CanSend
  /\ filePosition_' = U32(filePosition_ + BytesSent(message_))
  /\ message_' = AfterRead(message_)
  /\ notAcked_' = notAcked_ + 1
  /\ UNCHANGED <<windowVars, dupAckCount_, ackedPosition_, overrun, result>>

(* sendTo() throws.  transmit() gives up if the read was full; if it was
   short it carries on, adding the error code to filePosition_.            *)
SendNextFails ==
  /\ CanSend
  /\ message_' = AfterRead(message_)
  /\ IF FullRead(message_)
     THEN result' = "false" /\ UNCHANGED filePosition_
     ELSE filePosition_' = U32(filePosition_ - 1) /\ UNCHANGED result
  /\ UNCHANGED <<windowVars, notAcked_, dupAckCount_, ackedPosition_, overrun>>

-----------------------------------------------------------------------------
(* Acknowledgements: ssReceive(), caReceive() and frReceive().  They test
   finalAck, then dupAck, then newAck; a late, smaller ack_num is a dupAck. *)

FinalAck(a) ==
  /\ Waiting
  /\ a.FIN
  /\ result' = "true"
  /\ UNCHANGED <<windowVars, streamVars, notAcked_, dupAckCount_, ackedPosition_, overrun>>

DupAck(a) ==
  /\ Waiting
  /\ ~a.FIN /\ ackedPosition_ >= a.ack_num
  /\ dupAckCount_' = dupAckCount_ + 1
  /\ UNCHANGED <<ackedPosition_, overrun>>

FirstDupAcks(a) ==
  /\ state_ # "FAST_RECOVERY"
  /\ DupAck(a)
  /\ dupAckCount_' # 3
  /\ UNCHANGED <<windowVars, streamVars, notAcked_, result>>

(* The file offset of the first byte that is not acknowledged: where
   retransmitMissingSegment() and processTimeout() move the stream to.      *)
MissingByteOffByOne == ackedPosition_ - 2
MissingByte == ackedPosition_ - 1

(* The packet retransmitMissingSegment() sends, and what it leaves behind. *)
Retransmission == Segment(MissingByte, MissingByte)

(* It notes where the stream was (reopening a failed one at filePosition_)
   and goes back there; the seek has no effect after another short read,
   nor does one to a negative position.                                    *)
StartPosition == IF message_ = Failed THEN ToInt(filePosition_) ELSE message_
ResumeReading ==
  /\ message_' = IF FullRead(MissingByte) /\ StartPosition >= 0
                 THEN StartPosition ELSE Failed
  /\ filePosition_' = U32(StartPosition)

EnterFastRecoveryUninflated ==
  /\ ssthresh_' = (cwnd_ \div 2) * MMSBYTES
  /\ cwnd_' = cwnd_ \div 2
  /\ state_' = "FAST_RECOVERY"
  /\ UNCHANGED caAckCount_
EnterFastRecovery ==
  /\ ssthresh_' = (cwnd_ \div 2) * MMSBYTES
  /\ cwnd_' = cwnd_ \div 2 + 3
  /\ state_' = "FAST_RECOVERY"
  /\ UNCHANGED caAckCount_

(* The third duplicate: notAcked_ is set to the halved window, and the
   retransmission counted on top of it.                                    *)
FastRetransmit(a) ==
  /\ state_ # "FAST_RECOVERY"
  /\ DupAck(a)
  /\ dupAckCount_' = 3
  /\ EnterFastRecovery
  /\ notAcked_' = cwnd_ \div 2 + 1
  /\ ResumeReading
  /\ UNCHANGED result

GiveUpRetransmitting(a) ==
  /\ state_ # "FAST_RECOVERY"
  /\ DupAck(a)
  /\ dupAckCount_' = 3
  /\ EnterFastRecovery
  /\ filePosition_' = MissingByte
  /\ message_' = AfterRead(MissingByte)
  /\ result' = "false"

(* The packet is sent, but fewer than two bytes were read: retransmit's
   packet_data is not initialised, and when a NUL happens to follow them
   the negative strlen()-2 is taken for an error.                          *)
FastRetransmitTooShort(a) ==
  /\ GCount(MissingByte) < 2
  /\ GiveUpRetransmitting(a)
  /\ notAcked_' = cwnd_ \div 2 + 1

FastRetransmitFails(a) ==
  /\ GiveUpRetransmitting(a)
  /\ notAcked_' = cwnd_ \div 2

InflateWindow(a) ==
  /\ state_ = "FAST_RECOVERY"
  /\ DupAck(a)
  /\ cwnd_' = cwnd_ + 1
  /\ UNCHANGED <<streamVars, notAcked_, ssthresh_, caAckCount_, state_, result>>

(* newAck(): a stream that is behind the new ackedPosition_ (it was rewound
   by a timeout) is moved up to it; filePosition_ is not.                  *)
SeekedByNewAck(a) == message_ > 0 /\ message_ < a.ack_num

NewAckKeepsDupCount(a) ==
  /\ Waiting
  /\ ~a.FIN /\ ackedPosition_ < a.ack_num
  /\ ackedPosition_' = a.ack_num
  /\ message_' = IF SeekedByNewAck(a) THEN a.ack_num - 1 ELSE message_
  /\ UNCHANGED <<filePosition_, dupAckCount_, overrun, result>>
NewAck(a) ==
  /\ Waiting
  /\ ~a.FIN /\ ackedPosition_ < a.ack_num
  /\ ackedPosition_' = a.ack_num
  /\ message_' = IF SeekedByNewAck(a) THEN a.ack_num - 1 ELSE message_
  /\ dupAckCount_' = 0
  /\ UNCHANGED <<filePosition_, overrun, result>>

ThresholdPassed(cwnd) == cwnd * MMSBYTES > ssthresh_
ThresholdReached(cwnd) == cwnd * MMSBYTES >= ssthresh_

SlowStartAck(a) ==
  /\ state_ = "SLOW_START"
  /\ NewAck(a)
  /\ cwnd_' = cwnd_ + 1
  /\ IF ThresholdReached(cwnd_')
     THEN caAckCount_' = 0 /\ state_' = "CONGESTION_AVOIDANCE"
     ELSE UNCHANGED <<caAckCount_, state_>>
  /\ notAcked_' = notAcked_ - 1
  /\ UNCHANGED ssthresh_

WindowAckedLate == caAckCount_ = cwnd_
WindowAcked == caAckCount_ + 1 = cwnd_

CongestionAvoidanceAck(a) ==
  /\ state_ = "CONGESTION_AVOIDANCE"
  /\ NewAck(a)
  /\ IF WindowAcked
     THEN cwnd_' = cwnd_ + 1 /\ caAckCount_' = 0
     ELSE caAckCount_' = caAckCount_ + 1 /\ UNCHANGED cwnd_
  /\ notAcked_' = notAcked_ - 1
  /\ UNCHANGED <<ssthresh_, state_>>

(* Deflate: take off notAcked_ the full packets the ack covers. *)
FastRecoveryAck(a) ==
  /\ state_ = "FAST_RECOVERY"
  /\ NewAck(a)
  /\ cwnd_' = ssthresh_ \div MMSBYTES
  /\ caAckCount_' = 0
  /\ state_' = "CONGESTION_AVOIDANCE"
  /\ notAcked_' = notAcked_ - (a.ack_num - ackedPosition_) \div MMSBYTES
  /\ UNCHANGED ssthresh_

-----------------------------------------------------------------------------
(* processTimeout(): no acknowledgement for 100 ms.  The interval computed
   by updateRTT() never reaches the socket.                                *)
TimeoutKeepsCount ==
  /\ Waiting
  /\ ssthresh_' = (cwnd_ * MMSBYTES) \div 2
  /\ cwnd_' = 1
  /\ dupAckCount_' = 0
  /\ message_' = MissingByte
  /\ filePosition_' = MissingByte
  /\ state_' = "SLOW_START"
  /\ UNCHANGED <<ackedPosition_, notAcked_, caAckCount_, overrun, result>>
TimeoutKeepsLabel ==
  /\ Waiting
  /\ ssthresh_' = (cwnd_ * MMSBYTES) \div 2
  /\ cwnd_' = 1
  /\ dupAckCount_' = 0
  /\ message_' = MissingByte
  /\ notAcked_' = 0
  /\ state_' = "SLOW_START"
  /\ UNCHANGED <<filePosition_, ackedPosition_, caAckCount_, overrun, result>>
Timeout ==
  /\ Waiting
  /\ ssthresh_' = (cwnd_ * MMSBYTES) \div 2
  /\ cwnd_' = 1
  /\ dupAckCount_' = 0
  /\ message_' = MissingByte
  /\ filePosition_' = MissingByte
  /\ notAcked_' = 0
  /\ state_' = "SLOW_START"
  /\ UNCHANGED <<ackedPosition_, caAckCount_, overrun, result>>

(* Everything one acknowledgement can cause, but for what is sent. *)
HandleAck(a) ==
  \/ FinalAck(a)
  \/ FirstDupAcks(a)
  \/ InflateWindow(a)
  \/ SlowStartAck(a)
  \/ CongestionAvoidanceAck(a)
  \/ FastRecoveryAck(a)
=============================================================================
