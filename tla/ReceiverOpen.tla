---------------------------- MODULE ReceiverOpen ----------------------------
(***************************************************************************)
(* ReceiverStateMachine on its own, fed by a network that may lose, delay, *)
(* repeat and reorder the packets of a file, but by senders that label     *)
(* every segment with the offset of its first byte.  The senders need not  *)
(* cut the file at the same offsets.  (Transfer connects the receiver to   *)
(* the sender this repository has, which does not always label correctly.) *)
(***************************************************************************)
EXTENDS Receiver

HonestPackets == {Segment(pos, pos) : pos \in 0 .. FileLen}

Next ==
  \/ \E p \in HonestPackets, src \in Peers : ReceivePacket(p, src)
  \/ DropPacket
  \/ ReceiveError

Spec == ReceiverInit /\ [][Next]_receiverVars

-----------------------------------------------------------------------------
Early == [data : Nat, len : 0 .. MMSBYTES, fin : BOOLEAN]

(* The type invariant of the fields of ReceiverStateMachine: a map from
   sequence numbers to early segments, counters that never go negative.    *)
TypeOK ==
  /\ ackedPosition_ \in Nat
  /\ fin_ \in BOOLEAN
  /\ recvData_ \in Seq(Nat)
  /\ DOMAIN buffer_ \subseteq 0 .. Wrap - 1
  /\ buffer_ \in [DOMAIN buffer_ -> Early]
  /\ loss \in LossPatterns
  /\ RSN_ \in Nat
  /\ specificPosition_ \in Nat
  /\ sourceAddress_ \in Peers \cup {NoPeer}

(* saveData(), processPacket() and checkEarlyData() advance recvData_ and
   ackedPosition_ separately: the count always is the number of bytes saved
   and the bytes are those of the file, in order and without a hole.       *)
InOrder ==
  /\ Len(recvData_) = ackedPosition_
  /\ \A i \in 1 .. ackedPosition_ : recvData_[i] = i - 1

(* receive() returns only with the whole file: the FIN of an early segment
   is remembered with the segment and takes effect when it is consumed.    *)
Complete == fin_ => ackedPosition_ = FileLen

(* checkEarlyData() leaves no segment behind that is already due: otherwise
   the bytes would wait for a retransmission of data the receiver has.     *)
NothingDueIsBuffered == ackedPosition_ + 1 \notin DOMAIN buffer_

(* sourceAddress_ is overwritten by every packet and every failed recvFrom()
   until bytes are accepted, and never again: what it is left with then must
   be a sender's address, or no acknowledgement would ever reach one.      *)
ReplyAddressKnown == ackedPosition_ > 0 => sourceAddress_ \in Peers

(* The receiver implements the stream it promises its caller. *)
Stream == INSTANCE FileStream WITH delivered <- recvData_, closed <- fin_
DeliversFileStream == Stream!Spec
=============================================================================
