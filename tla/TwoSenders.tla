----------------------------- MODULE TwoSenders -----------------------------
(***************************************************************************)
(* ReceiverStateMachine while several senders use its port at once, each   *)
(* with a file of its own.  receivePacket() does not look at where a       *)
(* packet is from, except to know where to answer.                         *)
(*                                                                         *)
(* A byte is a number that tells its file and its place in it.             *)
(***************************************************************************)
EXTENDS Receiver

CONSTANT Base  \* the number of the first byte of each sender's file

ASSUME TwoSendersAssumption ==
  /\ Base \in [Peers -> Nat]
  /\ \A p, q \in Peers : p # q => Base[p] + FileLen <= Base[q] \/ Base[q] + FileLen <= Base[p]

PacketOf(src, pos) == [Segment(pos, pos) EXCEPT !.data = @ + Base[src]]

SendersNext ==
  \/ \E src \in Peers, pos \in 0 .. FileLen : ReceivePacket(PacketOf(src, pos), src)
  \/ DropPacket
  \/ ReceiveError

SendersSpec == ReceiverInit /\ [][SendersNext]_receiverVars

-----------------------------------------------------------------------------
(* The bytes of different files are joined into one, but each is in its place
   in its own file: early segments of one sender fit behind those of another. *)
InPlace ==
  /\ Len(recvData_) = ackedPosition_ /\ ackedPosition_ <= FileLen
  /\ \A i \in 1 .. ackedPosition_ : \E src \in Peers : recvData_[i] = Base[src] + i - 1

(* Every answer goes to the one sender whose packet came first of those that
   were accepted, also the answers to the others, and the last one.        *)
AnswersOwnerOfFirstByte ==
  ackedPosition_ > 0 => sourceAddress_ \in Peers /\ recvData_[1] = Base[sourceAddress_]
=============================================================================
