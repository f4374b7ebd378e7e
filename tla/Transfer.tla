------------------------------ MODULE Transfer ------------------------------
(***************************************************************************)
(* One file transfer: SenderStateMachine and ReceiverStateMachine joined   *)
(* by UDP.  Each direction is a sequence of packets under way.  UDP may    *)
(* lose, repeat and (unless Fifo) reorder them, and answers may come later *)
(* than the sender's 100 ms; a budget bounds how often.  The loss that the *)
(* receiver simulates itself is not bounded.                               *)
(***************************************************************************)
EXTENDS Sender, Sequences, SequencesExt

CONSTANTS
  LossPatterns, MaxStrayDrops, Peers, NoPeer,   \* see Receiver
  Fifo,          \* the network keeps the order
  MaxFaults,     \* bound: packets lost or repeated, failing calls
  MaxEarly       \* bound: timeouts while something is still under way

VARIABLES
  rAckedPosition_, fin_, recvData_, buffer_, loss, RSN_, specificPosition_,
  sourceAddress_,        \* the receiver's, see Receiver
  dataNet, ackNet,       \* packets under way
  faults, early,         \* how much of the two budgets is used
  overtaken              \* history: newAck() has moved the stream forward

R == INSTANCE Receiver WITH ackedPosition_ <- rAckedPosition_

ASSUME TransferAssumption ==
  /\ Fifo \in BOOLEAN /\ MaxFaults \in Nat /\ MaxEarly \in Nat
  /\ \A l \in LossPatterns : R!IsLossPattern(l)
  /\ MaxStrayDrops \in Nat /\ NoPeer \notin Peers

receiverVars == <<rAckedPosition_, fin_, recvData_, buffer_, loss, RSN_,
                  specificPosition_, sourceAddress_>>
netVars == <<dataNet, ackNet>>
budgetVars == <<faults, early>>
vars == <<senderVars, receiverVars, netVars, budgetVars, overtaken>>

Init ==
  /\ SenderInit
  /\ R!ReceiverInit
  /\ dataNet = <<>> /\ ackNet = <<>>
  /\ faults = 0 /\ early = 0
  /\ overtaken = FALSE

(* Which of the packets under way may arrive next. *)
Arriving(net) == IF Fifo /\ net # <<>> THEN {1} ELSE DOMAIN net

(* Something fails that the budget allows for. *)
OneFault == faults < MaxFaults /\ faults' = faults + 1

-----------------------------------------------------------------------------
(* The sender's steps *)

SendFile ==
  /\ \/ SendNext /\ dataNet' = Append(dataNet, NextSegment) /\ UNCHANGED faults
     \/ SendNextFails /\ OneFault /\ UNCHANGED dataNet
  /\ UNCHANGED <<receiverVars, ackNet, early, overtaken>>

TakeAck(i) ==
  LET a == ackNet[i]
  IN  /\ ackNet' = RemoveAt(ackNet, i)
      /\ \/ HandleAck(a) /\ UNCHANGED <<dataNet, faults>>
         \/ /\ FastRetransmit(a) \/ FastRetransmitTooShort(a)
            /\ dataNet' = Append(dataNet, Retransmission) /\ UNCHANGED faults
         \/ FastRetransmitFails(a) /\ OneFault /\ UNCHANGED dataNet
      /\ overtaken' = (overtaken \/ (ackedPosition_' # ackedPosition_
                                       /\ SeekedByNewAck(a) /\ message_ # a.ack_num - 1))
      /\ UNCHANGED <<receiverVars, early>>

NothingUnderWay == dataNet = <<>> /\ ackNet = <<>>

SenderTimeout ==
  /\ Timeout
  /\ IF NothingUnderWay THEN UNCHANGED early
     ELSE early < MaxEarly /\ early' = early + 1
  /\ UNCHANGED <<receiverVars, netVars, faults, overtaken>>

-----------------------------------------------------------------------------
(* The receiver's steps: the packet is answered, dropped on purpose, or
   finds that the receiver has returned and its socket is gone.            *)

TakeData(i) ==
  LET p == dataNet[i]
  IN  /\ dataNet' = RemoveAt(dataNet, i)
      /\ \/ /\ \E src \in Peers : R!ReceivePacket(p, src)
            /\ ackNet' = Append(ackNet, R!sendAck')
         \/ R!DropPacket /\ UNCHANGED ackNet
         \/ fin_ /\ UNCHANGED <<receiverVars, ackNet>>
      /\ UNCHANGED <<senderVars, budgetVars, overtaken>>

-----------------------------------------------------------------------------
(* What goes wrong outside the two programs: a packet is lost or repeated,
   the receiver's recvfrom() fails (which may be dropped like a packet). *)

Fault ==
  /\ OneFault
  /\ \/ \E i \in DOMAIN dataNet :
          /\ dataNet' \in {RemoveAt(dataNet, i), Append(dataNet, dataNet[i])}
          /\ UNCHANGED <<receiverVars, ackNet>>
     \/ \E i \in DOMAIN ackNet :
          /\ ackNet' \in {RemoveAt(ackNet, i), Append(ackNet, ackNet[i])}
          /\ UNCHANGED <<receiverVars, dataNet>>
     \/ (R!ReceiveError \/ R!DropPacket) /\ UNCHANGED netVars
  /\ UNCHANGED <<senderVars, early, overtaken>>

(* transmit() has returned and nothing is on its way to the receiver. *)
Finished == result # "running" /\ dataNet = <<>> /\ UNCHANGED vars

AnyAck == \E i \in Arriving(ackNet) : TakeAck(i)
AnyData == \E i \in Arriving(dataNet) : TakeData(i)

Next == SendFile \/ AnyAck \/ SenderTimeout \/ AnyData \/ Fault \/ Finished

Spec == Init /\ [][Next]_vars

(* Both programs keep running, and a datagram that is not lost arrives. *)
FairSpec ==
  Spec /\ WF_vars(SendFile) /\ WF_vars(AnyAck) /\ WF_vars(AnyData) /\ WF_vars(SenderTimeout)

-----------------------------------------------------------------------------
(* The sender never believes more received than the receiver has, and no
   acknowledgement under way, however old or often repeated, says so.      *)
AckSound ==
  /\ ackedPosition_ <= rAckedPosition_ + 1
  /\ \A i \in DOMAIN ackNet : /\ ackNet[i].ack_num <= rAckedPosition_ + 1
                              /\ ackNet[i].FIN => fin_

(* The bytes the receiver has are the first n of the file. *)
Delivered(n) ==
  Len(recvData_) = n /\ \A i \in 1 .. n : recvData_[i] = i - 1

(* transmit() reports success only when the receiver has returned; and
   whatever the network, the loss pattern, timeouts and retransmissions do,
   what it returns is the file -- unless newAck() has moved the stream.     *)
SuccessMeansDelivered ==
  /\ result = "true" => fin_
  /\ ~overtaken => Delivered(rAckedPosition_) /\ (fin_ => rAckedPosition_ = FileLen)

(* receiver_state_machine.cpp:148-151 saves "the next packet we expected":
   its bytes are the next bytes of the file.                               *)
SavedBytesAreExpected == Delivered(rAckedPosition_)

(* sender_state_machine.h:27 calls notAcked_ the "number of sent messages and
   not acked".  With order kept, nothing lost and answers in time it is.   *)
CountsInFlight ==
  overrun = 2 /\ result = "running" => notAcked_ = Len(dataNet) + Len(ackNet)

(* A number of messages is not negative. *)
NotAckedIsACount == notAcked_ >= 0

(* retransmissions and timeouts get the whole stream to the receiver, unless
   the sender gives up.  (The sender may still wait for ever: the one
   acknowledgement with FIN is not repeated once the receiver has returned.) *)
ReceiverCompletes == <>(fin_ \/ result = "false")

(* With the losses that the receiver simulates, and no others, no pattern
   brings the two into a cycle: the transfer ends and the sender is told.  *)
TransferCompletes == <>(result = "true" /\ fin_)
=============================================================================
