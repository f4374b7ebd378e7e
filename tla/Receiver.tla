------------------------------ MODULE Receiver ------------------------------
(***************************************************************************)
(* ReceiverStateMachine (MP2/receiver_state_machine.cpp): one thread that  *)
(* loops over recvFrom(), simulates loss, reassembles the file and answers *)
(* every packet it does not drop with a cumulative acknowledgement.        *)
(* Each action is one iteration of the loop in receive(); nothing outside  *)
(* the thread sees the states in between.                                  *)
(***************************************************************************)
EXTENDS Packet, LossPattern, Sequences, FiniteSetsExt

CONSTANTS
  LossPatterns,  \* what openLossPatern() may have loaded
  MaxStrayDrops, \* bound: drops decided by memory past specificPackets_
  Peers,         \* addresses packets come from
  NoPeer         \* sourceAddress_ before it is set

VARIABLES
  ackedPosition_,    \* bytes received in order
  fin_,              \* the final segment has been taken
  recvData_,         \* the bytes received in order
  buffer_,           \* early segments, by sequence number
  loss,              \* the loss pattern in force
  RSN_,              \* packets read from the socket so far (see NextRSN)
  specificPosition_, \* index into specificPackets_ of the next packet to drop
  sourceAddress_     \* where acknowledgements go

receiverVars == <<ackedPosition_, fin_, recvData_, buffer_, loss, RSN_,
                  specificPosition_, sourceAddress_>>

ASSUME ReceiverAssumption ==
  /\ \A l \in LossPatterns : IsLossPattern(l)
  /\ MaxStrayDrops \in Nat
  /\ NoPeer \notin Peers

ReceiverInit ==
  /\ ackedPosition_ = 0
  /\ fin_ = FALSE
  /\ recvData_ = <<>>
  /\ buffer_ = <<>>
  /\ loss \in LossPatterns
  /\ RSN_ = 0
  /\ specificPosition_ = 0
  /\ sourceAddress_ = NoPeer

-----------------------------------------------------------------------------
(* receivePacket(): counting packets and dropping some of them. *)

(* ++RSN_, kept finite.  A periodic pattern only asks whether RSN_ is 1 and
   for its residue modulo lossPeriod_ + 1, a list of packets whether RSN_ is
   one of them, and no other code reads it: values that give the same
   answers for ever are merged.                                            *)
NextRSN ==
  CASE loss.kind = "none" -> 0
    [] loss.kind = "periodic" ->
         IF RSN_ = 2 * (loss.lossPeriod_ + 1) THEN loss.lossPeriod_ + 2 ELSE RSN_ + 1
    [] loss.kind = "specific" ->
         IF RSN_ > Max(Range(loss.specificPackets_)) THEN RSN_ ELSE RSN_ + 1

Exhausted == specificPosition_ >= Len(loss.specificPackets_)

(* The packet being counted is one the pattern drops ... *)
MustDrop ==
  \/ loss.kind = "periodic" /\ (NextRSN = 1 \/ NextRSN % (loss.lossPeriod_ + 1) = 0)
  \/ loss.kind = "specific" /\ ~Exhausted
       /\ NextRSN = loss.specificPackets_[specificPosition_ + 1]

(* ... or may be: once every listed packet is dropped the code goes on
   reading specificPackets_[specificPosition_] past the vector's end, and
   whatever lies there may equal RSN_ now and then.                         *)
StrayDrop ==
  /\ loss.kind = "specific" /\ Exhausted
  /\ specificPosition_ < Len(loss.specificPackets_) + MaxStrayDrops

DropPacket ==
  /\ ~fin_
  /\ MustDrop \/ StrayDrop
  /\ RSN_' = NextRSN
  /\ specificPosition_' = IF loss.kind = "specific" THEN specificPosition_ + 1
                          ELSE specificPosition_
  /\ UNCHANGED <<ackedPosition_, fin_, recvData_, buffer_, loss, sourceAddress_>>

(* Where replies go: to whoever sent last, until bytes are accepted. *)
ReplyToLast(src) == src
ReplyTo(src) == IF ackedPosition_ = 0 THEN src ELSE sourceAddress_

(* A packet from src passes. *)
Accept(src) ==
  /\ ~fin_
  /\ ~MustDrop
  /\ RSN_' = NextRSN
  /\ sourceAddress_' = ReplyTo(src)
  /\ UNCHANGED <<loss, specificPosition_>>

(* recvfrom() failed: the error is counted, and may be "dropped", like a
   packet, but leaves source_address empty.                               *)
ReceiveError ==
  /\ Accept(NoPeer)
  /\ UNCHANGED <<ackedPosition_, fin_, recvData_, buffer_>>

-----------------------------------------------------------------------------
(* receive(): what is done with a packet that passed. *)

(* What storeEarlyData() keeps of a packet. *)
StoredAtFullLength(p) == [data |-> p.data, len |-> MMSBYTES, fin |-> p.FIN]
Stored(p) == [data |-> p.data, len |-> p.data_len, fin |-> p.FIN]

EarlyPacket(p) ==
  /\ p.seq_num > ackedPosition_ + 1
  /\ buffer_' = [k \in DOMAIN buffer_ \cup {p.seq_num} |->
                   IF k = p.seq_num THEN Stored(p) ELSE buffer_[k]]
  /\ UNCHANGED <<ackedPosition_, fin_, recvData_>>

OldPacket(p) ==
  /\ p.seq_num < ackedPosition_ + 1
  /\ UNCHANGED <<ackedPosition_, fin_, recvData_, buffer_>>

(* checkEarlyData(): starting from n bytes in order, the loop takes the
   segment at n+1, then the one that begins where it ends, and so on.  The
   keys it takes are the largest set in which every key but the one at n+1
   is where a smaller key of the set ends.                                *)
Linked(K, n) ==
  \A k \in K : k = n + 1 \/ \E j \in K : j < k /\ j + buffer_[j].len = k
EarlyKeysOnce(n) == {n + 1} \cap DOMAIN buffer_
EarlyKeys(n) == UNION {K \in SUBSET DOMAIN buffer_ : Linked(K, n)}
Ends(K, n) == {n} \cup {k + buffer_[k].len - 1 : k \in K}
Holder(K, i) == CHOOSE k \in K : k <= i /\ i < k + buffer_[k].len

NotTooLarge(p) == p.seq_num <= ackedPosition_ + 1
IsExpected(p) == p.seq_num = ackedPosition_ + 1

ExpectedPacket(p) ==
  LET n == ackedPosition_ + p.data_len     \* after processPacket()
      K == EarlyKeys(n)
  IN  /\ IsExpected(p)
      /\ ackedPosition_' \in Ends(K, n)
      /\ \A e \in Ends(K, n) : e <= ackedPosition_'
      /\ fin_' = (p.FIN \/ \E k \in K : buffer_[k].fin)
      /\ recvData_' = [i \in 1 .. ackedPosition_' |->
                         CASE i <= ackedPosition_ -> recvData_[i]
                           [] ackedPosition_ < i /\ i <= n ->
                                p.data + (i - ackedPosition_ - 1)
                           [] OTHER -> buffer_[Holder(K, i)].data + (i - Holder(K, i))]
      /\ buffer_' = [k \in DOMAIN buffer_ \ K |-> buffer_[k]]

ReceivePacket(p, src) ==
  /\ Accept(src)
  /\ EarlyPacket(p) \/ OldPacket(p) \/ ExpectedPacket(p)

(* sendAck(): the answer to the packet just handled, sent to sourceAddress_.
   ACK is true in every packet the receiver sends and is left out; so is the
   echoed seq_num, which only updateRTT() reads, for an estimate that never
   reaches the socket.                                                     *)
sendAckAhead == [ack_num |-> ackedPosition_ + 2, FIN |-> fin_]
sendAckNoFin == [ack_num |-> ackedPosition_ + 1, FIN |-> FALSE]
sendAck == [ack_num |-> ackedPosition_ + 1, FIN |-> fin_]
=============================================================================
