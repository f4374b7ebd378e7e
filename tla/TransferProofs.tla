--------------------------- MODULE TransferProofs ---------------------------
(***************************************************************************)
(* Proofs about TransferRestart, for every file, segment size, window,     *)
(* loss pattern, number of peers, faults and restarts, and for a network   *)
(* that keeps the order or does not.                                       *)
(*                                                                         *)
(* The inductive invariant has two parts.  Known holds always: what the    *)
(* sender knows of the receiver, from acknowledgements of any age, is      *)
(* still true, because a receiver never takes anything back.  Honest holds *)
(* until newAck() moves the stream: every segment carries the bytes its    *)
(* label says.  The receiver's part of Honest is proved in ReceiverProofs, *)
(* of which this module takes an instance.                                 *)
(*                                                                         *)
(* On a network that disturbs nothing a third part holds, Orderly: what is *)
(* under way leads without a gap from the receiver to the sender's stream  *)
(* and back, so no timeout, duplicate or overtaken stream can come about.  *)
(***************************************************************************)
EXTENDS TransferRestart, TLAPS

RP == INSTANCE ReceiverProofs WITH ackedPosition_ <- rAckedPosition_

DataPackets == [seq_num : Nat, data : Int, data_len : Nat, FIN : BOOLEAN]

(* The acknowledgements that do not promise more than the receiver has. *)
SoundAcks ==
  {a \in [ack_num : Nat \ {0}, FIN : BOOLEAN] :
     a.ack_num <= rAckedPosition_ + 1 /\ (a.FIN => fin_)}

ReceiverTypes ==
  /\ rAckedPosition_ \in Nat
  /\ fin_ \in BOOLEAN
  /\ \A k \in DOMAIN buffer_ : k \in Nat /\ buffer_[k].len \in Nat

SenderTypes ==
  /\ filePosition_ \in Int /\ message_ \in Int
  /\ overrun \in Overruns
  /\ ackedPosition_ \in Nat \ {0}

Known ==
  /\ ReceiverTypes /\ SenderTypes
  /\ dataNet \in Seq(DataPackets)
  /\ ackNet \in Seq(SoundAcks)
  /\ ackedPosition_ <= rAckedPosition_ + 1
  /\ result = "true" => fin_

-----------------------------------------------------------------------------
(* Sequences of packets: taking one out, and sets of packets that grow. *)
LEMMA RemoveAtType ==
  ASSUME NEW S, NEW s \in Seq(S), NEW i \in DOMAIN s
  PROVE  RemoveAt(s, i) \in Seq(S) /\ s[i] \in S /\ Append(s, s[i]) \in Seq(S)
<1>1. i \in 1 .. Len(s) /\ Len(s) \in Nat
  OBVIOUS
<1>2. SubSeq(s, 1, i - 1) \in Seq(S) /\ SubSeq(s, i + 1, Len(s)) \in Seq(S)
  BY <1>1
<1> QED
  BY <1>1, <1>2 DEF RemoveAt

LEMMA SeqGrows ==
  ASSUME NEW S, NEW T, S \subseteq T, NEW s \in Seq(S)
  PROVE  s \in Seq(T)
OBVIOUS

(* Reading from the file, and the packets made of it. *)
LEMMA SegmentType ==
  ASSUME NEW fp \in Int, NEW pos \in Int
  PROVE  Segment(fp, pos) \in DataPackets
<1>1. U32(fp + 1) \in Nat
  BY PacketAssumption DEF U32
<1>2. GCount(pos) \in Nat
  BY PacketAssumption DEF GCount, FullRead
<1> QED
  BY <1>1, <1>2 DEF Segment, DataPackets, FullRead

LEMMA ArrivingFacts ==
  ASSUME NEW net, NEW i \in Arriving(net), NEW S, net \in Seq(S)
  PROVE  i \in DOMAIN net
BY DEF Arriving

-----------------------------------------------------------------------------
(* The receiver never takes anything back *)

ReceiverStep ==
  \/ \E p \in DataPackets, src \in Peers : R!ReceivePacket(p, src)
  \/ R!DropPacket \/ R!ReceiveError
  \/ UNCHANGED receiverVars

Grows ==
  /\ ReceiverTypes'
  /\ rAckedPosition_ <= rAckedPosition_'
  /\ fin_ => fin_'

LEMMA ExpectedGrows ==
  ASSUME ReceiverTypes, NEW p \in DataPackets, ~fin_, R!ExpectedPacket(p)
  PROVE  Grows
<1> DEFINE n == rAckedPosition_ + p.data_len
           K == R!EarlyKeys(n)
<1>1. p.data_len \in Nat /\ p.FIN \in BOOLEAN
  BY DEF DataPackets
<1>2. n \in Nat /\ rAckedPosition_ <= n
  BY <1>1 DEF ReceiverTypes
<1>3. K \subseteq DOMAIN buffer_
  BY DEF R!EarlyKeys
<1>4. /\ rAckedPosition_' \in R!Ends(K, n)
      /\ \A e \in R!Ends(K, n) : e <= rAckedPosition_'
      /\ fin_' = (p.FIN \/ \E k \in K : buffer_[k].fin)
      /\ buffer_' = [k \in DOMAIN buffer_ \ K |-> buffer_[k]]
  BY DEF R!ExpectedPacket
<1> HIDE DEF K, n
<1>5. n <= rAckedPosition_' /\ rAckedPosition_' \in Int
  BY <1>2, <1>3, <1>4 DEF R!Ends, ReceiverTypes
<1>6. fin_' \in BOOLEAN
  BY <1>4, Zenon
<1>7. \A k \in DOMAIN buffer_' : k \in Nat /\ buffer_'[k].len \in Nat
  BY <1>4 DEF ReceiverTypes
<1> QED
  BY <1>2, <1>5, <1>6, <1>7 DEF Grows, ReceiverTypes

LEMMA ReceiverGrows ==
  ASSUME ReceiverTypes, ReceiverStep
  PROVE  Grows
<1>1. ASSUME NEW p \in DataPackets, NEW src \in Peers, R!ReceivePacket(p, src)
      PROVE  Grows
  <2>1. ~fin_
    BY <1>1 DEF R!ReceivePacket, R!Accept
  <2>2. CASE R!EarlyPacket(p)
    <3>1. p.seq_num \in Nat /\ R!Stored(p).len \in Nat
      BY DEF DataPackets, R!Stored
    <3> QED
      BY <2>2, <3>1 DEF R!EarlyPacket, Grows, ReceiverTypes
  <2>3. CASE R!OldPacket(p)
    BY <2>3 DEF R!OldPacket, Grows, ReceiverTypes
  <2> QED
    BY <1>1, <2>1, <2>2, <2>3, ExpectedGrows DEF R!ReceivePacket
<1>2. CASE R!DropPacket \/ R!ReceiveError \/ UNCHANGED receiverVars
  BY <1>2 DEF R!DropPacket, R!ReceiveError, receiverVars, Grows, ReceiverTypes
<1> QED
  BY <1>1, <1>2 DEF ReceiverStep

LEMMA StaysBelow ==
  ASSUME NEW m \in Nat, NEW n \in Nat, NEW o \in Nat, m <= n + 1, n <= o
  PROVE  m <= o + 1
OBVIOUS

(* So an acknowledgement that was sound stays so. *)
LEMMA AcksStaySound ==
  ASSUME ReceiverTypes, Grows
  PROVE  SoundAcks \subseteq SoundAcks'
BY DEF Grows, ReceiverTypes, SoundAcks

(* What an acknowledgement that the receiver sends is made of. *)
LEMMA AckFacts ==
  ASSUME NEW n \in Nat, NEW f \in BOOLEAN, NEW a, a = [ack_num |-> n + 1, FIN |-> f]
  PROVE  /\ a \in [ack_num : Nat \ {0}, FIN : BOOLEAN]
         /\ a.ack_num <= n + 1
         /\ a.FIN => f
OBVIOUS

-----------------------------------------------------------------------------
(* What the sender does *)

SenderKnows ==
  /\ SenderTypes'
  /\ ackedPosition_' <= rAckedPosition_ + 1
  /\ result' = "true" => fin_

LEMMA BytesSentType ==
  ASSUME SenderTypes, NEW pos \in Int
  PROVE  BytesSent(pos) \in Int /\ AfterRead(pos) \in Int
<1>1. overrun \in Nat
  BY SenderAssumption DEF SenderTypes
<1> QED
  BY <1>1, PacketAssumption DEF BytesSent, AfterRead, GCount, FullRead, Failed

LEMMA U32Type ==
  ASSUME NEW x \in Int
  PROVE  U32(x) \in Int /\ ToInt(x) \in Int
BY PacketAssumption DEF U32, ToInt

(* Sending, timing out and starting again. *)
LEMMA UnpromptedKnows ==
  ASSUME Known, SendNext \/ SendNextFails \/ Timeout \/ Constructed
  PROVE  SenderKnows
<1>1. BytesSent(message_) \in Int /\ AfterRead(message_) \in Int
  BY BytesSentType DEF Known, SenderTypes
<1>2. /\ filePosition_ \in Int /\ message_ \in Int /\ ackedPosition_ \in Nat \ {0}
      /\ overrun \in Overruns /\ ackedPosition_ <= rAckedPosition_ + 1
      /\ result = "true" => fin_
      /\ rAckedPosition_ \in Nat
  BY DEF Known, SenderTypes, ReceiverTypes
<1>3. /\ U32(filePosition_ + BytesSent(message_)) \in Int /\ U32(filePosition_ - 1) \in Int
      /\ MissingByte \in Int
  BY <1>1, <1>2, U32Type DEF MissingByte
<1>4. CASE SendNext
  BY <1>1, <1>2, <1>3, <1>4 DEF SendNext, SenderKnows, SenderTypes
<1>5. CASE SendNextFails
  BY <1>1, <1>2, <1>3, <1>5 DEF SendNextFails, SenderKnows, SenderTypes
<1>6. CASE Timeout
  BY <1>2, <1>3, <1>6 DEF Timeout, SenderKnows, SenderTypes
<1>7. CASE Constructed
  BY <1>2, <1>7 DEF Constructed, SenderKnows, SenderTypes
<1> QED
  BY <1>4, <1>5, <1>6, <1>7

(* Taking an acknowledgement: the last one, a duplicate, or a new one. *)
LEMMA AckKnows ==
  ASSUME Known, NEW a \in SoundAcks,
         HandleAck(a) \/ FastRetransmit(a) \/ FastRetransmitTooShort(a) \/ FastRetransmitFails(a)
  PROVE  SenderKnows
<1>1. /\ filePosition_ \in Int /\ message_ \in Int /\ ackedPosition_ \in Nat \ {0}
      /\ overrun \in Overruns /\ ackedPosition_ <= rAckedPosition_ + 1
      /\ result = "true" => fin_
  BY DEF Known, SenderTypes
<1>2. a.ack_num \in Nat \ {0} /\ a.ack_num <= rAckedPosition_ + 1 /\ (a.FIN => fin_)
  BY DEF SoundAcks
<1>3. MissingByte \in Int /\ StartPosition \in Int /\ AfterRead(MissingByte) \in Int
  <2>1. MissingByte \in Int
    BY <1>1 DEF MissingByte
  <2>2. StartPosition \in Int
    BY <1>1, U32Type DEF StartPosition
  <2>3. SenderTypes
    BY DEF Known
  <2> QED
    BY <2>1, <2>2, <2>3, BytesSentType
<1>4. CASE FinalAck(a)
  BY <1>1, <1>2, <1>4 DEF FinalAck, streamVars, SenderKnows, SenderTypes
<1>5. CASE FirstDupAcks(a) \/ InflateWindow(a)
  BY <1>1, <1>5 DEF FirstDupAcks, InflateWindow, DupAck, streamVars, SenderKnows, SenderTypes
<1>6. CASE SlowStartAck(a) \/ CongestionAvoidanceAck(a) \/ FastRecoveryAck(a)
  <2>1. NewAck(a)
    BY <1>6 DEF SlowStartAck, CongestionAvoidanceAck, FastRecoveryAck
  <2> QED
    BY <1>1, <1>2, <2>1 DEF NewAck, SenderKnows, SenderTypes
<1>7. CASE FastRetransmit(a)
  <2>1. filePosition_' \in Int /\ message_' \in Int
    BY <1>3, <1>7, U32Type DEF FastRetransmit, ResumeReading, Failed
  <2> QED
    BY <1>1, <1>7, <2>1 DEF FastRetransmit, DupAck, SenderKnows, SenderTypes
<1>8. CASE FastRetransmitTooShort(a) \/ FastRetransmitFails(a)
  BY <1>1, <1>3, <1>8 DEF FastRetransmitTooShort, FastRetransmitFails, GiveUpRetransmitting,
                          DupAck, SenderKnows, SenderTypes
<1> QED
  BY <1>4, <1>5, <1>6, <1>7, <1>8 DEF HandleAck

-----------------------------------------------------------------------------
(* Every step keeps Known *)

LEMMA InitKnown == RestartInit => Known
<1> SUFFICES ASSUME RestartInit PROVE Known
  OBVIOUS
<1> USE PacketAssumption, SenderAssumption DEF RestartInit, Init, SenderInit
<1>1. rAckedPosition_ = 0 /\ fin_ = FALSE /\ buffer_ = <<>>
  BY DEF R!ReceiverInit
<1>2. dataNet \in Seq(DataPackets) /\ ackNet \in Seq(SoundAcks)
  OBVIOUS
<1>3. ReceiverTypes
  <2>1. DOMAIN buffer_ = {}
    BY <1>1
  <2> QED
    BY <1>1, <2>1 DEF ReceiverTypes
<1>4. SenderTypes
  BY DEF SenderTypes
<1> QED
  BY <1>1, <1>2, <1>3, <1>4 DEF Known

(* The receiver does not move: only the sender and the network do. *)
LEMMA SenderStepKnown ==
  ASSUME Known, SenderKnows, UNCHANGED receiverVars,
         dataNet' \in Seq(DataPackets), ackNet' \in Seq(SoundAcks)
  PROVE  Known'
<1>1. UNCHANGED <<rAckedPosition_, fin_, buffer_>>
  BY DEF receiverVars
<1>2. ReceiverTypes' /\ SoundAcks' = SoundAcks
  BY <1>1 DEF Known, ReceiverTypes, SoundAcks
<1> QED
  BY <1>1, <1>2 DEF Known, SenderKnows

(* The sender does not move. *)
LEMMA ReceiverStepKnown ==
  ASSUME Known, ReceiverStep, UNCHANGED senderVars,
         dataNet' \in Seq(DataPackets), ackNet' \in Seq(SoundAcks \cup SoundAcks')
  PROVE  Known'
<1>1. Grows
  BY ReceiverGrows DEF Known
<1>2. SoundAcks \subseteq SoundAcks'
  BY <1>1, AcksStaySound DEF Known
<1>3. ackNet' \in Seq(SoundAcks')
  BY <1>2, SeqGrows
<1>4. UNCHANGED <<filePosition_, message_, overrun, ackedPosition_, result>>
  BY DEF senderVars, streamVars
<1>5. SenderTypes'
  BY <1>4 DEF Known, SenderTypes
<1>6. ackedPosition_' <= rAckedPosition_' + 1 /\ (result' = "true" => fin_')
  <2>1. ackedPosition_' <= rAckedPosition_' + 1
    <3>1. /\ ackedPosition_ \in Nat /\ rAckedPosition_ \in Nat /\ rAckedPosition_' \in Nat
          /\ ackedPosition_ <= rAckedPosition_ + 1 /\ rAckedPosition_ <= rAckedPosition_'
      BY <1>1 DEF Known, SenderTypes, Grows, ReceiverTypes
    <3>2. ackedPosition_' = ackedPosition_
      BY <1>4
    <3> QED
      BY <3>1, <3>2, StaysBelow
  <2>2. result' = "true" => fin_'
    BY <1>1, <1>4 DEF Known, Grows
  <2> QED
    BY <2>1, <2>2
<1> QED
  BY <1>1, <1>3, <1>5, <1>6 DEF Known, Grows

LEMMA SendFileKnown == ASSUME Known, SendFile PROVE Known'
<1>1. SenderKnows
  BY UnpromptedKnows DEF SendFile
<1>2. UNCHANGED receiverVars /\ ackNet' = ackNet
  BY DEF SendFile
<1>3. dataNet' \in Seq(DataPackets)
  <2>1. NextSegment \in DataPackets
    BY SegmentType DEF NextSegment, Known, SenderTypes
  <2> QED
    BY <2>1 DEF SendFile, Known
<1> QED
  BY <1>1, <1>2, <1>3, SenderStepKnown DEF Known

LEMMA TakeAckKnown == ASSUME Known, NEW i \in DOMAIN ackNet, TakeAck(i) PROVE Known'
<1>1. RemoveAt(ackNet, i) \in Seq(SoundAcks) /\ ackNet[i] \in SoundAcks
  BY RemoveAtType DEF Known
<1>2. SenderKnows
  BY <1>1, AckKnows DEF TakeAck
<1>3. UNCHANGED receiverVars /\ ackNet' \in Seq(SoundAcks)
  BY <1>1 DEF TakeAck
<1>4. dataNet' \in Seq(DataPackets)
  <2>1. Retransmission \in DataPackets
    BY SegmentType DEF Retransmission, MissingByte, Known, SenderTypes
  <2> QED
    BY <2>1 DEF TakeAck, Known
<1> QED
  BY <1>2, <1>3, <1>4, SenderStepKnown

LEMMA SenderTimeoutKnown == ASSUME Known, SenderTimeout PROVE Known'
<1>1. SenderKnows
  BY UnpromptedKnows DEF SenderTimeout
<1> QED
  BY <1>1, SenderStepKnown DEF SenderTimeout, netVars, Known

LEMMA RestartKnown == ASSUME Known, RestartSender PROVE Known'
<1>1. SenderKnows
  BY UnpromptedKnows DEF RestartSender
<1> QED
  BY <1>1, SenderStepKnown DEF RestartSender, netVars, Known

LEMMA TakeDataKnown == ASSUME Known, NEW i \in DOMAIN dataNet, TakeData(i) PROVE Known'
<1>1. RemoveAt(dataNet, i) \in Seq(DataPackets) /\ dataNet[i] \in DataPackets
  BY RemoveAtType DEF Known
<1>2. dataNet' \in Seq(DataPackets) /\ UNCHANGED senderVars
  BY <1>1 DEF TakeData
<1>3. ReceiverStep
  BY <1>1 DEF TakeData, ReceiverStep
<1>4. ReceiverTypes'
  BY <1>3, ReceiverGrows DEF Known, Grows
<1>5. R!sendAck' \in SoundAcks'
  <2>1. R!sendAck' = [ack_num |-> rAckedPosition_' + 1, FIN |-> fin_']
    BY DEF R!sendAck
  <2>2. rAckedPosition_' \in Nat /\ fin_' \in BOOLEAN
    BY <1>4 DEF ReceiverTypes
  <2> QED
    BY <2>1, <2>2, AckFacts DEF SoundAcks
<1>6. ackNet \in Seq(SoundAcks \cup SoundAcks')
  BY SeqGrows DEF Known
<1>7. ackNet' \in Seq(SoundAcks \cup SoundAcks')
  BY <1>5, <1>6 DEF TakeData
<1> QED
  BY <1>2, <1>3, <1>7, ReceiverStepKnown

LEMMA FaultKnown == ASSUME Known, Fault PROVE Known'
<1>1. UNCHANGED senderVars
  BY DEF Fault
<1>2. ackNet \in Seq(SoundAcks \cup SoundAcks') /\ dataNet \in Seq(DataPackets)
  BY SeqGrows DEF Known
<1>3. ASSUME NEW i \in DOMAIN dataNet,
             dataNet' \in {RemoveAt(dataNet, i), Append(dataNet, dataNet[i])},
             UNCHANGED <<receiverVars, ackNet>>
      PROVE  Known'
  <2>1. dataNet' \in Seq(DataPackets)
    <3>1. RemoveAt(dataNet, i) \in Seq(DataPackets) /\ Append(dataNet, dataNet[i]) \in Seq(DataPackets)
      BY <1>2, RemoveAtType
    <3> QED
      BY <1>3, <3>1
  <2>2. ReceiverStep
    BY <1>3 DEF ReceiverStep
  <2> QED
    BY <1>1, <1>2, <1>3, <2>1, <2>2, ReceiverStepKnown
<1>4. ASSUME NEW i \in DOMAIN ackNet,
             ackNet' \in {RemoveAt(ackNet, i), Append(ackNet, ackNet[i])},
             UNCHANGED <<receiverVars, dataNet>>
      PROVE  Known'
  <2>1. ackNet' \in Seq(SoundAcks)
    <3>1. ackNet \in Seq(SoundAcks)
      BY DEF Known
    <3>2. RemoveAt(ackNet, i) \in Seq(SoundAcks) /\ Append(ackNet, ackNet[i]) \in Seq(SoundAcks)
      BY <3>1, RemoveAtType
    <3> QED
      BY <1>4, <3>2
  <2>2. ackNet' \in Seq(SoundAcks \cup SoundAcks')
    BY <2>1, SeqGrows
  <2>3. ReceiverStep
    BY <1>4 DEF ReceiverStep
  <2> QED
    BY <1>1, <1>2, <1>4, <2>2, <2>3, ReceiverStepKnown
<1>5. CASE (R!ReceiveError \/ R!DropPacket) /\ UNCHANGED netVars
  <2>1. ReceiverStep
    BY <1>5 DEF ReceiverStep
  <2> QED
    BY <1>1, <1>2, <1>5, <2>1, ReceiverStepKnown DEF netVars
<1> QED
  BY <1>3, <1>4, <1>5 DEF Fault

LEMMA NextKnown == Known /\ [RestartNext]_allVars => Known'
<1> SUFFICES ASSUME Known, [RestartNext]_allVars PROVE Known'
  OBVIOUS
<1>1. ackNet \in Seq(SoundAcks) /\ dataNet \in Seq(DataPackets)
  BY DEF Known
<1>2. ASSUME UNCHANGED <<senderVars, receiverVars, ackNet>>, dataNet' \in Seq(DataPackets)
      PROVE  Known'
  <2>1. ackNet' \in Seq(SoundAcks \cup SoundAcks')
    BY <1>1, <1>2, SeqGrows
  <2>2. ReceiverStep
    BY <1>2 DEF ReceiverStep
  <2> QED
    BY <1>2, <2>1, <2>2, ReceiverStepKnown
<1>3. CASE StartReceiver
  BY <1>1, <1>2, <1>3 DEF StartReceiver, netVars
<1>4. CASE Unheard
  <2>1. PICK i \in Arriving(dataNet) : dataNet' = RemoveAt(dataNet, i)
    BY <1>4 DEF Unheard
  <2>2. dataNet' \in Seq(DataPackets)
    BY <1>1, <2>1, ArrivingFacts, RemoveAtType
  <2> QED
    BY <1>2, <1>4, <2>2 DEF Unheard
<1>5. CASE Ending \/ UNCHANGED allVars
  BY <1>1, <1>2, <1>5 DEF Ending, Finished, allVars, vars, netVars
<1>6. CASE RestartSender
  BY <1>6, RestartKnown
<1>7. CASE Receiving
  BY <1>1, <1>7, ArrivingFacts, TakeDataKnown DEF Receiving, AnyData
<1>8. CASE Failing
  BY <1>8, FaultKnown DEF Failing
<1>9. CASE Sending(SendFile) \/ Sending(AnyAck) \/ Sending(SenderTimeout)
  BY <1>1, <1>9, ArrivingFacts, SendFileKnown, TakeAckKnown, SenderTimeoutKnown DEF Sending, AnyAck
<1> QED
  BY <1>3, <1>4, <1>5, <1>6, <1>7, <1>8, <1>9 DEF RestartNext

LEMMA SpecKnown == RestartSpec => []Known
BY InitKnown, NextKnown, PTL DEF RestartSpec

(* No acknowledgement of any age, repeated or overtaken, and none from before
   a restart of the sender, says more than the receiver has.               *)
THEOREM AcknowledgementsAreSound == RestartSpec => []AckSound
<1>1. Known => AckSound
  <2> SUFFICES ASSUME Known, NEW i \in DOMAIN ackNet
               PROVE  /\ ackedPosition_ <= rAckedPosition_ + 1
                      /\ ackNet[i].ack_num <= rAckedPosition_ + 1
                      /\ ackNet[i].FIN => fin_
    BY DEF AckSound, Known
  <2>1. ackNet[i] \in SoundAcks
    BY DEF Known
  <2> QED
    BY <2>1 DEF Known, SoundAcks
<1> QED
  BY <1>1, SpecKnown, PTL

-----------------------------------------------------------------------------
(* Until newAck() moves the stream, on a build whose strlen() overrun is the
   two bytes that sendData() subtracts.                                     *)

Labelled ==
  /\ message_ \in {Failed} \cup (0 .. FileLen)
  /\ filePosition_ \in 0 .. Wrap - 1 /\ ToInt(filePosition_) \in -2 .. FileLen
  /\ result = "running" /\ message_ # Failed => filePosition_ = message_

Honest ==
  /\ RP!IInv
  /\ Labelled
  /\ dataNet \in Seq(RP!HonestPackets)

(* Positions that fit survive the conversions. *)
LEMMA PositionFits ==
  ASSUME NEW x \in -2 .. FileLen
  PROVE  U32(x) \in 0 .. Wrap - 1 /\ ToInt(U32(x)) = x /\ (x >= 0 => U32(x) = x)
<1>1. Wrap \in Nat /\ Wrap > 4 /\ x \in Int /\ 2 * x < Wrap /\ x >= -2 /\ x < Wrap
  BY PacketAssumption
<1>2. CASE x >= 0
  <2>1. U32(x) = x
    BY <1>1, <1>2 DEF U32
  <2> QED
    BY <1>1, <1>2, <2>1 DEF ToInt
<1>3. CASE x < 0
  <2>1. U32(x) = x + Wrap
    BY <1>1, <1>3 DEF U32
  <2> QED
    BY <1>1, <1>3, <2>1 DEF ToInt
<1> QED
  BY <1>1, <1>2, <1>3

LEMMA SegmentHonest ==
  ASSUME NEW pos \in 0 .. FileLen
  PROVE  Segment(pos, pos) \in RP!HonestPackets
BY DEF Segment, U32, GCount, FullRead, RP!HonestPackets, RP!Segment, RP!U32, RP!GCount, RP!FullRead

LEMMA ReadPosition ==
  ASSUME NEW pos \in 0 .. FileLen
  PROVE  /\ AfterRead(pos) \in {Failed} \cup (0 .. FileLen)
         /\ FullRead(pos) => AfterRead(pos) = pos + MMSBYTES /\ pos + MMSBYTES \in 0 .. FileLen
         /\ ~FullRead(pos) => AfterRead(pos) = Failed /\ GCount(pos) = FileLen - pos
BY PacketAssumption DEF AfterRead, FullRead, GCount

(* The sender asks for nothing past the end of the file. *)
LEMMA MissingByteInFile ==
  ASSUME Known, RP!IInv
  PROVE  MissingByte \in 0 .. FileLen
<1>1. ackedPosition_ \in Nat \ {0} /\ ackedPosition_ <= rAckedPosition_ + 1 /\ rAckedPosition_ \in Nat
  BY DEF Known, SenderTypes, ReceiverTypes
<1>2. rAckedPosition_ <= FileLen
  BY DEF RP!IInv
<1> QED
  BY <1>1, <1>2, PacketAssumption DEF MissingByte

LEMMA UnpromptedLabelled ==
  ASSUME overrun = 2, Known, Honest, SendNext \/ SendNextFails \/ Timeout \/ Constructed
  PROVE  Labelled'
<1>1. /\ message_ \in {Failed} \cup (0 .. FileLen)
      /\ filePosition_ \in 0 .. Wrap - 1 /\ ToInt(filePosition_) \in -2 .. FileLen
      /\ result = "running" /\ message_ # Failed => filePosition_ = message_
  BY DEF Honest, Labelled
<1>2. overrun = 2
  OBVIOUS
<1>3. CASE SendNext
  <2>1. result = "running" /\ message_ \in 0 .. FileLen /\ filePosition_ = message_
    BY <1>1, <1>3 DEF SendNext, CanSend
  <2>2. /\ filePosition_' = U32(message_ + BytesSent(message_))
        /\ message_' = AfterRead(message_) /\ result' = result
    BY <1>3, <2>1 DEF SendNext
  <2>3. CASE FullRead(message_)
    <3>1. message_ + BytesSent(message_) = message_ + MMSBYTES
      BY <1>2, <2>1, <2>3, PacketAssumption DEF BytesSent
    <3>2. message_ + MMSBYTES \in 0 .. FileLen /\ message_' = message_ + MMSBYTES
      BY <2>1, <2>2, <2>3, ReadPosition
    <3>3. filePosition_' = message_ + MMSBYTES
      BY <2>2, <3>1, <3>2, PositionFits, PacketAssumption
    <3>4. ToInt(message_ + MMSBYTES) = message_ + MMSBYTES /\ message_ + MMSBYTES \in 0 .. Wrap - 1
      BY <3>2, PositionFits, PacketAssumption
    <3> QED
      BY <3>2, <3>3, <3>4, PacketAssumption DEF Labelled, ToInt
  <2>4. CASE ~FullRead(message_)
    <3>1. message_ + BytesSent(message_) = FileLen - 2 /\ message_' = Failed
      BY <2>1, <2>2, <2>4, ReadPosition, PacketAssumption DEF BytesSent
    <3>2. FileLen - 2 \in -2 .. FileLen
      BY PacketAssumption
    <3>3. filePosition_' = U32(FileLen - 2)
      BY <2>2, <3>1
    <3>4. U32(FileLen - 2) \in 0 .. Wrap - 1 /\ ToInt(U32(FileLen - 2)) \in -2 .. FileLen
      BY <3>2, PositionFits
    <3> QED
      BY <3>1, <3>3, <3>4 DEF Labelled, ToInt
  <2> QED
    BY <2>3, <2>4
<1>4. CASE SendNextFails
  <2>1. result = "running" /\ message_ \in 0 .. FileLen /\ filePosition_ = message_
    BY <1>1, <1>4 DEF SendNextFails, CanSend
  <2>2. message_' = AfterRead(message_) /\ AfterRead(message_) \in {Failed} \cup (0 .. FileLen)
    BY <1>4, <2>1, ReadPosition DEF SendNextFails
  <2>3. CASE FullRead(message_)
    <3>1. result' = "false" /\ filePosition_' = filePosition_
      BY <1>4, <2>3 DEF SendNextFails
    <3> QED
      BY <1>1, <2>2, <3>1 DEF Labelled, ToInt
  <2>4. CASE ~FullRead(message_)
    <3>1. filePosition_' = U32(message_ - 1) /\ message_' = Failed
      BY <1>4, <2>1, <2>2, <2>4, ReadPosition DEF SendNextFails
    <3>2. message_ - 1 \in -2 .. FileLen
      BY <2>1, PacketAssumption
    <3>3. U32(message_ - 1) \in 0 .. Wrap - 1 /\ ToInt(U32(message_ - 1)) \in -2 .. FileLen
      BY <3>2, PositionFits
    <3> QED
      BY <3>1, <3>3 DEF Labelled, ToInt
  <2> QED
    BY <2>3, <2>4
<1>5. CASE Timeout \/ Constructed
  <2>1. PICK pos \in 0 .. FileLen : filePosition_' = pos /\ message_' = pos
    BY <1>5, MissingByteInFile, PacketAssumption DEF Timeout, Constructed, Honest
  <2>2. ToInt(pos) = pos /\ pos \in 0 .. Wrap - 1 /\ pos \in -2 .. FileLen
    BY PositionFits, PacketAssumption
  <2> QED
    BY <2>1, <2>2 DEF Labelled, ToInt
<1> QED
  BY <1>3, <1>4, <1>5

LEMMA AckLabelled ==
  ASSUME Known, Honest, NEW a \in SoundAcks,
         HandleAck(a) \/ FastRetransmit(a) \/ FastRetransmitTooShort(a) \/ FastRetransmitFails(a),
         ~(ackedPosition_' # ackedPosition_ /\ SeekedByNewAck(a) /\ message_ # a.ack_num - 1)
  PROVE  Labelled'
<1>1. /\ message_ \in {Failed} \cup (0 .. FileLen)
      /\ filePosition_ \in 0 .. Wrap - 1 /\ ToInt(filePosition_) \in -2 .. FileLen
      /\ result = "running" /\ message_ # Failed => filePosition_ = message_
  BY DEF Honest, Labelled
<1>2. ASSUME UNCHANGED <<filePosition_, message_>>, result' = result \/ result' = "true"
      PROVE  Labelled'
  BY <1>1, <1>2 DEF Labelled, ToInt
<1>3. CASE FinalAck(a) \/ FirstDupAcks(a) \/ InflateWindow(a)
  BY <1>2, <1>3 DEF FinalAck, FirstDupAcks, InflateWindow, streamVars
<1>4. CASE SlowStartAck(a) \/ CongestionAvoidanceAck(a) \/ FastRecoveryAck(a)
  <2>1. NewAck(a)
    BY <1>4 DEF SlowStartAck, CongestionAvoidanceAck, FastRecoveryAck
  <2>2. ackedPosition_ \in Nat /\ a.ack_num \in Nat
    BY DEF Known, SenderTypes, SoundAcks
  <2>3. ackedPosition_' # ackedPosition_
    BY <2>1, <2>2 DEF NewAck
  <2>4. message_' = message_ /\ UNCHANGED <<filePosition_, result>>
    BY <2>1, <2>3 DEF NewAck
  <2> QED
    BY <1>2, <2>4
<1>5. CASE FastRetransmit(a)
  <2>1. StartPosition \in -2 .. FileLen
    BY <1>1, PacketAssumption DEF StartPosition
  <2>2. /\ filePosition_' = U32(StartPosition)
        /\ message_' = IF FullRead(MissingByte) /\ StartPosition >= 0 THEN StartPosition ELSE Failed
    BY <1>5 DEF FastRetransmit, ResumeReading
  <2>3. /\ U32(StartPosition) \in 0 .. Wrap - 1 /\ ToInt(U32(StartPosition)) \in -2 .. FileLen
        /\ StartPosition >= 0 => U32(StartPosition) = StartPosition
    BY <2>1, PositionFits
  <2>4. message_' \in {Failed} \cup (0 .. FileLen) /\ (message_' # Failed => filePosition_' = message_')
    BY <2>1, <2>2, <2>3
  <2> QED
    BY <2>2, <2>3, <2>4 DEF Labelled, ToInt
<1>6. CASE FastRetransmitTooShort(a) \/ FastRetransmitFails(a)
  <2>1. filePosition_' = MissingByte /\ message_' = AfterRead(MissingByte) /\ result' = "false"
    BY <1>6 DEF FastRetransmitTooShort, FastRetransmitFails, GiveUpRetransmitting
  <2>2. MissingByte \in 0 .. FileLen
    BY MissingByteInFile DEF Honest
  <2>3. AfterRead(MissingByte) \in {Failed} \cup (0 .. FileLen)
    BY <2>2, ReadPosition
  <2>4. MissingByte \in 0 .. Wrap - 1 /\ ToInt(MissingByte) \in -2 .. FileLen
    BY <2>2, PositionFits, PacketAssumption
  <2> QED
    BY <2>1, <2>3, <2>4 DEF Labelled, ToInt
<1> QED
  BY <1>3, <1>4, <1>5, <1>6 DEF HandleAck

-----------------------------------------------------------------------------
(* The receiver's steps are those of ReceiverOpen *)

LEMMA NextRSNSame == R!NextRSN = RP!NextRSN
<1>1. R!Max(R!Range(loss.specificPackets_)) = RP!Max(RP!Range(loss.specificPackets_))
  <2>1. \A S : R!Max(S) = RP!Max(S)
    BY DEF R!Max, RP!Max
  <2>2. \A f : R!Range(f) = RP!Range(f)
    BY DEF R!Range, RP!Range
  <2> QED
    BY <2>1, <2>2
<1>2. CASE loss.kind = "none"
  BY <1>2 DEF R!NextRSN, RP!NextRSN
<1>3. CASE loss.kind = "periodic"
  BY <1>3 DEF R!NextRSN, RP!NextRSN
<1>4. CASE loss.kind = "specific"
  BY <1>1, <1>4 DEF R!NextRSN, RP!NextRSN
<1>5. CASE loss.kind \notin {"none", "periodic", "specific"}
  BY <1>1, <1>5 DEF R!NextRSN, RP!NextRSN
<1> QED
  BY <1>2, <1>3, <1>4, <1>5

LEMMA AcceptSame ==
  ASSUME NEW src, R!Accept(src)
  PROVE  RP!Accept(src)
BY NextRSNSame DEF R!Accept, RP!Accept, R!MustDrop, RP!MustDrop, R!Exhausted, RP!Exhausted,
                   R!ReplyTo, RP!ReplyTo

LEMMA ReceivePacketSame ==
  ASSUME NEW p, NEW src, R!ReceivePacket(p, src)
  PROVE  RP!ReceivePacket(p, src)
<1>1. RP!Accept(src)
  BY AcceptSame DEF R!ReceivePacket
<1>2. CASE R!EarlyPacket(p)
  BY <1>1, <1>2 DEF RP!ReceivePacket, R!EarlyPacket, RP!EarlyPacket, R!Stored, RP!Stored
<1>3. CASE R!OldPacket(p)
  BY <1>1, <1>3 DEF RP!ReceivePacket, R!OldPacket, RP!OldPacket
<1>4. CASE R!ExpectedPacket(p)
  <2>1. RP!ExpectedPacket(p)
    BY <1>4 DEF R!ExpectedPacket, RP!ExpectedPacket, R!IsExpected, RP!IsExpected, R!Ends, RP!Ends,
                R!EarlyKeys, RP!EarlyKeys, R!Linked, RP!Linked, R!Holder, RP!Holder
  <2> QED
    BY <1>1, <2>1 DEF RP!ReceivePacket
<1> QED
  BY <1>2, <1>3, <1>4 DEF R!ReceivePacket

LEMMA DropPacketSame ==
  ASSUME R!DropPacket
  PROVE  RP!DropPacket
BY NextRSNSame DEF R!DropPacket, RP!DropPacket, R!MustDrop, RP!MustDrop, R!StrayDrop, RP!StrayDrop,
                   R!Exhausted, RP!Exhausted

LEMMA ReceiveErrorSame ==
  ASSUME R!ReceiveError
  PROVE  RP!ReceiveError
BY AcceptSame DEF R!ReceiveError, RP!ReceiveError

HonestReceiverStep ==
  \/ \E p \in RP!HonestPackets, src \in Peers : R!ReceivePacket(p, src)
  \/ R!DropPacket \/ R!ReceiveError
  \/ UNCHANGED receiverVars

(* What ReceiverProofs assumes of its constants. *)
LEMMA LossPatternsSame == \A l \in LossPatterns : RP!IsLossPattern(l)
BY TransferAssumption
   DEF R!IsLossPattern, RP!IsLossPattern, R!NoLoss, RP!NoLoss, R!PeriodicLoss, RP!PeriodicLoss,
       R!SpecificLoss, RP!SpecificLoss

(* So the receiver keeps the invariant of ReceiverProofs. *)
LEMMA ReceiverKeepsIInv ==
  ASSUME RP!IInv, HonestReceiverStep
  PROVE  RP!IInv'
<1>1. RP!Next \/ UNCHANGED receiverVars
  BY ReceivePacketSame, DropPacketSame, ReceiveErrorSame DEF HonestReceiverStep, RP!Next
<1>2. [RP!Next]_(RP!receiverVars)
  BY <1>1 DEF receiverVars, RP!receiverVars
<1> QED
  BY <1>2, RP!NextIInv, PacketAssumption, TransferAssumption, LossPatternsSame

-----------------------------------------------------------------------------
(* Every step that does not overtake keeps Honest *)

LEMMA InitHonest == RestartInit => Honest
<1> SUFFICES ASSUME RestartInit PROVE Honest
  OBVIOUS
<1>1. RP!IInv
  <2>1. RP!ReceiverInit
    BY DEF RestartInit, Init, R!ReceiverInit, RP!ReceiverInit
  <2> QED
    BY <2>1, RP!InitIInv, PacketAssumption, TransferAssumption, LossPatternsSame
<1>2. Labelled
  BY PacketAssumption DEF RestartInit, Init, SenderInit, Labelled, ToInt
<1>3. dataNet \in Seq(RP!HonestPackets)
  BY DEF RestartInit, Init
<1> QED
  BY <1>1, <1>2, <1>3 DEF Honest

LEMMA NextHonest ==
  ASSUME overrun = 2, Known, Honest, [RestartNext]_allVars, ~overtaken, ~overtaken'
  PROVE  Honest'
<1> DEFINE Packets == RP!HonestPackets
<1>1. /\ RP!IInv /\ Labelled /\ dataNet \in Seq(Packets) /\ ackNet \in Seq(SoundAcks)
      /\ Packets' = Packets
  BY DEF Honest, Known, RP!HonestPackets, RP!Segment, RP!U32, RP!GCount, RP!FullRead
<1> HIDE DEF Packets
<1>2. ASSUME UNCHANGED receiverVars, Labelled', dataNet' \in Seq(Packets)
      PROVE  Honest'
  <2>1. RP!IInv'
    BY <1>1, <1>2, ReceiverKeepsIInv DEF HonestReceiverStep
  <2> QED
    BY <1>1, <1>2, <2>1 DEF Honest, Packets
<1>3. ASSUME UNCHANGED senderVars, HonestReceiverStep, dataNet' \in Seq(Packets)
      PROVE  Honest'
  <2>1. RP!IInv'
    BY <1>1, <1>3, ReceiverKeepsIInv
  <2>2. Labelled'
    BY <1>1, <1>3 DEF Labelled, ToInt, senderVars, streamVars
  <2> QED
    BY <1>1, <1>3, <2>1, <2>2 DEF Honest, Packets
<1>4. ASSUME UNCHANGED senderVars, UNCHANGED receiverVars, dataNet' \in Seq(Packets)
      PROVE  Honest'
  BY <1>3, <1>4 DEF HonestReceiverStep
<1>5. CASE StartReceiver \/ Ending \/ UNCHANGED allVars
  BY <1>1, <1>4, <1>5 DEF StartReceiver, Ending, Finished, allVars, vars, netVars
<1>6. CASE Unheard
  <2>1. PICK i \in Arriving(dataNet) : dataNet' = RemoveAt(dataNet, i)
    BY <1>6 DEF Unheard
  <2>2. dataNet' \in Seq(Packets)
    BY <1>1, <2>1, ArrivingFacts, RemoveAtType
  <2> QED
    BY <1>4, <1>6, <2>2 DEF Unheard
<1>7. CASE RestartSender
  <2>1. Labelled'
    BY <1>7, UnpromptedLabelled DEF RestartSender
  <2> QED
    BY <1>1, <1>2, <1>7, <2>1 DEF RestartSender, netVars
<1>8. CASE Receiving
  <2>1. PICK i \in Arriving(dataNet) : TakeData(i)
    BY <1>8 DEF Receiving, AnyData
  <2>2. RemoveAt(dataNet, i) \in Seq(Packets) /\ dataNet[i] \in Packets
    BY <1>1, ArrivingFacts, RemoveAtType
  <2>3. UNCHANGED senderVars /\ dataNet' \in Seq(Packets)
    BY <2>1, <2>2 DEF TakeData
  <2>4. HonestReceiverStep
    BY <2>1, <2>2 DEF TakeData, HonestReceiverStep, Packets
  <2> QED
    BY <1>3, <2>3, <2>4
<1>9. CASE Failing
  <2>1. UNCHANGED senderVars
    BY <1>9 DEF Failing, Fault
  <2>2. CASE (R!ReceiveError \/ R!DropPacket) /\ UNCHANGED netVars
    BY <1>1, <1>3, <2>1, <2>2 DEF HonestReceiverStep, netVars
  <2>3. ASSUME NEW i \in DOMAIN dataNet,
               dataNet' \in {RemoveAt(dataNet, i), Append(dataNet, dataNet[i])},
               UNCHANGED receiverVars
        PROVE  Honest'
    <3>1. RemoveAt(dataNet, i) \in Seq(Packets) /\ Append(dataNet, dataNet[i]) \in Seq(Packets)
      BY <1>1, RemoveAtType
    <3>2. dataNet' \in Seq(Packets)
      BY <2>3, <3>1
    <3> QED
      BY <1>4, <2>1, <2>3, <3>2
  <2>4. CASE UNCHANGED <<receiverVars, dataNet>>
    BY <1>1, <1>4, <2>1, <2>4
  <2> QED
    BY <1>9, <2>2, <2>3, <2>4 DEF Failing, Fault
<1>10. CASE Sending(SendFile)
  <2>1. Labelled'
    BY <1>10, UnpromptedLabelled DEF Sending, SendFile
  <2>2. NextSegment \in Packets \/ UNCHANGED dataNet
    <3>1. CanSend => filePosition_ = message_ /\ message_ \in 0 .. FileLen
      BY <1>1 DEF Labelled, CanSend
    <3> QED
      BY <1>10, <3>1, SegmentHonest DEF Sending, SendFile, SendNext, NextSegment, Packets
  <2>3. dataNet' \in Seq(Packets)
    BY <1>1, <1>10, <2>2 DEF Sending, SendFile
  <2> QED
    BY <1>2, <1>10, <2>1, <2>3 DEF Sending, SendFile
<1>11. CASE Sending(AnyAck)
  <2>1. PICK i \in Arriving(ackNet) : TakeAck(i)
    BY <1>11 DEF Sending, AnyAck
  <2>2. ackNet[i] \in SoundAcks
    BY <1>1, ArrivingFacts, RemoveAtType
  <2>3. Labelled'
    BY <2>1, <2>2, AckLabelled DEF TakeAck
  <2>4. Retransmission \in Packets
    BY <1>1, MissingByteInFile, SegmentHonest DEF Retransmission, Packets
  <2>5. dataNet' \in Seq(Packets)
    BY <1>1, <2>1, <2>4 DEF TakeAck
  <2> QED
    BY <1>2, <2>1, <2>3, <2>5 DEF TakeAck
<1>12. CASE Sending(SenderTimeout)
  <2>1. Labelled'
    BY <1>12, UnpromptedLabelled DEF Sending, SenderTimeout
  <2> QED
    BY <1>1, <1>2, <1>12, <2>1 DEF Sending, SenderTimeout, netVars
<1> QED
  BY <1>5, <1>6, <1>7, <1>8, <1>9, <1>10, <1>11, <1>12 DEF RestartNext

(* A stream once moved stays noted. *)
LEMMA OvertakenStays ==
  ASSUME [RestartNext]_allVars, overtaken
  PROVE  overtaken'
BY DEF RestartNext, StartReceiver, RestartSender, Unheard, Receiving, AnyData, TakeData, Failing, Fault,
       Ending, Finished, Sending, SendFile, AnyAck, TakeAck, SenderTimeout, allVars, vars

HonestUnlessOvertaken == overtaken \in BOOLEAN /\ (~overtaken => Honest)

(* Whatever is lost, repeated, reordered, late or restarted, a sender that
   reports success has a receiver that has returned; and with a stream that
   newAck() has not moved what the receiver has is the file.                *)
THEOREM SuccessIsDelivery ==
  ASSUME Overruns = {2}
  PROVE  RestartSpec => []SuccessMeansDelivered
<1>1. RestartInit => HonestUnlessOvertaken
  BY InitHonest DEF HonestUnlessOvertaken, RestartInit, Init
<1>2. Known /\ HonestUnlessOvertaken /\ [RestartNext]_allVars => HonestUnlessOvertaken'
  <2> SUFFICES ASSUME Known, HonestUnlessOvertaken, [RestartNext]_allVars
               PROVE  HonestUnlessOvertaken'
    OBVIOUS
  <2>1. overtaken' \in BOOLEAN
    BY DEF HonestUnlessOvertaken, RestartNext, StartReceiver, RestartSender, Unheard, Receiving,
           AnyData, TakeData, Failing, Fault, Ending, Finished, Sending, SendFile, AnyAck, TakeAck,
           SenderTimeout, allVars, vars
  <2>2. ~overtaken' => Honest'
    BY NextHonest, OvertakenStays DEF HonestUnlessOvertaken, Known, SenderTypes
  <2> QED
    BY <2>1, <2>2 DEF HonestUnlessOvertaken
<1>3. Known /\ HonestUnlessOvertaken => SuccessMeansDelivered
  <2> SUFFICES ASSUME Known, Honest
               PROVE  Delivered(rAckedPosition_) /\ (fin_ => rAckedPosition_ = FileLen)
    BY DEF HonestUnlessOvertaken, SuccessMeansDelivered, Known
  <2> QED
    BY DEF Honest, RP!IInv, RP!InOrder, RP!Complete, Delivered
<1> QED
  BY <1>1, <1>2, <1>3, SpecKnown, PTL DEF RestartSpec

-----------------------------------------------------------------------------
(* When nothing is lost, repeated, late or out of order *)

Undisturbed == Fifo /\ MaxFaults = 0 /\ MaxEarly = 0 /\ LossPatterns = {R!NoLoss}

NothingHappened ==
  /\ faults = 0 /\ early = 0 /\ listening
  /\ loss = R!NoLoss /\ DOMAIN buffer_ = {}
  /\ overtaken = FALSE

(* Segments that follow each other, the first of them at `start'. *)
Follow(net, start) ==
  /\ net # <<>> => net[1].data = start
  /\ \A k \in 1 .. Len(net) - 1 : /\ FullRead(net[k].data)
                                  /\ net[k + 1].data = net[k].data + MMSBYTES
  /\ \A k \in 1 .. Len(net) : start <= net[k].data

(* They lead from where the receiver is to where the sender's stream is. *)
SegmentsFollow ==
  /\ Follow(dataNet, rAckedPosition_)
  /\ dataNet # <<>> => ~fin_ /\ message_ = AfterRead(dataNet[Len(dataNet)].data)
  /\ dataNet = <<>> => message_ = IF fin_ THEN Failed ELSE rAckedPosition_

(* The acknowledgements get greater, from the last one that was taken; the
   one with FIN is the last.                                              *)
Ascend(net, last, fin) ==
  /\ \A k \in 1 .. Len(net) : net[k].FIN <=> fin /\ k = Len(net)
  /\ \A k \in 1 .. Len(net) : ~net[k].FIN => last < net[k].ack_num
  /\ \A j, k \in 1 .. Len(net) : j < k /\ ~net[k].FIN => net[j].ack_num < net[k].ack_num

AcksAscend ==
  /\ Ascend(ackNet, ackedPosition_, fin_)
  /\ result = "running" /\ fin_ => ackNet # <<>>

WindowOpen ==
  /\ state_ \in {"SLOW_START", "CONGESTION_AVOIDANCE"}
  /\ cwnd_ \in Nat \ {0}
  /\ notAcked_ \in Int
  /\ result = "running" => notAcked_ = Len(dataNet) + Len(ackNet)

Orderly == NothingHappened /\ SegmentsFollow /\ AcksAscend /\ WindowOpen

LEMMA WithoutFirst ==
  ASSUME NEW S, NEW s \in Seq(S), s # <<>>
  PROVE  /\ RemoveAt(s, 1) \in Seq(S)
         /\ Len(RemoveAt(s, 1)) = Len(s) - 1
         /\ \A k \in 1 .. Len(s) - 1 : RemoveAt(s, 1)[k] = s[k + 1]
<1>1. Len(s) \in Nat /\ Len(s) > 0
  OBVIOUS
<1> DEFINE t == SubSeq(s, 2, Len(s))
<1>2. SubSeq(s, 1, 0) = <<>>
  OBVIOUS
<1>3. t \in Seq(S) /\ Len(t) = Len(s) - 1 /\ \A k \in 1 .. Len(s) - 1 : t[k] = s[k + 1]
  <2>1. t \in Seq(S) /\ Len(t) = Len(s) - 1
    BY <1>1
  <2>2. ASSUME NEW k \in 1 .. Len(s) - 1 PROVE t[k] = s[k + 1]
    BY <1>1
  <2> QED
    BY <2>1, <2>2
<1>4. RemoveAt(s, 1) = <<>> \o t
  BY <1>1, <1>2 DEF RemoveAt
<1>5. <<>> \o t = t
  BY <1>3
<1> QED
  BY <1>3, <1>4, <1>5

LEMMA HonestFields ==
  ASSUME NEW p \in RP!HonestPackets
  PROVE  /\ p.data \in 0 .. FileLen
         /\ p.seq_num = p.data + 1
         /\ p.data_len = GCount(p.data)
         /\ p.FIN <=> ~FullRead(p.data)
<1>1. PICK pos \in 0 .. FileLen : p = RP!Segment(pos, pos)
  BY DEF RP!HonestPackets
<1>2. U32(pos + 1) = pos + 1
  BY PacketAssumption DEF U32
<1> QED
  BY <1>1, <1>2 DEF RP!Segment, RP!U32, RP!GCount, RP!FullRead, U32, GCount, FullRead

(* The first of them is taken, one more is sent. *)
LEMMA FollowWithoutFirst ==
  ASSUME NEW net \in Seq(RP!HonestPackets), net # <<>>, NEW start \in Nat, Follow(net, start),
         NEW n \in Nat, Len(net) > 1 => n = start + MMSBYTES
  PROVE  Follow(RemoveAt(net, 1), n)
<1> DEFINE rest == RemoveAt(net, 1)
<1>1. /\ rest \in Seq(RP!HonestPackets) /\ Len(rest) = Len(net) - 1
      /\ \A k \in 1 .. Len(net) - 1 : rest[k] = net[k + 1]
  BY WithoutFirst
<1>2. Len(net) \in Nat /\ Len(net) > 0
  OBVIOUS
<1>3. /\ net[1].data = start
      /\ \A k \in 1 .. Len(net) - 1 : FullRead(net[k].data) /\ net[k + 1].data = net[k].data + MMSBYTES
      /\ \A k \in 1 .. Len(net) : start <= net[k].data
  BY DEF Follow
<1>4. \A k \in 1 .. Len(net) : net[k].data \in 0 .. FileLen
  BY HonestFields
<1> HIDE DEF rest
<1>5. rest # <<>> => rest[1].data = n
  <2> SUFFICES ASSUME rest # <<>> PROVE rest[1].data = n
    OBVIOUS
  <2>1. Len(net) > 1
    BY <1>1, <1>2
  <2>2. 1 \in 1 .. Len(net) - 1 /\ rest[1] = net[1 + 1] /\ net[1 + 1].data = net[1].data + MMSBYTES
    BY <1>1, <1>2, <1>3, <2>1
  <2> QED
    BY <1>3, <2>1, <2>2
<1>6. ASSUME NEW k \in 1 .. Len(rest) - 1
      PROVE  FullRead(rest[k].data) /\ rest[k + 1].data = rest[k].data + MMSBYTES
  <2>1. k + 1 \in 1 .. Len(net) - 1 /\ k \in 1 .. Len(net) - 1
    BY <1>1, <1>2
  <2>2. rest[k] = net[k + 1] /\ rest[k + 1] = net[(k + 1) + 1]
    BY <1>1, <2>1
  <2> QED
    BY <1>3, <2>1, <2>2
<1>7. ASSUME NEW k \in 1 .. Len(rest)
      PROVE  n <= rest[k].data
  <2>1. k \in 1 .. Len(net) - 1 /\ k \in 1 .. Len(net) /\ Len(net) > 1
    BY <1>1, <1>2
  <2>2. rest[k].data = net[k].data + MMSBYTES /\ start <= net[k].data
    BY <1>1, <1>3, <2>1
  <2>3. net[k].data \in Nat /\ MMSBYTES \in Nat
    BY <1>4, <2>1, PacketAssumption
  <2> QED
    BY <2>1, <2>2, <2>3
<1> QED
  BY <1>5, <1>6, <1>7 DEF Follow, rest

LEMMA FollowWithNext ==
  ASSUME NEW net \in Seq(RP!HonestPackets), NEW start \in Nat, Follow(net, start),
         NEW p \in RP!HonestPackets,
         p.data = IF net = <<>> THEN start ELSE net[Len(net)].data + MMSBYTES,
         net # <<>> => FullRead(net[Len(net)].data)
  PROVE  Follow(Append(net, p), start)
<1> DEFINE more == Append(net, p)
<1>1. /\ Len(net) \in Nat /\ Len(more) = Len(net) + 1 /\ more[Len(net) + 1] = p /\ more # <<>>
      /\ \A k \in 1 .. Len(net) : more[k] = net[k]
  <2>1. /\ Len(net) \in Nat /\ Len(more) = Len(net) + 1 /\ more[Len(net) + 1] = p
        /\ \A k \in 1 .. Len(net) : more[k] = net[k]
    OBVIOUS
  <2>2. more # <<>>
    BY <2>1
  <2> QED
    BY <2>1, <2>2
<1>2. /\ net # <<>> => net[1].data = start
      /\ \A k \in 1 .. Len(net) - 1 : FullRead(net[k].data) /\ net[k + 1].data = net[k].data + MMSBYTES
      /\ \A k \in 1 .. Len(net) : start <= net[k].data
  BY DEF Follow
<1>3. \A k \in 1 .. Len(net) : net[k].data \in 0 .. FileLen
  BY HonestFields
<1> HIDE DEF more
<1>4. CASE net = <<>>
  <2>1. Len(net) = 0
    BY <1>4
  <2> QED
    BY <1>1, <1>4, <2>1 DEF Follow, more
<1>5. CASE net # <<>>
  <2>1. Len(net) \in 1 .. Len(net) /\ 1 \in 1 .. Len(net)
    BY <1>1, <1>5
  <2>2. more[1].data = start
    BY <1>1, <1>2, <1>5, <2>1
  <2>3. ASSUME NEW k \in 1 .. Len(more) - 1
        PROVE  FullRead(more[k].data) /\ more[k + 1].data = more[k].data + MMSBYTES
    <3>1. CASE k = Len(net)
      BY <1>1, <1>5, <2>1, <3>1
    <3>2. CASE k # Len(net)
      <4>1. k \in 1 .. Len(net) - 1 /\ k \in 1 .. Len(net) /\ k + 1 \in 1 .. Len(net)
        BY <1>1, <3>2
      <4> QED
        BY <1>1, <1>2, <4>1
    <3> QED
      BY <3>1, <3>2
  <2>4. ASSUME NEW k \in 1 .. Len(more)
        PROVE  start <= more[k].data
    <3>1. CASE k = Len(net) + 1
      <4>1. start <= net[Len(net)].data /\ net[Len(net)].data \in Nat /\ MMSBYTES \in Nat
        BY <1>2, <1>3, <2>1, PacketAssumption
      <4>2. more[k].data = net[Len(net)].data + MMSBYTES
        BY <1>1, <1>5, <3>1
      <4> QED
        BY <4>1, <4>2
    <3>2. CASE k # Len(net) + 1
      <4>1. k \in 1 .. Len(net)
        BY <1>1, <3>2
      <4> QED
        BY <1>1, <1>2, <4>1
    <3> QED
      BY <3>1, <3>2
  <2> QED
    BY <2>2, <2>3, <2>4 DEF Follow, more
<1> QED
  BY <1>4, <1>5

LEMMA AscendWithoutFirst ==
  ASSUME NEW net \in Seq(SoundAcks), net # <<>>, NEW last \in Nat, NEW fin \in BOOLEAN,
         Ascend(net, last, fin), ~net[1].FIN
  PROVE  Ascend(RemoveAt(net, 1), net[1].ack_num, fin)
<1> DEFINE rest == RemoveAt(net, 1)
<1>1. /\ rest \in Seq(SoundAcks) /\ Len(rest) = Len(net) - 1
      /\ \A k \in 1 .. Len(net) - 1 : rest[k] = net[k + 1]
  BY WithoutFirst
<1>2. Len(net) \in Nat /\ Len(net) > 0 /\ 1 \in 1 .. Len(net)
  OBVIOUS
<1>3. /\ \A k \in 1 .. Len(net) : net[k].FIN <=> fin /\ k = Len(net)
      /\ \A j, k \in 1 .. Len(net) : j < k /\ ~net[k].FIN => net[j].ack_num < net[k].ack_num
  BY DEF Ascend
<1> HIDE DEF rest
<1>4. ASSUME NEW k \in 1 .. Len(rest)
      PROVE  /\ rest[k].FIN <=> fin /\ k = Len(rest)
             /\ ~rest[k].FIN => net[1].ack_num < rest[k].ack_num
  <2>1. k \in 1 .. Len(net) - 1 /\ k + 1 \in 1 .. Len(net) /\ 1 < k + 1
    BY <1>1, <1>2
  <2>2. rest[k] = net[k + 1] /\ (k = Len(rest) <=> k + 1 = Len(net))
    BY <1>1, <1>2, <2>1
  <2> QED
    BY <1>2, <1>3, <2>1, <2>2
<1>5. ASSUME NEW j \in 1 .. Len(rest), NEW k \in 1 .. Len(rest), j < k, ~rest[k].FIN
      PROVE  rest[j].ack_num < rest[k].ack_num
  <2>1. /\ j \in 1 .. Len(net) - 1 /\ j + 1 \in 1 .. Len(net)
        /\ k \in 1 .. Len(net) - 1 /\ k + 1 \in 1 .. Len(net) /\ j + 1 < k + 1
    BY <1>1, <1>2, <1>5
  <2>2. rest[j] = net[j + 1] /\ rest[k] = net[k + 1]
    BY <1>1, <2>1
  <2> QED
    BY <1>3, <1>5, <2>1, <2>2
<1> QED
  BY <1>4, <1>5 DEF Ascend, rest

LEMMA AscendWithNext ==
  ASSUME NEW S, NEW net \in Seq(S), NEW n \in Nat, NEW last \in Nat, NEW a, a \in S, a.FIN \in BOOLEAN,
         \A b \in S : b.ack_num \in Nat,
         \A k \in 1 .. Len(net) : net[k].ack_num <= n,
         last <= n, ~a.FIN => n < a.ack_num,
         Ascend(net, last, FALSE)
  PROVE  Ascend(Append(net, a), last, a.FIN)
<1> DEFINE more == Append(net, a)
<1>1. /\ Len(net) \in Nat /\ Len(more) = Len(net) + 1 /\ more[Len(net) + 1] = a
      /\ \A k \in 1 .. Len(net) : more[k] = net[k] /\ net[k] \in S
  OBVIOUS
<1>2. /\ \A k \in 1 .. Len(net) : ~net[k].FIN /\ last < net[k].ack_num
      /\ \A j, k \in 1 .. Len(net) : j < k => net[j].ack_num < net[k].ack_num
  BY DEF Ascend
<1> HIDE DEF more
<1>3. ASSUME NEW k \in 1 .. Len(more)
      PROVE  /\ more[k].FIN <=> a.FIN /\ k = Len(more)
             /\ ~more[k].FIN => last < more[k].ack_num
  <2>1. CASE k = Len(net) + 1
    <3>1. more[k] = a /\ k = Len(more) /\ a.ack_num \in Nat
      BY <1>1, <2>1
    <3> QED
      BY <3>1
  <2>2. CASE k # Len(net) + 1
    <3>1. k \in 1 .. Len(net) /\ k # Len(more)
      BY <1>1, <2>2
    <3> QED
      BY <1>1, <1>2, <3>1
  <2> QED
    BY <2>1, <2>2
<1>4. ASSUME NEW j \in 1 .. Len(more), NEW k \in 1 .. Len(more), j < k, ~more[k].FIN
      PROVE  more[j].ack_num < more[k].ack_num
  <2>1. j \in 1 .. Len(net)
    BY <1>1, <1>4
  <2>2. more[j] = net[j] /\ net[j].ack_num <= n /\ net[j].ack_num \in Nat
    BY <1>1, <2>1
  <2>3. CASE k = Len(net) + 1
    <3>1. more[k] = a /\ a.ack_num \in Nat /\ n < a.ack_num
      BY <1>1, <1>4, <2>3
    <3> QED
      BY <2>2, <3>1
  <2>4. CASE k # Len(net) + 1
    <3>1. k \in 1 .. Len(net)
      BY <1>1, <2>4
    <3> QED
      BY <1>1, <1>2, <1>4, <2>1, <3>1
  <2> QED
    BY <2>3, <2>4
<1> QED
  BY <1>3, <1>4 DEF Ascend, more

(* A step that the order does not see. *)
LEMMA OrderUnseen ==
  ASSUME Orderly, UNCHANGED vars, UNCHANGED listening
  PROVE  Orderly'
BY DEF Orderly, NothingHappened, SegmentsFollow, Follow, FullRead, AfterRead, AcksAscend, Ascend,
       WindowOpen, vars, senderVars, windowVars, streamVars, receiverVars, netVars, budgetVars

LEMMA InitOrderly == ASSUME Undisturbed, RestartInit PROVE Orderly
<1> USE DEF RestartInit, Init, SenderInit, R!ReceiverInit
<1>1. NothingHappened
  BY DEF Undisturbed, NothingHappened
<1>2. SegmentsFollow
  BY DEF SegmentsFollow, Follow
<1>3. AcksAscend
  BY DEF AcksAscend, Ascend
<1>4. WindowOpen
  BY DEF WindowOpen
<1> QED
  BY <1>1, <1>2, <1>3, <1>4 DEF Orderly

LEMMA SendOrderly ==
  ASSUME Undisturbed, Known, Honest, Orderly, SendFile, UNCHANGED listening
  PROVE  Orderly'
<1>1. SendNext /\ dataNet' = Append(dataNet, NextSegment)
  BY DEF SendFile, OneFault, Undisturbed, Orderly, NothingHappened
<1>2. /\ UNCHANGED <<receiverVars, ackNet, budgetVars, overtaken, ackedPosition_, windowVars, result>>
      /\ result = "running" /\ message_ # Failed
      /\ message_' = AfterRead(message_) /\ notAcked_' = notAcked_ + 1
  BY <1>1 DEF SendFile, SendNext, CanSend, budgetVars
<1>3. /\ message_ \in 0 .. FileLen /\ filePosition_ = message_
      /\ dataNet \in Seq(RP!HonestPackets) /\ rAckedPosition_ \in Nat
  BY <1>2 DEF Honest, Labelled, Known, ReceiverTypes
<1>4. NextSegment \in RP!HonestPackets /\ NextSegment.data = message_
  BY <1>3, SegmentHonest DEF NextSegment, Segment
<1>5. ~fin_ /\ (dataNet = <<>> => message_ = rAckedPosition_)
  BY <1>2 DEF Orderly, SegmentsFollow
<1>6. dataNet # <<>> => /\ FullRead(dataNet[Len(dataNet)].data)
                        /\ message_ = dataNet[Len(dataNet)].data + MMSBYTES
  BY <1>2 DEF Orderly, SegmentsFollow, AfterRead
<1>7. Follow(dataNet', rAckedPosition_)
  BY <1>1, <1>3, <1>4, <1>5, <1>6, FollowWithNext DEF Orderly, SegmentsFollow
<1>8. dataNet' # <<>> /\ Len(dataNet') = Len(dataNet) + 1 /\ dataNet'[Len(dataNet')] = NextSegment
  <2>1. /\ Len(Append(dataNet, NextSegment)) = Len(dataNet) + 1 /\ Len(dataNet) \in Nat
        /\ Append(dataNet, NextSegment)[Len(dataNet) + 1] = NextSegment
    BY <1>3
  <2>2. Append(dataNet, NextSegment) # <<>>
    BY <2>1
  <2> QED
    BY <1>1, <2>1, <2>2
<1>9. SegmentsFollow'
  BY <1>2, <1>4, <1>5, <1>7, <1>8 DEF SegmentsFollow, Follow, FullRead, AfterRead, receiverVars
<1>10. NothingHappened' /\ AcksAscend'
  BY <1>2 DEF Orderly, NothingHappened, AcksAscend, Ascend, receiverVars, budgetVars
<1>11. WindowOpen'
  <2>1. Len(dataNet) \in Nat /\ Len(ackNet) \in Nat
    BY DEF Known
  <2> QED
    BY <1>2, <1>8, <2>1 DEF Orderly, WindowOpen, windowVars
<1> QED
  BY <1>9, <1>10, <1>11 DEF Orderly

(* The stream is never behind the receiver. *)
LEMMA StreamAhead ==
  ASSUME Known, Honest, Orderly
  PROVE  message_ = Failed \/ message_ >= rAckedPosition_
<1>1. rAckedPosition_ \in Nat /\ dataNet \in Seq(RP!HonestPackets)
  BY DEF Known, ReceiverTypes, Honest
<1>2. CASE dataNet = <<>>
  BY <1>1, <1>2 DEF Orderly, SegmentsFollow
<1>3. CASE dataNet # <<>>
  <2>1. Len(dataNet) \in 1 .. Len(dataNet)
    BY <1>1, <1>3
  <2>2. dataNet[Len(dataNet)].data \in 0 .. FileLen /\ rAckedPosition_ <= dataNet[Len(dataNet)].data
    BY <1>1, <2>1, HonestFields DEF Orderly, SegmentsFollow, Follow
  <2>3. message_ = AfterRead(dataNet[Len(dataNet)].data)
    BY <1>3 DEF Orderly, SegmentsFollow
  <2> QED
    BY <1>1, <2>2, <2>3, PacketAssumption DEF AfterRead
<1> QED
  BY <1>2, <1>3

LEMMA TakeAckOrderly ==
  ASSUME Undisturbed, Known, Honest, Orderly, NEW i \in Arriving(ackNet), TakeAck(i), UNCHANGED listening
  PROVE  Orderly'
<1> DEFINE a == ackNet[1]
<1>1. i = 1 /\ ackNet # <<>> /\ ackNet \in Seq(SoundAcks) /\ 1 \in 1 .. Len(ackNet)
      /\ Len(ackNet) \in Nat /\ Len(dataNet) \in Nat
  BY DEF Known, Arriving, Undisturbed
<1>2. /\ ackNet' = RemoveAt(ackNet, 1) /\ UNCHANGED <<receiverVars, early>>
      /\ \/ HandleAck(a) /\ UNCHANGED <<dataNet, faults>>
         \/ (FastRetransmit(a) \/ FastRetransmitTooShort(a) \/ FastRetransmitFails(a)) /\ DupAck(a)
      /\ overtaken' = (overtaken \/ (ackedPosition_' # ackedPosition_
                                       /\ SeekedByNewAck(a) /\ message_ # a.ack_num - 1))
  BY <1>1 DEF TakeAck, FastRetransmit, FastRetransmitTooShort, FastRetransmitFails,
              GiveUpRetransmitting
<1>3. a \in SoundAcks /\ a.ack_num \in Nat \ {0} /\ a.ack_num <= rAckedPosition_ + 1
  BY <1>1 DEF SoundAcks
<1>4. /\ ackedPosition_ \in Nat \ {0} /\ rAckedPosition_ \in Nat /\ fin_ \in BOOLEAN /\ message_ \in Int
  BY DEF Known, SenderTypes, ReceiverTypes
<1>5. RemoveAt(ackNet, 1) \in Seq(SoundAcks) /\ Len(RemoveAt(ackNet, 1)) = Len(ackNet) - 1
  BY <1>1, WithoutFirst
<1>6. /\ a.FIN <=> fin_ /\ Len(ackNet) = 1
      /\ ~a.FIN => ackedPosition_ < a.ack_num
      /\ Ascend(ackNet, ackedPosition_, fin_)
  BY <1>1 DEF Orderly, AcksAscend, Ascend
<1>7. /\ state_ \in {"SLOW_START", "CONGESTION_AVOIDANCE"} /\ cwnd_ \in Nat \ {0} /\ notAcked_ \in Int
      /\ result = "running" => notAcked_ = Len(dataNet) + Len(ackNet)
      /\ faults = 0 /\ early = 0 /\ listening /\ loss = R!NoLoss /\ DOMAIN buffer_ = {}
      /\ overtaken = FALSE
  BY DEF Orderly, WindowOpen, NothingHappened
<1> HIDE DEF a
<1>8. ~DupAck(a)
  BY <1>3, <1>4, <1>6 DEF DupAck
<1>9. HandleAck(a) /\ UNCHANGED <<dataNet, faults>>
  BY <1>2, <1>8
<1>10. CASE FinalAck(a)
  <2>1. /\ result' = "true" /\ a.FIN
        /\ UNCHANGED <<windowVars, streamVars, notAcked_, ackedPosition_>>
    BY <1>10 DEF FinalAck
  <2>2. Len(ackNet') = 0 /\ fin_
    <3>1. fin_ /\ Len(ackNet) = 1
      BY <1>6, <2>1
    <3>2. Len(ackNet') = Len(ackNet) - 1
      BY <1>2, <1>5
    <3> QED
      BY <3>1, <3>2
  <2>3. AcksAscend'
    BY <2>1, <2>2 DEF AcksAscend, Ascend
  <2>4. SegmentsFollow'
    BY <1>2, <1>9, <2>1 DEF Orderly, SegmentsFollow, Follow, FullRead, AfterRead, receiverVars, streamVars
  <2>5. NothingHappened'
    BY <1>2, <1>7, <1>9, <2>1 DEF NothingHappened, receiverVars
  <2>6. WindowOpen'
    BY <1>7, <2>1 DEF WindowOpen, windowVars
  <2> QED
    BY <2>3, <2>4, <2>5, <2>6 DEF Orderly
<1>11. CASE ~FinalAck(a)
  <2>1. SlowStartAck(a) \/ CongestionAvoidanceAck(a)
    BY <1>7, <1>8, <1>9, <1>11 DEF HandleAck, FirstDupAcks, InflateWindow, FastRecoveryAck
  <2>2. /\ NewAck(a) /\ notAcked_' = notAcked_ - 1
    BY <2>1 DEF SlowStartAck, CongestionAvoidanceAck
  <2>3. /\ ~a.FIN /\ ackedPosition_' = a.ack_num /\ UNCHANGED <<filePosition_, result>>
        /\ result = "running"
        /\ message_' = IF SeekedByNewAck(a) THEN a.ack_num - 1 ELSE message_
    BY <2>2 DEF NewAck, Waiting
  <2>4. SeekedByNewAck(a) => message_ = a.ack_num - 1
    BY <1>3, <1>4, StreamAhead DEF SeekedByNewAck, Failed
  <2>5. message_' = message_ /\ overtaken' = FALSE
    BY <1>2, <1>7, <2>3, <2>4
  <2>6. /\ cwnd_' \in Nat \ {0} /\ state_' \in {"SLOW_START", "CONGESTION_AVOIDANCE"}
    BY <1>7, <2>1 DEF SlowStartAck, CongestionAvoidanceAck
  <2>7. SegmentsFollow'
    BY <1>2, <1>9, <2>5 DEF Orderly, SegmentsFollow, Follow, FullRead, AfterRead, receiverVars
  <2>8. AcksAscend'
    <3>1. Ascend(RemoveAt(ackNet, 1), ackNet[1].ack_num, fin_)
      BY <1>1, <1>4, <1>6, <2>3, AscendWithoutFirst DEF a
    <3>2. Ascend(ackNet', ackedPosition_', fin_')
      BY <1>2, <2>3, <3>1 DEF a, receiverVars
    <3>3. fin_' => ackNet' # <<>>
      <4>1. fin_' => Len(RemoveAt(ackNet, 1)) # 0
        BY <1>1, <1>2, <1>5, <1>6, <2>3 DEF receiverVars
      <4> QED
        BY <1>2, <4>1
    <3> QED
      BY <3>2, <3>3 DEF AcksAscend, Ascend
  <2>9. NothingHappened'
    BY <1>2, <1>7, <1>9, <2>5 DEF NothingHappened, receiverVars
  <2>10. WindowOpen'
    BY <1>1, <1>2, <1>5, <1>7, <1>9, <2>2, <2>3, <2>6 DEF WindowOpen
  <2> QED
    BY <2>7, <2>8, <2>9, <2>10 DEF Orderly
<1> QED
  BY <1>10, <1>11

(* Nothing waits in the buffer, so what was received grows by the packet. *)
LEMMA ExpectedInOrder ==
  ASSUME DOMAIN buffer_ = {}, NEW p, p.FIN \in BOOLEAN, R!ExpectedPacket(p)
  PROVE  /\ rAckedPosition_' = rAckedPosition_ + p.data_len
         /\ fin_' = p.FIN
         /\ DOMAIN buffer_' = {}
<1> DEFINE n == rAckedPosition_ + p.data_len
           K == R!EarlyKeys(n)
<1>1. K = {}
  BY DEF R!EarlyKeys
<1>2. /\ rAckedPosition_' \in R!Ends(K, n)
      /\ fin_' = (p.FIN \/ \E k \in K : buffer_[k].fin)
      /\ buffer_' = [k \in DOMAIN buffer_ \ K |-> buffer_[k]]
  BY DEF R!ExpectedPacket
<1> HIDE DEF K, n
<1>3. R!Ends(K, n) = {n}
  BY <1>1 DEF R!Ends
<1> QED
  BY <1>1, <1>2, <1>3 DEF n

LEMMA TakeDataOrderly ==
  ASSUME Undisturbed, Known, Honest, Orderly, NEW i \in Arriving(dataNet), TakeData(i), UNCHANGED listening
  PROVE  Orderly'
<1> DEFINE p == dataNet[1]
<1>1. i = 1 /\ dataNet # <<>> /\ dataNet \in Seq(RP!HonestPackets) /\ 1 \in 1 .. Len(dataNet)
      /\ Len(dataNet) \in Nat /\ ackNet \in Seq(SoundAcks) /\ Len(ackNet) \in Nat
  BY DEF Known, Honest, Arriving, Undisturbed
<1>2. /\ dataNet' = RemoveAt(dataNet, 1)
      /\ \/ (\E src \in Peers : R!ReceivePacket(p, src)) /\ ackNet' = Append(ackNet, R!sendAck')
         \/ R!DropPacket
         \/ fin_
      /\ UNCHANGED <<senderVars, budgetVars, overtaken>>
  BY <1>1 DEF TakeData
<1>3. /\ rAckedPosition_ \in Nat /\ fin_ \in BOOLEAN /\ ackedPosition_ \in Nat \ {0}
      /\ ackedPosition_ <= rAckedPosition_ + 1
  BY DEF Known, ReceiverTypes, SenderTypes
<1>4. /\ p \in RP!HonestPackets /\ p.data \in 0 .. FileLen /\ p.seq_num = p.data + 1
      /\ p.data_len = GCount(p.data) /\ (p.FIN <=> ~FullRead(p.data)) /\ p.FIN \in BOOLEAN
  <2>1. p \in RP!HonestPackets
    BY <1>1
  <2>2. p.FIN \in BOOLEAN
    <3>1. p \in DataPackets
      BY <1>1 DEF Known
    <3> QED
      BY <3>1 DEF DataPackets
  <2> QED
    BY <2>1, <2>2, HonestFields
<1>5. /\ ~fin_ /\ p.data = rAckedPosition_ /\ Follow(dataNet, rAckedPosition_)
      /\ message_ = AfterRead(dataNet[Len(dataNet)].data)
  BY <1>1 DEF Orderly, SegmentsFollow, Follow
<1>6. loss = R!NoLoss /\ DOMAIN buffer_ = {} /\ loss.kind = "none"
  BY DEF Orderly, NothingHappened, R!NoLoss
<1> HIDE DEF p
<1>7. ~R!DropPacket
  BY <1>6 DEF R!DropPacket, R!MustDrop, R!StrayDrop
<1>8. PICK src \in Peers : R!ReceivePacket(p, src)
  BY <1>2, <1>5, <1>7
<1>9. R!ExpectedPacket(p) /\ loss' = loss /\ ackNet' = Append(ackNet, R!sendAck')
  <2>1. p.seq_num = rAckedPosition_ + 1
    BY <1>4, <1>5
  <2>2. ~R!EarlyPacket(p) /\ ~R!OldPacket(p)
    BY <1>3, <2>1 DEF R!EarlyPacket, R!OldPacket
  <2> QED
    BY <1>2, <1>5, <1>7, <1>8, <2>2 DEF R!ReceivePacket, R!Accept
<1>10. /\ rAckedPosition_' = rAckedPosition_ + GCount(rAckedPosition_)
       /\ fin_' = ~FullRead(rAckedPosition_)
       /\ DOMAIN buffer_' = {}
  BY <1>4, <1>5, <1>6, <1>9, ExpectedInOrder
<1>11. /\ RemoveAt(dataNet, 1) \in Seq(RP!HonestPackets)
       /\ Len(RemoveAt(dataNet, 1)) = Len(dataNet) - 1
       /\ \A k \in 1 .. Len(dataNet) - 1 : RemoveAt(dataNet, 1)[k] = dataNet[k + 1]
  BY <1>1, WithoutFirst
<1>12. FullRead(rAckedPosition_) => rAckedPosition_' = rAckedPosition_ + MMSBYTES
  BY <1>10 DEF GCount
<1>13. rAckedPosition_' \in Nat
  BY <1>3, <1>4, <1>5, <1>10, PacketAssumption DEF GCount, FullRead
<1>14. SegmentsFollow'
  <2>1. Len(dataNet) > 1 => FullRead(rAckedPosition_)
    <3>1. Len(dataNet) > 1 => 1 \in 1 .. Len(dataNet) - 1
      BY <1>1
    <3> QED
      BY <1>5, <3>1 DEF Follow, p
  <2>2. Follow(RemoveAt(dataNet, 1), rAckedPosition_')
    BY <1>1, <1>3, <1>5, <1>12, <1>13, <2>1, FollowWithoutFirst
  <2>3. CASE Len(dataNet) = 1
    <3>1. RemoveAt(dataNet, 1) = <<>>
      BY <1>11, <2>3
    <3>2. message_ = AfterRead(rAckedPosition_)
      BY <1>5, <2>3 DEF p
    <3>3. message_' = IF fin_' THEN Failed ELSE rAckedPosition_'
      BY <1>2, <1>10, <1>12, <3>2 DEF AfterRead, senderVars, streamVars
    <3> QED
      BY <1>2, <2>2, <3>1, <3>3 DEF SegmentsFollow, Follow, FullRead
  <2>4. CASE Len(dataNet) > 1
    <3>1. RemoveAt(dataNet, 1) # <<>>
      BY <1>11, <2>4
    <3>2. RemoveAt(dataNet, 1)[Len(RemoveAt(dataNet, 1))] = dataNet[Len(dataNet)]
      <4>1. Len(dataNet) - 1 \in 1 .. Len(dataNet) - 1 /\ (Len(dataNet) - 1) + 1 = Len(dataNet)
        BY <1>1, <2>4
      <4> QED
        BY <1>11, <4>1
    <3>3. message_' = message_ /\ ~fin_'
      BY <1>2, <1>10, <2>1, <2>4 DEF senderVars, streamVars
    <3> QED
      BY <1>2, <1>5, <2>2, <3>1, <3>2, <3>3 DEF SegmentsFollow, Follow, FullRead, AfterRead
  <2>5. Len(dataNet) \in Nat /\ Len(dataNet) # 0
    BY <1>1
  <2> QED
    BY <2>3, <2>4, <2>5
<1>15. /\ R!sendAck' = [ack_num |-> rAckedPosition_' + 1, FIN |-> fin_']
       /\ fin_' \in BOOLEAN
  BY <1>10 DEF R!sendAck
<1>16. AcksAscend'
  <2> DEFINE S == [ack_num : Nat \ {0}, FIN : BOOLEAN]
             a == R!sendAck'
             n == rAckedPosition_ + 1
  <2>1. ackNet \in Seq(S) /\ \A b \in S : b.ack_num \in Nat
    <3>1. SoundAcks \subseteq S
      BY DEF SoundAcks
    <3> QED
      BY <1>1, <3>1, SeqGrows
  <2>2. a \in S /\ a.FIN \in BOOLEAN /\ a.FIN = fin_' /\ a.ack_num = rAckedPosition_' + 1
    <3>1. a.FIN = fin_' /\ a.ack_num = rAckedPosition_' + 1
      BY <1>15, Zenon
    <3>2. a \in S
      BY <1>13, <1>15, AckFacts
    <3> QED
      BY <1>15, <3>1, <3>2
  <2>3. ~a.FIN => n < a.ack_num
    BY <1>3, <1>10, <1>12, <2>2, PacketAssumption
  <2>4. \A k \in 1 .. Len(ackNet) : ackNet[k].ack_num <= n
    BY <1>1 DEF SoundAcks
  <2>5. Ascend(ackNet, ackedPosition_, FALSE)
    <3>1. fin_ = FALSE
      BY <1>3, <1>5
    <3> QED
      BY <3>1 DEF Orderly, AcksAscend
  <2>6. n \in Nat /\ ackedPosition_ \in Nat /\ ackedPosition_ <= n
    BY <1>3
  <2> HIDE DEF S, a, n
  <2>7. Ascend(Append(ackNet, a), ackedPosition_, a.FIN)
    BY <2>1, <2>2, <2>3, <2>4, <2>5, <2>6, AscendWithNext
  <2>8. Ascend(ackNet', ackedPosition_', fin_')
    BY <1>2, <1>9, <2>2, <2>7 DEF a, senderVars
  <2>9. ackNet' # <<>>
    BY <1>1, <1>9
  <2> QED
    BY <2>8, <2>9 DEF AcksAscend, Ascend
<1>17. NothingHappened'
  BY <1>2, <1>9, <1>10 DEF Orderly, NothingHappened, budgetVars
<1>18. WindowOpen'
  <2>1. Len(Append(ackNet, R!sendAck')) = Len(ackNet) + 1
    BY <1>1
  <2>2. Len(ackNet') = Len(ackNet) + 1 /\ Len(dataNet') = Len(dataNet) - 1
    BY <1>2, <1>9, <1>11, <2>1
  <2>3. UNCHANGED <<state_, cwnd_, notAcked_, result>>
    BY <1>2 DEF senderVars, windowVars
  <2> QED
    BY <1>1, <2>2, <2>3 DEF Orderly, WindowOpen
<1> QED
  BY <1>14, <1>16, <1>17, <1>18 DEF Orderly

(* While the sender waits something is under way. *)
LEMMA NoTimeout ==
  ASSUME Undisturbed, Known, Honest, Orderly
  PROVE  ~SenderTimeout
<1> SUFFICES ASSUME SenderTimeout PROVE FALSE
  OBVIOUS
<1>1. NothingUnderWay /\ result = "running" /\ ~CanSend
  BY DEF SenderTimeout, Timeout, Waiting, Undisturbed, Orderly, NothingHappened
<1>2. notAcked_ = 0 /\ cwnd_ \in Nat \ {0}
  BY <1>1 DEF NothingUnderWay, Orderly, WindowOpen
<1>3. ~fin_ /\ message_ = rAckedPosition_
  BY <1>1 DEF NothingUnderWay, Orderly, AcksAscend, SegmentsFollow
<1>4. rAckedPosition_ \in Nat
  BY DEF Known, ReceiverTypes
<1> QED
  BY <1>1, <1>2, <1>3, <1>4, SenderAssumption DEF CanSend, Failed

LEMMA NextOrderly ==
  ASSUME Undisturbed, Known, Honest, Orderly, [RestartNext]_allVars
  PROVE  Orderly'
<1>1. faults = 0 /\ MaxFaults = 0 /\ listening
  BY DEF Undisturbed, Orderly, NothingHappened
<1>2. ~OneFault /\ ~Failing
  BY <1>1 DEF OneFault, Failing, Fault
<1>3. ~StartReceiver /\ ~RestartSender /\ ~Unheard
  BY <1>1, <1>2 DEF StartReceiver, RestartSender, Unheard
<1>4. CASE Ending \/ UNCHANGED allVars
  BY <1>4, OrderUnseen DEF Ending, Finished, allVars
<1>5. CASE Receiving
  BY <1>5, TakeDataOrderly DEF Receiving, AnyData
<1>6. CASE Sending(SendFile)
  BY <1>6, SendOrderly DEF Sending
<1>7. CASE Sending(AnyAck)
  BY <1>7, TakeAckOrderly DEF Sending, AnyAck
<1>8. CASE Sending(SenderTimeout)
  BY <1>8, NoTimeout DEF Sending
<1> QED
  BY <1>2, <1>3, <1>4, <1>5, <1>6, <1>7, <1>8 DEF RestartNext

LEMMA OverrunStays ==
  ASSUME [RestartNext]_allVars
  PROVE  overrun' = overrun
<1>1. \A a \in DOMAIN ackNet : TakeAck(a) => overrun' = overrun
  BY DEF TakeAck, HandleAck, FinalAck, FirstDupAcks, InflateWindow, DupAck, SlowStartAck,
         CongestionAvoidanceAck, FastRecoveryAck, NewAck, FastRetransmit, FastRetransmitTooShort,
         FastRetransmitFails, GiveUpRetransmitting
<1>2. AnyAck => overrun' = overrun
  BY <1>1 DEF AnyAck, Arriving
<1>3. SendFile => overrun' = overrun
  BY DEF SendFile, SendNext, SendNextFails
<1> QED
  BY <1>2, <1>3 DEF RestartNext, StartReceiver, RestartSender, Constructed, Unheard, Receiving, AnyData,
     TakeData, Failing, Fault, Ending, Finished, Sending, SenderTimeout, Timeout, senderVars, vars, allVars

(* While strlen() runs on by the two bytes that sendData() subtracts. *)
OrderlyIfCompensated == overrun = 2 => Honest /\ Orderly

LEMMA SpecOrderly ==
  ASSUME Undisturbed
  PROVE  RestartSpec => []OrderlyIfCompensated
<1>1. RestartInit => OrderlyIfCompensated
  BY InitHonest, InitOrderly DEF OrderlyIfCompensated
<1>2. Known /\ OrderlyIfCompensated /\ [RestartNext]_allVars => OrderlyIfCompensated'
  <2> SUFFICES ASSUME Known, Honest, Orderly, overrun = 2, [RestartNext]_allVars
               PROVE  Honest' /\ Orderly'
    BY OverrunStays DEF OrderlyIfCompensated
  <2>1. Orderly'
    BY NextOrderly
  <2>2. ~overtaken /\ ~overtaken'
    BY <2>1 DEF Orderly, NothingHappened
  <2> QED
    BY <2>1, <2>2, NextHonest
<1> QED
  BY <1>1, <1>2, SpecKnown, PTL DEF RestartSpec

(* The comment at notAcked_, "number of sent messages and not acked", is
   right as long as nothing is lost, repeated, late or out of order, however
   far the windows open: it is what is on its way to and from the receiver. *)
THEOREM CountIsOfWhatIsInFlight ==
  ASSUME Undisturbed
  PROVE  RestartSpec => []CountsInFlight
<1>1. OrderlyIfCompensated => CountsInFlight
  BY DEF OrderlyIfCompensated, Orderly, WindowOpen, CountsInFlight
<1> QED
  BY <1>1, SpecOrderly, PTL

(* And what the receiver saves as "the next packet we expected" is the next
   part of the file: newAck() never finds the stream behind an ack_num.     *)
THEOREM ExpectedBytesAreSaved ==
  ASSUME Undisturbed, Overruns = {2}
  PROVE  RestartSpec => []SavedBytesAreExpected
<1>1. Known /\ OrderlyIfCompensated => SavedBytesAreExpected
  <2> SUFFICES ASSUME Known, Honest PROVE Delivered(rAckedPosition_)
    BY DEF OrderlyIfCompensated, SavedBytesAreExpected, Known, SenderTypes
  <2> QED
    BY DEF Honest, RP!IInv, RP!InOrder, Delivered
<1> QED
  BY <1>1, SpecKnown, SpecOrderly, PTL
=============================================================================
