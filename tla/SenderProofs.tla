---------------------------- MODULE SenderProofs ----------------------------
(***************************************************************************)
(* Proofs about SenderOpen, for every file, segment size, window bound and *)
(* threshold, and for whatever acknowledgements arrive.                    *)
(*                                                                         *)
(* The inductive invariant IInv adds WholeWindows: in FAST_RECOVERY        *)
(* ssthresh_ is a whole number of packets.  Without it, deflating the      *)
(* window to ssthresh_/MMSBYTES could round a positive threshold to the    *)
(* window 0, in which congestion avoidance never grows.                    *)
(***************************************************************************)
EXTENDS SenderOpen, TLAPS

WholeWindows ==
  state_ = "FAST_RECOVERY" => \E w \in Nat : ssthresh_ = w * MMSBYTES

IInv ==
  /\ TypeOK
  /\ ThreeDupAcksMeanFastRecovery
  /\ InflatedWindow
  /\ WholeWindows
  /\ CongestionAvoidanceGrows
  /\ SlowStartBelowThreshold

-----------------------------------------------------------------------------
(* Arithmetic *)

(* A whole number of packets is that number of packets. *)
LEMMA DivTimes ==
  ASSUME NEW w \in Nat, NEW m \in Nat \ {0}
  PROVE  w * m \in Nat /\ (w * m) \div m = w
OBVIOUS

(* Reading from the file: positions stay positions. *)
LEMMA ReadFacts ==
  ASSUME NEW pos \in Nat
  PROVE  /\ GCount(pos) \in Nat
         /\ AfterRead(pos) \in Nat \cup {Failed}
         /\ FullRead(pos) => pos + MMSBYTES < Wrap
BY PacketAssumption DEF GCount, AfterRead, FullRead

(* Conversions to uint32_t and back. *)
LEMMA U32Facts ==
  /\ \A x \in Int : U32(x) \in 0 .. Wrap - 1
  /\ \A x \in 0 .. Wrap - 1 : /\ U32(x) = x
                              /\ ToInt(x) \in Int
                              /\ ToInt(x) >= 0 => ToInt(x) = x
BY PacketAssumption DEF U32, ToInt

-----------------------------------------------------------------------------
(* Type correctness, action by action *)

(* What every acknowledgement leaves of the byte counts. *)
LEMMA MissingByteType ==
  ASSUME TypeOK
  PROVE  MissingByte \in 0 .. FileLen /\ MissingByte \in 0 .. Wrap - 1
BY PacketAssumption DEF TypeOK, MissingByte

(* The initial state satisfies the inductive invariant. *)
LEMMA InitIInv == SenderInit => IInv
<1> SUFFICES ASSUME SenderInit PROVE IInv
  OBVIOUS
<1> USE PacketAssumption, SenderAssumption DEF SenderInit
<1>1. TypeOK
  BY DEF TypeOK
<1>2. /\ ThreeDupAcksMeanFastRecovery /\ InflatedWindow /\ WholeWindows
      /\ CongestionAvoidanceGrows /\ SlowStartBelowThreshold
  BY DEF ThreeDupAcksMeanFastRecovery, InflatedWindow, WholeWindows,
         CongestionAvoidanceGrows, SlowStartBelowThreshold
<1> QED
  BY <1>1, <1>2 DEF IInv

(* Sending changes nothing that the window invariants speak of. *)
LEMMA SendIInv ==
  ASSUME IInv, SendNext \/ SendNextFails
  PROVE  IInv'
<1>1. message_ \in Nat /\ overrun \in Nat
  BY SenderAssumption DEF IInv, TypeOK, SendNext, SendNextFails, CanSend
<1>2. BytesSent(message_) \in Int
  BY <1>1, ReadFacts, PacketAssumption DEF BytesSent
<1>3. TypeOK'
  <2>1. filePosition_' \in 0 .. Wrap - 1
    BY <1>2, U32Facts, PacketAssumption DEF IInv, TypeOK, SendNext, SendNextFails
  <2>2. message_' \in Nat \cup {Failed}
    BY <1>1, ReadFacts DEF SendNext, SendNextFails
  <2>3. notAcked_' \in Int /\ result' \in {"running", "true", "false"}
    BY DEF IInv, TypeOK, SendNext, SendNextFails
  <2> QED
    BY <2>1, <2>2, <2>3 DEF IInv, TypeOK, SendNext, SendNextFails, windowVars
<1>4. UNCHANGED <<cwnd_, ssthresh_, caAckCount_, state_, dupAckCount_>>
  BY DEF SendNext, SendNextFails, windowVars
<1> QED
  BY <1>3, <1>4 DEF IInv, ThreeDupAcksMeanFastRecovery, InflatedWindow, WholeWindows,
                    CongestionAvoidanceGrows, SlowStartBelowThreshold

(* What a third duplicate makes of the window, whether or not the
   retransmission succeeds.                                                *)
LEMMA EnterFastRecoveryIInv ==
  ASSUME IInv, NEW a \in PossibleAcks,
         FastRetransmit(a) \/ FastRetransmitTooShort(a) \/ FastRetransmitFails(a)
  PROVE  IInv'
<1>1. /\ Waiting /\ dupAckCount_' = 3 /\ EnterFastRecovery
      /\ UNCHANGED <<ackedPosition_, overrun>>
  BY DEF FastRetransmit, FastRetransmitTooShort, FastRetransmitFails,
         GiveUpRetransmitting, DupAck
<1>2. cwnd_ \in Nat /\ cwnd_ \div 2 \in Nat
  BY DEF IInv, TypeOK
<1>3. /\ ssthresh_' \in Nat
      /\ ssthresh_' \div MMSBYTES = cwnd_ \div 2
      /\ ssthresh_' = (cwnd_ \div 2) * MMSBYTES
  BY <1>1, <1>2, DivTimes, PacketAssumption DEF EnterFastRecovery
<1>4. TypeOK'
  <2>1. filePosition_' \in 0 .. Wrap - 1 /\ message_' \in Nat \cup {Failed}
    <3>1. CASE FastRetransmit(a)
      <4>1. StartPosition \in Int
        BY U32Facts DEF StartPosition, IInv, TypeOK, Failed
      <4> QED
        BY <3>1, <4>1, U32Facts DEF FastRetransmit, ResumeReading
    <3>2. CASE FastRetransmitTooShort(a) \/ FastRetransmitFails(a)
      <4>1. MissingByte \in Nat /\ MissingByte \in 0 .. Wrap - 1
        BY MissingByteType DEF IInv
      <4> QED
        BY <3>2, <4>1, ReadFacts DEF FastRetransmitTooShort, FastRetransmitFails, GiveUpRetransmitting
    <3> QED
      BY <3>1, <3>2
  <2>2. notAcked_' \in Int /\ result' \in {"running", "true", "false"}
    BY <1>2 DEF FastRetransmit, FastRetransmitTooShort, FastRetransmitFails,
                GiveUpRetransmitting, IInv, TypeOK
  <2> QED
    BY <1>1, <1>2, <1>3, <2>1, <2>2 DEF EnterFastRecovery, IInv, TypeOK
<1>5. state_' = "FAST_RECOVERY" /\ cwnd_' = cwnd_ \div 2 + 3
  BY <1>1 DEF EnterFastRecovery
<1>6. ThreeDupAcksMeanFastRecovery' /\ InflatedWindow'
  BY <1>1, <1>3, <1>5 DEF ThreeDupAcksMeanFastRecovery, InflatedWindow
<1>7. WholeWindows'
  BY <1>2, <1>3 DEF WholeWindows
<1>8. CongestionAvoidanceGrows' /\ SlowStartBelowThreshold'
  BY <1>5 DEF CongestionAvoidanceGrows, SlowStartBelowThreshold
<1> QED
  BY <1>4, <1>6, <1>7, <1>8 DEF IInv

(* An acknowledgement that is a duplicate or the last one. *)
LEMMA DuplicateIInv ==
  ASSUME IInv, NEW a \in PossibleAcks,
         FinalAck(a) \/ FirstDupAcks(a) \/ InflateWindow(a)
  PROVE  IInv'
<1>1. CASE FinalAck(a)
  BY <1>1 DEF FinalAck, windowVars, streamVars, IInv, TypeOK, ThreeDupAcksMeanFastRecovery,
              InflatedWindow, WholeWindows, CongestionAvoidanceGrows, SlowStartBelowThreshold
<1>2. CASE FirstDupAcks(a)
  <2>1. /\ state_ # "FAST_RECOVERY" /\ dupAckCount_ < 3 /\ dupAckCount_' < 3
        /\ dupAckCount_' \in Nat
        /\ UNCHANGED <<cwnd_, ssthresh_, caAckCount_, state_, filePosition_, message_,
                       notAcked_, result, ackedPosition_, overrun>>
    BY <1>2 DEF FirstDupAcks, DupAck, windowVars, streamVars, IInv, TypeOK,
                ThreeDupAcksMeanFastRecovery
  <2>2. TypeOK'
    BY <2>1 DEF IInv, TypeOK
  <2> QED
    BY <2>1, <2>2 DEF IInv, TypeOK, ThreeDupAcksMeanFastRecovery, InflatedWindow,
                      WholeWindows, CongestionAvoidanceGrows, SlowStartBelowThreshold
<1>3. CASE InflateWindow(a)
  <2>1. /\ state_ = "FAST_RECOVERY" /\ cwnd_' = cwnd_ + 1
        /\ dupAckCount_' = dupAckCount_ + 1
        /\ UNCHANGED <<filePosition_, message_, notAcked_, ssthresh_, caAckCount_,
                       state_, result, ackedPosition_, overrun>>
    BY <1>3 DEF InflateWindow, DupAck, streamVars
  <2>2. TypeOK'
    BY <2>1 DEF IInv, TypeOK
  <2>3. ssthresh_ \div MMSBYTES \in Nat
    BY PacketAssumption DEF IInv, TypeOK
  <2>4. ThreeDupAcksMeanFastRecovery' /\ InflatedWindow'
    BY <2>1, <2>3 DEF IInv, TypeOK, ThreeDupAcksMeanFastRecovery, InflatedWindow
  <2> QED
    BY <2>1, <2>2, <2>4 DEF IInv, WholeWindows, CongestionAvoidanceGrows, SlowStartBelowThreshold
<1> QED
  BY <1>1, <1>2, <1>3

(* What newAck() does to the other fields. *)
LEMMA NewAckFacts ==
  ASSUME IInv, NEW a \in PossibleAcks, NewAck(a)
  PROVE  /\ ackedPosition_' \in 1 .. FileLen + 1
         /\ message_' \in Nat \cup {Failed}
         /\ dupAckCount_' = 0
         /\ ackedPosition_ < a.ack_num /\ a.ack_num \in Nat
         /\ UNCHANGED <<filePosition_, overrun, result>>
<1>1. a.ack_num \in 1 .. FileLen + 1
  BY DEF PossibleAcks
<1> QED
  BY <1>1, PacketAssumption DEF NewAck, IInv, TypeOK

(* An acknowledgement of new data. *)
LEMMA NewAckIInv ==
  ASSUME IInv, NEW a \in PossibleAcks,
         SlowStartAck(a) \/ CongestionAvoidanceAck(a) \/ FastRecoveryAck(a)
  PROVE  IInv'
<1>1. NewAck(a)
  BY DEF SlowStartAck, CongestionAvoidanceAck, FastRecoveryAck
<1>2. /\ cwnd_' \in Nat /\ caAckCount_' \in Int /\ notAcked_' \in Int
      /\ state_' \in {"SLOW_START", "CONGESTION_AVOIDANCE"}
      /\ CongestionAvoidanceGrows' /\ SlowStartBelowThreshold'
      /\ UNCHANGED ssthresh_
  <2>1. CASE SlowStartAck(a)
    <3>1. cwnd_' = cwnd_ + 1 /\ notAcked_' = notAcked_ - 1 /\ UNCHANGED ssthresh_
      BY <2>1 DEF SlowStartAck
    <3>2. CASE ThresholdReached(cwnd_')
      <4>1. caAckCount_' = 0 /\ state_' = "CONGESTION_AVOIDANCE"
        BY <2>1, <3>2 DEF SlowStartAck
      <4> QED
        BY <3>1, <4>1 DEF IInv, TypeOK, CongestionAvoidanceGrows, SlowStartBelowThreshold
    <3>3. CASE ~ThresholdReached(cwnd_')
      <4>1. UNCHANGED <<caAckCount_, state_>> /\ state_ = "SLOW_START"
        BY <2>1, <3>3 DEF SlowStartAck
      <4>2. cwnd_' * MMSBYTES < ssthresh_
        BY <3>1, <3>3, PacketAssumption DEF ThresholdReached, IInv, TypeOK
      <4> QED
        BY <3>1, <4>1, <4>2 DEF IInv, TypeOK, CongestionAvoidanceGrows, SlowStartBelowThreshold
    <3> QED
      BY <3>2, <3>3
  <2>2. CASE CongestionAvoidanceAck(a)
    BY <2>2 DEF CongestionAvoidanceAck, WindowAcked, IInv, TypeOK,
                CongestionAvoidanceGrows, SlowStartBelowThreshold
  <2>3. CASE FastRecoveryAck(a)
    <3>1. /\ state_ = "FAST_RECOVERY" /\ cwnd_' = ssthresh_ \div MMSBYTES /\ caAckCount_' = 0
          /\ state_' = "CONGESTION_AVOIDANCE" /\ UNCHANGED ssthresh_
          /\ notAcked_' = notAcked_ - (a.ack_num - ackedPosition_) \div MMSBYTES
      BY <2>3 DEF FastRecoveryAck
    <3>2. PICK w \in Nat : ssthresh_ = w * MMSBYTES
      BY <3>1 DEF IInv, WholeWindows
    <3>3. cwnd_' = w
      BY <3>1, <3>2, DivTimes, PacketAssumption
    <3>4. w = 0 => ssthresh_ = 0
      BY <3>2, PacketAssumption
    <3>5. CongestionAvoidanceGrows'
      BY <3>1, <3>3, <3>4 DEF CongestionAvoidanceGrows
    <3>6. notAcked_' \in Int
      <4>1. (a.ack_num - ackedPosition_) \div MMSBYTES \in Int
        BY <1>1, NewAckFacts, PacketAssumption DEF IInv, TypeOK
      <4> QED
        BY <3>1, <4>1 DEF IInv, TypeOK
    <3> QED
      BY <3>1, <3>3, <3>5, <3>6 DEF SlowStartBelowThreshold
  <2> QED
    BY <2>1, <2>2, <2>3
<1>3. TypeOK'
  BY <1>1, <1>2, NewAckFacts DEF IInv, TypeOK
<1> QED
  BY <1>1, <1>2, <1>3, NewAckFacts
     DEF IInv, ThreeDupAcksMeanFastRecovery, InflatedWindow, WholeWindows

(* A timeout starts the window again. *)
LEMMA TimeoutIInv ==
  ASSUME IInv, Timeout
  PROVE  IInv'
<1>1. (cwnd_ * MMSBYTES) \div 2 \in Nat
  BY PacketAssumption DEF IInv, TypeOK
<1>2. MissingByte \in Nat /\ MissingByte \in 0 .. Wrap - 1
  BY MissingByteType DEF IInv
<1>3. TypeOK'
  BY <1>1, <1>2 DEF Timeout, IInv, TypeOK
<1> QED
  BY <1>3 DEF Timeout, IInv, ThreeDupAcksMeanFastRecovery, InflatedWindow, WholeWindows,
              CongestionAvoidanceGrows, SlowStartBelowThreshold

(* Every step preserves the inductive invariant. *)
LEMMA NextIInv == IInv /\ [Next]_senderVars => IInv'
<1> SUFFICES ASSUME IInv, [Next]_senderVars PROVE IInv'
  OBVIOUS
<1>1. CASE SendNext \/ SendNextFails
  BY <1>1, SendIInv
<1>2. CASE AckArrives
  BY <1>2, DuplicateIInv, NewAckIInv, EnterFastRecoveryIInv DEF AckArrives, HandleAck
<1>3. CASE Timeout
  BY <1>3, TimeoutIInv
<1>4. CASE UNCHANGED senderVars
  BY <1>4 DEF senderVars, windowVars, streamVars, IInv, TypeOK, ThreeDupAcksMeanFastRecovery,
              InflatedWindow, WholeWindows, CongestionAvoidanceGrows, SlowStartBelowThreshold
<1> QED
  BY <1>1, <1>2, <1>3, <1>4 DEF Next

(* IInv holds in every reachable state. *)
LEMMA SpecIInv == Spec => []IInv
BY InitIInv, NextIInv, PTL DEF Spec

-----------------------------------------------------------------------------
(* The fields of SenderStateMachine keep their types: cwnd_ and ssthresh_
   never go negative, and what is assigned to filePosition_ is a uint32_t. *)
THEOREM TypeCorrect == Spec => []TypeOK
<1>1. IInv => TypeOK
  BY DEF IInv
<1> QED
  BY <1>1, SpecIInv, PTL

(* The count of duplicates and the state never get out of step, so that the
   test for exactly three duplicates never misses the third.               *)
THEOREM DupAcksAndState == Spec => []ThreeDupAcksMeanFastRecovery
<1>1. IInv => ThreeDupAcksMeanFastRecovery
  BY DEF IInv
<1> QED
  BY <1>1, SpecIInv, PTL

(* Fast recovery inflates the window by one packet per duplicate. *)
THEOREM WindowInflation == Spec => []InflatedWindow
<1>1. IInv => InflatedWindow
  BY DEF IInv
<1> QED
  BY <1>1, SpecIInv, PTL

(* caReceive()'s test for equality is never passed by, except at window 0. *)
THEOREM AvoidanceGrows == Spec => []CongestionAvoidanceGrows
<1>1. IInv => CongestionAvoidanceGrows
  BY DEF IInv
<1> QED
  BY <1>1, SpecIInv, PTL

(* Slow start never runs past ssthresh_. *)
THEOREM SlowStartEnds == Spec => []SlowStartBelowThreshold
<1>1. IInv => SlowStartBelowThreshold
  BY DEF IInv
<1> QED
  BY <1>1, SpecIInv, PTL

-----------------------------------------------------------------------------
(* The label of the next segment.  A step other than newAck()'s seek keeps
   it equal to the position of the stream, when strlen() counts the two
   bytes that sendData() takes off.                                        *)
LEMMA StepAligned ==
  ASSUME Overruns = {2}, IInv, Next, Aligned, ~Aligned'
  PROVE  0 < message_ /\ message_ < ackedPosition_' - 1 /\ ackedPosition_ # ackedPosition_'
<1>1. /\ result' = "running" /\ message_' # Failed /\ filePosition_' # message_'
      /\ (message_ # Failed => filePosition_ = message_ \/ result # "running")
  BY DEF Aligned
<1>2. /\ overrun = 2 /\ message_ \in Nat \cup {Failed} /\ filePosition_ \in 0 .. Wrap - 1
      /\ ackedPosition_ \in 1 .. FileLen + 1
  BY DEF IInv, TypeOK
<1>3. CASE SendNext \/ SendNextFails
  <2>1. /\ FullRead(message_) /\ SendNext /\ message_ \in Nat
        /\ filePosition_ = message_
    BY <1>1, <1>2, <1>3 DEF SendNext, SendNextFails, AfterRead, CanSend
  <2>2. message_' = message_ + MMSBYTES /\ BytesSent(message_) = MMSBYTES
    BY <1>2, <2>1, PacketAssumption DEF SendNext, AfterRead, BytesSent
  <2>3. filePosition_' = U32(message_ + MMSBYTES)
    BY <2>1, <2>2 DEF SendNext
  <2>4. message_ + MMSBYTES \in 0 .. Wrap - 1
    BY <2>1, ReadFacts, PacketAssumption
  <2> QED
    BY <1>1, <2>2, <2>3, <2>4, U32Facts
<1>4. CASE Timeout
  BY <1>1, <1>4 DEF Timeout
<1>5. CASE AckArrives
  <2>1. PICK a \in PossibleAcks :
          \/ HandleAck(a) \/ FastRetransmit(a)
          \/ FastRetransmitTooShort(a) \/ FastRetransmitFails(a)
    BY <1>5 DEF AckArrives
  <2>2. Waiting /\ result = "running"
    BY <2>1 DEF HandleAck, FinalAck, FirstDupAcks, InflateWindow, SlowStartAck,
                CongestionAvoidanceAck, FastRecoveryAck, FastRetransmit,
                FastRetransmitTooShort, FastRetransmitFails, GiveUpRetransmitting,
                DupAck, NewAck, Waiting
  <2>3. ~(FinalAck(a) \/ FirstDupAcks(a) \/ InflateWindow(a))
    BY <1>1, <2>2 DEF FinalAck, FirstDupAcks, InflateWindow, streamVars
  <2>4. ~(FastRetransmitTooShort(a) \/ FastRetransmitFails(a))
    BY <1>1 DEF FastRetransmitTooShort, FastRetransmitFails, GiveUpRetransmitting
  <2>5. ~FastRetransmit(a)
    <3>1. SUFFICES ASSUME FastRetransmit(a) PROVE FALSE
      OBVIOUS
    <3>2. /\ StartPosition >= 0 /\ message_' = StartPosition
          /\ filePosition_' = U32(StartPosition)
      BY <1>1, <3>1 DEF FastRetransmit, ResumeReading
    <3>3. StartPosition \in 0 .. Wrap - 1
      BY <1>1, <1>2, <2>2, <3>2, U32Facts DEF StartPosition
    <3> QED
      BY <1>1, <3>2, <3>3, U32Facts
  <2>6. NewAck(a)
    BY <2>1, <2>3, <2>4, <2>5 DEF HandleAck, SlowStartAck, CongestionAvoidanceAck, FastRecoveryAck
  <2>7. SeekedByNewAck(a) /\ message_ # a.ack_num - 1
    BY <1>1, <2>2, <2>6 DEF NewAck
  <2> QED
    BY <1>2, <2>6, <2>7, NewAckFacts DEF NewAck, SeekedByNewAck, Failed
<1> QED
  BY <1>3, <1>4, <1>5 DEF Next

(* On a build whose strlen() overrun is the two bytes sendData() takes off,
   timeouts, fast retransmissions, failing sends and the end of the file
   never separate a segment's label from its content: only newAck()'s seek
   past bytes that a timeout had gone back to does.                        *)
THEOREM OnlyNewAckSeparatesLabelAndContent ==
  ASSUME Overruns = {2}
  PROVE  Spec => OnlyNewAckMislabels
<1>1. IInv /\ [Next]_senderVars =>
        [Aligned /\ ~Aligned' =>
           0 < message_ /\ message_ < ackedPosition_' - 1 /\ ackedPosition_ # ackedPosition_']_senderVars
  BY StepAligned
<1> QED
  BY <1>1, SpecIInv, PTL DEF Spec, OnlyNewAckMislabels
=============================================================================
