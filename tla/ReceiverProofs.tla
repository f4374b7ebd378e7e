--------------------------- MODULE ReceiverProofs ---------------------------
(***************************************************************************)
(* Proofs about ReceiverOpen, for every file, segment size, loss pattern   *)
(* and number of peers.                                                    *)
(*                                                                         *)
(* The inductive invariant IInv adds HonestBuffer to the properties of     *)
(* ReceiverOpen: what waits in buffer_ is what a segment of the file at    *)
(* that offset carries.  The one hard step is ExpectedPacket: the early    *)
(* segments it consumes cover every byte up to the new ackedPosition_      *)
(* (lemma Covered) and leave none behind that is due (lemma NoneLeft).     *)
(***************************************************************************)
EXTENDS ReceiverOpen, WellFoundedInduction, TLAPS

HonestBuffer ==
  \A k \in DOMAIN buffer_ :
    /\ k \in 1 .. FileLen + 1
    /\ buffer_[k] = [data |-> k - 1, len |-> GCount(k - 1), fin |-> ~FullRead(k - 1)]

IInv ==
  /\ TypeOK
  /\ InOrder
  /\ ackedPosition_ <= FileLen
  /\ Complete
  /\ HonestBuffer
  /\ NothingDueIsBuffered
  /\ ReplyAddressKnown

-----------------------------------------------------------------------------
(* The least number principle, from the well-foundedness of < on Nat in the
   library.  LessThan names the relation as a set.                         *)
LessThan == {ss \in Nat \X Nat : ss[1] < ss[2]}

LEMMA LeastElement ==
  ASSUME NEW T, T \subseteq Nat, T # {}
  PROVE  \E x \in T : \A y \in T : x <= y
<1>1. IsWellFoundedOn(LessThan, Nat)
  BY NatLessThanWellFounded DEF OpToRel, LessThan
<1>2. PICK x \in T : \A y \in T : <<y, x>> \notin LessThan
  BY <1>1, WFMin
<1>3. \A y \in T : ~(y < x)
  BY <1>2 DEF LessThan
<1> QED
  BY <1>3

(* What a read at pos returns. *)
LEMMA GCountFacts ==
  ASSUME NEW pos \in 0 .. FileLen
  PROVE  /\ GCount(pos) \in 0 .. MMSBYTES
         /\ pos + GCount(pos) <= FileLen
         /\ FullRead(pos) \in BOOLEAN
         /\ ~FullRead(pos) => pos + GCount(pos) = FileLen
         /\ FullRead(pos) => GCount(pos) > 0
BY PacketAssumption DEF GCount, FullRead

(* The fields of an honestly labelled segment. *)
LEMMA SegmentFacts ==
  ASSUME NEW p \in HonestPackets
  PROVE  /\ p.seq_num \in 1 .. FileLen + 1
         /\ p.seq_num < Wrap
         /\ p.data = p.seq_num - 1
         /\ p.data_len = GCount(p.seq_num - 1)
         /\ p.FIN = ~FullRead(p.seq_num - 1)
<1>1. PICK pos \in 0 .. FileLen : p = Segment(pos, pos)
  BY DEF HonestPackets
<1>2. U32(pos + 1) = pos + 1
  <2>1. pos + 1 \in 0 .. Wrap - 1
    BY PacketAssumption
  <2> QED
    BY <2>1, PacketAssumption DEF U32
<1> QED
  BY <1>1, <1>2, PacketAssumption DEF Segment

-----------------------------------------------------------------------------
(* checkEarlyData() *)

(* A union of linked sets is linked. *)
LEMMA EarlyKeysLinked ==
  ASSUME NEW n
  PROVE  Linked(EarlyKeys(n), n) /\ EarlyKeys(n) \subseteq DOMAIN buffer_
BY DEF Linked, EarlyKeys

(* All that the two lemmas that follow ask of buffer_: whatever it holds,
   keys and lengths are numbers.                                           *)
Sized == \A k \in DOMAIN buffer_ : k \in Nat /\ buffer_[k].len \in Nat

LEMMA HonestIsSized == HonestBuffer => Sized
BY GCountFacts, PacketAssumption DEF HonestBuffer, Sized

(* Every byte after n up to the end of an early segment taken is in one of
   the segments taken: the least key above the byte was linked from a key
   that is not above it.                                                   *)
LEMMA Covered ==
  ASSUME Sized, NEW n \in Nat, NEW e \in Ends(EarlyKeys(n), n),
         NEW i \in Nat, n < i, i <= e
  PROVE  \E k \in EarlyKeys(n) : k <= i /\ i < k + buffer_[k].len
<1> DEFINE K == EarlyKeys(n)
<1>1. K \subseteq DOMAIN buffer_ /\ Linked(K, n)
  BY EarlyKeysLinked
<1>2. \A k \in K : k \in Nat /\ buffer_[k].len \in Nat
  BY <1>1 DEF Sized
<1>3. PICK k0 \in K : e = k0 + buffer_[k0].len - 1
  BY <1>2 DEF Ends
<1> DEFINE Above == {k \in K : k > i}
<1>4. CASE Above = {}
  <2>1. k0 <= i
    BY <1>2, <1>4
  <2> QED
    BY <1>2, <1>3, <2>1
<1>5. CASE Above # {}
  <2>1. PICK k \in Above : \A y \in Above : k <= y
    BY <1>2, <1>5, LeastElement
  <2>2. PICK j \in K : j < k /\ j + buffer_[j].len = k
    BY <1>1, <1>2, <2>1 DEF Linked
  <2>3. j <= i
    BY <1>2, <2>1, <2>2
  <2> QED
    BY <1>2, <2>1, <2>2, <2>3
<1> QED
  BY <1>4, <1>5

(* The segments left are not due: one that began where the last one taken
   ends would have been linked to it.                                      *)
LEMMA NoneLeft ==
  ASSUME Sized, NEW n \in Nat, NEW e \in Ends(EarlyKeys(n), n)
  PROVE  e + 1 \notin DOMAIN buffer_ \ EarlyKeys(n)
<1> DEFINE K == EarlyKeys(n)
           K1 == K \cup {e + 1}
<1> SUFFICES ASSUME e + 1 \in DOMAIN buffer_, e + 1 \notin K
             PROVE  FALSE
  OBVIOUS
<1>1. K \subseteq DOMAIN buffer_ /\ Linked(K, n)
  BY EarlyKeysLinked
<1>2. \A k \in K : k \in Nat /\ buffer_[k].len \in Nat
  BY <1>1 DEF Sized
<1>3. e = n \/ \E j \in K : j < e + 1 /\ j + buffer_[j].len = e + 1
  <2>1. ASSUME NEW k \in K, e = k + buffer_[k].len - 1
        PROVE  k < e + 1 /\ k + buffer_[k].len = e + 1
    <3>1. k + buffer_[k].len = e + 1
      BY <1>2, <2>1
    <3>2. buffer_[k].len # 0
      BY <1>2, <3>1
    <3> QED
      BY <1>2, <3>1, <3>2
  <2> QED
    BY <2>1 DEF Ends
<1>4. Linked(K1, n)
  BY <1>1, <1>3 DEF Linked
<1>5. K1 \subseteq K
  BY <1>1, <1>4 DEF EarlyKeys
<1> QED
  BY <1>5

(* A segment taken, and the bytes it holds. *)
LEMMA TakenFacts ==
  ASSUME HonestBuffer, NEW n \in Nat, NEW k \in EarlyKeys(n)
  PROVE  /\ k \in 1 .. FileLen + 1
         /\ buffer_[k].data = k - 1
         /\ buffer_[k].len = GCount(k - 1)
         /\ buffer_[k].len \in Nat
         /\ k + buffer_[k].len - 1 <= FileLen
         /\ buffer_[k].fin => k + buffer_[k].len - 1 = FileLen
<1>1. k \in DOMAIN buffer_
  BY EarlyKeysLinked
<1>2. k - 1 \in 0 .. FileLen
  BY <1>1, PacketAssumption DEF HonestBuffer
<1>3. buffer_[k] = [data |-> k - 1, len |-> GCount(k - 1), fin |-> ~FullRead(k - 1)]
  BY <1>1 DEF HonestBuffer
<1>4. k \in 1 .. FileLen + 1
  BY <1>1 DEF HonestBuffer
<1>5. buffer_[k].fin => ~FullRead(k - 1)
  <2>1. buffer_[k].fin = ~FullRead(k - 1)
    BY <1>3
  <2> QED
    BY <2>1, Zenon
<1> QED
  BY <1>2, <1>3, <1>4, <1>5, GCountFacts, PacketAssumption

(* ExpectedPacket leaves the receiver with a longer prefix of the file. *)
LEMMA ExpectedExtends ==
  ASSUME IInv, NEW p \in HonestPackets, ExpectedPacket(p)
  PROVE  /\ ackedPosition_' \in Nat
         /\ ackedPosition_ <= ackedPosition_' /\ ackedPosition_' <= FileLen
         /\ recvData_' = [i \in 1 .. ackedPosition_' |-> i - 1]
         /\ fin_' \in BOOLEAN
         /\ fin_' => ackedPosition_' = FileLen
<1> DEFINE n == ackedPosition_ + p.data_len
           K == EarlyKeys(n)
           e == ackedPosition_'
<1>1. /\ ackedPosition_ \in 0 .. FileLen
      /\ HonestBuffer
      /\ Len(recvData_) = ackedPosition_
      /\ \A i \in 1 .. ackedPosition_ : recvData_[i] = i - 1
  BY PacketAssumption DEF IInv, TypeOK, InOrder
<1>2. /\ p.data = ackedPosition_
      /\ p.data_len = GCount(ackedPosition_)
      /\ p.FIN = ~FullRead(ackedPosition_)
  BY <1>1, SegmentFacts, PacketAssumption, SMTT(30) DEF ExpectedPacket, IsExpected
<1>3. n \in Nat /\ ackedPosition_ <= n /\ n <= FileLen /\ (p.FIN => n = FileLen)
  <2>1. n \in Nat /\ ackedPosition_ <= n /\ n <= FileLen
    <3>1. p.data_len = GCount(ackedPosition_)
      BY <1>2
    <3>2. GCount(ackedPosition_) \in Nat /\ ackedPosition_ + GCount(ackedPosition_) <= FileLen
      BY <1>1, GCountFacts, PacketAssumption
    <3> QED
      BY <1>1, <3>1, <3>2
  <2>2. ~FullRead(ackedPosition_) => n = FileLen
    BY <1>1, <1>2, GCountFacts
  <2>3. p.FIN => ~FullRead(ackedPosition_)
    BY <1>2, Zenon
  <2> QED
    BY <2>1, <2>2, <2>3, Zenon
<1>4. e \in Ends(K, n) /\ \A x \in Ends(K, n) : x <= e
  BY DEF ExpectedPacket
<1>5. \A k \in K : /\ k \in 1 .. FileLen + 1
                   /\ buffer_[k].data = k - 1
                   /\ buffer_[k].len \in Nat
                   /\ k + buffer_[k].len - 1 <= FileLen
                   /\ buffer_[k].fin => k + buffer_[k].len - 1 = FileLen
  BY <1>1, <1>3, TakenFacts
<1>6. e \in Nat /\ n <= e /\ e <= FileLen
  <2>1. \A x \in Ends(K, n) : x \in Int /\ x <= FileLen
    BY <1>3, <1>5, PacketAssumption DEF Ends
  <2>2. n \in Ends(K, n)
    BY DEF Ends
  <2> QED
    BY <1>3, <1>4, <2>1, <2>2
<1>7. ASSUME NEW i \in 1 .. e
      PROVE  (CASE i <= ackedPosition_ -> recvData_[i]
                [] ackedPosition_ < i /\ i <= n -> p.data + (i - ackedPosition_ - 1)
                [] OTHER -> buffer_[Holder(K, i)].data + (i - Holder(K, i))) = i - 1
  <2>1. CASE i <= ackedPosition_
    BY <1>1, <1>6, <2>1
  <2>2. CASE ackedPosition_ < i /\ i <= n
    BY <1>1, <1>2, <1>6, <2>2
  <2>3. CASE n < i
    <3>1. \E k \in K : k <= i /\ i < k + buffer_[k].len
      BY <1>1, <1>3, <1>4, <1>6, <2>3, Covered, HonestIsSized
    <3>2. Holder(K, i) \in K
      BY <3>1 DEF Holder
    <3>3. buffer_[Holder(K, i)].data + (i - Holder(K, i)) = i - 1
      BY <1>5, <1>6, <3>2
    <3> QED
      BY <1>1, <1>3, <1>6, <2>3, <3>3
  <2> QED
    BY <1>1, <1>3, <1>6, <2>1, <2>2, <2>3
<1>8. recvData_' = [i \in 1 .. e |-> i - 1]
  BY <1>7 DEF ExpectedPacket
<1>9. fin_' \in BOOLEAN /\ (fin_' => e = FileLen)
  <2>1. fin_' = (p.FIN \/ \E k \in K : buffer_[k].fin)
    BY DEF ExpectedPacket
  <2>2. ASSUME NEW k \in K, buffer_[k].fin
        PROVE  e = FileLen
    <3>1. k + buffer_[k].len - 1 \in Ends(K, n)
      BY DEF Ends
    <3> QED
      BY <1>4, <1>5, <1>6, <2>2, <3>1, PacketAssumption
  <2>3. p.FIN => e = FileLen
    BY <1>3, <1>6, PacketAssumption
  <2>4. fin_' \in BOOLEAN
    BY <2>1, Zenon
  <2>5. fin_' => e = FileLen
    BY <2>1, <2>2, <2>3, Zenon
  <2> QED
    BY <2>4, <2>5
<1> QED
  BY <1>1, <1>3, <1>6, <1>8, <1>9

(* ExpectedPacket only takes segments out of buffer_, and all that are due. *)
LEMMA ExpectedBuffer ==
  ASSUME IInv, NEW p \in HonestPackets, ExpectedPacket(p)
  PROVE  HonestBuffer' /\ NothingDueIsBuffered'
<1> DEFINE n == ackedPosition_ + p.data_len
           K == EarlyKeys(n)
<1>1. buffer_' = [k \in DOMAIN buffer_ \ K |-> buffer_[k]]
  BY DEF ExpectedPacket
<1>2. n \in Nat
  <2>1. p.data_len \in Nat
    <3>1. p.data_len = GCount(p.seq_num - 1) /\ p.seq_num - 1 \in 0 .. FileLen
      BY SegmentFacts, PacketAssumption
    <3> QED
      BY <3>1, GCountFacts, PacketAssumption
  <2> QED
    BY <2>1 DEF IInv, TypeOK
<1>3. ackedPosition_' \in Ends(K, n)
  BY DEF ExpectedPacket
<1>4. HonestBuffer'
  BY <1>1 DEF IInv, HonestBuffer, GCount, FullRead
<1>5. ackedPosition_' + 1 \notin DOMAIN buffer_ \ K
  BY <1>2, <1>3, NoneLeft, HonestIsSized DEF IInv
<1> QED
  BY <1>1, <1>4, <1>5 DEF NothingDueIsBuffered

(* A segment stored early is what a segment of the file carries. *)
LEMMA EarlyBuffer ==
  ASSUME IInv, NEW p \in HonestPackets, EarlyPacket(p)
  PROVE  HonestBuffer' /\ NothingDueIsBuffered'
<1>1. /\ p.seq_num \in 1 .. FileLen + 1
      /\ Stored(p) = [data |-> p.seq_num - 1, len |-> GCount(p.seq_num - 1),
                      fin |-> ~FullRead(p.seq_num - 1)]
  BY SegmentFacts DEF Stored
<1>2. HonestBuffer'
  BY <1>1 DEF IInv, HonestBuffer, EarlyPacket, GCount, FullRead
<1>3. NothingDueIsBuffered'
  BY <1>1 DEF IInv, TypeOK, NothingDueIsBuffered, EarlyPacket
<1> QED
  BY <1>2, <1>3

(* What an honest buffer holds has the type of an early segment; stated for
   any function, to be used of buffer_'.                                   *)
LEMMA HonestBufferType ==
  ASSUME NEW buf,
         \A k \in DOMAIN buf :
           /\ k \in 1 .. FileLen + 1
           /\ buf[k] = [data |-> k - 1, len |-> GCount(k - 1), fin |-> ~FullRead(k - 1)]
  PROVE  DOMAIN buf \subseteq 0 .. Wrap - 1
         /\ \A k \in DOMAIN buf : buf[k] \in Early
<1> SUFFICES ASSUME NEW k \in DOMAIN buf
             PROVE  k \in 0 .. Wrap - 1 /\ buf[k] \in Early
  OBVIOUS
<1>1. k \in 1 .. FileLen + 1 /\ k - 1 \in 0 .. FileLen
  BY PacketAssumption
<1>2. GCount(k - 1) \in 0 .. MMSBYTES /\ FullRead(k - 1) \in BOOLEAN
  BY <1>1, GCountFacts
<1>3. buf[k] = [data |-> k - 1, len |-> GCount(k - 1), fin |-> ~FullRead(k - 1)]
  OBVIOUS
<1>4. buf[k] \in Early
  BY <1>1, <1>2, <1>3, PacketAssumption DEF Early
<1> QED
  BY <1>1, <1>4, PacketAssumption

(* The fields of a loss pattern. *)
LEMMA LossPatternType ==
  ASSUME NEW l \in LossPatterns
  PROVE  l.kind \in {"none", "periodic", "specific"} /\ l.lossPeriod_ \in Nat
<1>1. CASE l = NoLoss
  BY <1>1 DEF NoLoss
<1>2. CASE l = PeriodicLoss(l.lossPeriod_) /\ l.lossPeriod_ \in Nat \ {0, 1}
  <2>1. l.kind = "periodic"
    BY <1>2 DEF PeriodicLoss
  <2> QED
    BY <1>2, <2>1
<1>3. CASE l = SpecificLoss(l.specificPackets_)
  BY <1>3 DEF SpecificLoss
<1> QED
  BY <1>1, <1>2, <1>3, ReceiverAssumption DEF IsLossPattern

(* Counting a packet. *)
LEMMA NextRSNType ==
  ASSUME TypeOK
  PROVE  NextRSN \in Nat
<1>1. CASE loss.kind = "none"
  BY <1>1 DEF NextRSN
<1>2. CASE loss.kind = "specific"
  BY <1>2 DEF NextRSN, TypeOK
<1>3. CASE loss.kind = "periodic"
  BY <1>3, LossPatternType DEF NextRSN, TypeOK
<1> QED
  BY <1>1, <1>2, <1>3, LossPatternType DEF TypeOK

-----------------------------------------------------------------------------
(* What a prefix of the file gives of IInv. *)
LEMMA PrefixFacts ==
  ASSUME NEW n \in Nat, NEW s, s = [i \in 1 .. n |-> i - 1]
  PROVE  s \in Seq(Nat) /\ Len(s) = n /\ \A i \in 1 .. n : s[i] = i - 1
<1>1. \A i \in 1 .. n : s[i] \in Nat
  OBVIOUS
<1>2. s \in [1 .. n -> Nat]
  BY <1>1
<1> QED
  BY <1>2

(* The initial state satisfies the inductive invariant. *)
LEMMA InitIInv == ReceiverInit => IInv
<1> SUFFICES ASSUME ReceiverInit PROVE IInv
  OBVIOUS
<1> USE DEF ReceiverInit
<1>1. TypeOK
  <2>1. recvData_ \in Seq(Nat)
    OBVIOUS
  <2>2. DOMAIN buffer_ = {}
    OBVIOUS
  <2>3. buffer_ = [k \in DOMAIN buffer_ |-> buffer_[k]]
    BY <2>2
  <2>4. buffer_ \in [DOMAIN buffer_ -> Early]
    BY <2>2, <2>3
  <2> QED
    BY <2>1, <2>2, <2>4 DEF TypeOK
<1>2. InOrder /\ ackedPosition_ <= FileLen /\ Complete
  BY PacketAssumption DEF InOrder, Complete
<1>3. HonestBuffer /\ NothingDueIsBuffered /\ ReplyAddressKnown
  BY DEF HonestBuffer, NothingDueIsBuffered, ReplyAddressKnown
<1> QED
  BY <1>1, <1>2, <1>3 DEF IInv

(* A step that does not touch what has been received. *)
LEMMA SameDataIInv ==
  ASSUME IInv, UNCHANGED <<ackedPosition_, fin_, recvData_, buffer_, loss>>,
         RSN_' \in Nat, specificPosition_' \in Nat,
         sourceAddress_' \in Peers \cup {NoPeer},
         ackedPosition_ > 0 => sourceAddress_' \in Peers
  PROVE  IInv'
<1>1. TypeOK'
  BY DEF IInv, TypeOK
<1>2. InOrder' /\ Complete' /\ ackedPosition_' <= FileLen
  BY DEF IInv, InOrder, Complete
<1>3. HonestBuffer' /\ NothingDueIsBuffered' /\ ReplyAddressKnown'
  BY DEF IInv, HonestBuffer, GCount, FullRead, NothingDueIsBuffered, ReplyAddressKnown
<1> QED
  BY <1>1, <1>2, <1>3 DEF IInv

(* A packet that passes leaves an address of a peer once bytes are accepted. *)
LEMMA AcceptFacts ==
  ASSUME IInv, NEW src \in Peers \cup {NoPeer}, Accept(src)
  PROVE  /\ RSN_' \in Nat /\ specificPosition_' \in Nat /\ loss' \in LossPatterns
         /\ sourceAddress_' \in Peers \cup {NoPeer}
         /\ ackedPosition_ > 0 => sourceAddress_' \in Peers
         /\ src \in Peers /\ ackedPosition_ = 0 => sourceAddress_' \in Peers
         /\ UNCHANGED loss
BY NextRSNType DEF IInv, TypeOK, Accept, ReplyTo, ReplyAddressKnown

(* Every step preserves the inductive invariant. *)
LEMMA NextIInv == IInv /\ [Next]_receiverVars => IInv'
<1> SUFFICES ASSUME IInv, [Next]_receiverVars PROVE IInv'
  OBVIOUS
<1>1. ASSUME NEW p \in HonestPackets, NEW src \in Peers, ReceivePacket(p, src)
      PROVE  IInv'
  <2>1. Accept(src)
    BY <1>1 DEF ReceivePacket
  <2>2. CASE EarlyPacket(p)
    <3>1. HonestBuffer' /\ NothingDueIsBuffered'
      BY <2>2, EarlyBuffer
    <3>2. DOMAIN buffer_' \subseteq 0 .. Wrap - 1 /\ \A k \in DOMAIN buffer_' : buffer_'[k] \in Early
      BY <3>1, HonestBufferType DEF HonestBuffer, GCount, FullRead
    <3>3. buffer_' = [k \in DOMAIN buffer_' |-> buffer_'[k]]
      BY <2>2 DEF EarlyPacket
    <3>4. TypeOK'
      BY <2>1, <2>2, <3>2, <3>3, AcceptFacts DEF IInv, TypeOK, EarlyPacket
    <3>5. InOrder' /\ Complete' /\ ackedPosition_' <= FileLen
      BY <2>2 DEF IInv, InOrder, Complete, EarlyPacket
    <3>6. ReplyAddressKnown'
      BY <2>1, <2>2, AcceptFacts DEF ReplyAddressKnown, EarlyPacket
    <3> QED
      BY <3>1, <3>4, <3>5, <3>6 DEF IInv
  <2>3. CASE OldPacket(p)
    BY <2>1, <2>3, AcceptFacts, SameDataIInv DEF OldPacket
  <2>4. CASE ExpectedPacket(p)
    <3>1. HonestBuffer' /\ NothingDueIsBuffered'
      BY <2>4, ExpectedBuffer
    <3>2. DOMAIN buffer_' \subseteq 0 .. Wrap - 1 /\ \A k \in DOMAIN buffer_' : buffer_'[k] \in Early
      BY <3>1, HonestBufferType DEF HonestBuffer, GCount, FullRead
    <3>3. buffer_' = [k \in DOMAIN buffer_' |-> buffer_'[k]]
      BY <2>4 DEF ExpectedPacket
    <3>4. /\ ackedPosition_' \in Nat /\ ackedPosition_' <= FileLen
          /\ recvData_' = [i \in 1 .. ackedPosition_' |-> i - 1]
          /\ fin_' \in BOOLEAN /\ (fin_' => ackedPosition_' = FileLen)
      BY <2>4, ExpectedExtends
    <3>5. recvData_' \in Seq(Nat) /\ InOrder'
      BY <3>4, PrefixFacts DEF InOrder
    <3>6. TypeOK'
      BY <2>1, <3>2, <3>3, <3>4, <3>5, AcceptFacts DEF TypeOK
    <3>7. ReplyAddressKnown'
      BY <2>1, AcceptFacts DEF ReplyAddressKnown, IInv, TypeOK
    <3> QED
      BY <3>1, <3>4, <3>5, <3>6, <3>7 DEF IInv, Complete
  <2> QED
    BY <1>1, <2>2, <2>3, <2>4 DEF ReceivePacket
<1>2. CASE DropPacket
  <2>1. RSN_' \in Nat /\ specificPosition_' \in Nat
    BY <1>2, NextRSNType DEF DropPacket, IInv, TypeOK
  <2> QED
    BY <1>2, <2>1, SameDataIInv DEF DropPacket, IInv, TypeOK, ReplyAddressKnown
<1>3. CASE ReceiveError
  BY <1>3, AcceptFacts, SameDataIInv DEF ReceiveError
<1>4. CASE UNCHANGED receiverVars
  BY <1>4, SameDataIInv DEF receiverVars, IInv, TypeOK, ReplyAddressKnown
<1> QED
  BY <1>1, <1>2, <1>3, <1>4 DEF Next

(* IInv holds in every reachable state. *)
LEMMA SpecIInv == Spec => []IInv
BY InitIInv, NextIInv, PTL DEF Spec

(* The fields of ReceiverStateMachine keep their types. *)
THEOREM TypeCorrect == Spec => []TypeOK
<1>1. IInv => TypeOK
  BY DEF IInv
<1> QED
  BY <1>1, SpecIInv, PTL

(* Whatever is lost, repeated, reordered or dropped on purpose, and wherever
   the file was cut, what has been saved is a prefix of the file, and
   ackedPosition_ is its length.                                           *)
THEOREM ReceivedInOrder == Spec => []InOrder
<1>1. IInv => InOrder
  BY DEF IInv
<1> QED
  BY <1>1, SpecIInv, PTL

(* receive() returns only with the whole file. *)
THEOREM ReceivedAll == Spec => []Complete
<1>1. IInv => Complete
  BY DEF IInv
<1> QED
  BY <1>1, SpecIInv, PTL

(* checkEarlyData() never leaves a segment in buffer_ that is due. *)
THEOREM NothingDueWaits == Spec => []NothingDueIsBuffered
<1>1. IInv => NothingDueIsBuffered
  BY DEF IInv
<1> QED
  BY <1>1, SpecIInv, PTL

(* Once bytes are accepted acknowledgements have an address to go to. *)
THEOREM RepliesReachAPeer == Spec => []ReplyAddressKnown
<1>1. IInv => ReplyAddressKnown
  BY DEF IInv
<1> QED
  BY <1>1, SpecIInv, PTL

-----------------------------------------------------------------------------
(* Every step of the receiver delivers a longer prefix or nothing. *)
LEMMA StepDelivers ==
  IInv /\ [Next]_receiverVars => [Stream!Deliver]_<<recvData_, fin_>>
<1> SUFFICES ASSUME IInv, [Next]_receiverVars
             PROVE  Stream!Deliver \/ UNCHANGED <<recvData_, fin_>>
  OBVIOUS
<1>1. ASSUME NEW p \in HonestPackets, NEW src \in Peers, ReceivePacket(p, src)
      PROVE  Stream!Deliver \/ UNCHANGED <<recvData_, fin_>>
  <2>1. CASE EarlyPacket(p) \/ OldPacket(p)
    BY <2>1 DEF EarlyPacket, OldPacket
  <2>2. CASE ExpectedPacket(p)
    <3>1. ~fin_
      BY <1>1 DEF ReceivePacket, Accept
    <3>2. ackedPosition_' \in Len(recvData_) .. FileLen
      BY <2>2, ExpectedExtends, PacketAssumption DEF IInv, TypeOK, InOrder
    <3>3. recvData_' = Stream!Prefix(ackedPosition_')
      BY <2>2, ExpectedExtends DEF Stream!Prefix
    <3>4. fin_' \in {FALSE, ackedPosition_' = FileLen}
      <4>1. fin_' \in BOOLEAN /\ (fin_' => ackedPosition_' = FileLen)
        BY <2>2, ExpectedExtends
      <4> QED
        BY <4>1, Zenon
    <3> QED
      BY <3>1, <3>2, <3>3, <3>4 DEF Stream!Deliver
  <2> QED
    BY <1>1, <2>1, <2>2 DEF ReceivePacket
<1>2. CASE DropPacket \/ ReceiveError \/ UNCHANGED receiverVars
  BY <1>2 DEF DropPacket, ReceiveError, receiverVars
<1> QED
  BY <1>1, <1>2 DEF Next

(* The receiver implements FileStream. *)
THEOREM ReceiverImplementsFileStream == Spec => DeliversFileStream
<1>1. ReceiverInit => Stream!Init
  BY DEF ReceiverInit, Stream!Init
<1> QED
  BY <1>1, StepDelivers, SpecIInv, PTL DEF Spec, DeliversFileStream, Stream!Spec
=============================================================================
