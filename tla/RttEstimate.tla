---------------------------- MODULE RttEstimate ----------------------------
(***************************************************************************)
(* The round-trip estimate of SenderStateMachine (updateRTT(), and the     *)
(* send times that sendData() notes).  Its result never reaches the        *)
(* socket, so that Sender leaves it out; here it stands alone, with any    *)
(* segments, repeated or not, and any echoes of them.                      *)
(***************************************************************************)
EXTENDS Integers, FiniteSetsExt, Functions

CONSTANTS
  SeqNums,        \* labels of segments
  EstimatedRTT0,  \* 100000 microseconds in the code
  DevRTT0,        \* 20000 in the code
  WORD,           \* 2^64: an unsigned long
  Steps, Clocks,  \* how much time passes at once, and what the clock is set to
  MaxTime,        \* bound on the time the sender runs
  MaxSends        \* bound on the segments it sends

ASSUME RttAssumption ==
  /\ {EstimatedRTT0, DevRTT0, MaxTime, MaxSends, WORD} \subseteq Nat
  /\ DevRTT0 <= EstimatedRTT0 /\ MaxTime < WORD
  /\ Steps \subseteq Nat /\ Clocks \subseteq Nat

VARIABLES
  now,        \* the time
  clock,      \* the system clock, which may be set back
  sendTimes_, estimatedRTT_, devRTT_, timeoutInterval_,
  echoes,     \* what is under way of [seq_num, at]: a label, and when it was sent
  longest,    \* round trip of the echoes that were used, or initial estimate
  shortest,
  sends,
  repeated,   \* a label was used for two segments
  setBack     \* the clock was set back

estimates == <<estimatedRTT_, devRTT_, timeoutInterval_>>
trips == <<longest, shortest>>
history == <<trips, sends, repeated, setBack>>
rttVars == <<now, clock, sendTimes_, estimates, echoes, history>>

RttInit ==
  /\ now = 0 /\ clock \in Clocks
  /\ sendTimes_ = <<>>
  /\ estimatedRTT_ = EstimatedRTT0 /\ devRTT_ = DevRTT0
  /\ timeoutInterval_ = EstimatedRTT0
  (* Of a sender that was killed answers may still be under way. *)
  /\ \E S \in SUBSET SeqNums : echoes = {[seq_num |-> s, at |-> 0] : s \in S}
  /\ longest = EstimatedRTT0 /\ shortest = EstimatedRTT0
  /\ sends = 0 /\ repeated = FALSE /\ setBack = FALSE

-----------------------------------------------------------------------------
(* sendData() *)
Noted(s) == clock
SendData(s) ==
  /\ sends < MaxSends /\ sends' = sends + 1
  /\ sendTimes_' = [t \in DOMAIN sendTimes_ \cup {s} |-> IF t = s THEN Noted(s) ELSE sendTimes_[t]]
  /\ echoes' = echoes \cup {[seq_num |-> s, at |-> now]}
  /\ repeated' = (repeated \/ s \in DOMAIN sendTimes_ \/ \E e \in echoes : e.seq_num = s)
  /\ UNCHANGED <<now, clock, estimates, trips, setBack>>

(* receive_time - send_time, unsigned *)
Sample(e) == (clock - sendTimes_[e.seq_num]) % WORD

(* What devRTT_ averages: the samples without their sign, and not how far
   they are from the estimate.                                             *)
Distance(e) ==
  IF sendTimes_[e.seq_num] > clock THEN sendTimes_[e.seq_num] - clock
  ELSE clock - sendTimes_[e.seq_num]

(* updateRTT(), called by newAck(): alpha_ is 1/8 and beta_ is 1/4. *)
EstimateForgets(e) == (estimatedRTT_ * 3 + Sample(e)) \div 8
Estimate(e) == (estimatedRTT_ * 7 + Sample(e)) \div 8
UpdateRTT(e) ==
  /\ e.seq_num \in DOMAIN sendTimes_
  /\ estimatedRTT_' = Estimate(e)
  /\ devRTT_' = (devRTT_ * 3 + Distance(e)) \div 4
  /\ timeoutInterval_' = estimatedRTT_' + 4 * devRTT_'
  /\ longest' = Max({longest, now - e.at}) /\ shortest' = Min({shortest, now - e.at})

(* "Received a seq number we did not send?!?" *)
NotSent(e) ==
  /\ e.seq_num \notin DOMAIN sendTimes_
  /\ UNCHANGED <<estimates, trips>>

Ack(e) ==
  /\ e \in echoes /\ echoes' = echoes \ {e}
  /\ UpdateRTT(e) \/ NotSent(e)
  /\ UNCHANGED <<now, clock, sendTimes_, sends, repeated, setBack>>

-----------------------------------------------------------------------------
Tick ==
  /\ \E d \in Steps : now' = now + d /\ clock' = clock + d
  /\ now' <= MaxTime
  /\ UNCHANGED <<sendTimes_, estimates, echoes, history>>

SetBack ==
  /\ ~setBack /\ setBack' = TRUE
  /\ clock' \in Clocks /\ clock' < clock
  /\ UNCHANGED <<now, sendTimes_, estimates, echoes, trips, sends, repeated>>

RttNext ==
  \/ \E s \in SeqNums : SendData(s)
  \/ \E e \in echoes : Ack(e)
  \/ Tick \/ SetBack

RttSpec == RttInit /\ [][RttNext]_rttVars

-----------------------------------------------------------------------------
(* Which transmission an echo answers cannot be told, and the later one is
   taken: the estimates so may fall short of every real round trip, but none
   exceeds the longest, as long as the clock is not set back.              *)
NotOverestimated ==
  ~setBack => estimatedRTT_ <= longest /\ timeoutInterval_ <= 5 * longest

(* Without a segment that is sent twice they do not fall short either. *)
NotUnderestimated ==
  ~setBack /\ ~repeated => estimatedRTT_ >= shortest

(* Both: what updateRTT() makes of the send times that sendData() overwrites. *)
EstimateInRange == NotOverestimated /\ NotUnderestimated
=============================================================================
