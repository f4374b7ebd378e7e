--------------------------- MODULE Mp2PartsProofs ---------------------------
(***************************************************************************)
(* Proofs about the parts of MP2 beside the transfer: the programs on one  *)
(* machine, the estimate of the round trip time, the file of losses, and a *)
(* receiver that several senders talk to.                                  *)
(***************************************************************************)
EXTENDS LossFile, RttEstimate, Programs, TwoSenders, ReceiverProofs, SequenceTheorems

(* The programs on one machine *)

Points == {"start", "bind", "failed", "transmit", "send", "settimeout", "wait",
           "receive", "return", "returned 0", "returned -1", "crashed"}

ProgramsTypes ==
  /\ program \in [Processes -> {"sender", "receiver"}]
  /\ pc \in [Processes -> Points]
  /\ desc \in [Processes -> {"none", "open", "bound"}]
  /\ timeout \in [Processes -> BOOLEAN]
  /\ message_ \in [Processes -> {"garbage", "live", "deleted"}]
  /\ sent \in [Processes -> BOOLEAN]

Untouched(p) == ~sent[p] /\ ~timeout[p]

(* What holds of p at each point it can be at. *)
AtItsPoint(p) ==
  /\ pc[p] \in {"start", "failed"} => desc[p] = "none" /\ Untouched(p)
  /\ pc[p] = "bind" => Untouched(p)
  /\ pc[p] \in {"transmit", "receive"} => desc[p] = "bound" /\ Untouched(p)
  /\ pc[p] = "receive" => program[p] = "receiver"
  /\ pc[p] \in {"send", "settimeout", "wait"} => desc[p] = "bound" /\ message_[p] = "live"
  /\ pc[p] = "return" =>
       \/ desc[p] = "bound" /\ message_[p] = "live"
       \/ program[p] = "receiver" /\ Untouched(p)
  /\ pc[p] \in {"returned -1", "crashed"} => Untouched(p)

ProgramsInv == ProgramsTypes /\ \A p \in Processes : AtItsPoint(p)

LEMMA InitPrograms == ProgramsInit => ProgramsInv
BY DEF ProgramsInit, ProgramsInv, ProgramsTypes, Points, AtItsPoint, Untouched

(* A step of p changes nothing of another program's. *)
LEMMA StepType ==
  ASSUME ProgramsTypes, NEW p \in Processes, NEW from, NEW tos \in SUBSET Points, Step(p, from, tos)
  PROVE  pc' \in [Processes -> Points]
BY DEF ProgramsTypes, Step

Others(p) ==
  \A q \in Processes \ {p} :
    /\ pc'[q] = pc[q] /\ desc'[q] = desc[q] /\ timeout'[q] = timeout[q]
    /\ message_'[q] = message_[q] /\ sent'[q] = sent[q] /\ program'[q] = program[q]

LEMMA StepOfOne ==
  ASSUME ProgramsInv, NEW p \in Processes, ProgramsTypes', AtItsPoint(p)',
         Others(p)
  PROVE  ProgramsInv'
<1>1. ASSUME NEW q \in Processes \ {p} PROVE AtItsPoint(q)'
  BY DEF ProgramsInv, AtItsPoint, Untouched, Others
<1> QED
  BY <1>1 DEF ProgramsInv

LEMMA NextPrograms == ProgramsInv /\ [ProgramsNext]_programVars => ProgramsInv'
<1> SUFFICES ASSUME ProgramsInv, [ProgramsNext]_programVars PROVE ProgramsInv'
  OBVIOUS
<1>1. CASE UNCHANGED programVars
  BY <1>1 DEF programVars, args, ProgramsInv, ProgramsTypes, AtItsPoint, Untouched
<1>2. ASSUME NEW p \in Processes, Progress(p) \/ Answer(p) \/ Receive(p)
      PROVE  ProgramsInv'
  <2>1. ProgramsTypes /\ AtItsPoint(p)
    BY DEF ProgramsInv
  <2>2. program' = program
    BY <1>2 DEF Progress, Socket, SetLocalPort, Transmit, TrySending, SetTimeout, Answer, WaitTimesOut,
                Receive, Leave, Step, args
  <2>3. CASE Socket(p)
    <3>1. ProgramsTypes'
      <4>1. {"bind"} \in SUBSET Points /\ {"failed"} \in SUBSET Points
        BY DEF Points
      <4>2. pc' \in [Processes -> Points]
        BY <2>1, <2>3, <4>1, StepType DEF Socket
      <4> QED
        BY <2>1, <2>2, <2>3, <4>2 DEF Socket, ProgramsTypes
    <3>2. AtItsPoint(p)'
      BY <2>1, <2>2, <2>3 DEF Socket, Step, ProgramsTypes, Points, AtItsPoint, Untouched
    <3>3. Others(p)
      BY <2>1, <2>2, <2>3 DEF Socket, Step, ProgramsTypes, Others
    <3> QED
      BY <3>1, <3>2, <3>3, StepOfOne
  <2>4. CASE SetLocalPort(p)
    <3>1. ProgramsTypes'
      <4>1. \A q \in {"transmit", "receive", "failed"} : {q} \in SUBSET Points
        BY DEF Points
      <4>2. pc' \in [Processes -> Points]
        <5>1. PICK q \in {"transmit", "receive", "failed"} : Step(p, "bind", {q})
          BY <2>4 DEF SetLocalPort
        <5> QED
          BY <2>1, <4>1, <5>1, StepType
      <4>3. desc' \in [Processes -> {"none", "open", "bound"}]
        BY <2>1, <2>4 DEF SetLocalPort, Closed, ProgramsTypes
      <4> QED
        BY <2>1, <2>2, <2>4, <4>2, <4>3 DEF SetLocalPort, ProgramsTypes
    <3>2. AtItsPoint(p)'
      BY <2>1, <2>2, <2>4 DEF SetLocalPort, Closed, Step, ProgramsTypes, Points, AtItsPoint, Untouched
    <3>3. Others(p)
      BY <2>1, <2>2, <2>4 DEF SetLocalPort, Closed, Step, ProgramsTypes, Others
    <3> QED
      BY <3>1, <3>2, <3>3, StepOfOne
  <2>5. CASE Transmit(p)
    <3>1. ProgramsTypes'
      <4>1. {"send"} \in SUBSET Points
        BY DEF Points
      <4>2. pc' \in [Processes -> Points]
        BY <2>1, <2>5, <4>1, StepType DEF Transmit
      <4> QED
        BY <2>1, <2>2, <2>5, <4>2 DEF Transmit, ProgramsTypes
    <3>2. AtItsPoint(p)'
      BY <2>1, <2>2, <2>5 DEF Transmit, Step, ProgramsTypes, Points, AtItsPoint, Untouched
    <3>3. Others(p)
      BY <2>1, <2>2, <2>5 DEF Transmit, Step, ProgramsTypes, Others
    <3> QED
      BY <3>1, <3>2, <3>3, StepOfOne
  <2>6. CASE TrySending(p)
    <3>1. ProgramsTypes'
      BY <2>1, <2>2, <2>6 DEF TrySending, Step, ProgramsTypes, Points
    <3>2. AtItsPoint(p)'
      BY <2>1, <2>2, <2>6 DEF TrySending, Step, ProgramsTypes, Points, AtItsPoint, Untouched
    <3>3. Others(p)
      BY <2>1, <2>2, <2>6 DEF TrySending, Step, ProgramsTypes, Others
    <3> QED
      BY <3>1, <3>2, <3>3, StepOfOne
  <2>7. CASE SetTimeout(p)
    <3>1. ProgramsTypes'
      <4>1. {"wait"} \in SUBSET Points
        BY DEF Points
      <4>2. pc' \in [Processes -> Points]
        BY <2>1, <2>7, <4>1, StepType DEF SetTimeout
      <4> QED
        BY <2>1, <2>2, <2>7, <4>2 DEF SetTimeout, BeforeWaiting, ProgramsTypes
    <3>2. AtItsPoint(p)'
      BY <2>1, <2>2, <2>7 DEF SetTimeout, BeforeWaiting, Step, ProgramsTypes, Points, AtItsPoint, Untouched
    <3>3. Others(p)
      BY <2>1, <2>2, <2>7 DEF SetTimeout, BeforeWaiting, Step, ProgramsTypes, Others
    <3> QED
      BY <3>1, <3>2, <3>3, StepOfOne
  <2>8. CASE Answer(p)
    <3>1. ProgramsTypes'
      <4>1. {"send", "settimeout", "return"} \in SUBSET Points
        BY DEF Points
      <4>2. pc' \in [Processes -> Points]
        BY <2>1, <2>8, <4>1, StepType DEF Answer
      <4> QED
        BY <2>1, <2>2, <2>8, <4>2 DEF Answer, ProgramsTypes
    <3>2. AtItsPoint(p)'
      BY <2>1, <2>2, <2>8 DEF Answer, Step, ProgramsTypes, Points, AtItsPoint, Untouched
    <3>3. Others(p)
      BY <2>1, <2>2, <2>8 DEF Answer, Step, ProgramsTypes, Others
    <3> QED
      BY <3>1, <3>2, <3>3, StepOfOne
  <2>9. CASE WaitTimesOut(p)
    <3>1. ProgramsTypes'
      <4>1. {"send"} \in SUBSET Points
        BY DEF Points
      <4>2. pc' \in [Processes -> Points]
        BY <2>1, <2>9, <4>1, StepType DEF WaitTimesOut
      <4> QED
        BY <2>1, <2>2, <2>9, <4>2 DEF WaitTimesOut, ProgramsTypes
    <3>2. AtItsPoint(p)'
      BY <2>1, <2>2, <2>9 DEF WaitTimesOut, Step, ProgramsTypes, Points, AtItsPoint, Untouched
    <3>3. Others(p)
      BY <2>1, <2>2, <2>9 DEF WaitTimesOut, Step, ProgramsTypes, Others
    <3> QED
      BY <3>1, <3>2, <3>3, StepOfOne
  <2>10. CASE Receive(p)
    <3>1. ProgramsTypes'
      <4>1. {"return"} \in SUBSET Points
        BY DEF Points
      <4>2. pc' \in [Processes -> Points]
        BY <2>1, <2>10, <4>1, StepType DEF Receive
      <4> QED
        BY <2>1, <2>2, <2>10, <4>2 DEF Receive, ProgramsTypes
    <3>2. AtItsPoint(p)'
      BY <2>1, <2>2, <2>10 DEF Receive, Step, ProgramsTypes, Points, AtItsPoint, Untouched
    <3>3. Others(p)
      BY <2>1, <2>2, <2>10 DEF Receive, Step, ProgramsTypes, Others
    <3> QED
      BY <3>1, <3>2, <3>3, StepOfOne
  <2>11. CASE Leave(p, "failed", "returned -1")
    <3>1. ProgramsTypes'
      BY <2>1, <2>2, <2>11 DEF Leave, Step, ProgramsTypes, Points
    <3>2. AtItsPoint(p)'
      BY <2>1, <2>2, <2>11 DEF Leave, Step, ProgramsTypes, Points, AtItsPoint, Untouched
    <3>3. Others(p)
      BY <2>1, <2>2, <2>11 DEF Leave, Step, ProgramsTypes, Others
    <3> QED
      BY <3>1, <3>2, <3>3, StepOfOne
  <2>12. CASE Leave(p, "return", "returned 0")
    <3>1. ProgramsTypes'
      BY <2>1, <2>2, <2>12 DEF Leave, Step, ProgramsTypes, Points
    <3>2. AtItsPoint(p)'
      BY <2>1, <2>2, <2>12 DEF Leave, Step, ProgramsTypes, Points, AtItsPoint, Untouched
    <3>3. Others(p)
      BY <2>1, <2>2, <2>12 DEF Leave, Step, ProgramsTypes, Others
    <3> QED
      BY <3>1, <3>2, <3>3, StepOfOne
  <2> QED
    BY <1>2, <2>3, <2>4, <2>5, <2>6, <2>7, <2>8, <2>9, <2>10, <2>11, <2>12 DEF Progress
<1> QED
  BY <1>1, <1>2 DEF ProgramsNext

(* Whoever else has the port, a program that fails to get its socket leaves
   nothing behind, and a message_ that was never made is only destroyed by a
   program that has not transmitted.                                        *)
THEOREM ProgramsFailCleanly == ProgramsSpec => []FailsCleanly
<1>1. ProgramsInv => FailsCleanly
  BY DEF ProgramsInv, ProgramsTypes, Points, AtItsPoint, Untouched, FailsCleanly, Over
<1> QED
  BY <1>1, InitPrograms, NextPrograms, PTL DEF ProgramsSpec

-----------------------------------------------------------------------------
(* updateRTT() *)

RttTypes ==
  /\ now \in 0 .. MaxTime /\ clock \in Nat
  /\ DOMAIN sendTimes_ \subseteq SeqNums /\ sendTimes_ \in [DOMAIN sendTimes_ -> Nat]
  /\ estimatedRTT_ \in Nat /\ devRTT_ \in Nat /\ timeoutInterval_ \in Nat
  /\ echoes \subseteq [seq_num : SeqNums, at : 0 .. now]
  /\ longest \in Nat /\ shortest \in Nat
  /\ repeated \in BOOLEAN /\ setBack \in BOOLEAN

(* When the segment labelled s was last sent, if the clock was not set back. *)
LastSent(s) == now - (clock - sendTimes_[s])

RttInv ==
  /\ RttTypes
  /\ ~setBack =>
       /\ \A s \in DOMAIN sendTimes_ : LastSent(s) \in 0 .. now
       /\ \A e \in echoes : e.seq_num \in DOMAIN sendTimes_ =>
            /\ e.at <= LastSent(e.seq_num)
            /\ ~repeated => e.at = LastSent(e.seq_num)
       /\ estimatedRTT_ <= longest /\ devRTT_ <= longest /\ timeoutInterval_ <= 5 * longest
       /\ ~repeated => estimatedRTT_ >= shortest

LEMMA InitRtt == RttInit => RttInv
<1> SUFFICES ASSUME RttInit PROVE RttInv
  OBVIOUS
<1>1. echoes \subseteq [seq_num : SeqNums, at : 0 .. now]
  BY DEF RttInit
<1>2. DOMAIN sendTimes_ = {} /\ sendTimes_ \in [DOMAIN sendTimes_ -> Nat]
  BY DEF RttInit
<1>3. /\ EstimatedRTT0 \in Nat /\ DevRTT0 \in Nat /\ MaxTime \in Nat /\ Clocks \subseteq Nat
      /\ DevRTT0 <= EstimatedRTT0
  BY RttAssumption
<1>4. RttTypes
  <2>1. now \in 0 .. MaxTime /\ clock \in Nat /\ DOMAIN sendTimes_ \subseteq SeqNums
    BY <1>2, <1>3 DEF RttInit
  <2>2. /\ estimatedRTT_ \in Nat /\ devRTT_ \in Nat /\ timeoutInterval_ \in Nat
        /\ longest \in Nat /\ shortest \in Nat /\ repeated \in BOOLEAN /\ setBack \in BOOLEAN
    BY <1>3 DEF RttInit
  <2> QED
    BY <1>1, <1>2, <2>1, <2>2 DEF RttTypes
<1> QED
  BY <1>2, <1>3, <1>4 DEF RttInit, RttInv

(* The larger and the smaller of two. *)
LEMMA MaxMinOfTwo ==
  ASSUME NEW a \in Nat, NEW b \in Nat
  PROVE  /\ Max({a, b}) \in Nat /\ a <= Max({a, b}) /\ b <= Max({a, b})
         /\ Min({a, b}) \in Nat /\ Min({a, b}) <= a /\ Min({a, b}) <= b
<1>1. \E x \in {a, b} : \A y \in {a, b} : x >= y
  OBVIOUS
<1>2. \E x \in {a, b} : \A y \in {a, b} : x <= y
  OBVIOUS
<1> QED
  BY <1>1, <1>2 DEF Max, Min

(* An average of values that do not exceed a bound does not exceed it; and
   one of values that do not fall short of a bound does not either.         *)
LEMMA Averages ==
  ASSUME NEW x \in Nat, NEW d \in Nat, NEW m \in Nat, NEW hi \in Nat, NEW lo \in Nat
  PROVE  /\ (x * 7 + m) \div 8 \in Nat /\ (d * 3 + m) \div 4 \in Nat
         /\ x <= hi /\ m <= hi => (x * 7 + m) \div 8 <= hi
         /\ d <= hi /\ m <= hi => (d * 3 + m) \div 4 <= hi
         /\ lo <= x /\ lo <= m => lo <= (x * 7 + m) \div 8
OBVIOUS

(* updateRTT() with an answer: the new round trip is at most longest', and
   without repeats at least shortest', and so are the averages with it.     *)
LEMMA UpdateKeeps ==
  ASSUME RttInv, NEW e \in echoes, UpdateRTT(e)
  PROVE  /\ estimatedRTT_' \in Nat /\ devRTT_' \in Nat /\ timeoutInterval_' \in Nat
         /\ longest' \in Nat /\ shortest' \in Nat
         /\ ~setBack =>
              /\ estimatedRTT_' <= longest' /\ devRTT_' <= longest'
              /\ timeoutInterval_' <= 5 * longest'
              /\ ~repeated => estimatedRTT_' >= shortest'
<1> DEFINE s == e.seq_num
           m == Sample(e)
           d == Distance(e)
           trip == now - e.at
<1>1. /\ s \in DOMAIN sendTimes_ /\ sendTimes_[s] \in Nat /\ clock \in Nat
      /\ e.at \in 0 .. now /\ now \in 0 .. MaxTime /\ WORD \in Nat /\ MaxTime < WORD /\ MaxTime \in Nat
  BY RttAssumption DEF UpdateRTT, RttInv, RttTypes
<1>2. trip \in Nat /\ WORD > 0
  BY <1>1
<1>3. m \in Nat /\ d \in Nat
  <2>1. (clock - sendTimes_[s]) \in Int /\ WORD \in Nat \ {0}
    BY <1>1, <1>2
  <2>2. m \in Nat
    BY <2>1 DEF Sample
  <2>3. d \in Nat
    BY <1>1 DEF Distance
  <2> QED
    BY <2>2, <2>3
<1>4. ~setBack => m <= trip /\ d <= trip /\ (~repeated => m = trip)
  <2> SUFFICES ASSUME ~setBack PROVE m <= trip /\ d <= trip /\ (~repeated => m = trip)
    OBVIOUS
  <2>1. /\ LastSent(s) \in 0 .. now /\ e.at <= LastSent(s)
        /\ ~repeated => e.at = LastSent(s)
    BY <1>1 DEF RttInv
  <2>2. clock - sendTimes_[s] = now - LastSent(s)
    BY <1>1 DEF LastSent
  <2>3. clock - sendTimes_[s] \in 0 .. WORD - 1
    BY <1>1, <2>1, <2>2
  <2>4. m = clock - sendTimes_[s]
    <3>1. \A x \in 0 .. WORD - 1 : x % WORD = x
      BY <1>1
    <3> QED
      BY <2>3, <3>1 DEF Sample
  <2>5. d = clock - sendTimes_[s]
    BY <1>1, <2>3 DEF Distance
  <2> QED
    BY <1>1, <2>1, <2>2, <2>4, <2>5
<1>5. /\ estimatedRTT_' = (estimatedRTT_ * 7 + m) \div 8
      /\ devRTT_' = (devRTT_ * 3 + d) \div 4
      /\ timeoutInterval_' = estimatedRTT_' + 4 * devRTT_'
      /\ longest' = Max({longest, trip}) /\ shortest' = Min({shortest, trip})
  BY DEF UpdateRTT, Estimate
<1>6. /\ estimatedRTT_ \in Nat /\ devRTT_ \in Nat /\ longest \in Nat /\ shortest \in Nat
      /\ ~setBack => /\ estimatedRTT_ <= longest /\ devRTT_ <= longest
                     /\ ~repeated => estimatedRTT_ >= shortest
  BY DEF RttInv, RttTypes
<1> HIDE DEF s, m, d, trip
<1>7. /\ longest' \in Nat /\ longest <= longest' /\ trip <= longest'
      /\ shortest' \in Nat /\ shortest' <= shortest /\ shortest' <= trip
  BY <1>2, <1>5, <1>6, MaxMinOfTwo
<1>8. estimatedRTT_' \in Nat /\ devRTT_' \in Nat /\ timeoutInterval_' \in Nat
  <2>1. estimatedRTT_' \in Nat /\ devRTT_' \in Nat
    BY <1>3, <1>5, <1>6, Averages
  <2> QED
    BY <1>5, <2>1
<1>9. ~setBack => estimatedRTT_' <= longest' /\ devRTT_' <= longest'
  <2> SUFFICES ASSUME ~setBack PROVE estimatedRTT_' <= longest' /\ devRTT_' <= longest'
    OBVIOUS
  <2>1. estimatedRTT_ <= longest' /\ devRTT_ <= longest' /\ m <= longest' /\ d <= longest'
    BY <1>2, <1>3, <1>4, <1>6, <1>7
  <2>2. (estimatedRTT_ * 7 + m) \div 8 <= longest'
    BY <1>3, <1>6, <1>7, <2>1, Averages
  <2>3. (devRTT_ * 3 + d) \div 4 <= longest'
    BY <1>3, <1>6, <1>7, <2>1, Averages
  <2> QED
    BY <1>5, <2>2, <2>3
<1>10. ~setBack /\ ~repeated => estimatedRTT_' >= shortest'
  <2> SUFFICES ASSUME ~setBack, ~repeated PROVE shortest' <= (estimatedRTT_ * 7 + m) \div 8
    BY <1>5, <1>7, <1>8
  <2>1. shortest' <= estimatedRTT_ /\ shortest' <= m
    BY <1>2, <1>3, <1>4, <1>6, <1>7
  <2> QED
    BY <1>3, <1>6, <1>7, <2>1, Averages
<1> QED
  BY <1>5, <1>7, <1>8, <1>9, <1>10

LEMMA NextRtt == RttInv /\ [RttNext]_rttVars => RttInv'
<1> SUFFICES ASSUME RttInv, [RttNext]_rttVars PROVE RttInv'
  OBVIOUS
<1>1. CASE UNCHANGED rttVars
  BY <1>1 DEF rttVars, estimates, history, trips, RttInv, RttTypes, LastSent
<1>2. ASSUME NEW s \in SeqNums, SendData(s) PROVE RttInv'
  <2>1. /\ UNCHANGED <<now, clock, estimates, trips, setBack>>
        /\ DOMAIN sendTimes_' = DOMAIN sendTimes_ \cup {s}
        /\ sendTimes_'[s] = clock
        /\ \A t \in DOMAIN sendTimes_ : t # s => sendTimes_'[t] = sendTimes_[t]
    BY <1>2 DEF SendData, Noted
  <2>2. RttTypes'
    <3>1. sendTimes_' \in [DOMAIN sendTimes_' -> Nat]
      BY <1>2, <2>1 DEF SendData, Noted, RttInv, RttTypes
    <3>2. echoes' \subseteq [seq_num : SeqNums, at : 0 .. now]
      BY <1>2 DEF SendData, RttInv, RttTypes
    <3>3. repeated' \in BOOLEAN
      BY <1>2 DEF SendData
    <3> QED
      BY <2>1, <3>1, <3>2, <3>3 DEF RttInv, RttTypes, estimates, trips
  <2>3. ASSUME ~setBack, NEW t \in DOMAIN sendTimes_' PROVE LastSent(t)' \in 0 .. now
    <3>1. CASE t = s
      BY <2>1, <3>1 DEF LastSent, RttInv, RttTypes
    <3>2. CASE t # s
      BY <2>1, <2>3, <3>2 DEF LastSent, RttInv
    <3> QED
      BY <3>1, <3>2
  <2>4. ASSUME ~setBack, NEW e \in echoes', e.seq_num \in DOMAIN sendTimes_'
        PROVE  /\ e.at <= LastSent(e.seq_num)'
               /\ ~repeated' => e.at = LastSent(e.seq_num)'
    <3>1. CASE e.seq_num # s
      <4>1. e \in echoes \/ e = [seq_num |-> s, at |-> now]
        BY <1>2, <2>4 DEF SendData
      <4>2. e \in echoes /\ e.seq_num \in DOMAIN sendTimes_
        BY <2>1, <2>4, <3>1, <4>1
      <4>3. LastSent(e.seq_num)' = LastSent(e.seq_num)
        BY <2>1, <3>1, <4>2 DEF LastSent
      <4>4. repeated => repeated'
        BY <1>2 DEF SendData
      <4> QED
        BY <2>4, <4>2, <4>3, <4>4 DEF RttInv
    <3>2. CASE e.seq_num = s
      <4>1. LastSent(s)' = now /\ e.at \in 0 .. now
        BY <2>1, <2>2 DEF LastSent, RttInv, RttTypes
      <4>2. e \in echoes \/ e = [seq_num |-> s, at |-> now]
        BY <1>2 DEF SendData
      <4>3. e \in echoes => repeated'
        BY <1>2, <3>2 DEF SendData
      <4> QED
        BY <3>2, <4>1, <4>2, <4>3
    <3> QED
      BY <3>1, <3>2
  <2>5. repeated => repeated'
    BY <1>2 DEF SendData
  <2> QED
    BY <2>1, <2>2, <2>3, <2>4, <2>5 DEF RttInv, estimates, trips
<1>3. ASSUME NEW e \in echoes, Ack(e) PROVE RttInv'
  <2>1. /\ echoes' = echoes \ {e}
        /\ UNCHANGED <<now, clock, sendTimes_, sends, repeated, setBack>>
    BY <1>3 DEF Ack
  <2>2. CASE UpdateRTT(e)
    BY <2>1, <2>2, UpdateKeeps DEF RttInv, RttTypes, LastSent
  <2>3. CASE NotSent(e)
    BY <2>1, <2>3 DEF NotSent, estimates, trips, RttInv, RttTypes, LastSent
  <2> QED
    BY <1>3, <2>2, <2>3 DEF Ack
<1>4. CASE Tick
  <2>1. PICK d \in Steps : now' = now + d /\ clock' = clock + d
    BY <1>4 DEF Tick
  <2>2. d \in Nat /\ MaxTime \in Nat
    BY RttAssumption
  <2>3. now' \in 0 .. MaxTime /\ now <= now' /\ clock' \in Nat
    BY <1>4, <2>1, <2>2 DEF Tick, RttInv, RttTypes
  <2>4. UNCHANGED <<sendTimes_, estimates, echoes, history>>
    BY <1>4 DEF Tick
  <2>5. echoes' \subseteq [seq_num : SeqNums, at : 0 .. now']
    BY <2>3, <2>4 DEF RttInv, RttTypes
  <2>6. \A t \in DOMAIN sendTimes_ : LastSent(t)' = LastSent(t)
    BY <2>1, <2>2, <2>4 DEF LastSent, RttInv, RttTypes
  <2>7. RttTypes'
    BY <2>3, <2>4, <2>5 DEF RttInv, RttTypes, estimates, history, trips
  <2>8. \A t \in DOMAIN sendTimes_ : LastSent(t) \in 0 .. now => LastSent(t) \in 0 .. now'
    BY <2>3 DEF RttInv, RttTypes
  <2> QED
    BY <2>4, <2>6, <2>7, <2>8 DEF RttInv, estimates, history, trips
<1>5. CASE SetBack
  <2>1. setBack' = TRUE /\ clock' \in Nat
    BY <1>5, RttAssumption DEF SetBack
  <2> QED
    BY <1>5, <2>1 DEF SetBack, RttInv, RttTypes, estimates, trips
<1> QED
  BY <1>1, <1>2, <1>3, <1>4, <1>5 DEF RttNext

(* updateRTT(), for any starting values and any order of sending, repeating and
   answering: the estimates never exceed what was measured, and without
   repeated segments they do not fall short of it.                         *)
THEOREM EstimateStaysInRange == RttSpec => []EstimateInRange
<1>1. RttInv => EstimateInRange
  BY DEF RttInv, EstimateInRange, NotOverestimated, NotUnderestimated
<1> QED
  BY <1>1, InitRtt, NextRtt, PTL DEF RttSpec

-----------------------------------------------------------------------------
(* openLossPatern() *)

(* The words not consumed yet are the last of the line w. *)
Rest(w) ==
  /\ words \in Seq(Int) /\ Len(words) <= Len(w)
  /\ \A k \in 1 .. Len(words) : words[k] = w[Len(w) - Len(words) + k]

NothingLoaded == ~periodic_ /\ lossPeriod_ = 0 /\ ~specific_ /\ specificPackets_ = <<>>

(* What has been read of the line w, at each step. *)
AtItsWord(w) ==
  /\ todo = "kind" => words = w /\ NothingLoaded
  /\ todo = "period" => Len(w) > 0 /\ Head(w) = 1 /\ words = Tail(w) /\ NothingLoaded
  /\ todo = "positions" =>
       /\ Len(w) > 0 /\ Head(w) = 2 /\ Rest(w) /\ Len(words) < Len(w)
       /\ ~periodic_ /\ ~specific_
       /\ specificPackets_ \in Seq(Nat \ {0})
       /\ Positions(w, Len(w) - Len(words), specificPackets_)
  /\ todo = "returned" => UsablePattern /\ AsksFor(w, InForce)
  /\ todo = "crashed" => w \in {<<>>, <<1>>}

LossInv ==
  /\ lossFile \in LossFiles
  /\ linesRead \in 0 .. Len(lossFile)
  /\ todo \in {"getline", "kind", "period", "positions", "returned", "crashed"}
  /\ result \in Int
  /\ todo = "getline" => NothingLoaded /\ \A j \in 1 .. linesRead : lossFile[j].empty
  /\ todo # "getline" =>
       linesRead \in 1 .. Len(lossFile) /\ IsFirst(linesRead) /\ AtItsWord(lossFile[linesRead].words)


(* The words of a line of the file. *)
LEMMA LineType ==
  ASSUME NEW f \in LossFiles, NEW i \in 1 .. Len(f)
  PROVE  /\ f \in Seq([empty : BOOLEAN, words : Seq(Int)])
         /\ f[i].words \in Seq(Int) /\ f[i].empty \in BOOLEAN
<1>1. f \in Seq([empty : BOOLEAN, words : Seq(Int)])
  BY LossFileAssumption
<1>2. f[i] \in [empty : BOOLEAN, words : Seq(Int)]
  BY <1>1, ElementOfSeq
<1> QED
  BY <1>1, <1>2

LEMMA InitLoss == LossInit => LossInv
<1> SUFFICES ASSUME LossInit PROVE LossInv
  OBVIOUS
<1>1. Len(lossFile) \in Nat
  BY LossFileAssumption DEF LossInit
<1> QED
  BY <1>1 DEF LossInit, LossInv, NothingLoaded

LEMMA MinOfTwo ==
  ASSUME NEW a \in Nat, NEW b \in Nat
  PROVE  Min({a, b}) = IF a <= b THEN a ELSE b
<1>1. \E x \in {a, b} : \A y \in {a, b} : x <= y
  OBVIOUS
<1> QED
  BY <1>1 DEF Min

LEMMA GetLineKeeps == LossInv /\ GetLine => LossInv'
<1> SUFFICES ASSUME LossInv, GetLine PROVE LossInv'
  OBVIOUS
<1>1. /\ todo = "getline" /\ lossFile' = lossFile /\ result' = result /\ words' = NextLine.words
      /\ todo' = (IF NextLine.empty THEN "getline" ELSE "kind")
      /\ UNCHANGED <<periodic_, lossPeriod_, specific_, specificPackets_>>
  BY DEF GetLine, GoOn, fields
<1>2. lossFile \in LossFiles /\ Len(lossFile) \in Nat /\ linesRead \in 0 .. Len(lossFile)
  BY LossFileAssumption DEF LossInv
<1>3. NothingLoaded' /\ \A j \in 1 .. linesRead : lossFile[j].empty
  BY <1>1 DEF LossInv, NothingLoaded
<1>4. linesRead' = IF linesRead + 1 <= Len(lossFile) THEN linesRead + 1 ELSE Len(lossFile)
  BY <1>2, MinOfTwo DEF GetLine
<1>5. CASE linesRead < Len(lossFile)
  <2>1. NextLine = lossFile[linesRead + 1] /\ linesRead' = linesRead + 1
    BY <1>2, <1>4, <1>5 DEF NextLine
  <2>2. \A j \in 1 .. linesRead' : j \in 1 .. linesRead \/ j = linesRead'
    BY <1>2, <2>1
  <2>3. \A j \in 1 .. linesRead' - 1 : lossFile[j].empty
    BY <1>2, <1>3, <2>1
  <2>4. CASE NextLine.empty
    BY <1>1, <1>2, <1>3, <1>5, <2>1, <2>2, <2>4 DEF LossInv
  <2>5. CASE ~NextLine.empty
    <3>1. IsFirst(linesRead)'
      BY <1>1, <2>1, <2>3, <2>5 DEF IsFirst
    <3>2. AtItsWord(lossFile[linesRead].words)'
      BY <1>1, <1>3, <2>1, <2>5 DEF AtItsWord
    <3> QED
      BY <1>1, <1>2, <1>5, <2>1, <2>5, <3>1, <3>2 DEF LossInv
  <2> QED
    BY <2>4, <2>5
<1>6. CASE linesRead = Len(lossFile)
  <2>1. NextLine.empty /\ linesRead' = linesRead
    BY <1>2, <1>4, <1>6 DEF NextLine, EmptyLine
  <2> QED
    BY <1>1, <1>2, <1>3, <2>1 DEF LossInv
<1> QED
  BY <1>2, <1>5, <1>6

(* What is loaded is usable and what the line asks for, in each of the ways
   in which openLossPatern() returns.                                      *)
LEMMA ReturnsNothing ==
  ASSUME NEW w, NothingLoaded, Head(w) \notin {1, 2}
  PROVE  IsLossPattern(InForce) /\ InForce = NoLoss /\ AsksFor(w, InForce)
BY DEF NothingLoaded, InForce, IsLossPattern, AsksFor

LEMMA KindKeeps == LossInv /\ Kind => LossInv'
<1> SUFFICES ASSUME LossInv, Kind PROVE LossInv'
  OBVIOUS
<1> DEFINE w == lossFile[linesRead].words
<1>1. /\ todo = "kind" /\ lossFile' = lossFile /\ linesRead' = linesRead
      /\ UNCHANGED <<periodic_, lossPeriod_, specific_, specificPackets_>>
  BY DEF Kind, fields
<1>2. /\ words = w /\ NothingLoaded /\ w \in Seq(Int) /\ IsFirst(linesRead)
      /\ lossFile \in LossFiles /\ linesRead \in 1 .. Len(lossFile)
  BY <1>1, LineType DEF LossInv, AtItsWord
<1>3. NothingLoaded' /\ IsFirst(linesRead)' /\ w' = w /\ InForce' = InForce
  BY <1>1, <1>2 DEF NothingLoaded, IsFirst, InForce
<1>4. SUFFICES AtItsWord(w)' /\ result' \in Int
               /\ todo' \in {"kind", "period", "positions", "returned", "crashed"}
  BY <1>1, <1>2, <1>3 DEF LossInv
<1> HIDE DEF w
<1>5. CASE words = <<>>
  <2>1. todo' = "crashed" /\ result' = result
    BY <1>5 DEF Kind, GoOn
  <2> QED
    BY <1>2, <1>3, <1>5, <2>1 DEF AtItsWord, LossInv
<1>6. CASE words # <<>>
  <2> DEFINE h == Head(words)
  <2>1. words' = Tail(words) /\ h = Head(w) /\ h = w[1] /\ Len(w) > 0 /\ h \in Int
    BY <1>2, <1>6 DEF Kind
  <2>2. CASE h = 1
    <3>1. todo' = "period" /\ result' = result
      BY <1>6, <2>2 DEF Kind, GoOn
    <3> QED
      BY <1>2, <1>3, <2>1, <2>2, <3>1 DEF AtItsWord, LossInv
  <2>3. CASE h = 2
    <3>1. todo' = "positions" /\ result' = result
      BY <1>6, <2>3 DEF Kind, GoOn
    <3>2. Len(words') = Len(w) - 1 /\ words' \in Seq(Int)
          /\ \A k \in 1 .. Len(words') : words'[k] = w[k + 1]
      BY <1>2, <1>6, <2>1
    <3>3. Rest(w)'
      BY <1>2, <1>3, <2>1, <3>2 DEF Rest
    <3>4. specificPackets_' = <<>> /\ ~periodic_' /\ ~specific_'
      BY <1>3 DEF NothingLoaded
    <3>5. Positions(w, 1, <<>>)
      <4>1. DOMAIN <<>> = {} /\ 2 .. 1 = {}
        OBVIOUS
      <4>2. [k \in {} |-> k] \in [{} -> 2 .. 1]
        OBVIOUS
      <4> QED
        BY <4>1, <4>2, Zenon DEF Positions
    <3>6. Positions(w, Len(w) - Len(words), specificPackets_)'
      <4>1. Len(w) - Len(words') = 1
        BY <1>2, <2>1, <3>2
      <4> QED
        BY <1>3, <3>4, <3>5, <4>1
    <3> QED
      BY <1>2, <1>3, <2>1, <2>3, <3>1, <3>2, <3>3, <3>4, <3>6 DEF AtItsWord, LossInv
  <2>4. CASE h \notin {1, 2}
    <3>1. todo' = "returned" /\ result' \in Int
      BY <1>6, <2>1, <2>4 DEF Kind, Return
    <3>2. IsLossPattern(InForce) /\ InForce = NoLoss /\ AsksFor(w, InForce)
      BY <1>2, <2>1, <2>4, ReturnsNothing
    <3> QED
      BY <1>3, <3>1, <3>2 DEF AtItsWord, UsablePattern, AsksFor
  <2> QED
    BY <2>2, <2>3, <2>4
<1> QED
  BY <1>5, <1>6

LEMMA PeriodKeeps == LossInv /\ Period => LossInv'
<1> SUFFICES ASSUME LossInv, Period PROVE LossInv'
  OBVIOUS
<1> DEFINE w == lossFile[linesRead].words
<1>1. /\ todo = "period" /\ lossFile' = lossFile /\ linesRead' = linesRead
      /\ UNCHANGED <<specific_, specificPackets_>>
  BY DEF Period
<1>2. /\ words = Tail(w) /\ NothingLoaded /\ w \in Seq(Int) /\ Len(w) > 0 /\ Head(w) = 1
      /\ IsFirst(linesRead) /\ lossFile \in LossFiles /\ linesRead \in 1 .. Len(lossFile)
  BY <1>1, LineType DEF LossInv, AtItsWord
<1>3. IsFirst(linesRead)' /\ w' = w
  BY <1>1, <1>2 DEF IsFirst
<1>4. SUFFICES AtItsWord(w)' /\ result' \in Int
               /\ todo' \in {"kind", "period", "positions", "returned", "crashed"}
  BY <1>1, <1>2, <1>3 DEF LossInv
<1> HIDE DEF w
<1>5. CASE words = <<>>
  <2>1. todo' = "crashed" /\ result' = result
    BY <1>5 DEF Period, GoOn
  <2>2. Len(w) = 1 /\ w[1] = 1
    <3>1. Len(Tail(w)) = Len(w) - 1 /\ Len(w) \in Nat
      BY <1>2
    <3>2. Tail(w) = <<>>
      BY <1>2, <1>5
    <3>3. Len(Tail(w)) = 0
      BY <3>2
    <3> QED
      BY <1>2, <3>1, <3>3
  <2>3. w = <<1>>
    BY <1>2, <2>2
  <2> QED
    BY <1>3, <2>1, <2>3 DEF AtItsWord, LossInv
<1>6. CASE words # <<>>
  <2>1. Head(words) = w[2] /\ w[2] \in Int
    <3>0. words = Tail(w) /\ w \in Seq(Int) /\ Len(w) > 0
      BY <1>2
    <3>1. words \in Seq(Int) /\ Len(words) = Len(w) - 1 /\ Len(words) # 0
      BY <1>6, <3>0
    <3>2. Head(words) = words[1] /\ words[1] = w[2]
      BY <1>2, <3>1
    <3> QED
      BY <1>2, <3>1, <3>2
  <2>2. /\ todo' = "returned" /\ lossPeriod_' = w[2] /\ periodic_' = (w[2] >= 2)
        /\ result' = (IF w[2] >= 2 THEN 0 ELSE -1)
    BY <1>6, <2>1 DEF Period, Return
  <2>3. ~specific_'
    BY <1>1, <1>2 DEF NothingLoaded
  <2>4. InForce' = IF w[2] >= 2 THEN PeriodicLoss(w[2]) ELSE NoLoss
    BY <2>2, <2>3 DEF InForce
  <2>5. IsLossPattern(InForce')
    BY <2>1, <2>4 DEF IsLossPattern, PeriodicLoss
  <2>6. AsksFor(w, InForce')
    BY <1>2, <2>1, <2>4 DEF AsksFor
  <2> QED
    BY <1>3, <2>1, <2>2, <2>4, <2>5, <2>6 DEF AtItsWord, UsablePattern, AsksFor, IsLossPattern
<1> QED
  BY <1>5, <1>6

(* One more positive word is one more position. *)
LEMMA PositionKeeps == LossInv /\ Position => LossInv'
<1> SUFFICES ASSUME LossInv, Position PROVE LossInv'
  OBVIOUS
<1> DEFINE w == lossFile[linesRead].words
           n == Len(w) - Len(words)
           s == specificPackets_
<1>1. /\ todo = "positions" /\ words # <<>> /\ words' = Tail(words)
      /\ s' = (IF Head(words) > 0 THEN Append(s, Head(words)) ELSE s)
      /\ UNCHANGED <<lossFile, linesRead, todo, result, periodic_, lossPeriod_, specific_>>
  BY DEF Position
<1>2. /\ w \in Seq(Int) /\ Len(w) > 0 /\ Head(w) = 2 /\ Rest(w) /\ Len(words) < Len(w)
      /\ ~periodic_ /\ ~specific_ /\ s \in Seq(Nat \ {0}) /\ Positions(w, n, s)
      /\ IsFirst(linesRead) /\ lossFile \in LossFiles /\ linesRead \in 1 .. Len(lossFile)
  BY <1>1, LineType DEF LossInv, AtItsWord
<1>3. IsFirst(linesRead)' /\ w' = w
  BY <1>1, <1>2 DEF IsFirst
<1> HIDE DEF w
<1>4. /\ words' \in Seq(Int) /\ Len(words') = Len(words) - 1 /\ Len(words) \in Nat \ {0}
      /\ \A k \in 1 .. Len(words') : words'[k] = words[k + 1]
      /\ Head(words) = words[1] /\ words[1] \in Int
  <2>1. words \in Seq(Int) /\ words # <<>> /\ words' = Tail(words)
    BY <1>1, <1>2 DEF Rest
  <2> QED
    BY <2>1
<1>5. /\ n \in Nat \ {0} /\ n + 1 = Len(w) - Len(words') /\ Len(w) \in Nat
      /\ words[1] = w[n + 1]
  <2>1. Len(w) \in Nat /\ Len(words) < Len(w) /\ Len(words) \in Nat \ {0}
    BY <1>2, <1>4
  <2>2. words[1] = w[Len(w) - Len(words) + 1]
    BY <1>2, <2>1 DEF Rest
  <2> QED
    BY <1>4, <2>1, <2>2
<1>6. Rest(w)'
  <2>1. ASSUME NEW k \in 1 .. Len(words') PROVE words'[k] = w[Len(w) - Len(words') + k]
    <3>1. words'[k] = words[k + 1] /\ k + 1 \in 1 .. Len(words)
      BY <1>4
    <3>2. words[k + 1] = w[n + (k + 1)] /\ n + (k + 1) = Len(w) - Len(words') + k
      BY <1>2, <1>4, <1>5, <3>1 DEF Rest
    <3> QED
      BY <3>1, <3>2
  <2> QED
    BY <1>2, <1>3, <1>4, <2>1 DEF Rest
<1> DEFINE m == Len(s)
<1>7. s' \in Seq(Nat \ {0}) /\ DOMAIN s = 1 .. m /\ m \in Nat
  <2>1. Head(words) > 0 => Head(words) \in Nat \ {0}
    BY <1>4
  <2>2. s \in Seq(Nat \ {0})
    BY <1>2
  <2>3. \A x \in Nat \ {0} : Append(s, x) \in Seq(Nat \ {0})
    BY <2>2
  <2>4. s' \in Seq(Nat \ {0})
    BY <1>1, <2>1, <2>2, <2>3
  <2> QED
    BY <2>2, <2>4
<1>7a. \A x : Len(Append(s, x)) = m + 1 /\ DOMAIN Append(s, x) = 1 .. m + 1
             /\ Append(s, x)[m + 1] = x /\ \A k \in 1 .. m : Append(s, x)[k] = s[k]
  BY <1>2, <1>7
<1>8. Positions(w, n + 1, s')
  <2> HIDE DEF n, m
  <2> HIDE DEF s
  <2>0. PICK at \in [DOMAIN s -> 2 .. n] :
          /\ \A k, l \in DOMAIN s : k < l => at[k] < at[l]
          /\ \A j \in 2 .. n : w[j] > 0 <=> \E k \in DOMAIN s : at[k] = j
          /\ \A k \in DOMAIN s : s[k] = w[at[k]]
    BY <1>2 DEF Positions
  <2>1. /\ at \in [1 .. m -> 2 .. n]
        /\ \A k, l \in 1 .. m : k < l => at[k] < at[l]
        /\ \A j \in 2 .. n : w[j] > 0 <=> \E k \in 1 .. m : at[k] = j
        /\ \A k \in 1 .. m : s[k] = w[at[k]]
    BY <1>7, <2>0
  <2>2. CASE w[n + 1] > 0
    <3>1. /\ DOMAIN s' = 1 .. m + 1 /\ s'[m + 1] = w[n + 1]
          /\ \A k \in 1 .. m : s'[k] = s[k]
      BY <1>1, <1>4, <1>5, <1>7a, <2>2
    <3> DEFINE more == [k \in 1 .. m + 1 |-> IF k = m + 1 THEN n + 1 ELSE at[k]]
    <3>2. more \in [1 .. m + 1 -> 2 .. n + 1]
      BY <1>5, <1>7
    <3>3. more[m + 1] = n + 1 /\ \A k \in 1 .. m : more[k] = at[k] /\ at[k] \in 2 .. n
      BY <1>7
    <3> HIDE DEF more
    <3>4. ASSUME NEW k \in 1 .. m + 1, NEW l \in 1 .. m + 1, k < l PROVE more[k] < more[l]
      <4>1. l = m + 1 \/ l \in 1 .. m
        BY <1>7
      <4>2. k \in 1 .. m
        BY <1>7, <3>4
      <4> QED
        BY <1>5, <2>1, <3>3, <3>4, <4>1, <4>2
    <3>5. ASSUME NEW j \in 2 .. n + 1 PROVE w[j] > 0 <=> \E k \in 1 .. m + 1 : more[k] = j
      <4>1. CASE j = n + 1
        BY <1>7, <2>2, <3>3, <4>1
      <4>2. CASE j \in 2 .. n
        <5>1. w[j] > 0 <=> \E k \in 1 .. m : at[k] = j
          BY <2>1, <4>2
        <5>2. j # more[m + 1]
          BY <1>5, <3>3, <4>2
        <5>3. \A k \in 1 .. m + 1 : k \in 1 .. m \/ k = m + 1
          BY <1>7
        <5>4. \A k \in 1 .. m : k \in 1 .. m + 1
          BY <1>7
        <5> QED
          BY <3>3, <5>1, <5>2, <5>3, <5>4
      <4> QED
        BY <1>5, <4>1, <4>2
    <3>6. \A k \in 1 .. m + 1 : s'[k] = w[more[k]]
      BY <1>7, <2>1, <3>1, <3>3
    <3>7. /\ more \in [DOMAIN s' -> 2 .. n + 1]
          /\ \A k, l \in DOMAIN s' : k < l => more[k] < more[l]
          /\ \A j \in 2 .. n + 1 : w[j] > 0 <=> \E k \in DOMAIN s' : more[k] = j
          /\ \A k \in DOMAIN s' : s'[k] = w[more[k]]
      BY <3>1, <3>2, <3>4, <3>5, <3>6
    <3> QED
      BY <3>7 DEF Positions
  <2>3. CASE ~(w[n + 1] > 0)
    <3>1. s' = s
      BY <1>1, <1>4, <1>5, <2>3
    <3>2. at \in [1 .. m -> 2 .. n + 1]
      BY <1>5, <2>1
    <3>3. ASSUME NEW j \in 2 .. n + 1 PROVE w[j] > 0 <=> \E k \in 1 .. m : at[k] = j
      <4>1. CASE j = n + 1
        BY <1>5, <2>1, <2>3, <4>1
      <4>2. CASE j \in 2 .. n
        BY <2>1, <4>2
      <4> QED
        BY <1>5, <4>1, <4>2
    <3>4. /\ at \in [DOMAIN s' -> 2 .. n + 1]
          /\ \A k, l \in DOMAIN s' : k < l => at[k] < at[l]
          /\ \A j \in 2 .. n + 1 : w[j] > 0 <=> \E k \in DOMAIN s' : at[k] = j
          /\ \A k \in DOMAIN s' : s'[k] = w[at[k]]
      BY <1>7, <2>1, <3>1, <3>2, <3>3
    <3> QED
      BY <3>4 DEF Positions
  <2> QED
    BY <2>2, <2>3
<1>9. AtItsWord(w)'
  <2>1. Positions(w, Len(w) - Len(words), specificPackets_)'
    BY <1>3, <1>5, <1>8 DEF Positions
  <2>2. Len(words') < Len(w') /\ ~periodic_' /\ ~specific_'
    BY <1>1, <1>2, <1>3, <1>4, <1>5
  <2>3. todo' = "positions" /\ Len(w)' > 0 /\ Head(w)' = 2
    BY <1>1, <1>2, <1>3
  <2> QED
    BY <1>6, <1>7, <2>1, <2>2, <2>3 DEF AtItsWord
<1> QED
  BY <1>1, <1>2, <1>3, <1>9 DEF LossInv, w

LEMMA LastPositionKeeps == LossInv /\ LastPosition => LossInv'
<1> SUFFICES ASSUME LossInv, LastPosition PROVE LossInv'
  OBVIOUS
<1> DEFINE w == lossFile[linesRead].words
           s == specificPackets_
<1>1. /\ todo = "positions" /\ words = <<>>
      /\ todo' = "returned" /\ result' = (IF s = <<>> THEN -1 ELSE 0)
      /\ specific_' = (s # <<>>)
      /\ UNCHANGED <<lossFile, linesRead, words, periodic_, lossPeriod_, specificPackets_>>
  BY DEF LastPosition, Return
<1>2. /\ w \in Seq(Int) /\ Head(w) = 2 /\ ~periodic_
      /\ s \in Seq(Nat \ {0}) /\ Positions(w, Len(w) - Len(words), s)
      /\ IsFirst(linesRead) /\ lossFile \in LossFiles /\ linesRead \in 1 .. Len(lossFile)
  BY <1>1, LineType DEF LossInv, AtItsWord
<1>3. IsFirst(linesRead)' /\ w' = w
  BY <1>1, <1>2 DEF IsFirst
<1> HIDE DEF w
<1>4. Len(w) - Len(words) = Len(w)
  BY <1>1, <1>2
<1>5. InForce' = IF s = <<>> THEN NoLoss ELSE SpecificLoss(s)
  BY <1>1, <1>2 DEF InForce
<1>6. InForce'.specificPackets_ = s
  BY <1>5 DEF NoLoss, SpecificLoss
<1>7. AsksFor(w, InForce')
  BY <1>2, <1>4, <1>5, <1>6 DEF AsksFor
<1>8. IsLossPattern(InForce')
  BY <1>2, <1>5, <1>6 DEF IsLossPattern
<1>9. AtItsWord(w)'
  BY <1>1, <1>3, <1>5, <1>7, <1>8 DEF AtItsWord, UsablePattern, AsksFor, Positions, IsLossPattern
<1> QED
  BY <1>1, <1>2, <1>3, <1>9 DEF LossInv, w

LEMMA NextLoss == LossInv /\ [LossNext]_lossVars => LossInv'
<1>1. ASSUME LossInv, UNCHANGED lossVars PROVE LossInv'
  <2>1. UNCHANGED <<lossFile, linesRead, todo, words, result, periodic_, lossPeriod_, specific_, specificPackets_>>
    BY <1>1 DEF lossVars, fields
  <2>2. (NothingLoaded <=> NothingLoaded') /\ InForce' = InForce
    BY <2>1 DEF NothingLoaded, InForce
  <2>3. UsablePattern => UsablePattern'
    BY <2>1, <2>2 DEF UsablePattern, IsLossPattern
  <2>4. ASSUME NEW w, AtItsWord(w) PROVE AtItsWord(w)'
    <3>1. Rest(w) => Rest(w)'
      BY <2>1 DEF Rest
    <3>2. Positions(w, Len(w) - Len(words), specificPackets_) => Positions(w, Len(w) - Len(words), specificPackets_)'
      BY <2>1 DEF Positions
    <3>3. AsksFor(w, InForce) => AsksFor(w, InForce)'
      BY <2>2 DEF AsksFor, Positions
    <3> QED
      BY <2>1, <2>2, <2>3, <2>4, <3>1, <3>2, <3>3 DEF AtItsWord
  <2> QED
    BY <1>1, <2>1, <2>2, <2>4 DEF LossInv, IsFirst
<1> QED
  BY <1>1, GetLineKeeps, KindKeeps, PeriodKeeps, PositionKeeps, LastPositionKeeps DEF LossNext

(* openLossPatern(), for files of any number of lines and words: the pattern
   that is loaded is the one the first line that is not empty asks for.     *)
THEOREM LossPatternAsWritten == LossSpec => []AsWritten
<1>1. LossInv => AsWritten
  <2> SUFFICES ASSUME LossInv PROVE AsWritten
    OBVIOUS
  <2>1. todo # "getline" => FirstLine = lossFile[linesRead].words
    <3> SUFFICES ASSUME todo # "getline" PROVE FirstLine = lossFile[linesRead].words
      OBVIOUS
    <3>1. linesRead \in DOMAIN lossFile /\ IsFirst(linesRead) /\ DOMAIN lossFile = 1 .. Len(lossFile)
      BY LossFileAssumption DEF LossInv
    <3>2. ASSUME NEW i \in DOMAIN lossFile, IsFirst(i) PROVE i = linesRead
      BY <3>1, <3>2 DEF IsFirst
    <3> QED
      BY <3>1, <3>2 DEF FirstLine
  <2> QED
    BY <2>1 DEF LossInv, AtItsWord, AsWritten, UsablePattern
<1> QED
  BY <1>1, InitLoss, NextLoss, PTL DEF LossSpec

-----------------------------------------------------------------------------
(* Several senders *)

(* What is kept of any sender's file is in its place in it. *)
KeptInPlace ==
  \A k \in DOMAIN buffer_ :
    /\ k \in 1 .. FileLen + 1
    /\ buffer_[k].len = GCount(k - 1)
    /\ \E src \in Peers : buffer_[k].data = Base[src] + k - 1

SendersInv ==
  /\ ackedPosition_ \in 0 .. FileLen
  /\ recvData_ \in Seq(Nat)
  /\ InPlace
  /\ KeptInPlace
  /\ sourceAddress_ \in Peers \cup {NoPeer}
  /\ AnswersOwnerOfFirstByte

LEMMA InitSenders == ReceiverInit => SendersInv
<1> SUFFICES ASSUME ReceiverInit PROVE SendersInv
  OBVIOUS
<1>1. ackedPosition_ = 0 /\ recvData_ = <<>> /\ DOMAIN buffer_ = {} /\ sourceAddress_ = NoPeer
  BY DEF ReceiverInit
<1> QED
  BY <1>1, PacketAssumption DEF SendersInv, InPlace, KeptInPlace, AnswersOwnerOfFirstByte

(* The fields of a packet of one of the senders. *)
LEMMA PacketOfFacts ==
  ASSUME NEW src \in Peers, NEW from \in 0 .. FileLen
  PROVE  LET p == PacketOf(src, from)
         IN  /\ p.seq_num = from + 1
             /\ p.data = Base[src] + from
             /\ p.data_len = GCount(from)
<1>1. Segment(from, from) \in HonestPackets
  BY DEF HonestPackets
<1>2. Segment(from, from).seq_num = from + 1
  <2>1. from + 1 \in 0 .. Wrap - 1 /\ Wrap \in Nat
    BY PacketAssumption
  <2>2. U32(from + 1) = from + 1
    BY <2>1 DEF U32
  <2> QED
    BY <2>2 DEF Segment
<1>3. Segment(from, from).data = from /\ Segment(from, from).data_len = GCount(from)
  BY DEF Segment
<1>4. Base[src] \in Nat
  BY TwoSendersAssumption
<1>5. PacketOf(src, from).data = from + Base[src]
  BY <1>3 DEF PacketOf, Segment
<1>6. /\ PacketOf(src, from).seq_num = Segment(from, from).seq_num
      /\ PacketOf(src, from).data_len = Segment(from, from).data_len
  BY DEF PacketOf, Segment
<1> QED
  BY <1>2, <1>3, <1>4, <1>5, <1>6, PacketAssumption

(* The segments that wait are put behind the bytes of any sender, in place. *)
LEMMA ExpectedFromSender ==
  ASSUME SendersInv, NEW src \in Peers, NEW from \in 0 .. FileLen,
         ExpectedPacket(PacketOf(src, from))
  PROVE  /\ ackedPosition_' \in 0 .. FileLen
         /\ recvData_' \in Seq(Nat) /\ Len(recvData_') = ackedPosition_'
         /\ \A i \in 1 .. ackedPosition_' : \E q \in Peers : recvData_'[i] = Base[q] + i - 1
         /\ ackedPosition_ > 0 /\ ackedPosition_' > 0 => recvData_'[1] = recvData_[1]
         /\ ackedPosition_ = 0 /\ ackedPosition_' > 0 => recvData_'[1] = Base[src]
         /\ KeptInPlace'
<1> DEFINE p == PacketOf(src, from)
           n == ackedPosition_ + p.data_len
           K == EarlyKeys(n)
           e == ackedPosition_'
<1>1. /\ from = ackedPosition_ /\ p.data = Base[src] + ackedPosition_
      /\ p.data_len = GCount(ackedPosition_) /\ ackedPosition_ \in 0 .. FileLen
  BY PacketOfFacts, PacketAssumption DEF SendersInv, ExpectedPacket, IsExpected
<1>2. /\ n \in Nat /\ ackedPosition_ <= n /\ n <= FileLen
      /\ n = ackedPosition_ => ackedPosition_ = FileLen
  BY <1>1, GCountFacts, PacketAssumption
<1>3. \A k \in K : k \in 1 .. FileLen + 1 /\ buffer_[k].len = GCount(k - 1)
                   /\ \E q \in Peers : buffer_[k].data = Base[q] + k - 1
  BY EarlyKeysLinked DEF SendersInv, KeptInPlace
<1>4. Sized
  <2> SUFFICES ASSUME NEW k \in DOMAIN buffer_ PROVE k \in Nat /\ buffer_[k].len \in Nat
    BY DEF Sized
  <2>1. k \in 1 .. FileLen + 1 /\ buffer_[k].len = GCount(k - 1)
    BY DEF SendersInv, KeptInPlace
  <2>2. k - 1 \in 0 .. FileLen /\ k \in Nat
    BY <2>1, PacketAssumption
  <2> QED
    BY <2>1, <2>2, GCountFacts, PacketAssumption
<1>5. e \in Ends(K, n) /\ \A x \in Ends(K, n) : x <= e
  BY DEF ExpectedPacket
<1>6. \A k \in K : buffer_[k].len \in Nat /\ k + buffer_[k].len - 1 <= FileLen
  BY <1>3, GCountFacts, PacketAssumption
<1>7. e \in Nat /\ n <= e /\ e <= FileLen
  <2>1. \A x \in Ends(K, n) : x \in Int /\ x <= FileLen
    BY <1>2, <1>3, <1>6, PacketAssumption DEF Ends
  <2>2. n \in Ends(K, n)
    BY DEF Ends
  <2> QED
    BY <1>2, <1>5, <2>1, <2>2
<1> DEFINE Joined(i) ==
             CASE i <= ackedPosition_ -> recvData_[i]
               [] ackedPosition_ < i /\ i <= n -> p.data + (i - ackedPosition_ - 1)
               [] OTHER -> buffer_[Holder(K, i)].data + (i - Holder(K, i))
<1>8. recvData_' = [i \in 1 .. e |-> Joined(i)]
  BY DEF ExpectedPacket
<1>9. ASSUME NEW i \in 1 .. e
      PROVE  \E q \in Peers : Joined(i) = Base[q] + i - 1
  <2>1. CASE i <= ackedPosition_
    <3>1. Joined(i) = recvData_[i] /\ i \in 1 .. ackedPosition_
      BY <1>1, <1>7, <2>1
    <3> QED
      BY <3>1 DEF SendersInv, InPlace
  <2>2. CASE ackedPosition_ < i /\ i <= n
    <3>1. Joined(i) = p.data + (i - ackedPosition_ - 1)
      BY <1>1, <1>7, <2>2
    <3> QED
      BY <1>1, <1>7, <3>1, TwoSendersAssumption
  <2>3. CASE n < i
    <3>1. \E k \in K : k <= i /\ i < k + buffer_[k].len
      BY <1>2, <1>4, <1>5, <1>7, <2>3, Covered
    <3>2. Holder(K, i) \in K
      BY <3>1 DEF Holder
    <3>3. PICK q \in Peers : buffer_[Holder(K, i)].data = Base[q] + Holder(K, i) - 1
      BY <1>3, <3>2
    <3>4. Joined(i) = buffer_[Holder(K, i)].data + (i - Holder(K, i))
      BY <1>1, <1>2, <1>7, <2>3
    <3>5. Base[q] \in Nat /\ Holder(K, i) \in Nat
      BY <1>3, <3>2, TwoSendersAssumption
    <3> QED
      BY <3>3, <3>4, <3>5
  <2> QED
    BY <1>1, <1>2, <1>7, <2>1, <2>2, <2>3
<1>10. \A i \in 1 .. e : Joined(i) \in Nat
  BY <1>9, TwoSendersAssumption
<1>11. ackedPosition_ > 0 => Joined(1) = recvData_[1]
  BY <1>1
<1>12. ackedPosition_ = 0 /\ e > 0 => Joined(1) = Base[src]
  <2> SUFFICES ASSUME ackedPosition_ = 0, e > 0 PROVE Joined(1) = Base[src]
    OBVIOUS
  <2>1. n >= 1
    BY <1>2, <1>7, PacketAssumption
  <2>2. Joined(1) = p.data + (1 - ackedPosition_ - 1)
    BY <1>2, <2>1
  <2> QED
    BY <1>1, <2>2, TwoSendersAssumption
<1>13. KeptInPlace'
  <2>1. buffer_' = [k \in DOMAIN buffer_ \ K |-> buffer_[k]]
    BY DEF ExpectedPacket
  <2> QED
    BY <2>1 DEF SendersInv, KeptInPlace, GCount, FullRead
<1>14. /\ Len(recvData_') = e /\ recvData_' \in Seq(Nat)
       /\ \A i \in 1 .. e : recvData_'[i] = Joined(i)
  <2> HIDE DEF Joined
  <2>1. [i \in 1 .. e |-> Joined(i)] \in [1 .. e -> Nat]
    BY <1>10
  <2> QED
    BY <1>7, <1>8, <2>1
<1> HIDE DEF Joined
<1>15. \A i \in 1 .. e : \E q \in Peers : recvData_'[i] = Base[q] + i - 1
  BY <1>9, <1>14
<1> QED
  BY <1>1, <1>7, <1>11, <1>12, <1>13, <1>14, <1>15, PacketAssumption

LEMMA NextSenders == SendersInv /\ [SendersNext]_receiverVars => SendersInv'
<1> SUFFICES ASSUME SendersInv, [SendersNext]_receiverVars PROVE SendersInv'
  OBVIOUS
<1>1. ASSUME UNCHANGED <<ackedPosition_, recvData_, buffer_>>, NEW src \in Peers \cup {NoPeer},
             Accept(src) \/ UNCHANGED sourceAddress_
      PROVE  SendersInv'
  <2>1. KeptInPlace' /\ InPlace'
    BY <1>1 DEF SendersInv, KeptInPlace, InPlace, GCount, FullRead
  <2> QED
    BY <1>1, <2>1 DEF SendersInv, Accept, ReplyTo, AnswersOwnerOfFirstByte
<1>2. ASSUME NEW src \in Peers, NEW from \in 0 .. FileLen, ReceivePacket(PacketOf(src, from), src)
      PROVE  SendersInv'
  <2> DEFINE p == PacketOf(src, from)
  <2>1. Accept(src)
    BY <1>2 DEF ReceivePacket
  <2>2. CASE OldPacket(p)
    BY <1>1, <2>1, <2>2 DEF OldPacket
  <2>3. CASE EarlyPacket(p)
    <3>1. KeptInPlace'
      <4>1. /\ p.seq_num \in 1 .. FileLen + 1 /\ p.data_len = GCount(p.seq_num - 1)
            /\ p.data = Base[src] + p.seq_num - 1
        BY PacketOfFacts, TwoSendersAssumption, PacketAssumption
      <4>2. DOMAIN buffer_' = DOMAIN buffer_ \cup {p.seq_num}
            /\ \A k \in DOMAIN buffer_' : buffer_'[k] = IF k = p.seq_num THEN Stored(p) ELSE buffer_[k]
        BY <2>3 DEF EarlyPacket
      <4> HIDE DEF p
      <4>3. Stored(p).len = p.data_len /\ Stored(p).data = p.data
        BY DEF Stored
      <4> QED
        BY <4>1, <4>2, <4>3 DEF SendersInv, KeptInPlace, GCount, FullRead
    <3>2. UNCHANGED <<ackedPosition_, recvData_>>
      BY <2>3 DEF EarlyPacket
    <3> QED
      BY <2>1, <3>1, <3>2 DEF SendersInv, InPlace, Accept, ReplyTo, AnswersOwnerOfFirstByte
  <2>4. CASE ExpectedPacket(p)
    <3>1. sourceAddress_' = IF ackedPosition_ = 0 THEN src ELSE sourceAddress_
      BY <2>1 DEF Accept, ReplyTo
    <3> QED
      BY <2>4, <3>1, ExpectedFromSender, PacketAssumption
         DEF SendersInv, InPlace, AnswersOwnerOfFirstByte
  <2> QED
    BY <1>2, <2>2, <2>3, <2>4 DEF ReceivePacket
<1>3. CASE DropPacket
  BY <1>1, <1>3 DEF DropPacket
<1>4. CASE ReceiveError
  BY <1>1, <1>4 DEF ReceiveError
<1>5. CASE UNCHANGED receiverVars
  BY <1>1, <1>5 DEF receiverVars
<1> QED
  BY <1>2, <1>3, <1>4, <1>5 DEF SendersNext

LEMMA SpecSenders == SendersSpec => []SendersInv
BY InitSenders, NextSenders, PTL DEF SendersSpec

(* receive(), for any number of senders that talk to it at once: every byte it
   saves is at the place it has in the file it comes from.                 *)
THEOREM SendersInPlace == SendersSpec => []InPlace
<1>1. SendersInv => InPlace
  BY DEF SendersInv
<1> QED
  BY <1>1, SpecSenders, PTL

(* receive() keeps sourceAddress_ once ackedPosition_ is not zero: whoever
   sends, the answers go to the sender of the first byte that was saved.    *)
THEOREM OneSenderIsAnswered == SendersSpec => []AnswersOwnerOfFirstByte
<1>1. SendersInv => AnswersOwnerOfFirstByte
  BY DEF SendersInv
<1> QED
  BY <1>1, SpecSenders, PTL
=============================================================================
