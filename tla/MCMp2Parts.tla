----------------------------- MODULE MCMp2Parts -----------------------------
(* What surrounds the protocol of MP2, for TLC, in one run: LossFile,
   RttEstimate, Programs and TwoSenders.  They share nothing: `focus' picks
   the one that runs, and the others stay in one initial state of theirs.  *)
EXTENDS LossFile, RttEstimate, Programs, TwoSenders

CONSTANTS p1, p2

(* No line, one, or one between an empty and another; of up to three words,
   among them every number that a branch of the code tells apart.          *)
MCOneLine == {EmptyLine} \cup {LineOf(w) : w \in UNION {[1 .. n -> -1 .. 3] : n \in 0 .. 3}}
MCLossFiles ==
  {<<>>} \cup {<<l>> : l \in MCOneLine} \cup {<<EmptyLine, l, LineOf(<<1, 2>>)>> : l \in MCOneLine}

(* Two labels; an initial estimate among the round trips that can happen. *)
MCSeqNums == {1, 101}
MCSteps == {8, 16}
MCClocks == {0, 20}

(* Two programs on one machine, senders and receivers. *)
MCProcesses == {p1, p2}
MCPorts == {5051}

(* Two senders, with and without simulated losses. *)
MCBase == [p \in MCProcesses |-> IF p = p1 THEN 0 ELSE FileLen]
MCLossPatterns == {NoLoss, SpecificLoss(<<1, 3>>)}

-----------------------------------------------------------------------------
VARIABLE focus

allVars == <<focus, lossVars, rttVars, programVars, receiverVars>>

Init ==
  /\ focus \in {"loss file", "estimate", "programs", "senders"}
  /\ (focus # "loss file" => lossFile = <<>>) /\ LossInit
  /\ (focus # "estimate" => clock = 0 /\ echoes = {}) /\ RttInit
  /\ focus # "programs" =>
       /\ program = [p \in Processes |-> "receiver"]
       /\ resolves = [p \in Processes |-> TRUE]
       /\ file = [p \in Processes |-> "short"]
  /\ ProgramsInit
  /\ (focus # "senders" => loss = NoLoss) /\ ReceiverInit

LossStep ==
  /\ focus = "loss file" /\ LossNext
  /\ UNCHANGED <<focus, rttVars, programVars, receiverVars>>

RttStep ==
  /\ focus = "estimate" /\ RttNext
  /\ UNCHANGED <<focus, lossVars, programVars, receiverVars>>

ProgramsStep(Move) ==
  /\ focus = "programs" /\ Move
  /\ UNCHANGED <<focus, lossVars, rttVars, receiverVars>>

SendersStep ==
  /\ focus = "senders" /\ SendersNext
  /\ UNCHANGED <<focus, lossVars, rttVars, programVars>>

Next == LossStep \/ RttStep \/ ProgramsStep(ProgramsNext) \/ SendersStep

(* The fairness of LossSpec and of FairProgramsSpec. *)
Spec ==
  /\ Init /\ [][Next]_allVars
  /\ WF_allVars(LossStep)
  /\ \A p \in Processes : WF_allVars(ProgramsStep(Progress(p)))
=============================================================================
