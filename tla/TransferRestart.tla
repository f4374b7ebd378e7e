--------------------------- MODULE TransferRestart ---------------------------
(***************************************************************************)
(* Transfer with the comings and goings of its programs: the receiver may  *)
(* be started after the sender, and the sender may be killed, or give up,  *)
(* and be started again with the same file, while answers to its           *)
(* predecessor are still under way.  Neither program keeps anything.       *)
(* A late start and a restart are faults like the others, of which there   *)
(* are MaxFaults; those that come after a late start wait for it.          *)
(***************************************************************************)
EXTENDS Transfer

VARIABLE listening   \* the receiver has its socket

allVars == <<vars, listening>>

RestartInit ==
  /\ Init
  /\ listening \in BOOLEAN
  /\ ~listening => MaxFaults > 0

StartReceiver ==
  /\ ~listening /\ listening' = TRUE
  /\ OneFault
  /\ UNCHANGED <<senderVars, receiverVars, netVars, early, overtaken>>

(* The new process has the same local port, and the constructor's values. *)
Constructed ==
  /\ cwnd_' = 1 /\ notAcked_' = 0 /\ ssthresh_' = InitSsthresh /\ dupAckCount_' = 0
  /\ ackedPosition_' = 1 /\ filePosition_' = 0 /\ message_' = 0
  /\ caAckCount_' \in Uninitialised /\ state_' = "SLOW_START"
  /\ result' = "running"
  /\ UNCHANGED overrun

RestartSender ==
  /\ listening /\ OneFault
  /\ result # "true"
  /\ Constructed
  /\ UNCHANGED <<receiverVars, netVars, early, overtaken, listening>>

(* Nobody has the port: the datagram is discarded, and nobody is told. *)
Unheard ==
  /\ ~listening
  /\ \E i \in Arriving(dataNet) : dataNet' = RemoveAt(dataNet, i)
  /\ UNCHANGED <<senderVars, receiverVars, ackNet, budgetVars, overtaken, listening>>

Receiving == listening /\ AnyData /\ UNCHANGED listening
Sending(Step) == Step /\ (listening \/ UNCHANGED faults) /\ UNCHANGED listening
Failing == listening /\ Fault /\ UNCHANGED listening
Ending == Finished /\ UNCHANGED listening

RestartNext ==
  \/ StartReceiver \/ RestartSender \/ Unheard \/ Receiving \/ Failing \/ Ending
  \/ Sending(SendFile) \/ Sending(AnyAck) \/ Sending(SenderTimeout)

RestartSpec == RestartInit /\ [][RestartNext]_allVars

(* As in Transfer; and the receiver is started at some time. *)
FairRestartSpec ==
  /\ RestartSpec
  /\ WF_allVars(StartReceiver) /\ WF_allVars(Receiving \/ Unheard)
  /\ WF_allVars(Sending(SendFile)) /\ WF_allVars(Sending(AnyAck)) /\ WF_allVars(Sending(SenderTimeout))
=============================================================================
