------------------------------ MODULE Programs ------------------------------
(***************************************************************************)
(* sender.cpp and receiver.cpp of MP2 around their state machines, with    *)
(* the sockets of udp_socket.cpp: several of them start on one machine,    *)
(* open a socket, transfer and end.  What travels is left out (Transfer    *)
(* has it): a sender either has been heard by a receiver or has not.       *)
(***************************************************************************)
EXTENDS Integers

CONSTANTS
  Processes,
  LOCAL_PORT,   \* of every sender, 5050
  Ports         \* ports that are given to receivers

ASSUME ProgramsAssumption == LOCAL_PORT \notin Ports

VARIABLES
  program,     \* "sender" or "receiver"
  port,        \* its local port; for a sender also `to', the receiver's
  to,
  resolves,    \* gethostbyname() knows the receiver's name
  file,        \* "missing", "short" (one segment, not a full one), or "long"
  pc,
  desc,        \* sockDesc: "none", "open", "bound"
  timeout,     \* SO_RCVTIMEO is set
  message_,    \* "garbage", "live" or "deleted"
  sent         \* the sender has sent a packet

args == <<program, port, to, resolves, file>>
programVars == <<args, pc, desc, timeout, message_, sent>>

ProgramsInit ==
  /\ program \in [Processes -> {"sender", "receiver"}]
  /\ to \in [Processes -> Ports]
  /\ port = [p \in Processes |-> IF program[p] = "sender" THEN LOCAL_PORT ELSE to[p]]
  /\ resolves \in [Processes -> BOOLEAN]
  /\ file \in [Processes -> {"missing", "short", "long"}]
  /\ pc = [p \in Processes |-> "start"]
  /\ desc = [p \in Processes |-> "none"]
  /\ timeout = [p \in Processes |-> FALSE]
  /\ message_ = [p \in Processes |-> "garbage"]
  /\ sent = [p \in Processes |-> FALSE]

Step(p, from, tos) ==
  /\ pc[p] = from
  /\ \E next \in tos : pc' = [pc EXCEPT ![p] = next]
  /\ UNCHANGED args

-----------------------------------------------------------------------------
(* openSocket(): the constructors of Socket and UDPSocket *)

Socket(p) ==
  /\ \/ Step(p, "start", {"bind"}) /\ desc' = [desc EXCEPT ![p] = "open"]
     \/ Step(p, "start", {"failed"}) /\ UNCHANGED desc
  /\ UNCHANGED <<timeout, message_, sent>>

PortFree(p) == \A q \in Processes : port[q] = port[p] => desc[q] # "bound"

(* When bind() throws, the part of the object that is complete is destroyed,
   and ~Socket() closes the descriptor.                                    *)
LeftOpen(p) == desc
Closed(p) == [desc EXCEPT ![p] = "none"]
SetLocalPort(p) ==
  /\ IF PortFree(p)
     THEN /\ Step(p, "bind", {IF program[p] = "sender" THEN "transmit" ELSE "receive"})
          /\ desc' = [desc EXCEPT ![p] = "bound"]
     ELSE Step(p, "bind", {"failed"}) /\ desc' = Closed(p)
  /\ UNCHANGED <<timeout, message_, sent>>

-----------------------------------------------------------------------------
(* transmit() *)

Transmit(p) ==
  /\ Step(p, "transmit", {"send"})
  /\ message_' = [message_ EXCEPT ![p] = "live"]
  /\ UNCHANGED <<desc, timeout, sent>>

(* sendTo() throws when the name cannot be resolved.  transmit() gives up
   after a full segment, but only goes on to wait after the last.  From a file
   that cannot be opened there is nothing to send.                         *)
NeverGivesUp(p) == FALSE
GivesUp(p) == ~resolves[p] /\ file[p] = "long"
TrySending(p) ==
  /\ Step(p, "send", {IF GivesUp(p) THEN "return" ELSE "settimeout"})
  /\ sent' = [sent EXCEPT ![p] = @ \/ (resolves[p] /\ file[p] # "missing")]
  /\ UNCHANGED <<desc, timeout, message_>>

(* The setTimeout() in openSocket() is behind its return. *)
BeforeWaiting(p) == [timeout EXCEPT ![p] = TRUE]
SetTimeout(p) ==
  /\ Step(p, "settimeout", {"wait"})
  /\ timeout' = BeforeWaiting(p)
  /\ UNCHANGED <<desc, message_, sent>>

Heard(p) == \E q \in Processes :
  /\ sent[p] /\ program[q] = "receiver" /\ port[q] = to[p]
  /\ pc[q] \in {"receive", "return", "returned 0"}

(* An answer, the last one or another; or processTimeout(), which leaves a new
   stream in message_ when it deletes the old.                             *)
Answer(p) ==
  /\ Heard(p)
  /\ Step(p, "wait", {"send", "settimeout", "return"})
  /\ UNCHANGED <<desc, timeout, message_, sent>>
WaitTimesOut(p) ==
  /\ timeout[p]
  /\ Step(p, "wait", {"send"})
  /\ UNCHANGED <<desc, timeout, message_, sent>>

(* receive() has no timeout: it returns when it has the whole file. *)
Receive(p) ==
  /\ \E q \in Processes : program[q] = "sender" /\ sent[q] /\ to[q] = port[p]
  /\ Step(p, "receive", {"return"})
  /\ UNCHANGED <<desc, timeout, message_, sent>>

-----------------------------------------------------------------------------
(* main() returns.  ~SenderStateMachine() deletes message_ even if transmit()
   has never been called and nothing has ever been assigned to it; nobody
   deletes the socket, whose descriptor goes with the process.             *)
Leave(p, from, status) ==
  /\ Step(p, from, {status} \cup
       IF program[p] = "sender" /\ message_[p] # "live" THEN {"crashed"} ELSE {})
  /\ message_' = [message_ EXCEPT ![p] = "deleted"]
  /\ desc' = [desc EXCEPT ![p] = "none"]
  /\ UNCHANGED <<timeout, sent>>

Progress(p) ==
  \/ Socket(p) \/ SetLocalPort(p) \/ Transmit(p) \/ TrySending(p) \/ SetTimeout(p)
  \/ WaitTimesOut(p) \/ Leave(p, "failed", "returned -1") \/ Leave(p, "return", "returned 0")

ProgramsNext == \E p \in Processes : Progress(p) \/ Answer(p) \/ Receive(p)

ProgramsSpec == ProgramsInit /\ [][ProgramsNext]_programVars
FairProgramsSpec == ProgramsSpec /\ \A p \in Processes : WF_programVars(Progress(p))

-----------------------------------------------------------------------------
Over(p) == pc[p] \in {"returned 0", "returned -1", "crashed"}

(* A program that could not get its socket holds no descriptor, sends nothing
   and takes nothing from the program that has the port; and only such a
   program destroys a message_ it never made.                              *)
FailsCleanly ==
  \A p \in Processes :
    /\ pc[p] = "failed" => desc[p] = "none" /\ ~sent[p]
    /\ pc[p] = "crashed" => ~sent[p] /\ ~timeout[p]
    /\ sent[p] /\ ~Over(p) => desc[p] = "bound" /\ message_[p] = "live"

(* A sender that will never get a packet out, since the receiver's name does
   not resolve or the file cannot be opened, gives up only if it tried to send
   a full segment; otherwise it tries for ever and tells nobody.           *)
HopelessEnds ==
  \A p \in Processes :
    program[p] = "sender" /\ (~resolves[p] \/ file[p] = "missing") =>
      IF file[p] = "long" THEN <>Over(p)
      ELSE [](pc[p] = "send" => <>(pc[p] = "wait") /\ []~Over(p))
=============================================================================
