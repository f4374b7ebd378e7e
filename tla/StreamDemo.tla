----------------------------- MODULE StreamDemo -----------------------------
(***************************************************************************)
(* The stream demo of MP0: server.c and some of its clients (client.c),    *)
(* while the file may change, connections break and processes are killed.  *)
(* A client connects, calls recv() once and prints what it got.            *)
(***************************************************************************)
EXTENDS StreamServer

CONSTANTS
  MAXDATASIZE,  \* 103 in the code
  MaxFaults     \* bound: changes, breaks and kills

ASSUME StreamDemoAssumption == MAXDATASIZE \in Nat \ {0, 1} /\ MaxFaults \in Nat

VARIABLES
  client,     \* "connect", "recv", or how the client ended
  buf,    \* what recv() returned
  faults

clientVars == <<client, buf>>
streamVars == <<serverVars, clientVars, faults>>

Ends == {"done", "failed", "killed"}

StreamInit ==
  /\ ServerInit
  /\ client = [c \in Clients |-> "connect"]
  /\ buf = [c \in Clients |-> <<>>]
  /\ faults = 0

-----------------------------------------------------------------------------
(* client.c *)

Connect(c) ==
  /\ client[c] = "connect"
  /\ client' = [client EXCEPT ![c] = IF Listening THEN "recv" ELSE "failed"]
  /\ conn' = IF Listening THEN [conn EXCEPT ![c] = "connected"] ELSE conn
  /\ UNCHANGED <<fileVars, procVars, toClient, parent, new_fd, buf, faults>>

(* The one recv(): some of what has come, nothing at the end of the stream,
   or an error.                                                            *)
RecvOnce(c) ==
  /\ client[c] = "recv"
  /\ \/ \E n \in 1 .. Min({MAXDATASIZE - 1, Len(toClient[c])}) :
          /\ buf' = [buf EXCEPT ![c] = SubSeq(toClient[c], 1, n)]
          /\ toClient' = [toClient EXCEPT ![c] = SubSeq(@, n + 1, Len(@))]
          /\ client' = [client EXCEPT ![c] = "done"]
     \/ /\ toClient[c] = <<>> /\ Ended(c)
        /\ client' = [client EXCEPT ![c] = IF conn[c] = "broken" THEN "failed" ELSE "done"]
        /\ UNCHANGED <<buf, toClient>>
  /\ UNCHANGED <<fileVars, procVars, conn, parent, new_fd, faults>>

(* What it prints: the number that the leading digits of buf make ... *)
LeadingDigits(s) == Before(s, LAMBDA ch : ch \notin Digits)
Number(s) ==
  LET d == LeadingDigits(s)
      number[k \in 0 .. Len(d)] == IF k = 0 THEN 0 ELSE number[k - 1] * 10 + d[k]
  IN  number[Len(d)]
(* ... and the characters after them. *)
Rest(s) == SubSeq(s, Len(LeadingDigits(s)) + 1, Len(s))

Client(c) == Connect(c) \/ RecvOnce(c)

-----------------------------------------------------------------------------
(* The surroundings *)

OneFault == faults < MaxFaults /\ faults' = faults + 1

ChangeFile ==
  /\ OneFault
  /\ file' \in Files \ {file}
  /\ UNCHANGED <<f_length, out, procVars, connVars, parent, new_fd, clientVars>>

(* What had not arrived is lost. *)
Break(c) ==
  /\ OneFault
  /\ conn[c] = "connected"
  /\ conn' = [conn EXCEPT ![c] = "broken"]
  /\ \E n \in 0 .. Len(toClient[c]) : toClient' = [toClient EXCEPT ![c] = SubSeq(@, 1, n)]
  /\ UNCHANGED <<fileVars, procVars, parent, new_fd, clientVars>>

KillChild(c) ==
  /\ OneFault
  /\ child[c] \in {"send", "close"}
  /\ child' = [child EXCEPT ![c] = "exited"]
  /\ zombies' = zombies \cup {c} /\ sigchld' = TRUE
  /\ UNCHANGED <<fileVars, handling, procLimit, connVars, parent, new_fd, clientVars>>

KillClient(c) ==
  /\ OneFault
  /\ client[c] \notin Ends
  /\ client' = [client EXCEPT ![c] = "killed"]
  /\ UNCHANGED <<serverVars, buf>>

Fault == ChangeFile \/ \E c \in Clients : Break(c) \/ KillChild(c) \/ KillClient(c)

ServerChild(c) == Child(c, client[c] \in Ends) /\ UNCHANGED <<clientVars, faults>>
ServerParent == Parent /\ UNCHANGED <<clientVars, faults>>
ServerHandler == Handler /\ UNCHANGED <<clientVars, faults>>

StreamNext ==
  \/ ServerParent \/ ServerHandler \/ Fault
  \/ \E c \in Clients : ServerChild(c) \/ Client(c)

StreamSpec == StreamInit /\ [][StreamNext]_streamVars

(* Every process that can go on does, and a signal is delivered. *)
FairStreamSpec ==
  /\ StreamSpec
  /\ WF_streamVars(ServerParent) /\ WF_streamVars(ServerHandler)
  /\ \A c \in Clients : WF_streamVars(ServerChild(c)) /\ WF_streamVars(Client(c))

-----------------------------------------------------------------------------
(* snprintf() returns the length it would have liked to write, and send() is
   given that length: the message must fit into `out' with its NUL, however
   long the file is.                                                       *)
MessageFits == Len(out) < MAX_FILE_LENGTH + MAX_INT_LENGTH

(* Signals that arrive while one is pending are merged, and those that arrive
   during the handler are delivered after it: still no dead child is ever
   left behind without a handler that runs or is going to.                 *)
NoZombieForgotten == zombies # {} => sigchld \/ handling

(* Number and text have nothing between them, and recv() may cut anywhere: a
   client that received more than the number, from a file that does not go on
   with a digit, prints the length and the start of the file.              *)
PrintsLengthAndStart ==
  LET n == Len(Decimal(f_length))
  IN  /\ MessageFits
      /\ \A c \in Clients :
           client[c] = "done" /\ Len(buf[c]) > n /\ buf[c][n + 1] \notin Digits =>
             /\ Number(buf[c]) = f_length
             /\ IsPrefix(Rest(buf[c]), SubSeq(out, n + 1, Len(out)))

(* Every client that has connected ends, also the one for which fork() failed
   or whose child was killed: the parent and the children keep no descriptor
   of a connection.                                                        *)
StreamClientsEnd == \A c \in Clients : conn[c] # "none" ~> client[c] \in Ends
=============================================================================
