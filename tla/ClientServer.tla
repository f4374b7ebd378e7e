---------------------------- MODULE ClientServer ----------------------------
(***************************************************************************)
(* The programs of client_server together: a server and some clients that  *)
(* each ask for one file, while files may change, connections break and    *)
(* processes are killed.                                                   *)
(***************************************************************************)
EXTENDS WebServer, WebClient

CONSTANT MaxFaults  \* bound: changes to files, breaks, kills and failing mallocs

ASSUME ClientServerAssumption == MaxFaults \in Nat

VARIABLES
  faults,  \* how much of the budget is used
  hit      \* history: clients whose own answer a fault or change spoilt

vars == <<connVars, serverVars, clientVars, faults, hit>>

Init ==
  /\ ConnInit /\ ServerInit /\ ClientInit
  /\ faults = 0
  /\ hit = {}

Gone(c) == pc[c] \in Ends \cup {"killed"}

Client(c) ==
  /\ ClientStep(c, serverUp, Ended(c))
  /\ UNCHANGED <<serverVars, faults, hit>>

Child(c) ==
  /\ HandleConnection(c, Gone(c))
  /\ hit' = IF child[c] = "read" /\ Shrunk(c) THEN hit \cup {c} ELSE hit
  /\ UNCHANGED <<clientVars, faults>>

Server ==
  /\ AcceptFails \/ \E c \in Clients : Accept(c)
  /\ UNCHANGED <<clientVars, faults, hit>>

-----------------------------------------------------------------------------
(* The surroundings *)

(* Somebody writes, truncates, removes or creates a file. *)
ChangeFile ==
  /\ faults < MaxFaults /\ faults' = faults + 1
  /\ \E n \in Names : \E s \in FileSizes \ {file[n]} : file' = [file EXCEPT ![n] = s]
  /\ UNCHANGED <<connVars, limits, serverUp, accepted, child, held, want, length, body,
                 clientVars, hit>>

OneFault(c) ==
  /\ faults < MaxFaults /\ faults' = faults + 1
  /\ hit' = hit \cup {c}

(* What has not been read is lost, from anywhere on, also from within a line. *)
Break(c) ==
  /\ OneFault(c)
  /\ conn[c] = "open"
  /\ conn' = [conn EXCEPT ![c] = "broken"]
  /\ \E n \in 0 .. Len(toClient[c]) : toClient' = [toClient EXCEPT ![c] = SubSeq(@, 1, n)]
  /\ UNCHANGED <<toServer, serverVars, clientVars>>

(* Killing a child leaves its connection open: the parent has it too. *)
KillChild(c) ==
  /\ OneFault(c)
  /\ Alive(c)
  /\ child' = [child EXCEPT ![c] = "over"]
  /\ UNCHANGED <<connVars, file, limits, serverUp, accepted, held, want, length, body, clientVars>>

KillClient(c) ==
  /\ OneFault(c)
  /\ ~Gone(c)
  /\ pc' = [pc EXCEPT ![c] = "killed"]
  /\ UNCHANGED <<connVars, serverVars, request, count, contentLength, content>>

MallocFails(c) ==
  /\ OneFault(c)
  /\ NoMemory(c)
  /\ UNCHANGED clientVars

Fault == \E c \in Clients : Break(c) \/ KillChild(c) \/ KillClient(c) \/ MallocFails(c)

Next ==
  \/ \E c \in Clients : Client(c) \/ Child(c)
  \/ Server
  \/ ChangeFile
  \/ Fault

Spec == Init /\ [][Next]_vars

(* Every process that can go on does. *)
FairSpec ==
  /\ Spec
  /\ WF_vars(Server)
  /\ \A c \in Clients : WF_vars(Client(c)) /\ WF_vars(Child(c))

-----------------------------------------------------------------------------
TypeOK ==
  /\ conn \in [Clients -> {"none", "open", "shutdown", "broken"}]
  /\ \A c \in Clients : /\ toServer[c] \in Seq(Requests)
                        /\ \A i \in DOMAIN toClient[c] :
                             toClient[c][i].type \in {"status", "length", "blank", "byte"}
  /\ file \in [Names -> FileSizes] /\ limits \in Limits
  /\ serverUp \in BOOLEAN /\ accepted \subseteq Clients
  /\ child \in [Clients -> {"none", "recv", "size", "status", "prefix", "read", "body",
                            "bad", "missing", "shutdown", "over"}]
  /\ held \in [Clients -> SUBSET Clients]
  /\ want \in [Clients -> Requests]
  /\ length \in [Clients -> Nat]
  /\ pc \in [Clients -> Ends \cup {"connect", "send", "header", "content", "killed"}]
  /\ count \in [Clients -> 0 .. 2]
  /\ contentLength \in [Clients -> Nat]
  /\ hit \subseteq Clients

(* Neither program marks where the header ends but by a line of length 1:
   the client never takes one part of the answer for another, whatever was
   cut off or changed, and never counts a third header line.               *)
Framed ==
  \A c \in Clients :
    /\ pc[c] = "header" /\ toClient[c] # <<>> =>
         Head(toClient[c]).type = <<"status", "length", "blank">>[count[c] + 1]
    /\ pc[c] = "content" =>
         \A i \in DOMAIN toClient[c] : toClient[c][i].type = "byte"

(* A client that ends in the regular way has the file, all of it and nothing
   else, although send_file() takes its size and its bytes at two different
   times and recv() cuts it anywhere; what happens to another client's
   connection or child does not matter.                                    *)
WholeFile ==
  \A c \in Clients \ hit :
    pc[c] = "done" =>
      /\ contentLength[c] = length[c]
      /\ content[c] = Repeat(FileByte, length[c])

(* The client's strchr() finds what it looks for, unless its own connection
   was spoilt or the server has run out of descriptors.                    *)
NoCrash ==
  \A c \in Clients : pc[c] = "crashed" => c \in hit \/ ~serverUp

(* fork() failed for c. *)
Unserved(c) == c \in accepted /\ child[c] = "none"

(* Every client ends, with whatever else happening, unless its own answer was
   spoilt or no child could be forked for it: then it may wait for ever.   *)
ClientsEnd == \A c \in Clients : <>(pc[c] \in Ends \/ c \in hit \/ Unserved(c))

(* network.h:15-16: recv_stream() "Receives the entire stream. Returns size or
   -1 on error", and the client ends in the regular way on anything but -1. *)
ReceivesEntireStream ==
  \A c \in Clients : pc[c] = "done" => Len(content[c]) = contentLength[c]
=============================================================================
