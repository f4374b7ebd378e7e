----------------------------- MODULE WebServer -----------------------------
(***************************************************************************)
(* server.cpp with send_string(), send_file() and get_file_size() of       *)
(* network.cpp: a parent that accepts connections and forks, and a child   *)
(* for each.  The parent never closes a connection it has accepted and     *)
(* never waits for a child, so both use up what the system grants.         *)
(***************************************************************************)
EXTENDS Connections, FiniteSetsExt

CONSTANTS
  FileSizes,  \* sizes a file may have, Missing among them
  Limits      \* what the system may grant: connections held, children

ASSUME WebServerAssumption ==
  /\ FileSizes \subseteq Nat \cup {-1}
  /\ Limits \subseteq [fds : Nat, procs : Nat]

VARIABLES
  file,      \* size of each file, Missing if there is none
  limits,
  serverUp,  \* the parent is running
  accepted,  \* connections whose descriptor the parent has
  child,     \* what the child for a connection does next
  held,      \* connections whose descriptor that child has
  want,      \* the request it has read
  length,    \* get_file_size()'s answer
  body       \* the bytes still to be sent

serverVars == <<file, limits, serverUp, accepted, child, held, want, length, body>>

Missing == -1

ServerInit ==
  /\ file \in [Names -> FileSizes]
  /\ limits \in Limits
  /\ serverUp = TRUE
  /\ accepted = {}
  /\ child = [c \in Clients |-> "none"]
  /\ held = [c \in Clients |-> {}]
  /\ want = [c \in Clients |-> NoGet]
  /\ length = [c \in Clients |-> 0]
  /\ body = [c \in Clients |-> <<>>]

Alive(c) == child[c] \notin {"none", "over"}
Forked == {c \in Clients : child[c] # "none"}

(* recv() at the client's end of c finds the end of the stream, once it has
   read what is left.  A connection nobody accepted goes with the parent.  *)
Ended(c) ==
  \/ conn[c] \in {"shutdown", "broken"}
  \/ ~serverUp /\ ~ \E d \in Clients : Alive(d) /\ c \in held[d]

-----------------------------------------------------------------------------
(* main(): the accept() loop *)

(* fork() fails when there are too many children, dead ones included: the
   parent then goes on, and nobody serves the connection.                  *)
Accept(c) ==
  /\ serverUp
  /\ conn[c] # "none" /\ c \notin accepted
  /\ Cardinality(accepted) < limits.fds
  /\ accepted' = accepted \cup {c}
  /\ IF Cardinality(Forked) < limits.procs
     THEN /\ child' = [child EXCEPT ![c] = "recv"]
          /\ held' = [held EXCEPT ![c] = accepted']
     ELSE UNCHANGED <<child, held>>
  /\ UNCHANGED <<connVars, file, limits, serverUp, want, length, body>>

(* accept() has no descriptor left to return, or reports that the connection
   it would return is already broken: the server exits.                    *)
AcceptFails ==
  /\ serverUp
  /\ \/ Cardinality(accepted) = limits.fds
     \/ \E c \in Clients \ accepted : conn[c] = "broken"
  /\ serverUp' = FALSE
  /\ UNCHANGED <<connVars, file, limits, accepted, child, held, want, length, body>>

-----------------------------------------------------------------------------
(* handle_connection(): the child for c *)

GoesOn(c, from, to) ==
  /\ child[c] = from
  /\ child' = [child EXCEPT ![c] = to]
  /\ UNCHANGED <<file, limits, serverUp, accepted, held>>

(* recv_line() and the test for GET.  When the client is gone before it has
   sent a line, buf is left as it was, uninitialised.                      *)
RecvRequest(c, gone) ==
  \E r \in Requests :
    /\ GoesOn(c, "recv", IF r = NoGet THEN "bad" ELSE "size")
    /\ \/ toServer[c] # <<>> /\ r = Head(toServer[c])
          /\ toServer' = [toServer EXCEPT ![c] = Tail(@)]
       \/ toServer[c] = <<>> /\ (gone \/ conn[c] = "broken") /\ UNCHANGED toServer
    /\ want' = [want EXCEPT ![c] = r]
    /\ UNCHANGED <<conn, toClient, length, body>>

GetFileSizeUnchecked(c) ==
  /\ GoesOn(c, "size", "status")
  /\ length' = [length EXCEPT ![c] = file[want[c]]]
  /\ UNCHANGED <<connVars, want, body>>
GetFileSize(c) ==
  /\ GoesOn(c, "size", IF file[want[c]] = Missing THEN "missing" ELSE "status")
  /\ length' = [length EXCEPT ![c] = IF file[want[c]] = Missing THEN @ ELSE file[want[c]]]
  /\ UNCHANGED <<connVars, want, body>>

(* malloc() failed *)
NoMemory(c) ==
  /\ GoesOn(c, "size", "shutdown")
  /\ file[want[c]] # Missing
  /\ UNCHANGED <<connVars, want, length, body>>

SendStatus(c) ==
  /\ GoesOn(c, "status", "prefix")
  /\ Send(c, <<Status(200)>>)
  /\ UNCHANGED <<want, length, body>>

SendPrefixOnly(c) ==
  /\ GoesOn(c, "prefix", "read") /\ Send(c, <<Length(length[c])>>)
  /\ UNCHANGED <<want, length, body>>
SendPrefix(c) ==
  /\ GoesOn(c, "prefix", "read") /\ Send(c, <<Length(length[c]), Blank>>)
  /\ UNCHANGED <<want, length, body>>

(* What is read of a file that has become shorter (or is gone) does not fill
   the buffer; strlen() then counts on through what malloc() left there, up
   to a NUL or to the end.                                                 *)
Shrunk(c) == file[want[c]] < length[c]
ReadFile(c) ==
  /\ GoesOn(c, "read", "body")
  /\ \E junk \in 0 .. length[c] :
       LET good == IF Shrunk(c) THEN Max({0, file[want[c]]}) ELSE length[c]
       IN  /\ good + junk <= length[c]
           /\ body' = [body EXCEPT ![c] = Repeat(FileByte, good) \o Repeat(JunkByte, junk)]
  /\ UNCHANGED <<connVars, want, length>>

(* send_string(): send() may take only a part. *)
SendBodyOnce(c) ==
  \E n \in 0 .. Len(body[c]) :
    /\ GoesOn(c, "body", "shutdown")
    /\ n > 0 \/ body[c] = <<>>
    /\ Send(c, SubSeq(body[c], 1, n))
    /\ body' = [body EXCEPT ![c] = <<>>]
    /\ UNCHANGED <<want, length>>
SendBody(c) ==
  \E n \in 0 .. Len(body[c]) :
    /\ GoesOn(c, "body", IF n = Len(body[c]) THEN "shutdown" ELSE "body")
    /\ n > 0 \/ body[c] = <<>>
    /\ Send(c, SubSeq(body[c], 1, n))
    /\ body' = [body EXCEPT ![c] = SubSeq(@, n + 1, Len(@))]
    /\ UNCHANGED <<want, length>>

(* send_bad_request() and send_not_found() *)
SendErrorUnsent(c, from, code) ==
  /\ GoesOn(c, from, "shutdown")
  /\ UNCHANGED <<connVars, want, length, body>>
SendError(c, from, code) ==
  /\ GoesOn(c, from, "shutdown")
  /\ Send(c, <<Status(code), Blank>>)
  /\ UNCHANGED <<want, length, body>>

(* The peer is gone: send() returns -1, and so does every later one if
   SIGPIPE does not end the child before.                                  *)
SendFails(c, gone) ==
  /\ gone \/ conn[c] = "broken"
  /\ \E from \in {"status", "prefix", "body", "bad", "missing"} : GoesOn(c, from, "over")
  /\ UNCHANGED <<connVars, want, length, body>>

(* shutdown() and exit() *)
Shutdown(c) ==
  /\ GoesOn(c, "shutdown", "over")
  /\ conn' = [conn EXCEPT ![c] = IF @ = "open" THEN "shutdown" ELSE @]
  /\ UNCHANGED <<toServer, toClient, want, length, body>>

HandleConnection(c, gone) ==
  \/ RecvRequest(c, gone)
  \/ GetFileSize(c)
  \/ SendStatus(c) \/ SendPrefix(c) \/ ReadFile(c) \/ SendBody(c)
  \/ SendError(c, "bad", 400) \/ SendError(c, "missing", 404)
  \/ SendFails(c, gone)
  \/ Shutdown(c)
=============================================================================
