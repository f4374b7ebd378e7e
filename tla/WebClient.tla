----------------------------- MODULE WebClient -----------------------------
(***************************************************************************)
(* client.cpp with recv_line() and recv_stream() of network.cpp: send the  *)
(* request, read the header line by line, then as many bytes as it says.   *)
(* `end' tells an action that nothing more will arrive.                    *)
(***************************************************************************)
EXTENDS Connections, FiniteSetsExt

CONSTANT Block    \* the most recv_stream() asks for at once (5*1024)

ASSUME WebClientAssumption == Block \in Nat \ {0}

VARIABLES
  request,        \* what each client asks for
  pc,             \* what it does next, or how it ended
  count,          \* header lines read
  contentLength,  \* content_length
  content         \* the bytes received

clientVars == <<request, pc, count, contentLength, content>>

Ends == {"done", "failed", "badrequest", "notfound", "crashed"}

ClientInit ==
  /\ request \in [Clients -> Requests]
  /\ pc = [c \in Clients |-> "connect"]
  /\ count = [c \in Clients |-> 0]
  /\ contentLength = [c \in Clients |-> 0]
  /\ content = [c \in Clients |-> <<>>]

Continues(c, from, to) ==
  /\ pc[c] = from
  /\ pc' = [pc EXCEPT ![c] = to]
  /\ UNCHANGED request

Connect(c, listening) ==
  /\ Continues(c, "connect", IF listening THEN "send" ELSE "failed")
  /\ conn' = IF listening THEN [conn EXCEPT ![c] = "open"] ELSE conn
  /\ UNCHANGED <<toServer, toClient, count, contentLength, content>>

(* The result of send_string() is not looked at. *)
SendRequest(c) ==
  /\ Continues(c, "send", "header")
  /\ toServer' = [toServer EXCEPT ![c] = Append(@, request[c])]
  /\ UNCHANGED <<conn, toClient, count, contentLength, content>>

-----------------------------------------------------------------------------
(* The loop over the header.  The first line must have a blank in it and the
   second a colon: strchr() returns NULL otherwise and atoi() crashes.     *)

(* A line of length 1 ends the header. *)
EndOfHeader(c) ==
  /\ toClient[c] # <<>> /\ Head(toClient[c]) = Blank
  /\ Continues(c, "header", "content")
  /\ Recv(c, 1)
  /\ UNCHANGED <<count, contentLength, content>>

HeaderLine(c) ==
  /\ toClient[c] # <<>> /\ Head(toClient[c]) # Blank
  /\ count' = [count EXCEPT ![c] = @ + 1]
  /\ Recv(c, 1)
  /\ UNCHANGED content
  /\ LET l == Head(toClient[c])
     IN  \/ /\ count'[c] = 1 /\ l.type = "status"
            /\ Continues(c, "header", CASE l.value = 400 -> "badrequest"
                                        [] l.value = 404 -> "notfound"
                                        [] OTHER -> "header")
            /\ UNCHANGED contentLength
         \/ /\ count'[c] = 2 /\ l.type = "length"
            /\ Continues(c, "header", "header")
            /\ contentLength' = [contentLength EXCEPT ![c] = l.value]
         \/ /\ count'[c] <= 2 /\ l.type # <<"status", "length">>[count'[c]]
            /\ Continues(c, "header", "crashed")
            /\ UNCHANGED contentLength
         \/ /\ count'[c] > 2
            /\ Continues(c, "header", "header")
            /\ UNCHANGED contentLength

(* At the end of the stream recv_line() returns 0 and leaves in buf what was
   there: the request, which has a blank, at first; then that or the status
   line, which have no colon.  When the connection breaks, the start of a line
   may have been written over it, and what strchr() and atoi() make of the
   mixture depends on the name of the file.  After two lines the loop never
   ends.                                                                   *)
Misread(c) ==
  CASE conn[c] # "broken" -> {IF count[c] = 0 THEN "header" ELSE "crashed"}
    [] count[c] = 0 -> {"header", "crashed", "badrequest", "notfound"}
    [] OTHER -> {"header", "crashed"}

HeaderCutOff(c, end) ==
  /\ end /\ toClient[c] = <<>>
  /\ count[c] < 2
  /\ \E next \in Misread(c) : Continues(c, "header", next)
  /\ count' = [count EXCEPT ![c] = @ + 1]
  /\ UNCHANGED <<connVars, contentLength, content>>

-----------------------------------------------------------------------------
(* recv_stream() *)

Take(c, n) ==
  /\ Recv(c, n)
  /\ content' = [content EXCEPT ![c] = @ \o SubSeq(toClient[c], 1, n)]
  /\ UNCHANGED <<count, contentLength>>

(* MSG_WAITALL: the whole size, or what there is before the end, or -1 when
   that is nothing and the connection broke.                               *)
RecvAllAvailable(c, end) ==
  /\ contentLength[c] < Block
  /\ toClient[c] # <<>> \/ contentLength[c] = 0
  /\ Continues(c, "content", "done")
  /\ Take(c, Min({contentLength[c], Len(toClient[c])}))
RecvAll(c, end) ==
  /\ contentLength[c] < Block
  /\ Len(toClient[c]) >= contentLength[c] \/ end
  /\ Continues(c, "content",
       IF conn[c] = "broken" /\ toClient[c] = <<>> /\ contentLength[c] > 0
       THEN "failed" ELSE "done")
  /\ Take(c, Min({contentLength[c], Len(toClient[c])}))

(* The bytes one recv() of a large file asks for, and may return.  At the
   end of the stream it returns 0, and the loop never ends.                *)
Asked(c) == Min({Block, contentLength[c] - Len(content[c])})
RecvSome(c) ==
  /\ contentLength[c] >= Block
  /\ \E n \in 1 .. Min({Asked(c), Len(toClient[c])}) :
       /\ Take(c, n)
       /\ Continues(c, "content",
            IF Len(content[c]) + n = contentLength[c] THEN "done" ELSE "content")

RecvBreaks(c) ==
  /\ contentLength[c] >= Block
  /\ toClient[c] = <<>> /\ conn[c] = "broken"
  /\ Continues(c, "content", "failed")
  /\ UNCHANGED <<connVars, count, contentLength, content>>

ClientStep(c, listening, end) ==
  \/ Connect(c, listening)
  \/ SendRequest(c)
  \/ EndOfHeader(c) \/ HeaderLine(c) \/ HeaderCutOff(c, end)
  \/ RecvAll(c, end) \/ RecvSome(c) \/ RecvBreaks(c)
=============================================================================
