---------------------------- MODULE Connections ----------------------------
(***************************************************************************)
(* The TCP connections between the clients and the server of client_server *)
(* and what travels on them.  Lines are read byte by byte by recv_line()   *)
(* and are single items here; the bytes of a file are items of their own,  *)
(* since recv() may return any number of them.  Lines are text without a   *)
(* NUL and end in their only CR LF.                                        *)
(***************************************************************************)
EXTENDS Integers, Sequences

CONSTANTS
  Clients,   \* one connection each
  Names,     \* names of files that are asked for
  NoGet      \* a request line that does not begin with GET

ASSUME ConnectionsAssumption == NoGet \notin Names

Requests == Names \cup {NoGet}

VARIABLES
  conn,      \* "none", "open", "shutdown" by the server, or "broken"
  toServer,  \* request lines not yet read
  toClient   \* items of the answer not yet read

connVars == <<conn, toServer, toClient>>

(* "HTTP 200 OK" and the like, "Content-Length:n", the line of a single LF
   that ends the header, a byte of the file, and a byte of uninitialised
   memory sent in the place of one.                                        *)
Status(code) == [type |-> "status", value |-> code]
Length(n) == [type |-> "length", value |-> n]
Blank == [type |-> "blank", value |-> 0]
FileByte == [type |-> "byte", value |-> 1]
JunkByte == [type |-> "byte", value |-> 0]

Repeat(x, n) == [i \in 1 .. n |-> x]

ConnInit ==
  /\ conn = [c \in Clients |-> "none"]
  /\ toServer = [c \in Clients |-> <<>>]
  /\ toClient = [c \in Clients |-> <<>>]

(* send() takes all of s; the peer has yet to read it. *)
Send(c, s) ==
  /\ conn[c] # "broken"
  /\ toClient' = [toClient EXCEPT ![c] = @ \o s]
  /\ UNCHANGED <<conn, toServer>>

(* recv() returns the next n items. *)
Recv(c, n) ==
  /\ n <= Len(toClient[c])
  /\ toClient' = [toClient EXCEPT ![c] = SubSeq(@, n + 1, Len(@))]
  /\ UNCHANGED <<conn, toServer>>
=============================================================================
