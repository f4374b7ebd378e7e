---------------------------- MODULE StreamServer ----------------------------
(***************************************************************************)
(* MP0/server.c: it reads the start of a file once, then answers every     *)
(* connection with the same message, the number of bytes in decimal digits *)
(* followed at once by the bytes, from a child process of its own.  Dead   *)
(* children are reaped by a SIGCHLD handler that interrupts the parent.    *)
(*                                                                         *)
(* A character is a number: 0 to 9 are the decimal digits.                 *)
(***************************************************************************)
EXTENDS Integers, FiniteSetsExt, SequencesExt

CONSTANTS
  Clients,          \* one connection each
  Files,            \* what the file may hold
  MAX_FILE_LENGTH,  \* 100 in the code
  MAX_INT_LENGTH,   \* 3 in the code
  ProcLimits        \* how many children the system may allow, dead ones included

Text == 10          \* any character that is neither a digit nor NUL
Nul == 11
Digits == 0 .. 9

(* A length below MAX_FILE_LENGTH has at most two digits. *)
ASSUME StreamServerAssumption ==
  /\ MAX_FILE_LENGTH \in 1 .. 100 /\ MAX_INT_LENGTH = 3
  /\ Files \subseteq Seq(Digits \cup {Text, Nul})
  /\ ProcLimits \subseteq Nat \ {0}

VARIABLES
  file,       \* the file as it is now
  f_length,
  out,        \* the message
  parent,     \* what main() does next
  new_fd,     \* the connection the parent has a descriptor of, or none
  child,      \* what the child for a connection does next
  zombies,    \* children that have exited and are not reaped
  sigchld,    \* SIGCHLD is pending: signals that arrive meanwhile are merged
  handling,   \* sigchld_handler() is running, and SIGCHLD blocked
  procLimit,
  conn,       \* "none", "connected", "broken"
  toClient    \* characters sent and not yet read

fileVars == <<file, f_length, out>>
procVars == <<child, zombies, sigchld, handling, procLimit>>
connVars == <<conn, toClient>>
serverVars == <<fileVars, procVars, connVars, parent, new_fd>>

ServerInit ==
  /\ file \in Files
  /\ f_length = 0 /\ out = <<>>
  /\ parent = "size" /\ new_fd = {}
  /\ child = [c \in Clients |-> "none"]
  /\ zombies = {} /\ sigchld = FALSE /\ handling = FALSE
  /\ procLimit \in ProcLimits
  /\ conn = [c \in Clients |-> "none"]
  /\ toClient = [c \in Clients |-> <<>>]

Listening == parent \in {"accept", "close"}

-----------------------------------------------------------------------------
(* Before the loop: get_file_size(), then read() and snprintf() *)

GetFileSizeUnlimited ==
  /\ parent = "size" /\ parent' = "read"
  /\ f_length' = Len(file)
  /\ UNCHANGED <<file, out, new_fd, procVars, connVars>>
GetFileSize ==
  /\ parent = "size" /\ parent' = "read"
  /\ f_length' = Min({Len(file), MAX_FILE_LENGTH - 1})
  /\ UNCHANGED <<file, out, new_fd, procVars, connVars>>

Decimal(n) == IF n < 10 THEN <<n>> ELSE <<n \div 10, n % 10>>

(* file_data is zeroed before, and %s ends at the first NUL; the file may
   have become shorter since its size was taken, or not be read at all.    *)
Before(s, Stops(_)) ==
  LET i == SelectInSeq(s, Stops) IN IF i = 0 THEN s ELSE SubSeq(s, 1, i - 1)
Data(f, n) == Before(SubSeq(f, 1, Min({n, Len(f)})), LAMBDA ch : ch = Nul)

ReadFile ==
  /\ parent = "read" /\ parent' = "accept"
  /\ out' = Decimal(f_length) \o Data(file, f_length)
  /\ UNCHANGED <<file, f_length, new_fd, procVars, connVars>>

-----------------------------------------------------------------------------
(* The accept() loop.  The handler may interrupt it between any two steps;
   SA_RESTART makes accept() go on then.                                   *)

Children == {c \in Clients : child[c] \notin {"none", "reaped"}}

(* accept() and fork().  When fork() fails the parent does not notice. *)
AcceptAndFork(c) ==
  /\ parent = "accept" /\ ~handling
  /\ conn[c] # "none" /\ child[c] = "none"
  /\ parent' = "close" /\ new_fd' = {c}
  /\ child' = [child EXCEPT ![c] =
                 IF Cardinality(Children) < procLimit THEN "send" ELSE "reaped"]
  /\ UNCHANGED <<fileVars, zombies, sigchld, handling, procLimit, connVars>>

CloseNewFdForgotten ==
  /\ parent = "close" /\ ~handling
  /\ parent' = "accept"
  /\ UNCHANGED <<fileVars, procVars, connVars, new_fd>>
CloseNewFd ==
  /\ parent = "close" /\ ~handling
  /\ parent' = "accept" /\ new_fd' = {}
  /\ UNCHANGED <<fileVars, procVars, connVars>>

-----------------------------------------------------------------------------
(* The child for c *)

ChildSends(c, gone) ==
  /\ child[c] = "send"
  /\ child' = [child EXCEPT ![c] = "close"]
  /\ \/ ~gone /\ conn[c] = "connected" /\ toClient' = [toClient EXCEPT ![c] = @ \o out]
     \/ (gone \/ conn[c] = "broken") /\ UNCHANGED toClient
  /\ UNCHANGED <<fileVars, zombies, sigchld, handling, procLimit, conn, parent, new_fd>>

(* close() and exit(): the parent gets SIGCHLD. *)
ChildExits(c) ==
  /\ child[c] = "close"
  /\ child' = [child EXCEPT ![c] = "exited"]
  /\ zombies' = zombies \cup {c}
  /\ sigchld' = TRUE
  /\ UNCHANGED <<fileVars, handling, procLimit, connVars, parent, new_fd>>

-----------------------------------------------------------------------------
(* sigchld_handler() *)

HandlerStarts ==
  /\ sigchld /\ ~handling
  /\ handling' = TRUE /\ sigchld' = FALSE
  /\ UNCHANGED <<fileVars, child, zombies, procLimit, connVars, parent, new_fd>>

(* One turn of the loop: waitpid() takes a dead child, or there is none. *)
WaitPidOnce ==
  /\ handling
  /\ \/ \E c \in zombies : zombies' = zombies \ {c} /\ child' = [child EXCEPT ![c] = "reaped"]
     \/ zombies = {} /\ UNCHANGED <<zombies, child>>
  /\ handling' = FALSE
  /\ UNCHANGED <<fileVars, sigchld, procLimit, connVars, parent, new_fd>>
WaitPid ==
  /\ handling
  /\ \/ \E c \in zombies : /\ zombies' = zombies \ {c} /\ child' = [child EXCEPT ![c] = "reaped"]
                           /\ UNCHANGED handling
     \/ zombies = {} /\ handling' = FALSE /\ UNCHANGED <<zombies, child>>
  /\ UNCHANGED <<fileVars, sigchld, procLimit, connVars, parent, new_fd>>

Handler == HandlerStarts \/ WaitPid
Parent == GetFileSize \/ ReadFile \/ CloseNewFd \/ \E c \in Clients : AcceptAndFork(c)
Child(c, gone) == ChildSends(c, gone) \/ ChildExits(c)

(* recv() at the client's end of c finds the end of the stream, once what is
   left is read: nobody has a descriptor of the connection any more.        *)
Ended(c) == conn[c] = "broken" \/ (child[c] \in {"exited", "reaped"} /\ c \notin new_fd)
=============================================================================
