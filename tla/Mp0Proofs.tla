----------------------------- MODULE Mp0Proofs ------------------------------
(***************************************************************************)
(* Proofs about the demonstration programs of MP0: the loop over addresses *)
(* for lists of any length, the stream server and client for any clients,  *)
(* files and faults, and the datagrams.                                    *)
(***************************************************************************)
EXTENDS AddressLoop, StreamDemo, Datagram, SequenceTheorems, WellFoundedInduction, TLAPS

(* The loop over addresses *)

Worked(call) == InList /\ call \in addresses[pos]

(* What the next call tells about the calls that were made for pos. *)
AddressInv ==
  /\ program \in Demos /\ addresses \in Seq(SUBSET Calls) /\ pos \in Nat \ {0}
  /\ next \in Calls \cup {"ready", "exit"}
  /\ \A i \in 1 .. Len(addresses) : i < pos => ~Usable(i)
  /\ next \in {"socket", "exit"} => open = {}
  /\ next \in {"setsockopt", "attach", "ready"} => open = {pos} /\ Worked("socket")
  /\ next = "setsockopt" => program = "server"
  /\ next = "attach" => program # "talker" /\ (program = "server" => Worked("setsockopt"))
  /\ next = "ready" => Usable(pos)
  /\ next = "exit" /\ InList => program = "server" /\ ~Usable(pos)

LEMMA InitAddressInv == AddressInit => AddressInv
<1> SUFFICES ASSUME AddressInit PROVE AddressInv
  OBVIOUS
<1>1. addresses \in Seq(SUBSET Calls)
  BY AddressAssumption DEF AddressInit
<1> QED
  BY <1>1 DEF AddressInit, AddressInv, Demos, Calls

LEMMA NextAddressInv == AddressInv /\ [AddressNext]_addressVars => AddressInv'
<1> SUFFICES ASSUME AddressInv, [AddressNext]_addressVars PROVE AddressInv'
  OBVIOUS
<1> USE DEF AddressInv, InList, Worked, Usable, Needed, Works, Calling, Calls, Demos, NextAddress
<1>1. CASE OpenSocket
  BY <1>1 DEF OpenSocket
<1>2. CASE SetOption
  BY <1>2 DEF SetOption
<1>3. CASE Attach
  BY <1>3 DEF Attach
<1>4. CASE NoAddress
  BY <1>4 DEF NoAddress
<1>5. CASE UNCHANGED addressVars
  BY <1>5 DEF addressVars
<1> QED
  BY <1>1, <1>2, <1>3, <1>4, <1>5 DEF AddressNext

(* Whatever calls fail, main() gets its socket from the first address that
   works, and gives back what it opened for the others.                     *)
THEOREM FirstUsableIsTaken == AddressSpec => []FirstUsable
<1>1. AddressInv => FirstUsable
  BY DEF AddressInv, FirstUsable, OneDescriptor, InList, Worked, Calls
<1> QED
  BY <1>1, InitAddressInv, NextAddressInv, PTL DEF AddressSpec

-----------------------------------------------------------------------------
(* The children of the stream server, and its message *)

(* Every action either leaves the handler, its signal and the dead children
   alone, or is one of these four.                                         *)
Signals == <<zombies, sigchld, handling>>

LEMMA InitNoZombie == StreamInit => NoZombieForgotten
BY DEF StreamInit, ServerInit, NoZombieForgotten

LEMMA QuietSteps ==
  ASSUME [StreamNext]_streamVars
  PROVE  \/ UNCHANGED Signals
         \/ \E c \in Clients : ChildExits(c) \/ KillChild(c)
         \/ HandlerStarts \/ WaitPid
<1> USE DEF Signals
<1>1. CASE UNCHANGED streamVars
  BY <1>1 DEF streamVars, serverVars, procVars
<1>2. CASE ServerParent
  <2>1. CASE GetFileSize
    BY <2>1 DEF GetFileSize, procVars
  <2>2. CASE ReadFile
    BY <2>2 DEF ReadFile, procVars
  <2>3. CASE CloseNewFd
    BY <2>3 DEF CloseNewFd, procVars
  <2>4. CASE \E c \in Clients : AcceptAndFork(c)
    BY <2>4 DEF AcceptAndFork
  <2> QED
    BY <1>2, <2>1, <2>2, <2>3, <2>4 DEF ServerParent, Parent
<1>3. CASE ServerHandler
  BY <1>3 DEF ServerHandler, Handler
<1>4. CASE Fault
  <2>1. CASE ChangeFile
    BY <2>1 DEF ChangeFile, procVars
  <2>2. ASSUME NEW c \in Clients, Break(c) PROVE UNCHANGED Signals
    BY <2>2 DEF Break, procVars
  <2>3. ASSUME NEW c \in Clients, KillClient(c) PROVE UNCHANGED Signals
    BY <2>3 DEF KillClient, serverVars, procVars
  <2> QED
    BY <1>4, <2>1, <2>2, <2>3 DEF Fault
<1>5. ASSUME NEW c \in Clients, ServerChild(c) PROVE UNCHANGED Signals \/ ChildExits(c)
  BY <1>5 DEF ServerChild, Child, ChildSends
<1>6. ASSUME NEW c \in Clients, Client(c) PROVE UNCHANGED Signals
  BY <1>6 DEF Client, Connect, RecvOnce, procVars
<1> QED
  BY <1>1, <1>2, <1>3, <1>4, <1>5, <1>6 DEF StreamNext

LEMMA NextNoZombie == NoZombieForgotten /\ [StreamNext]_streamVars => NoZombieForgotten'
<1> SUFFICES ASSUME NoZombieForgotten, [StreamNext]_streamVars PROVE NoZombieForgotten'
  OBVIOUS
<1> USE DEF NoZombieForgotten
<1>1. CASE UNCHANGED Signals
  BY <1>1 DEF Signals
<1>2. CASE \E c \in Clients : ChildExits(c) \/ KillChild(c)
  BY <1>2 DEF ChildExits, KillChild
<1>3. CASE HandlerStarts
  BY <1>3 DEF HandlerStarts
<1>4. CASE WaitPid
  BY <1>4 DEF WaitPid
<1> QED
  BY <1>1, <1>2, <1>3, <1>4, QuietSteps

(* However many children die at once and however their signals are merged,
   whoever is dead has a signal or a handler that will find him.            *)
THEOREM ChildrenAreReaped == StreamSpec => []NoZombieForgotten
BY InitNoZombie, NextNoZombie, PTL DEF StreamSpec

-----------------------------------------------------------------------------
(* The least number principle, for the first NUL: LessThan is < as a set. *)
LessThan == {ss \in Nat \X Nat : ss[1] < ss[2]}

LEMMA MinIsInSet ==
  ASSUME NEW I \in SUBSET Nat, I # {}
  PROVE  Min(I) \in I
<1>1. IsWellFoundedOn(LessThan, Nat)
  BY NatLessThanWellFounded DEF OpToRel, LessThan
<1>2. PICK k \in I : \A j \in I : <<j, k>> \notin LessThan
  BY <1>1, WFMin
<1>3. \A j \in I : ~(j < k)
  BY <1>2 DEF LessThan
<1>4. \A j \in I : k <= j
  BY <1>3
<1> QED
  BY <1>4 DEF Min

(* Before() takes a prefix. *)
LEMMA DataFits ==
  ASSUME NEW f \in Files, NEW n \in Nat
  PROVE  Data(f, n) \in Seq(Digits \cup {Text, Nul}) /\ Len(Data(f, n)) <= n
<1> DEFINE T == Digits \cup {Text, Nul}
           m == Min({n, Len(f)})
           s == SubSeq(f, 1, m)
           k == SelectInSeq(s, LAMBDA ch : ch = Nul)
<1>1. f \in Seq(T) /\ Len(f) \in Nat
  BY StreamServerAssumption
<1>2. m \in 0 .. Len(f) /\ m <= n
  BY <1>1 DEF Min
<1> HIDE DEF m
<1>3. s \in Seq(T) /\ Len(s) = m
  BY <1>1, <1>2
<1> HIDE DEF s
<1>4. k \in 0 .. Len(s)
  <2> DEFINE I == {j \in 1 .. Len(s) : s[j] = Nul}
  <2>1. k = IF I # {} THEN Min(I) ELSE 0
    BY DEF SelectInSeq
  <2>2. I \in SUBSET Nat /\ I \subseteq 1 .. Len(s) /\ Len(s) \in Nat
    BY <1>2, <1>3
  <2> HIDE DEF I
  <2> QED
    BY <2>1, <2>2, MinIsInSet
<1>5. Data(f, n) = IF k = 0 THEN s ELSE SubSeq(s, 1, k - 1)
  BY DEF Data, Before, s, m
<1> HIDE DEF k, T
<1> QED
  BY <1>2, <1>3, <1>4, <1>5 DEF T

-----------------------------------------------------------------------------
(* The message is written once, and the file may change before, between and
   after the two steps that look at it: what bounds it is the length that was
   taken, which has at most two digits.                                     *)
MessageInv ==
  /\ file \in Files
  /\ f_length \in 0 .. MAX_FILE_LENGTH - 1
  /\ out \in Seq(Digits \cup {Text, Nul}) /\ Len(out) <= f_length + 2
  /\ parent \in {"size", "read"} => out = <<>>

LEMMA InitMessage == StreamInit => MessageInv
<1> SUFFICES ASSUME StreamInit PROVE MessageInv
  OBVIOUS
<1>1. file \in Files /\ f_length = 0 /\ out = <<>>
  BY DEF StreamInit, ServerInit
<1> QED
  BY <1>1, StreamServerAssumption DEF MessageInv

LEMMA GetFileSizeKeeps == MessageInv /\ GetFileSize => MessageInv'
<1> SUFFICES ASSUME MessageInv, GetFileSize PROVE MessageInv'
  OBVIOUS
<1>1. Len(file) \in Nat
  BY StreamServerAssumption DEF MessageInv
<1>2. Min({Len(file), MAX_FILE_LENGTH - 1}) \in 0 .. MAX_FILE_LENGTH - 1
  <2>1. MAX_FILE_LENGTH - 1 \in Nat
    BY StreamServerAssumption
  <2> DEFINE I == {Len(file), MAX_FILE_LENGTH - 1}
  <2>2. Min(I) = CHOOSE x \in I : \A y \in I : x <= y
    BY DEF Min
  <2>3. \E x \in I : \A y \in I : x <= y
    BY <1>1, <2>1
  <2>4. Min(I) \in I /\ \A y \in I : Min(I) <= y
    BY <2>2, <2>3
  <2> QED
    BY <1>1, <2>1, <2>4
<1>3. UNCHANGED <<file, out>> /\ out = <<>> /\ f_length' = Min({Len(file), MAX_FILE_LENGTH - 1})
  BY DEF GetFileSize, MessageInv
<1> QED
  BY <1>2, <1>3 DEF MessageInv

LEMMA ReadFileKeeps == MessageInv /\ ReadFile => MessageInv'
<1> SUFFICES ASSUME MessageInv, ReadFile PROVE MessageInv'
  OBVIOUS
<1>1. f_length \in Nat /\ f_length < 100 /\ file \in Files
  BY StreamServerAssumption DEF MessageInv
<1>2. /\ Data(file, f_length) \in Seq(Digits \cup {Text, Nul})
      /\ Len(Data(file, f_length)) <= f_length
  BY <1>1, DataFits
<1>3. Decimal(f_length) \in Seq(Digits \cup {Text, Nul}) /\ Len(Decimal(f_length)) <= 2
  <2>1. CASE f_length < 10
    <3>1. f_length \in Digits
      BY <1>1, <2>1 DEF Digits
    <3> QED
      BY <2>1, <3>1 DEF Decimal
  <2>2. CASE ~(f_length < 10)
    <3>1. f_length \div 10 \in Digits /\ f_length % 10 \in Digits
      BY <1>1, <2>2 DEF Digits
    <3> QED
      BY <2>2, <3>1 DEF Decimal
  <2> QED
    BY <2>1, <2>2
<1>4. out' = Decimal(f_length) \o Data(file, f_length)
  BY DEF ReadFile
<1>5. out' \in Seq(Digits \cup {Text, Nul}) /\ Len(out') <= f_length + 2
  BY <1>1, <1>2, <1>3, <1>4
<1>6. UNCHANGED <<file, f_length>> /\ parent' = "accept"
  BY DEF ReadFile
<1> QED
  BY <1>5, <1>6 DEF MessageInv

LEMMA NextMessage == MessageInv /\ [StreamNext]_streamVars => MessageInv'
<1> SUFFICES ASSUME MessageInv, [StreamNext]_streamVars PROVE MessageInv'
  OBVIOUS
<1> DEFINE Quiet == UNCHANGED <<f_length, out>> /\ file' \in Files
                    /\ (parent' \in {"size", "read"} => parent' = parent)
<1>1. Quiet => MessageInv'
  BY DEF MessageInv
<1>2. ASSUME UNCHANGED <<fileVars, parent>> PROVE Quiet
  BY <1>2 DEF fileVars, MessageInv
<1>3. CASE UNCHANGED streamVars
  BY <1>3, <1>2, <1>1 DEF streamVars, serverVars
<1>4. CASE ServerParent
  <2>1. ASSUME NEW c \in Clients, AcceptAndFork(c) PROVE Quiet
    BY <2>1 DEF AcceptAndFork, fileVars, MessageInv
  <2>2. CASE CloseNewFd
    BY <2>2, <1>1 DEF CloseNewFd, fileVars, MessageInv
  <2> QED
    BY <1>4, <1>1, <2>1, <2>2, GetFileSizeKeeps, ReadFileKeeps DEF ServerParent, Parent
<1>5. CASE ServerHandler
  BY <1>5, <1>2, <1>1 DEF ServerHandler, Handler, HandlerStarts, WaitPid
<1>6. CASE Fault
  <2>1. CASE ChangeFile
    BY <2>1, <1>1 DEF ChangeFile
  <2>2. ASSUME NEW c \in Clients, Break(c) \/ KillChild(c) \/ KillClient(c) PROVE Quiet
    BY <2>2, <1>2 DEF Break, KillChild, KillClient, serverVars
  <2> QED
    BY <1>6, <1>1, <2>1, <2>2 DEF Fault
<1>7. ASSUME NEW c \in Clients, ServerChild(c) \/ Client(c) PROVE Quiet
  BY <1>7, <1>2 DEF ServerChild, Child, ChildSends, ChildExits, Client, Connect, RecvOnce
<1> QED
  BY <1>1, <1>3, <1>4, <1>5, <1>6, <1>7 DEF StreamNext

(* The message and its NUL fit into `out', so that send() is never given more
   than snprintf() wrote.                                                   *)
THEOREM TheMessageFits == StreamSpec => []MessageFits
<1>1. MessageInv => MessageFits
  BY StreamServerAssumption DEF MessageInv, MessageFits
<1> QED
  BY <1>1, InitMessage, NextMessage, PTL DEF StreamSpec

-----------------------------------------------------------------------------
(* What the stream client prints *)

(* What has been sent, read and printed of the message. *)
Char == Digits \cup {Text, Nul}
StartOf(s, t) == Len(s) <= Len(t) /\ \A k \in 1 .. Len(s) : s[k] = t[k]

ConnTypes ==
  /\ child \in [Clients -> {"none", "send", "close", "exited", "reaped"}]
  /\ conn \in [Clients -> {"none", "connected", "broken"}]
  /\ client \in [Clients -> {"connect", "recv"} \cup Ends]
  /\ toClient \in [Clients -> Seq(Char)]
  /\ buf \in [Clients -> Seq(Char)]

(* Until the server listens no client is connected and no child forked; a
   child has sent nothing before it sends all; and what a client reads once
   is the start of it.                                                     *)
ConnInv(c) ==
  /\ conn[c] # "none" \/ child[c] # "none" => Listening
  /\ c \in zombies => child[c] = "exited"
  /\ client[c] \in {"recv", "done"} => conn[c] # "none"
  /\ child[c] \in {"none", "send"} => toClient[c] = <<>>
  /\ client[c] # "done" => StartOf(toClient[c], out)
  /\ client[c] = "done" => StartOf(buf[c], out)
  /\ client[c] \in {"connect", "recv"} => buf[c] = <<>>

DemoInv ==
  /\ MessageInv
  /\ parent \in {"size", "read", "accept", "close"}
  /\ Listening => \E d \in Seq(Char) : out = Decimal(f_length) \o d
  /\ ConnTypes
  /\ \A c \in Clients : ConnInv(c)

LEMMA InitDemo == StreamInit => DemoInv
<1> SUFFICES ASSUME StreamInit PROVE DemoInv
  OBVIOUS
<1>1. <<>> \in Seq(Char) /\ Len(<<>>) = 0
  OBVIOUS
<1>2. ConnTypes /\ \A c \in Clients : ConnInv(c)
  BY <1>1 DEF StreamInit, ServerInit, ConnTypes, ConnInv, StartOf
<1>3. MessageInv /\ parent = "size"
  BY InitMessage DEF StreamInit, ServerInit
<1> QED
  BY <1>2, <1>3 DEF DemoInv, Listening

(* A step that changes neither message nor connections of anyone but c. *)
LEMMA StepForOne ==
  ASSUME DemoInv, NEW c \in Clients, MessageInv', ConnTypes', ConnInv(c)',
         UNCHANGED <<f_length, out>>,
         parent' \in {"size", "read", "accept", "close"}, Listening' <=> Listening,
         \A q \in Clients \ {c} :
           /\ child'[q] = child[q] /\ conn'[q] = conn[q] /\ client'[q] = client[q]
           /\ toClient'[q] = toClient[q] /\ buf'[q] = buf[q]
           /\ q \in zombies' => q \in zombies
  PROVE  DemoInv'
<1>1. ASSUME NEW q \in Clients \ {c} PROVE ConnInv(q)'
  <2>1. /\ child'[q] = child[q] /\ conn'[q] = conn[q] /\ client'[q] = client[q]
        /\ toClient'[q] = toClient[q] /\ buf'[q] = buf[q] /\ out' = out
        /\ q \in zombies' => q \in zombies
    OBVIOUS
  <2>2. ConnInv(q)
    BY DEF DemoInv
  <2>3. (StartOf(toClient[q], out) => StartOf(toClient'[q], out')) /\ (StartOf(buf[q], out) => StartOf(buf'[q], out'))
    BY <2>1
  <2> QED
    BY <2>1, <2>2, <2>3, Zenon DEF ConnInv
<1> QED
  BY <1>1 DEF DemoInv

(* The start of a start is one. *)
LEMMA StartOfStart ==
  ASSUME NEW s \in Seq(Char), NEW t, StartOf(s, t), NEW n \in 0 .. Len(s)
  PROVE  SubSeq(s, 1, n) \in Seq(Char) /\ StartOf(SubSeq(s, 1, n), t)
         /\ SubSeq(s, n + 1, Len(s)) \in Seq(Char)
<1>1. Len(s) \in Nat /\ n \in Int /\ 1 \in Int
  BY LenProperties
<1>2. \A i \in 1 .. Len(s) : s[i] \in Char
  BY ElementOfSeq
<1>3. /\ SubSeq(s, 1, n) \in Seq(Char) /\ Len(SubSeq(s, 1, n)) = (IF 1 <= n THEN n - 1 + 1 ELSE 0)
      /\ \A i \in 1 .. n - 1 + 1 : SubSeq(s, 1, n)[i] = s[1 + i - 1]
  BY <1>1, <1>2, SubSeqProperties
<1>4. SubSeq(s, n + 1, Len(s)) \in Seq(Char)
  <2>1. \A i \in n + 1 .. Len(s) : s[i] \in Char
    BY <1>1, <1>2
  <2> QED
    BY <1>1, <2>1, SubSeqProperties
<1>5. Len(SubSeq(s, 1, n)) = n /\ \A i \in 1 .. n : SubSeq(s, 1, n)[i] = s[i]
  <2>1. n - 1 + 1 = n /\ \A i \in 1 .. n : 1 + i - 1 = i
    BY <1>1
  <2>2. ~(1 <= n) => n = 0
    BY <1>1
  <2> QED
    BY <1>3, <2>1, <2>2
<1>6. StartOf(SubSeq(s, 1, n), t)
  <2>1. Len(s) <= Len(t) /\ \A k \in 1 .. Len(s) : s[k] = t[k]
    BY DEF StartOf
  <2>2. Len(SubSeq(s, 1, n)) <= Len(t)
    BY <1>1, <1>5, <2>1
  <2>3. \A k \in 1 .. n : k \in 1 .. Len(s)
    BY <1>1
  <2> QED
    BY <1>5, <2>1, <2>2, <2>3 DEF StartOf
<1> QED
  BY <1>3, <1>4, <1>6

LEMMA NextDemo == DemoInv /\ [StreamNext]_streamVars => DemoInv'
<1> SUFFICES ASSUME DemoInv, [StreamNext]_streamVars PROVE DemoInv'
  OBVIOUS
<1>0. MessageInv' /\ MessageInv /\ out \in Seq(Char)
  BY NextMessage DEF DemoInv, MessageInv, Char
<1> DEFINE SameConns == UNCHANGED <<child, zombies, conn, client, toClient, buf>>
<1>1. ASSUME SameConns, UNCHANGED <<f_length, out, parent>> PROVE DemoInv'
  BY <1>0, <1>1 DEF DemoInv, ConnTypes, ConnInv, StartOf, Listening
<1>2. CASE UNCHANGED streamVars
  BY <1>1, <1>2 DEF streamVars, serverVars, fileVars, procVars, connVars, clientVars
<1>3. CASE GetFileSize /\ UNCHANGED clientVars
  <2>1. SameConns /\ out' = out /\ parent = "size" /\ parent' = "read"
    BY <1>3 DEF GetFileSize, procVars, connVars, clientVars
  <2> QED
    BY <1>0, <2>1 DEF DemoInv, ConnTypes, ConnInv, StartOf, Listening
<1>4. CASE ReadFile /\ UNCHANGED clientVars
  <2>1. /\ SameConns /\ parent = "read" /\ parent' = "accept" /\ f_length' = f_length
        /\ out' = Decimal(f_length) \o Data(file, f_length)
    BY <1>4 DEF ReadFile, procVars, connVars, clientVars
  <2>2. Data(file, f_length) \in Seq(Char)
    BY <1>0, DataFits, StreamServerAssumption DEF MessageInv, Char
  <2>3. ASSUME NEW c \in Clients PROVE ConnInv(c)'
    <3>1. conn[c] = "none" /\ child[c] = "none" /\ toClient[c] = <<>> /\ client[c] \notin {"recv", "done"}
      BY <2>1 DEF DemoInv, ConnInv, Listening
    <3>2. Len(out') \in Nat
      BY <1>0 DEF MessageInv
    <3>3. StartOf(<<>>, out')
      BY <3>2 DEF StartOf
    <3>4. toClient'[c] = <<>> /\ client'[c] \notin {"recv", "done"} /\ conn'[c] = "none" /\ child'[c] = "none"
      BY <2>1, <3>1
    <3>5. buf'[c] = buf[c] /\ client'[c] = client[c] /\ zombies' = zombies
      BY <2>1
    <3>6. (c \in zombies => child[c] = "exited") /\ (client[c] \in {"connect", "recv"} => buf[c] = <<>>)
      BY DEF DemoInv, ConnInv
    <3> QED
      BY <3>1, <3>3, <3>4, <3>5, <3>6, Zenon DEF ConnInv
  <2>4. \E d \in Seq(Char) : out' = Decimal(f_length') \o d
    BY <2>1, <2>2
  <2> QED
    BY <1>0, <2>1, <2>3, <2>4 DEF DemoInv, ConnTypes, Listening
<1>5. CASE CloseNewFd /\ UNCHANGED clientVars
  <2>1. SameConns /\ UNCHANGED <<f_length, out>> /\ parent = "close" /\ parent' = "accept"
    BY <1>5 DEF CloseNewFd, fileVars, procVars, connVars, clientVars
  <2> QED
    BY <1>0, <2>1 DEF DemoInv, ConnTypes, ConnInv, StartOf, Listening
<1>6. ASSUME NEW c \in Clients, AcceptAndFork(c), UNCHANGED clientVars PROVE DemoInv'
  <2>1. /\ UNCHANGED <<f_length, out, zombies, conn, client, toClient, buf>>
        /\ parent = "accept" /\ parent' = "close" /\ child[c] = "none"
        /\ child' = [child EXCEPT ![c] = IF Cardinality(Children) < procLimit THEN "send" ELSE "reaped"]
    BY <1>6 DEF AcceptAndFork, fileVars, connVars, clientVars
  <2>2. ConnTypes'
    BY <2>1 DEF DemoInv, ConnTypes
  <2>3. ConnInv(c)'
    BY <2>1 DEF DemoInv, ConnTypes, ConnInv, StartOf, Listening
  <2> QED
    BY <1>0, <2>1, <2>2, <2>3, StepForOne DEF DemoInv, ConnTypes, Listening
<1>7. CASE ServerHandler
  <2>1. CASE HandlerStarts
    BY <1>1, <1>7, <2>1 DEF ServerHandler, HandlerStarts, fileVars, connVars, clientVars
  <2>2. CASE WaitPid /\ UNCHANGED <<zombies, child>>
    BY <1>1, <1>7, <2>2 DEF ServerHandler, WaitPid, fileVars, connVars, clientVars
  <2>3. ASSUME NEW c \in zombies, WaitPid, zombies' = zombies \ {c},
               child' = [child EXCEPT ![c] = "reaped"]
        PROVE  DemoInv'
    <3>1. UNCHANGED <<f_length, out, parent, conn, client, toClient, buf>>
      BY <1>7, <2>3 DEF ServerHandler, WaitPid, fileVars, connVars, clientVars
    <3>2. CASE c \in Clients
      <4>1. ConnTypes'
        BY <2>3, <3>1 DEF DemoInv, ConnTypes
      <4>2. ConnInv(c)'
        BY <2>3, <3>1, <3>2 DEF DemoInv, ConnTypes, ConnInv, StartOf, Listening
      <4> QED
        BY <1>0, <2>3, <3>1, <3>2, <4>1, <4>2, StepForOne DEF DemoInv, ConnTypes, Listening
    <3>3. CASE c \notin Clients
      <4>1. child' = child
        BY <2>3, <3>3 DEF DemoInv, ConnTypes
      <4>2. ASSUME NEW d \in Clients PROVE ConnInv(d)'
        BY <2>3, <3>1, <4>1 DEF DemoInv, ConnInv, StartOf, Listening
      <4>3. ConnTypes' /\ (Listening' <=> Listening)
        BY <3>1, <4>1 DEF DemoInv, ConnTypes, Listening
      <4> QED
        BY <1>0, <3>1, <4>2, <4>3 DEF DemoInv
    <3> QED
      BY <3>2, <3>3
  <2> QED
    BY <1>7, <2>1, <2>2, <2>3 DEF ServerHandler, Handler, WaitPid
<1>8. CASE ChangeFile
  BY <1>1, <1>8 DEF ChangeFile, procVars, connVars, clientVars
<1>9. ASSUME NEW c \in Clients, Break(c) PROVE DemoInv'
  <2>1. PICK n \in 0 .. Len(toClient[c]) : toClient' = [toClient EXCEPT ![c] = SubSeq(@, 1, n)]
    BY <1>9 DEF Break
  <2>2. /\ UNCHANGED <<f_length, out, parent, child, zombies, client, buf>>
        /\ conn' = [conn EXCEPT ![c] = "broken"] /\ conn[c] = "connected"
    BY <1>9 DEF Break, fileVars, procVars, clientVars
  <2>3. toClient[c] \in Seq(Char) /\ toClient'[c] = SubSeq(toClient[c], 1, n)
    BY <2>1 DEF DemoInv, ConnTypes
  <2>4. /\ SubSeq(toClient[c], 1, n) \in Seq(Char)
        /\ StartOf(toClient[c], out) => StartOf(SubSeq(toClient[c], 1, n), out)
        /\ toClient[c] = <<>> => SubSeq(toClient[c], 1, n) = <<>>
    <3>1. StartOf(toClient[c], toClient[c])
      BY <2>3 DEF StartOf
    <3>2. toClient[c] = <<>> => n = 0
      BY <2>3
    <3>3. SubSeq(toClient[c], 1, 0) = <<>>
      BY SubSeqEmpty
    <3> QED
      BY <2>3, <3>1, <3>2, <3>3, StartOfStart
  <2>5. ConnTypes'
    BY <2>1, <2>2, <2>4 DEF DemoInv, ConnTypes
  <2>6. ConnInv(c)'
    BY <2>2, <2>3, <2>4 DEF DemoInv, ConnTypes, ConnInv, StartOf, Listening
  <2> QED
    BY <1>0, <2>1, <2>2, <2>5, <2>6, StepForOne DEF DemoInv, ConnTypes, Listening
<1>10. ASSUME NEW c \in Clients, KillChild(c) \/ (ChildExits(c) /\ UNCHANGED clientVars)
       PROVE  DemoInv'
  <2>1. /\ UNCHANGED <<f_length, out, parent, conn, toClient, client, buf>>
        /\ child' = [child EXCEPT ![c] = "exited"] /\ child[c] \in {"send", "close"}
        /\ zombies' = zombies \cup {c}
    BY <1>10 DEF KillChild, ChildExits, fileVars, connVars, clientVars
  <2>2. ConnTypes'
    BY <2>1 DEF DemoInv, ConnTypes
  <2>3. ConnInv(c)'
    BY <2>1 DEF DemoInv, ConnTypes, ConnInv, StartOf, Listening
  <2> QED
    BY <1>0, <2>1, <2>2, <2>3, StepForOne DEF DemoInv, ConnTypes, Listening
<1>11. ASSUME NEW c \in Clients, KillClient(c) PROVE DemoInv'
  <2>1. /\ UNCHANGED <<f_length, out, parent, conn, toClient, child, zombies, buf>>
        /\ client' = [client EXCEPT ![c] = "killed"] /\ client[c] \notin Ends
    BY <1>11 DEF KillClient, serverVars, fileVars, procVars, connVars
  <2>2. ConnTypes'
    BY <2>1 DEF DemoInv, ConnTypes, Ends
  <2>3. ConnInv(c)'
    BY <2>1 DEF DemoInv, ConnTypes, ConnInv, StartOf, Listening, Ends
  <2> QED
    BY <1>0, <2>1, <2>2, <2>3, StepForOne DEF DemoInv, ConnTypes, Listening
<1>12. ASSUME NEW c \in Clients, ChildSends(c, client[c] \in Ends), UNCHANGED clientVars PROVE DemoInv'
  <2>1. /\ UNCHANGED <<f_length, out, parent, conn, zombies, client, buf>>
        /\ child' = [child EXCEPT ![c] = "close"] /\ child[c] = "send"
        /\ \/ client[c] \notin Ends /\ toClient' = [toClient EXCEPT ![c] = @ \o out]
           \/ toClient' = toClient
    BY <1>12 DEF ChildSends, fileVars, clientVars
  <2>2. toClient[c] = <<>> /\ toClient[c] \o out = out
    BY <1>0, <2>1, ConcatEmptySeq DEF DemoInv, ConnInv
  <2>3. ConnTypes'
    BY <1>0, <2>1, <2>2 DEF DemoInv, ConnTypes
  <2>4. StartOf(out, out)
    BY <1>0 DEF StartOf
  <2>5. ConnInv(c)'
    <3>1. toClient'[c] = out \/ toClient'[c] = toClient[c]
      BY <2>1, <2>2 DEF DemoInv, ConnTypes
    <3> QED
      BY <2>1, <2>4, <3>1 DEF DemoInv, ConnTypes, ConnInv, StartOf, Listening
  <2> QED
    BY <1>0, <2>1, <2>3, <2>5, StepForOne DEF DemoInv, ConnTypes, Listening
<1>13. ASSUME NEW c \in Clients, Connect(c) PROVE DemoInv'
  <2>1. /\ UNCHANGED <<f_length, out, parent, child, zombies, toClient, buf>>
        /\ client' = [client EXCEPT ![c] = IF Listening THEN "recv" ELSE "failed"]
        /\ client[c] = "connect"
        /\ conn' = IF Listening THEN [conn EXCEPT ![c] = "connected"] ELSE conn
    BY <1>13 DEF Connect, fileVars, procVars
  <2>2. ConnTypes'
    BY <2>1 DEF DemoInv, ConnTypes, Ends
  <2>3. ConnInv(c)'
    BY <2>1 DEF DemoInv, ConnTypes, ConnInv, StartOf, Listening
  <2> QED
    BY <1>0, <2>1, <2>2, <2>3, StepForOne DEF DemoInv, ConnTypes, Listening
<1>14. ASSUME NEW c \in Clients, RecvOnce(c) PROVE DemoInv'
  <2>1. UNCHANGED <<f_length, out, parent, conn, child, zombies>> /\ client[c] = "recv"
    BY <1>14 DEF RecvOnce, fileVars, procVars
  <2>2. toClient[c] \in Seq(Char) /\ StartOf(toClient[c], out)
    BY <2>1 DEF DemoInv, ConnTypes, ConnInv
  <2>3. ASSUME NEW n \in 1 .. Min({MAXDATASIZE - 1, Len(toClient[c])}),
               buf' = [buf EXCEPT ![c] = SubSeq(toClient[c], 1, n)],
               toClient' = [toClient EXCEPT ![c] = SubSeq(@, n + 1, Len(@))],
               client' = [client EXCEPT ![c] = "done"]
        PROVE  DemoInv'
    <3>1. n \in 1 .. Len(toClient[c])
      <4> DEFINE I == {MAXDATASIZE - 1, Len(toClient[c])}
      <4>1. MAXDATASIZE - 1 \in Nat /\ Len(toClient[c]) \in Nat
        BY <2>2, StreamDemoAssumption
      <4>2. \E x \in I : \A y \in I : x <= y
        BY <4>1
      <4>3. Min(I) \in I /\ \A y \in I : Min(I) <= y
        BY <4>2 DEF Min
      <4> QED
        BY <4>1, <4>3
    <3>2. /\ SubSeq(toClient[c], 1, n) \in Seq(Char) /\ StartOf(SubSeq(toClient[c], 1, n), out)
          /\ SubSeq(toClient[c], n + 1, Len(toClient[c])) \in Seq(Char)
      BY <2>2, <3>1, StartOfStart
    <3>3. ConnTypes'
      BY <2>1, <2>3, <3>2 DEF DemoInv, ConnTypes, Ends
    <3>4. toClient[c] # <<>>
      BY <2>2, <3>1
    <3>5. ConnInv(c)'
      BY <2>1, <2>3, <3>2, <3>4 DEF DemoInv, ConnTypes, ConnInv, StartOf, Listening
    <3> QED
      BY <1>0, <2>1, <2>3, <3>3, <3>5, StepForOne DEF DemoInv, ConnTypes, Listening
  <2>4. ASSUME client' = [client EXCEPT ![c] = IF conn[c] = "broken" THEN "failed" ELSE "done"],
               UNCHANGED <<buf, toClient>>, toClient[c] = <<>>
        PROVE  DemoInv'
    <3>1. ConnTypes'
      BY <2>1, <2>4 DEF DemoInv, ConnTypes, Ends
    <3>2. buf[c] = <<>> /\ Len(out) \in Nat
      BY <1>0, <2>1 DEF DemoInv, ConnInv
    <3>3. ConnInv(c)'
      BY <2>1, <2>4, <3>2 DEF DemoInv, ConnTypes, ConnInv, StartOf, Listening
    <3> QED
      BY <1>0, <2>1, <2>4, <3>1, <3>3, StepForOne DEF DemoInv, ConnTypes, Listening
  <2> QED
    BY <1>14, <2>3, <2>4 DEF RecvOnce
<1> QED
  BY <1>2, <1>3, <1>4, <1>5, <1>6, <1>7, <1>8, <1>9, <1>10, <1>11, <1>12, <1>13, <1>14
     DEF StreamNext, ServerParent, Parent, Fault, ServerChild, Child, Client

(* The digits of a number below 100 make that number again. *)
LEMMA DecimalDigits ==
  ASSUME NEW m \in 0 .. 99
  PROVE  /\ Decimal(m) \in Seq(Digits) /\ Len(Decimal(m)) \in {1, 2}
         /\ m = IF Len(Decimal(m)) = 1 THEN Decimal(m)[1] ELSE Decimal(m)[1] * 10 + Decimal(m)[2]
<1>1. CASE m < 10
  <2>1. m \in Digits /\ Decimal(m) = <<m>>
    BY <1>1 DEF Decimal, Digits
  <2> QED
    BY <2>1
<1>2. CASE ~(m < 10)
  <2>1. /\ m \div 10 \in Digits /\ m % 10 \in Digits /\ Decimal(m) = <<m \div 10, m % 10>>
        /\ m = (m \div 10) * 10 + (m % 10)
    BY <1>2 DEF Decimal, Digits
  <2> DEFINE q == m \div 10
             r == m % 10
  <2> HIDE DEF q, r
  <2>2. Decimal(m) = <<q, r>> /\ q \in Digits /\ r \in Digits /\ m = q * 10 + r
    BY <2>1 DEF q, r
  <2>3. Decimal(m) \in Seq(Digits) /\ Len(Decimal(m)) = 2 /\ Decimal(m)[1] = q /\ Decimal(m)[2] = r
    BY <2>2
  <2> QED
    BY <2>2, <2>3
<1> QED
  BY <1>1, <1>2

LEMMA NumberOfDigits ==
  ASSUME NEW s, NEW m \in 0 .. 99, LeadingDigits(s) = Decimal(m)
  PROVE  Number(s) = m
<1> DEFINE d == LeadingDigits(s)
           IsNumber(f) == f = [k \in 0 .. Len(d) |-> IF k = 0 THEN 0 ELSE f[k - 1] * 10 + d[k]]
           number == CHOOSE f : IsNumber(f)
           g == [k \in 0 .. Len(d) |-> CASE k = 0 -> 0 [] k = 1 -> d[1] [] OTHER -> d[1] * 10 + d[2]]
<1>1. d \in Seq(Digits) /\ Len(d) \in {1, 2} /\ m = IF Len(d) = 1 THEN d[1] ELSE d[1] * 10 + d[2]
  BY DecimalDigits
<1>2. Number(s) = number[Len(d)]
  BY DEF Number
<1> HIDE DEF d
<1>3. d[1] \in Nat /\ (Len(d) = 2 => d[2] \in Nat)
  <2>1. d[1] \in Digits /\ (Len(d) = 2 => d[2] \in Digits)
    BY <1>1
  <2> QED
    BY <2>1 DEF Digits
<1>4. IsNumber(g)
  <2>1. ASSUME NEW k \in 0 .. Len(d) PROVE g[k] = IF k = 0 THEN 0 ELSE g[k - 1] * 10 + d[k]
    <3>1. CASE k = 0
      BY <3>1
    <3>2. CASE k = 1
      BY <1>1, <1>3, <3>2
    <3>3. CASE k = 2
      BY <1>1, <1>3, <3>3
    <3> QED
      BY <1>1, <3>1, <3>2, <3>3
  <2>2. g = [k \in 0 .. Len(d) |-> g[k]]
    OBVIOUS
  <2> HIDE DEF g
  <2> QED
    BY <2>1, <2>2
<1> HIDE DEF g
<1>5. IsNumber(number)
  BY <1>4
<1> HIDE DEF number
<1>6. \A k \in 0 .. Len(d) : number[k] = IF k = 0 THEN 0 ELSE number[k - 1] * 10 + d[k]
  BY <1>5, Zenon
<1>7. number[0] = 0 /\ number[1] = number[0] * 10 + d[1] /\ (Len(d) = 2 => number[2] = number[1] * 10 + d[2])
  <2>1. number[0] = 0
    BY <1>1, <1>6
  <2>2. number[1] = number[1 - 1] * 10 + d[1]
    BY <1>1, <1>6
  <2>3. Len(d) = 2 => number[2] = number[2 - 1] * 10 + d[2]
    BY <1>1, <1>6
  <2> QED
    BY <2>1, <2>2, <2>3
<1>8. number[1] = d[1]
  BY <1>3, <1>7
<1> QED
  BY <1>1, <1>2, <1>3, <1>7, <1>8

(* What a client prints of b, when it has received more than the number.   *)
LEMMA PrintedFacts ==
  ASSUME NEW m \in 0 .. 99, NEW rest \in Seq(Char), NEW t, t = Decimal(m) \o rest,
         NEW b \in Seq(Char), StartOf(b, t),
         Len(b) > Len(Decimal(m)), b[Len(Decimal(m)) + 1] \notin Digits
  PROVE  /\ Number(b) = m
         /\ IsPrefix(Rest(b), SubSeq(t, Len(Decimal(m)) + 1, Len(t)))
<1> DEFINE D == Decimal(m)
           n == Len(D)
           I == {i \in 1 .. Len(b) : b[i] \notin Digits}
<1>1. D \in Seq(Digits) /\ n \in {1, 2} /\ D \in Seq(Char) /\ Len(b) \in Nat
  <2>1. D \in Seq(Digits) /\ Digits \subseteq Char /\ n \in {1, 2}
    BY DecimalDigits DEF Char
  <2> QED
    BY <2>1, SeqMonotonic, LenProperties
<1>2. t \in Seq(Char) /\ Len(t) = n + Len(rest) /\ Len(rest) \in Nat
      /\ \A k \in 1 .. n : t[k] = D[k]
  <2>1. /\ D \o rest \in Seq(Char) /\ Len(D \o rest) = n + Len(rest)
        /\ \A k \in 1 .. n + Len(rest) : (D \o rest)[k] = IF k <= n THEN D[k] ELSE rest[k - n]
    BY <1>1, ConcatProperties
  <2>2. Len(rest) \in Nat
    BY LenProperties
  <2> HIDE DEF D
  <2> QED
    BY <1>1, <2>1, <2>2 DEF D
<1> HIDE DEF D
<1>3. \A k \in 1 .. n : b[k] = D[k] /\ b[k] \in Digits
  <2>1. n < Len(b) /\ \A k \in 1 .. n : D[k] \in Digits
    BY <1>1, ElementOfSeq DEF D
  <2> QED
    BY <1>1, <1>2, <2>1 DEF StartOf
<1>4. n + 1 \in I /\ \A y \in I : n + 1 <= y
  BY <1>1, <1>3 DEF D
<1>5. Min(I) = n + 1
  <2>1. Min(I) = CHOOSE x \in I : \A y \in I : x <= y
    BY DEF Min
  <2>2. I \subseteq Nat
    BY <1>1
  <2> HIDE DEF I
  <2>3. ASSUME NEW x \in I, \A y \in I : x <= y PROVE x = n + 1
    BY <1>1, <1>4, <2>2, <2>3
  <2> QED
    BY <1>4, <2>1, <2>3
<1>6. LeadingDigits(b) = SubSeq(b, 1, n)
  <2>1. SelectInSeq(b, LAMBDA ch : ch \notin Digits) = IF I # {} THEN Min(I) ELSE 0
    BY DEF SelectInSeq
  <2>2. SelectInSeq(b, LAMBDA ch : ch \notin Digits) = n + 1
    BY <1>4, <1>5, <2>1
  <2>3. n + 1 # 0 /\ (n + 1) - 1 = n
    BY <1>1
  <2> QED
    BY <2>2, <2>3 DEF LeadingDigits, Before
<1> HIDE DEF I
<1>7. SubSeq(b, 1, n) = D
  <2>1. n \in 0 .. Len(b) /\ StartOf(b, b)
    BY <1>1 DEF StartOf, D
  <2>2. SubSeq(b, 1, n) \in Seq(Char) /\ Len(SubSeq(b, 1, n)) = n
        /\ \A i \in 1 .. n : SubSeq(b, 1, n)[i] = b[i]
    <3>1. \A i \in 1 .. n : b[i] \in Char
      BY <2>1, ElementOfSeq
    <3>2. /\ SubSeq(b, 1, n) \in Seq(Char) /\ Len(SubSeq(b, 1, n)) = (IF 1 <= n THEN n - 1 + 1 ELSE 0)
          /\ \A i \in 1 .. n - 1 + 1 : SubSeq(b, 1, n)[i] = b[1 + i - 1]
      BY <1>1, <3>1, SubSeqProperties
    <3>3. n - 1 + 1 = n /\ 1 <= n /\ \A i \in 1 .. n : 1 + i - 1 = i
      <4>1. \A x \in {1, 2} : x - 1 + 1 = x /\ 1 <= x /\ \A i \in 1 .. x : 1 + i - 1 = i
        OBVIOUS
      <4> QED
        BY <1>1, <4>1
    <3> QED
      BY <3>2, <3>3
  <2> QED
    BY <1>1, <1>3, <2>2, SeqEqual
<1>8. Number(b) = m
  BY <1>6, <1>7, NumberOfDigits DEF D
<1>9. Rest(b) = SubSeq(b, n + 1, Len(b))
  BY <1>6, <1>7 DEF Rest
<1>10. IsPrefix(SubSeq(b, n + 1, Len(b)), SubSeq(t, n + 1, Len(t)))
  <2> DEFINE s == SubSeq(b, n + 1, Len(b))
             u == SubSeq(t, n + 1, Len(t))
  <2>1. n + 1 \in Int /\ Len(t) \in Nat /\ n < Len(b) /\ Len(b) <= Len(t) /\ \A k \in 1 .. Len(b) : b[k] = t[k]
    BY <1>1, <1>2 DEF StartOf, D
  <2>2. (\A i \in n + 1 .. Len(b) : b[i] \in Char) /\ (\A i \in n + 1 .. Len(t) : t[i] \in Char)
    <3>1. (\A i \in 1 .. Len(b) : b[i] \in Char) /\ (\A i \in 1 .. Len(t) : t[i] \in Char)
      BY <1>2, ElementOfSeq
    <3> QED
      BY <1>1, <2>1, <3>1
  <2>3. /\ s \in Seq(Char) /\ Len(s) = (IF n + 1 <= Len(b) THEN Len(b) - (n + 1) + 1 ELSE 0)
        /\ \A i \in 1 .. Len(b) - (n + 1) + 1 : s[i] = b[(n + 1) + i - 1]
    BY <1>1, <2>1, <2>2, SubSeqProperties
  <2>4. /\ u \in Seq(Char) /\ Len(u) = (IF n + 1 <= Len(t) THEN Len(t) - (n + 1) + 1 ELSE 0)
        /\ \A i \in 1 .. Len(t) - (n + 1) + 1 : u[i] = t[(n + 1) + i - 1]
    BY <1>1, <2>1, <2>2, SubSeqProperties
  <2> HIDE DEF s, u
  <2>5. Len(s) = Len(b) - n /\ Len(u) = Len(t) - n
    BY <1>1, <2>1, <2>3, <2>4
  <2>6. ASSUME NEW i \in 1 .. Len(s) PROVE s[i] = u[i]
    <3>1. i \in 1 .. Len(b) - (n + 1) + 1 /\ i \in 1 .. Len(t) - (n + 1) + 1 /\ (n + 1) + i - 1 \in 1 .. Len(b)
      BY <1>1, <2>1, <2>5
    <3> QED
      BY <2>1, <2>3, <2>4, <3>1
  <2>7. Len(s) \in 0 .. Len(u)
    BY <1>1, <2>1, <2>5
  <2>8. SubSeq(s, 1, Len(s)) = SubSeq(u, 1, Len(s))
    <3>1. \A i \in 1 .. Len(s) : s[i] \in Char /\ u[i] \in Char
      BY <2>3, <2>6, ElementOfSeq
    <3>2. Len(s) \in Int
      BY <2>7
    <3>3. /\ SubSeq(s, 1, Len(s)) \in Seq(Char)
          /\ Len(SubSeq(s, 1, Len(s))) = (IF 1 <= Len(s) THEN Len(s) - 1 + 1 ELSE 0)
          /\ \A i \in 1 .. Len(s) - 1 + 1 : SubSeq(s, 1, Len(s))[i] = s[1 + i - 1]
      BY <3>1, <3>2, SubSeqProperties
    <3>4. /\ SubSeq(u, 1, Len(s)) \in Seq(Char)
          /\ Len(SubSeq(u, 1, Len(s))) = (IF 1 <= Len(s) THEN Len(s) - 1 + 1 ELSE 0)
          /\ \A i \in 1 .. Len(s) - 1 + 1 : SubSeq(u, 1, Len(s))[i] = u[1 + i - 1]
      BY <3>1, <3>2, SubSeqProperties
    <3>5. Len(SubSeq(s, 1, Len(s))) = Len(s) /\ Len(SubSeq(u, 1, Len(s))) = Len(s)
      BY <2>7, <3>3, <3>4
    <3>6. \A i \in 1 .. Len(s) : SubSeq(s, 1, Len(s))[i] = SubSeq(u, 1, Len(s))[i]
      <4>1. Len(s) - 1 + 1 = Len(s) /\ \A i \in 1 .. Len(s) : 1 + i - 1 = i
        BY <2>7
      <4> QED
        BY <2>6, <3>3, <3>4, <4>1
    <3> QED
      BY <3>3, <3>4, <3>5, <3>6, SeqEqual
  <2>9. Len(s) <= Len(u)
    BY <2>1, <2>5
  <2>10. IsPrefix(s, u)
    BY <2>8, <2>9 DEF IsPrefix
  <2> QED
    BY <2>10 DEF s, u
<1> QED
  BY <1>8, <1>9, <1>10 DEF D

(* A client that received more than the number prints the length and the
   start of the file, wherever recv() cut and whatever broke before.       *)
THEOREM LengthAndStartPrinted == StreamSpec => []PrintsLengthAndStart
<1>1. DemoInv => PrintsLengthAndStart
  <2> SUFFICES ASSUME DemoInv PROVE PrintsLengthAndStart
    OBVIOUS
  <2>1. f_length \in 0 .. 99 /\ MessageFits
    BY StreamServerAssumption DEF DemoInv, MessageInv, MessageFits
  <2>2. ASSUME NEW c \in Clients, client[c] = "done", Len(buf[c]) > Len(Decimal(f_length)),
               buf[c][Len(Decimal(f_length)) + 1] \notin Digits
        PROVE  /\ Number(buf[c]) = f_length
               /\ IsPrefix(Rest(buf[c]), SubSeq(out, Len(Decimal(f_length)) + 1, Len(out)))
    <3>1. buf[c] \in Seq(Char) /\ StartOf(buf[c], out) /\ Listening
      BY <2>2 DEF DemoInv, ConnTypes, ConnInv
    <3>2. PICK d \in Seq(Char) : out = Decimal(f_length) \o d
      BY <3>1 DEF DemoInv
    <3> QED
      BY <2>1, <2>2, <3>1, <3>2, PrintedFacts
  <2> QED
    BY <2>1, <2>2 DEF PrintsLengthAndStart
<1> QED
  BY <1>1, InitDemo, NextDemo, PTL DEF StreamSpec

-----------------------------------------------------------------------------
(* talker.c and listener.c *)

(* The datagrams that have been sent: what waits in the listener's socket is
   one of them, also when the network repeats or delays it.                *)
Sent == {message[t] : t \in {u \in Talkers : talker[u] = "sent"}}

DatagramInv ==
  /\ message \in [Talkers -> Arguments]
  /\ talker \in [Talkers -> {"start", "sent", "failed"}]
  /\ \A t \in net : t \in Talkers /\ talker[t] = "sent"
  /\ arrived \in Seq(Sent)
  /\ ShowsOneMessage

LEMMA InitDatagram == DatagramInit => DatagramInv
BY DEF DatagramInit, DatagramInv, ShowsOneMessage

(* What recvfrom() leaves of a datagram. *)
LEMMA TakenWhole ==
  ASSUME NEW s \in Seq(Int), NEW n,
         n = IF Len(s) < MAXBUFLEN THEN Len(s) ELSE MAXBUFLEN - 1
  PROVE  /\ n < MAXBUFLEN
         /\ IsPrefix(SubSeq(s, 1, n), s)
         /\ Len(s) < MAXBUFLEN => SubSeq(s, 1, n) = s
<1>1. n \in Nat /\ n <= Len(s) /\ n < MAXBUFLEN
  BY DatagramAssumption
<1>2. Len(SubSeq(s, 1, n)) = n
  BY <1>1
<1>3. SubSeq(SubSeq(s, 1, n), 1, n) = SubSeq(s, 1, n)
  BY <1>1
<1> QED
  BY <1>1, <1>2, <1>3 DEF IsPrefix

(* Nothing is taken back: what was sent stays so. *)
LEMMA SentGrows ==
  ASSUME DatagramInv, message' = message, \A t \in Talkers : talker[t] = "sent" => talker'[t] = "sent"
  PROVE  Sent \subseteq Sent'
BY DEF Sent

LEMMA NextDatagram == DatagramInv /\ [DatagramNext]_datagramVars => DatagramInv'
<1> SUFFICES ASSUME DatagramInv, [DatagramNext]_datagramVars PROVE DatagramInv'
  OBVIOUS
<1>1. CASE UNCHANGED datagramVars
  BY <1>1 DEF datagramVars, listenerVars, DatagramInv, Sent, ShowsOneMessage
<1>2. ASSUME NEW t \in Talkers, Sendto(t) PROVE DatagramInv'
  <2>1. /\ message' = message /\ arrived' = arrived /\ UNCHANGED listenerVars
        /\ talker' \in [Talkers -> {"start", "sent", "failed"}]
        /\ \A u \in Talkers : talker[u] = "sent" => talker'[u] = "sent"
        /\ \A u \in net' : u \in Talkers /\ talker'[u] = "sent"
    BY <1>2 DEF Sendto, DatagramInv
  <2>2. arrived' \in Seq(Sent')
    BY <2>1, SentGrows DEF DatagramInv
  <2>3. ShowsOneMessage'
    BY <2>1 DEF ShowsOneMessage, DatagramInv, listenerVars
  <2> QED
    BY <2>1, <2>2, <2>3 DEF DatagramInv
<1>3. ASSUME NEW t \in Talkers, Arrive(t) PROVE DatagramInv'
  <2>1. message[t] \in Sent
    BY <1>3 DEF Arrive, DatagramInv, Sent
  <2>2. arrived' \in Seq(Sent)
    BY <1>3, <2>1 DEF Arrive, DatagramInv
  <2> QED
    BY <1>3, <2>2 DEF Arrive, DatagramInv, Sent, ShowsOneMessage, listenerVars
<1>4. CASE Bind
  BY <1>4 DEF Bind, DatagramInv, Sent, ShowsOneMessage
<1>5. CASE Recvfrom
  <2> DEFINE s == Head(arrived)
  <2>1. s \in Sent /\ arrived' \in Seq(Sent) /\ UNCHANGED <<message, talker, net>>
    BY <1>5 DEF Recvfrom, DatagramInv
  <2>2. PICK t \in Talkers : talker[t] = "sent" /\ s = message[t]
    BY <2>1 DEF Sent
  <2>3. s \in Seq(Int)
    BY <2>2, DatagramAssumption DEF DatagramInv
  <2>4. /\ numbytes' = (IF Len(s) < MAXBUFLEN THEN Len(s) ELSE MAXBUFLEN - 1)
        /\ dgram_buf' = SubSeq(s, 1, numbytes')
    BY <1>5 DEF Recvfrom
  <2> HIDE DEF s
  <2>5. /\ numbytes' < MAXBUFLEN
        /\ IsPrefix(dgram_buf', s)
        /\ Len(s) < MAXBUFLEN => dgram_buf' = s
    BY <2>3, <2>4, TakenWhole
  <2>6. ShowsOneMessage'
    BY <2>1, <2>2, <2>5 DEF ShowsOneMessage
  <2> QED
    BY <2>1, <2>6 DEF DatagramInv, Sent
<1>6. CASE RecvfromFails
  BY <1>6 DEF RecvfromFails, DatagramInv, Sent, ShowsOneMessage
<1> QED
  BY <1>1, <1>2, <1>3, <1>4, <1>5, <1>6 DEF DatagramNext

(* ShowsOneMessage, for any number of talkers, repeats and messages: what
   listener.c shows is the start of one datagram that a talker sent, all of
   it if it fits.                                                          *)
THEOREM DatagramsKeepTheirBoundaries == DatagramSpec => []ShowsOneMessage
<1>1. DatagramInv => ShowsOneMessage
  BY DEF DatagramInv
<1> QED
  BY <1>1, InitDatagram, NextDatagram, PTL DEF DatagramSpec
=============================================================================
