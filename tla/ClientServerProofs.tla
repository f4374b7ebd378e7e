------------------------- MODULE ClientServerProofs -------------------------
(***************************************************************************)
(* Proofs about ClientServer, for any number of clients, any files and any *)
(* faults: that the client never takes one part of an answer for another,  *)
(* does not crash while its own connection and the server are well, and    *)
(* has the whole file when it ends in the regular way.                     *)
(*                                                                         *)
(* The inductive invariant IInv follows one connection: how far the child  *)
(* is with its answer says how many items of it the client has read or has *)
(* still before it, and so which item comes next.  WInv adds the amounts:  *)
(* what is received, under way and unsent makes up the length of the file. *)
(***************************************************************************)
EXTENDS ClientServer, TLAPS

Items == [type : {"status", "length", "blank", "byte"}, value : Nat]
Bytes == {FileByte, JunkByte}

ConnTypes ==
  /\ conn \in [Clients -> {"none", "open", "shutdown", "broken"}]
  /\ toServer \in [Clients -> Seq(Requests)]
  /\ toClient \in [Clients -> Seq(Items)]
FileTypes ==
  /\ file \in [Names -> FileSizes] /\ limits \in Limits
  /\ serverUp \in BOOLEAN /\ accepted \subseteq Clients
ChildTypes ==
  /\ child \in [Clients -> {"none", "recv", "size", "status", "prefix", "read", "body",
                            "bad", "missing", "shutdown", "over"}]
  /\ held \in [Clients -> SUBSET Clients]
  /\ want \in [Clients -> Requests]
  /\ length \in [Clients -> Nat]
  /\ body \in [Clients -> Seq(Bytes)]
ClientTypes ==
  /\ request \in [Clients -> Requests]
  /\ pc \in [Clients -> Ends \cup {"connect", "send", "header", "content", "killed"}]
  /\ count \in [Clients -> 0 .. 2]
  /\ contentLength \in [Clients -> Nat]
Types == ConnTypes /\ FileTypes /\ ChildTypes /\ ClientTypes /\ hit \subseteq Clients

(* The j-th item of a regular answer. *)
Expected(j) ==
  IF j = 1 THEN "status" ELSE IF j = 2 THEN "length" ELSE IF j = 3 THEN "blank" ELSE "byte"

(* What c has before it, s, after n items: the rest of a regular answer ... *)
Regular(s, n) ==
  \A i \in 1 .. Len(s) :
    /\ s[i].type = Expected(n + i)
    /\ s[i].type = "blank" => s[i] = Blank
    /\ s[i].type = "status" => s[i].value = 200

(* ... or one that reports an error. *)
ErrorAnswer(s, n) ==
  /\ n = 0 /\ Len(s) \in {1, 2}
  /\ s[1].type = "status" /\ s[1].value \in {400, 404}
  /\ Len(s) = 2 => s[2] = Blank

AllBytes(s) == \A i \in 1 .. Len(s) : s[i].type = "byte"

(* How far the child's answer is, as seen by a client at the header. *)
InStep(c) ==
  LET s == toClient[c]
      n == count[c]
  IN  /\ child[c] = "none" => s = <<>> /\ (serverUp => n = 0)
      /\ child[c] \in {"recv", "size", "bad", "missing", "status"} => s = <<>> /\ n = 0
      /\ child[c] = "prefix" => Len(s) + n = 1 /\ Regular(s, n)
      /\ child[c] \in {"read", "body"} => Len(s) + n >= 3 /\ Regular(s, n)
      /\ child[c] \in {"shutdown", "over"} /\ c \notin hit =>
           \/ Len(s) + n >= 3 /\ Regular(s, n)
           \/ Len(s) = 2 /\ ErrorAnswer(s, n)

ChildGood(c) ==
  /\ Alive(c) => c \in held[c] /\ conn[c] # "shutdown"
  /\ child[c] = "none" => conn[c] # "shutdown"
  /\ child[c] \in {"size", "status", "prefix", "read"} => want[c] \in Names
  /\ conn[c] = "broken" => c \in hit
  /\ child[c] # "none" => c \in accepted

ClientGood(c) ==
  /\ pc[c] \in {"connect", "send"} =>
       /\ toClient[c] = <<>> /\ toServer[c] = <<>> /\ count[c] = 0
       /\ child[c] \in {"none", "recv", "over"} \/ conn[c] = "broken"
       /\ child[c] = "over" => c \in hit
  /\ pc[c] = "connect" => conn[c] = "none" /\ child[c] = "none"
  /\ pc[c] = "header" =>
       /\ Regular(toClient[c], count[c]) \/ ErrorAnswer(toClient[c], count[c])
       /\ conn[c] # "broken" => InStep(c)
  /\ pc[c] = "content" =>
       /\ AllBytes(toClient[c])
       /\ child[c] \in {"read", "body", "shutdown", "over"} \/ conn[c] = "broken"
  /\ pc[c] = "crashed" => c \in hit \/ ~serverUp

Good(c) == ChildGood(c) /\ ClientGood(c)

IInv == Types /\ \A c \in Clients : Good(c)

-----------------------------------------------------------------------------
(* A step that is another's leaves d's connection alone. *)
Same(d) ==
  /\ conn'[d] = conn[d] /\ toServer'[d] = toServer[d] /\ toClient'[d] = toClient[d]
  /\ child'[d] = child[d] /\ held'[d] = held[d] /\ want'[d] = want[d]
  /\ pc'[d] = pc[d] /\ count'[d] = count[d]
  /\ d \in hit' <=> d \in hit
  /\ serverUp' => serverUp
  /\ accepted \subseteq accepted'

LEMMA SameKeeps ==
  ASSUME NEW d \in Clients, Good(d), Same(d)
  PROVE  Good(d)'
<1>1. ChildGood(d)'
  BY DEF Good, Same, ChildGood, Alive
<1>2. InStep(d) => InStep(d)'
  BY DEF Same, InStep, Regular, ErrorAnswer, Expected
<1>3. /\ Regular(toClient'[d], count'[d]) = Regular(toClient[d], count[d])
      /\ ErrorAnswer(toClient'[d], count'[d]) = ErrorAnswer(toClient[d], count[d])
      /\ AllBytes(toClient'[d]) = AllBytes(toClient[d])
  BY DEF Same
<1>4. ClientGood(d)'
  BY <1>2, <1>3 DEF Good, Same, ClientGood
<1> QED
  BY <1>1, <1>4 DEF Good

LEMMA StepOfOne ==
  ASSUME IInv, NEW c \in Clients, Types', Good(c)', \A d \in Clients \ {c} : Same(d)
  PROVE  IInv'
<1>1. \A d \in Clients \ {c} : Good(d)'
  BY SameKeeps DEF IInv
<1> QED
  BY <1>1 DEF IInv

LEMMA StepOfNone ==
  ASSUME IInv, Types', \A d \in Clients : Same(d)
  PROVE  IInv'
BY SameKeeps DEF IInv

LEMMA InitIInv == Init => IInv
<1> SUFFICES ASSUME Init PROVE IInv
  OBVIOUS
<1> USE DEF Init, ConnInit, ServerInit, ClientInit
<1>1. ConnTypes /\ FileTypes /\ ChildTypes
  BY DEF ConnTypes, FileTypes, ChildTypes, Requests
<1>2. ClientTypes /\ hit \subseteq Clients
  BY DEF ClientTypes
<1>3. \A c \in Clients : Good(c)
  BY DEF Good, ChildGood, ClientGood, Alive
<1> QED
  BY <1>1, <1>2, <1>3 DEF IInv, Types

-----------------------------------------------------------------------------
(* What is before a client: adding at the end, taking from the front, and
   losing the end.                                                          *)

LEMMA ItemTypes ==
  /\ \A n \in Nat : /\ Status(n) \in Items /\ Length(n) \in Items
                    /\ Status(n).type = "status" /\ Status(n).value = n
                    /\ Length(n).type = "length"
  /\ Blank \in Items /\ Blank.type = "blank"
  /\ \A b \in Bytes : b \in Items /\ b.type = "byte"
BY DEF Status, Length, Blank, FileByte, JunkByte, Bytes, Items

LEMMA AddRegular ==
  ASSUME NEW s \in Seq(Items), NEW t \in Seq(Items), NEW n \in Nat, Regular(s, n),
         \A i \in 1 .. Len(t) : /\ t[i].type = Expected(n + Len(s) + i)
                                /\ t[i].type = "blank" => t[i] = Blank
                                /\ t[i].type = "status" => t[i].value = 200
  PROVE  Regular(s \o t, n) /\ s \o t \in Seq(Items) /\ Len(s \o t) = Len(s) + Len(t)
<1>1. s \o t \in Seq(Items) /\ Len(s \o t) = Len(s) + Len(t) /\ Len(s) \in Nat /\ Len(t) \in Nat
  OBVIOUS
<1>2. ASSUME NEW i \in 1 .. Len(s \o t)
      PROVE  /\ (s \o t)[i].type = Expected(n + i)
             /\ (s \o t)[i].type = "blank" => (s \o t)[i] = Blank
             /\ (s \o t)[i].type = "status" => (s \o t)[i].value = 200
  <2>1. CASE i <= Len(s)
    BY <1>1, <2>1 DEF Regular
  <2>2. CASE i > Len(s)
    <3>1. i - Len(s) \in 1 .. Len(t) /\ (s \o t)[i] = t[i - Len(s)]
      BY <1>1, <2>2
    <3>2. n + Len(s) + (i - Len(s)) = n + i
      BY <1>1
    <3> QED
      BY <3>1, <3>2
  <2> QED
    BY <1>1, <2>1, <2>2
<1> QED
  BY <1>1, <1>2 DEF Regular

LEMMA AddBytes ==
  ASSUME NEW s \in Seq(Items), NEW t \in Seq(Bytes), AllBytes(s)
  PROVE  AllBytes(s \o t) /\ s \o t \in Seq(Items)
<1>1. t \in Seq(Items) /\ \A i \in 1 .. Len(t) : t[i].type = "byte"
  BY ItemTypes
<1> QED
  BY <1>1 DEF AllBytes

LEMMA TakeFirst ==
  ASSUME NEW s \in Seq(Items), s # <<>>
  PROVE  /\ Len(s) >= 1 /\ Head(s) = s[1] /\ s[1] \in Items
         /\ SubSeq(s, 2, Len(s)) \in Seq(Items)
         /\ Len(SubSeq(s, 2, Len(s))) = Len(s) - 1
         /\ \A i \in 1 .. Len(s) - 1 : SubSeq(s, 2, Len(s))[i] = s[i + 1]
OBVIOUS

LEMMA TakeRegular ==
  ASSUME NEW s \in Seq(Items), s # <<>>, NEW n \in Nat, Regular(s, n)
  PROVE  Regular(SubSeq(s, 2, Len(s)), n + 1)
<1> DEFINE t == SubSeq(s, 2, Len(s))
<1>1. Len(t) = Len(s) - 1 /\ \A i \in 1 .. Len(s) - 1 : t[i] = s[i + 1]
  BY TakeFirst
<1> HIDE DEF t
<1>2. ASSUME NEW i \in 1 .. Len(t)
      PROVE  /\ t[i].type = Expected(n + 1 + i)
             /\ t[i].type = "blank" => t[i] = Blank
             /\ t[i].type = "status" => t[i].value = 200
  <2>1. i + 1 \in 1 .. Len(s) /\ t[i] = s[i + 1] /\ n + (i + 1) = n + 1 + i
    BY <1>1
  <2> QED
    BY <2>1 DEF Regular
<1> QED
  BY <1>2 DEF Regular, t

LEMMA LoseEnd ==
  ASSUME NEW s \in Seq(Items), NEW k \in 0 .. Len(s), NEW n \in Nat
  PROVE  LET t == SubSeq(s, 1, k)
         IN  /\ t \in Seq(Items) /\ Len(t) = k
             /\ Regular(s, n) => Regular(t, n)
             /\ ErrorAnswer(s, n) => Regular(t, n) \/ ErrorAnswer(t, n)
             /\ AllBytes(s) => AllBytes(t)
<1> DEFINE t == SubSeq(s, 1, k)
<1>1. t \in Seq(Items) /\ Len(t) = k /\ \A i \in 1 .. k : t[i] = s[i] /\ i \in 1 .. Len(s)
  OBVIOUS
<1> HIDE DEF t
<1>2. Regular(s, n) => Regular(t, n)
  BY <1>1 DEF Regular
<1>3. ErrorAnswer(s, n) => Regular(t, n) \/ ErrorAnswer(t, n)
  BY <1>1 DEF ErrorAnswer, Regular
<1>4. AllBytes(s) => AllBytes(t)
  BY <1>1 DEF AllBytes
<1> QED
  BY <1>1, <1>2, <1>3, <1>4 DEF t

-----------------------------------------------------------------------------
(* The child for c *)

(* What a child's step leaves alone. *)
ChildFrame(c) ==
  /\ UNCHANGED <<clientVars, file, limits, serverUp, accepted, held>>
  /\ hit' \in {hit, hit \cup {c}}
  /\ \A d \in Clients \ {c} :
       /\ conn'[d] = conn[d] /\ toServer'[d] = toServer[d] /\ toClient'[d] = toClient[d]
       /\ child'[d] = child[d] /\ want'[d] = want[d]

LEMMA ChildStep ==
  ASSUME IInv, NEW c \in Clients, ChildFrame(c), ConnTypes', ChildTypes', ChildGood(c)', ClientGood(c)'
  PROVE  IInv'
<1>1. UNCHANGED <<request, pc, count, contentLength, file, limits, serverUp, accepted, held>>
  BY DEF ChildFrame, clientVars
<1>2. FileTypes' /\ ClientTypes'
  BY <1>1 DEF IInv, Types, FileTypes, ClientTypes
<1>3. hit' \subseteq Clients
  BY DEF ChildFrame, IInv, Types
<1>4. \A d \in Clients \ {c} : Same(d)
  BY <1>1 DEF ChildFrame, Same
<1> QED
  BY <1>2, <1>3, <1>4, StepOfOne DEF Types, Good

LEMMA ChildTypeKept ==
  ASSUME IInv, NEW c \in Clients, NEW from,
         NEW to \in {"recv", "size", "status", "prefix", "read", "body", "bad", "missing",
                     "shutdown", "over"},
         GoesOn(c, from, to)
  PROVE  /\ child' \in [Clients -> {"none", "recv", "size", "status", "prefix", "read", "body",
                                    "bad", "missing", "shutdown", "over"}]
         /\ held' \in [Clients -> SUBSET Clients] /\ held' = held
BY DEF IInv, Types, ChildTypes, GoesOn

LEMMA RecvRequestKeeps ==
  ASSUME IInv, NEW c \in Clients, RecvRequest(c, Gone(c)), UNCHANGED <<clientVars, hit>>
  PROVE  IInv'
<1>1. PICK r \in Requests :
        /\ GoesOn(c, "recv", IF r = NoGet THEN "bad" ELSE "size")
        /\ \/ toServer[c] # <<>> /\ r = Head(toServer[c])
              /\ toServer' = [toServer EXCEPT ![c] = Tail(@)]
           \/ toServer[c] = <<>> /\ (Gone(c) \/ conn[c] = "broken") /\ UNCHANGED toServer
        /\ want' = [want EXCEPT ![c] = r]
        /\ UNCHANGED <<conn, toClient, length, body>>
  BY DEF RecvRequest
<1> DEFINE to == IF r = NoGet THEN "bad" ELSE "size"
<1>2. to \in {"recv", "size", "status", "prefix", "read", "body", "bad", "missing", "shutdown", "over"}
  OBVIOUS
<1>3. ConnTypes /\ ChildTypes /\ Good(c) /\ pc \in [Clients -> Ends \cup {"connect", "send", "header", "content", "killed"}]
  BY DEF IInv, Types, ClientTypes
<1>4. ConnTypes'
  <2>1. toServer' \in [Clients -> Seq(Requests)]
    <3>1. toServer \in [Clients -> Seq(Requests)] /\ toServer[c] \in Seq(Requests)
      BY <1>3 DEF ConnTypes
    <3>2. toServer[c] # <<>> => Tail(toServer[c]) \in Seq(Requests)
      BY <3>1
    <3> QED
      BY <1>1, <3>1, <3>2
  <2> QED
    BY <1>1, <1>3, <2>1 DEF ConnTypes
<1>5. ChildTypes'
  <2>1. want' \in [Clients -> Requests]
    BY <1>1, <1>3 DEF ChildTypes
  <2> QED
    BY <1>1, <1>2, <1>3, <2>1, ChildTypeKept DEF ChildTypes
<1>6. ChildFrame(c) /\ child[c] = "recv" /\ child'[c] = to /\ want'[c] = r
  BY <1>1, <1>3 DEF ChildFrame, GoesOn, ConnTypes, ChildTypes
<1>7. UNCHANGED <<pc, count, serverUp, held, accepted>> /\ conn'[c] = conn[c] /\ toClient'[c] = toClient[c]
  BY <1>1, <1>6 DEF ChildFrame, clientVars
<1>8. ChildGood(c)'
  BY <1>1, <1>3, <1>6, <1>7 DEF Good, ChildGood, Alive, Requests
<1>9. ClientGood(c)'
  <2>1. pc[c] \in {"connect", "send"} => conn[c] = "broken"
    BY <1>1, <1>3 DEF Good, ClientGood, Gone, Ends
  <2>2. pc[c] \in {"connect", "send"} => toServer'[c] = <<>> /\ pc[c] # "connect"
    BY <1>1, <1>3, <1>6, <2>1 DEF Good, ClientGood, ConnTypes
  <2>3. InStep(c) => InStep(c)'
    BY <1>6, <1>7 DEF InStep
  <2>4. \/ UNCHANGED <<conn, hit>>
    BY <1>1
  <2> QED
    BY <1>3, <1>6, <1>7, <2>1, <2>2, <2>3, <2>4 DEF Good, ClientGood
<1> QED
  BY <1>4, <1>5, <1>6, <1>8, <1>9, ChildStep

(* Steps that send nothing: the answer stays at the same length. *)
LEMMA SilentStepKeeps ==
  ASSUME IInv, NEW c \in Clients, UNCHANGED <<clientVars, file, limits, serverUp, accepted, held>>,
         UNCHANGED <<conn, toServer, toClient, want>>,
         length' \in [Clients -> Nat], body' \in [Clients -> Seq(Bytes)],
         NEW to \in {"status", "missing", "body", "shutdown", "over"},
         child' = [child EXCEPT ![c] = to], hit' \in {hit, hit \cup {c}},
         \/ child[c] = "size" /\ to \in {"status", "missing"} /\ want[c] \in Names
         \/ child[c] = "read" /\ to = "body"
         \/ child[c] = "size" /\ to = "shutdown" /\ c \in hit'
         \/ Alive(c) /\ to = "over" /\ c \in hit'
         \/ Alive(c) /\ to = "over" /\ Gone(c)
  PROVE  IInv'
<1>1. ConnTypes /\ ChildTypes /\ Good(c)
  BY DEF IInv, Types
<1>2. ConnTypes' /\ ChildTypes'
  BY <1>1 DEF ConnTypes, ChildTypes
<1>3. child'[c] = to /\ ChildFrame(c)
  BY <1>1 DEF ChildTypes, ChildFrame
<1>4. UNCHANGED <<pc, count>>
  BY DEF clientVars
<1>5. ChildGood(c)'
  <2>1. child[c] # "none" /\ UNCHANGED <<conn, held, want, accepted>>
    BY DEF Alive
  <2> QED
    BY <1>1, <1>3, <2>1 DEF Good, ChildGood, Alive
<1>6. ClientGood(c)'
  <2>1. pc[c] = "header" /\ InStep(c) => InStep(c)'
    BY <1>3, <1>4 DEF InStep, Gone, Ends, Alive
  <2>2. pc[c] \in {"connect", "send"} /\ to = "over" => c \in hit'
    <3>1. pc[c] \in {"connect", "send"} => ~Gone(c)
      BY DEF Gone, Ends
    <3>2. to = "over" => c \in hit' \/ Gone(c)
      OBVIOUS
    <3> QED
      BY <3>1, <3>2
  <2>3. pc[c] \in {"connect", "send"} => to = "over" \/ conn[c] = "broken"
    BY <1>1 DEF Good, ClientGood, ChildGood, Gone, Ends, Alive
  <2>4. pc[c] = "content" => to \in {"body", "shutdown", "over"} \/ conn[c] = "broken"
    BY <1>1 DEF Good, ClientGood
  <2>5. pc[c] # "connect"
    BY <1>1 DEF Good, ClientGood, Alive
  <2> QED
    BY <1>1, <1>3, <1>4, <2>1, <2>2, <2>3, <2>4, <2>5 DEF Good, ClientGood
<1> QED
  BY <1>2, <1>3, <1>5, <1>6, ChildStep

LEMMA GetFileSizeKeeps ==
  ASSUME IInv, NEW c \in Clients, GetFileSize(c), UNCHANGED <<clientVars, hit>>
  PROVE  IInv'
<1>1. ChildTypes /\ FileTypes /\ ChildGood(c) /\ child[c] = "size"
  BY DEF IInv, Types, Good, GetFileSize, GoesOn
<1>2. want[c] \in Names
  BY <1>1 DEF ChildGood
<1>3. length' \in [Clients -> Nat]
  <2>1. file[want[c]] \in Nat \cup {-1} /\ length[c] \in Nat
    BY <1>1, <1>2, WebServerAssumption DEF FileTypes, ChildTypes
  <2> QED
    BY <1>1, <2>1 DEF GetFileSize, ChildTypes, Missing
<1>4. PICK to \in {"status", "missing"} : child' = [child EXCEPT ![c] = to]
  BY DEF GetFileSize, GoesOn
<1>5. UNCHANGED <<file, limits, serverUp, accepted, held, conn, toServer, toClient, want, body>>
  BY DEF GetFileSize, GoesOn, connVars
<1> QED
  BY <1>1, <1>2, <1>3, <1>4, <1>5, SilentStepKeeps DEF ChildTypes

LEMMA NoMemoryKeeps ==
  ASSUME IInv, NEW c \in Clients, MallocFails(c)
  PROVE  IInv'
<1>1. ChildTypes /\ child[c] = "size" /\ c \in hit' /\ hit' = hit \cup {c}
  BY DEF IInv, Types, MallocFails, NoMemory, GoesOn, OneFault
<1>2. child' = [child EXCEPT ![c] = "shutdown"]
  BY DEF MallocFails, NoMemory, GoesOn
<1>3. UNCHANGED <<clientVars, file, limits, serverUp, accepted, held, conn, toServer, toClient, want,
                  length, body>>
  BY DEF MallocFails, NoMemory, GoesOn, connVars
<1> QED
  BY <1>1, <1>2, <1>3, SilentStepKeeps DEF ChildTypes

LEMMA KillChildKeeps ==
  ASSUME IInv, NEW c \in Clients, KillChild(c)
  PROVE  IInv'
<1>1. ChildTypes /\ Alive(c) /\ c \in hit' /\ hit' = hit \cup {c}
  BY DEF IInv, Types, KillChild, OneFault
<1>2. child' = [child EXCEPT ![c] = "over"]
  BY DEF KillChild
<1>3. UNCHANGED <<clientVars, file, limits, serverUp, accepted, held, conn, toServer, toClient, want,
                  length, body>>
  BY DEF KillChild, connVars
<1> QED
  BY <1>1, <1>2, <1>3, SilentStepKeeps DEF ChildTypes

LEMMA SendFailsKeeps ==
  ASSUME IInv, NEW c \in Clients, SendFails(c, Gone(c)), UNCHANGED <<clientVars, hit>>
  PROVE  IInv'
<1>1. ChildTypes /\ ChildGood(c)
  BY DEF IInv, Types, Good
<1>2. Alive(c) /\ child' = [child EXCEPT ![c] = "over"]
  BY DEF SendFails, GoesOn, Alive
<1>3. Gone(c) \/ c \in hit'
  BY <1>1 DEF SendFails, ChildGood
<1>4. UNCHANGED <<file, limits, serverUp, accepted, held, conn, toServer, toClient, want, length, body>>
  BY DEF SendFails, GoesOn, connVars
<1> QED
  BY <1>1, <1>2, <1>3, <1>4, SilentStepKeeps DEF ChildTypes

(* The two parts of a buffer that is filled only in part. *)
LEMMA ReadFileKeeps ==
  ASSUME IInv, NEW c \in Clients, ReadFile(c), UNCHANGED clientVars, hit' \in {hit, hit \cup {c}}
  PROVE  IInv'
<1>1. ChildTypes /\ FileTypes /\ ChildGood(c) /\ child[c] = "read" /\ length[c] \in Nat
  BY DEF IInv, Types, Good, ReadFile, GoesOn, ChildTypes
<1>2. file[want[c]] \in Int
  <2>1. want[c] \in Names
    BY <1>1 DEF ChildGood
  <2>2. file[want[c]] \in FileSizes
    BY <1>1, <2>1 DEF FileTypes
  <2>3. file[want[c]] \in Nat \cup {-1}
    BY <2>2, WebServerAssumption
  <2> QED
    BY <2>3
<1>3. body' \in [Clients -> Seq(Bytes)]
  <2> DEFINE good == IF Shrunk(c) THEN Max({0, file[want[c]]}) ELSE length[c]
  <2>1. PICK junk \in 0 .. length[c] :
          body' = [body EXCEPT ![c] = Repeat(FileByte, good) \o Repeat(JunkByte, junk)]
    BY DEF ReadFile
  <2>2. good \in Nat
    <3>1. Max({0, file[want[c]]}) \in Nat
      <4> DEFINE I == {0, file[want[c]]}
      <4>1. Max(I) = CHOOSE x \in I : \A y \in I : x >= y
        BY DEF Max
      <4>2. \E x \in I : \A y \in I : x >= y
        BY <1>2
      <4>3. Max(I) \in I /\ \A y \in I : Max(I) >= y
        BY <4>1, <4>2
      <4> QED
        BY <1>2, <4>3
    <3> QED
      BY <1>1, <3>1
  <2> HIDE DEF good
  <2>3. Repeat(FileByte, good) \in Seq(Bytes) /\ Repeat(JunkByte, junk) \in Seq(Bytes)
    BY <1>1, <2>2 DEF Repeat, Bytes
  <2>4. Repeat(FileByte, good) \o Repeat(JunkByte, junk) \in Seq(Bytes)
    BY <2>3
  <2> QED
    BY <1>1, <2>1, <2>4 DEF ChildTypes
<1>4. child' = [child EXCEPT ![c] = "body"]
  BY DEF ReadFile, GoesOn
<1>5. UNCHANGED <<file, limits, serverUp, accepted, held, conn, toServer, toClient, want, length>>
  BY DEF ReadFile, GoesOn, connVars
<1> QED
  BY <1>1, <1>3, <1>4, <1>5, SilentStepKeeps DEF ChildTypes

(* Steps that send: what is added is what comes next. *)
LEMMA SendStepKeeps ==
  ASSUME IInv, NEW c \in Clients, NEW t \in Seq(Items), Send(c, t),
         UNCHANGED <<clientVars, hit, file, limits, serverUp, accepted, held, want, length>>,
         body' \in [Clients -> Seq(Bytes)],
         NEW to \in {"prefix", "read", "body", "shutdown"}, child' = [child EXCEPT ![c] = to],
         \/ child[c] = "status" /\ to = "prefix" /\ t = <<Status(200)>>
         \/ child[c] = "prefix" /\ to = "read" /\ t = <<Length(length[c]), Blank>>
         \/ child[c] = "body" /\ to \in {"body", "shutdown"} /\ t \in Seq(Bytes)
         \/ child[c] \in {"bad", "missing"} /\ to = "shutdown"
              /\ t \in {<<Status(400), Blank>>, <<Status(404), Blank>>}
  PROVE  IInv'
<1>1. /\ ConnTypes /\ ChildTypes /\ Good(c)
      /\ count[c] \in Nat /\ length[c] \in Nat /\ toClient[c] \in Seq(Items)
  BY DEF IInv, Types, ConnTypes, ChildTypes, ClientTypes
<1>2. toClient[c] \o t \in Seq(Items)
  BY <1>1
<1>3. ConnTypes' /\ toClient'[c] = toClient[c] \o t /\ conn[c] # "broken"
  BY <1>1, <1>2 DEF ConnTypes, Send
<1>4. ChildTypes'
  BY <1>1 DEF ChildTypes
<1>5. child'[c] = to /\ ChildFrame(c)
  BY <1>1 DEF ChildTypes, ConnTypes, Send, ChildFrame
<1>6. UNCHANGED <<pc, count, conn, toServer>>
  BY DEF clientVars, Send
<1>7. ChildGood(c)'
  BY <1>1, <1>5, <1>6 DEF Good, ChildGood, Alive
<1>8. pc[c] \notin {"connect", "send"}
  BY <1>1, <1>3 DEF Good, ClientGood
<1>9. ASSUME pc[c] = "header"
      PROVE  /\ Regular(toClient'[c], count[c]) \/ ErrorAnswer(toClient'[c], count[c])
             /\ InStep(c)'
  <2> DEFINE s == toClient[c]
             n == count[c]
  <2>1. InStep(c)
    BY <1>1, <1>3, <1>9 DEF Good, ClientGood
  <2>2. CASE child[c] = "status"
    <3>1. s = <<>> /\ n = 0 /\ to = "prefix" /\ t = <<Status(200)>>
      BY <2>1, <2>2 DEF InStep
    <3>2. s \o t = <<Status(200)>>
      BY <1>1, <3>1
    <3>3. Regular(<<Status(200)>>, 0) /\ Len(<<Status(200)>>) = 1
      BY ItemTypes DEF Regular, Expected
    <3> QED
      BY <1>3, <1>5, <1>6, <3>1, <3>2, <3>3 DEF InStep
  <2>3. CASE child[c] = "prefix"
    <3>1. Len(s) + n = 1 /\ Regular(s, n) /\ to = "read" /\ t = <<Length(length[c]), Blank>>
      BY <2>1, <2>3 DEF InStep
    <3>2. Len(t) = 2 /\ t[1] = Length(length[c]) /\ t[2] = Blank
      BY <3>1
    <3>3. n + Len(s) + 1 = 2 /\ n + Len(s) + 2 = 3
      BY <1>1, <3>1
    <3>4. \A i \in 1 .. Len(t) : /\ t[i].type = Expected(n + Len(s) + i)
                                 /\ t[i].type = "blank" => t[i] = Blank
                                 /\ t[i].type = "status" => t[i].value = 200
      <4>1. Expected(n + Len(s) + 1) = "length" /\ Expected(n + Len(s) + 2) = "blank"
        BY <3>3 DEF Expected
      <4>2. t[1].type = "length" /\ t[2].type = "blank"
        BY <1>1, <3>2, ItemTypes
      <4>3. \A i \in 1 .. Len(t) : i = 1 \/ i = 2
        BY <3>2
      <4> QED
        BY <3>2, <4>1, <4>2, <4>3
    <3>5. Regular(s \o t, n) /\ Len(s \o t) = Len(s) + Len(t)
      <4>1. s \in Seq(Items) /\ n \in Nat /\ Regular(s, n)
        BY <1>1, <3>1
      <4> HIDE DEF s, n
      <4> QED
        BY <3>4, <4>1, AddRegular
    <3>6. Len(s \o t) + n >= 3
      BY <1>1, <3>1, <3>2, <3>5
    <3> QED
      BY <1>3, <1>5, <1>6, <3>1, <3>5, <3>6 DEF InStep
  <2>4. CASE child[c] = "body"
    <3>1. Len(s) + n >= 3 /\ Regular(s, n) /\ to \in {"body", "shutdown"} /\ t \in Seq(Bytes)
      BY <2>1, <2>4 DEF InStep
    <3>2. \A i \in 1 .. Len(t) : t[i] \in Bytes
      BY <3>1
    <3>3. \A i \in 1 .. Len(t) : t[i].type = "byte"
      BY <3>2, ItemTypes
    <3>4. \A i \in 1 .. Len(t) : /\ t[i].type = Expected(n + Len(s) + i)
                                 /\ t[i].type = "blank" => t[i] = Blank
                                 /\ t[i].type = "status" => t[i].value = 200
      <4>1. \A i \in 1 .. Len(t) : Expected(n + Len(s) + i) = "byte"
        BY <1>1, <3>1 DEF Expected
      <4> QED
        BY <3>3, <4>1
    <3>5. Regular(s \o t, n) /\ Len(s \o t) = Len(s) + Len(t)
      <4>1. s \in Seq(Items) /\ n \in Nat /\ Regular(s, n)
        BY <1>1, <3>1
      <4> HIDE DEF s, n
      <4> QED
        BY <3>4, <4>1, AddRegular
    <3>6. Len(s \o t) + n >= 3
      BY <1>1, <3>1, <3>5
    <3> QED
      BY <1>3, <1>5, <1>6, <3>1, <3>5, <3>6 DEF InStep
  <2>5. CASE child[c] \in {"bad", "missing"}
    <3>1. s = <<>> /\ n = 0 /\ to = "shutdown" /\ t \in {<<Status(400), Blank>>, <<Status(404), Blank>>}
      BY <2>1, <2>5 DEF InStep
    <3>2. s \o t = t
      BY <1>1, <3>1
    <3>3. Len(t) = 2 /\ ErrorAnswer(t, n)
      BY <3>1, ItemTypes DEF ErrorAnswer
    <3> QED
      BY <1>3, <1>5, <1>6, <3>1, <3>2, <3>3 DEF InStep
  <2> QED
    BY <2>2, <2>3, <2>4, <2>5
<1>10. ASSUME pc[c] = "content"
       PROVE  AllBytes(toClient'[c]) /\ to \in {"body", "shutdown"}
  <2>1. child[c] = "body" /\ AllBytes(toClient[c])
    BY <1>1, <1>3, <1>10 DEF Good, ClientGood
  <2> QED
    BY <1>1, <1>3, <2>1, AddBytes
<1>11. ClientGood(c)'
  BY <1>1, <1>3, <1>5, <1>6, <1>8, <1>9, <1>10 DEF Good, ClientGood
<1> QED
  BY <1>3, <1>4, <1>5, <1>7, <1>11, ChildStep

LEMMA SendingKeeps ==
  ASSUME IInv, NEW c \in Clients, UNCHANGED <<clientVars, hit>>,
         \/ SendStatus(c) \/ SendPrefix(c) \/ SendBody(c)
         \/ SendError(c, "bad", 400) \/ SendError(c, "missing", 404)
  PROVE  IInv'
<1>1. /\ body \in [Clients -> Seq(Bytes)] /\ length[c] \in Nat
      /\ <<Status(200)>> \in Seq(Items) /\ <<Length(length[c]), Blank>> \in Seq(Items)
      /\ <<Status(400), Blank>> \in Seq(Items) /\ <<Status(404), Blank>> \in Seq(Items)
  BY ItemTypes DEF IInv, Types, ChildTypes
<1>2. CASE SendStatus(c)
  BY <1>1, <1>2, SendStepKeeps DEF SendStatus, GoesOn
<1>3. CASE SendPrefix(c)
  <2> DEFINE t == <<Length(length[c]), Blank>>
  <2>1. /\ Send(c, t) /\ child[c] = "prefix" /\ child' = [child EXCEPT ![c] = "read"]
        /\ UNCHANGED <<file, limits, serverUp, accepted, held, want, length, body>>
    BY <1>3 DEF SendPrefix, GoesOn
  <2>2. t \in Seq(Items) /\ t = <<Length(length[c]), Blank>>
    BY <1>1
  <2> HIDE DEF t
  <2> QED
    BY <1>1, <2>1, <2>2, SendStepKeeps
<1>4. ASSUME NEW e \in {400, 404}, NEW from \in {"bad", "missing"}, SendError(c, from, e)
      PROVE  IInv'
  <2> DEFINE t == <<Status(e), Blank>>
  <2>1. /\ Send(c, t) /\ child[c] = from /\ child' = [child EXCEPT ![c] = "shutdown"]
        /\ UNCHANGED <<file, limits, serverUp, accepted, held, want, length, body>>
    BY <1>4 DEF SendError, GoesOn
  <2>2. t \in Seq(Items) /\ t \in {<<Status(400), Blank>>, <<Status(404), Blank>>}
    BY <1>1
  <2> HIDE DEF t
  <2> QED
    BY <1>1, <2>1, <2>2, SendStepKeeps, ZenonT(40)
<1>5. CASE SendBody(c)
  <2>1. PICK n \in 0 .. Len(body[c]) :
          /\ GoesOn(c, "body", IF n = Len(body[c]) THEN "shutdown" ELSE "body")
          /\ Send(c, SubSeq(body[c], 1, n))
          /\ body' = [body EXCEPT ![c] = SubSeq(@, n + 1, Len(@))]
          /\ UNCHANGED <<want, length>>
    BY <1>5 DEF SendBody
  <2>2. body[c] \in Seq(Bytes) /\ Len(body[c]) \in Nat
    BY <1>1
  <2>3. SubSeq(body[c], 1, n) \in Seq(Bytes) /\ SubSeq(body[c], n + 1, Len(body[c])) \in Seq(Bytes)
    BY <2>2
  <2>4. SubSeq(body[c], 1, n) \in Seq(Items)
    BY <2>3, ItemTypes
  <2>5. body' \in [Clients -> Seq(Bytes)]
    BY <1>1, <2>1, <2>3
  <2>6. PICK to \in {"body", "shutdown"} : child' = [child EXCEPT ![c] = to]
    BY <2>1 DEF GoesOn
  <2> QED
    BY <2>1, <2>3, <2>4, <2>5, <2>6, SendStepKeeps, ZenonT(40) DEF GoesOn
<1> QED
  BY <1>2, <1>3, <1>4, <1>5

LEMMA ShutdownKeeps ==
  ASSUME IInv, NEW c \in Clients, Shutdown(c), UNCHANGED <<clientVars, hit>>
  PROVE  IInv'
<1>1. /\ ConnTypes /\ ChildTypes /\ Good(c) /\ child[c] = "shutdown"
  BY DEF IInv, Types, Shutdown, GoesOn
<1>2. /\ child' = [child EXCEPT ![c] = "over"]
      /\ conn' = [conn EXCEPT ![c] = IF @ = "open" THEN "shutdown" ELSE @]
      /\ UNCHANGED <<file, limits, serverUp, accepted, held, toServer, toClient, want, length, body>>
  BY DEF Shutdown, GoesOn
<1>3. ConnTypes' /\ ChildTypes'
  BY <1>1, <1>2 DEF ConnTypes, ChildTypes
<1>4. /\ child'[c] = "over" /\ ChildFrame(c)
      /\ conn'[c] = IF conn[c] = "open" THEN "shutdown" ELSE conn[c]
  BY <1>1, <1>2 DEF ConnTypes, ChildTypes, ChildFrame
<1>5. UNCHANGED <<pc, count>>
  BY DEF clientVars
<1>6. ChildGood(c)'
  BY <1>1, <1>2, <1>4, <1>5 DEF Good, ChildGood, Alive
<1>7. InStep(c) => InStep(c)'
  BY <1>1, <1>2, <1>4, <1>5 DEF InStep
<1>8. ClientGood(c)'
  <2>1. pc[c] \in {"connect", "send"} => conn[c] = "broken" /\ conn'[c] = "broken" /\ c \in hit
    BY <1>1, <1>4 DEF Good, ClientGood, ChildGood
  <2>2. conn'[c] = "broken" <=> conn[c] = "broken"
    BY <1>4
  <2> QED
    BY <1>1, <1>2, <1>4, <1>5, <1>7, <2>1, <2>2 DEF Good, ClientGood
<1> QED
  BY <1>3, <1>4, <1>6, <1>8, ChildStep

LEMMA ChildKeeps ==
  ASSUME IInv, NEW c \in Clients, Child(c)
  PROVE  IInv'
<1>1. UNCHANGED clientVars /\ hit' \in {hit, hit \cup {c}}
  BY DEF Child
<1>2. CASE ReadFile(c)
  BY <1>1, <1>2, ReadFileKeeps
<1>3. CASE ~ReadFile(c)
  <2>2. child[c] # "read"
    BY <1>3 DEF Child, HandleConnection, RecvRequest, GetFileSize, SendStatus, SendPrefix, SendBody,
                SendError, SendFails, Shutdown, GoesOn
  <2>3. UNCHANGED hit
    BY <2>2 DEF Child
  <2> QED
    BY <1>1, <1>3, <2>3, RecvRequestKeeps, GetFileSizeKeeps, SendingKeeps, SendFailsKeeps, ShutdownKeeps
       DEF Child, HandleConnection
<1> QED
  BY <1>2, <1>3

-----------------------------------------------------------------------------
(* The client c *)

(* What a client's step leaves alone. *)
ClientFrame(c) ==
  /\ UNCHANGED <<serverVars, hit, request>>
  /\ \A d \in Clients \ {c} :
       /\ conn'[d] = conn[d] /\ toServer'[d] = toServer[d] /\ toClient'[d] = toClient[d]
       /\ pc'[d] = pc[d] /\ count'[d] = count[d]

LEMMA ClientMove ==
  ASSUME IInv, NEW c \in Clients, ClientFrame(c), ConnTypes', ClientTypes',
         conn'[c] = conn[c] \/ (conn'[c] = "open" /\ conn[c] = "none"), ClientGood(c)'
  PROVE  IInv'
<1>1. UNCHANGED <<file, limits, serverUp, accepted, child, held, want, length, body, hit>>
  BY DEF ClientFrame, serverVars
<1>2. Types'
  BY <1>1 DEF IInv, Types, FileTypes, ChildTypes
<1>3. \A d \in Clients \ {c} : Same(d)
  BY <1>1 DEF ClientFrame, Same
<1>4. ChildGood(c)'
  BY <1>1 DEF IInv, Good, ChildGood, Alive
<1> QED
  BY <1>2, <1>3, <1>4, StepOfOne DEF Good

LEMMA ConnectKeeps ==
  ASSUME IInv, NEW c \in Clients, Connect(c, serverUp), UNCHANGED <<serverVars, hit>>
  PROVE  IInv'
<1>1. ConnTypes /\ ClientTypes /\ Good(c) /\ pc[c] = "connect"
  BY DEF IInv, Types, Connect, Continues
<1>2. /\ pc' = [pc EXCEPT ![c] = IF serverUp THEN "send" ELSE "failed"]
      /\ conn' = IF serverUp THEN [conn EXCEPT ![c] = "open"] ELSE conn
      /\ UNCHANGED <<toServer, toClient, request, count, contentLength>>
  BY DEF Connect, Continues
<1>3. ConnTypes' /\ ClientTypes'
  BY <1>1, <1>2 DEF ConnTypes, ClientTypes, Ends
<1>4. conn[c] = "none" /\ child[c] = "none"
  BY <1>1 DEF Good, ClientGood
<1>5. /\ ClientFrame(c) /\ pc'[c] = IF serverUp THEN "send" ELSE "failed"
      /\ conn'[c] = conn[c] \/ conn'[c] = "open"
  BY <1>1, <1>2 DEF ConnTypes, ClientTypes, ClientFrame
<1>6. ClientGood(c)'
  BY <1>1, <1>2, <1>4, <1>5 DEF Good, ClientGood, serverVars
<1> QED
  BY <1>3, <1>4, <1>5, <1>6, ClientMove

LEMMA SendRequestKeeps ==
  ASSUME IInv, NEW c \in Clients, SendRequest(c), UNCHANGED <<serverVars, hit>>
  PROVE  IInv'
<1>1. ConnTypes /\ ClientTypes /\ Good(c) /\ pc[c] = "send"
  BY DEF IInv, Types, SendRequest, Continues
<1>2. /\ pc' = [pc EXCEPT ![c] = "header"]
      /\ toServer' = [toServer EXCEPT ![c] = Append(@, request[c])]
      /\ UNCHANGED <<conn, toClient, request, count, contentLength>>
  BY DEF SendRequest, Continues
<1>3. ConnTypes' /\ ClientTypes'
  <2>1. Append(toServer[c], request[c]) \in Seq(Requests)
    BY <1>1 DEF ConnTypes, ClientTypes
  <2> QED
    BY <1>1, <1>2, <2>1 DEF ConnTypes, ClientTypes
<1>4. ClientFrame(c) /\ pc'[c] = "header" /\ conn'[c] = conn[c]
  BY <1>1, <1>2 DEF ConnTypes, ClientTypes, ClientFrame
<1>5. /\ toClient[c] = <<>> /\ count[c] = 0
      /\ child[c] \in {"none", "recv", "over"} \/ conn[c] = "broken"
      /\ child[c] = "over" => c \in hit
  BY <1>1 DEF Good, ClientGood
<1>6. UNCHANGED <<child, hit>>
  BY DEF serverVars
<1>7. ClientGood(c)'
  <2>1. Regular(toClient'[c], count'[c])
    BY <1>2, <1>5 DEF Regular
  <2>2. conn[c] # "broken" => InStep(c)'
    BY <1>2, <1>5, <1>6 DEF InStep
  <2> QED
    BY <1>2, <1>4, <2>1, <2>2 DEF ClientGood
<1> QED
  BY <1>3, <1>4, <1>7, ClientMove

(* The first item is read; f is where the client goes. *)
LEMMA ReadLine ==
  ASSUME IInv, NEW c \in Clients, toClient[c] # <<>>, Recv(c, 1),
         NEW to \in Ends \cup {"header", "content"}, Continues(c, "header", to),
         NEW n \in 0 .. 2, count' = [count EXCEPT ![c] = n],
         contentLength' \in [Clients -> Nat], UNCHANGED <<serverVars, hit>>,
         ClientGood(c)'
  PROVE  IInv'
<1>1. ConnTypes /\ ClientTypes /\ toClient[c] \in Seq(Items)
  BY DEF IInv, Types, ConnTypes
<1>2. SubSeq(toClient[c], 1 + 1, Len(toClient[c])) \in Seq(Items)
  BY <1>1
<1>3. /\ pc' = [pc EXCEPT ![c] = to]
      /\ toClient' = [toClient EXCEPT ![c] = SubSeq(@, 1 + 1, Len(@))]
      /\ UNCHANGED <<conn, toServer, request>>
  BY DEF Recv, Continues
<1>4. ConnTypes'
  BY <1>1, <1>2, <1>3 DEF ConnTypes
<1>5. ClientTypes'
  BY <1>1, <1>3 DEF ClientTypes
<1>6. ClientFrame(c) /\ conn'[c] = conn[c]
  BY <1>1, <1>3 DEF ConnTypes, ClientTypes, ClientFrame
<1> QED
  BY <1>4, <1>5, <1>6, ClientMove

LEMMA BlankIsRead ==
  ASSUME IInv, NEW c \in Clients, EndOfHeader(c)
  PROVE  count[c] = 2 /\ Regular(toClient[c], 2)
<1> DEFINE s == toClient[c]
           n == count[c]
<1>1. /\ Good(c) /\ pc[c] = "header" /\ s # <<>> /\ Head(s) = Blank
      /\ s \in Seq(Items) /\ n \in 0 .. 2
  BY DEF IInv, Types, EndOfHeader, Continues, ConnTypes, ClientTypes
<1>2. s[1] = Blank /\ s[1].type = "blank" /\ Len(s) >= 1
  BY <1>1, ItemTypes
<1>3. Regular(s, n)
  <2>1. ~ErrorAnswer(s, n)
    BY <1>2 DEF ErrorAnswer
  <2> QED
    BY <1>1, <2>1 DEF Good, ClientGood
<1>4. Expected(n + 1) = "blank"
  BY <1>1, <1>2, <1>3 DEF Regular
<1>5. n = 2
  BY <1>1, <1>4 DEF Expected
<1> QED
  BY <1>3, <1>5

LEMMA EndOfHeaderKeeps ==
  ASSUME IInv, NEW c \in Clients, EndOfHeader(c), UNCHANGED <<serverVars, hit>>
  PROVE  IInv'
<1> DEFINE s == toClient[c]
           n == count[c]
           r == SubSeq(s, 2, Len(s))
<1>1. /\ ConnTypes /\ ClientTypes /\ Good(c) /\ pc[c] = "header"
      /\ s # <<>> /\ s \in Seq(Items) /\ n \in 0 .. 2
  BY DEF IInv, Types, EndOfHeader, Continues, ConnTypes, ClientTypes
<1>2. Len(s) >= 1
  BY <1>1
<1>3. n = 2 /\ Regular(s, n)
  BY BlankIsRead
<1>4. AllBytes(r)
  <2>1. Regular(r, 3) /\ r \in Seq(Items)
    BY <1>1, <1>3, TakeRegular, TakeFirst
  <2> HIDE DEF r
  <2>2. \A i \in 1 .. Len(r) : Expected(3 + i) = "byte"
    BY <2>1 DEF Expected
  <2> QED
    BY <2>1, <2>2 DEF Regular, AllBytes
<1>5. child[c] \in {"read", "body", "shutdown", "over"} \/ conn[c] = "broken"
  <2>1. conn[c] # "broken" => InStep(c)
    BY <1>1 DEF Good, ClientGood
  <2>2. child[c] \in {"none", "recv", "size", "status", "prefix", "read", "body",
                      "bad", "missing", "shutdown", "over"}
    BY DEF IInv, Types, ChildTypes
  <2>3. Len(s) + n # 1
    BY <1>1, <1>2, <1>3
  <2> QED
    BY <1>1, <2>1, <2>2, <2>3 DEF InStep
<1>6. /\ toClient'[c] = r /\ pc'[c] = "content" /\ UNCHANGED <<child, conn>>
  BY <1>1 DEF EndOfHeader, Recv, Continues, ConnTypes, ClientTypes, serverVars
<1>7. ClientGood(c)'
  BY <1>4, <1>5, <1>6 DEF ClientGood
<1>8. /\ Recv(c, 1) /\ Continues(c, "header", "content") /\ UNCHANGED <<count, contentLength>>
      /\ count' = [count EXCEPT ![c] = n]
  BY <1>1 DEF EndOfHeader, ClientTypes
<1> QED
  BY <1>1, <1>7, <1>8, ReadLine DEF ClientTypes

(* Lines of a regular answer keep the client at the header; the first line of
   one that reports an error does not.                                      *)
LEMMA LineIsRead ==
  ASSUME IInv, NEW c \in Clients, HeaderLine(c)
  PROVE  /\ count[c] \in {0, 1} /\ contentLength' \in [Clients -> Nat]
         /\ \E to \in {"header", "badrequest", "notfound"} :
              /\ Continues(c, "header", to)
              /\ to = "header" =>
                   /\ Regular(toClient[c], count[c])
                   /\ count[c] = 1 => toClient[c][1].type = "length"
                                      /\ contentLength'[c] = toClient[c][1].value
<1> DEFINE s == toClient[c]
           n == count[c]
           l == Head(s)
<1>1. /\ ConnTypes /\ ClientTypes /\ Good(c) /\ pc[c] = "header"
      /\ s # <<>> /\ l # Blank /\ s \in Seq(Items) /\ n \in 0 .. 2
  BY DEF IInv, Types, HeaderLine, Continues, ConnTypes, ClientTypes
<1>2. l = s[1] /\ l \in Items /\ Len(s) >= 1
  BY <1>1, TakeFirst
<1>3. count'[c] = n + 1
  BY <1>1 DEF HeaderLine, ClientTypes
<1>4. \/ Regular(s, n) /\ n \in {0, 1} /\ l.type = Expected(n + 1) /\ (n = 0 => l.value = 200)
      \/ ErrorAnswer(s, n) /\ n = 0 /\ l.type = "status" /\ l.value \in {400, 404}
  <2>1. CASE Regular(s, n)
    <3>1. /\ l.type = Expected(n + 1) /\ l.type # "blank" /\ (l.type = "status" => l.value = 200)
      BY <1>1, <1>2, <2>1 DEF Regular
    <3> QED
      BY <1>1, <2>1, <3>1 DEF Expected
  <2>2. CASE ErrorAnswer(s, n)
    BY <1>2, <2>2 DEF ErrorAnswer
  <2> QED
    BY <1>1, <2>1, <2>2 DEF Good, ClientGood
<1>5. l.value \in Nat /\ Expected(1) = "status" /\ Expected(2) = "length"
  BY <1>2 DEF Items, Expected
<1>6. contentLength' \in [Clients -> Nat]
  BY <1>1, <1>5 DEF HeaderLine, ClientTypes
<1> HIDE DEF l
<1>7. CASE Regular(s, n) /\ n = 0 /\ l.type = "status" /\ l.value = 200
  <2>1. Continues(c, "header", "header")
    BY <1>3, <1>7 DEF HeaderLine, l
  <2> QED
    BY <1>6, <1>7, <2>1
<1>8. CASE Regular(s, n) /\ n = 1 /\ l.type = "length"
  <2>1. Continues(c, "header", "header") /\ contentLength' = [contentLength EXCEPT ![c] = l.value]
    BY <1>3, <1>8 DEF HeaderLine, l
  <2>2. contentLength'[c] = l.value
    BY <1>1, <2>1 DEF ClientTypes
  <2> QED
    BY <1>2, <1>6, <1>8, <2>1, <2>2
<1>9. CASE ErrorAnswer(s, n) /\ n = 0 /\ l.type = "status" /\ l.value \in {400, 404}
  <2>1. Continues(c, "header", "badrequest") \/ Continues(c, "header", "notfound")
    BY <1>3, <1>9 DEF HeaderLine, l
  <2> QED
    BY <1>6, <1>9, <2>1
<1> QED
  BY <1>4, <1>5, <1>7, <1>8, <1>9

LEMMA HeaderLineKeeps ==
  ASSUME IInv, NEW c \in Clients, HeaderLine(c), UNCHANGED <<serverVars, hit>>
  PROVE  IInv'
<1> DEFINE s == toClient[c]
           n == count[c]
           r == SubSeq(s, 2, Len(s))
<1>1. /\ ConnTypes /\ ClientTypes /\ Good(c) /\ pc[c] = "header"
      /\ s # <<>> /\ s \in Seq(Items) /\ n \in 0 .. 2
  BY DEF IInv, Types, HeaderLine, Continues, ConnTypes, ClientTypes
<1>2. /\ s[1] \in Items /\ Len(s) >= 1
      /\ r \in Seq(Items) /\ Len(r) = Len(s) - 1
  BY <1>1, TakeFirst
<1>3. /\ Recv(c, 1) /\ count' = [count EXCEPT ![c] = n + 1] /\ count'[c] = n + 1
      /\ toClient'[c] = r /\ UNCHANGED <<child, conn, hit, serverUp>>
  BY <1>1 DEF HeaderLine, Recv, ConnTypes, ClientTypes, serverVars
<1>4. n + 1 \in 0 .. 2 /\ contentLength' \in [Clients -> Nat]
  BY LineIsRead
<1>5. PICK to \in {"header", "badrequest", "notfound"} :
        /\ Continues(c, "header", to)
        /\ to = "header" => Regular(s, n)
  BY LineIsRead
<1>6. pc'[c] = to
  BY <1>1, <1>5 DEF Continues, ClientTypes
<1>7. ClientGood(c)'
  <2>1. CASE to = "header"
    <3>1. Regular(s, n)
      BY <1>5, <2>1
    <3>2. Regular(r, n + 1) /\ Len(r) + (n + 1) = Len(s) + n /\ n \in Nat
      <4>1. Regular(r, n + 1)
        BY <1>1, <3>1, TakeRegular
      <4>2. n \in Nat /\ Len(s) \in Nat
        BY <1>1
      <4> HIDE DEF r
      <4> QED
        BY <1>2, <4>1, <4>2
    <3>3. ASSUME conn[c] # "broken" PROVE InStep(c)'
      <4>1. InStep(c)
        BY <1>1, <3>3 DEF Good, ClientGood
      <4>2. ~ErrorAnswer(s, n)
        BY <1>1, <1>2, <3>1 DEF Regular, ErrorAnswer
      <4> HIDE DEF s, n, r
      <4>3. /\ child[c] \notin {"none", "recv", "size", "bad", "missing", "status"}
            /\ child[c] = "prefix" => Len(r) + (n + 1) = 1
            /\ child[c] \in {"read", "body"} => Len(r) + (n + 1) >= 3
            /\ child[c] \in {"shutdown", "over"} /\ c \notin hit => Len(r) + (n + 1) >= 3
        BY <1>1, <3>2, <4>1, <4>2 DEF InStep, s, n
      <4> QED
        BY <1>3, <3>2, <4>3 DEF InStep
    <3> QED
      BY <1>3, <1>6, <2>1, <3>2, <3>3 DEF ClientGood
  <2>2. CASE to # "header"
    BY <1>5, <1>6, <2>2 DEF ClientGood
  <2> QED
    BY <2>1, <2>2
<1> QED
  <2>1. to \in Ends \cup {"header", "content"}
    BY DEF Ends
  <2> QED
    BY <1>1, <1>3, <1>4, <1>5, <1>7, <2>1, ReadLine

LEMMA NobodyAnswers ==
  ASSUME IInv, NEW c \in Clients, HeaderCutOff(c, Ended(c)), conn[c] # "broken"
  PROVE  (child[c] = "none" /\ ~serverUp) \/ (child[c] = "over" /\ c \in hit)
<1>1. /\ Good(c) /\ pc[c] = "header"
      /\ toClient[c] = <<>> /\ count[c] \in 0 .. 1 /\ Ended(c)
      /\ child[c] \in {"none", "recv", "size", "status", "prefix", "read", "body",
                       "bad", "missing", "shutdown", "over"}
  BY DEF IInv, Types, HeaderCutOff, Continues, ClientTypes, ChildTypes
<1>2. InStep(c) /\ ChildGood(c)
  BY <1>1 DEF Good, ClientGood
<1>3. ~Alive(c)
  BY <1>1, <1>2 DEF ChildGood, Ended
<1>4. child[c] = "none" => ~serverUp
  BY <1>1, <1>2 DEF ChildGood, Ended
<1>5. child[c] = "over" => c \in hit
  BY <1>1, <1>2 DEF InStep
<1> QED
  BY <1>1, <1>3, <1>4, <1>5 DEF Alive

LEMMA HeaderCutOffKeeps ==
  ASSUME IInv, NEW c \in Clients, HeaderCutOff(c, Ended(c)), UNCHANGED <<serverVars, hit>>
  PROVE  IInv'
<1>1. /\ ConnTypes /\ ClientTypes /\ Good(c) /\ pc[c] = "header"
      /\ toClient[c] = <<>> /\ count[c] \in 0 .. 1 /\ Ended(c)
      /\ child[c] \in {"none", "recv", "size", "status", "prefix", "read", "body",
                       "bad", "missing", "shutdown", "over"}
  BY DEF IInv, Types, HeaderCutOff, Continues, ClientTypes, ChildTypes
<1>2. PICK to \in {"header", "crashed", "badrequest", "notfound"} : Continues(c, "header", to)
  BY DEF HeaderCutOff, Misread
<1>3. /\ pc' = [pc EXCEPT ![c] = to] /\ count' = [count EXCEPT ![c] = @ + 1]
      /\ UNCHANGED <<conn, toServer, toClient, request, contentLength>>
      /\ UNCHANGED <<child, hit, serverUp>>
  BY <1>2 DEF HeaderCutOff, Continues, connVars, serverVars
<1>4. ConnTypes' /\ ClientTypes'
  BY <1>1, <1>3 DEF ConnTypes, ClientTypes, Ends
<1>5. /\ ClientFrame(c) /\ conn'[c] = conn[c] /\ toClient'[c] = <<>>
      /\ pc'[c] = to /\ count'[c] = count[c] + 1
  BY <1>1, <1>3 DEF ClientTypes, ClientFrame
<1>6. ASSUME conn[c] # "broken"
      PROVE  (child[c] = "none" /\ ~serverUp) \/ (child[c] = "over" /\ c \in hit)
  BY <1>6, NobodyAnswers
<1>7. ClientGood(c)'
  <2>1. Regular(toClient'[c], count'[c])
    BY <1>5 DEF Regular
  <2>2. conn[c] # "broken" => InStep(c)'
    BY <1>3, <1>5, <1>6 DEF InStep
  <2>3. c \in hit \/ ~serverUp
    BY <1>1, <1>6 DEF Good, ChildGood
  <2> QED
    BY <1>3, <1>5, <2>1, <2>2, <2>3 DEF ClientGood
<1> QED
  BY <1>4, <1>5, <1>7, ClientMove

LEMMA DropBytes ==
  ASSUME NEW s \in Seq(Items), NEW k \in 0 .. Len(s)
  PROVE  LET t == SubSeq(s, k + 1, Len(s))
         IN  t \in Seq(Items) /\ (AllBytes(s) => AllBytes(t))
<1> DEFINE t == SubSeq(s, k + 1, Len(s))
<1>1. t \in Seq(Items) /\ Len(t) = Len(s) - k /\ \A i \in 1 .. Len(t) : t[i] = s[i + k]
  OBVIOUS
<1> HIDE DEF t
<1>2. \A i \in 1 .. Len(t) : i + k \in 1 .. Len(s)
  BY <1>1
<1>3. AllBytes(s) => AllBytes(t)
  BY <1>1, <1>2 DEF AllBytes
<1> QED
  BY <1>1, <1>3 DEF t

LEMMA TakeKeeps ==
  ASSUME IInv, NEW c \in Clients, NEW k \in Nat, Take(c, k),
         NEW to \in {"content", "done", "failed"}, Continues(c, "content", to), UNCHANGED <<serverVars, hit>>
  PROVE  IInv'
<1>1. /\ ConnTypes /\ ClientTypes /\ Good(c) /\ pc[c] = "content"
      /\ toClient[c] \in Seq(Items) /\ k \in 0 .. Len(toClient[c])
  BY DEF IInv, Types, Take, Recv, Continues, ConnTypes
<1> DEFINE t == SubSeq(toClient[c], k + 1, Len(toClient[c]))
<1>2. t \in Seq(Items) /\ AllBytes(t)
  BY <1>1, DropBytes DEF Good, ClientGood
<1> HIDE DEF t
<1>3. /\ pc' = [pc EXCEPT ![c] = to] /\ toClient' = [toClient EXCEPT ![c] = t]
      /\ UNCHANGED <<conn, toServer, request, count, contentLength, child, hit>>
  BY DEF Take, Recv, Continues, serverVars, t
<1>4. ConnTypes' /\ ClientTypes'
  BY <1>1, <1>2, <1>3 DEF ConnTypes, ClientTypes, Ends
<1>5. ClientFrame(c) /\ conn'[c] = conn[c] /\ toClient'[c] = t /\ pc'[c] = to
  BY <1>1, <1>3 DEF ConnTypes, ClientTypes, ClientFrame
<1>6. ClientGood(c)'
  <2>1. child[c] \in {"read", "body", "shutdown", "over"} \/ conn[c] = "broken"
    BY <1>1 DEF Good, ClientGood
  <2>2. AllBytes(toClient'[c])
    BY <1>2, <1>5
  <2> QED
    BY <1>3, <1>5, <2>1, <2>2 DEF ClientGood
<1> QED
  BY <1>4, <1>5, <1>6, ClientMove

LEMMA MinOfTwo ==
  ASSUME NEW a \in Nat, NEW b \in Nat
  PROVE  Min({a, b}) \in Nat
<1> DEFINE I == {a, b}
<1>1. Min(I) = CHOOSE x \in I : \A y \in I : x <= y
  BY DEF Min
<1>2. \E x \in I : \A y \in I : x <= y
  OBVIOUS
<1>3. Min(I) \in I
  BY <1>1, <1>2
<1> QED
  BY <1>3

LEMMA RecvStreamKeeps ==
  ASSUME IInv, NEW c \in Clients, RecvAll(c, Ended(c)) \/ RecvSome(c) \/ RecvBreaks(c),
         UNCHANGED <<serverVars, hit>>
  PROVE  IInv'
<1>1. CASE RecvAll(c, Ended(c))
  <2> DEFINE k == Min({contentLength[c], Len(toClient[c])})
  <2>1. contentLength[c] \in Nat /\ toClient[c] \in Seq(Items)
    BY DEF IInv, Types, ConnTypes, ClientTypes
  <2>2. k \in Nat
    BY <2>1, MinOfTwo
  <2>3. PICK to \in {"done", "failed"} : Continues(c, "content", to)
    BY <1>1 DEF RecvAll
  <2>4. Take(c, k)
    BY <1>1 DEF RecvAll
  <2> HIDE DEF k
  <2> QED
    BY <2>2, <2>3, <2>4, TakeKeeps
<1>2. CASE RecvSome(c)
  <2>1. PICK k \in 1 .. Min({Asked(c), Len(toClient[c])}) :
          /\ Take(c, k)
          /\ Continues(c, "content",
               IF Len(content[c]) + k = contentLength[c] THEN "done" ELSE "content")
    BY <1>2 DEF RecvSome
  <2>2. PICK to \in {"done", "content"} : Continues(c, "content", to)
    BY <2>1
  <2> QED
    BY <2>1, <2>2, TakeKeeps
<1>3. CASE RecvBreaks(c)
  <2>1. ConnTypes /\ ClientTypes
    BY DEF IInv, Types
  <2>2. /\ pc' = [pc EXCEPT ![c] = "failed"]
        /\ UNCHANGED <<conn, toServer, toClient, request, count, contentLength>>
    BY <1>3 DEF RecvBreaks, Continues, connVars
  <2>3. ConnTypes' /\ ClientTypes'
    BY <2>1, <2>2 DEF ConnTypes, ClientTypes, Ends
  <2>4. ClientFrame(c) /\ conn'[c] = conn[c] /\ pc'[c] = "failed"
    BY <2>1, <2>2 DEF ClientTypes, ClientFrame
  <2>5. ClientGood(c)'
    BY <2>4 DEF ClientGood
  <2> QED
    BY <2>3, <2>4, <2>5, ClientMove
<1> QED
  BY <1>1, <1>2, <1>3

LEMMA ClientKeeps ==
  ASSUME IInv, NEW c \in Clients, Client(c)
  PROVE  IInv'
BY ConnectKeeps, SendRequestKeeps, EndOfHeaderKeeps, HeaderLineKeeps, HeaderCutOffKeeps,
   RecvStreamKeeps DEF Client, ClientStep

-----------------------------------------------------------------------------
(* The parent and the surroundings *)

LEMMA AcceptKeeps ==
  ASSUME IInv, NEW c \in Clients, Accept(c), UNCHANGED <<clientVars, hit>>
  PROVE  IInv'
<1>1. ConnTypes /\ FileTypes /\ ChildTypes /\ ClientTypes /\ hit \subseteq Clients /\ Good(c)
  BY DEF IInv, Types
<1>2. /\ serverUp /\ conn[c] # "none" /\ c \notin accepted
      /\ accepted' = accepted \cup {c}
      /\ UNCHANGED <<conn, toServer, toClient, file, limits, serverUp, want, length, body,
                     request, pc, count, contentLength, hit>>
  BY DEF Accept, connVars, clientVars
<1>3. \/ /\ child' = [child EXCEPT ![c] = "recv"]
         /\ held' = [held EXCEPT ![c] = accepted']
      \/ UNCHANGED <<child, held>>
  BY DEF Accept
<1>4. child[c] = "none"
  BY <1>1, <1>2 DEF Good, ChildGood
<1>5. Types'
  <2>1. accepted' \subseteq Clients
    BY <1>1, <1>2 DEF FileTypes
  <2>2. ChildTypes'
    BY <1>1, <1>2, <1>3, <2>1 DEF ChildTypes
  <2> QED
    BY <1>1, <1>2, <2>1, <2>2 DEF Types, ConnTypes, FileTypes, ClientTypes
<1>6. \A d \in Clients \ {c} : Same(d)
  BY <1>1, <1>2, <1>3 DEF Same, ChildTypes
<1>7. \/ child'[c] = "recv" /\ c \in held'[c] /\ c \in accepted'
      \/ UNCHANGED <<child, held>> /\ c \in accepted'
  BY <1>1, <1>2, <1>3 DEF ChildTypes
<1>8. ChildGood(c)'
  BY <1>1, <1>2, <1>4, <1>7 DEF Good, ChildGood, Alive
<1>9. ClientGood(c)'
  <2>1. InStep(c) => InStep(c)'
    BY <1>2, <1>4, <1>7 DEF InStep
  <2> QED
    BY <1>1, <1>2, <1>4, <1>7, <2>1 DEF Good, ClientGood
<1> QED
  BY <1>5, <1>6, <1>8, <1>9, StepOfOne DEF Good

LEMMA AcceptFailsKeeps ==
  ASSUME IInv, AcceptFails, UNCHANGED <<clientVars, hit>>
  PROVE  IInv'
<1>1. /\ serverUp' = FALSE
      /\ UNCHANGED <<conn, toServer, toClient, file, limits, accepted, child, held, want, length,
                     body, request, pc, count, contentLength, hit>>
  BY DEF AcceptFails, connVars, clientVars
<1>2. Types'
  BY <1>1 DEF IInv, Types, ConnTypes, FileTypes, ChildTypes, ClientTypes
<1>3. \A d \in Clients : Same(d)
  BY <1>1 DEF Same
<1> QED
  BY <1>2, <1>3, StepOfNone

LEMMA ChangeFileKeeps ==
  ASSUME IInv, ChangeFile
  PROVE  IInv'
<1>1. /\ file' \in [Names -> FileSizes]
      /\ UNCHANGED <<conn, toServer, toClient, limits, serverUp, accepted, child, held, want, length,
                     body, request, pc, count, contentLength, hit>>
  BY DEF ChangeFile, connVars, clientVars, IInv, Types, FileTypes
<1>2. Types'
  BY <1>1 DEF IInv, Types, ConnTypes, FileTypes, ChildTypes, ClientTypes
<1>3. \A d \in Clients : Same(d)
  BY <1>1 DEF Same
<1> QED
  BY <1>2, <1>3, StepOfNone

LEMMA BreakKeeps ==
  ASSUME IInv, NEW c \in Clients, Break(c)
  PROVE  IInv'
<1>1. /\ ConnTypes /\ FileTypes /\ ChildTypes /\ ClientTypes /\ hit \subseteq Clients /\ Good(c)
      /\ toClient[c] \in Seq(Items) /\ count[c] \in Nat
  <2>1. ConnTypes /\ FileTypes /\ ChildTypes /\ ClientTypes /\ hit \subseteq Clients /\ Good(c)
    BY DEF IInv, Types
  <2>2. toClient[c] \in Seq(Items)
    BY <2>1 DEF ConnTypes
  <2>3. count[c] \in Nat
    BY <2>1 DEF ClientTypes
  <2> QED
    BY <2>1, <2>2, <2>3
<1>2. /\ hit' = hit \cup {c} /\ conn[c] = "open" /\ conn' = [conn EXCEPT ![c] = "broken"]
      /\ UNCHANGED <<toServer, file, limits, serverUp, accepted, child, held, want, length, body,
                     request, pc, count, contentLength>>
  BY DEF Break, OneFault, serverVars, clientVars
<1>3. PICK k \in 0 .. Len(toClient[c]) : toClient' = [toClient EXCEPT ![c] = SubSeq(@, 1, k)]
  BY DEF Break
<1> DEFINE t == SubSeq(toClient[c], 1, k)
<1>4. /\ t \in Seq(Items) /\ Len(t) = k
      /\ Regular(toClient[c], count[c]) => Regular(t, count[c])
      /\ ErrorAnswer(toClient[c], count[c]) => Regular(t, count[c]) \/ ErrorAnswer(t, count[c])
      /\ AllBytes(toClient[c]) => AllBytes(t)
  BY <1>1, LoseEnd
<1>5. toClient[c] = <<>> => t = <<>>
  BY <1>1
<1>6. toClient' = [toClient EXCEPT ![c] = t]
  BY <1>3
<1> HIDE DEF t
<1>7. Types'
  BY <1>1, <1>2, <1>4, <1>6 DEF Types, ConnTypes, FileTypes, ChildTypes, ClientTypes
<1>8. \A d \in Clients \ {c} : Same(d)
  BY <1>1, <1>2, <1>6 DEF Same, ConnTypes
<1>9. toClient'[c] = t /\ conn'[c] = "broken" /\ c \in hit'
  BY <1>1, <1>2, <1>6 DEF ConnTypes
<1>10. ChildGood(c)'
  BY <1>1, <1>2, <1>9 DEF Good, ChildGood, Alive
<1>11. ClientGood(c)'
  BY <1>1, <1>2, <1>4, <1>5, <1>9 DEF Good, ClientGood
<1> QED
  BY <1>7, <1>8, <1>10, <1>11, StepOfOne DEF Good

LEMMA KillClientKeeps ==
  ASSUME IInv, NEW c \in Clients, KillClient(c)
  PROVE  IInv'
<1>1. /\ ConnTypes /\ FileTypes /\ ChildTypes /\ ClientTypes /\ hit \subseteq Clients /\ Good(c)
  BY DEF IInv, Types
<1>2. /\ hit' = hit \cup {c} /\ pc' = [pc EXCEPT ![c] = "killed"]
      /\ UNCHANGED <<conn, toServer, toClient, file, limits, serverUp, accepted, child, held, want,
                     length, body, request, count, contentLength>>
  BY DEF KillClient, OneFault, connVars, serverVars
<1>3. Types'
  BY <1>1, <1>2 DEF Types, ConnTypes, FileTypes, ChildTypes, ClientTypes
<1>4. \A d \in Clients \ {c} : Same(d)
  BY <1>1, <1>2 DEF Same, ClientTypes
<1>5. pc'[c] = "killed" /\ c \in hit'
  BY <1>1, <1>2 DEF ClientTypes
<1>6. ChildGood(c)'
  BY <1>1, <1>2, <1>5 DEF Good, ChildGood, Alive
<1>7. ClientGood(c)'
  BY <1>5 DEF ClientGood
<1> QED
  BY <1>3, <1>4, <1>6, <1>7, StepOfOne DEF Good

LEMMA NextIInv == IInv /\ [Next]_vars => IInv'
<1> SUFFICES ASSUME IInv, [Next]_vars PROVE IInv'
  OBVIOUS
<1>1. CASE \E c \in Clients : Client(c) \/ Child(c)
  BY <1>1, ClientKeeps, ChildKeeps
<1>2. CASE Server
  BY <1>2, AcceptKeeps, AcceptFailsKeeps DEF Server
<1>3. CASE ChangeFile
  BY <1>3, ChangeFileKeeps
<1>4. CASE Fault
  BY <1>4, BreakKeeps, KillChildKeeps, KillClientKeeps, NoMemoryKeeps DEF Fault
<1>5. CASE UNCHANGED vars
  <2>1. UNCHANGED <<conn, toServer, toClient, file, limits, serverUp, accepted, child, held, want,
                    length, body, request, pc, count, contentLength, hit>>
    BY <1>5 DEF vars, connVars, serverVars, clientVars
  <2>2. Types'
    BY <2>1 DEF IInv, Types, ConnTypes, FileTypes, ChildTypes, ClientTypes
  <2>3. \A d \in Clients : Same(d)
    BY <2>1 DEF Same
  <2> QED
    BY <2>2, <2>3, StepOfNone
<1> QED
  BY <1>1, <1>2, <1>3, <1>4, <1>5 DEF Next

LEMMA Invariance == Spec => []IInv
BY InitIInv, NextIInv, PTL DEF Spec

-----------------------------------------------------------------------------
LEMMA TypesAreOK == IInv => TypeOK
<1> SUFFICES ASSUME IInv PROVE TypeOK
  OBVIOUS
<1>1. ConnTypes /\ FileTypes /\ ChildTypes /\ ClientTypes /\ hit \subseteq Clients
  BY DEF IInv, Types
<1>2. \A c \in Clients : /\ toServer[c] \in Seq(Requests)
                         /\ \A i \in DOMAIN toClient[c] :
                              toClient[c][i].type \in {"status", "length", "blank", "byte"}
  <2> SUFFICES ASSUME NEW c \in Clients
               PROVE  /\ toServer[c] \in Seq(Requests)
                      /\ \A i \in DOMAIN toClient[c] :
                           toClient[c][i].type \in {"status", "length", "blank", "byte"}
    OBVIOUS
  <2>1. toServer[c] \in Seq(Requests) /\ toClient[c] \in Seq(Items)
    BY <1>1 DEF ConnTypes
  <2>2. \A i \in DOMAIN toClient[c] : toClient[c][i] \in Items
    BY <2>1
  <2> QED
    BY <2>1, <2>2 DEF Items
<1> QED
  BY <1>1, <1>2 DEF TypeOK, ConnTypes, FileTypes, ChildTypes, ClientTypes

LEMMA GoodIsFramed == IInv => Framed
<1> SUFFICES ASSUME IInv, NEW c \in Clients
             PROVE  /\ pc[c] = "header" /\ toClient[c] # <<>> =>
                         Head(toClient[c]).type = <<"status", "length", "blank">>[count[c] + 1]
                    /\ pc[c] = "content" =>
                         \A i \in DOMAIN toClient[c] : toClient[c][i].type = "byte"
  BY DEF Framed
<1>1. toClient[c] \in Seq(Items) /\ count[c] \in 0 .. 2 /\ ClientGood(c)
  BY DEF IInv, Types, ConnTypes, ClientTypes, Good
<1>2. ASSUME pc[c] = "header", toClient[c] # <<>>
      PROVE  Head(toClient[c]).type = <<"status", "length", "blank">>[count[c] + 1]
  <2>1. Len(toClient[c]) >= 1 /\ Head(toClient[c]) = toClient[c][1]
    BY <1>1, <1>2, TakeFirst
  <2>2. CASE Regular(toClient[c], count[c])
    <3>1. toClient[c][1].type = Expected(count[c] + 1)
      BY <1>1, <2>1, <2>2 DEF Regular
    <3> QED
      BY <1>1, <2>1, <3>1 DEF Expected
  <2>3. CASE ErrorAnswer(toClient[c], count[c])
    BY <2>1, <2>3 DEF ErrorAnswer
  <2> QED
    BY <1>1, <1>2, <2>2, <2>3 DEF ClientGood
<1>3. ASSUME pc[c] = "content"
      PROVE  \A i \in DOMAIN toClient[c] : toClient[c][i].type = "byte"
  BY <1>1, <1>3 DEF ClientGood, AllBytes
<1> QED
  BY <1>2, <1>3

(* The variables keep their types, whatever breaks and whatever changes:
   the client's third header line never comes.                            *)
THEOREM TypesHold == Spec => []TypeOK
BY Invariance, TypesAreOK, PTL

(* recv_line() never gives the client one part of an answer for another, nor
   recv_stream() a part of the header, whatever was cut off or changed.   *)
THEOREM AnswersAreFramed == Spec => []Framed
BY Invariance, GoodIsFramed, PTL

(* The client's strchr() finds the blank and the colon it looks for, unless
   its own answer was spoilt or the server has exited.                    *)
THEOREM ClientsDoNotCrash == Spec => []NoCrash
<1>1. IInv => NoCrash
  BY DEF IInv, Good, ClientGood, NoCrash
<1> QED
  BY Invariance, <1>1, PTL

-----------------------------------------------------------------------------
(* The whole file: what the client has, what is under way and what the child
   has still to send are together what get_file_size() found.              *)

AllFile(s) == \A i \in 1 .. Len(s) : s[i] = FileByte

Unsent(c) ==
  IF child[c] = "read" THEN length[c] ELSE IF child[c] = "body" THEN Len(body[c]) ELSE 0

Answering(c) == child[c] \in {"read", "body", "shutdown", "over"}

(* A regular answer that the client is reading the header of. *)
WholeHeader(c) ==
  LET s == toClient[c] IN
  /\ \A i \in 1 .. Len(s) : /\ s[i].type = "length" => s[i].value = length[c]
                            /\ s[i].type = "byte" => s[i] = FileByte
  /\ count[c] = 2 => contentLength[c] = length[c]
  /\ Len(s) + count[c] + Unsent(c) = length[c] + 3

WholeContent(c) ==
  /\ contentLength[c] = length[c]
  /\ AllFile(toClient[c]) /\ AllFile(content[c])
  /\ Len(content[c]) + Len(toClient[c]) + Unsent(c) = length[c]
  /\ contentLength[c] < Block => content[c] = <<>>

WholeEnd(c) ==
  /\ contentLength[c] = length[c]
  /\ Len(content[c]) = length[c] /\ AllFile(content[c])

Whole(c) ==
  /\ child[c] = "body" => AllFile(body[c])
  /\ pc[c] \in {"connect", "send", "header"} => content[c] = <<>>
  /\ pc[c] = "header" /\ Answering(c) /\ Regular(toClient[c], count[c]) => WholeHeader(c)
  /\ pc[c] = "content" => WholeContent(c)
  /\ pc[c] = "done" => Answering(c) /\ WholeEnd(c)

Contents == content \in [Clients -> Seq(Items)]

WInv == IInv /\ Contents /\ \A c \in Clients \ hit : Whole(c)

LEMMA InitWInv == Init => WInv
<1> SUFFICES ASSUME Init PROVE WInv
  OBVIOUS
<1>1. /\ pc = [c \in Clients |-> "connect"] /\ child = [c \in Clients |-> "none"]
      /\ content = [c \in Clients |-> <<>>]
  BY DEF Init, ServerInit, ClientInit
<1>2. Contents
  BY <1>1 DEF Contents
<1>3. \A c \in Clients : Whole(c)
  BY <1>1 DEF Whole
<1> QED
  BY <1>2, <1>3, InitIInv DEF WInv

(* What is known of a client that nothing has hit. *)
LEMMA Unhit ==
  ASSUME WInv, NEW c \in Clients, c \notin hit
  PROVE  /\ Whole(c) /\ Contents /\ content[c] \in Seq(Items)
         /\ conn[c] # "broken"
         /\ toClient[c] \in Seq(Items) /\ count[c] \in 0 .. 2
         /\ length[c] \in Nat /\ contentLength[c] \in Nat /\ body[c] \in Seq(Bytes)
         /\ child[c] \in {"none", "recv", "size", "status", "prefix", "read", "body",
                          "bad", "missing", "shutdown", "over"}
         /\ ChildGood(c)
         /\ pc[c] = "header" => InStep(c)
         /\ pc[c] \in {"content", "done"} => Answering(c)
         /\ pc[c] \in {"connect", "send"} => child[c] \in {"none", "recv"}
<1>1. ConnTypes /\ ChildTypes /\ ClientTypes /\ Good(c) /\ Contents /\ Whole(c)
  BY DEF WInv, IInv, Types
<1>2. toClient[c] \in Seq(Items) /\ count[c] \in 0 .. 2 /\ content[c] \in Seq(Items)
  BY <1>1 DEF ConnTypes, ClientTypes, Contents
<1>3. /\ length[c] \in Nat /\ contentLength[c] \in Nat /\ body[c] \in Seq(Bytes)
      /\ child[c] \in {"none", "recv", "size", "status", "prefix", "read", "body",
                       "bad", "missing", "shutdown", "over"}
  BY <1>1 DEF ChildTypes, ClientTypes
<1>4. conn[c] # "broken"
  BY <1>1 DEF Good, ChildGood
<1>5. /\ pc[c] = "header" => InStep(c)
      /\ pc[c] \in {"content", "done"} => Answering(c)
      /\ pc[c] \in {"connect", "send"} => child[c] \in {"none", "recv"}
  BY <1>1, <1>4 DEF Good, ClientGood, Whole, Answering
<1> QED
  BY <1>1, <1>2, <1>3, <1>4, <1>5 DEF Good

(* A step that is another's. *)
WSame(d) ==
  /\ toClient'[d] = toClient[d] /\ child'[d] = child[d]
  /\ length'[d] = length[d] /\ body'[d] = body[d]
  /\ pc'[d] = pc[d] /\ count'[d] = count[d]
  /\ contentLength'[d] = contentLength[d] /\ content'[d] = content[d]

LEMMA WSameKeeps ==
  ASSUME NEW d \in Clients, Whole(d), WSame(d)
  PROVE  Whole(d)'
<1>1. /\ Regular(toClient'[d], count'[d]) = Regular(toClient[d], count[d])
      /\ AllFile(toClient'[d]) = AllFile(toClient[d])
      /\ AllFile(content'[d]) = AllFile(content[d])
      /\ AllFile(body'[d]) = AllFile(body[d])
      /\ Unsent(d)' = Unsent(d)
      /\ Answering(d)' = Answering(d)
  BY DEF WSame, Unsent, Answering
<1>2. WholeHeader(d) => WholeHeader(d)'
  BY <1>1 DEF WSame, WholeHeader
<1>3. WholeContent(d) => WholeContent(d)'
  BY <1>1 DEF WSame, WholeContent
<1>4. WholeEnd(d) => WholeEnd(d)'
  BY <1>1 DEF WSame, WholeEnd
<1> QED
  BY <1>1, <1>2, <1>3, <1>4 DEF WSame, Whole

LEMMA WStepOfOne ==
  ASSUME WInv, IInv', Contents', NEW c \in Clients, hit \subseteq hit',
         c \notin hit' => Whole(c)', \A d \in Clients \ {c} : WSame(d)
  PROVE  WInv'
<1>1. \A d \in Clients \ hit' : Whole(d)'
  BY WSameKeeps DEF WInv
<1> QED
  BY <1>1 DEF WInv

LEMMA WStepOfNone ==
  ASSUME WInv, IInv', Contents', hit \subseteq hit', \A d \in Clients : WSame(d)
  PROVE  WInv'
<1>1. \A d \in Clients \ hit' : Whole(d)'
  BY WSameKeeps DEF WInv
<1> QED
  BY <1>1 DEF WInv

LEMMA Concatenation ==
  ASSUME NEW s \in Seq(Items), NEW t \in Seq(Items)
  PROVE  /\ s \o t \in Seq(Items) /\ Len(s \o t) = Len(s) + Len(t)
         /\ Len(s) \in Nat /\ Len(t) \in Nat
         /\ \A i \in 1 .. Len(s) : (s \o t)[i] = s[i]
         /\ \A i \in 1 .. Len(s \o t) :
              i \notin 1 .. Len(s) => i - Len(s) \in 1 .. Len(t) /\ (s \o t)[i] = t[i - Len(s)]
OBVIOUS

(* As long as the child has not sent the header there is nothing to compare. *)
LEMMA BeforeTheAnswer ==
  ASSUME WInv, NEW c \in Clients, c \notin hit, ~Answering(c), ~Answering(c)',
         pc'[c] = pc[c], content'[c] = content[c]
  PROVE  Whole(c)'
<1>1. Whole(c) /\ pc[c] \notin {"content", "done"}
  BY Unhit
<1> QED
  BY <1>1 DEF Whole, Answering

LEMMA ReadFileWhole ==
  ASSUME WInv, NEW c \in Clients, c \notin hit', Child(c), ReadFile(c)
  PROVE  Whole(c)'
<1>1. child[c] = "read" /\ ChildTypes
  BY DEF ReadFile, GoesOn, WInv, IInv, Types
<1>2. c \notin hit /\ ~Shrunk(c)
  BY <1>1 DEF Child, WInv, IInv, Types
<1>3. /\ Whole(c) /\ length[c] \in Nat
  BY <1>2, Unhit
<1>4. PICK junk \in 0 .. length[c] :
        /\ length[c] + junk <= length[c]
        /\ body' = [body EXCEPT ![c] = Repeat(FileByte, length[c]) \o Repeat(JunkByte, junk)]
  BY <1>2 DEF ReadFile
<1>5. Repeat(FileByte, length[c]) \o Repeat(JunkByte, junk) = Repeat(FileByte, length[c])
  <2>1. junk = 0
    BY <1>3, <1>4
  <2>2. Repeat(JunkByte, junk) = <<>>
    BY <2>1 DEF Repeat
  <2>3. Repeat(FileByte, length[c]) \in Seq({FileByte})
    BY <1>3 DEF Repeat
  <2> QED
    BY <2>2, <2>3
<1>6. body'[c] = Repeat(FileByte, length[c])
  BY <1>1, <1>4, <1>5 DEF ChildTypes
<1>7. Len(body'[c]) = length[c] /\ AllFile(body'[c])
  BY <1>3, <1>6 DEF Repeat, AllFile
<1>8. /\ child'[c] = "body"
      /\ UNCHANGED <<toClient, pc, count, contentLength, content, length>>
  BY <1>1 DEF ReadFile, GoesOn, Child, connVars, clientVars, ChildTypes
<1>9. Unsent(c)' = Unsent(c)
  BY <1>1, <1>7, <1>8 DEF Unsent
<1>10. Answering(c) /\ Answering(c)'
  BY <1>1, <1>8 DEF Answering
<1>11. WholeHeader(c) => WholeHeader(c)'
  BY <1>8, <1>9 DEF WholeHeader
<1>12. WholeContent(c) => WholeContent(c)'
  BY <1>8, <1>9 DEF WholeContent, AllFile
<1>13. /\ WholeEnd(c)' = WholeEnd(c)
       /\ Regular(toClient'[c], count'[c]) = Regular(toClient[c], count[c])
  BY <1>8 DEF WholeEnd, AllFile
<1> QED
  BY <1>3, <1>7, <1>8, <1>10, <1>11, <1>12, <1>13 DEF Whole

LEMMA SendPrefixWhole ==
  ASSUME WInv, NEW c \in Clients, c \notin hit, SendPrefix(c), UNCHANGED clientVars
  PROVE  Whole(c)'
<1> DEFINE s == toClient[c]
           n == count[c]
           t == <<Length(length[c]), Blank>>
<1>1. ConnTypes /\ ChildTypes
  BY DEF WInv, IInv, Types
<1>2. /\ child[c] = "prefix" /\ child'[c] = "read" /\ toClient'[c] = s \o t
      /\ UNCHANGED <<pc, count, contentLength, content, length>>
  BY <1>1 DEF SendPrefix, GoesOn, Send, clientVars, ConnTypes, ChildTypes
<1>3. /\ Whole(c) /\ s \in Seq(Items) /\ n \in 0 .. 2 /\ length[c] \in Nat
      /\ pc[c] = "header" => InStep(c)
      /\ pc[c] \notin {"content", "done"}
  BY <1>2, Unhit DEF Answering
<1>4. ASSUME pc[c] = "header" PROVE WholeHeader(c)'
  <2>1. Len(s) + n = 1 /\ Regular(s, n)
    BY <1>2, <1>3, <1>4 DEF InStep
  <2>2. /\ Len(t) = 2 /\ t[1] = Length(length[c]) /\ t[2] = Blank /\ t \in Seq(Items)
        /\ t[1].value = length[c] /\ t[1].type = "length" /\ t[2].type = "blank"
    BY <1>3, ItemTypes DEF Length
  <2>3. \A i \in 1 .. Len(s) : s[i].type = "status"
    <3>1. \A i \in 1 .. Len(s) : n + i = 1
      BY <1>3, <2>1
    <3> QED
      BY <2>1, <3>1 DEF Regular, Expected
  <2> HIDE DEF s, n, t
  <2>4. Len(s \o t) = Len(s) + 2
    BY <1>3, <2>2, Concatenation, ZenonT(40)
  <2>5. \A i \in 1 .. Len(s \o t) :
          \/ i \in 1 .. Len(s) /\ (s \o t)[i] = s[i]
          \/ (s \o t)[i] = t[1] \/ (s \o t)[i] = t[2]
    <3> SUFFICES ASSUME NEW i \in 1 .. Len(s \o t), i \notin 1 .. Len(s)
                 PROVE  (s \o t)[i] = t[1] \/ (s \o t)[i] = t[2]
      BY <1>3, <2>2, Concatenation
    <3>1. (s \o t)[i] = t[i - Len(s)] /\ i - Len(s) \in 1 .. 2
      BY <1>3, <2>2, <2>4, Concatenation
    <3> QED
      BY <3>1
  <2>6. Len(s \o t) + n + length[c] = length[c] + 3 /\ n # 2
    BY <1>3, <2>1, <2>4
  <2>7. \A i \in 1 .. Len(s \o t) : /\ (s \o t)[i].type = "length" => (s \o t)[i].value = length[c]
                                    /\ (s \o t)[i].type # "byte"
    BY <2>2, <2>3, <2>5
  <2>8. /\ toClient'[c] = s \o t /\ count'[c] = n /\ length'[c] = length[c]
        /\ Unsent(c)' = length[c] /\ contentLength'[c] = contentLength[c]
    BY <1>2 DEF Unsent, s, n, t
  <2> QED
    BY <2>6, <2>7, <2>8 DEF WholeHeader
<1> QED
  BY <1>2, <1>3, <1>4 DEF Whole

LEMMA SendBodyWhole ==
  ASSUME WInv, NEW c \in Clients, c \notin hit, SendBody(c), UNCHANGED clientVars
  PROVE  Whole(c)'
<1> DEFINE s == toClient[c]
           b == body[c]
<1>1. ConnTypes /\ ChildTypes
  BY DEF WInv, IInv, Types
<1>2. PICK k \in 0 .. Len(b) :
        /\ GoesOn(c, "body", IF k = Len(b) THEN "shutdown" ELSE "body")
        /\ Send(c, SubSeq(b, 1, k))
        /\ body' = [body EXCEPT ![c] = SubSeq(@, k + 1, Len(@))]
        /\ UNCHANGED <<want, length>>
  BY DEF SendBody
<1> DEFINE t == SubSeq(b, 1, k)
           r == SubSeq(b, k + 1, Len(b))
<1>3. /\ child[c] = "body" /\ child'[c] = (IF k = Len(b) THEN "shutdown" ELSE "body")
      /\ toClient'[c] = s \o t /\ body'[c] = r
      /\ UNCHANGED <<pc, count, contentLength, content, length>>
  BY <1>1, <1>2 DEF GoesOn, Send, clientVars, ConnTypes, ChildTypes
<1>4. /\ Whole(c) /\ s \in Seq(Items) /\ count[c] \in 0 .. 2 /\ length[c] \in Nat
      /\ b \in Seq(Bytes) /\ content[c] \in Seq(Items)
      /\ pc[c] = "header" => InStep(c)
  BY Unhit
<1>5. AllFile(b)
  BY <1>3, <1>4 DEF Whole
<1>6. /\ t \in Seq(Bytes) /\ Len(t) = k /\ AllFile(t)
      /\ r \in Seq(Bytes) /\ Len(r) = Len(b) - k /\ AllFile(r)
  <2>1. t \in Seq(Bytes) /\ Len(t) = k /\ \A i \in 1 .. k : t[i] = b[i] /\ i \in 1 .. Len(b)
    BY <1>4
  <2>2. /\ r \in Seq(Bytes) /\ Len(r) = Len(b) - k
        /\ \A i \in 1 .. Len(r) : r[i] = b[i + k] /\ i + k \in 1 .. Len(b)
    BY <1>4
  <2> HIDE DEF t, r, b
  <2> QED
    BY <1>5, <2>1, <2>2 DEF AllFile
<1> HIDE DEF t, r
<1>7. Unsent(c) = Len(b) /\ Unsent(c)' = Len(b) - k /\ Len(b) \in Nat
  <2>1. Unsent(c) = Len(b)
    BY <1>3 DEF Unsent
  <2>2. Len(b) \in Nat
    BY <1>4
  <2>3. Unsent(c)' = IF k = Len(b) THEN 0 ELSE Len(r)
    BY <1>3 DEF Unsent
  <2> HIDE DEF b
  <2> QED
    BY <1>6, <2>1, <2>2, <2>3
<1>8. Answering(c) /\ Answering(c)'
  BY <1>3 DEF Answering
<1>9. /\ Len(s \o t) = Len(s) + k /\ Len(s) \in Nat /\ s \o t \in Seq(Items)
      /\ \A i \in 1 .. Len(s) : (s \o t)[i] = s[i]
      /\ \A i \in 1 .. Len(s \o t) : i \notin 1 .. Len(s) => (s \o t)[i] = FileByte
  <2>1. t \in Seq(Items)
    BY <1>6, ItemTypes
  <2> HIDE DEF s, b
  <2>2. Len(s \o t) = Len(s) + k /\ Len(s) \in Nat /\ s \o t \in Seq(Items)
    BY <1>4, <1>6, <2>1, Concatenation
  <2>3. \A i \in 1 .. Len(s) : (s \o t)[i] = s[i]
    BY <1>4, <2>1, Concatenation
  <2>4. ASSUME NEW i \in 1 .. Len(s \o t), i \notin 1 .. Len(s) PROVE (s \o t)[i] = FileByte
    <3>1. (s \o t)[i] = t[i - Len(s)] /\ i - Len(s) \in 1 .. Len(t)
      BY <1>4, <2>1, <2>4, Concatenation
    <3> QED
      BY <1>6, <3>1 DEF AllFile
  <2> QED
    BY <2>2, <2>3, <2>4
<1>10. ASSUME pc[c] = "header" PROVE WholeHeader(c)'
  <2>1. WholeHeader(c)
    BY <1>3, <1>4, <1>8, <1>10 DEF Whole, InStep
  <2>2. FileByte.type # "length"
    BY DEF FileByte
  <2>3. \A i \in 1 .. Len(s \o t) : /\ (s \o t)[i].type = "length" => (s \o t)[i].value = length[c]
                                    /\ (s \o t)[i].type = "byte" => (s \o t)[i] = FileByte
    BY <1>9, <2>1, <2>2 DEF WholeHeader
  <2>4. Len(s \o t) + count[c] + (Len(b) - k) = length[c] + 3
    BY <1>4, <1>7, <1>9, <2>1 DEF WholeHeader
  <2> QED
    BY <1>3, <1>7, <2>1, <2>3, <2>4 DEF WholeHeader
<1>11. ASSUME pc[c] = "content" PROVE WholeContent(c)'
  <2>1. WholeContent(c)
    BY <1>4, <1>11 DEF Whole
  <2>2. AllFile(s \o t)
    BY <1>9, <2>1 DEF WholeContent, AllFile
  <2>3. Len(content[c]) + Len(s \o t) + (Len(b) - k) = length[c]
    <3>1. Len(content[c]) + Len(s) + Len(b) = length[c]
      BY <1>7, <2>1 DEF WholeContent
    <3>2. Len(content[c]) \in Nat
      BY <1>4
    <3>3. k \in Nat /\ Len(s \o t) = Len(s) + k /\ Len(s) \in Nat /\ Len(b) \in Nat
      BY <1>7, <1>9
    <3> HIDE DEF s, b
    <3>4. PICK x \in Nat, y \in Nat, z \in Nat :
            x = Len(content[c]) /\ y = Len(s) /\ z = Len(b)
      BY <3>2, <3>3
    <3>5. x + y + z = length[c] /\ Len(s \o t) = y + k
      BY <3>1, <3>3, <3>4
    <3>6. x + (y + k) + (z - k) = x + y + z
      BY <3>3
    <3> QED
      BY <3>4, <3>5, <3>6
  <2> QED
    BY <1>3, <1>7, <2>1, <2>2, <2>3 DEF WholeContent
<1>12. WholeEnd(c) => WholeEnd(c)'
  BY <1>3 DEF WholeEnd
<1> QED
  BY <1>3, <1>4, <1>6, <1>8, <1>10, <1>11, <1>12 DEF Whole

LEMMA ErrorWhole ==
  ASSUME WInv, NEW c \in Clients, c \notin hit, NEW from \in {"bad", "missing"}, NEW e \in {400, 404},
         SendError(c, from, e), UNCHANGED clientVars
  PROVE  Whole(c)'
<1>1. ConnTypes /\ ChildTypes
  BY DEF WInv, IInv, Types
<1>2. /\ child[c] = from /\ child'[c] = "shutdown"
      /\ toClient'[c] = toClient[c] \o <<Status(e), Blank>>
      /\ UNCHANGED <<pc, count, content>>
  BY <1>1 DEF SendError, GoesOn, Send, clientVars, ConnTypes, ChildTypes
<1>3. /\ Whole(c) /\ toClient[c] \in Seq(Items)
      /\ pc[c] = "header" => InStep(c)
      /\ pc[c] \notin {"content", "done"}
  BY <1>2, Unhit DEF Answering
<1>4. ASSUME pc[c] = "header" PROVE ~Regular(toClient'[c], count'[c])
  <2>1. toClient[c] = <<>> /\ count[c] = 0
    BY <1>2, <1>3, <1>4 DEF InStep
  <2>2. toClient'[c] = <<Status(e), Blank>>
    BY <1>2, <2>1
  <2>3. Len(toClient'[c]) = 2 /\ toClient'[c][1].type = "status" /\ toClient'[c][1].value = e
    BY <2>2, ItemTypes
  <2> QED
    BY <2>3 DEF Regular
<1> QED
  BY <1>2, <1>3, <1>4 DEF Whole

(* When sending fails the client is gone, and what it has it has. *)
LEMMA FailureWhole ==
  ASSUME WInv, NEW c \in Clients, c \notin hit, SendFails(c, Gone(c)), UNCHANGED clientVars
  PROVE  Whole(c)'
<1>1. ChildTypes
  BY DEF WInv, IInv, Types
<1>3. Gone(c)
  BY Unhit DEF SendFails
<1>4. /\ child[c] \in {"status", "prefix", "body", "bad", "missing"} /\ child'[c] = "over"
      /\ UNCHANGED <<pc, contentLength, content, length>>
  BY <1>1 DEF SendFails, GoesOn, clientVars, ChildTypes
<1>5. pc[c] \notin {"connect", "send", "header", "content"}
  BY <1>3 DEF Gone, Ends
<1>6. Answering(c)' /\ WholeEnd(c)' = WholeEnd(c)
  BY <1>4 DEF Answering, WholeEnd, AllFile
<1> QED
  BY <1>4, <1>5, <1>6, Unhit DEF Whole

LEMMA ShutdownWhole ==
  ASSUME WInv, NEW c \in Clients, c \notin hit, Shutdown(c), UNCHANGED clientVars
  PROVE  Whole(c)'
<1>1. ChildTypes
  BY DEF WInv, IInv, Types
<1>2. /\ child[c] = "shutdown" /\ child'[c] = "over"
      /\ UNCHANGED <<toClient, pc, count, contentLength, content, length>>
  BY <1>1 DEF Shutdown, GoesOn, clientVars, ChildTypes
<1>3. /\ Unsent(c)' = Unsent(c) /\ Answering(c) /\ Answering(c)'
      /\ Regular(toClient'[c], count'[c]) = Regular(toClient[c], count[c])
  BY <1>2 DEF Unsent, Answering
<1>4. WholeHeader(c) => WholeHeader(c)'
  BY <1>2, <1>3 DEF WholeHeader
<1>5. WholeContent(c) => WholeContent(c)'
  BY <1>2, <1>3 DEF WholeContent, AllFile
<1>6. WholeEnd(c)' = WholeEnd(c)
  BY <1>2 DEF WholeEnd, AllFile
<1>7. Whole(c)
  BY Unhit
<1> QED
  BY <1>2, <1>3, <1>4, <1>5, <1>6, <1>7 DEF Whole

LEMMA ChildWhole ==
  ASSUME WInv, NEW c \in Clients, Child(c)
  PROVE  WInv'
<1>1. IInv'
  BY ChildKeeps DEF WInv
<1>2. UNCHANGED clientVars /\ hit \subseteq hit'
  BY DEF Child
<1>3. Contents'
  BY <1>2 DEF WInv, Contents, clientVars
<1>4. ConnTypes /\ ChildTypes
  BY DEF WInv, IInv, Types
<1>5. \A d \in Clients \ {c} : WSame(d)
  <2> SUFFICES ASSUME NEW d \in Clients, d # c PROVE WSame(d)
    OBVIOUS
  <2>1. UNCHANGED <<pc, count, contentLength, content>>
    BY <1>2 DEF clientVars
  <2>2. child'[d] = child[d]
    BY <1>4 DEF Child, HandleConnection, RecvRequest, GetFileSize, SendStatus, SendPrefix, ReadFile,
                SendBody, SendError, SendFails, Shutdown, GoesOn, ChildTypes
  <2>3. toClient'[d] = toClient[d]
    BY <1>4 DEF Child, HandleConnection, RecvRequest, GetFileSize, SendStatus, SendPrefix, ReadFile,
                SendBody, SendError, SendFails, Shutdown, Send, connVars, ConnTypes
  <2>4. length'[d] = length[d]
    BY <1>4 DEF Child, HandleConnection, RecvRequest, GetFileSize, SendStatus, SendPrefix, ReadFile,
                SendBody, SendError, SendFails, Shutdown, ChildTypes
  <2>5. body'[d] = body[d]
    BY <1>4 DEF Child, HandleConnection, RecvRequest, GetFileSize, SendStatus, SendPrefix, ReadFile,
                SendBody, SendError, SendFails, Shutdown, ChildTypes
  <2> QED
    BY <2>1, <2>2, <2>3, <2>4, <2>5 DEF WSame
<1>6. ASSUME c \notin hit' PROVE Whole(c)'
  <2>1. c \notin hit
    BY <1>2, <1>6
  <2>2. CASE RecvRequest(c, Gone(c)) \/ GetFileSize(c) \/ SendStatus(c)
    <3>1. /\ child[c] \in {"recv", "size", "status"}
          /\ child'[c] \in {"bad", "size", "missing", "status", "prefix"}
      BY <1>4, <2>2 DEF RecvRequest, GetFileSize, SendStatus, GoesOn, ChildTypes
    <3>2. pc'[c] = pc[c] /\ content'[c] = content[c]
      BY <1>2 DEF clientVars
    <3> QED
      BY <2>1, <3>1, <3>2, BeforeTheAnswer DEF Answering
  <2>3. CASE SendPrefix(c)
    BY <1>2, <2>1, <2>3, SendPrefixWhole
  <2>4. CASE ReadFile(c)
    BY <1>6, <2>4, ReadFileWhole
  <2>5. CASE SendBody(c)
    BY <1>2, <2>1, <2>5, SendBodyWhole
  <2>6. CASE SendError(c, "bad", 400) \/ SendError(c, "missing", 404)
    BY <1>2, <2>1, <2>6, ErrorWhole
  <2>7. CASE SendFails(c, Gone(c))
    BY <1>2, <2>1, <2>7, FailureWhole
  <2>8. CASE Shutdown(c)
    BY <1>2, <2>1, <2>8, ShutdownWhole
  <2> QED
    BY <2>2, <2>3, <2>4, <2>5, <2>6, <2>7, <2>8 DEF Child, HandleConnection
<1> QED
  BY <1>1, <1>2, <1>3, <1>5, <1>6, WStepOfOne

(* The client's part *)

LEMMA EndOfHeaderWhole ==
  ASSUME WInv, NEW c \in Clients, c \notin hit, EndOfHeader(c), UNCHANGED serverVars
  PROVE  Whole(c)'
<1> DEFINE s == toClient[c]
           r == SubSeq(s, 2, Len(s))
<1>1. /\ Whole(c) /\ s \in Seq(Items) /\ length[c] \in Nat /\ content[c] = <<>>
      /\ pc[c] = "header" /\ InStep(c)
      /\ child[c] \in {"none", "recv", "size", "status", "prefix", "read", "body",
                       "bad", "missing", "shutdown", "over"}
  <2>1. pc[c] = "header"
    BY DEF EndOfHeader, Continues
  <2> QED
    BY <2>1, Unhit DEF Whole
<1>2. s # <<>> /\ count[c] = 2 /\ Regular(s, 2)
  BY BlankIsRead DEF EndOfHeader, WInv
<1>3. Len(s) >= 1 /\ Len(s) \in Nat
  BY <1>1, <1>2
<1>4. Answering(c)
  <2>1. Len(s) + 2 # 1
    BY <1>3
  <2> QED
    BY <1>1, <1>2, <2>1 DEF InStep, Answering
<1>5. WholeHeader(c)
  BY <1>1, <1>2, <1>4 DEF Whole
<1>6. AllFile(r) /\ Len(r) = Len(s) - 1
  <2>1. r \in Seq(Items) /\ Len(r) = Len(s) - 1 /\ \A i \in 1 .. Len(s) - 1 : r[i] = s[i + 1]
    BY <1>1, <1>2, TakeFirst
  <2> HIDE DEF r
  <2>2. ASSUME NEW i \in 1 .. Len(r) PROVE r[i] = FileByte
    <3>1. i + 1 \in 1 .. Len(s) /\ r[i] = s[i + 1]
      BY <1>3, <2>1
    <3>2. s[i + 1].type = Expected(2 + (i + 1))
      BY <1>2, <3>1 DEF Regular
    <3>3. Expected(2 + (i + 1)) = "byte"
      BY DEF Expected
    <3> QED
      BY <1>5, <3>1, <3>2, <3>3 DEF WholeHeader
  <2> QED
    BY <2>1, <2>2 DEF AllFile
<1>7. /\ toClient'[c] = r /\ pc'[c] = "content"
      /\ UNCHANGED <<child, length, body, contentLength, content>>
  BY DEF EndOfHeader, Recv, Continues, serverVars, WInv, IInv, Types, ConnTypes, ClientTypes
<1>8. Unsent(c)' = Unsent(c)
  BY <1>7 DEF Unsent
<1>9. Len(r) + Unsent(c) = length[c]
  <2>1. Unsent(c) \in Nat
    <3>1. length[c] \in Nat /\ Len(body[c]) \in Nat
      BY Unhit
    <3> QED
      BY <3>1 DEF Unsent
  <2> HIDE DEF r
  <2>2. Len(s) + 2 + Unsent(c) = length[c] + 3
    BY <1>2, <1>5 DEF WholeHeader
  <2>3. PICK x \in Nat, y \in Nat, z \in Nat : x = Len(s) /\ y = Unsent(c) /\ z = length[c]
    BY <1>1, <1>3, <2>1
  <2>4. x + 2 + y = z + 3 /\ Len(r) = x - 1
    BY <1>6, <2>2, <2>3
  <2>5. (x - 1) + y = z
    BY <2>4
  <2> QED
    BY <2>3, <2>4, <2>5
<1>10. WholeContent(c)'
  <2>1. AllFile(<<>>) /\ Len(<<>>) = 0
    BY DEF AllFile
  <2>2. contentLength[c] = length[c]
    BY <1>2, <1>5 DEF WholeHeader
  <2>3. Len(content[c]) + Len(r) + Unsent(c) = length[c]
    <3>1. Len(content[c]) = 0 /\ Len(r) \in Nat
      BY <1>1, <1>3, <1>6, <2>1
    <3> HIDE DEF r
    <3>2. 0 + Len(r) = Len(r)
      BY <3>1
    <3> QED
      BY <1>9, <3>1, <3>2
  <2> HIDE DEF r
  <2> QED
    BY <1>1, <1>6, <1>7, <1>8, <2>1, <2>2, <2>3 DEF WholeContent
<1>11. (child[c] = "body" => AllFile(body[c])) /\ AllFile(body'[c]) = AllFile(body[c])
  BY <1>1, <1>7 DEF Whole
<1> QED
  BY <1>7, <1>10, <1>11 DEF Whole

LEMMA HeaderLineWhole ==
  ASSUME WInv, NEW c \in Clients, c \notin hit, HeaderLine(c), UNCHANGED serverVars
  PROVE  Whole(c)'
<1> DEFINE s == toClient[c]
           n == count[c]
           r == SubSeq(s, 2, Len(s))
<1>1. pc[c] = "header" /\ s # <<>> /\ ConnTypes /\ ClientTypes
  BY DEF HeaderLine, Continues, WInv, IInv, Types
<1>2. /\ Whole(c) /\ s \in Seq(Items) /\ length[c] \in Nat /\ content[c] = <<>>
      /\ Len(body[c]) \in Nat
  BY <1>1, Unhit DEF Whole
<1>3. n \in {0, 1}
  BY LineIsRead DEF WInv
<1>4. PICK to \in {"header", "badrequest", "notfound"} :
        /\ Continues(c, "header", to)
        /\ to = "header" => /\ Regular(s, n)
                            /\ n = 1 => s[1].type = "length" /\ contentLength'[c] = s[1].value
  BY LineIsRead DEF WInv
<1>5. /\ toClient'[c] = r /\ pc'[c] = to /\ count'[c] = n + 1
      /\ UNCHANGED <<child, length, body, content>>
  BY <1>1, <1>4 DEF HeaderLine, Recv, Continues, serverVars, ConnTypes, ClientTypes
<1>6. Answering(c)' = Answering(c) /\ Unsent(c)' = Unsent(c) /\ Unsent(c) \in Nat
  BY <1>2, <1>5 DEF Answering, Unsent
<1>7. ASSUME to = "header", Answering(c) PROVE WholeHeader(c)'
  <2>1. WholeHeader(c)
    BY <1>1, <1>2, <1>4, <1>7 DEF Whole
  <2>2. /\ Len(r) = Len(s) - 1 /\ Len(s) \in Nat /\ Len(s) >= 1 /\ r \in Seq(Items)
        /\ \A i \in 1 .. Len(s) - 1 : r[i] = s[i + 1]
    BY <1>1, <1>2, TakeFirst
  <2> HIDE DEF r
  <2>3. \A i \in 1 .. Len(r) : /\ r[i].type = "length" => r[i].value = length[c]
                               /\ r[i].type = "byte" => r[i] = FileByte
    <3> SUFFICES ASSUME NEW i \in 1 .. Len(r)
                 PROVE  /\ r[i].type = "length" => r[i].value = length[c]
                        /\ r[i].type = "byte" => r[i] = FileByte
      OBVIOUS
    <3>1. i + 1 \in 1 .. Len(s) /\ r[i] = s[i + 1]
      BY <2>2
    <3> QED
      BY <2>1, <3>1 DEF WholeHeader
  <2>4. n + 1 = 2 => contentLength'[c] = length[c]
    <3>1. 1 \in 1 .. Len(s)
      BY <2>2
    <3> QED
      BY <1>3, <1>4, <1>7, <2>1, <3>1 DEF WholeHeader
  <2>5. Len(r) + (n + 1) + Unsent(c) = length[c] + 3
    <3>1. Len(s) + n + Unsent(c) = length[c] + 3
      BY <2>1 DEF WholeHeader
    <3>2. PICK x \in Nat, y \in Nat, z \in Nat : x = Len(s) /\ y = Unsent(c) /\ z = length[c]
      BY <1>2, <1>6, <2>2
    <3>3. x + n + y = z + 3 /\ Len(r) = x - 1
      BY <2>2, <3>1, <3>2
    <3>4. n \in Nat
      BY <1>3
    <3> HIDE DEF n
    <3>5. (x - 1) + (n + 1) + y = z + 3
      BY <3>3, <3>4
    <3> QED
      BY <3>2, <3>3, <3>5
  <2> QED
    BY <1>5, <1>6, <2>3, <2>4, <2>5 DEF WholeHeader
<1>8. (child[c] = "body" => AllFile(body[c])) /\ AllFile(body'[c]) = AllFile(body[c])
  BY <1>2, <1>5 DEF Whole
<1> QED
  BY <1>2, <1>4, <1>5, <1>6, <1>7, <1>8 DEF Whole

LEMMA HeaderCutOffWhole ==
  ASSUME WInv, NEW c \in Clients, c \notin hit, HeaderCutOff(c, Ended(c)), UNCHANGED serverVars
  PROVE  Whole(c)'
<1>1. Whole(c) /\ conn[c] # "broken" /\ ClientTypes
  BY Unhit DEF WInv, IInv, Types
<1>2. child[c] = "none"
  BY <1>1, NobodyAnswers DEF WInv
<1>3. /\ pc[c] = "header" /\ pc'[c] \in {"header", "crashed", "badrequest", "notfound"}
      /\ child'[c] = child[c] /\ content'[c] = content[c]
  BY <1>1 DEF HeaderCutOff, Misread, Continues, serverVars, ClientTypes
<1> QED
  BY <1>1, <1>2, <1>3 DEF Whole, Answering

LEMMA TakeWhole ==
  ASSUME WInv, NEW c \in Clients, c \notin hit, NEW k \in Nat, Take(c, k),
         NEW to \in {"content", "done", "failed"}, Continues(c, "content", to), UNCHANGED serverVars,
         to = "content" => ~(contentLength[c] < Block),
         to = "done" => Len(content[c]) + k = contentLength[c]
  PROVE  Whole(c)'
<1> DEFINE s == toClient[c]
           t == content[c]
           taken == SubSeq(s, 1, k)
           r == SubSeq(s, k + 1, Len(s))
<1>1. pc[c] = "content" /\ ConnTypes /\ ClientTypes /\ Contents
  BY DEF Continues, WInv, IInv, Types
<1>2. /\ Whole(c) /\ s \in Seq(Items) /\ t \in Seq(Items)
      /\ length[c] \in Nat /\ Len(body[c]) \in Nat /\ Answering(c)
  BY <1>1, Unhit
<1>3. WholeContent(c)
  BY <1>1, <1>2 DEF Whole
<1>4. k \in 0 .. Len(s) /\ Len(s) \in Nat
  BY <1>2 DEF Take, Recv
<1>5. /\ toClient'[c] = r /\ content'[c] = t \o taken /\ pc'[c] = to
      /\ UNCHANGED <<child, length, body, contentLength>>
  BY <1>1 DEF Take, Recv, Continues, serverVars, ConnTypes, ClientTypes, Contents
<1>6. /\ taken \in Seq(Items) /\ Len(taken) = k /\ AllFile(taken)
      /\ r \in Seq(Items) /\ Len(r) = Len(s) - k /\ AllFile(r)
  <2>1. taken \in Seq(Items) /\ Len(taken) = k /\ \A i \in 1 .. k : taken[i] = s[i] /\ i \in 1 .. Len(s)
    BY <1>2, <1>4
  <2>2. /\ r \in Seq(Items) /\ Len(r) = Len(s) - k
        /\ \A i \in 1 .. Len(r) : r[i] = s[i + k] /\ i + k \in 1 .. Len(s)
    BY <1>2, <1>4
  <2> HIDE DEF taken, r
  <2> QED
    BY <1>3, <2>1, <2>2 DEF WholeContent, AllFile
<1> HIDE DEF taken, r
<1>7. Len(t \o taken) = Len(t) + k /\ Len(t) \in Nat /\ AllFile(t \o taken)
  <2>1. AllFile(t)
    BY <1>3 DEF WholeContent
  <2> HIDE DEF t, s
  <2>2. Len(t \o taken) = Len(t) + k /\ Len(t) \in Nat
    BY <1>2, <1>6, Concatenation
  <2>3. ASSUME NEW i \in 1 .. Len(t \o taken) PROVE (t \o taken)[i] = FileByte
    <3>1. CASE i \in 1 .. Len(t)
      BY <1>2, <1>6, <2>1, <3>1, Concatenation DEF AllFile
    <3>2. CASE i \notin 1 .. Len(t)
      BY <1>2, <1>6, <2>3, <3>2, Concatenation DEF AllFile
    <3> QED
      BY <3>1, <3>2
  <2> QED
    BY <2>2, <2>3 DEF AllFile
<1>8. Answering(c)' /\ Unsent(c)' = Unsent(c) /\ Unsent(c) \in Nat
  BY <1>2, <1>5 DEF Answering, Unsent
<1>9. Len(t \o taken) + Len(r) + Unsent(c) = length[c]
  <2>1. Len(t) + Len(s) + Unsent(c) = length[c]
    BY <1>3 DEF WholeContent
  <2>2. PICK x \in Nat, y \in Nat, z \in Nat : x = Len(t) /\ y = Len(s) /\ z = Unsent(c)
    BY <1>4, <1>7, <1>8
  <2>3. x + y + z = length[c] /\ Len(t \o taken) = x + k /\ Len(r) = y - k
    BY <1>6, <1>7, <2>1, <2>2
  <2>4. (x + k) + (y - k) + z = x + y + z
    OBVIOUS
  <2> QED
    BY <2>2, <2>3, <2>4
<1>10. ASSUME to = "content" PROVE WholeContent(c)'
  BY <1>3, <1>5, <1>6, <1>7, <1>8, <1>9, <1>10 DEF WholeContent
<1>11. ASSUME to = "done" PROVE WholeEnd(c)'
  BY <1>3, <1>5, <1>7, <1>11 DEF WholeContent, WholeEnd
<1>12. (child[c] = "body" => AllFile(body[c])) /\ AllFile(body'[c]) = AllFile(body[c])
  BY <1>2, <1>5 DEF Whole
<1> QED
  BY <1>5, <1>8, <1>10, <1>11, <1>12 DEF Whole

LEMMA MinIsLeast ==
  ASSUME NEW a \in Nat, NEW b \in Nat, a <= b
  PROVE  Min({a, b}) = a
<1> DEFINE I == {a, b}
<1>1. Min(I) = CHOOSE x \in I : \A y \in I : x <= y
  BY DEF Min
<1>2. a \in I /\ \A y \in I : a <= y
  OBVIOUS
<1>3. Min(I) \in I /\ \A y \in I : Min(I) <= y
  BY <1>1, <1>2
<1> QED
  BY <1>3

(* recv() with MSG_WAITALL waits for the whole file, and the end of the stream
   cannot come before it.                                                  *)
LEMMA RecvAllWhole ==
  ASSUME WInv, NEW c \in Clients, c \notin hit, RecvAll(c, Ended(c)), UNCHANGED serverVars
  PROVE  Whole(c)'
<1> DEFINE n == contentLength[c]
           l == Len(toClient[c])
<1>1. pc[c] = "content" /\ n < Block /\ (l >= n \/ Ended(c))
  BY DEF RecvAll, Continues
<1>2. /\ Whole(c) /\ n \in Nat /\ l \in Nat /\ Answering(c) /\ ChildGood(c)
      /\ conn[c] # "broken"
  BY <1>1, Unhit
<1>3. WholeContent(c)
  BY <1>1, <1>2 DEF Whole
<1>4. content[c] = <<>>
  BY <1>1, <1>3 DEF WholeContent
<1>5. l >= n
  <2> SUFFICES ASSUME Ended(c) PROVE l >= n
    BY <1>1
  <2>1. ~Alive(c)
    BY <1>2 DEF ChildGood, Ended
  <2>2. Unsent(c) = 0
    BY <1>2, <2>1 DEF Alive, Answering, Unsent
  <2>3. Len(content[c]) = 0
    BY <1>4
  <2>4. 0 + l + 0 = n
    BY <1>3, <2>2, <2>3 DEF WholeContent
  <2> HIDE DEF l, n
  <2> QED
    BY <1>2, <2>4
<1>6. Min({n, l}) = n
  BY <1>2, <1>5, MinIsLeast
<1>7. Take(c, n)
  BY <1>6 DEF RecvAll
<1>8. PICK to \in {"done", "failed"} : Continues(c, "content", to)
  BY DEF RecvAll
<1>9. Len(content[c]) + n = n
  BY <1>2, <1>4
<1> HIDE DEF n, l
<1> QED
  BY <1>2, <1>7, <1>8, <1>9, TakeWhole DEF n

LEMMA RecvSomeWhole ==
  ASSUME WInv, NEW c \in Clients, c \notin hit, RecvSome(c), UNCHANGED serverVars
  PROVE  Whole(c)'
<1>1. PICK k \in 1 .. Min({Asked(c), Len(toClient[c])}) :
        /\ Take(c, k)
        /\ Continues(c, "content",
             IF Len(content[c]) + k = contentLength[c] THEN "done" ELSE "content")
  BY DEF RecvSome
<1>2. k \in Nat /\ contentLength[c] >= Block /\ contentLength[c] \in Nat /\ Block \in Nat
  BY Unhit, WebClientAssumption DEF RecvSome
<1>3. CASE Len(content[c]) + k = contentLength[c]
  <2>1. Continues(c, "content", "done")
    BY <1>1, <1>3
  <2> QED
    BY <1>1, <1>2, <1>3, <2>1, TakeWhole
<1>4. CASE Len(content[c]) + k # contentLength[c]
  <2>1. Continues(c, "content", "content")
    BY <1>1, <1>4
  <2>2. ~(contentLength[c] < Block)
    BY <1>2
  <2> QED
    BY <1>1, <1>2, <2>1, <2>2, TakeWhole
<1> QED
  BY <1>3, <1>4

(* The first two steps and the last: nothing is received. *)
LEMMA OtherwiseWhole ==
  ASSUME WInv, NEW c \in Clients, c \notin hit,
         Connect(c, serverUp) \/ SendRequest(c) \/ RecvBreaks(c), UNCHANGED serverVars
  PROVE  Whole(c)'
<1>1. /\ Whole(c) /\ ClientTypes
      /\ pc[c] \in {"connect", "send"} => child[c] \in {"none", "recv"}
  BY Unhit DEF WInv, IInv, Types
<1>2. child'[c] = child[c] /\ body'[c] = body[c] /\ content'[c] = content[c]
  BY DEF Connect, SendRequest, RecvBreaks, serverVars
<1>3. \/ pc[c] \in {"connect", "send"} /\ pc'[c] \in {"send", "header", "failed"}
      \/ pc'[c] = "failed"
  BY <1>1 DEF Connect, SendRequest, RecvBreaks, Continues, ClientTypes
<1>4. AllFile(body'[c]) = AllFile(body[c])
  BY <1>2
<1> QED
  BY <1>1, <1>2, <1>3, <1>4 DEF Whole, Answering

LEMMA ClientWhole ==
  ASSUME WInv, NEW c \in Clients, Client(c)
  PROVE  WInv'
<1>1. IInv'
  BY ClientKeeps DEF WInv
<1>2. UNCHANGED serverVars /\ hit' = hit
  BY DEF Client
<1>3. ConnTypes /\ ClientTypes /\ Contents /\ toClient[c] \in Seq(Items) /\ content[c] \in Seq(Items)
  <2>1. ConnTypes /\ ClientTypes /\ Contents
    BY DEF WInv, IInv, Types
  <2> QED
    BY <2>1 DEF ConnTypes, Contents
<1>4. ASSUME NEW k \in Nat, Take(c, k) PROVE Contents'
  <2>1. SubSeq(toClient[c], 1, k) \in Seq(Items)
    BY <1>3, <1>4 DEF Take, Recv
  <2>2. content[c] \o SubSeq(toClient[c], 1, k) \in Seq(Items)
    BY <1>3, <2>1, Concatenation
  <2> QED
    BY <1>3, <1>4, <2>2 DEF Take, Contents
<1>5. Contents'
  <2>1. CASE RecvAll(c, Ended(c))
    <3>1. contentLength[c] \in Nat /\ Len(toClient[c]) \in Nat
      BY <1>3 DEF ClientTypes
    <3>2. Min({contentLength[c], Len(toClient[c])}) \in Nat
      BY <3>1, MinOfTwo
    <3> QED
      BY <1>4, <2>1, <3>2 DEF RecvAll
  <2>2. CASE RecvSome(c)
    BY <1>4, <2>2 DEF RecvSome
  <2>3. CASE UNCHANGED content
    BY <1>3, <2>3 DEF Contents
  <2> QED
    BY <2>1, <2>2, <2>3 DEF Client, ClientStep, Connect, SendRequest, EndOfHeader, HeaderLine,
                            HeaderCutOff, RecvBreaks
<1>6. \A d \in Clients \ {c} : WSame(d)
  <2> SUFFICES ASSUME NEW d \in Clients, d # c PROVE WSame(d)
    OBVIOUS
  <2>1. UNCHANGED <<child, length, body>>
    BY <1>2 DEF serverVars
  <2>2. toClient'[d] = toClient[d]
    BY <1>3 DEF Client, ClientStep, Connect, SendRequest, EndOfHeader, HeaderLine, HeaderCutOff,
                RecvAll, RecvSome, RecvBreaks, Take, Recv, connVars, ConnTypes
  <2>3. pc'[d] = pc[d]
    BY <1>3 DEF Client, ClientStep, Connect, SendRequest, EndOfHeader, HeaderLine, HeaderCutOff,
                RecvAll, RecvSome, RecvBreaks, Continues, ClientTypes
  <2>4. count'[d] = count[d]
    BY <1>3 DEF Client, ClientStep, Connect, SendRequest, EndOfHeader, HeaderLine, HeaderCutOff,
                RecvAll, RecvSome, RecvBreaks, Take, ClientTypes
  <2>5. contentLength'[d] = contentLength[d]
    BY <1>3 DEF Client, ClientStep, Connect, SendRequest, EndOfHeader, HeaderLine, HeaderCutOff,
                RecvAll, RecvSome, RecvBreaks, Take, ClientTypes
  <2>6. content'[d] = content[d]
    BY <1>3 DEF Client, ClientStep, Connect, SendRequest, EndOfHeader, HeaderLine, HeaderCutOff,
                RecvAll, RecvSome, RecvBreaks, Take, Contents
  <2> QED
    BY <2>1, <2>2, <2>3, <2>4, <2>5, <2>6 DEF WSame
<1>7. ASSUME c \notin hit' PROVE Whole(c)'
  <2>1. c \notin hit
    BY <1>2, <1>7
  <2> QED
    BY <1>2, <2>1, EndOfHeaderWhole, HeaderLineWhole, HeaderCutOffWhole, RecvAllWhole, RecvSomeWhole,
       OtherwiseWhole DEF Client, ClientStep
<1> QED
  BY <1>1, <1>2, <1>5, <1>6, <1>7, WStepOfOne

LEMMA AcceptWhole ==
  ASSUME WInv, NEW c \in Clients, Accept(c), UNCHANGED <<clientVars, hit>>
  PROVE  WInv'
<1>1. IInv'
  BY AcceptKeeps DEF WInv
<1>2. ChildTypes /\ Good(c)
  BY DEF WInv, IInv, Types
<1>3. UNCHANGED <<toClient, length, body, pc, count, contentLength, content, hit>>
  BY DEF Accept, connVars, clientVars
<1>4. Contents'
  BY <1>3 DEF WInv, Contents
<1>5. child[c] = "none" /\ child'[c] \in {"none", "recv"}
  BY <1>2 DEF Accept, Good, ChildGood, ChildTypes
<1>6. \A d \in Clients \ {c} : WSame(d)
  BY <1>2, <1>3 DEF Accept, WSame, ChildTypes
<1>7. ASSUME c \notin hit' PROVE Whole(c)'
  BY <1>3, <1>5, <1>7, BeforeTheAnswer DEF Answering
<1> QED
  BY <1>1, <1>3, <1>4, <1>6, <1>7, WStepOfOne

(* Whatever spoils c's answer is noted in hit. *)
LEMMA FaultWhole ==
  ASSUME WInv, NEW c \in Clients, Break(c) \/ KillChild(c) \/ KillClient(c) \/ MallocFails(c)
  PROVE  WInv'
<1>1. IInv'
  BY BreakKeeps, KillChildKeeps, KillClientKeeps, NoMemoryKeeps DEF WInv
<1>2. ConnTypes /\ ChildTypes /\ ClientTypes /\ Contents
  BY DEF WInv, IInv, Types
<1>3. hit' = hit \cup {c}
  BY DEF Break, KillChild, KillClient, MallocFails, OneFault
<1>4. Contents'
  BY <1>2 DEF Break, KillChild, KillClient, MallocFails, clientVars, Contents
<1>5. UNCHANGED <<length, body, count, contentLength, content>>
  BY DEF Break, KillChild, KillClient, MallocFails, NoMemory, GoesOn, connVars, serverVars, clientVars
<1>6. \A d \in Clients \ {c} : WSame(d)
  <2> SUFFICES ASSUME NEW d \in Clients, d # c PROVE WSame(d)
    OBVIOUS
  <2>1. toClient'[d] = toClient[d]
    BY <1>2 DEF Break, KillChild, KillClient, MallocFails, NoMemory, connVars, ConnTypes
  <2>2. child'[d] = child[d]
    BY <1>2 DEF Break, KillChild, KillClient, MallocFails, NoMemory, GoesOn, serverVars, ChildTypes
  <2>3. pc'[d] = pc[d]
    BY <1>2 DEF Break, KillChild, KillClient, MallocFails, clientVars, ClientTypes
  <2> QED
    BY <1>5, <2>1, <2>2, <2>3 DEF WSame
<1> QED
  BY <1>1, <1>3, <1>4, <1>6, WStepOfOne

LEMMA NextWInv == WInv /\ [Next]_vars => WInv'
<1> SUFFICES ASSUME WInv, [Next]_vars PROVE WInv'
  OBVIOUS
<1>1. CASE \E c \in Clients : Client(c) \/ Child(c)
  BY <1>1, ClientWhole, ChildWhole
<1>2. CASE Fault
  BY <1>2, FaultWhole DEF Fault
<1>3. CASE Server /\ ~AcceptFails
  BY <1>3, AcceptWhole DEF Server
<1>4. CASE (AcceptFails /\ Server) \/ ChangeFile \/ UNCHANGED vars
  <2>1. IInv'
    BY NextIInv DEF WInv
  <2>2. UNCHANGED <<toClient, child, length, body, pc, count, contentLength, content, hit>>
    BY <1>4 DEF AcceptFails, Server, ChangeFile, vars, connVars, serverVars, clientVars
  <2>3. Contents' /\ hit \subseteq hit' /\ \A d \in Clients : WSame(d)
    BY <2>2 DEF WInv, Contents, WSame
  <2> QED
    BY <2>1, <2>3, WStepOfNone
<1> QED
  BY <1>1, <1>2, <1>3, <1>4 DEF Next

LEMMA WholeAtTheEnd ==
  ASSUME WInv, NEW c \in Clients \ hit, pc[c] = "done"
  PROVE  contentLength[c] = length[c] /\ content[c] = Repeat(FileByte, length[c])
<1>1. WholeEnd(c) /\ content[c] \in Seq(Items) /\ length[c] \in Nat
  BY Unhit DEF Whole
<1>2. /\ contentLength[c] = length[c] /\ Len(content[c]) = length[c]
      /\ \A i \in 1 .. Len(content[c]) : content[c][i] = FileByte
  BY <1>1 DEF WholeEnd, AllFile
<1>3. content[c] = [i \in 1 .. Len(content[c]) |-> content[c][i]]
  BY <1>1
<1> QED
  BY <1>2, <1>3 DEF Repeat

(* A client that ends in the regular way has the whole file and nothing else,
   although send_file() takes the size and the bytes at two different times,
   both sides handle them in any pieces, and others fail around it: unless its
   own connection, process or file was hit.                                 *)
THEOREM FilesArriveWhole == Spec => []WholeFile
<1>1. WInv => WholeFile
  BY WholeAtTheEnd DEF WholeFile
<1> QED
  BY InitWInv, NextWInv, <1>1, PTL DEF Spec
=============================================================================
