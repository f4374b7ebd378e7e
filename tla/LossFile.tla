------------------------------ MODULE LossFile ------------------------------
(***************************************************************************)
(* openLossPatern() (MP2/receiver_state_machine.cpp): it skips empty lines *)
(* of the file the receiver is given and reads a loss pattern from the     *)
(* first that is not.  The constructor goes on when it fails.              *)
(*                                                                         *)
(* A line is the sequence of its words, each the number that atoi() makes  *)
(* of it; a line of blanks has no words, and is not empty.                 *)
(***************************************************************************)
EXTENDS LossPattern, FiniteSetsExt

CONSTANT LossFiles  \* what the file may hold; nothing when it cannot be opened

EmptyLine == [empty |-> TRUE, words |-> <<>>]
LineOf(words) == [empty |-> FALSE, words |-> words]

ASSUME LossFileAssumption ==
  \A f \in LossFiles :
    f \in Seq([empty : BOOLEAN, words : Seq(Int)]) /\ \A i \in DOMAIN f : f[i].empty => f[i] = EmptyLine

VARIABLES
  lossFile,
  linesRead,              \* lines read
  todo,                \* what comes next; "returned", or "crashed" in atoi(NULL)
  words,             \* what strtok() has not returned yet
  result,            \* of openLossPatern()
  periodic_, lossPeriod_, specific_, specificPackets_

fields == <<periodic_, lossPeriod_, specific_, specificPackets_>>
lossVars == <<lossFile, linesRead, todo, words, result, fields>>

LossInit ==
  /\ lossFile \in LossFiles
  /\ linesRead = 0
  /\ todo = "getline"
  /\ words = <<>>
  /\ result = 0
  /\ periodic_ = FALSE /\ lossPeriod_ = 0
  /\ specific_ = FALSE /\ specificPackets_ = <<>>

Return(r) == todo' = "returned" /\ result' = r
GoOn(where) == todo' = where /\ UNCHANGED result

-----------------------------------------------------------------------------
(* At the end of the file getline() yields an empty line, again and again. *)
NextLine == IF linesRead < Len(lossFile) THEN lossFile[linesRead + 1] ELSE EmptyLine

GetLineOnce ==
  /\ todo = "getline"
  /\ linesRead' = Min({linesRead + 1, Len(lossFile)})
  /\ words' = NextLine.words
  /\ GoOn("kind")
  /\ UNCHANGED <<lossFile, fields>>
GetLine ==
  /\ todo = "getline"
  /\ linesRead' = Min({linesRead + 1, Len(lossFile)})
  /\ words' = NextLine.words
  /\ GoOn(IF NextLine.empty THEN "getline" ELSE "kind")
  /\ UNCHANGED <<lossFile, fields>>

(* The first word: the kind of the pattern. *)
Kind ==
  /\ todo = "kind"
  /\ IF words = <<>> THEN GoOn("crashed") /\ UNCHANGED words
     ELSE /\ words' = Tail(words)
          /\ CASE Head(words) = 0 -> Return(0)
               [] Head(words) = 1 -> GoOn("period")
               [] Head(words) = 2 -> GoOn("positions")
               [] OTHER -> Return(-1)
  /\ UNCHANGED <<lossFile, linesRead, fields>>

Period ==
  /\ todo = "period"
  /\ IF words = <<>> THEN GoOn("crashed") /\ UNCHANGED <<lossPeriod_, periodic_>>
     ELSE /\ lossPeriod_' = Head(words)
          /\ periodic_' = (Head(words) >= 2)
          /\ Return(IF Head(words) >= 2 THEN 0 ELSE -1)
  /\ UNCHANGED <<lossFile, linesRead, words, specific_, specificPackets_>>

(* One turn of the loop over the positions: an invalid one is passed over. *)
PositionStopsAtInvalid ==
  /\ todo = "positions" /\ words # <<>>
  /\ IF Head(words) > 0
     THEN specificPackets_' = Append(specificPackets_, Head(words)) /\ words' = Tail(words)
     ELSE UNCHANGED specificPackets_ /\ words' = <<>>
  /\ UNCHANGED <<lossFile, linesRead, todo, result, periodic_, lossPeriod_, specific_>>
Position ==
  /\ todo = "positions" /\ words # <<>>
  /\ words' = Tail(words)
  /\ specificPackets_' = IF Head(words) > 0 THEN Append(specificPackets_, Head(words))
                         ELSE specificPackets_
  /\ UNCHANGED <<lossFile, linesRead, todo, result, periodic_, lossPeriod_, specific_>>

LastPosition ==
  /\ todo = "positions" /\ words = <<>>
  /\ specific_' = (specificPackets_ # <<>>)
  /\ Return(IF specificPackets_ = <<>> THEN -1 ELSE 0)
  /\ UNCHANGED <<lossFile, linesRead, words, periodic_, lossPeriod_, specificPackets_>>

LossNext == GetLine \/ Kind \/ Period \/ Position \/ LastPosition

LossSpec == LossInit /\ [][LossNext]_lossVars /\ WF_lossVars(LossNext)

-----------------------------------------------------------------------------
(* The pattern in force in receivePacket(), whether loading failed or not. *)
InForce == CASE periodic_ -> PeriodicLoss(lossPeriod_)
             [] specific_ -> SpecificLoss(specificPackets_)
             [] OTHER -> NoLoss

(* The words of w from the second to the n-th that are positive, in order. *)
Positions(w, n, s) ==
  \E at \in [DOMAIN s -> 2 .. n] :
    /\ \A k, m \in DOMAIN s : k < m => at[k] < at[m]
    /\ \A j \in 2 .. n : w[j] > 0 <=> \E k \in DOMAIN s : at[k] = j
    /\ \A k \in DOMAIN s : s[k] = w[at[k]]

(* What a line of words asks for. *)
AsksFor(w, l) ==
  \/ Head(w) = 1 /\ l = IF w[2] > 1 THEN PeriodicLoss(w[2]) ELSE NoLoss
  \/ /\ Head(w) = 2 /\ Positions(w, Len(w), l.specificPackets_)
     /\ l = IF l.specificPackets_ = <<>> THEN NoLoss ELSE SpecificLoss(l.specificPackets_)
  \/ Head(w) \notin {1, 2} /\ l = NoLoss

(* lossPeriod_, specificPackets_ and the two flags are set apart from each
   other, and half-way results stay when loading fails: the receiver is left
   with a pattern it can work with all the same, which is none then.        *)
UsablePattern ==
  todo = "returned" => IsLossPattern(InForce) /\ (result = -1 => InForce = NoLoss)

HasLine == \E i \in DOMAIN lossFile : ~lossFile[i].empty
IsFirst(i) == ~lossFile[i].empty /\ \A j \in 1 .. i - 1 : lossFile[j].empty
FirstLine == lossFile[CHOOSE i \in DOMAIN lossFile : IsFirst(i)].words

(* The words are consumed one by one, by two loops and three branches that
   share strtok(): what is loaded is what the first line that is not empty
   asks for, and only a line that ends too early crashes the receiver.     *)
AsWritten ==
  /\ UsablePattern
  /\ todo = "returned" => AsksFor(FirstLine, InForce)
  /\ todo = "crashed" => FirstLine \in {<<>>, <<1>>}

(* The constructor returns if the file has a line that is not empty.  If it
   has none, or cannot be opened, the receiver hangs before it has a socket. *)
LoadingEnds ==
  LET Ended == todo \in {"returned", "crashed"}
  IN  (HasLine => <>Ended) /\ (~HasLine => []~Ended)
=============================================================================
