------------------------------ MODULE RecvLine ------------------------------
(***************************************************************************)
(* recv_line() (client_server/network.cpp), called again and again: each   *)
(* call reads bytes one by one into the caller's buffer and counts how     *)
(* much of EOL the last ones match.  The bytes arrive in their own time.   *)
(* The text holds no NUL, so strlen() is the length of the line.           *)
(***************************************************************************)
EXTENDS Sequences, Integers

CONSTANTS CR, LF, Streams

EOL == <<CR, LF>>

ASSUME LineAssumption ==
  /\ CR # LF
  /\ \A s \in Streams :
       /\ s \in Seq({s[k] : k \in DOMAIN s})
       /\ \A k \in 1 .. Len(s) - 1 : ~(s[k] = CR /\ s[k + 1] = CR)

VARIABLES
  unread,       \* bytes not read yet
  dest_buffer,  \* what this call has written
  eol_matched,
  lines,        \* what the calls returned
  recv            \* "recv", or "zero": recv_line() has returned 0

lineVars == <<unread, dest_buffer, eol_matched, lines, recv>>

LineInit ==
  /\ unread \in Streams
  /\ dest_buffer = <<>> /\ eol_matched = 0
  /\ lines = <<>> /\ recv = "recv"

(* The byte completes EOL: the call returns, and the next begins. *)
LineEnds ==
  /\ recv = "recv" /\ unread # <<>>
  /\ eol_matched = Len(EOL) - 1 /\ Head(unread) = EOL[Len(EOL)]
  /\ lines' = Append(lines, SubSeq(dest_buffer, 1, Len(dest_buffer) + 1 - Len(EOL)))
  /\ unread' = Tail(unread) /\ dest_buffer' = <<>> /\ eol_matched' = 0
  /\ UNCHANGED recv

MatchedKept(b) == IF b = EOL[eol_matched + 1] THEN eol_matched + 1 ELSE eol_matched
Matched(b) == IF b = EOL[eol_matched + 1] THEN eol_matched + 1 ELSE 0

ReadByte ==
  /\ recv = "recv" /\ unread # <<>>
  /\ Matched(Head(unread)) < Len(EOL)
  /\ dest_buffer' = Append(dest_buffer, Head(unread))
  /\ eol_matched' = Matched(Head(unread))
  /\ unread' = Tail(unread)
  /\ UNCHANGED <<lines, recv>>

(* The end of the stream, or an error: what was read stays in the buffer. *)
RecvFails ==
  /\ recv = "recv" /\ unread = <<>>
  /\ recv' = "zero"
  /\ UNCHANGED <<unread, dest_buffer, eol_matched, lines>>

LineNext == LineEnds \/ ReadByte \/ RecvFails

LineSpec == LineInit /\ [][LineNext]_lineVars /\ WF_lineVars(LineNext)

-----------------------------------------------------------------------------
(* Bytes are bytes of the stream until the call returns. *)
Abstract == INSTANCE LineStream WITH rest <- dest_buffer \o unread

(* The lines are those of the stream, none joined, split or left out, as long
   as no CR follows a CR: the count of what matched is all that a call knows
   of the bytes before.                                                    *)
TakesLines == Abstract!Spec
=============================================================================
