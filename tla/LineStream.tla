----------------------------- MODULE LineStream -----------------------------
(***************************************************************************)
(* What network.h of client_server promises of recv_line(): the stream is  *)
(* taken line by line, each up to the first EOL, and without it.  This is  *)
(* how Connections sees the header.                                        *)
(***************************************************************************)
EXTENDS Sequences, Integers

CONSTANTS
  CR, LF,
  Streams   \* what the peer may send before it ends the stream

EOL == <<CR, LF>>
HasEol(s) == \E k \in 1 .. Len(s) - 1 : SubSeq(s, k, k + 1) = EOL

VARIABLES rest, lines

Init == rest \in Streams /\ lines = <<>>

TakeLine ==
  \E n \in 0 .. Len(rest) - 2 :
    LET line == SubSeq(rest, 1, n)
    IN  /\ SubSeq(rest, n + 1, n + 2) = EOL /\ ~HasEol(line)
        /\ lines' = Append(lines, line)
        /\ rest' = SubSeq(rest, n + 3, Len(rest))

(* What is taken, and that it is taken in the end. *)
Safety == Init /\ [][TakeLine]_<<rest, lines>>
Spec == Safety /\ WF_<<rest, lines>>(TakeLine)
=============================================================================
