--------------------------- MODULE MCClientServer ---------------------------
(* ClientServer for TLC: two clients and one file that is missing,
   small (less than Block) or read in several pieces.                      *)
EXTENDS ClientServer

CONSTANTS c1, c2, f

MCClients == {c1, c2}
MCNames == {f}
MCFileSizes == {-1, 2, 4}
MCLimits == {[fds |-> 3, procs |-> 3], [fds |-> 1, procs |-> 3], [fds |-> 3, procs |-> 1]}
=============================================================================
