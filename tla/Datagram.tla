------------------------------ MODULE Datagram ------------------------------
(***************************************************************************)
(* The datagram demo of MP0: talker.c sends its argument as one datagram,  *)
(* listener.c takes one datagram, shows it and ends.  Several talkers may  *)
(* send, before the listener has its port or after; nobody answers.        *)
(***************************************************************************)
EXTENDS Integers, SequencesExt

CONSTANTS
  Talkers,
  Arguments,     \* what argv[2] may be; a character is a number
  MAXBUFLEN,    \* 100 in the code
  MaxRepeats    \* bound: datagrams the network repeats

ASSUME DatagramAssumption ==
  /\ MAXBUFLEN \in Nat \ {0} /\ MaxRepeats \in Nat
  /\ Arguments \subseteq Seq(Int)

VARIABLES
  message,   \* of each talker
  talker,    \* "start", "sent", "failed"
  net,       \* datagrams under way
  listener,  \* "start", "waiting", "done", "failed"
  arrived,   \* datagrams in the listener's socket
  numbytes, dgram_buf,
  repeats

listenerVars == <<listener, numbytes, dgram_buf>>
datagramVars == <<message, talker, net, arrived, repeats, listenerVars>>

DatagramInit ==
  /\ message \in [Talkers -> Arguments]
  /\ talker = [t \in Talkers |-> "start"]
  /\ net = {} /\ arrived = <<>> /\ repeats = 0
  /\ listener = "start" /\ numbytes = 0 /\ dgram_buf = <<>>

-----------------------------------------------------------------------------
Sendto(t) ==
  /\ talker[t] = "start"
  /\ \/ talker' = [talker EXCEPT ![t] = "sent"] /\ net' = net \cup {t}
     \/ talker' = [talker EXCEPT ![t] = "failed"] /\ UNCHANGED net
  /\ UNCHANGED <<message, arrived, repeats, listenerVars>>

Bind ==
  /\ listener = "start" /\ listener' = "waiting"
  /\ UNCHANGED <<message, talker, net, arrived, repeats, numbytes, dgram_buf>>

(* A datagram arrives, and is lost when nobody has the port. *)
Arrive(t) ==
  /\ t \in net
  /\ arrived' = IF listener = "waiting" THEN Append(arrived, message[t]) ELSE arrived
  /\ \/ net' = net \ {t} /\ UNCHANGED repeats
     \/ repeats < MaxRepeats /\ repeats' = repeats + 1 /\ UNCHANGED net
  /\ UNCHANGED <<message, talker, listenerVars>>

(* The rest of a datagram that does not fit is discarded. *)
RecvfromStream ==
  /\ listener = "waiting" /\ arrived # <<>>
  /\ LET all == FlattenSeq(arrived)
     IN  /\ numbytes' = IF Len(all) < MAXBUFLEN THEN Len(all) ELSE MAXBUFLEN - 1
         /\ dgram_buf' = SubSeq(all, 1, numbytes')
  /\ arrived' = <<>> /\ listener' = "done"
  /\ UNCHANGED <<message, talker, net, repeats>>
Recvfrom ==
  /\ listener = "waiting" /\ arrived # <<>>
  /\ numbytes' = IF Len(Head(arrived)) < MAXBUFLEN THEN Len(Head(arrived)) ELSE MAXBUFLEN - 1
  /\ dgram_buf' = SubSeq(Head(arrived), 1, numbytes')
  /\ arrived' = Tail(arrived) /\ listener' = "done"
  /\ UNCHANGED <<message, talker, net, repeats>>

RecvfromFails ==
  /\ listener = "waiting" /\ listener' = "failed"
  /\ UNCHANGED <<message, talker, net, arrived, repeats, numbytes, dgram_buf>>

DatagramNext ==
  \/ \E t \in Talkers : Sendto(t) \/ Arrive(t)
  \/ Bind \/ Recvfrom \/ RecvfromFails

DatagramSpec == DatagramInit /\ [][DatagramNext]_datagramVars

-----------------------------------------------------------------------------
(* Boundaries of datagrams are kept: whatever is sent, lost, repeated and
   overtaken, the listener shows the start of what one talker sent, all of
   it if it is short enough, and has room for the NUL behind it.           *)
ShowsOneMessage ==
  listener = "done" =>
    /\ numbytes < MAXBUFLEN
    /\ \E t \in Talkers :
         /\ talker[t] = "sent" /\ IsPrefix(dgram_buf, message[t])
         /\ Len(message[t]) < MAXBUFLEN => dgram_buf = message[t]
=============================================================================
