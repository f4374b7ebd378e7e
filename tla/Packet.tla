------------------------------- MODULE Packet -------------------------------
(***************************************************************************)
(* The packets of MP2/packet.h and how SenderStateMachine fills one from   *)
(* the file.                                                               *)
(*                                                                         *)
(* Bytes are identified with the position they have in the file, 0 being   *)
(* the first: the payload of a data packet is the file offset `data' of    *)
(* its first byte, so the packet carries the bytes                         *)
(* data .. data+data_len-1.  A packet whose label and content disagree is  *)
(* therefore visible in the model: seq_num - 1 # data.  The file is text:  *)
(* it holds no NUL byte, which sendData's strlen() relies on.              *)
(***************************************************************************)
EXTENDS Integers

CONSTANTS
  MMSBYTES,   \* bytes of file data per packet (100 in the code)
  FileLen,    \* bytes in the file being sent
  Wrap        \* number of values of a uint32_t (2^32 in the code)

(* MMSBYTES > 2 because a full packet must not return a negative
   strlen(data)-2; the file is shorter than the sequence space, and one
   packet past its end still fits in an int.                             *)
ASSUME PacketAssumption ==
  /\ MMSBYTES \in Nat /\ MMSBYTES > 2
  /\ FileLen \in Nat
  /\ Wrap \in Nat /\ 2 * (FileLen + MMSBYTES + 1) < Wrap

(* uint32_t arithmetic, and the conversion of a uint32_t to int. *)
U32(x) == x % Wrap
ToInt(x) == IF 2 * x >= Wrap THEN x - Wrap ELSE x

(* What message_->read(packet_data, MMSBYTES) does at stream position pos:
   the bytes it gets, and whether it gets all of them.  A short read sets
   eofbit and failbit.                                                    *)
FullRead(pos) == pos + MMSBYTES <= FileLen
GCount(pos) == CASE FullRead(pos) -> MMSBYTES
                 [] ~FullRead(pos) /\ pos <= FileLen -> FileLen - pos
                 [] OTHER -> 0

(* The packet sendData() builds from the bytes just read at pos when
   filePosition_ is fp: the label comes from filePosition_, the content
   from the stream, and FIN says that the read was short.                 *)
SegmentContentOff(fp, pos) ==
  [seq_num |-> U32(fp + 1), data |-> pos - 1,
   data_len |-> GCount(pos), FIN |-> ~FullRead(pos)]
Segment(fp, pos) ==
  [seq_num |-> U32(fp + 1), data |-> pos,
   data_len |-> GCount(pos), FIN |-> ~FullRead(pos)]
=============================================================================
