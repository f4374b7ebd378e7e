------------------------------ MODULE Checksum ------------------------------
(***************************************************************************)
(* MP3/checksum/checksum.cpp: the one's complement checksum of the numbers *)
(* on a line.                                                              *)
(***************************************************************************)
EXTENDS Integers, Sequences

CONSTANTS
  WORD,   \* 65536 in the code: numbers are taken modulo WORD
  Lines   \* the lines that may be entered, as the numbers atoi() makes of them

ASSUME ChecksumAssumption == WORD \in Nat \ {0, 1} /\ Lines \subseteq Seq(Int)

VARIABLES
  input,       \* the numbers entered
  split_line,  \* those not added yet
  sum,         \* an unsigned long: 2^48 numbers are needed to overflow it
  stage,          \* "adding", "folded", "printed"
  checksum     \* what is printed

checksumVars == <<input, split_line, sum, stage, checksum>>

ChecksumInit ==
  /\ input \in Lines /\ split_line = input
  /\ sum = 0 /\ stage = "adding" /\ checksum = 0

(* sum += (unsigned short) atoi(...) *)
Add ==
  /\ stage = "adding" /\ split_line # <<>>
  /\ sum' = sum + (Head(split_line) % WORD)
  /\ split_line' = Tail(split_line)
  /\ UNCHANGED <<input, stage, checksum>>

(* The carries are added to the lower half: once. *)
FoldNot ==
  /\ stage = "adding" /\ split_line = <<>>
  /\ sum' = sum % WORD
  /\ stage' = "folded"
  /\ UNCHANGED <<input, split_line, checksum>>
Fold ==
  /\ stage = "adding" /\ split_line = <<>>
  /\ sum' = (sum % WORD) + (sum \div WORD)
  /\ stage' = "folded"
  /\ UNCHANGED <<input, split_line, checksum>>

(* (unsigned short) ~sum *)
PrintChecksum ==
  /\ stage = "folded"
  /\ checksum' = WORD - 1 - (sum % WORD)
  /\ stage' = "printed"
  /\ UNCHANGED <<input, split_line, sum>>

ChecksumNext == Add \/ Fold \/ PrintChecksum

ChecksumSpec == ChecksumInit /\ [][ChecksumNext]_checksumVars

-----------------------------------------------------------------------------
(* A checksum makes the one's complement sum of the numbers and itself zero,
   which is addition modulo WORD - 1.                                      *)
TotalTo[n \in 0 .. Len(input)] == IF n = 0 THEN 0 ELSE TotalTo[n - 1] + (input[n] % WORD)
Total == TotalTo[Len(input)]
Verifies(c) == (Total + c) % (WORD - 1) = 0

(* Folding once leaves the carry of the fold itself out: what is printed is
   too large by just that carry, whatever the numbers are.                 *)
RightButForTheCarry == stage = "printed" => Verifies(checksum - (sum \div WORD))
=============================================================================
