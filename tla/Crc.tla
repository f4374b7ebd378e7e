-------------------------------- MODULE Crc --------------------------------
(***************************************************************************)
(* generate_crc() (MP3/crc/crc.cpp): long division of a message by the     *)
(* generator, over GF(2), one bit a turn.                                  *)
(*                                                                         *)
(* A number is the set of its bits that are one: << moves the bits, ^ is   *)
(* the symmetric difference.  A negative number has its upper bits set.    *)
(***************************************************************************)
EXTENDS Integers, FiniteSets

CONSTANTS
  GENERATOR_LENGTH,  \* 4 in the code
  INT_BITS,          \* 32: the width of 1 and of a generator as an int
  LONG_BITS,         \* 64
  Generators,        \* generators of GENERATOR_LENGTH bits
  Messages           \* what data may be, for each in_bits; more bits than that too

(* The program takes any numbers.  With more bits than these the shifts of
   an int overflow, and a generator of another length does not divide.     *)
ASSUME CrcAssumption ==
  /\ GENERATOR_LENGTH \in Nat \ {0} /\ INT_BITS \in Nat /\ LONG_BITS \in Nat
  /\ INT_BITS <= LONG_BITS
  /\ \A g \in Generators : g \subseteq 0 .. GENERATOR_LENGTH - 1 /\ GENERATOR_LENGTH - 1 \in g
  /\ \A n \in DOMAIN Messages :
       /\ n \in Nat /\ n + GENERATOR_LENGTH <= INT_BITS
       /\ Messages[n] \subseteq SUBSET (0 .. LONG_BITS - 1)

VARIABLES
  generator, data, in_bits,   \* the arguments
  crc, bit                    \* its locals; bit is i

arguments == <<generator, data, in_bits>>
crcVars == <<arguments, crc, bit>>

Long(s) == s \cap (0 .. LONG_BITS - 1)
Shift(s, n) == {b + n : b \in s}
Xor(s, t) == (s \ t) \cup (t \ s)

CrcInit ==
  /\ generator \in Generators
  /\ in_bits \in DOMAIN Messages /\ data \in Messages[in_bits]
  /\ crc = Long(Shift(data, GENERATOR_LENGTH - 1))
  /\ bit = in_bits + GENERATOR_LENGTH - 1

(* One turn of the loop. *)
DivideTestsWrongBit ==
  /\ bit >= GENERATOR_LENGTH
  /\ crc' = IF bit \in crc THEN Xor(crc, Shift(generator, bit - GENERATOR_LENGTH)) ELSE crc
  /\ bit' = bit - 1
  /\ UNCHANGED arguments
DivideClears ==
  /\ bit >= GENERATOR_LENGTH
  /\ crc' = IF bit - 1 \in crc THEN crc \ Shift(generator, bit - GENERATOR_LENGTH) ELSE crc
  /\ bit' = bit - 1
  /\ UNCHANGED arguments
Divide ==
  /\ bit >= GENERATOR_LENGTH
  /\ crc' = IF bit - 1 \in crc THEN Xor(crc, Shift(generator, bit - GENERATOR_LENGTH)) ELSE crc
  /\ bit' = bit - 1
  /\ UNCHANGED arguments

Returned == bit < GENERATOR_LENGTH

CrcSpec == CrcInit /\ [][Divide]_crcVars

-----------------------------------------------------------------------------
(* The product of two polynomials over GF(2), with n terms the first: bit b is
   the parity of the pairs of bits that add up to it.                      *)
Times(q, g, n) ==
  {b \in 0 .. n + GENERATOR_LENGTH - 2 : Cardinality({k \in q : b - k \in g}) % 2 = 1}

Multiples ==
  UNION {{<<g, n, Times(q, g, n)>> : q \in SUBSET (0 .. n - 1)} :
           g \in Generators, n \in DOMAIN Messages}
IsMultiple(s, g, n) == <<g, n, s>> \in Multiples

(* The message as it is sent, with room for the remainder. *)
Padded == Shift(data \cap (0 .. in_bits - 1), GENERATOR_LENGTH - 1)

Low(s, n) == s \cap (0 .. n - 1)

(* The result has no bits but those of the remainder, if the data fits.  *)
OnlyRemainder ==
  Returned /\ data \subseteq 0 .. in_bits - 1 => crc \subseteq 0 .. GENERATOR_LENGTH - 2

(* At every turn what has been taken off the message is a multiple of the
   generator, and the bits the loop has passed are zero: the remainder of
   the division is left at the end, whatever data has above its in_bits.   *)
Dividing ==
  /\ IsMultiple(Xor(Padded, Low(crc, in_bits + GENERATOR_LENGTH - 1)), generator, in_bits)
  /\ \A b \in bit .. in_bits + GENERATOR_LENGTH - 2 : b \notin crc
  /\ OnlyRemainder

(* What main() counts when it divides a pattern of bit errors by 9: it only
   misses errors with an even number of bits, spread over more than three.  *)
DetectsErrors ==
  Returned /\ crc = {} /\ data # {} /\ data \subseteq 0 .. in_bits - 1 =>
    /\ generator = {0, 3} => Cardinality(data) % 2 = 0
    /\ 0 \in generator => \E a, b \in data : b - a >= GENERATOR_LENGTH - 1
=============================================================================
