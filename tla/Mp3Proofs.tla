----------------------------- MODULE Mp3Proofs ------------------------------
(***************************************************************************)
(* Proofs about the programs of MP3, for every width: generate_crc(), its  *)
(* table, and the checksum.                                                *)
(*                                                                         *)
(* The inductive invariant of the division names the quotient: its bits    *)
(* are those of the turns that are over, so that the bit of the next turn  *)
(* is not among them and adding it turns the product over by one shifted   *)
(* generator (lemma TimesAdds).  That there is one remainder of a number   *)
(* (lemma OneRemainder) is why looking up agrees with computing.           *)
(***************************************************************************)
EXTENDS CrcTable, Checksum, FiniteSetTheorems, FunctionTheorems, SequenceTheorems,
        WellFoundedInduction, TLAPS

LessThan == {ss \in Nat \X Nat : ss[1] < ss[2]}

LEMMA LeastNumber ==
  ASSUME NEW T, T \subseteq Nat, T # {}
  PROVE  \E x \in T : \A y \in T : x <= y
<1>1. IsWellFoundedOn(LessThan, Nat)
  BY NatLessThanWellFounded DEF OpToRel, LessThan
<1>2. PICK x \in T : \A y \in T : <<y, x>> \notin LessThan
  BY <1>1, WFMin
<1>3. \A y \in T : ~(y < x)
  BY <1>2 DEF LessThan
<1> QED
  BY <1>3

-----------------------------------------------------------------------------
(* generate_crc() *)

Width == in_bits + GENERATOR_LENGTH - 1

(* The quotient has only bits of the turns before i. *)
Quotient(q) ==
  /\ q \subseteq bit - GENERATOR_LENGTH + 1 .. in_bits - 1
  /\ Low(crc, Width) = Xor(Padded, Times(q, generator, in_bits))

Passed == \A b \in bit .. in_bits + GENERATOR_LENGTH - 2 : b \notin crc

IInv ==
  /\ generator \in Generators /\ in_bits \in DOMAIN Messages
  /\ generator \subseteq 0 .. GENERATOR_LENGTH - 1 /\ GENERATOR_LENGTH - 1 \in generator
  /\ data \subseteq 0 .. LONG_BITS - 1
  /\ bit \in GENERATOR_LENGTH - 1 .. Width
  /\ crc \subseteq Nat
  /\ Passed
  /\ data \subseteq 0 .. in_bits - 1 => crc \subseteq 0 .. bit - 1
  /\ \E q \in SUBSET (0 .. in_bits - 1) : Quotient(q)

-----------------------------------------------------------------------------
(* A number is a set: xor is associative, and so is cutting it off. *)
LEMMA XorFacts ==
  ASSUME NEW r, NEW s, NEW t, NEW n \in Nat
  PROVE  /\ Xor(Xor(r, s), t) = Xor(r, Xor(s, t))
         /\ Low(Xor(r, s), n) = Xor(Low(r, n), Low(s, n))
BY DEF Xor, Low

LEMMA XorCancels == \A r, s : Xor(r, Xor(r, s)) = s
BY DEF Xor

(* The generator shifted to end in bit j - 1. *)
LEMMA ShiftFacts ==
  ASSUME IInv, bit >= GENERATOR_LENGTH,
         NEW s, s = Shift(generator, bit - GENERATOR_LENGTH)
  PROVE  /\ s \subseteq 0 .. bit - 1
         /\ bit - 1 \in s
         /\ \A b \in Int : b \in s <=> b - (bit - GENERATOR_LENGTH) \in generator
<1>1. bit \in Int /\ GENERATOR_LENGTH \in Nat \ {0}
  BY CrcAssumption DEF IInv, Width
<1>2. \A b \in Int : b \in s <=> b - (bit - GENERATOR_LENGTH) \in generator
  BY <1>1 DEF IInv, Shift
<1>3. s \subseteq 0 .. bit - 1
  BY <1>1 DEF IInv, Shift
<1>4. bit - 1 \in s
  BY <1>1, <1>2 DEF IInv
<1> QED
  BY <1>2, <1>3, <1>4

(* One more bit in the quotient adds the generator, shifted by that bit. *)
LEMMA TimesAdds ==
  ASSUME NEW n \in Nat, NEW q, q \subseteq 0 .. n - 1, NEW k \in 0 .. n - 1, k \notin q,
         NEW g, g \subseteq 0 .. GENERATOR_LENGTH - 1
  PROVE  Times(q \cup {k}, g, n) = Xor(Times(q, g, n), Shift(g, k))
<1> DEFINE Pairs(r, b) == {j \in r : b - j \in g}
           Bits == 0 .. n + GENERATOR_LENGTH - 2
<1>1. n \in Nat /\ GENERATOR_LENGTH \in Nat \ {0}
  BY CrcAssumption
<1>2. \A b \in Int : b \in Shift(g, k) <=> b - k \in g
  BY <1>1 DEF Shift
<1>3. Shift(g, k) \subseteq Bits
  BY <1>1 DEF Shift
<1>4. ASSUME NEW b \in Bits
      PROVE  b \in Times(q \cup {k}, g, n) <=> (b \in Times(q, g, n) <=> b \notin Shift(g, k))
  <2>0. \A r : b \in Times(r, g, n) <=> Cardinality(Pairs(r, b)) % 2 = 1
    BY DEF Times
  <2>1. IsFiniteSet(Pairs(q, b))
    <3>1. IsFiniteSet(0 .. n - 1)
      BY <1>1, FS_Interval
    <3> QED
      BY <3>1, FS_Subset
  <2>2. Cardinality(Pairs(q, b)) \in Nat
    BY <2>1, FS_CardinalityType
  <2>3. CASE b - k \in g
    <3>1. Pairs(q \cup {k}, b) = Pairs(q, b) \cup {k}
      BY <2>3
    <3>2. k \notin Pairs(q, b)
      OBVIOUS
    <3>3. Cardinality(Pairs(q \cup {k}, b)) = Cardinality(Pairs(q, b)) + 1
      BY <2>1, <3>1, <3>2, FS_AddElement
    <3>4. Cardinality(Pairs(q \cup {k}, b)) % 2 = 1 <=> Cardinality(Pairs(q, b)) % 2 # 1
      BY <2>2, <3>3
    <3> QED
      BY <2>3, <3>4, <1>2, <2>0
  <2>4. CASE b - k \notin g
    <3>1. Pairs(q \cup {k}, b) = Pairs(q, b)
      BY <2>4
    <3>2. b \notin Shift(g, k)
      BY <1>1, <1>2, <2>4
    <3>3. b \in Times(q \cup {k}, g, n) <=> b \in Times(q, g, n)
      BY <2>0, <3>1
    <3> QED
      BY <3>2, <3>3
  <2> QED
    BY <2>3, <2>4
<1>5. Times(q \cup {k}, g, n) \subseteq Bits /\ Times(q, g, n) \subseteq Bits
  BY DEF Times
<1> QED
  BY <1>3, <1>4, <1>5 DEF Xor

-----------------------------------------------------------------------------
(* generate_crc() begins, whatever the number it is called with. *)
StartsDivision ==
  /\ generator \in Generators /\ in_bits \in DOMAIN Messages
  /\ data \subseteq 0 .. LONG_BITS - 1
  /\ crc = Long(Shift(data, GENERATOR_LENGTH - 1))
  /\ bit = in_bits + GENERATOR_LENGTH - 1

LEMMA StartsIInv == StartsDivision => IInv
<1> SUFFICES ASSUME StartsDivision PROVE IInv
  OBVIOUS
<1> USE DEF StartsDivision
<1>1. /\ in_bits \in Nat /\ GENERATOR_LENGTH \in Nat \ {0} /\ LONG_BITS \in Nat
      /\ in_bits + GENERATOR_LENGTH <= LONG_BITS
      /\ generator \subseteq 0 .. GENERATOR_LENGTH - 1 /\ GENERATOR_LENGTH - 1 \in generator
      /\ data \subseteq 0 .. LONG_BITS - 1
  BY CrcAssumption
<1>2. bit = Width /\ bit \in GENERATOR_LENGTH - 1 .. Width
  BY <1>1 DEF Width
<1>3. crc \subseteq Nat
  BY <1>1 DEF Long
<1>4. Passed
  BY <1>1 DEF Passed
<1>5. data \subseteq 0 .. in_bits - 1 => crc \subseteq 0 .. bit - 1
  BY <1>1 DEF Long, Shift
<1>6. Quotient({})
  <2>1. Times({}, generator, in_bits) = {}
    <3>1. \A b : Cardinality({k \in {} : b - k \in generator}) = 0
      <4>1. \A b : {k \in {} : b - k \in generator} = {}
        OBVIOUS
      <4> QED
        BY <4>1, FS_EmptySet
    <3> QED
      BY <3>1 DEF Times
  <2>2. Low(crc, Width) = Padded
    BY <1>1 DEF Low, Padded, Long, Shift, Width
  <2> QED
    BY <2>1, <2>2 DEF Quotient, Xor
<1> QED
  BY <1>1, <1>2, <1>3, <1>4, <1>5, <1>6 DEF IInv

LEMMA InitIInv == CrcInit => IInv
BY StartsIInv, CrcAssumption DEF CrcInit, StartsDivision

LEMMA NextIInv == IInv /\ [Divide]_crcVars => IInv'
<1> SUFFICES ASSUME IInv, [Divide]_crcVars PROVE IInv'
  OBVIOUS
<1>1. CASE UNCHANGED crcVars
  BY <1>1 DEF crcVars, arguments, IInv, Passed, Quotient, Padded, Width
<1>2. CASE Divide
  <2> DEFINE s == Shift(generator, bit - GENERATOR_LENGTH)
             k == bit - GENERATOR_LENGTH
  <2>1. /\ in_bits \in Nat /\ GENERATOR_LENGTH \in Nat \ {0} /\ LONG_BITS \in Nat
        /\ bit \in Int /\ Width \in Nat /\ Width = in_bits + GENERATOR_LENGTH - 1
        /\ bit >= GENERATOR_LENGTH /\ bit' = bit - 1 /\ bit <= Width
    BY <1>2, CrcAssumption DEF IInv, Divide, Width
  <2>2. s \subseteq 0 .. bit - 1 /\ bit - 1 \in s
    BY <2>1, ShiftFacts
  <2>3. UNCHANGED <<generator, data, in_bits>> /\ Padded' = Padded
    BY <1>2 DEF Divide, Padded, arguments
  <2>4. bit' \in GENERATOR_LENGTH - 1 .. Width
    BY <2>1
  <2>5. PICK q \in SUBSET (0 .. in_bits - 1) : Quotient(q)
    BY DEF IInv
  <2>6. q \subseteq bit - GENERATOR_LENGTH + 1 .. in_bits - 1
    BY <2>5 DEF Quotient
  <2>7. CASE bit - 1 \in crc
    <3>1. crc' = Xor(crc, s)
      BY <1>2, <2>7 DEF Divide
    <3>2. crc' \subseteq Nat
      <4>1. crc \subseteq Nat /\ s \subseteq Nat
        BY <2>1, <2>2 DEF IInv
      <4> QED
        BY <3>1, <4>1 DEF Xor
    <3>3. Passed'
      BY <2>1, <2>2, <2>3, <2>7, <3>1 DEF IInv, Passed, Xor
    <3>4. data \subseteq 0 .. in_bits - 1 => crc' \subseteq 0 .. bit - 2
      <4>1. data \subseteq 0 .. in_bits - 1 => crc \subseteq 0 .. bit - 1
        BY DEF IInv
      <4>2. bit - 1 \notin crc'
        BY <2>2, <2>7, <3>1 DEF Xor
      <4>3. \A b \in crc' : b \in crc \/ b \in s
        BY <3>1 DEF Xor
      <4> QED
        BY <2>1, <2>2, <4>1, <4>2, <4>3
    <3>5. k \in 0 .. in_bits - 1 /\ k \notin q
      BY <2>1, <2>6
    <3>6. Times(q \cup {k}, generator, in_bits) = Xor(Times(q, generator, in_bits), s)
      <4>1. q \subseteq 0 .. in_bits - 1 /\ generator \subseteq 0 .. GENERATOR_LENGTH - 1
        BY <2>5 DEF IInv
      <4>2. in_bits \in Nat /\ k \in 0 .. in_bits - 1 /\ k \notin q
        BY <2>1, <3>5
      <4>3. \A j \in 0 .. in_bits - 1 : j \notin q =>
              Times(q \cup {j}, generator, in_bits) = Xor(Times(q, generator, in_bits), Shift(generator, j))
        BY <4>1, <4>2, TimesAdds, ZenonT(40)
      <4> QED
        BY <4>2, <4>3
    <3>7. Low(s, Width) = s
      BY <2>1, <2>2 DEF Low
    <3>8. Low(crc', Width) = Xor(Padded, Times(q \cup {k}, generator, in_bits))
      <4>1. Low(crc', Width) = Xor(Low(crc, Width), s)
        BY <2>1, <3>1, <3>7, XorFacts
      <4>2. Low(crc, Width) = Xor(Padded, Times(q, generator, in_bits))
        BY <2>5 DEF Quotient
      <4>3. Xor(Xor(Padded, Times(q, generator, in_bits)), s) = Xor(Padded, Xor(Times(q, generator, in_bits), s))
        BY <2>1, XorFacts
      <4> QED
        BY <3>6, <4>1, <4>2, <4>3
    <3>9. q \cup {k} \in SUBSET (0 .. in_bits - 1)
      BY <3>5
    <3>10. q \cup {k} \subseteq bit' - GENERATOR_LENGTH + 1 .. in_bits - 1
      BY <2>1, <2>6, <3>5
    <3>11. \E r \in SUBSET (0 .. in_bits - 1) : Quotient(r)'
      BY <2>3, <3>8, <3>9, <3>10 DEF Quotient, Width
    <3> QED
      BY <2>1, <2>3, <2>4, <3>2, <3>3, <3>4, <3>11 DEF IInv, Width
  <2>8. CASE bit - 1 \notin crc
    <3>1. crc' = crc
      BY <1>2, <2>8 DEF Divide
    <3>2. Passed'
      BY <2>1, <2>3, <2>8, <3>1 DEF IInv, Passed
    <3>3. data \subseteq 0 .. in_bits - 1 => crc' \subseteq 0 .. bit - 2
      BY <2>1, <2>8, <3>1 DEF IInv
    <3>4. q \subseteq bit' - GENERATOR_LENGTH + 1 .. in_bits - 1
      BY <2>1, <2>6
    <3>5. \E r \in SUBSET (0 .. in_bits - 1) : Quotient(r)'
      BY <2>3, <2>5, <3>1, <3>4 DEF Quotient, Width
    <3> QED
      BY <2>1, <2>3, <2>4, <3>1, <3>2, <3>3, <3>5 DEF IInv, Width
  <2> QED
    BY <2>7, <2>8
<1> QED
  BY <1>1, <1>2

LEMMA SpecIInv == CrcSpec => []IInv
BY InitIInv, NextIInv, PTL DEF CrcSpec

-----------------------------------------------------------------------------
(* generate_crc() returns no bits above the remainder's. *)
LEMMA ResultIsARemainder == IInv => OnlyRemainder
<1> SUFFICES ASSUME IInv, Returned, data \subseteq 0 .. in_bits - 1
             PROVE  crc \subseteq 0 .. GENERATOR_LENGTH - 2
  BY DEF OnlyRemainder
<1>1. bit = GENERATOR_LENGTH - 1
  BY CrcAssumption DEF IInv, Returned, Width
<1> QED
  BY <1>1, CrcAssumption DEF IInv

LEMMA IInvDivides == IInv => Dividing
<1> SUFFICES ASSUME IInv PROVE Dividing
  OBVIOUS
<1>1. PICK q \in SUBSET (0 .. in_bits - 1) : Quotient(q)
  BY DEF IInv
<1>2. Xor(Padded, Low(crc, Width)) = Times(q, generator, in_bits)
  <2>1. Low(crc, Width) = Xor(Padded, Times(q, generator, in_bits))
    BY <1>1 DEF Quotient
  <2> QED
    BY <2>1, XorCancels
<1>3. <<generator, in_bits, Times(q, generator, in_bits)>> \in Multiples
  <2> DEFINE Of(g, n) == {<<g, n, Times(r, g, n)>> : r \in SUBSET (0 .. n - 1)}
  <2>1. <<generator, in_bits, Times(q, generator, in_bits)>> \in Of(generator, in_bits)
    OBVIOUS
  <2>2. Multiples = UNION {Of(g, n) : g \in Generators, n \in DOMAIN Messages}
    BY DEF Multiples
  <2> HIDE DEF Of
  <2> QED
    BY <2>1, <2>2 DEF IInv
<1>4. IsMultiple(Xor(Padded, Low(crc, Width)), generator, in_bits)
  BY <1>2, <1>3 DEF IsMultiple
<1> QED
  BY <1>4, ResultIsARemainder DEF IInv, Dividing, Passed, Width

(* generate_crc(): at every turn the message and a multiple of the generator
   make what is left, the bits the loop has passed are zero, and in the end
   nothing but the remainder is left.                                       *)
THEOREM DivisionIsExact == CrcSpec => []Dividing
BY IInvDivides, SpecIInv, PTL

-----------------------------------------------------------------------------
(* What a division detects *)




(* A bounded set of numbers has a greatest one. *)
LEMMA GreatestNumber ==
  ASSUME NEW n \in Nat, NEW T, T \subseteq 0 .. n, T # {}
  PROVE  \E x \in T : \A y \in T : y <= x
<1> DEFINE U == {n - y : y \in T}
<1>1. U \subseteq Nat /\ U # {}
  <2>1. \A y \in T : y \in 0 .. n /\ n - y \in Nat
    OBVIOUS
  <2> QED
    BY <2>1
<1>2. PICK u \in U : \A v \in U : u <= v
  BY <1>1, LeastNumber
<1>3. PICK x \in T : u = n - x
  BY <1>2
<1>4. ASSUME NEW y \in T PROVE y <= x
  <2>1. n - y \in U
    OBVIOUS
  <2>2. n - x <= n - y
    BY <1>2, <1>3, <2>1
  <2>3. x \in Nat /\ y \in Nat
    OBVIOUS
  <2> QED
    BY <2>2, <2>3
<1> QED
  BY <1>4

(* << loses no bit. *)
LEMMA MovedCardinality ==
  ASSUME NEW s, s \subseteq Nat, IsFiniteSet(s), NEW n \in Nat
  PROVE  IsFiniteSet(Shift(s, n)) /\ Cardinality(Shift(s, n)) = Cardinality(s)
<1> DEFINE f == [b \in s |-> b + n]
<1>1. f \in [s -> Shift(s, n)]
  BY DEF Shift
<1>2. \A a, b \in s : f[a] = f[b] => a = b
  OBVIOUS
<1>3. \A c \in Shift(s, n) : \E a \in s : f[a] = c
  BY DEF Shift
<1>4. f \in Bijection(s, Shift(s, n))
  BY <1>1, <1>2, <1>3, Fun_IsBij
<1> QED
  BY <1>4, FS_Bijection DEF ExistsBijection

(* Odd if one of the two is. *)
LEMMA XorOdd ==
  ASSUME NEW s, NEW t, IsFiniteSet(s), IsFiniteSet(t)
  PROVE  Cardinality(Xor(s, t)) % 2 = 1 <=> (Cardinality(s) % 2 = 1 <=> Cardinality(t) % 2 # 1)
<1> DEFINE m == Cardinality(s \ t)
           n == Cardinality(t \ s)
           k == Cardinality(s \cap t)
<1>1. /\ IsFiniteSet(s \ t) /\ IsFiniteSet(t \ s) /\ IsFiniteSet(s \cap t)
      /\ m = Cardinality(s) - k
      /\ n = Cardinality(t) - Cardinality(t \cap s)
  BY FS_Difference, FS_Intersection
<1>2. (s \ t) \cap (t \ s) = {} /\ s \cap t = t \cap s
  OBVIOUS
<1>3. Cardinality(Xor(s, t)) = m + n
  <2>1. Cardinality((s \ t) \cup (t \ s)) = m + n - Cardinality((s \ t) \cap (t \ s))
    BY <1>1, FS_Union
  <2>2. Cardinality({}) = 0
    BY FS_EmptySet
  <2>3. m \in Nat /\ n \in Nat
    BY <1>1, FS_CardinalityType
  <2>4. Xor(s, t) = (s \ t) \cup (t \ s)
    BY DEF Xor
  <2>5. Cardinality((s \ t) \cap (t \ s)) = 0
    BY <1>2, <2>2
  <2> HIDE DEF m, n
  <2> QED
    BY <2>1, <2>3, <2>4, <2>5
<1>4. m \in Nat /\ n \in Nat /\ k \in Nat /\ Cardinality(s) \in Nat /\ Cardinality(t) \in Nat
  BY <1>1, FS_CardinalityType
<1>5. Cardinality(s) = m + k /\ Cardinality(t) = n + k
  <2>1. Cardinality(t \cap s) = k
    BY <1>2
  <2> HIDE DEF m, n, k
  <2> QED
    BY <1>1, <1>4, <2>1
<1> HIDE DEF m, n, k
<1> QED
  BY <1>3, <1>4, <1>5

(* Twice the same polynomial, moved by three bits. *)
LEMMA TimesNine ==
  ASSUME NEW n \in Nat, NEW q, q \subseteq 0 .. n - 1, GENERATOR_LENGTH = 4
  PROVE  Times(q, {0, 3}, n) = Xor(q, Shift(q, 3))
<1> DEFINE Pairs(b) == {k \in q : b - k \in {0, 3}}
<1>0. q \subseteq Nat
  OBVIOUS
<1>1. ASSUME NEW b \in 0 .. n + 2
      PROVE  Cardinality(Pairs(b)) % 2 = 1 <=> b \in Xor(q, Shift(q, 3))
  <2>1. b \in Shift(q, 3) <=> b - 3 \in q
    BY <1>0 DEF Shift
  <2>2. Pairs(b) = {k \in {b, b - 3} : k \in q}
    <3>1. \A k \in q : b - k \in {0, 3} <=> k \in {b, b - 3}
      BY <1>0
    <3> QED
      BY <3>1
  <2>3. b # b - 3
    OBVIOUS
  <2>4. CASE b \in q /\ b - 3 \in q
    <3>1. Pairs(b) = {b - 3} \cup {b}
      BY <2>2, <2>4
    <3>2. IsFiniteSet({b - 3}) /\ Cardinality({b - 3}) = 1
      BY FS_Singleton
    <3>3. Cardinality(Pairs(b)) = 1 + 1
      BY <2>3, <3>1, <3>2, FS_AddElement
    <3> QED
      BY <2>1, <2>4, <3>3 DEF Xor
  <2>5. CASE b \in q /\ b - 3 \notin q
    <3>1. Pairs(b) = {b}
      BY <2>2, <2>5
    <3>2. Cardinality({b}) = 1
      BY FS_Singleton
    <3> QED
      BY <2>1, <2>5, <3>1, <3>2 DEF Xor
  <2>6. CASE b \notin q /\ b - 3 \in q
    <3>1. Pairs(b) = {b - 3}
      BY <2>2, <2>6
    <3>2. Cardinality({b - 3}) = 1
      BY FS_Singleton
    <3> QED
      BY <2>1, <2>6, <3>1, <3>2 DEF Xor
  <2>7. CASE b \notin q /\ b - 3 \notin q
    <3>1. Pairs(b) = {}
      BY <2>2, <2>7
    <3>2. Cardinality(Pairs(b)) = 0
      BY <3>1, FS_EmptySet
    <3>3. b \notin Xor(q, Shift(q, 3))
      BY <2>1, <2>7 DEF Xor
    <3> HIDE DEF Pairs
    <3> QED
      BY <3>2, <3>3
  <2> QED
    BY <2>4, <2>5, <2>6, <2>7
<1>2. Xor(q, Shift(q, 3)) \subseteq 0 .. n + 2
  <2>1. \A k \in q : k \in 0 .. n + 2 /\ k + 3 \in 0 .. n + 2
    OBVIOUS
  <2> QED
    BY <2>1 DEF Xor, Shift
<1>3. Times(q, {0, 3}, n) = {b \in 0 .. n + 2 : Cardinality(Pairs(b)) % 2 = 1}
  BY DEF Times
<1> QED
  BY <1>1, <1>2, <1>3

(* The lowest and the highest bit of a product. *)
LEMMA EndsOfTimes ==
  ASSUME NEW n \in Nat, NEW q, q \subseteq 0 .. n - 1, q # {},
         NEW g, g \subseteq 0 .. GENERATOR_LENGTH - 1, GENERATOR_LENGTH - 1 \in g,
         GENERATOR_LENGTH \in Nat \ {0}
  PROVE  \E x, y \in q :
           /\ x <= y /\ y + GENERATOR_LENGTH - 1 \in Times(q, g, n)
           /\ 0 \in g => x \in Times(q, g, n)
<1> DEFINE Pairs(b) == {k \in q : b - k \in g}
<1>1. PICK x \in q : \A k \in q : x <= k
  <2>1. q \subseteq Nat
    OBVIOUS
  <2> QED
    BY <2>1, LeastNumber
<1>2. PICK y \in q : \A k \in q : k <= y
  <2>1. q \subseteq 0 .. n
    OBVIOUS
  <2> QED
    BY <2>1, GreatestNumber
<1>3. x \in 0 .. n - 1 /\ y \in 0 .. n - 1 /\ x <= y
  BY <1>2
<1>4. y + GENERATOR_LENGTH - 1 \in Times(q, g, n)
  <2>1. Pairs(y + GENERATOR_LENGTH - 1) = {y}
    <3>1. ASSUME NEW k \in q, y + GENERATOR_LENGTH - 1 - k \in g
          PROVE  k = y
      <4>1. k \in 0 .. n - 1 /\ k <= y /\ y + GENERATOR_LENGTH - 1 - k <= GENERATOR_LENGTH - 1
        BY <1>2, <3>1
      <4> QED
        BY <1>3, <4>1
    <3>2. y \in Pairs(y + GENERATOR_LENGTH - 1)
      <4>1. y + GENERATOR_LENGTH - 1 - y = GENERATOR_LENGTH - 1
        BY <1>3
      <4> QED
        BY <4>1
    <3>3. \A k \in Pairs(y + GENERATOR_LENGTH - 1) : k = y
      BY <3>1
    <3> HIDE DEF Pairs
    <3> QED
      BY <3>2, <3>3
  <2>2. Cardinality(Pairs(y + GENERATOR_LENGTH - 1)) = 1
    BY <2>1, FS_Singleton
  <2>3. y + GENERATOR_LENGTH - 1 \in 0 .. n + GENERATOR_LENGTH - 2
    BY <1>3
  <2> QED
    BY <2>2, <2>3 DEF Times
<1>5. 0 \in g => x \in Times(q, g, n)
  <2> SUFFICES ASSUME 0 \in g PROVE x \in Times(q, g, n)
    OBVIOUS
  <2>1. Pairs(x) = {x}
    <3>1. ASSUME NEW k \in q, x - k \in g
          PROVE  k = x
      <4>1. k \in 0 .. n - 1 /\ x <= k /\ x - k >= 0
        BY <1>1, <3>1
      <4> QED
        BY <1>3, <4>1
    <3>2. x - x \in g
      BY <1>3
    <3> QED
      BY <3>1, <3>2
  <2>2. Cardinality(Pairs(x)) = 1
    BY <2>1, FS_Singleton
  <2>3. x \in 0 .. n + GENERATOR_LENGTH - 2
    BY <1>3
  <2> QED
    BY <2>2, <2>3 DEF Times
<1> QED
  BY <1>3, <1>4, <1>5

(* main() counts detected errors: an error that generate_crc() divides without
   a remainder is not shorter than the generator and, for 9, of even weight. *)
THEOREM ErrorsAreDetected == CrcSpec => []DetectsErrors
<1>1. IInv => DetectsErrors
  <2> SUFFICES ASSUME IInv, Returned, crc = {}, data # {}, data \subseteq 0 .. in_bits - 1
               PROVE  /\ generator = {0, 3} => Cardinality(data) % 2 = 0
                      /\ 0 \in generator => \E a, b \in data : b - a >= GENERATOR_LENGTH - 1
    BY DEF DetectsErrors
  <2> DEFINE G == GENERATOR_LENGTH - 1
  <2>1. /\ in_bits \in Nat /\ GENERATOR_LENGTH \in Nat \ {0}
        /\ generator \subseteq 0 .. GENERATOR_LENGTH - 1 /\ GENERATOR_LENGTH - 1 \in generator
    BY CrcAssumption DEF IInv
  <2>2. PICK q \in SUBSET (0 .. in_bits - 1) : Quotient(q)
    BY DEF IInv
  <2>3. Shift(data, G) = Times(q, generator, in_bits)
    <3>1. Low(crc, Width) = {} /\ data \cap (0 .. in_bits - 1) = data
      BY DEF Low
    <3>2. Xor(Shift(data, G), Times(q, generator, in_bits)) = {}
      BY <2>2, <3>1 DEF Quotient, Padded
    <3> QED
      BY <3>2 DEF Xor
  <2>4. \A b \in Int : b \in Shift(data, G) => b - G \in data
    BY <2>1 DEF Shift
  <2>5. q # {}
    <3>1. PICK d \in data : TRUE
      OBVIOUS
    <3>2. d + G \in Times(q, generator, in_bits)
      BY <2>3 DEF Shift
    <3> SUFFICES ASSUME q = {} PROVE FALSE
      OBVIOUS
    <3>3. {k \in q : d + G - k \in generator} = {}
      OBVIOUS
    <3> QED
      BY <3>2, <3>3, FS_EmptySet DEF Times
  <2>6. 0 \in generator => \E a, b \in data : b - a >= GENERATOR_LENGTH - 1
    <3>1. PICK x, y \in q :
            /\ x <= y /\ y + GENERATOR_LENGTH - 1 \in Times(q, generator, in_bits)
            /\ 0 \in generator => x \in Times(q, generator, in_bits)
      BY <2>1, <2>5, EndsOfTimes
    <3>2. x \in Int /\ y \in Int
      OBVIOUS
    <3>3. y \in data
      <4>1. y + GENERATOR_LENGTH - 1 - G = y
        BY <2>1, <3>2
      <4> QED
        BY <2>1, <2>3, <2>4, <3>1, <3>2, <4>1
    <3>4. 0 \in generator => x - G \in data
      BY <2>3, <2>4, <3>1, <3>2
    <3>5. y - (x - G) >= G
      BY <2>1, <3>1, <3>2
    <3> QED
      BY <3>3, <3>4, <3>5
  <2>7. generator = {0, 3} => Cardinality(data) % 2 = 0
    <3> SUFFICES ASSUME generator = {0, 3} PROVE Cardinality(data) % 2 = 0
      OBVIOUS
    <3>1. GENERATOR_LENGTH = 4
      BY <2>1
    <3>2. Shift(data, 3) = Xor(q, Shift(q, 3))
      <4>1. Times(q, {0, 3}, in_bits) = Xor(q, Shift(q, 3))
        BY <2>1, <3>1, TimesNine
      <4> QED
        BY <2>3, <3>1, <4>1
    <3>3. IsFiniteSet(q) /\ q \subseteq Nat /\ IsFiniteSet(data) /\ data \subseteq Nat
      <4>1. IsFiniteSet(0 .. in_bits - 1)
        BY <2>1, FS_Interval
      <4>2. q \subseteq 0 .. in_bits - 1 /\ q \subseteq Nat /\ data \subseteq Nat
        OBVIOUS
      <4>3. IsFiniteSet(q) /\ IsFiniteSet(data)
        BY <4>1, <4>2, FS_Subset
      <4> QED
        BY <4>2, <4>3
    <3>4. IsFiniteSet(Shift(q, 3)) /\ Cardinality(Shift(q, 3)) = Cardinality(q)
      BY <3>3, MovedCardinality
    <3>5. Cardinality(Shift(data, 3)) = Cardinality(data)
      BY <3>3, MovedCardinality
    <3>6. Cardinality(Shift(data, 3)) % 2 # 1
      BY <3>2, <3>3, <3>4, XorOdd
    <3>7. Cardinality(data) \in Nat
      BY <3>3, FS_CardinalityType
    <3> QED
      BY <3>5, <3>6, <3>7
  <2> QED
    BY <2>6, <2>7
<1> QED
  BY <1>1, SpecIInv, PTL

-----------------------------------------------------------------------------
(* There is one remainder, and the table has that of every number *)

(* The product of a sum. *)
LEMMA TimesXor ==
  ASSUME NEW n \in Nat, NEW p, p \subseteq 0 .. n - 1, NEW q, q \subseteq 0 .. n - 1, NEW g
  PROVE  Times(Xor(p, q), g, n) = Xor(Times(p, g, n), Times(q, g, n))
<1> DEFINE Pairs(r, b) == {k \in r : b - k \in g}
           Places == 0 .. n + GENERATOR_LENGTH - 2
<1>1. \A r, b : b \in Times(r, g, n) <=> b \in Places /\ Cardinality(Pairs(r, b)) % 2 = 1
  BY DEF Times
<1>2. ASSUME NEW b
      PROVE  Cardinality(Pairs(Xor(p, q), b)) % 2 = 1
               <=> (Cardinality(Pairs(p, b)) % 2 = 1 <=> Cardinality(Pairs(q, b)) % 2 # 1)
  <2>1. IsFiniteSet(0 .. n - 1)
    BY FS_Interval
  <2>2. IsFiniteSet(Pairs(p, b)) /\ IsFiniteSet(Pairs(q, b))
    <3>1. Pairs(p, b) \subseteq 0 .. n - 1 /\ Pairs(q, b) \subseteq 0 .. n - 1
      OBVIOUS
    <3> QED
      BY <2>1, <3>1, FS_Subset
  <2>3. Pairs(Xor(p, q), b) = Xor(Pairs(p, b), Pairs(q, b))
    BY DEF Xor
  <2> HIDE DEF Pairs
  <2> QED
    BY <2>2, <2>3, XorOdd
<1> HIDE DEF Pairs, Places
<1>3. \A b : b \in Times(Xor(p, q), g, n) <=> b \in Xor(Times(p, g, n), Times(q, g, n))
  BY <1>1, <1>2 DEF Xor
<1> QED
  BY <1>3

(* The quotient of a multiple. *)
LEMMA QuotientOf ==
  ASSUME NEW s, NEW g, NEW n, IsMultiple(s, g, n)
  PROVE  \E q \in SUBSET (0 .. n - 1) : s = Times(q, g, n)
<1>1. PICK h \in Generators, m \in DOMAIN Messages :
        <<g, n, s>> \in {<<h, m, Times(q, h, m)>> : q \in SUBSET (0 .. m - 1)}
  BY DEF IsMultiple, Multiples
<1>2. PICK q \in SUBSET (0 .. m - 1) : <<g, n, s>> = <<h, m, Times(q, h, m)>>
  BY <1>1
<1>3. g = h /\ n = m /\ s = Times(q, h, m)
  BY <1>2
<1> QED
  BY <1>3

(* There is one remainder: the sum of two is a multiple of the generator
   that has no bit where the highest one of a multiple is.                 *)
LEMMA OneRemainder ==
  ASSUME generator \in Generators, NEW s, NEW r1, NEW r2, IsRemainder(r1, s), IsRemainder(r2, s)
  PROVE  r1 = r2
<1> DEFINE P == Shift(s, GENERATOR_LENGTH - 1)
           n == SHORT_BITS
<1>1. /\ n \in Nat /\ GENERATOR_LENGTH \in Nat \ {0}
      /\ generator \subseteq 0 .. GENERATOR_LENGTH - 1 /\ GENERATOR_LENGTH - 1 \in generator
  BY CrcAssumption, CrcTableAssumption
<1>2. PICK q1 \in SUBSET (0 .. n - 1) : Xor(P, r1) = Times(q1, generator, n)
  BY QuotientOf DEF IsRemainder
<1>3. PICK q2 \in SUBSET (0 .. n - 1) : Xor(P, r2) = Times(q2, generator, n)
  BY QuotientOf DEF IsRemainder
<1>4. Xor(q1, q2) \subseteq 0 .. n - 1
  BY DEF Xor
<1>5. Times(Xor(q1, q2), generator, n) = Xor(r1, r2)
  <2>1. Times(Xor(q1, q2), generator, n) = Xor(Xor(P, r1), Xor(P, r2))
    <3>1. q1 \subseteq 0 .. n - 1 /\ q2 \subseteq 0 .. n - 1
      OBVIOUS
    <3>2. Times(Xor(q1, q2), generator, n) = Xor(Times(q1, generator, n), Times(q2, generator, n))
      <4>1. \A g : Times(Xor(q1, q2), g, n) = Xor(Times(q1, g, n), Times(q2, g, n))
        BY <1>1, <3>1, TimesXor, ZenonT(40)
      <4> QED
        BY <4>1
    <3> QED
      BY <1>2, <1>3, <3>2
  <2> HIDE DEF P
  <2> QED
    BY <2>1 DEF Xor
<1>6. Xor(q1, q2) = {}
  <2> SUFFICES ASSUME Xor(q1, q2) # {} PROVE FALSE
    OBVIOUS
  <2>1. PICK y \in Xor(q1, q2) : y + GENERATOR_LENGTH - 1 \in Times(Xor(q1, q2), generator, n)
    <3>1. \E x, y \in Xor(q1, q2) :
            /\ x <= y /\ y + GENERATOR_LENGTH - 1 \in Times(Xor(q1, q2), generator, n)
            /\ 0 \in generator => x \in Times(Xor(q1, q2), generator, n)
      BY <1>1, <1>4, EndsOfTimes
    <3> QED
      BY <3>1
  <2>2. y + GENERATOR_LENGTH - 1 \in 0 .. GENERATOR_LENGTH - 2
    BY <1>5, <2>1 DEF IsRemainder, Xor
  <2>3. y \in Nat
    BY <1>4
  <2> QED
    BY <1>1, <2>2, <2>3
<1>7. q1 = q2
  BY <1>6 DEF Xor
<1>8. Xor(P, r1) = Xor(P, r2)
  BY <1>2, <1>3, <1>7
<1> HIDE DEF P
<1> QED
  BY <1>8 DEF Xor

-----------------------------------------------------------------------------
(* s is the smaller number: they differ first in a bit that t has. *)
Less(s, t) == \E b \in t \ s : \A c \in Nat : c > b => (c \in s <=> c \in t)
Below(t) == {s \in SUBSET (0 .. SHORT_BITS - 1) : Less(s, t)}

(* m is the lowest bit that is not in t: it is set, and the ones below it
   are cleared.                                                            *)
LEMMA PlusOneCarries ==
  ASSUME NEW t, t \subseteq 0 .. SHORT_BITS - 1
  PROVE  \E m \in 0 .. SHORT_BITS :
           /\ m \notin t /\ 0 .. m - 1 \subseteq t
           /\ \A b \in Nat : b \in PlusOne(t) <=> b = m \/ (b > m /\ b \in t)
<1> DEFINE Free == (0 .. SHORT_BITS) \ t
<1>1. SHORT_BITS \in Nat \ {0}
  BY CrcAssumption, CrcTableAssumption
<1>2. Free \subseteq Nat /\ SHORT_BITS \in Free
  BY <1>1
<1>3. PICK m \in Free : \A b \in Free : m <= b
  BY <1>2, LeastNumber
<1>4. m \in 0 .. SHORT_BITS /\ m \notin t
  OBVIOUS
<1>5. 0 .. m - 1 \subseteq t
  <2>1. ASSUME NEW b \in 0 .. m - 1, b \notin t PROVE FALSE
    <3>1. b \in Free
      BY <1>1, <1>4, <2>1
    <3> QED
      BY <1>3, <1>4, <3>1
  <2> QED
    BY <2>1
<1>6. ASSUME NEW b \in Nat
      PROVE  b \in PlusOne(t) <=> b = m \/ (b > m /\ b \in t)
  <2>1. b \in PlusOne(t) <=> b \in 0 .. SHORT_BITS /\ (b \in t <=> ~(0 .. b - 1 \subseteq t))
    BY DEF PlusOne
  <2>2. CASE b < m
    <3>1. b \in t /\ 0 .. b - 1 \subseteq t
      BY <1>4, <1>5, <2>2
    <3> QED
      BY <1>4, <2>1, <2>2, <3>1
  <2>3. CASE b = m
    BY <1>4, <1>5, <2>1, <2>3
  <2>4. CASE b > m
    <3>1. m \in 0 .. b - 1 /\ m \notin t
      BY <1>4, <2>4
    <3>2. b \in t => b \in 0 .. SHORT_BITS
      BY <1>1
    <3> QED
      BY <2>1, <2>4, <3>1, <3>2
  <2> QED
    BY <1>4, <2>2, <2>3, <2>4
<1> QED
  BY <1>4, <1>5, <1>6

(* What is below t + 1 is t and what is below t. *)
LEMMA BelowPlusOne ==
  ASSUME NEW t, t \subseteq 0 .. SHORT_BITS - 1
  PROVE  Below(PlusOne(t)) = Below(t) \cup {t}
<1>1. SHORT_BITS \in Nat \ {0}
  BY CrcAssumption, CrcTableAssumption
<1>2. PICK m \in 0 .. SHORT_BITS :
        /\ m \notin t /\ 0 .. m - 1 \subseteq t
        /\ \A b \in Nat : b \in PlusOne(t) <=> b = m \/ (b > m /\ b \in t)
  BY PlusOneCarries
<1>3. t \subseteq Nat /\ m \in Nat /\ PlusOne(t) \subseteq Nat
  BY <1>1, <1>2 DEF PlusOne
<1>4. ASSUME NEW s \in SUBSET (0 .. SHORT_BITS - 1), Less(s, PlusOne(t))
      PROVE  Less(s, t) \/ s = t
  <2>1. PICK b \in PlusOne(t) \ s : \A c \in Nat : c > b => (c \in s <=> c \in PlusOne(t))
    BY <1>4 DEF Less
  <2>2. b \in Nat /\ (b = m \/ (b > m /\ b \in t))
    BY <1>2, <1>3
  <2>3. \A c \in Nat : c > b => (c \in s <=> c \in t)
    BY <1>2, <1>3, <2>1, <2>2
  <2>4. CASE b \in t
    BY <2>1, <2>3, <2>4 DEF Less
  <2>5. CASE b \notin t
    <3>1. b = m
      BY <2>2, <2>5
    <3> DEFINE Missing == t \ s
    <3>2. CASE Missing = {}
      <4>1. \A c \in Nat : c \in s <=> c \in t
        <5> SUFFICES ASSUME NEW c \in Nat PROVE c \in s <=> c \in t
          OBVIOUS
        <5>1. CASE c > b
          BY <2>3, <5>1
        <5>2. CASE c = b
          BY <2>1, <2>5, <5>2
        <5>3. CASE c < b
          BY <1>2, <1>3, <2>2, <3>1, <3>2, <5>3
        <5> QED
          BY <2>2, <5>1, <5>2, <5>3
      <4>2. s \subseteq Nat
        OBVIOUS
      <4> QED
        BY <1>3, <4>1, <4>2
    <3>3. CASE Missing # {}
      <4>1. Missing \subseteq 0 .. SHORT_BITS
        BY <1>1
      <4>2. PICK d \in Missing : \A c \in Missing : c <= d
        BY <1>1, <3>3, <4>1, GreatestNumber
      <4>3. d \in Nat /\ d \in t \ s
        BY <1>3
      <4>4. d < b
        BY <2>2, <2>3, <2>5, <4>3
      <4>5. ASSUME NEW c \in Nat, c > d PROVE c \in s <=> c \in t
        <5>1. CASE c > b
          BY <2>3, <5>1
        <5>2. CASE c = b
          BY <2>1, <2>5, <5>2
        <5>3. CASE c < b
          <6>1. c \in t
            BY <1>2, <1>3, <3>1, <5>3
          <6>2. c \notin Missing
            BY <4>2, <4>3, <4>5
          <6> QED
            BY <6>1, <6>2
        <5> QED
          BY <2>2, <5>1, <5>2, <5>3
      <4> QED
        BY <4>3, <4>5 DEF Less
    <3> QED
      BY <3>2, <3>3
  <2> QED
    BY <2>4, <2>5
<1>5. ASSUME NEW s \in SUBSET (0 .. SHORT_BITS - 1), Less(s, t)
      PROVE  Less(s, PlusOne(t))
  <2>1. PICK b \in t \ s : \A c \in Nat : c > b => (c \in s <=> c \in t)
    BY <1>5 DEF Less
  <2>2. b \in Nat /\ b # m
    BY <1>2, <1>3
  <2>3. CASE b > m
    <3>1. b \in PlusOne(t) \ s
      BY <1>2, <2>1, <2>2, <2>3
    <3>2. \A c \in Nat : c > b => (c \in s <=> c \in PlusOne(t))
      BY <1>2, <1>3, <2>1, <2>2, <2>3
    <3> QED
      BY <3>1, <3>2 DEF Less
  <2>4. CASE b < m
    <3>1. m \in PlusOne(t) \ s
      BY <1>2, <1>3, <2>1, <2>2, <2>4
    <3>2. \A c \in Nat : c > m => (c \in s <=> c \in PlusOne(t))
      BY <1>2, <1>3, <2>1, <2>2, <2>4
    <3> QED
      BY <3>1, <3>2 DEF Less
  <2> QED
    BY <1>3, <2>2, <2>3, <2>4
<1>6. Less(t, PlusOne(t))
  <2>1. m \in PlusOne(t) \ t
    BY <1>2, <1>3
  <2>2. \A c \in Nat : c > m => (c \in t <=> c \in PlusOne(t))
    BY <1>2, <1>3
  <2> QED
    BY <2>1, <2>2 DEF Less
<1>7. \A s \in SUBSET (0 .. SHORT_BITS - 1) : Less(s, PlusOne(t)) <=> Less(s, t) \/ s = t
  BY <1>4, <1>5, <1>6
<1> QED
  BY <1>7 DEF Below

(* After the last number comes 2^SHORT_BITS, with all of them below it. *)
LEMMA EndOfTable ==
  /\ \A t : t \subseteq 0 .. SHORT_BITS - 1 /\ SHORT_BITS \in PlusOne(t) => PlusOne(t) = {SHORT_BITS}
  /\ Below({SHORT_BITS}) = SUBSET (0 .. SHORT_BITS - 1)
  /\ Below({}) = {}
<1>1. SHORT_BITS \in Nat \ {0}
  BY CrcAssumption, CrcTableAssumption
<1>2. ASSUME NEW t, t \subseteq 0 .. SHORT_BITS - 1, SHORT_BITS \in PlusOne(t)
      PROVE  PlusOne(t) = {SHORT_BITS}
  <2>1. PICK m \in 0 .. SHORT_BITS :
          /\ m \notin t /\ 0 .. m - 1 \subseteq t
          /\ \A b \in Nat : b \in PlusOne(t) <=> b = m \/ (b > m /\ b \in t)
    BY <1>2, PlusOneCarries
  <2>2. m = SHORT_BITS
    BY <1>1, <1>2, <2>1
  <2>3. PlusOne(t) \subseteq 0 .. SHORT_BITS
    BY DEF PlusOne
  <2>4. \A b \in PlusOne(t) : b = SHORT_BITS
    BY <1>1, <1>2, <2>1, <2>2, <2>3
  <2> QED
    BY <1>2, <2>4
<1>3. ASSUME NEW s \in SUBSET (0 .. SHORT_BITS - 1)
      PROVE  Less(s, {SHORT_BITS})
  <2>1. SHORT_BITS \in {SHORT_BITS} \ s
    BY <1>1
  <2>2. \A c \in Nat : c > SHORT_BITS => (c \in s <=> c \in {SHORT_BITS})
    BY <1>1
  <2> QED
    BY <2>1, <2>2 DEF Less
<1> QED
  BY <1>2, <1>3 DEF Below, Less

-----------------------------------------------------------------------------
(* generate_table() and main() *)

Shorts == SUBSET (0 .. SHORT_BITS - 1)

(* The number generate_crc() is called with, and its low bits. *)
CallOk ==
  /\ IInv
  /\ phase # "random"
  /\ phase = "table" => SHORT_BITS \notin index /\ data = index
  /\ phase = "results" =>
       /\ Len(results) < LOOKUP_LENGTH
       /\ Low(data, SHORT_BITS) = lookups[Len(results) + 1]

TableInv ==
  /\ index \subseteq 0 .. SHORT_BITS
  /\ SHORT_BITS \in index => index = {SHORT_BITS}
  /\ phase # "table" => index = {SHORT_BITS}
  /\ DOMAIN table = Below(index)

ResultsInv ==
  /\ phase \in {"table", "random", "results"}
  /\ lookups \in Seq(Shorts) /\ results \in Seq(SUBSET Int) /\ table_results \in Seq(SUBSET Int)
  /\ Len(lookups) <= LOOKUP_LENGTH
  /\ phase = "results" => Len(lookups) = LOOKUP_LENGTH
  /\ phase # "results" => results = <<>> /\ table_results = <<>>
  /\ Len(results) <= LOOKUP_LENGTH
  /\ Len(table_results) <= Len(results)

TInv ==
  /\ generator \in Generators /\ in_bits = SHORT_BITS
  /\ calling => CallOk
  /\ TableInv /\ ResultsInv
  /\ TableAgrees

-----------------------------------------------------------------------------
(* What the assumptions say of the widths. *)
LEMMA TableConstants ==
  /\ SHORT_BITS \in Nat \ {0} /\ SHORT_BITS \in DOMAIN Messages /\ LOOKUP_LENGTH \in Nat
  /\ LONG_BITS \in Nat /\ SHORT_BITS + GENERATOR_LENGTH <= LONG_BITS
  /\ GENERATOR_LENGTH \in Nat \ {0} /\ GENERATOR_LENGTH <= SHORT_BITS + 1
<1>1. SHORT_BITS \in DOMAIN Messages
  BY CrcTableAssumption
<1>2. SHORT_BITS + GENERATOR_LENGTH <= INT_BITS /\ INT_BITS <= LONG_BITS /\ INT_BITS \in Nat
  BY <1>1, CrcAssumption
<1> QED
  BY <1>1, <1>2, CrcAssumption, CrcTableAssumption

(* generate_crc() begins. *)
LEMMA CallBegins ==
  ASSUME TInv, NEW d, d \subseteq 0 .. LONG_BITS - 1, Call(d), UNCHANGED <<generator, in_bits>>
  PROVE  IInv' /\ data' = d
<1>1. StartsDivision'
  BY TableConstants DEF TInv, Call, StartsDivision
<1> QED
  BY <1>1, StartsIInv, PTL DEF Call

(* generate_crc() returns: a short has the remainder of the low bits. *)
LEMMA CallReturns ==
  ASSUME IInv, Returned, in_bits = SHORT_BITS, generator \in Generators,
         NEW s, s = Low(data, SHORT_BITS)
  PROVE  IsRemainder(Short(crc), s)
<1>1. bit = GENERATOR_LENGTH - 1 /\ Width = SHORT_BITS + GENERATOR_LENGTH - 1
  BY TableConstants DEF IInv, Returned, Width
<1>2. \A b \in GENERATOR_LENGTH - 1 .. SHORT_BITS + GENERATOR_LENGTH - 2 : b \notin crc
  BY <1>1 DEF IInv, Passed
<1>3. Short(crc) \subseteq 0 .. GENERATOR_LENGTH - 2
  BY <1>2, TableConstants DEF Short, Low
<1>4. Low(crc, Width) = Short(crc)
  BY <1>1, <1>2, TableConstants DEF Short, Low
<1>5. Padded = Shift(s, GENERATOR_LENGTH - 1)
  BY DEF Padded, Low
<1>6. IsMultiple(Xor(Padded, Low(crc, Width)), generator, SHORT_BITS)
  BY IInvDivides DEF Dividing, Width
<1> QED
  BY <1>3, <1>4, <1>5, <1>6 DEF IsRemainder

LEMMA InitTInv == TableInit => TInv
<1> SUFFICES ASSUME TableInit PROVE TInv
  OBVIOUS
<1>1. DOMAIN table = {} /\ DOMAIN results = {} /\ DOMAIN table_results = {}
  BY DEF TableInit
<1>2. TableInv
  BY <1>1, EndOfTable DEF TableInit, TableInv
<1>3. ResultsInv
  BY TableConstants DEF TableInit, ResultsInv
<1>4. TableAgrees
  BY <1>1 DEF TableAgrees, Remainders, SameBelowHalf
<1> QED
  BY <1>2, <1>3, <1>4 DEF TableInit, TInv

LEMMA NextTInv == TInv /\ [TableNext]_tableVars => TInv'
<1> SUFFICES ASSUME TInv, [TableNext]_tableVars PROVE TInv'
  OBVIOUS
<1> USE TableConstants
<1>0. /\ generator \in Generators /\ in_bits = SHORT_BITS
      /\ (calling => CallOk) /\ TableInv /\ ResultsInv /\ TableAgrees
  BY DEF TInv
<1>1. CASE UNCHANGED tableVars
  BY <1>0, <1>1 DEF tableVars, crcVars, arguments, TInv, CallOk, IInv, Passed, Quotient, Padded, Width,
       TableInv, ResultsInv, TableAgrees, Remainders, SameBelowHalf, IsRemainder
<1>2. CASE TableCall
  <2>1. index \subseteq 0 .. SHORT_BITS - 1 /\ index \subseteq 0 .. LONG_BITS - 1
    BY <1>0, <1>2 DEF TableCall, TableInv
  <2>2. UNCHANGED <<generator, in_bits, phase, index, table, lookups, results, table_results>> /\ Call(index)
    BY <1>2 DEF TableCall
  <2>3. IInv' /\ data' = index
    BY <2>1, <2>2, CallBegins
  <2>4. CallOk'
    BY <1>2, <2>2, <2>3 DEF CallOk, TableCall
  <2> QED
    BY <1>0, <2>2, <2>4 DEF TInv, TableInv, ResultsInv, TableAgrees, Remainders, SameBelowHalf, IsRemainder
<1>3. CASE TableEntry
  <2>1. CallOk /\ phase = "table" /\ Returned /\ ~calling' /\ data = index /\ SHORT_BITS \notin index
    BY <1>0, <1>3 DEF TableEntry, Return, CallOk
  <2>2. UNCHANGED <<generator, in_bits, phase, lookups, results, table_results>>
    BY <1>3 DEF TableEntry, crcVars, arguments
  <2>3. index' = PlusOne(index)
        /\ table' = [s \in DOMAIN table \cup {index} |-> IF s = index THEN Short(crc) ELSE table[s]]
    BY <1>3 DEF TableEntry
  <2>4. index \subseteq 0 .. SHORT_BITS - 1 /\ Low(data, SHORT_BITS) = index
    <3>1. index \subseteq 0 .. SHORT_BITS - 1
      <4>1. \A b \in index : b \in 0 .. SHORT_BITS /\ b # SHORT_BITS
        BY <1>0, <2>1 DEF TableInv
      <4> QED
        BY <4>1
    <3> QED
      BY <2>1, <3>1 DEF Low
  <2>5. TableInv'
    <3>1. DOMAIN table' = Below(index')
      BY <1>0, <2>3, <2>4, BelowPlusOne DEF TableInv
    <3>2. index' \subseteq 0 .. SHORT_BITS
      BY <2>3 DEF PlusOne
    <3>3. SHORT_BITS \in index' => index' = {SHORT_BITS}
      BY <2>3, <2>4, EndOfTable
    <3> QED
      BY <2>1, <2>2, <3>1, <3>2, <3>3 DEF TableInv
  <2>6. IsRemainder(Short(crc), index)
    BY <1>0, <2>1, <2>4, CallReturns DEF CallOk
  <2>7. TableAgrees'
    <3>1. \A s \in DOMAIN table' : IsRemainder(table'[s], s)
      BY <1>0, <2>3, <2>6 DEF TableAgrees, Remainders
    <3>2. results = <<>> /\ table_results = <<>>
      BY <1>0, <2>1 DEF ResultsInv
    <3>3. DOMAIN results = {} /\ DOMAIN table_results = {}
      BY <3>2
    <3> QED
      BY <2>2, <3>1, <3>3 DEF TableAgrees, Remainders, SameBelowHalf, IsRemainder
  <2>8. ResultsInv'
    BY <1>0, <2>2 DEF ResultsInv
  <2> QED
    BY <1>0, <2>1, <2>2, <2>5, <2>7, <2>8 DEF TInv
<1>4. CASE TableDone
  <2>1. /\ UNCHANGED <<generator, in_bits, index, table, lookups, results, table_results, calling>>
        /\ phase = "table" /\ phase' = "random" /\ SHORT_BITS \in index
    BY <1>4 DEF TableDone, crcVars, arguments
  <2>2. ~calling
    BY <1>0, <2>1 DEF CallOk
  <2> QED
    BY <1>0, <2>1, <2>2 DEF TInv, TableInv, ResultsInv, TableAgrees, Remainders, SameBelowHalf, IsRemainder
<1>5. CASE Lookup
  <2>1. /\ UNCHANGED <<generator, in_bits, phase, index, table, results, table_results, calling>>
        /\ phase = "random" /\ Len(lookups) < LOOKUP_LENGTH
    BY <1>5 DEF Lookup, crcVars, arguments
  <2>2. PICK s \in Shorts : lookups' = Append(lookups, s)
    BY <1>5 DEF Lookup, Shorts
  <2>3. ~calling
    BY <1>0, <2>1 DEF CallOk
  <2>4. lookups' \in Seq(Shorts) /\ Len(lookups') = Len(lookups) + 1
    BY <1>0, <2>2, AppendProperties DEF ResultsInv
  <2>5. ResultsInv'
    BY <1>0, <2>1, <2>4 DEF ResultsInv
  <2>6. DOMAIN results = {} /\ DOMAIN table_results = {}
    BY <1>0, <2>1 DEF ResultsInv
  <2>7. TableAgrees'
    BY <1>0, <2>1, <2>6 DEF TableAgrees, Remainders, SameBelowHalf, IsRemainder
  <2> QED
    BY <1>0, <2>1, <2>3, <2>5, <2>7 DEF TInv, TableInv
<1>6. CASE LookupsDone
  <2>1. /\ UNCHANGED <<generator, in_bits, index, table, lookups, results, table_results, calling>>
        /\ phase = "random" /\ phase' = "results" /\ Len(lookups) = LOOKUP_LENGTH
    BY <1>6 DEF LookupsDone, crcVars, arguments
  <2>2. ~calling
    BY <1>0, <2>1 DEF CallOk
  <2> QED
    BY <1>0, <2>1, <2>2 DEF TInv, TableInv, ResultsInv, TableAgrees, Remainders, SameBelowHalf, IsRemainder
<1>7. CASE ResultCall
  <2> DEFINE s == lookups[Len(results) + 1]
  <2>1. /\ UNCHANGED <<generator, in_bits, phase, index, table, lookups, results, table_results>>
        /\ Call(FromShort(s)) /\ phase = "results" /\ Len(results) < LOOKUP_LENGTH
    BY <1>7 DEF ResultCall
  <2>2. s \in Shorts
    <3>1. Len(results) + 1 \in 1 .. Len(lookups)
      BY <1>0, <2>1, LenProperties DEF ResultsInv
    <3> QED
      BY <1>0, <3>1, ElementOfSeq DEF ResultsInv
  <2> HIDE DEF s
  <2>3. FromShort(s) \subseteq 0 .. LONG_BITS - 1 /\ Low(FromShort(s), SHORT_BITS) = s
    <3> DEFINE Sign == SHORT_BITS .. LONG_BITS - 1
    <3>1. s \subseteq 0 .. SHORT_BITS - 1 /\ 0 .. SHORT_BITS - 1 \subseteq 0 .. LONG_BITS - 1
      BY <2>2 DEF Shorts
    <3>2. Sign \cap (0 .. SHORT_BITS - 1) = {} /\ Sign \subseteq 0 .. LONG_BITS - 1
      OBVIOUS
    <3>3. FromShort(s) = s \/ FromShort(s) = s \cup Sign
      BY DEF FromShort
    <3> HIDE DEF Sign
    <3>4. FromShort(s) \subseteq 0 .. LONG_BITS - 1
      BY <3>1, <3>2, <3>3
    <3> QED
      BY <3>1, <3>2, <3>3, <3>4 DEF Low
  <2>4. IInv' /\ data' = FromShort(s)
    BY <2>1, <2>3, CallBegins
  <2>5. CallOk'
    BY <2>1, <2>3, <2>4 DEF CallOk, s
  <2> QED
    BY <1>0, <2>1, <2>5 DEF TInv, TableInv, ResultsInv, TableAgrees, Remainders, SameBelowHalf, IsRemainder
<1>8. CASE Result
  <2>1. /\ UNCHANGED <<generator, in_bits, phase, index, table, lookups, table_results>>
        /\ results' = Append(results, Short(crc))
        /\ CallOk /\ Returned /\ phase = "results" /\ ~calling'
    BY <1>0, <1>8 DEF Result, Return, crcVars, arguments
  <2>2. /\ Len(results) < LOOKUP_LENGTH
        /\ Low(data, SHORT_BITS) = lookups[Len(results) + 1]
    BY <2>1 DEF CallOk
  <2>3. IsRemainder(Short(crc), lookups[Len(results) + 1])
    BY <1>0, <2>1, <2>2, CallReturns DEF CallOk
  <2>4. Short(crc) \in SUBSET Int
    BY DEF Short, Low
  <2>5. /\ results' \in Seq(SUBSET Int) /\ Len(results') = Len(results) + 1
        /\ \A n \in 1 .. Len(results) : results'[n] = results[n]
        /\ results'[Len(results) + 1] = Short(crc)
    BY <1>0, <2>1, <2>4, AppendProperties DEF ResultsInv
  <2>6. ResultsInv'
    BY <1>0, <2>1, <2>2, <2>5, LenProperties DEF ResultsInv
  <2>7. /\ DOMAIN results = 1 .. Len(results) /\ DOMAIN results' = 1 .. Len(results')
        /\ DOMAIN table_results = 1 .. Len(table_results)
        /\ Len(results) \in Nat /\ Len(table_results) \in Nat
    BY <1>0, <2>5, LenProperties DEF ResultsInv
  <2>8. Remainders'
    <3>1. \A n \in DOMAIN results' : IsRemainder(results'[n], lookups[n])
      BY <1>0, <2>3, <2>5, <2>7 DEF TableAgrees, Remainders
    <3> QED
      BY <1>0, <2>1, <3>1 DEF TableAgrees, Remainders, IsRemainder
  <2>9. SameBelowHalf'
    BY <1>0, <2>1, <2>5, <2>7 DEF TableAgrees, SameBelowHalf, ResultsInv
  <2> QED
    BY <1>0, <2>1, <2>6, <2>8, <2>9 DEF TInv, TableInv, TableAgrees
<1>9. CASE TableResult
  <2> DEFINE k == Len(table_results) + 1
             s == lookups[k]
  <2>1. /\ UNCHANGED <<generator, in_bits, phase, calling, index, table, lookups, results>>
        /\ phase = "results" /\ ~calling
        /\ Len(results) = LOOKUP_LENGTH /\ Len(table_results) < LOOKUP_LENGTH
    BY <1>9 DEF TableResult, crcVars, arguments
  <2>2. PICK r \in Read(s) : table_results' = Append(table_results, r)
    BY <1>9 DEF TableResult
  <2>3. /\ k \in 1 .. Len(lookups) /\ k \in 1 .. Len(results) /\ Len(table_results) \in Nat
        /\ DOMAIN results = 1 .. Len(results)
        /\ DOMAIN table_results = 1 .. Len(table_results)
    BY <1>0, <2>1, LenProperties DEF ResultsInv
  <2>4. s \in Shorts
    BY <1>0, <2>3, ElementOfSeq DEF ResultsInv
  <2>5. IsRemainder(results[k], s)
    BY <1>0, <2>3 DEF TableAgrees, Remainders
  <2>6. ~Negative(s) => r = results[k] /\ r \in SUBSET Int
    <3> SUFFICES ASSUME ~Negative(s) PROVE r = results[k] /\ r \in SUBSET Int
      OBVIOUS
    <3>1. r = table[s]
      BY <2>2 DEF Read
    <3>2. s \in DOMAIN table
      BY <1>0, <2>1, <2>4, EndOfTable DEF TableInv, Shorts
    <3>3. IsRemainder(r, s)
      BY <1>0, <3>1, <3>2 DEF TableAgrees, Remainders
    <3> HIDE DEF s, k
    <3>4. r = results[k]
      BY <1>0, <2>5, <3>3, OneRemainder
    <3> QED
      BY <3>3, <3>4 DEF IsRemainder
  <2>7. r \in SUBSET Int
    BY <2>2, <2>6 DEF Read
  <2> HIDE DEF s
  <2>8. /\ table_results' \in Seq(SUBSET Int) /\ Len(table_results') = k
        /\ \A n \in 1 .. Len(table_results) : table_results'[n] = table_results[n]
        /\ table_results'[k] = r
    BY <1>0, <2>2, <2>7, AppendProperties DEF ResultsInv
  <2>9. ResultsInv'
    BY <1>0, <2>1, <2>3, <2>8 DEF ResultsInv
  <2>10. DOMAIN table_results' = 1 .. k
    BY <2>8, LenProperties
  <2>11. SameBelowHalf'
    <3>1. ASSUME NEW n \in 1 .. k, ~Negative(lookups[n])
          PROVE  table_results'[n] = results[n]
      <4>1. CASE n = k
        BY <2>6, <2>8, <3>1, <4>1 DEF s
      <4>2. CASE n # k
        <5>1. n \in 1 .. Len(table_results)
          BY <2>3, <4>2
        <5> QED
          BY <1>0, <2>3, <2>8, <3>1, <5>1 DEF TableAgrees, SameBelowHalf
      <4> QED
        BY <4>1, <4>2
    <3> HIDE DEF k
    <3> QED
      BY <2>1, <2>10, <3>1 DEF SameBelowHalf, Negative
  <2>12. Remainders'
    BY <1>0, <2>1 DEF TableAgrees, Remainders, IsRemainder
  <2> QED
    BY <1>0, <2>1, <2>9, <2>11, <2>12 DEF TInv, TableInv, TableAgrees
<1>10. CASE Compute
  <2>1. /\ UNCHANGED <<generator, data, in_bits, phase, calling, index, table, lookups, results, table_results>>
        /\ calling /\ Divide
    BY <1>10 DEF Compute, Divide, arguments
  <2>2. IInv'
    BY <1>0, <2>1, NextIInv DEF CallOk
  <2>3. CallOk'
    BY <1>0, <2>1, <2>2 DEF CallOk
  <2> QED
    BY <1>0, <2>1, <2>3 DEF TInv, TableInv, ResultsInv, TableAgrees, Remainders, SameBelowHalf, IsRemainder
<1> QED
  BY <1>1, <1>2, <1>3, <1>4, <1>5, <1>6, <1>7, <1>8, <1>9, <1>10 DEF TableNext

(* generate_table() and generate_crc() agree: entries and results are the
   remainders of their numbers, also of those that became negative in a
   short, and so table[lookups[i]] is results[i] where the table is read.  *)
THEOREM LookingUpAgrees == TableSpec => []TableAgrees
<1>1. TInv => TableAgrees
  BY DEF TInv
<1> QED
  BY <1>1, InitTInv, NextTInv, PTL DEF TableSpec

-----------------------------------------------------------------------------
(* checksum.cpp *)




(* f gives the sums of the first 0 to n numbers of s. *)
SumsTo(f, n, s) == f = [k \in 0 .. n |-> IF k = 0 THEN 0 ELSE f[k - 1] + (s[k] % WORD)]

(* There is such a function for every n: for the least without one, the
   function for n - 1 could be extended.                                   *)
LEMMA SumsExist ==
  ASSUME NEW s, NEW n \in Nat
  PROVE  \E f : SumsTo(f, n, s)
<1> DEFINE T == {m \in Nat : ~\E f : SumsTo(f, m, s)}
<1>1. CASE T = {}
  BY <1>1
<1>2. CASE T # {}
  <2>1. PICK m \in T : \A y \in T : m <= y
    BY <1>2, LeastNumber
  <2>2. m # 0
    <3> DEFINE zero == [k \in 0 .. 0 |-> 0]
    <3>1. \A k \in 0 .. 0 : k = 0
      OBVIOUS
    <3>2. SumsTo(zero, 0, s)
      BY <3>1 DEF SumsTo
    <3> QED
      BY <3>2
  <2>3. m - 1 \in Nat /\ m - 1 \notin T
    BY <2>1, <2>2
  <2>4. PICK f : SumsTo(f, m - 1, s)
    BY <2>3
  <2> DEFINE g == [k \in 0 .. m |-> IF k = m THEN f[m - 1] + (s[m] % WORD) ELSE f[k]]
  <2>5. ASSUME NEW k \in 0 .. m
        PROVE  g[k] = IF k = 0 THEN 0 ELSE g[k - 1] + (s[k] % WORD)
    <3>1. CASE k = m
      BY <2>2, <2>3, <3>1
    <3>2. CASE k # m
      <4>1. k \in 0 .. m - 1 /\ (k # 0 => k - 1 \in 0 .. m - 1)
        BY <2>3, <3>2
      <4>2. f[k] = IF k = 0 THEN 0 ELSE f[k - 1] + (s[k] % WORD)
        BY <2>4, <4>1 DEF SumsTo
      <4> QED
        BY <2>3, <3>2, <4>1, <4>2
    <3> QED
      BY <3>1, <3>2
  <2>6. g = [k \in 0 .. m |-> g[k]]
    OBVIOUS
  <2> HIDE DEF g
  <2>7. SumsTo(g, m, s)
    BY <2>5, <2>6 DEF SumsTo
  <2> QED
    BY <2>7
<1> QED
  BY <1>1, <1>2

(* What TotalTo is. *)
LEMMA TotalToUnfolds ==
  ASSUME input \in Seq(Int)
  PROVE  /\ TotalTo[0] = 0
         /\ \A n \in 1 .. Len(input) : TotalTo[n] = TotalTo[n - 1] + (input[n] % WORD)
<1>1. Len(input) \in Nat
  OBVIOUS
<1>2. PICK f : SumsTo(f, Len(input), input)
  BY <1>1, SumsExist
<1>3. TotalTo = [k \in 0 .. Len(input) |-> IF k = 0 THEN 0 ELSE TotalTo[k - 1] + (input[k] % WORD)]
  BY <1>2, Zenon DEF TotalTo, SumsTo
<1>4. \A k \in 0 .. Len(input) :
        TotalTo[k] = IF k = 0 THEN 0 ELSE TotalTo[k - 1] + (input[k] % WORD)
  BY <1>3, Zenon
<1> QED
  BY <1>1, <1>4

LEMMA Multiple ==
  ASSUME NEW k \in Nat, NEW m \in Nat \ {0}
  PROVE  (k * m) % m = 0
OBVIOUS

(* Quotient and remainder. *)
LEMMA DivMod ==
  ASSUME NEW x \in Nat, NEW m \in Nat \ {0}
  PROVE  /\ x \div m \in Nat /\ x % m \in 0 .. m - 1
         /\ x = m * (x \div m) + (x % m)
<1>1. x \div m \in Int /\ x % m \in 0 .. m - 1
  OBVIOUS
<1>2. x = m * (x \div m) + (x % m)
  OBVIOUS
<1>3. x \div m >= 0
  BY <1>1, <1>2
<1> QED
  BY <1>1, <1>2, <1>3

(* What is printed, less the carry of the fold, makes the sum a multiple. *)
LEMMA FoldedOnce ==
  ASSUME NEW t \in Nat, NEW f, f = (t % WORD) + (t \div WORD)
  PROVE  (t + (WORD - 1 - (f % WORD) - (f \div WORD))) % (WORD - 1) = 0
<1> DEFINE q == t \div WORD
           a == t % WORD
           r == f \div WORD
           b == f % WORD
           m == WORD - 1
<1>1. WORD \in Nat \ {0} /\ m \in Nat \ {0} /\ WORD = m + 1
  BY ChecksumAssumption
<1>2. q \in Nat /\ a \in Nat /\ t = WORD * q + a
  BY <1>1, DivMod
<1>3. f \in Nat /\ f = a + q
  BY <1>2
<1>4. r \in Nat /\ b \in Nat /\ f = WORD * r + b
  <2>1. f \in Nat /\ WORD \in Nat \ {0}
    BY <1>1, <1>3
  <2>2. f \div WORD \in Nat /\ f % WORD \in 0 .. WORD - 1 /\ f = WORD * (f \div WORD) + (f % WORD)
    BY <2>1, DivMod
  <2> QED
    BY <1>1, <2>2
<1> HIDE DEF q, a, r, b, m
<1>5. t = m * q + q + a
  BY <1>1, <1>2
<1>6. a = m * r + r + b - q
  BY <1>1, <1>2, <1>3, <1>4
<1>7. t + (m - b - r) = m * q + m * r + m
  <2>1. m * q \in Nat /\ m * r \in Nat
    BY <1>1, <1>2, <1>4
  <2> QED
    BY <1>1, <1>2, <1>4, <1>5, <1>6, <2>1
<1>8. m * q + m * r + m = (q + r + 1) * m /\ q + r + 1 \in Nat
  BY <1>1, <1>2, <1>4
<1>9. (t + (m - b - r)) % m = 0
  BY <1>1, <1>7, <1>8, Multiple
<1> QED
  BY <1>9 DEF b, r, m

ChecksumInv ==
  /\ input \in Seq(Int) /\ sum \in Nat
  /\ stage \in {"adding", "folded", "printed"}
  /\ Total \in Nat
  /\ stage = "adding" =>
       /\ split_line \in Seq(Int) /\ Len(split_line) <= Len(input)
       /\ \A k \in 1 .. Len(split_line) : split_line[k] = input[Len(input) - Len(split_line) + k]
       /\ sum = TotalTo[Len(input) - Len(split_line)]
  /\ stage \in {"folded", "printed"} => sum = (Total % WORD) + (Total \div WORD)
  /\ stage = "printed" => checksum = WORD - 1 - (sum % WORD)

(* The sums of the input are numbers. *)
LEMMA TotalIsNatural ==
  ASSUME input \in Seq(Int)
  PROVE  \A n \in 0 .. Len(input) : TotalTo[n] \in Nat
<1> DEFINE T == {n \in 0 .. Len(input) : TotalTo[n] \notin Nat}
<1>1. CASE T # {}
  <2>1. PICK n \in T : \A y \in T : n <= y
    <3>1. T \subseteq Nat
      OBVIOUS
    <3> HIDE DEF T
    <3> QED
      BY <1>1, <3>1, LeastNumber
  <2>2. n # 0
    BY TotalToUnfolds
  <2>3. TotalTo[n - 1] \in Nat /\ n \in 1 .. Len(input)
    BY <2>1, <2>2
  <2>4. input[n] % WORD \in Nat
    BY <2>3, ChecksumAssumption
  <2>5. TotalTo[n] \in Nat
    BY <2>3, <2>4, TotalToUnfolds
  <2> QED
    BY <2>5
<1> QED
  BY <1>1

LEMMA InitChecksum == ChecksumInit => ChecksumInv
<1> SUFFICES ASSUME ChecksumInit PROVE ChecksumInv
  OBVIOUS
<1>1. input \in Seq(Int) /\ split_line = input /\ sum = 0 /\ stage = "adding" /\ Len(input) \in Nat
  BY ChecksumAssumption DEF ChecksumInit
<1>2. Total \in Nat /\ TotalTo[0] = 0
  BY <1>1, TotalIsNatural, TotalToUnfolds DEF Total
<1>3. Len(input) - Len(split_line) = 0
  BY <1>1
<1> QED
  BY <1>1, <1>2, <1>3 DEF ChecksumInv

LEMMA NextChecksum == ChecksumInv /\ [ChecksumNext]_checksumVars => ChecksumInv'
<1> SUFFICES ASSUME ChecksumInv, [ChecksumNext]_checksumVars PROVE ChecksumInv'
  OBVIOUS
<1>1. input' = input
  BY DEF ChecksumNext, Add, Fold, PrintChecksum, checksumVars
<1>2. TotalTo' = TotalTo /\ Total' = Total
  BY <1>1 DEF TotalTo, Total
<1> USE <1>1, <1>2
<1>3. CASE Add
  <2> DEFINE n == Len(input) - Len(split_line)
  <2>1. /\ stage = "adding" /\ stage' = "adding" /\ split_line # <<>>
        /\ split_line' = Tail(split_line) /\ sum' = sum + (Head(split_line) % WORD)
    BY <1>3 DEF Add
  <2>2. /\ split_line \in Seq(Int) /\ Len(split_line) <= Len(input) /\ input \in Seq(Int)
        /\ sum = TotalTo[n] /\ sum \in Nat
        /\ \A k \in 1 .. Len(split_line) : split_line[k] = input[n + k]
    BY <2>1 DEF ChecksumInv
  <2>3. /\ split_line' \in Seq(Int) /\ Len(split_line') = Len(split_line) - 1
        /\ Len(split_line) \in Nat \ {0} /\ Len(input) \in Nat
        /\ Head(split_line) = split_line[1] /\ split_line[1] \in Int
        /\ \A k \in 1 .. Len(split_line') : split_line'[k] = split_line[k + 1]
    BY <2>1, <2>2
  <2>4. n + 1 \in 1 .. Len(input) /\ n + 1 = Len(input) - Len(split_line') /\ n \in Nat
    BY <2>2, <2>3
  <2>5. split_line[1] = input[n + 1]
    <3>1. 1 \in 1 .. Len(split_line)
      BY <2>3
    <3> QED
      BY <2>2, <3>1
  <2>6. ASSUME NEW k \in 1 .. Len(split_line')
        PROVE  split_line'[k] = input[Len(input) - Len(split_line') + k]
    <3>1. k + 1 \in 1 .. Len(split_line) /\ split_line'[k] = split_line[k + 1]
      BY <2>3
    <3>2. n + (k + 1) = Len(input) - Len(split_line') + k
      BY <2>3, <2>4
    <3> QED
      BY <2>2, <3>1, <3>2
  <2>7. sum' = TotalTo[n + 1]
    <3>1. (n + 1) - 1 = n
      BY <2>4
    <3> QED
      BY <2>1, <2>2, <2>3, <2>4, <2>5, <3>1, TotalToUnfolds
  <2>8. sum' \in Nat
    BY <2>2, <2>4, <2>7, TotalIsNatural
  <2> QED
    BY <2>1, <2>2, <2>3, <2>4, <2>6, <2>7, <2>8 DEF ChecksumInv
<1>4. CASE Fold
  <2>1. stage = "adding" /\ split_line = <<>> /\ stage' = "folded" /\ sum' = (sum % WORD) + (sum \div WORD)
    BY <1>4 DEF Fold
  <2>2. sum = Total
    <3>1. Len(input) - Len(split_line) = Len(input)
      BY <2>1 DEF ChecksumInv
    <3> QED
      BY <2>1, <3>1 DEF ChecksumInv, Total
  <2>3. sum' \in Nat
    <3>1. sum \in Nat /\ WORD \in Nat \ {0}
      BY ChecksumAssumption DEF ChecksumInv
    <3>2. sum % WORD \in 0 .. WORD - 1 /\ sum \div WORD \in Nat
      BY <3>1, DivMod
    <3> QED
      BY <2>1, <3>1, <3>2
  <2> QED
    BY <2>1, <2>2, <2>3 DEF ChecksumInv
<1>5. CASE PrintChecksum
  BY <1>5 DEF PrintChecksum, ChecksumInv
<1>6. CASE UNCHANGED checksumVars
  BY <1>6 DEF checksumVars, ChecksumInv
<1> QED
  BY <1>3, <1>4, <1>5, <1>6 DEF ChecksumNext

(* main() of checksum.cpp, for any numbers and any count of them: subtracting
   the carry that its one fold left in, the checksum verifies.             *)
THEOREM ChecksumRight == ChecksumSpec => []RightButForTheCarry
<1>1. ChecksumInv => RightButForTheCarry
  <2> SUFFICES ASSUME ChecksumInv, stage = "printed" PROVE Verifies(checksum - (sum \div WORD))
    BY DEF RightButForTheCarry
  <2>1. Total \in Nat /\ sum = (Total % WORD) + (Total \div WORD) /\ checksum = WORD - 1 - (sum % WORD)
    BY DEF ChecksumInv
  <2>2. (Total + (WORD - 1 - (sum % WORD) - (sum \div WORD))) % (WORD - 1) = 0
    BY <2>1, FoldedOnce
  <2> QED
    BY <2>1, <2>2 DEF Verifies
<1> QED
  BY <1>1, InitChecksum, NextChecksum, PTL DEF ChecksumSpec
=============================================================================
