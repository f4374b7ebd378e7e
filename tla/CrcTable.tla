------------------------------ MODULE CrcTable ------------------------------
(***************************************************************************)
(* main() of MP3/crc/crc.cpp with a generator: it fills a table with the   *)
(* remainder of every 16-bit number, draws random numbers, and computes    *)
(* the remainders of those once by generate_crc() and once by looking them *)
(* up.  Numbers are sets of bits as in Crc; the width of a short is also   *)
(* the in_bits of every call.                                              *)
(***************************************************************************)
EXTENDS Crc, Sequences

CONSTANTS
  SHORT_BITS,     \* 16
  LOOKUP_LENGTH   \* 8192 in the code

(* A remainder fits in a short. *)
ASSUME CrcTableAssumption ==
  /\ LOOKUP_LENGTH \in Nat /\ SHORT_BITS \in DOMAIN Messages \ {0}
  /\ GENERATOR_LENGTH <= SHORT_BITS + 1

VARIABLES
  phase,       \* the loop main() is in
  calling,  \* it waits for generate_crc()
  index,       \* i of generate_table()
  table, lookups, results, table_results

tableVars == <<crcVars, phase, calling, index, table, lookups, results, table_results>>

TableInit ==
  /\ generator \in Generators
  /\ in_bits = SHORT_BITS /\ data = {} /\ crc = {} /\ bit = 0
  /\ phase = "table" /\ calling = FALSE
  /\ index = {} /\ table = <<>> /\ lookups = <<>> /\ results = <<>> /\ table_results = <<>>

Call(d) ==
  /\ ~calling /\ calling' = TRUE
  /\ data' = d
  /\ crc' = Long(Shift(d, GENERATOR_LENGTH - 1))
  /\ bit' = in_bits + GENERATOR_LENGTH - 1

Return == calling /\ Returned /\ calling' = FALSE

(* A long or an int stored in a short, and a short where an int is needed. *)
Short(s) == Low(s, SHORT_BITS)
Negative(s) == SHORT_BITS - 1 \in s
FromShort(s) == IF Negative(s) THEN s \cup (SHORT_BITS .. LONG_BITS - 1) ELSE s

(* ++i: a bit changes if all the bits below it are one. *)
PlusOne(s) == {b \in 0 .. SHORT_BITS : (b \in s) # (0 .. b - 1 \subseteq s)}

-----------------------------------------------------------------------------
Compute ==
  /\ calling /\ Divide
  /\ UNCHANGED <<phase, calling, index, table, lookups, results, table_results>>

(* generate_table() *)
TableCall ==
  /\ phase = "table" /\ SHORT_BITS \notin index
  /\ Call(index)
  /\ UNCHANGED <<generator, in_bits, phase, index, table, lookups, results, table_results>>
TableEntry ==
  /\ phase = "table" /\ Return
  /\ table' = [s \in DOMAIN table \cup {index} |-> IF s = index THEN Short(crc) ELSE table[s]]
  /\ index' = PlusOne(index)
  /\ UNCHANGED <<crcVars, phase, lookups, results, table_results>>

TableDone ==
  /\ phase = "table" /\ SHORT_BITS \in index
  /\ phase' = "random"
  /\ UNCHANGED <<crcVars, calling, index, table, lookups, results, table_results>>

(* get_random(): a number below 2^16, stored in a short. *)
Lookup ==
  /\ phase = "random" /\ Len(lookups) < LOOKUP_LENGTH
  /\ \E s \in SUBSET (0 .. SHORT_BITS - 1) : lookups' = Append(lookups, s)
  /\ UNCHANGED <<crcVars, phase, calling, index, table, results, table_results>>

LookupsDone ==
  /\ phase = "random" /\ Len(lookups) = LOOKUP_LENGTH
  /\ phase' = "results"
  /\ UNCHANGED <<crcVars, calling, index, table, lookups, results, table_results>>

ResultCall ==
  /\ phase = "results" /\ Len(results) < LOOKUP_LENGTH
  /\ Call(FromShort(lookups[Len(results) + 1]))
  /\ UNCHANGED <<generator, in_bits, phase, index, table, lookups, results, table_results>>
Result ==
  /\ phase = "results" /\ Return
  /\ results' = Append(results, Short(crc))
  /\ UNCHANGED <<crcVars, phase, index, table, lookups, table_results>>

(* table[lookups[i]].  A negative index reads memory before the table: any
   short may be there.                                                     *)
ReadOneOff(s) == IF Negative(s) THEN SUBSET (0 .. SHORT_BITS - 1) ELSE {table[PlusOne(s)]}
Read(s) == IF Negative(s) THEN SUBSET (0 .. SHORT_BITS - 1) ELSE {table[s]}

TableResult ==
  /\ phase = "results" /\ ~calling
  /\ Len(results) = LOOKUP_LENGTH /\ Len(table_results) < LOOKUP_LENGTH
  /\ \E r \in Read(lookups[Len(table_results) + 1]) :
       table_results' = Append(table_results, r)
  /\ UNCHANGED <<crcVars, phase, calling, index, table, lookups, results>>

TableNext ==
  \/ TableCall \/ TableEntry \/ TableDone \/ Lookup \/ LookupsDone
  \/ ResultCall \/ Result \/ TableResult \/ Compute

TableSpec == TableInit /\ [][TableNext]_tableVars

-----------------------------------------------------------------------------
IsRemainder(r, s) ==
  /\ r \subseteq 0 .. GENERATOR_LENGTH - 2
  /\ IsMultiple(Xor(Shift(s, GENERATOR_LENGTH - 1), r), generator, SHORT_BITS)

(* Storing a long in a short, and passing a short as a long with its sign,
   lose nothing that matters: the entries of the table and the results for
   the lookups, also for those that became negative, are remainders of the
   16-bit numbers they stand for.                                          *)
Remainders ==
  /\ \A s \in DOMAIN table : IsRemainder(table[s], s)
  /\ \A n \in DOMAIN results : IsRemainder(results[n], lookups[n])

(* Looking up gives what computing gives, for the lookups below 2^15: the
   other half of them is read from memory in front of the table.           *)
SameBelowHalf ==
  \A n \in DOMAIN table_results : ~Negative(lookups[n]) => table_results[n] = results[n]

(* What the comparison of table_results with results in evaluation.txt rests
   on: both are the remainders, as far as the table is read at all.        *)
TableAgrees == Remainders /\ SameBelowHalf
=============================================================================
