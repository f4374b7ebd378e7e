--------------------------- MODULE RecvLineProofs ---------------------------
(***************************************************************************)
(* Proofs about RecvLine, for every set of streams without CR CR, of any   *)
(* bytes and any length.  The inductive invariant says what eol_matched    *)
(* stands for: that the last byte of the buffer is the CR of an EOL that   *)
(* may be coming, and that the buffer holds no EOL.                        *)
(***************************************************************************)
EXTENDS RecvLine, SequenceTheorems, TLAPS

Bytes == UNION {{s[k] : k \in DOMAIN s} : s \in Streams}

NoDoubledCR(s) == \A k \in 1 .. Len(s) - 1 : ~(s[k] = CR /\ s[k + 1] = CR)
NoEol(s) == \A k \in 1 .. Len(s) - 1 : ~(s[k] = CR /\ s[k + 1] = LF)
EndsInCR == dest_buffer # <<>> /\ dest_buffer[Len(dest_buffer)] = CR

LineInv ==
  /\ dest_buffer \in Seq(Bytes) /\ unread \in Seq(Bytes)
  /\ NoDoubledCR(dest_buffer \o unread)
  /\ NoEol(dest_buffer)
  /\ eol_matched \in {0, 1}
  /\ eol_matched = 1 <=> EndsInCR

(* Two bytes that are an EOL, and a text that has one. *)
LEMMA EolAt ==
  ASSUME NEW S, NEW s \in Seq(S), NEW k \in 1 .. Len(s) - 1
  PROVE  SubSeq(s, k, k + 1) = EOL <=> s[k] = CR /\ s[k + 1] = LF
<1>1. Len(s) \in Nat /\ k \in Nat /\ \A i \in k .. k + 1 : s[i] \in S
  <2>1. Len(s) \in Nat
    BY LenProperties
  <2>2. \A i \in k .. k + 1 : i \in 1 .. Len(s)
    BY <2>1
  <2> QED
    BY <2>1, <2>2, ElementOfSeq
<1> DEFINE t == SubSeq(s, k, k + 1)
<1>2. t \in Seq(S) /\ Len(t) = 2 /\ t[1] = s[k] /\ t[2] = s[k + 1]
  <2>1. /\ t \in Seq(S) /\ Len(t) = (IF k <= k + 1 THEN (k + 1) - k + 1 ELSE 0)
        /\ \A i \in 1 .. (k + 1) - k + 1 : t[i] = s[k + i - 1]
    BY <1>1, SubSeqProperties
  <2>2. 1 \in 1 .. (k + 1) - k + 1 /\ 2 \in 1 .. (k + 1) - k + 1 /\ k + 1 - 1 = k /\ k + 2 - 1 = k + 1
    BY <1>1
  <2>3. t[1] = s[k + 1 - 1] /\ t[2] = s[k + 2 - 1]
    BY <2>1, <2>2
  <2>4. Len(t) = 2
    BY <1>1, <2>1
  <2> QED
    BY <2>1, <2>2, <2>3, <2>4
<1> HIDE DEF t
<1>3. CASE t = EOL
  <2>1. EOL[1] = CR /\ EOL[2] = LF
    BY DEF EOL
  <2> QED
    BY <1>2, <1>3, <2>1 DEF t
<1>4. CASE s[k] = CR /\ s[k + 1] = LF
  <2>1. t = <<t[1], t[2]>>
    BY <1>2
  <2> QED
    BY <1>2, <1>4, <2>1 DEF t, EOL
<1> QED
  BY <1>3, <1>4 DEF t

LEMMA NoEolMeans ==
  ASSUME NEW S, NEW s \in Seq(S), NoEol(s)
  PROVE  ~Abstract!HasEol(s)
BY EolAt DEF NoEol, Abstract!HasEol, Abstract!EOL, EOL

LEMMA StreamsOfBytes == \A s \in Streams : s \in Seq(Bytes) /\ NoDoubledCR(s)
<1> SUFFICES ASSUME NEW s \in Streams PROVE s \in Seq(Bytes) /\ NoDoubledCR(s)
  OBVIOUS
<1>1. {s[k] : k \in DOMAIN s} \subseteq Bytes
  BY DEF Bytes
<1>2. s \in Seq({s[k] : k \in DOMAIN s}) /\ NoDoubledCR(s)
  BY LineAssumption DEF NoDoubledCR
<1> QED
  BY <1>1, <1>2, SeqMonotonic

LEMMA InitLine == LineInit => LineInv /\ Abstract!Init
<1> SUFFICES ASSUME LineInit PROVE LineInv /\ Abstract!Init
  OBVIOUS
<1>1. /\ unread \in Seq(Bytes) /\ NoDoubledCR(unread) /\ unread \in Streams
      /\ dest_buffer = <<>> /\ eol_matched = 0 /\ lines = <<>>
  BY StreamsOfBytes DEF LineInit
<1>2. dest_buffer \o unread = unread /\ dest_buffer \in Seq(Bytes)
  BY <1>1, ConcatEmptySeq, EmptySeq
<1>3. NoEol(dest_buffer)
  BY <1>1 DEF NoEol
<1> QED
  BY <1>1, <1>2, <1>3 DEF LineInv, EndsInCR, Abstract!Init

(* The next byte, seen from the bytes of the call so far. *)
LEMMA NextByte ==
  ASSUME LineInv, unread # <<>>
  PROVE  LET n == Len(dest_buffer)
             j == dest_buffer \o unread
             b == Head(unread)
         IN  /\ n \in Nat /\ b \in Bytes /\ j \in Seq(Bytes)
             /\ Len(j) = n + Len(unread) /\ Len(unread) \in Nat \ {0}
             /\ j[n + 1] = b /\ \A k \in 1 .. n : j[k] = dest_buffer[k]
             /\ Tail(unread) \in Seq(Bytes) /\ Len(Tail(unread)) = Len(unread) - 1
             /\ \A k \in 1 .. Len(unread) : j[n + k] = unread[k]
             /\ Append(dest_buffer, b) \o Tail(unread) = j
<1> DEFINE n == Len(dest_buffer)
           j == dest_buffer \o unread
           b == Head(unread)
<1>1. dest_buffer \in Seq(Bytes) /\ unread \in Seq(Bytes)
  BY DEF LineInv
<1>2. n \in Nat /\ Len(unread) \in Nat \ {0}
  BY <1>1, LenProperties, EmptySeq
<1>3. /\ j \in Seq(Bytes) /\ Len(j) = n + Len(unread)
      /\ \A k \in 1 .. n + Len(unread) : j[k] = IF k <= n THEN dest_buffer[k] ELSE unread[k - n]
  BY <1>1, ConcatProperties
<1>4. /\ b \in Bytes /\ Tail(unread) \in Seq(Bytes) /\ Len(Tail(unread)) = Len(unread) - 1
      /\ b = unread[1]
  BY <1>1, HeadTailProperties
<1>5. Append(dest_buffer, b) \o Tail(unread) = j
  <2>1. Append(dest_buffer, b) = dest_buffer \o <<b>> /\ <<b>> \in Seq(Bytes)
    BY <1>1, <1>4, AppendIsConcat
  <2>2. unread = <<b>> \o Tail(unread)
    <3>1. 1 \in 1 .. Len(unread) /\ Len(unread) \in 1 .. Len(unread)
      BY <1>2
    <3>2. SubSeq(unread, 1, Len(unread)) = <<unread[1]>> \o SubSeq(unread, 1 + 1, Len(unread))
      BY <1>1, <3>1, SubSeqRecursiveFirst
    <3>3. SubSeq(unread, 1, Len(unread)) = unread /\ Tail(unread) = SubSeq(unread, 2, Len(unread))
      BY <1>1, SubSeqFull, TailIsSubSeq
    <3> QED
      BY <1>4, <3>2, <3>3
  <2>3. (dest_buffer \o <<b>>) \o Tail(unread) = dest_buffer \o (<<b>> \o Tail(unread))
    BY <1>1, <1>4, <2>1, ConcatAssociative
  <2> HIDE DEF b
  <2> QED
    BY <2>1, <2>2, <2>3
<1>6. \A k \in 1 .. n : j[k] = dest_buffer[k]
  BY <1>2, <1>3
<1>7. ASSUME NEW k \in 1 .. Len(unread) PROVE j[n + k] = unread[k]
  <2>1. n + k \in 1 .. n + Len(unread) /\ ~(n + k <= n) /\ (n + k) - n = k
    BY <1>2
  <2> QED
    BY <1>3, <2>1
<1>8. j[n + 1] = b
  <2>1. 1 \in 1 .. Len(unread)
    BY <1>2
  <2> QED
    BY <1>4, <1>7, <2>1
<1> QED
  BY <1>2, <1>3, <1>4, <1>5, <1>6, <1>7, <1>8

(* A byte that does not complete an EOL changes nothing of the stream. *)
LEMMA ReadByteKeeps ==
  ASSUME LineInv, ReadByte
  PROVE  LineInv' /\ UNCHANGED <<dest_buffer \o unread, lines>>
<1> DEFINE n == Len(dest_buffer)
           j == dest_buffer \o unread
           b == Head(unread)
<1>1. /\ unread # <<>> /\ Matched(b) < 2 /\ lines' = lines
      /\ dest_buffer' = Append(dest_buffer, b) /\ eol_matched' = Matched(b) /\ unread' = Tail(unread)
  BY DEF ReadByte, EOL
<1>2. /\ n \in Nat /\ b \in Bytes /\ Len(j) = n + Len(unread) /\ Len(unread) \in Nat \ {0}
      /\ j[n + 1] = b /\ \A k \in 1 .. n : j[k] = dest_buffer[k]
      /\ Tail(unread) \in Seq(Bytes) /\ Append(dest_buffer, b) \o Tail(unread) = j
  BY <1>1, NextByte
<1>3. /\ dest_buffer \in Seq(Bytes) /\ NoDoubledCR(j) /\ NoEol(dest_buffer)
      /\ eol_matched \in {0, 1} /\ (eol_matched = 1 <=> EndsInCR)
  BY DEF LineInv
<1> HIDE DEF j, b
<1>4. /\ dest_buffer' \in Seq(Bytes) /\ Len(dest_buffer') = n + 1 /\ dest_buffer' # <<>>
      /\ dest_buffer'[n + 1] = b /\ \A k \in 1 .. n : dest_buffer'[k] = dest_buffer[k]
  BY <1>1, <1>2, <1>3, AppendProperties
<1>4A. /\ dest_buffer' \o unread' = dest_buffer \o unread
       /\ NoDoubledCR(dest_buffer' \o unread') /\ unread' \in Seq(Bytes)
  BY <1>1, <1>2, <1>3 DEF j
<1>5. EndsInCR' <=> b = CR
  BY <1>4 DEF EndsInCR
<1>6. EOL[1] = CR /\ EOL[2] = LF
  BY DEF EOL
<1>7. EndsInCR <=> n > 0 /\ dest_buffer[n] = CR
  BY <1>2, <1>3, EmptySeq DEF EndsInCR
<1>8. CASE eol_matched = 0
  <2>1. Matched(b) = IF b = CR THEN 1 ELSE 0
    BY <1>6, <1>8 DEF Matched
  <2>2. NoEol(dest_buffer')
    <3> SUFFICES ASSUME NEW k \in 1 .. n PROVE ~(dest_buffer'[k] = CR /\ dest_buffer'[k + 1] = LF)
      BY <1>2, <1>4 DEF NoEol
    <3>1. CASE k = n
      BY <1>2, <1>3, <1>4, <1>7, <1>8, <3>1
    <3>2. CASE k # n
      <4>1. k \in 1 .. n - 1 /\ k + 1 \in 1 .. n
        BY <1>2, <3>2
      <4> QED
        BY <1>3, <1>4, <4>1 DEF NoEol
    <3> QED
      BY <3>1, <3>2
  <2> QED
    <3>1. eol_matched' \in {0, 1} /\ (eol_matched' = 1 <=> EndsInCR')
      BY <1>1, <1>5, <2>1
    <3>2. lines' = lines /\ (dest_buffer \o unread)' = dest_buffer \o unread
      BY <1>1, <1>4A
    <3> QED
      BY <1>4, <1>4A, <2>2, <3>1, <3>2, Zenon DEF LineInv
<1>9. CASE eol_matched = 1
  <2>1. Matched(b) = IF b = LF THEN 2 ELSE 0
    BY <1>6, <1>9 DEF Matched
  <2>2. b # LF /\ Matched(b) = 0
    BY <1>1, <2>1
  <2>3. n > 0 /\ dest_buffer[n] = CR
    BY <1>3, <1>7, <1>9
  <2>4. b # CR
    <3>1. n \in 1 .. Len(j) - 1 /\ j[n] = CR
      BY <1>2, <2>3
    <3> QED
      BY <1>2, <1>3, <3>1 DEF NoDoubledCR
  <2>5. NoEol(dest_buffer')
    <3> SUFFICES ASSUME NEW k \in 1 .. n PROVE ~(dest_buffer'[k] = CR /\ dest_buffer'[k + 1] = LF)
      BY <1>2, <1>4 DEF NoEol
    <3>1. CASE k = n
      BY <1>4, <2>2, <3>1
    <3>2. CASE k # n
      <4>1. k \in 1 .. n - 1 /\ k + 1 \in 1 .. n
        BY <1>2, <3>2
      <4> QED
        BY <1>3, <1>4, <4>1 DEF NoEol
    <3> QED
      BY <3>1, <3>2
  <2> QED
    <3>1. eol_matched' \in {0, 1} /\ (eol_matched' = 1 <=> EndsInCR')
      BY <1>1, <1>5, <2>2, <2>4
    <3>2. lines' = lines /\ (dest_buffer \o unread)' = dest_buffer \o unread
      BY <1>1, <1>4A
    <3> QED
      BY <1>4, <1>4A, <2>5, <3>1, <3>2, Zenon DEF LineInv
<1> QED
  BY <1>3, <1>8, <1>9

(* The byte that completes EOL ends the first line of the stream. *)
LEMMA LineEndsTakes ==
  ASSUME LineInv, LineEnds
  PROVE  LineInv' /\ Abstract!TakeLine
<1> DEFINE n == Len(dest_buffer)
           j == dest_buffer \o unread
           line == SubSeq(dest_buffer, 1, n - 1)
<1>1. /\ unread # <<>> /\ eol_matched = 1 /\ Head(unread) = LF
      /\ lines' = Append(lines, SubSeq(dest_buffer, 1, n + 1 - 2))
      /\ dest_buffer' = <<>> /\ eol_matched' = 0 /\ unread' = Tail(unread)
  BY DEF LineEnds, EOL
<1>2. /\ n \in Nat /\ j \in Seq(Bytes) /\ Len(j) = n + Len(unread) /\ Len(unread) \in Nat \ {0}
      /\ j[n + 1] = LF /\ \A k \in 1 .. n : j[k] = dest_buffer[k]
      /\ Tail(unread) \in Seq(Bytes) /\ Len(Tail(unread)) = Len(unread) - 1
      /\ \A k \in 1 .. Len(unread) : j[n + k] = unread[k]
  BY <1>1, NextByte
<1>3. /\ dest_buffer \in Seq(Bytes) /\ unread \in Seq(Bytes) /\ NoDoubledCR(j) /\ NoEol(dest_buffer)
      /\ EndsInCR
  BY <1>1 DEF LineInv
<1>4. n > 0 /\ dest_buffer[n] = CR /\ j[n] = CR /\ n + 1 <= Len(j)
  <2>1. n > 0
    BY <1>2, <1>3, EmptySeq DEF EndsInCR
  <2> QED
    BY <1>2, <1>3, <2>1 DEF EndsInCR
<1> HIDE DEF j
<1>5. dest_buffer' \o unread' = Tail(unread)
  BY <1>1, <1>2, ConcatEmptySeq
<1>6. NoDoubledCR(Tail(unread))
  <2> SUFFICES ASSUME NEW k \in 1 .. Len(Tail(unread)) - 1
               PROVE  ~(Tail(unread)[k] = CR /\ Tail(unread)[k + 1] = CR)
    BY DEF NoDoubledCR
  <2>1. /\ k + 1 \in 1 .. Len(unread) /\ k + 2 \in 1 .. Len(unread)
        /\ k \in 1 .. Len(Tail(unread)) /\ k + 1 \in 1 .. Len(Tail(unread))
    BY <1>2
  <2>2. Tail(unread)[k] = unread[k + 1] /\ Tail(unread)[k + 1] = unread[(k + 1) + 1]
    BY <1>1, <1>3, <2>1, HeadTailProperties
  <2>3. unread[k + 1] = j[n + (k + 1)] /\ unread[k + 2] = j[n + (k + 2)]
    BY <1>2, <2>1
  <2>4. n + (k + 1) \in 1 .. Len(j) - 1 /\ (n + (k + 1)) + 1 = n + (k + 2) /\ (k + 1) + 1 = k + 2
    BY <1>2, <2>1
  <2> QED
    BY <1>3, <2>2, <2>3, <2>4 DEF NoDoubledCR
<1>7. LineInv'
  <2>1. NoEol(dest_buffer')
    BY <1>1 DEF NoEol
  <2>2. dest_buffer' \in Seq(Bytes)
    BY <1>1, EmptySeq
  <2> QED
    BY <1>1, <1>2, <1>5, <1>6, <2>1, <2>2 DEF LineInv, EndsInCR
<1>8. SubSeq(j, 1, n - 1) = line /\ line \in Seq(Bytes) /\ NoEol(line)
  <2>1. \A i \in 1 .. n - 1 : dest_buffer[i] \in Bytes /\ j[i] \in Bytes /\ j[i] = dest_buffer[i]
    BY <1>2, <1>3, ElementOfSeq
  <2>2. 1 \in Int /\ n - 1 \in Int /\ (n - 1) - 1 + 1 = n - 1
    BY <1>2
  <2>3. /\ line \in Seq(Bytes) /\ Len(line) = (IF 1 <= n - 1 THEN n - 1 ELSE 0)
        /\ \A i \in 1 .. n - 1 : line[i] = dest_buffer[1 + i - 1]
    BY <2>1, <2>2, SubSeqProperties
  <2>4. /\ SubSeq(j, 1, n - 1) \in Seq(Bytes) /\ Len(SubSeq(j, 1, n - 1)) = (IF 1 <= n - 1 THEN n - 1 ELSE 0)
        /\ \A i \in 1 .. n - 1 : SubSeq(j, 1, n - 1)[i] = j[1 + i - 1]
    BY <2>1, <2>2, SubSeqProperties
  <2> HIDE DEF line
  <2>5. Len(line) = n - 1 /\ Len(SubSeq(j, 1, n - 1)) = n - 1
    <3>1. n \in Nat \ {0}
      BY <1>2, <1>4
    <3>2. ~(1 <= n - 1) => n - 1 = 0
      BY <3>1
    <3> QED
      BY <2>3, <2>4, <3>2
  <2>6. \A i \in 1 .. n - 1 : line[i] = dest_buffer[i] /\ SubSeq(j, 1, n - 1)[i] = line[i]
    <3>1. \A i \in 1 .. n - 1 : 1 + i - 1 = i
      BY <1>2
    <3> QED
      BY <2>1, <2>3, <2>4, <3>1
  <2>7. SubSeq(j, 1, n - 1) = line
    BY <2>3, <2>4, <2>5, <2>6, SeqEqual
  <2>8. NoEol(line)
    <3> SUFFICES ASSUME NEW k \in 1 .. n - 2 PROVE ~(line[k] = CR /\ line[k + 1] = LF)
      BY <1>2, <2>5 DEF NoEol
    <3>1. k \in 1 .. n - 1 /\ k + 1 \in 1 .. n - 1
      BY <1>2
    <3> QED
      BY <1>3, <2>6, <3>1 DEF NoEol
  <2> QED
    BY <2>3, <2>7, <2>8
<1> HIDE DEF line
<1>9. SubSeq(j, (n - 1) + 1, (n - 1) + 2) = EOL
  <2>1. n \in 1 .. Len(j) - 1 /\ (n - 1) + 1 = n /\ (n - 1) + 2 = n + 1
    BY <1>2, <1>4
  <2>2. SubSeq(j, n, n + 1) = EOL
    BY <1>2, <1>4, <2>1, EolAt
  <2> QED
    BY <2>1, <2>2
<1>10. SubSeq(j, (n - 1) + 3, Len(j)) = Tail(unread)
  <2>1. CASE Len(unread) = 1
    <3>1. n + 2 > Len(j) /\ (n - 1) + 3 = n + 2
      BY <1>2, <2>1
    <3>2. SubSeq(j, n + 2, Len(j)) = <<>>
      BY <1>2, <3>1, SubSeqEmpty
    <3>3. Tail(unread) = <<>>
      <4>1. Len(Tail(unread)) = 0
        BY <1>2, <2>1
      <4> QED
        BY <1>2, <4>1, EmptySeq
    <3> QED
      BY <3>1, <3>2, <3>3
  <2>2. CASE Len(unread) # 1
    <3>1. /\ n + 2 \in n + 1 .. n + Len(unread) /\ n + Len(unread) \in n + 1 .. n + Len(unread)
          /\ (n + 2) - n = 2 /\ (n + Len(unread)) - n = Len(unread) /\ (n - 1) + 3 = n + 2
      BY <1>2, <2>2
    <3>2. SubSeq(j, n + 2, n + Len(unread)) = SubSeq(unread, (n + 2) - n, (n + Len(unread)) - n)
      BY <1>3, <3>1, SubSeqOfConcat2 DEF j
    <3>3. Tail(unread) = SubSeq(unread, 2, Len(unread))
      BY <1>1, <1>3, TailIsSubSeq
    <3> QED
      BY <1>2, <3>1, <3>2, <3>3
  <2> QED
    BY <2>1, <2>2
<1>11. lines' = Append(lines, line)
  <2>1. n + 1 - 2 = n - 1
    BY <1>2
  <2> QED
    BY <1>1, <2>1 DEF line
<1>12. n - 1 \in 0 .. Len(j) - 2
  BY <1>2, <1>4
<1>13. ~Abstract!HasEol(line)
  BY <1>8, NoEolMeans
<1>14. /\ SubSeq(j, (n - 1) + 1, (n - 1) + 2) = Abstract!EOL
       /\ (dest_buffer \o unread)' = SubSeq(j, (n - 1) + 3, Len(j))
  BY <1>5, <1>9, <1>10 DEF EOL, Abstract!EOL
<1>15. \E m \in 0 .. Len(j) - 2 :
         /\ SubSeq(j, m + 1, m + 2) = Abstract!EOL /\ ~Abstract!HasEol(SubSeq(j, 1, m))
         /\ lines' = Append(lines, SubSeq(j, 1, m))
         /\ (dest_buffer \o unread)' = SubSeq(j, m + 3, Len(j))
  BY <1>8, <1>11, <1>12, <1>13, <1>14
<1> QED
  BY <1>7, <1>15 DEF Abstract!TakeLine, j

LEMMA NextLine ==
  LineInv /\ [LineNext]_lineVars => LineInv' /\ [Abstract!TakeLine]_<<dest_buffer \o unread, lines>>
<1>1. LineInv /\ (RecvFails \/ UNCHANGED lineVars) =>
        LineInv' /\ UNCHANGED <<dest_buffer \o unread, lines>>
  BY DEF RecvFails, lineVars, LineInv, EndsInCR
<1> QED
  BY <1>1, ReadByteKeeps, LineEndsTakes DEF LineNext

(* However the bytes arrive, the calls of recv_line() take the lines of the
   stream one after the other: none joined, split or left out.             *)
THEOREM RecvLineTakesLines == LineSpec => Abstract!Safety
BY InitLine, NextLine, PTL DEF LineSpec, Abstract!Safety
=============================================================================
