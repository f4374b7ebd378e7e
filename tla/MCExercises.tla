---------------------------- MODULE MCExercises ----------------------------
(* The programs that stand alone, for TLC, in one run: AddressLoop,
   StreamDemo, Datagram, Crc, CrcTable, Checksum, and recv_line() of
   client_server.  They share nothing: `focus' picks the one that runs, and
   the others stay in one initial state of theirs.                         *)
EXTENDS AddressLoop, StreamDemo, Datagram, CrcTable, Checksum, RecvLine

CONSTANTS c1, c2, t1, t2, Letter

(* Up to two addresses, one usually for IPv6 and one for IPv4, each with any
   of its calls failing.                                                   *)
MCAddressLists == UNION {[1 .. n -> SUBSET Calls] : n \in 0 .. 2}

(* Files that are empty, have a length of one or two digits, begin with a
   digit or have a NUL in them, or are too long.                           *)
MCClients == {c1, c2}
TextOf(n) == [k \in 1 .. n |-> Text]
MCFiles == {<<>>, TextOf(2), <<7, Text>>, <<Text, Nul, Text>>, TextOf(11), TextOf(14)}
MCProcLimits == {1, 2}

(* Arguments that are empty, just fit, or are one or two characters too long. *)
MCTalkers == {t1, t2}
MCArguments == {<<>>, <<1>>, <<1, 2, 3>>, <<1, 2, 3, 4>>, <<5, 6, 7, 8, 9>>}

(* Every generator of four bits; every message of five bits, with and without
   a sign; at the width of the code every pattern of bit errors, which main()
   divides by 9; and shorts of four bits for the table.                    *)
MCGenerators == {g \in SUBSET (0 .. GENERATOR_LENGTH - 1) : GENERATOR_LENGTH - 1 \in g}
MCMessages ==
  [n \in {SHORT_BITS, 5, 11} |->
     LET M == SUBSET (0 .. n - 1)
     IN  IF n = 11 THEN M ELSE M \cup {m \cup (n .. LONG_BITS - 1) : m \in M}]

(* Up to four numbers around the ends of the range of an unsigned short. *)
MCNumbers == {-65536, -2, -1, 0, 1, 2, 32768, 65534, 65535, 65536}
MCLines == UNION {[1 .. n -> MCNumbers] : n \in 0 .. 4}

(* Every stream of up to seven bytes without CR CR. *)
MCStreams ==
  LET All == UNION {[1 .. n -> {CR, LF, Letter}] : n \in 0 .. 7}
  IN  {s \in All : \A k \in 1 .. Len(s) - 1 : SubSeq(s, k, k + 1) # <<CR, CR>>}

-----------------------------------------------------------------------------
VARIABLE focus

allVars == <<focus, addressVars, streamVars, datagramVars, tableVars, checksumVars, lineVars>>

Init ==
  /\ focus \in {"address", "clients", "message", "datagram", "crc", "table", "checksum", "line"}
  /\ (focus # "address" => addresses = <<>> /\ program = "server") /\ AddressInit
  /\ (focus # "clients" => procLimit = 2) /\ (focus # "message" => file = TextOf(2)) /\ StreamInit
  /\ (focus # "datagram" => message = [t \in Talkers |-> <<>>]) /\ DatagramInit
  /\ focus \notin {"crc", "table"} => generator = {3} /\ in_bits = 5 /\ data = {}
  /\ IF focus = "table" THEN generator \in {{0, 3}, {0, 1, 3}} /\ TableInit
     ELSE /\ CrcInit /\ (in_bits = 11 => generator = {0, 3})
          /\ phase = "table" /\ calling = FALSE
          /\ index = {} /\ table = <<>> /\ lookups = <<>> /\ results = <<>> /\ table_results = <<>>
  /\ (focus # "checksum" => input = <<>>) /\ ChecksumInit
  /\ (focus # "line" => unread = <<>>) /\ LineInit

AddressStep ==
  /\ focus = "address" /\ AddressNext
  /\ UNCHANGED <<focus, streamVars, datagramVars, tableVars, checksumVars, lineVars>>

(* Either two clients and a file that stays, or one client and every file. *)
StreamStep(Step) ==
  /\ focus \in {"clients", "message"} /\ Step
  /\ IF focus = "message" THEN client'[c2] = client[c2] ELSE file' = file
  /\ UNCHANGED <<focus, addressVars, datagramVars, tableVars, checksumVars, lineVars>>

DatagramStep ==
  /\ focus = "datagram" /\ DatagramNext
  /\ UNCHANGED <<focus, addressVars, streamVars, tableVars, checksumVars, lineVars>>

CrcStep ==
  /\ focus = "crc" /\ Divide
  /\ UNCHANGED <<phase, calling, index, table, lookups, results, table_results>>
  /\ UNCHANGED <<focus, addressVars, streamVars, datagramVars, checksumVars, lineVars>>

TableStep ==
  /\ focus = "table" /\ TableNext
  /\ UNCHANGED <<focus, addressVars, streamVars, datagramVars, checksumVars, lineVars>>

ChecksumStep ==
  /\ focus = "checksum" /\ ChecksumNext
  /\ UNCHANGED <<focus, addressVars, streamVars, datagramVars, tableVars, lineVars>>

LineStep ==
  /\ focus = "line" /\ LineNext
  /\ UNCHANGED <<focus, addressVars, streamVars, datagramVars, tableVars, checksumVars>>

Next ==
  \/ AddressStep \/ StreamStep(StreamNext) \/ DatagramStep \/ CrcStep \/ TableStep
  \/ ChecksumStep \/ LineStep

(* The fairness of FairStreamSpec and of LineSpec. *)
Spec ==
  /\ Init /\ [][Next]_allVars
  /\ WF_allVars(StreamStep(ServerParent)) /\ WF_allVars(StreamStep(ServerHandler))
  /\ \A c \in Clients : WF_allVars(StreamStep(ServerChild(c))) /\ WF_allVars(StreamStep(Client(c)))
  /\ WF_allVars(LineStep)
=============================================================================
