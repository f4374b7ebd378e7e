---------------------------- MODULE AddressLoop ----------------------------
(***************************************************************************)
(* How the programs of MP0 get their socket: main() walks the list that    *)
(* getaddrinfo() returned until an address works.  The four programs       *)
(* differ in what an address has to do: server.c sets an option and binds, *)
(* listener.c binds, client.c connects, talker.c only opens a socket.      *)
(* A descriptor is named by the position of the address it was opened for. *)
(***************************************************************************)
EXTENDS Integers, Sequences, FiniteSets

CONSTANT AddressLists  \* what getaddrinfo() may return

Demos == {"server", "listener", "client", "talker"}

(* The calls that succeed for an address: "attach" is bind() or connect(). *)
Calls == {"socket", "setsockopt", "attach"}

ASSUME AddressAssumption == AddressLists \subseteq Seq(SUBSET Calls)

VARIABLES
  program,
  addresses,
  pos,        \* position in the list; past its end it is NULL
  next,     \* the next call, or "ready", or "exit"
  open      \* descriptors that are open

addressVars == <<program, addresses, pos, next, open>>

AddressInit ==
  /\ program \in Demos
  /\ addresses \in AddressLists
  /\ pos = 1
  /\ next = "socket"
  /\ open = {}

InList == pos \in 1 .. Len(addresses)
Works(i, call) == call \in addresses[i]
Calling(call) == InList /\ next = call

(* continue *)
NextAddress == pos' = pos + 1 /\ next' = "socket"

-----------------------------------------------------------------------------
OpenSocket ==
  /\ Calling("socket")
  /\ IF Works(pos, "socket")
     THEN /\ open' = open \cup {pos}
          /\ next' = CASE program = "server" -> "setsockopt"
                       [] program = "talker" -> "ready"
                       [] OTHER -> "attach"
          /\ UNCHANGED pos
     ELSE NextAddress /\ UNCHANGED open
  /\ UNCHANGED <<program, addresses>>

(* server.c gives up when the option cannot be set; exit() closes. *)
SetOption ==
  /\ Calling("setsockopt")
  /\ IF Works(pos, "setsockopt")
     THEN next' = "attach" /\ UNCHANGED open
     ELSE next' = "exit" /\ open' = {}
  /\ UNCHANGED <<program, addresses, pos>>

AttachLeavesOpen ==
  /\ Calling("attach")
  /\ IF Works(pos, "attach") THEN next' = "ready" /\ UNCHANGED pos ELSE NextAddress
  /\ UNCHANGED <<program, addresses, open>>
Attach ==
  /\ Calling("attach")
  /\ IF Works(pos, "attach")
     THEN next' = "ready" /\ UNCHANGED <<pos, open>>
     ELSE NextAddress /\ open' = open \ {pos}
  /\ UNCHANGED <<program, addresses>>

(* p == NULL *)
NoAddress ==
  /\ ~InList /\ next = "socket"
  /\ next' = "exit" /\ open' = {}
  /\ UNCHANGED <<program, addresses, pos>>

AddressNext == OpenSocket \/ SetOption \/ Attach \/ NoAddress

AddressSpec == AddressInit /\ [][AddressNext]_addressVars

-----------------------------------------------------------------------------
(* What the program needs of an address. *)
Needed == CASE program = "server" -> Calls
            [] program = "talker" -> {"socket"}
            [] OTHER -> {"socket", "attach"}

Usable(i) == Needed \subseteq addresses[i]

(* Every failed attempt gives its descriptor back before the next: the
   program never holds two, and when it is ready it holds the one it uses.  *)
OneDescriptor ==
  /\ \A i \in open : i = pos
  /\ next = "ready" => open = {pos}

(* An address is passed over only if it cannot be used: the program is ready
   with the first that can, and without one only when there is none or its
   setsockopt() failed.                                                    *)
FirstUsable ==
  /\ OneDescriptor
  /\ \A i \in 1 .. Len(addresses) : i < pos => ~Usable(i)
  /\ next = "ready" => InList /\ Usable(pos)
  /\ next = "exit" /\ InList => program = "server" /\ ~Usable(pos)
=============================================================================
