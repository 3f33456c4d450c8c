------------------------------- MODULE Session -------------------------------
(***************************************************************************)
(* A session of the demo from end to end: the server (module SimpleServer) *)
(* and its encoder, the network, and the client (module SimpleClient) and  *)
(* its decoder.  They share nothing but the packets on their way.  A       *)
(* packet may be lost when it is sent, and one may overtake those before   *)
(* it; the history variable `disordered' tells whether one did.            *)
(***************************************************************************)
EXTENDS SimpleServer, SequencesExt

CONSTANTS
  FULL_SYMBOL_SET_INITIAL_SIZE, symbol_size, MaxListed,  (* Of the decoder.*)
  MaxInFlight                (* Bound on the packets in the network: the   *)
                             (* server pauses after each one.              *)

VARIABLES
  size, first_symbol_id, full_symbol_tab,
  pc, new_symbol1, new_symbol, i, is_zero,
  notified, lent, known, dropped,
  first_id, nb_id, coef_tab, fault, listed,
  phase, pkt, next_esi,
  src_symbols_tab, src_symbols_status_tab, src_symbols_allocated, overrun,
  disordered,      (* History: a packet overtook another.                  *)
  single           (* History: a repair packet with one coefficient, or    *)
                   (* none, was received.                                  *)

C == INSTANCE SimpleClient

(* What the client and its decoder assume of theirs.                       *)
ASSUME SessionAssumption ==
  /\ symbol_size \in Nat \ {0} /\ MaxListed \in Nat
  /\ FULL_SYMBOL_SET_INITIAL_SIZE \in Nat \ {0}
  /\ NULL \notin C!FullSymbols /\ NULL \notin [0 .. symbol_size - 1 -> F]

client == <<size, first_symbol_id, full_symbol_tab, pc, new_symbol1, new_symbol,
            i, is_zero, notified, lent, known, dropped,
            first_id, nb_id, coef_tab, fault, listed, phase, pkt, next_esi,
            src_symbols_tab, src_symbols_status_tab, src_symbols_allocated, overrun>>
session == <<client, server, network, disordered, single>>

SessionInit == Init /\ C!Init /\ disordered = FALSE /\ single = FALSE

-------------------------------------------------------------------------------
Serve ==
  /\ Len(network) < MaxInFlight
  /\ ServerStep
  /\ UNCHANGED <<client, disordered, single>>

(* What the client does with a packet, by its length.  The server sends no *)
(* other codepoint than the client's, no packet of another length and no   *)
(* identifier out of range, so the client has none to refuse.              *)
FirstReceived(packet) == C!ReceiveFirstPacket(packet.kind = "oti", TRUE)

SourceReceived(packet) ==
  packet.kind = "source" /\ C!ReceiveSourcePacket(packet.esi)

RepairReceived(packet) ==
  /\ packet.kind = "repair"
  /\ C!ReceiveRepairPacket([esi |-> packet.esi, nss |-> packet.nss,
                            coefs |-> packet.coefs, data |-> packet.data])

Coefficients(packet) ==
  IF packet.kind = "repair" THEN {k \in DOMAIN packet.coefs : packet.coefs[k] # Zero} ELSE {}

(* recvfrom returns packet n, the oldest one unless it was overtaken.      *)
Receive(n) ==
  LET packet == network[n]
  IN  /\ FirstReceived(packet) \/ SourceReceived(packet) \/ RepairReceived(packet)
      /\ network' = RemoveAt(network, n)
      /\ disordered' = (disordered \/ n > 1)
      /\ single' = (single \/ (packet.kind = "repair" /\ Cardinality(Coefficients(packet)) < 2))
      /\ UNCHANGED server

(* A step of the client on the packet it has.                              *)
Handle == C!Handle /\ UNCHANGED <<server, network, disordered, single>>

(* The client gives up after two looks at an empty socket.                 *)
GiveUp ==
  /\ network = <<>>
  /\ C!NoMorePacket
  /\ UNCHANGED <<server, network, disordered, single>>

(* The client's process is over.                                           *)
Stopped == phase = "end" \/ pc = "crashed" \/ fault # "none"

(* Its socket is closed: what arrives is thrown away.                      *)
Discard ==
  /\ Stopped /\ network # <<>>
  /\ network' = <<>>
  /\ UNCHANGED <<client, server, disordered, single>>

ClientStep == (\E n \in DOMAIN network : Receive(n)) \/ Handle \/ GiveUp

SessionNext == Serve \/ ClientStep \/ Discard

(* Two processes, on one machine (DEST_IP): as long as one of them can go  *)
(* on, one does.                                                           *)
SessionSpec == SessionInit /\ [][SessionNext]_session /\ WF_session(SessionNext)

-------------------------------------------------------------------------------
Available == {id \in Ids : src_symbols_status_tab[id] # "missing"}

(* The source symbols the packets received determine.                      *)
Determined == {id \in Ids : UnitVector(id) \in known}

(* No eviction was reported: the window of the server never slid.          *)
NeverSlid == removed = NULL

(* Packets came in order, repair packets covered two symbols or more, no   *)
(* window was longer than the table of coefficients, and the table of the  *)
(* decoder kept its rows.                                                  *)
Orderly == ~disordered /\ ~single /\ ~overrun /\ dropped = {} /\ pc # "crashed"

(***************************************************************************)
(* While the window never slid and never was longer than the table of      *)
(* coefficients, what the client is handed for a source symbol is what the *)
(* server read, whatever was lost, reordered, or announced in headers: it  *)
(* sits in the row of that symbol.                                         *)
(***************************************************************************)
DecodedIsRead ==
  [][\A id \in Ids : removed' = NULL /\ ~overrun /\ notified'[id] > notified[id] =>
       \E k \in C!D!S!Slots' :
         /\ first_symbol_id' + k = id
         /\ full_symbol_tab'[k].data = UnitVector(id)]_session

(***************************************************************************)
(* In an orderly session the client misses nothing: between two packets it *)
(* reports exactly the source symbols that what it received determines.    *)
(* (Out of order, or with a repair packet over a single symbol, a symbol   *)
(* may be solved in silence: see SolvedIsAvailable in module SimpleClient.)*)
(***************************************************************************)
DeterminedIsAvailable ==
  Orderly /\ pc = "idle" => Available = Determined

(***************************************************************************)
(* The clean-up of the client frees the buffers it allocated and no row of *)
(* the decoder, which has been released by then: in an orderly session the *)
(* callback never replaces the pointer to a received packet.               *)
(***************************************************************************)
CleanupFreesPackets ==
  Orderly => \A id \in Ids : src_symbols_allocated[id] => src_symbols_tab[id] = "packet"

(***************************************************************************)
(* The server sends all it has, and the client ends its session, unless it *)
(* never received a packet (its first call of recvfrom blocks) or memory   *)
(* was corrupted.                                                          *)
(***************************************************************************)
SessionEnds ==
  <>(/\ server_pc = "done"
     /\ Stopped \/ (phase = "oti" /\ network = <<>>))
===============================================================================
