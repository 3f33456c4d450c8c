----------------------------- MODULE SimpleClient -----------------------------
(***************************************************************************)
(* The receiver of the demo (simple_client.c): the loop that receives      *)
(* packets, prepares the coding window of a repair packet call by call,    *)
(* and submits every packet to the decoder, and the tables of source       *)
(* symbols it fills, from its loop and from the callback of the decoder.   *)
(*                                                                         *)
(* The network loses, reorders and duplicates packets: at any time any     *)
(* packet of an encoder whose window never slid may arrive, or none ever   *)
(* again.  Module Session puts the sender of the demo in its place.        *)
(***************************************************************************)
EXTENDS FullSymbol

CONSTANTS
  FULL_SYMBOL_SET_INITIAL_SIZE, NULL, symbol_size, MaxListed,
  tot_enc, ew_size           (* What the server announces: the number of   *)
                             (* packets and the window size.               *)

tot_src == MaxId + 1

ASSUME TotalAssumption == tot_enc \in Nat

(* What the decoder and its linear system assume of theirs; a NULL pointer *)
(* is no table.                                                            *)
ASSUME ClientAssumption ==
  /\ ew_size \in Nat \ {0} /\ symbol_size \in Nat \ {0} /\ MaxListed \in Nat
  /\ FULL_SYMBOL_SET_INITIAL_SIZE \in Nat \ {0} /\ NULL \notin FullSymbols
  /\ NULL \notin [0 .. symbol_size - 1 -> F]

VARIABLES
  size, first_symbol_id, full_symbol_tab,
  pc, new_symbol1, new_symbol, i, is_zero,
  notified, lent, known, dropped,
  first_id, nb_id, coef_tab, fault, listed,
  phase,                     (* Where the loop is.                         *)
  pkt,                       (* The repair packet it is handling.          *)
  next_esi,                  (* The next identifier to list.               *)
  src_symbols_tab,           (* Whose buffer each entry points to.         *)
  src_symbols_status_tab, src_symbols_allocated,
  overrun                    (* History: a repair packet over a window     *)
                             (* longer than the table of coefficients came.*)

D == INSTANCE RlcDecoder WITH max_coding_window_size <- ew_size

decoder == <<size, first_symbol_id, full_symbol_tab, pc, new_symbol1, new_symbol,
             i, is_zero, notified, lent, known, dropped,
             first_id, nb_id, coef_tab, fault, listed>>
tables == <<src_symbols_tab, src_symbols_status_tab, src_symbols_allocated>>
vars == <<decoder, phase, pkt, next_esi, tables, overrun>>

(***************************************************************************)
(* A repair packet: the first identifier and the size of the window it     *)
(* covers, the coefficients its key stands for (both ends draw the same,   *)
(* see module CodingCoefficients), and its payload.  ew_size bounds the    *)
(* window.                                                                 *)
(***************************************************************************)
RepairPackets ==
  {p \in [esi : Ids, nss : 1 .. ew_size, coefs : [0 .. ew_size - 1 -> F], data : Vector] :
     p.esi + p.nss - 1 <= MaxId}

(* The payload an encoder computes for such a header.                      *)
Payload(esi, nss, coefs) ==
  [c \in Ids |-> IF c \in esi .. esi + nss - 1 THEN coefs[c - esi] ELSE Zero]

HonestPackets ==
  {[esi |-> esi, nss |-> nss, coefs |-> coefs, data |-> Payload(esi, nss, coefs)] :
     esi \in Ids, nss \in 1 .. ew_size, coefs \in [0 .. ew_size - 1 -> F]}
    \intersect RepairPackets

Init ==
  /\ D!Init
  /\ phase = "oti" /\ pkt = NULL /\ next_esi = 0
  /\ src_symbols_tab = [id \in Ids |-> NULL]
  /\ src_symbols_status_tab = [id \in Ids |-> "missing"]
  /\ src_symbols_allocated = [id \in Ids |-> FALSE]
  /\ overrun = FALSE

-------------------------------------------------------------------------------
(***************************************************************************)
(* The first packet: the session goes on if it has the size of the FEC OTI *)
(* and what it announces, the codepoint included, is one the client knows  *)
(* and is consistent.                                                      *)
(***************************************************************************)
MAX_SYMBOLS == 100000

ReceiveFirstPacket(is_oti, known_codepoint) ==
  LET valid == /\ is_oti /\ known_codepoint
               /\ tot_src <= tot_enc
               /\ tot_src <= MAX_SYMBOLS /\ tot_enc <= MAX_SYMBOLS
               /\ ew_size <= tot_src
  IN  /\ phase = "oti"
      /\ phase' = IF valid THEN "receive" ELSE "end"
      /\ UNCHANGED <<decoder, pkt, next_esi, tables, overrun>>

(* A source packet: remembered, then submitted.                            *)
ReceiveSourcePacket(esi) ==
  /\ phase = "receive"
  /\ esi < tot_src
  /\ D!DecodeWithNewSourceSymbol(esi, UnitVector(esi))
  /\ src_symbols_tab' = [src_symbols_tab EXCEPT ![esi] = "packet"]
  /\ src_symbols_status_tab' = [src_symbols_status_tab EXCEPT ![esi] = "received"]
  /\ src_symbols_allocated' = [src_symbols_allocated EXCEPT ![esi] = TRUE]
  /\ UNCHANGED <<phase, pkt, next_esi, overrun>>

(* A repair packet: the window is reset.  Its table of coefficients has    *)
(* one entry for each byte of a symbol.                                    *)
ReceiveRepairPacket(p) ==
  /\ phase = "receive"
  /\ p.esi < tot_src
  /\ D!ResetCodingWindow
  /\ phase' = "list" /\ pkt' = p /\ next_esi' = p.esi
  /\ overrun' = (overrun \/ p.nss > symbol_size)
  /\ UNCHANGED tables

(* A packet whose length is neither that of a source nor of a repair       *)
(* packet, or whose identifier is out of range, ends the session.          *)
RefusePacket(kind, esi) ==
  /\ phase = "receive" /\ D!Ready
  /\ kind = "unknown" \/ esi >= tot_src
  /\ phase' = "end"
  /\ UNCHANGED <<decoder, pkt, next_esi, tables, overrun>>

(* Mutant: one identifier too many.                                        *)
ListedThrough(p) == p.esi + p.nss + 1

(* The end of the loop over the window.                                    *)
ListedUpTo(p) == p.esi + p.nss

(* One turn of that loop; an error ends the program.                       *)
ListSymbol ==
  /\ phase = "list" /\ next_esi < ListedUpTo(pkt)
  /\ D!AddSourceSymbol(next_esi)
  /\ IF D!Accepted(next_esi)
     THEN next_esi' = next_esi + 1 /\ UNCHANGED <<phase, pkt>>
     ELSE phase' = "end" /\ pkt' = NULL /\ next_esi' = 0
  /\ UNCHANGED <<tables, overrun>>

GenerateCoefs ==
  /\ phase = "list" /\ next_esi >= ListedUpTo(pkt)
  /\ D!GenerateCodingCoefs(pkt.coefs)
  /\ phase' = "submit"
  /\ UNCHANGED <<pkt, next_esi, tables, overrun>>

SubmitRepair ==
  /\ phase = "submit"
  /\ D!DecodeWithNewRepairSymbol(pkt.data)
  /\ phase' = "receive" /\ pkt' = NULL /\ next_esi' = 0
  /\ UNCHANGED <<tables, overrun>>

(* decoded_source_symbol_callback, for the identifiers notified in a step. *)
DecodedSourceSymbolCallback ==
  LET told == {id \in Ids : notified'[id] > notified[id]}
  IN  /\ src_symbols_tab' =
           [id \in Ids |-> IF id \in told THEN "row" ELSE src_symbols_tab[id]]
      /\ src_symbols_status_tab' =
           [id \in Ids |-> IF id \in told THEN "decoded" ELSE src_symbols_status_tab[id]]
      /\ UNCHANGED src_symbols_allocated

DecoderStep ==
  /\ D!SystemStep
  /\ DecodedSourceSymbolCallback
  /\ UNCHANGED <<phase, pkt, next_esi, overrun>>

(* get_next_pkt found nothing, twice: the session is over.                 *)
NoMorePacket ==
  /\ phase = "receive" /\ D!Ready
  /\ phase' = "end"
  /\ UNCHANGED <<decoder, pkt, next_esi, tables, overrun>>

Next ==
  \/ \E is_oti, known_codepoint \in BOOLEAN : ReceiveFirstPacket(is_oti, known_codepoint)
  \/ \E esi \in Ids : ReceiveSourcePacket(esi)
  \/ \E p \in HonestPackets : ReceiveRepairPacket(p)
  \/ \E kind \in {"source", "repair", "unknown"}, esi \in 0 .. tot_src : RefusePacket(kind, esi)
  \/ ListSymbol
  \/ GenerateCoefs
  \/ SubmitRepair
  \/ DecoderStep
  \/ NoMorePacket

(* The program runs as long as it has a packet in hand.                    *)
Handle == ListSymbol \/ GenerateCoefs \/ SubmitRepair \/ DecoderStep

Spec == Init /\ [][Next]_vars /\ WF_vars(Handle)

-------------------------------------------------------------------------------
TypeOK ==
  /\ first_id \in Ids \union {SYMBOL_ID_NONE}
  /\ nb_id \in 0 .. MaxListed
  /\ coef_tab = NULL \/ coef_tab \in [0 .. symbol_size - 1 -> F]
  /\ fault \in {"none", "memory", "assert"}
  /\ listed \subseteq Ids
  /\ phase \in {"oti", "receive", "list", "submit", "end"}
  /\ pkt = NULL \/ pkt \in RepairPackets
  /\ next_esi \in 0 .. MaxId + 1
  /\ src_symbols_tab \in [Ids -> {"packet", "row", NULL}]
  /\ src_symbols_status_tab \in [Ids -> {"missing", "received", "decoded"}]
  /\ src_symbols_allocated \in [Ids -> BOOLEAN]
  /\ overrun \in BOOLEAN

(***************************************************************************)
(* The calls the client makes for a repair packet rebuild the header the   *)
(* encoder used: the decoder it drives implements a linear system to which *)
(* only symbols with the payload they announce are submitted, so that all  *)
(* that is proved of module FullSymbolSet holds of it, until a repair      *)
(* packet comes whose window is longer than the table of coefficients.     *)
(***************************************************************************)
LinearSystemSteps == D!S!Init /\ [][overrun \/ D!S!Next]_(D!S!vars)

ImplementsLinearSystem == LinearSystemSteps /\ D!S!Fairness

(***************************************************************************)
(* In this use of the decoder none of its assertions fails, and only a     *)
(* repair packet whose window has more symbols than a symbol has bytes     *)
(* makes it write or read its table of coefficients out of bounds, whoever *)
(* of reset and generate allocated it.                                     *)
(***************************************************************************)
NoFault == fault # "none" => fault = "memory" /\ overrun

(***************************************************************************)
(* A source symbol the client reports as received or decoded is one that   *)
(* the packets received so far determine.                                  *)
(***************************************************************************)
AvailableIsKnown ==
  \A id \in Ids : src_symbols_status_tab[id] # "missing" => UnitVector(id) \in known

(***************************************************************************)
(* Every packet, source or repair, is handled: the client, its decoder in  *)
(* the middle of a call or not, comes back to its socket, ends, or the     *)
(* program stops on a memory fault.                                        *)
(***************************************************************************)
Handling == phase \in {"list", "submit"} \/ pc \in {"remove", "pivot"}

PacketsAreHandled ==
  Handling ~> \/ phase = "receive" /\ pc = "idle"
              \/ phase = "end" \/ pc = "crashed" \/ fault # "none"

-------------------------------------------------------------------------------
(***************************************************************************)
(* "For each decoded source symbol (if any), the application is informed   *)
(* through the dedicated callback functions" (swif_api.h:476-477): between *)
(* two packets every solved identifier is received or decoded in the       *)
(* client's table.                                                         *)
(***************************************************************************)
SolvedIsAvailable ==
  pc = "idle" =>
    \A id \in D!S!Decoded : src_symbols_status_tab[id] # "missing"
===============================================================================
