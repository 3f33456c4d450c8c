---------------------------- MODULE SessionProofs ----------------------------
(***************************************************************************)
(* Theorems about the server, the network and the client together.         *)
(*                                                                         *)
(* The argument joins the invariants of the two ends: as long as the       *)
(* window of the server never slid, every packet on its way is a source    *)
(* packet or a repair packet whose payload is the one its header           *)
(* announces, so each step of the client is a step of module SimpleClient  *)
(* and the theorems about that module hold of it.                          *)
(*                                                                         *)
(* A second argument is about the order of packets: the first packet that  *)
(* speaks of a source symbol is its source packet, so that in order the    *)
(* client has nothing on the symbol when it comes (OrderedInv).            *)
(*                                                                         *)
(* Session and SimpleClientProofs each hold an instance of the client and  *)
(* of the modules it is built from.  The first three lemmas say that the   *)
(* operators of the two instances are the same; each expands them and      *)
(* nothing else.  The definitions of all these instances make obligations  *)
(* slow to prepare, so the provers are given more time than usual (USE).   *)
(***************************************************************************)
EXTENDS Session, SimpleServerProofs

(* The client of the session, with the theorems about it.                  *)
K == INSTANCE SimpleClientProofs

(* The linear system below the decoder.                                    *)
LEMMA SameSystem ==
  /\ C!D!S!Step => K!D!S!Step
  /\ C!D!S!Init => K!D!S!Init
  /\ \A s : C!D!S!AddWithElimination(s) => K!D!S!AddWithElimination(s)
<1> USE ZenonT(60)
<1>1. C!D!S!RemovePivot => K!D!S!RemovePivot
  BY DEF
    C!D!S!RemovePivot, C!D!S!Ids, C!D!S!SYMBOL_ID_NONE, C!D!S!NonzeroIds,
    C!D!S!first_nonzero_id, C!D!S!last_nonzero_id, C!D!S!full_symbol_is_zero,
    C!D!S!Min, C!D!S!Max, C!D!S!set, C!D!S!application,
    C!D!S!full_symbol_set_get_pivot, C!D!S!full_symbol_get_coef,
    C!D!S!full_symbol_add, C!D!S!full_symbol_scale, C!D!S!full_symbol_clone,
    C!D!S!symbol_add, C!D!S!symbol_mul, C!D!S!ZeroSymbol, C!D!S!ZeroVector,
    K!D!S!RemovePivot, K!D!S!Ids, K!D!S!SYMBOL_ID_NONE, K!D!S!NonzeroIds,
    K!D!S!first_nonzero_id, K!D!S!last_nonzero_id, K!D!S!full_symbol_is_zero,
    K!D!S!Min, K!D!S!Max, K!D!S!set, K!D!S!application,
    K!D!S!full_symbol_set_get_pivot, K!D!S!full_symbol_get_coef,
    K!D!S!full_symbol_add, K!D!S!full_symbol_scale, K!D!S!full_symbol_clone,
    K!D!S!symbol_add, K!D!S!symbol_mul, K!D!S!ZeroSymbol, K!D!S!ZeroVector
<1>2. C!D!S!Redundant => K!D!S!Redundant
  BY DEF
    C!D!S!Redundant, C!D!S!Ids, C!D!S!SYMBOL_ID_NONE, C!D!S!NonzeroIds,
    C!D!S!first_nonzero_id, C!D!S!last_nonzero_id, C!D!S!full_symbol_is_zero,
    C!D!S!Min, C!D!S!Max, C!D!S!set, C!D!S!application, C!D!S!Return,
    C!D!S!ZeroSymbol, C!D!S!ZeroVector, K!D!S!Redundant, K!D!S!Ids,
    K!D!S!SYMBOL_ID_NONE, K!D!S!NonzeroIds, K!D!S!first_nonzero_id,
    K!D!S!last_nonzero_id, K!D!S!full_symbol_is_zero, K!D!S!Min, K!D!S!Max,
    K!D!S!set, K!D!S!application, K!D!S!Return, K!D!S!ZeroSymbol,
    K!D!S!ZeroVector
<1>3. C!D!S!AddAsPivot => K!D!S!AddAsPivot
  BY DEF
    C!D!S!AddAsPivot, C!D!S!Ids, C!D!S!SYMBOL_ID_NONE, C!D!S!NonzeroIds,
    C!D!S!first_nonzero_id, C!D!S!last_nonzero_id, C!D!S!full_symbol_is_zero,
    C!D!S!Min, C!D!S!Max, C!D!S!set, C!D!S!application, C!D!S!Normalized,
    C!D!S!full_symbol_scale, C!D!S!full_symbol_get_coef, C!D!S!symbol_mul,
    K!D!S!AddAsPivot, K!D!S!Ids, K!D!S!SYMBOL_ID_NONE, K!D!S!NonzeroIds,
    K!D!S!first_nonzero_id, K!D!S!last_nonzero_id, K!D!S!full_symbol_is_zero,
    K!D!S!Min, K!D!S!Max, K!D!S!set, K!D!S!application, K!D!S!Normalized,
    K!D!S!full_symbol_scale, K!D!S!full_symbol_get_coef, K!D!S!symbol_mul
<1>4. C!D!S!EliminateRow => K!D!S!EliminateRow
  BY ZenonT(240) DEF
    C!D!S!EliminateRow, C!D!S!Ids, C!D!S!SYMBOL_ID_NONE, C!D!S!NonzeroIds,
    C!D!S!first_nonzero_id, C!D!S!last_nonzero_id, C!D!S!full_symbol_is_zero,
    C!D!S!Min, C!D!S!Max, C!D!S!set, C!D!S!application, C!D!S!NewlySolved,
    C!D!S!full_symbol_has_one_id, C!D!S!full_symbol_get_coef,
    C!D!S!full_symbol_add, C!D!S!full_symbol_scale, C!D!S!full_symbol_clone,
    C!D!S!symbol_add, C!D!S!symbol_mul, C!D!S!ZeroSymbol, C!D!S!ZeroVector,
    K!D!S!EliminateRow, K!D!S!Ids, K!D!S!SYMBOL_ID_NONE, K!D!S!NonzeroIds,
    K!D!S!first_nonzero_id, K!D!S!last_nonzero_id, K!D!S!full_symbol_is_zero,
    K!D!S!Min, K!D!S!Max, K!D!S!set, K!D!S!application, K!D!S!NewlySolved,
    K!D!S!full_symbol_has_one_id, K!D!S!full_symbol_get_coef,
    K!D!S!full_symbol_add, K!D!S!full_symbol_scale, K!D!S!full_symbol_clone,
    K!D!S!symbol_add, K!D!S!symbol_mul, K!D!S!ZeroSymbol, K!D!S!ZeroVector
<1>5. C!D!S!StoreRight => K!D!S!StoreRight
  BY DEF
    C!D!S!StoreRight, C!D!S!Ids, C!D!S!SYMBOL_ID_NONE, C!D!S!NonzeroIds,
    C!D!S!first_nonzero_id, C!D!S!last_nonzero_id, C!D!S!full_symbol_is_zero,
    C!D!S!Min, C!D!S!Max, C!D!S!set, C!D!S!application, C!D!S!GrownSize,
    C!D!S!Return, C!D!S!NotifyStored, C!D!S!full_symbol_has_one_id,
    C!D!S!NewId, C!D!S!SetId, C!D!S!Storing, C!D!S!ZeroSymbol,
    C!D!S!ZeroVector, K!D!S!StoreRight, K!D!S!Ids, K!D!S!SYMBOL_ID_NONE,
    K!D!S!NonzeroIds, K!D!S!first_nonzero_id, K!D!S!last_nonzero_id,
    K!D!S!full_symbol_is_zero, K!D!S!Min, K!D!S!Max, K!D!S!set,
    K!D!S!application, K!D!S!GrownSize, K!D!S!Return, K!D!S!NotifyStored,
    K!D!S!full_symbol_has_one_id, K!D!S!NewId, K!D!S!SetId, K!D!S!Storing,
    K!D!S!ZeroSymbol, K!D!S!ZeroVector
<1>6. C!D!S!StoreLeft => K!D!S!StoreLeft
  BY DEF
    C!D!S!StoreLeft, C!D!S!Ids, C!D!S!SYMBOL_ID_NONE, C!D!S!NonzeroIds,
    C!D!S!first_nonzero_id, C!D!S!last_nonzero_id, C!D!S!full_symbol_is_zero,
    C!D!S!Min, C!D!S!Max, C!D!S!set, C!D!S!application, C!D!S!GrownSize,
    C!D!S!Slots, C!D!S!Return, C!D!S!NotifyStored,
    C!D!S!full_symbol_has_one_id, C!D!S!NewId, C!D!S!SetId, C!D!S!Storing,
    C!D!S!ZeroSymbol, C!D!S!ZeroVector, K!D!S!StoreLeft, K!D!S!Ids,
    K!D!S!SYMBOL_ID_NONE, K!D!S!NonzeroIds, K!D!S!first_nonzero_id,
    K!D!S!last_nonzero_id, K!D!S!full_symbol_is_zero, K!D!S!Min, K!D!S!Max,
    K!D!S!set, K!D!S!application, K!D!S!GrownSize, K!D!S!Slots, K!D!S!Return,
    K!D!S!NotifyStored, K!D!S!full_symbol_has_one_id, K!D!S!NewId, K!D!S!SetId,
    K!D!S!Storing, K!D!S!ZeroSymbol, K!D!S!ZeroVector
<1>7. C!D!S!Overflow => K!D!S!Overflow
  BY DEF
    C!D!S!Overflow, C!D!S!Ids, C!D!S!SYMBOL_ID_NONE, C!D!S!NonzeroIds,
    C!D!S!first_nonzero_id, C!D!S!last_nonzero_id, C!D!S!full_symbol_is_zero,
    C!D!S!Min, C!D!S!Max, C!D!S!set, C!D!S!application, C!D!S!GrownSize,
    C!D!S!NewId, C!D!S!SetId, C!D!S!Storing, K!D!S!Overflow, K!D!S!Ids,
    K!D!S!SYMBOL_ID_NONE, K!D!S!NonzeroIds, K!D!S!first_nonzero_id,
    K!D!S!last_nonzero_id, K!D!S!full_symbol_is_zero, K!D!S!Min, K!D!S!Max,
    K!D!S!set, K!D!S!application, K!D!S!GrownSize, K!D!S!NewId, K!D!S!SetId,
    K!D!S!Storing
<1>8. C!D!S!Init => K!D!S!Init
  BY DEF
    C!D!S!Init, C!D!S!Ids, C!D!S!SYMBOL_ID_NONE, C!D!S!Slots, C!D!S!ZeroSymbol,
    C!D!S!ZeroVector, K!D!S!Init, K!D!S!Ids, K!D!S!SYMBOL_ID_NONE, K!D!S!Slots,
    K!D!S!ZeroSymbol, K!D!S!ZeroVector
<1>9. \A U, v : C!D!S!SpanWith(U, v) = K!D!S!SpanWith(U, v)
  BY SMTT(60) DEF
    C!D!S!SpanWith, C!D!S!symbol_add_scaled, C!D!S!Ids,
    K!D!S!SpanWith, K!D!S!symbol_add_scaled, K!D!S!Ids
<1>10. \A s : C!D!S!AddWithElimination(s) => K!D!S!AddWithElimination(s)
  BY <1>9 DEF
    C!D!S!AddWithElimination, C!D!S!vars, C!D!S!full_symbol_clone, C!D!S!Ids,
    C!D!S!SYMBOL_ID_NONE, C!D!S!NonzeroIds, C!D!S!first_nonzero_id,
    C!D!S!last_nonzero_id, C!D!S!full_symbol_is_zero, C!D!S!Min, C!D!S!Max,
    C!D!S!set, C!D!S!application, C!D!S!ZeroSymbol, C!D!S!ZeroVector,
    K!D!S!AddWithElimination, K!D!S!vars, K!D!S!full_symbol_clone, K!D!S!Ids,
    K!D!S!SYMBOL_ID_NONE, K!D!S!NonzeroIds, K!D!S!first_nonzero_id,
    K!D!S!last_nonzero_id, K!D!S!full_symbol_is_zero, K!D!S!Min, K!D!S!Max,
    K!D!S!set, K!D!S!application, K!D!S!ZeroSymbol, K!D!S!ZeroVector
<1>11. C!D!S!Step => K!D!S!Step
  BY <1>1, <1>2, <1>3, <1>4, <1>5, <1>6, <1>7 DEF C!D!S!Step, K!D!S!Step
<1>12. QED
  BY <1>8, <1>10, <1>11

(* The calls of the decoder that the client makes.                         *)
LEMMA SameDecoder ==
  /\ C!D!ResetCodingWindow => K!D!ResetCodingWindow
  /\ \A id : C!D!AddSourceSymbol(id) => K!D!AddSourceSymbol(id)
  /\ \A cc : C!D!GenerateCodingCoefs(cc) => K!D!GenerateCodingCoefs(cc)
  /\ \A id, data : C!D!DecodeWithNewSourceSymbol(id, data)
                     => K!D!DecodeWithNewSourceSymbol(id, data)
  /\ \A data : C!D!DecodeWithNewRepairSymbol(data) => K!D!DecodeWithNewRepairSymbol(data)
  /\ C!D!SystemStep => K!D!SystemStep
  /\ C!D!Init => K!D!Init
<1> USE DEF
      C!D!Ids, C!D!Vector, C!D!SYMBOL_ID_NONE, C!D!UnitVector, C!D!system,
      C!D!window, C!D!Ready, C!D!Capacity, C!D!Faults, C!D!FirstListed,
      C!D!Accepted, C!D!GenerationCapacity, C!D!Headers,
      C!D!full_symbol_create_from_source, C!D!Cardinality, K!D!Ids,
      K!D!Vector, K!D!SYMBOL_ID_NONE, K!D!UnitVector, K!D!system, K!D!window,
      K!D!Ready, K!D!Capacity, K!D!Faults, K!D!FirstListed, K!D!Accepted,
      K!D!GenerationCapacity, K!D!Headers,
      K!D!full_symbol_create_from_source, K!D!Cardinality
<1> USE ZenonT(60)
<1>1. C!D!ResetCodingWindow => K!D!ResetCodingWindow
  BY DEF C!D!ResetCodingWindow, K!D!ResetCodingWindow
<1>2. \A id : C!D!AddSourceSymbol(id) => K!D!AddSourceSymbol(id)
  BY DEF C!D!AddSourceSymbol, K!D!AddSourceSymbol
<1>3. \A cc : C!D!GenerateCodingCoefs(cc) => K!D!GenerateCodingCoefs(cc)
  BY DEF C!D!GenerateCodingCoefs, K!D!GenerateCodingCoefs
<1>4. \A id, data : C!D!DecodeWithNewSourceSymbol(id, data)
                     => K!D!DecodeWithNewSourceSymbol(id, data)
  BY SameSystem DEF C!D!DecodeWithNewSourceSymbol, K!D!DecodeWithNewSourceSymbol
<1>5. \A data : C!D!DecodeWithNewRepairSymbol(data) => K!D!DecodeWithNewRepairSymbol(data)
  BY SameSystem
     DEF C!D!DecodeWithNewRepairSymbol, K!D!DecodeWithNewRepairSymbol
<1>6. C!D!SystemStep => K!D!SystemStep
  BY SameSystem DEF C!D!SystemStep, K!D!SystemStep
<1>7. C!D!Init => K!D!Init
  BY SameSystem DEF C!D!Init, K!D!Init
<1>8. QED
  BY <1>1, <1>2, <1>3, <1>4, <1>5, <1>6, <1>7

(* The client of the session is the one of the theorems.                   *)
LEMMA SameClient ==
  /\ C!Init => K!Init
  /\ \A is_oti, known_codepoint :
       C!ReceiveFirstPacket(is_oti, known_codepoint)
         => K!ReceiveFirstPacket(is_oti, known_codepoint)
  /\ \A esi : C!ReceiveSourcePacket(esi) => K!ReceiveSourcePacket(esi)
  /\ \A p : C!ReceiveRepairPacket(p) => K!ReceiveRepairPacket(p)
  /\ C!ListSymbol => K!ListSymbol
  /\ C!GenerateCoefs => K!GenerateCoefs
  /\ C!SubmitRepair => K!SubmitRepair
  /\ C!DecoderStep => K!DecoderStep
  /\ C!NoMorePacket => K!NoMorePacket
<1>0. C!MAX_SYMBOLS = K!MAX_SYMBOLS
  BY DEF C!MAX_SYMBOLS, K!MAX_SYMBOLS
<1> USE DEF
      C!Ids, C!UnitVector, C!decoder, C!tables, C!tot_src, C!ListedUpTo,
      C!DecodedSourceSymbolCallback, K!Ids, K!UnitVector, K!decoder,
      K!tables, K!tot_src, K!ListedUpTo, K!DecodedSourceSymbolCallback
<1> USE ZenonT(60)
<1>1. C!Init => K!Init
  BY SameDecoder DEF C!Init, K!Init
<1>2. \A is_oti, known_codepoint :
        C!ReceiveFirstPacket(is_oti, known_codepoint)
          => K!ReceiveFirstPacket(is_oti, known_codepoint)
  BY <1>0 DEF C!ReceiveFirstPacket, K!ReceiveFirstPacket
<1>3. \A esi : C!ReceiveSourcePacket(esi) => K!ReceiveSourcePacket(esi)
  BY SameDecoder DEF C!ReceiveSourcePacket, K!ReceiveSourcePacket
<1>4. \A p : C!ReceiveRepairPacket(p) => K!ReceiveRepairPacket(p)
  BY SameDecoder DEF C!ReceiveRepairPacket, K!ReceiveRepairPacket
<1>5. C!ListSymbol => K!ListSymbol
  <2>1. C!D!Accepted(next_esi) <=> K!D!Accepted(next_esi)
    BY DEF C!D!Accepted, K!D!Accepted, C!D!FirstListed, K!D!FirstListed,
       C!D!SYMBOL_ID_NONE, K!D!SYMBOL_ID_NONE
  <2>2. QED
    BY <2>1, SameDecoder DEF C!ListSymbol, K!ListSymbol
<1>6. C!GenerateCoefs => K!GenerateCoefs
  BY SameDecoder DEF C!GenerateCoefs, K!GenerateCoefs
<1>7. C!SubmitRepair => K!SubmitRepair
  BY SameDecoder DEF C!SubmitRepair, K!SubmitRepair
<1>8. C!DecoderStep => K!DecoderStep
  BY SameDecoder DEF C!DecoderStep, K!DecoderStep
<1>9. C!NoMorePacket => K!NoMorePacket
  <2>1. C!D!Ready <=> K!D!Ready
    BY DEF C!D!Ready, K!D!Ready
  <2>2. QED
    BY <2>1 DEF C!NoMorePacket, K!NoMorePacket
<1>10. QED
  BY <1>1, <1>2, <1>3, <1>4, <1>5, <1>6, <1>7, <1>8, <1>9

-------------------------------------------------------------------------------
USE SMTT(60)

(* Until the window slides, only honest packets are on their way, and the  *)
(* client is the one of module SimpleClient.  Its linear system is the one *)
(* of the theorems until a window is longer than the table.                *)
ClientFollows ==
  removed = NULL => /\ network \in Seq(Packets)
                    /\ K!ClientInv /\ K!HonestInHand
                    /\ ~overrun => K!P!IInv

SessionInv == ServerInv /\ ClientFollows

(* The assumptions of the client's theorems.                               *)
LEMMA ClientAssumed ==
  /\ ew_size \in Nat \ {0} /\ symbol_size \in Nat \ {0} /\ MaxListed \in Nat
  /\ FULL_SYMBOL_SET_INITIAL_SIZE \in Nat \ {0} /\ NULL \notin K!FullSymbols
  /\ NULL \notin [0 .. symbol_size - 1 -> F]
  /\ tot_enc \in Nat /\ IdSpan \in Nat /\ MaxId < IdSpan - 1
<1>1. K!FullSymbols = C!FullSymbols
  BY DEF K!FullSymbols, C!FullSymbols, K!Vector, C!Vector, K!Ids, C!Ids
<1>2. QED
  BY <1>1, SessionAssumption, EwSizeAssumption, RateAssumption, SpanAssumption

LEMMA ClientOperators ==
  /\ K!Ids = Ids /\ K!Vector = Vector /\ C!D!S!Slots = K!P!Slots
  /\ \A id : UnitVector(id) = K!UnitVector(id)
  /\ (C!D!S!NoWrap <=> K!P!NoWrap)
<1>1. K!Ids = Ids
  BY DEF K!Ids, Ids
<1>2. QED
  BY <1>1 DEF K!Vector, Vector, C!D!S!Slots, K!P!Slots, UnitVector, K!UnitVector,
     C!D!S!NoWrap, K!P!NoWrap

LEMMA ClientInit ==
  ASSUME C!Init
  PROVE  K!ClientInv /\ K!HonestInHand /\ K!P!IInv
<1>1. K!ClientInv /\ K!P!IInv
  BY SameClient, ClientAssumed, FieldAssumption, MaxIdAssumption, K!InitClient,
     K!ClientSystemInit
<1>2. K!HonestInHand
  BY DEF C!Init, K!HonestInHand
<1>3. QED
  BY <1>1, <1>2

LEMMA ClientNext ==
  ASSUME C!D!S!NoWrap, ~overrun => K!P!IInv, K!ClientInv, K!HonestInHand,
         [K!Next]_(K!vars)
  PROVE  /\ K!ClientInv' /\ K!HonestInHand' /\ (~overrun' => K!P!IInv')
         /\ ~overrun => \A id \in Ids : notified'[id] # notified[id] =>
              \E k \in C!D!S!Slots' :
                /\ first_symbol_id' + k = id
                /\ full_symbol_tab'[k].data = UnitVector(id)
<1>1. K!ClientInv' /\ K!HonestInHand' /\ (overrun => overrun')
  BY ClientAssumed, FieldAssumption, MaxIdAssumption, K!NextClient, K!HonestNext,
     K!OverrunStays DEF K!AnyNext
<1>2. ASSUME ~overrun PROVE K!P!IInv'
  <2>1. K!P!NoWrap /\ K!P!IInv
    BY <1>2, ClientOperators
  <2>2. QED
    BY <1>2, <2>1, ClientAssumed, FieldAssumption, MaxIdAssumption, K!ClientSystemNext
<1>3. ASSUME ~overrun, NEW id \in K!Ids, notified'[id] # notified[id]
      PROVE  \E k \in K!P!Slots' : /\ first_symbol_id' + k = id
                                  /\ full_symbol_tab'[k].data = K!UnitVector(id)
  <2>1. K!P!NoWrap /\ K!P!IInv
    BY <1>3, ClientOperators
  <2>2. QED
    BY <1>3, <2>1, ClientAssumed, FieldAssumption, MaxIdAssumption, K!ToldHasPayload
<1>4. C!D!S!Slots' = K!P!Slots'
  BY DEF C!D!S!Slots, K!P!Slots
<1>5. QED
  BY <1>1, <1>2, <1>3, <1>4, ClientOperators

LEMMA SameWhenUnchanged == UNCHANGED client => UNCHANGED K!vars
BY DEF client, K!vars, K!decoder, K!tables

(* The packets of the server are those of module SimpleClient.             *)
LEMMA PacketOperators == WellFormed \subseteq K!RepairPackets /\ Honest \subseteq K!HonestPackets
<1>1. WellFormed \subseteq K!RepairPackets
  BY ClientOperators DEF WellFormed, K!RepairPackets
<1>2. ASSUME NEW p \in Honest PROVE p \in K!HonestPackets
  <2>1. p = [esi |-> p.esi, nss |-> p.nss, coefs |-> p.coefs,
             data |-> K!Payload(p.esi, p.nss, p.coefs)]
    BY ClientOperators DEF Honest, WellFormed, K!Payload
  <2>2. p \in K!RepairPackets /\ p.esi \in K!Ids /\ p.nss \in 1 .. ew_size
        /\ p.coefs \in [0 .. ew_size - 1 -> F]
    BY <1>1, ClientOperators DEF Honest, WellFormed
  <2>3. QED
    BY <2>1, <2>2 DEF K!HonestPackets
<1>3. QED
  BY <1>1, <1>2

(* What the client does with a packet.                                     *)
LEMMA ReceiveSteps ==
  ASSUME network \in Seq(Packets), NEW n \in DOMAIN network, Receive(n)
  PROVE  K!Next /\ network' \in Seq(Packets) /\ UNCHANGED server
<1> DEFINE packet == network[n]
<1>1. packet \in Packets /\ network' \in Seq(Packets) /\ UNCHANGED server
  BY RemoveKeepsPackets DEF Receive, RemoveAt, Without
<1>2. FirstReceived(packet) \/ SourceReceived(packet) \/ RepairReceived(packet)
  BY DEF Receive
<1> HIDE DEF packet
<1>3. CASE FirstReceived(packet)
  BY ZenonT(60), <1>1, <1>3, SameClient DEF FirstReceived, K!Next
<1>4. CASE SourceReceived(packet)
  <2>1. packet.kind = "source" /\ K!ReceiveSourcePacket(packet.esi)
    BY ZenonT(60), <1>4, SameClient DEF SourceReceived
  <2>2. packet.esi \in K!Ids
    BY <1>1, <2>1, ClientOperators DEF Packets, OtiPacket, SourcePacket, RepairPacket
  <2>3. QED
    BY <1>1, <2>1, <2>2 DEF K!Next
<1>5. CASE RepairReceived(packet)
  <2> DEFINE p == [esi |-> packet.esi, nss |-> packet.nss,
                   coefs |-> packet.coefs, data |-> packet.data]
  <2>1. packet.kind = "repair" /\ K!ReceiveRepairPacket(p)
    BY <1>5, SameClient DEF RepairReceived
  <2>2. PICK q \in K!HonestPackets : packet = RepairPacket(q.esi, q.nss, q.coefs, q.data)
    BY <1>1, <2>1, PacketOperators DEF Packets, OtiPacket, SourcePacket
  <2>3. p = q
    BY <2>2 DEF K!HonestPackets, K!RepairPackets, RepairPacket
  <2>4. QED
    BY <1>1, <2>1, <2>2, <2>3 DEF K!Next
<1>6. QED
  BY <1>2, <1>3, <1>4, <1>5

LEMMA SessionSteps ==
  ASSUME tot_src < NssSpan, C!D!S!NoWrap,
         SessionInv, [SessionNext]_session
  PROVE  /\ SessionInv'
         /\ removed' = NULL => removed = NULL /\ [K!Next]_(K!vars)
<1>1. ASSUME [ServerStep]_server,
             removed = NULL /\ removed' = NULL =>
               network' \in Seq(Packets) /\ [K!Next]_(K!vars)
      PROVE  /\ SessionInv'
             /\ removed' = NULL => removed = NULL /\ [K!Next]_(K!vars)
  <2>1. ServerInv' /\ (removed # NULL => removed' # NULL)
    BY <1>1, ServerInvNext DEF SessionInv
  <2>2. ASSUME removed' = NULL
        PROVE  removed = NULL /\ network' \in Seq(Packets) /\ [K!Next]_(K!vars)
    BY <1>1, <2>1, <2>2
  <2>3. ASSUME removed' = NULL
        PROVE  K!ClientInv' /\ K!HonestInHand' /\ (~overrun' => K!P!IInv')
    BY <2>2, <2>3, ClientNext DEF SessionInv, ClientFollows
  <2>4. Packets' = Packets
    BY DEF Packets, Honest, WellFormed, OtiPacket
  <2>5. QED
    BY <2>1, <2>2, <2>3, <2>4 DEF SessionInv, ClientFollows
<1>2. removed = NULL => network \in Seq(Packets)
  BY DEF SessionInv, ClientFollows
<1>3. CASE Serve
  <2>1. ServerStep /\ UNCHANGED K!vars
    BY ZenonT(60), <1>3, SameWhenUnchanged DEF Serve
  <2>2. removed = NULL => network' \in Seq(Packets)
    BY <1>2, <2>1, ServeSends DEF SessionInv
  <2>3. QED
    BY <1>1, <2>1, <2>2
<1>4. ASSUME NEW n \in DOMAIN network, Receive(n)
      PROVE  /\ SessionInv'
             /\ removed' = NULL => removed = NULL /\ [K!Next]_(K!vars)
  <2>1. UNCHANGED server
    BY ZenonT(60), <1>4 DEF Receive
  <2>2. QED
    BY <1>1, <1>2, <1>4, <2>1, ReceiveSteps
<1>5. CASE Handle
  <2>1. UNCHANGED <<server, network>> /\ K!Next
    BY ZenonT(60), <1>5, SameClient DEF Handle, C!Handle, K!Next
  <2>2. QED
    BY <1>1, <1>2, <2>1
<1>6. CASE GiveUp
  BY <1>1, <1>2, <1>6, SameClient DEF GiveUp, K!Next
<1>7. CASE Discard
  <2>1. <<>> \in Seq(Packets)
    BY ZenonT(60), EmptySeq
  <2>2. QED
    BY <1>1, <1>7, <2>1, SameWhenUnchanged DEF Discard
<1>8. CASE UNCHANGED session
  BY <1>1, <1>2, <1>8, SameWhenUnchanged DEF session
<1>9. QED
  BY <1>3, <1>4, <1>5, <1>6, <1>7, <1>8 DEF SessionNext, ClientStep

LEMMA SessionInvariance ==
  ASSUME tot_src < NssSpan, C!D!S!NoWrap
  PROVE  SessionSpec => []SessionInv
<1>1. SessionInit => SessionInv
  <2>1. ASSUME SessionInit PROVE SessionInv
    <3>1. Init /\ C!Init /\ network = <<>>
      BY <2>1 DEF SessionInit, Init
    <3>2. ServerInv /\ K!ClientInv /\ K!HonestInHand /\ K!P!IInv
      BY <3>1, ServerInvInit, ClientInit
    <3>3. network \in Seq(Packets)
      BY <3>1
    <3>4. QED
      BY <3>2, <3>3 DEF SessionInv, ClientFollows
  <2>2. QED
    BY <2>1
<1>2. SessionInv /\ [SessionNext]_session => SessionInv'
  BY SessionSteps
<1>3. QED
  BY <1>1, <1>2, PTL DEF SessionSpec

(***************************************************************************)
(* From what simple_server.c reads to what the callback of simple_client.c *)
(* is given: while the window of the server never slid, and no repair      *)
(* packet over more symbols than a symbol has bytes was received, the      *)
(* payload the client is handed for a source symbol is that symbol,        *)
(* whatever was lost or reordered on the way.  The session has fewer       *)
(* source symbols than the field nss of a header has values (1000 against  *)
(* 4096 in the code).                                                      *)
(***************************************************************************)
THEOREM ClientDecodesWhatWasRead ==
  ASSUME tot_src < NssSpan, C!D!S!NoWrap
  PROVE  SessionSpec => DecodedIsRead
<1> DEFINE Told ==
      \A id \in Ids : removed' = NULL /\ ~overrun /\ notified'[id] > notified[id] =>
        \E k \in C!D!S!Slots' : /\ first_symbol_id' + k = id
                                /\ full_symbol_tab'[k].data = UnitVector(id)
<1>1. ASSUME SessionInv, [SessionNext]_session PROVE Told
  <2>1. SUFFICES ASSUME removed' = NULL, ~overrun, NEW id \in Ids, notified'[id] > notified[id]
                 PROVE  \E k \in C!D!S!Slots' :
                          /\ first_symbol_id' + k = id
                          /\ full_symbol_tab'[k].data = UnitVector(id)
    OBVIOUS
  <2>2. /\ K!ClientInv /\ K!HonestInHand /\ (~overrun => K!P!IInv)
        /\ [K!Next]_(K!vars)
    BY ZenonT(60), <1>1, <2>1, SessionSteps DEF SessionInv, ClientFollows
  <2>3. notified'[id] # notified[id]
    <3>1. notified[id] \in Nat
      BY <2>1, <2>2 DEF K!P!IInv, K!P!TypeOK, K!P!Ids, Ids
    <3>2. QED
      BY <2>1, <3>1
  <2>4. QED
    BY <2>1, <2>2, <2>3, ClientNext
<1> HIDE DEF Told
<1>2. SessionInv /\ [SessionNext]_session => [Told]_session
  BY ZenonT(60), <1>1
<1>3. SessionSpec => [][Told]_session
  BY <1>2, SessionInvariance, PTL DEF SessionSpec
<1>4. QED
  BY <1>3 DEF DecodedIsRead, Told

-------------------------------------------------------------------------------
(***************************************************************************)
(* A client that receives the packets in the order they were sent learns   *)
(* nothing about a symbol before its source packet: that is the condition  *)
(* under which its tables are exact, as long as its headers are the        *)
(* server's.                                                               *)
(***************************************************************************)
Fresh == ~disordered /\ ~overrun => \A c \in Ids : ToCome(c) => K!Untouched(c)

OrderedInv ==
  /\ ServerInv
  /\ network \in Seq(Sendable) /\ YoungerUnsent /\ InOrder /\ Fresh
  /\ K!ClientInv /\ K!DecoderInv /\ K!AvailableIsKnown
  /\ Orderly => K!OrderInv

(* What the client does with a packet, whatever the server sent.           *)
LEMMA ReceiveAny ==
  ASSUME NEW n \in DOMAIN network, network[n] \in Sendable, Receive(n)
  PROVE  /\ [K!AnyNext]_(K!vars)
         /\ \A c \in Ids : ~Touches(network[n], c) => [K!AwayNext(c)]_(K!vars)
         /\ (\A c \in Ids : network[n] = SourcePacket(c) => K!Untouched(c)) /\ ~single'
              => [K!OrderlyNext]_(K!vars)
<1> DEFINE packet == network[n]
<1>1. /\ packet \in Sendable
      /\ FirstReceived(packet) \/ SourceReceived(packet) \/ RepairReceived(packet)
      /\ ~single' => ~(packet.kind = "repair" /\ Cardinality(Coefficients(packet)) < 2)
  BY ZenonT(60) DEF Receive
<1> HIDE DEF packet
<1>2. SUFFICES /\ K!AnyNext
               /\ \A c \in Ids : ~Touches(packet, c) => K!AwayNext(c)
               /\ (\A c \in Ids : packet = SourcePacket(c) => K!Untouched(c)) /\ ~single'
                    => K!OrderlyNext
  BY DEF packet
<1>3. CASE FirstReceived(packet)
  BY ZenonT(60), <1>3, SameClient
     DEF FirstReceived, K!AnyNext, K!Next, K!AwayNext, K!OrderlyNext
<1>4. CASE SourceReceived(packet)
  <2>1. packet.kind = "source" /\ K!ReceiveSourcePacket(packet.esi)
    BY <1>4, SameClient DEF SourceReceived
  <2>2. PICK esi \in Ids : packet = SourcePacket(esi)
    BY <1>1, <2>1 DEF Sendable, OtiPacket, RepairPacket
  <2>3. packet.esi = esi /\ Touches(packet, esi) /\ esi \in K!Ids
    BY <2>1, <2>2, ClientOperators DEF SourcePacket, Touches
  <2>4. K!ReceiveSourcePacket(esi)
    BY <2>1, <2>3
  <2>5. ASSUME NEW c \in Ids, ~Touches(packet, c) PROVE K!AwayNext(c)
    BY ZenonT(60), <2>3, <2>4, <2>5 DEF K!AwayNext
  <2>6. ASSUME \A c \in Ids : packet = SourcePacket(c) => K!Untouched(c)
        PROVE  K!OrderlyNext
    BY <2>2, <2>3, <2>4, <2>6 DEF K!OrderlyNext, K!Untouched
  <2>7. QED
    BY <2>3, <2>4, <2>5, <2>6 DEF K!AnyNext, K!Next
<1>5. CASE RepairReceived(packet)
  <2>1. /\ packet.kind = "repair"
        /\ K!ReceiveRepairPacket([esi |-> packet.esi, nss |-> packet.nss,
                                  coefs |-> packet.coefs, data |-> packet.data])
    BY ZenonT(60), <1>5, SameClient DEF RepairReceived
  <2>2. PICK p \in WellFormed : packet = RepairPacket(p.esi, p.nss, p.coefs, p.data)
    BY <1>1, <2>1 DEF Sendable, OtiPacket, SourcePacket
  <2>3. /\ p \in K!RepairPackets
        /\ p = [esi |-> packet.esi, nss |-> packet.nss,
                coefs |-> packet.coefs, data |-> packet.data]
    BY <2>2, PacketOperators DEF WellFormed, RepairPacket
  <2>4. K!ReceiveRepairPacket(p)
    BY <2>1, <2>3
  <2>5. ASSUME NEW c \in Ids, ~Touches(packet, c) PROVE K!AwayNext(c)
    <3>1. c \notin p.esi .. p.esi + p.nss - 1
      BY <2>1, <2>2, <2>5 DEF Touches, RepairPacket
    <3>2. QED
      BY <2>3, <2>4, <3>1 DEF K!AwayNext
  <2>6. ASSUME ~single' PROVE K!OrderlyNext
    <3>1. Coefficients(packet) = {k \in DOMAIN p.coefs : p.coefs[k] # Zero}
      BY ZenonT(60), <2>2 DEF Coefficients, RepairPacket
    <3>2. K!HasPair(p)
      BY <1>1, <2>1, <2>2, <2>6, <3>1, TwoCoefficients DEF K!HasPair
    <3>3. QED
      BY <2>3, <2>4, <3>2 DEF K!OrderlyNext
  <2>7. QED
    BY <2>3, <2>4, <2>5, <2>6 DEF K!AnyNext
<1>6. QED
  BY <1>1, <1>3, <1>4, <1>5

(* What the client keeps of what it has not received.                      *)
LEMMA ClientStaysAway ==
  ASSUME ~overrun, K!ClientInv, K!DecoderInv, NEW c \in Ids,
         K!Untouched(c), [K!AwayNext(c)]_(K!vars)
  PROVE  K!Untouched(c)'
<1>1. c \in K!Ids
  BY ClientOperators
<1>2. QED
  BY ZenonT(60), <1>1, ClientAssumed, FieldAssumption, MaxIdAssumption, K!UntouchedStep

LEMMA ClientStaysOrderly ==
  ASSUME ~overrun, C!D!S!NoWrap, K!ClientInv, K!DecoderInv, K!OrderInv,
         [K!OrderlyNext]_(K!vars), dropped' = {}, pc' # "crashed"
  PROVE  K!OrderInv'
<1>1. K!P!NoWrap
  BY ClientOperators
<1>2. QED
  BY <1>1, ClientAssumed, FieldAssumption, MaxIdAssumption, K!OrderStep

LEMMA OrderedStep ==
  ASSUME tot_src < NssSpan, C!D!S!NoWrap,
         OrderedInv, [SessionNext]_session
  PROVE  OrderedInv'
<1>1. ASSUME [K!AnyNext]_(K!vars), [ServerStep]_server,
             network' \in Seq(Sendable), YoungerUnsent', InOrder',
             ~disordered' => /\ ~disordered
                             /\ \A c \in Ids : ToCome(c)' =>
                                  ToCome(c) /\ [K!AwayNext(c)]_(K!vars),
             ~disordered' /\ ~single' /\ ~overrun =>
               ~disordered /\ ~single /\ [K!OrderlyNext]_(K!vars)
      PROVE  OrderedInv'
  <2>1. ServerInv'
    BY <1>1, ServerInvNext DEF OrderedInv
  <2>2. /\ K!ClientInv' /\ K!DecoderInv' /\ K!AvailableIsKnown'
        /\ dropped \subseteq dropped' /\ (pc = "crashed" => pc' = "crashed")
        /\ overrun => overrun'
    BY ZenonT(60), <1>1, ClientOperators, ClientAssumed, FieldAssumption, MaxIdAssumption,
       K!ClientStays DEF OrderedInv
  <2>3. Sendable' = Sendable
    BY DEF Sendable, WellFormed, OtiPacket
  <2>4. Fresh'
    <3>1. SUFFICES ASSUME ~disordered', ~overrun', NEW c \in Ids, ToCome(c)'
                   PROVE  K!Untouched(c)'
      BY DEF Fresh
    <3>2. ~overrun /\ K!Untouched(c) /\ [K!AwayNext(c)]_(K!vars)
      BY <1>1, <2>2, <3>1 DEF OrderedInv, Fresh
    <3>3. QED
      BY <3>2, ClientStaysAway DEF OrderedInv
  <2>5. ASSUME Orderly' PROVE K!OrderInv'
    <3>1. ~disordered' /\ ~single' /\ ~overrun' /\ dropped' = {} /\ pc' # "crashed"
      BY <2>5 DEF Orderly
    <3>2. Orderly /\ [K!OrderlyNext]_(K!vars)
      BY <1>1, <2>2, <3>1 DEF Orderly
    <3>3. QED
      BY <3>1, <3>2, ClientStaysOrderly DEF OrderedInv, Orderly
  <2>6. QED
    BY <1>1, <2>1, <2>2, <2>3, <2>4, <2>5 DEF OrderedInv
<1>2. ServerInv /\ network \in Seq(Sendable) /\ YoungerUnsent /\ InOrder
  BY DEF OrderedInv
<1>3. UNCHANGED server => UNCHANGED Read
  BY DEF server, Read
<1>4. ASSUME UNCHANGED <<server, network>>
      PROVE  /\ network' \in Seq(Sendable) /\ YoungerUnsent' /\ InOrder'
             /\ \A c \in Ids : ToCome(c)' => ToCome(c)
  BY <1>2, <1>3, <1>4 DEF YoungerUnsent, InOrder, ToCome
<1>5. CASE Serve
  <2>1. ServerStep /\ UNCHANGED K!vars /\ UNCHANGED <<disordered, single>>
    BY ZenonT(60), <1>5, SameWhenUnchanged DEF Serve
  <2>2. /\ network' \in Seq(Sendable) /\ YoungerUnsent' /\ InOrder'
        /\ \A c \in Ids : ToCome(c)' => ToCome(c)
    BY <1>2, <2>1, ServeOrder
  <2>3. QED
    BY ZenonT(60), <1>1, <2>1, <2>2
<1>6. ASSUME NEW n \in DOMAIN network, Receive(n) PROVE OrderedInv'
  <2>1. /\ network' = Without(network, n) /\ UNCHANGED server
        /\ disordered' = (disordered \/ n > 1) /\ (~single' => ~single)
    BY ZenonT(60), <1>6 DEF Receive, RemoveAt, Without
  <2>2. /\ network[n] \in Sendable /\ network' \in Seq(Sendable)
        /\ YoungerUnsent' /\ InOrder'
        /\ \A c \in Ids : ToCome(c)' => ToCome(c)
        /\ n = 1 => \A c \in Ids : ToCome(c)' => ~Touches(network[n], c)
    BY <1>2, <1>3, <2>1, ReceiveOrder
  <2>3. /\ [K!AnyNext]_(K!vars)
        /\ \A c \in Ids : ~Touches(network[n], c) => [K!AwayNext(c)]_(K!vars)
        /\ (\A c \in Ids : network[n] = SourcePacket(c) => K!Untouched(c)) /\ ~single'
             => [K!OrderlyNext]_(K!vars)
    BY <1>6, <2>2, ReceiveAny
  <2>4. ~disordered' => ~disordered /\ n = 1
    <3>1. n \in Nat /\ n >= 1
      BY <1>2
    <3>2. ~disordered' => ~disordered /\ ~(n > 1)
      BY ZenonT(60), <2>1
    <3>3. QED
      BY <3>1, <3>2
  <2>5. ~disordered /\ ~overrun =>
          \A c \in Ids : network[n] = SourcePacket(c) => K!Untouched(c)
    BY DEF OrderedInv, Fresh, ToCome
  <2>6. QED
    BY <1>1, <2>1, <2>2, <2>3, <2>4, <2>5
<1>7. ASSUME K!Handle \/ K!NoMorePacket, UNCHANGED <<server, network, disordered, single>>
      PROVE  OrderedInv'
  <2>1. K!AnyNext /\ K!OrderlyNext /\ \A c : K!AwayNext(c)
    BY <1>7 DEF K!AnyNext, K!Next, K!Handle, K!OrderlyNext, K!AwayNext
  <2>2. QED
    BY <1>1, <1>4, <1>7, <2>1
<1>8. CASE Handle \/ GiveUp
  BY ZenonT(60), <1>7, <1>8, SameClient DEF Handle, GiveUp, C!Handle, K!Handle
<1>9. CASE Discard
  <2>1. network' = <<>> /\ UNCHANGED <<server, disordered, single>> /\ UNCHANGED K!vars
    BY <1>9, SameWhenUnchanged DEF Discard
  <2>2. network' \in Seq(Sendable) /\ YoungerUnsent' /\ InOrder'
    BY <2>1 DEF YoungerUnsent, InOrder
  <2>3. \A c \in Ids : ToCome(c)' => ToCome(c)
    BY <1>3, <2>1 DEF ToCome
  <2>4. QED
    BY <1>1, <2>1, <2>2, <2>3
<1>10. CASE UNCHANGED session
  <2>1. UNCHANGED <<server, network, disordered, single>> /\ UNCHANGED K!vars
    BY <1>10, SameWhenUnchanged DEF session
  <2>2. QED
    BY <1>1, <1>4, <2>1
<1>11. QED
  BY <1>5, <1>6, <1>8, <1>9, <1>10 DEF SessionNext, ClientStep

LEMMA OrderedInit == SessionInit => OrderedInv
<1>1. SUFFICES ASSUME SessionInit PROVE OrderedInv
  OBVIOUS
<1>2. Init /\ C!Init /\ network = <<>>
  BY <1>1 DEF SessionInit, Init
<1>3. /\ K!ClientInv /\ K!DecoderInv /\ K!AvailableIsKnown /\ K!OrderInv
      /\ \A c \in Ids : K!Untouched(c)
  BY <1>2, SameClient, ClientOperators, ClientAssumed, FieldAssumption, MaxIdAssumption,
     K!StartsOrderly
<1>4. network \in Seq(Sendable) /\ YoungerUnsent /\ InOrder
  BY <1>2 DEF YoungerUnsent, InOrder
<1>5. QED
  BY <1>2, <1>3, <1>4, ServerInvInit DEF OrderedInv, Fresh

LEMMA OrderedInvariance ==
  ASSUME tot_src < NssSpan, C!D!S!NoWrap
  PROVE  SessionSpec => []OrderedInv
<1>1. OrderedInv /\ [SessionNext]_session => OrderedInv'
  BY OrderedStep
<1>2. QED
  BY <1>1, OrderedInit, PTL DEF SessionSpec

(***************************************************************************)
(* The clean-up of simple_client.c frees what its loop allocated: when no  *)
(* packet overtook another, no repair packet had a single coefficient or   *)
(* more symbols than a symbol has bytes, and no row was dropped, the       *)
(* callback never replaced the pointer to a received packet, whether the   *)
(* window of the server slid or not.                                       *)
(***************************************************************************)
THEOREM CleanupFreesItsPackets ==
  ASSUME tot_src < NssSpan, C!D!S!NoWrap
  PROVE  SessionSpec => []CleanupFreesPackets
<1>1. OrderedInv => CleanupFreesPackets
  BY ClientOperators DEF OrderedInv, CleanupFreesPackets, K!OrderInv, K!Reported
<1>2. QED
  BY <1>1, OrderedInvariance, PTL

(***************************************************************************)
(* In such a session the client reports, between two packets, exactly the  *)
(* symbols that what it received determines: neither the direct calls of   *)
(* its loop nor the callback misses one or invents one.                    *)
(***************************************************************************)
THEOREM ClientReportsWhatIsDetermined ==
  ASSUME tot_src < NssSpan, C!D!S!NoWrap
  PROVE  SessionSpec => []DeterminedIsAvailable
<1>1. ASSUME OrderedInv, Orderly, pc = "idle" PROVE Available = Determined
  <2>1. K!DecoderInv /\ K!OrderInv /\ K!AvailableIsKnown /\ dropped = {}
    BY <1>1 DEF OrderedInv, Orderly
  <2>2. ASSUME NEW id \in K!Ids
        PROVE  src_symbols_status_tab[id] # "missing" <=> K!UnitVector(id) \in known
    BY <1>1, <2>1, ClientAssumed, FieldAssumption, MaxIdAssumption, K!OrderIsExact
  <2>3. QED
    BY <2>2, ClientOperators DEF Available, Determined
<1>2. OrderedInv => DeterminedIsAvailable
  BY <1>1 DEF DeterminedIsAvailable
<1>3. QED
  BY <1>2, OrderedInvariance, PTL
===============================================================================
