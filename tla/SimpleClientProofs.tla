-------------------------- MODULE SimpleClientProofs --------------------------
(***************************************************************************)
(* Proofs about the client of the demo: its calls rebuild the header of    *)
(* every packet, so the decoder it drives is the linear system of module   *)
(* FullSymbolSet, and the theorems about that one apply.                   *)
(***************************************************************************)
EXTENDS SimpleClient, FiniteSetTheorems, TLAPS

(* The linear system of the client's decoder, with the theorems about it.  *)
P == INSTANCE FullSymbolSetProofs

(* The client's decoder, with the theorems about it.                       *)
A == INSTANCE RlcDecoderProofs WITH max_coding_window_size <- ew_size

(***************************************************************************)
(* The operators of the instances that read no variable are those of       *)
(* module FullSymbol.                                                      *)
(***************************************************************************)
LEMMA DecoderOperators ==
  /\ D!Ids = Ids /\ D!Vector = Vector /\ D!SYMBOL_ID_NONE = SYMBOL_ID_NONE
  /\ D!FullSymbols = FullSymbols
  /\ \A id : D!UnitVector(id) = UnitVector(id)
  /\ \A id, data : D!full_symbol_create_from_source(id, data)
                     = full_symbol_create_from_source(id, data)
<1>1. D!Ids = Ids /\ D!SYMBOL_ID_NONE = SYMBOL_ID_NONE
  BY DEF D!Ids, Ids, D!SYMBOL_ID_NONE, SYMBOL_ID_NONE
<1>2. D!Vector = Vector
  BY <1>1 DEF D!Vector, Vector
<1>3. D!FullSymbols = FullSymbols
  BY <1>2 DEF D!FullSymbols, FullSymbols
<1>4. \A id : D!UnitVector(id) = UnitVector(id)
  BY <1>1 DEF D!UnitVector, UnitVector
<1>5. \A id, data : D!full_symbol_create_from_source(id, data)
                     = full_symbol_create_from_source(id, data)
  BY <1>4 DEF D!full_symbol_create_from_source, full_symbol_create_from_source
<1>6. QED
  BY <1>1, <1>2, <1>3, <1>4, <1>5

LEMMA SystemOperators ==
  /\ D!S!Ids = Ids /\ D!S!Vector = Vector /\ D!S!SYMBOL_ID_NONE = SYMBOL_ID_NONE
  /\ P!Ids = Ids /\ P!Vector = Vector /\ P!SYMBOL_ID_NONE = SYMBOL_ID_NONE
  /\ P!FullSymbols = FullSymbols
  /\ D!S!ZeroVector = P!ZeroVector /\ D!S!ZeroSymbol = P!ZeroSymbol
  /\ \A id : D!S!UnitVector(id) = UnitVector(id) /\ P!UnitVector(id) = UnitVector(id)
  /\ \A s : /\ D!S!first_nonzero_id(s) = P!first_nonzero_id(s)
            /\ D!S!last_nonzero_id(s) = P!last_nonzero_id(s)
            /\ D!S!full_symbol_is_zero(s) = full_symbol_is_zero(s)
            /\ P!full_symbol_is_zero(s) = full_symbol_is_zero(s)
            /\ D!S!full_symbol_has_one_id(s) = P!full_symbol_has_one_id(s)
            /\ D!S!full_symbol_clone(s) = P!full_symbol_clone(s)
  /\ \A s, a : /\ D!S!full_symbol_get_coef(s, a) = P!full_symbol_get_coef(s, a)
               /\ D!S!full_symbol_scale(s, a) = P!full_symbol_scale(s, a)
  /\ \A s, t : D!S!full_symbol_add(s, t) = P!full_symbol_add(s, t)
  /\ \A U, v : D!S!SpanWith(U, v) = P!SpanWith(U, v) /\ P!SpanWith(U, v) = SpanWith(U, v)
<1>1. /\ D!S!Ids = Ids /\ D!S!Vector = Vector /\ D!S!SYMBOL_ID_NONE = SYMBOL_ID_NONE
      /\ P!Ids = Ids /\ P!Vector = Vector /\ P!SYMBOL_ID_NONE = SYMBOL_ID_NONE
  BY DEF D!S!Ids, P!Ids, Ids, D!S!Vector, P!Vector, Vector,
     D!S!SYMBOL_ID_NONE, P!SYMBOL_ID_NONE, SYMBOL_ID_NONE
<1>2. /\ D!S!ZeroVector = P!ZeroVector /\ D!S!ZeroSymbol = P!ZeroSymbol
      /\ P!FullSymbols = FullSymbols
      /\ \A id : D!S!UnitVector(id) = UnitVector(id) /\ P!UnitVector(id) = UnitVector(id)
  BY <1>1 DEF D!S!ZeroVector, P!ZeroVector, D!S!ZeroSymbol, P!ZeroSymbol,
     P!FullSymbols, FullSymbols, D!S!UnitVector, P!UnitVector, UnitVector
<1>3. \A s : D!S!NonzeroIds(s) = NonzeroIds(s) /\ P!NonzeroIds(s) = NonzeroIds(s)
  BY <1>1 DEF D!S!NonzeroIds, P!NonzeroIds, NonzeroIds
<1>4. \A s : /\ D!S!first_nonzero_id(s) = first_nonzero_id(s)
             /\ P!first_nonzero_id(s) = first_nonzero_id(s)
             /\ D!S!last_nonzero_id(s) = last_nonzero_id(s)
             /\ P!last_nonzero_id(s) = last_nonzero_id(s)
  <2>1. \A T : D!S!Min(T) = Min(T) /\ D!S!Max(T) = Max(T)
    BY Zenon DEF D!S!Min, Min, D!S!Max, Max
  <2>2. \A T : P!Min(T) = Min(T) /\ P!Max(T) = Max(T)
    BY Zenon DEF P!Min, Min, P!Max, Max
  <2>3. QED
    BY <1>1, <1>3, <2>1, <2>2 DEF D!S!first_nonzero_id, P!first_nonzero_id,
       first_nonzero_id, D!S!last_nonzero_id, P!last_nonzero_id, last_nonzero_id
<1>5. \A s : /\ D!S!full_symbol_is_zero(s) = full_symbol_is_zero(s)
             /\ P!full_symbol_is_zero(s) = full_symbol_is_zero(s)
  BY <1>1, <1>4 DEF D!S!full_symbol_is_zero, P!full_symbol_is_zero, full_symbol_is_zero
<1>6. \A s : D!S!full_symbol_has_one_id(s) = P!full_symbol_has_one_id(s)
  BY <1>4, <1>5 DEF D!S!full_symbol_has_one_id, P!full_symbol_has_one_id
<1>7. \A s : D!S!full_symbol_clone(s) = P!full_symbol_clone(s)
  BY <1>2, <1>5 DEF D!S!full_symbol_clone, P!full_symbol_clone
<1>8. \A s, a : /\ D!S!full_symbol_get_coef(s, a) = P!full_symbol_get_coef(s, a)
                /\ D!S!full_symbol_scale(s, a) = P!full_symbol_scale(s, a)
  BY <1>1, <1>5 DEF D!S!full_symbol_get_coef, P!full_symbol_get_coef,
     D!S!full_symbol_scale, P!full_symbol_scale, D!S!symbol_mul, P!symbol_mul
<1>9. \A s, t : D!S!full_symbol_add(s, t) = P!full_symbol_add(s, t)
  BY <1>1, <1>5, <1>7 DEF D!S!full_symbol_add, P!full_symbol_add, D!S!symbol_add,
     P!symbol_add
<1>10. \A U, v : D!S!SpanWith(U, v) = P!SpanWith(U, v) /\ P!SpanWith(U, v) = SpanWith(U, v)
  BY <1>1 DEF D!S!SpanWith, P!SpanWith, SpanWith, D!S!symbol_add_scaled,
     P!symbol_add_scaled, symbol_add_scaled
<1>11. QED
  BY <1>1, <1>2, <1>4, <1>5, <1>6, <1>7, <1>8, <1>9, <1>10

-------------------------------------------------------------------------------
(***************************************************************************)
(* What FullSymbolSetProofs shows of vectors and symbols, said of the      *)
(* operators of FullSymbol.                                                *)
(***************************************************************************)
LEMMA SystemAssumed ==
  FULL_SYMBOL_SET_INITIAL_SIZE \in Nat \ {0} /\ NULL \notin P!FullSymbols
BY SystemOperators, ClientAssumption

(* Vectors are closed under the operations of swif_symbol.c.               *)
LEMMA VectorOps ==
  /\ ZeroVector \in Vector
  /\ \A id \in Ids : UnitVector(id) \in Vector
  /\ \A u, v \in Vector : symbol_add(u, v) \in Vector
  /\ \A u \in Vector, a \in F : symbol_mul(a, u) \in Vector
  /\ \A u, v \in Vector, a \in F : symbol_add_scaled(u, a, v) \in Vector
BY FieldAssumption
   DEF Vector, ZeroVector, UnitVector, symbol_add, symbol_mul, symbol_add_scaled

(* Two more operators of P are those of FullSymbol.                        *)
LEMMA SymbolOperators ==
  \A s : /\ P!first_nonzero_id(s) = first_nonzero_id(s)
         /\ P!full_symbol_has_one_id(s) = full_symbol_has_one_id(s)
<1>1. \A s : P!NonzeroIds(s) = NonzeroIds(s)
  BY SystemOperators DEF P!NonzeroIds, NonzeroIds
<1>2. \A T : P!Min(T) = Min(T) /\ P!Max(T) = Max(T)
  BY Zenon DEF P!Min, Min, P!Max, Max
<1>3. \A s : /\ P!first_nonzero_id(s) = first_nonzero_id(s)
             /\ P!last_nonzero_id(s) = last_nonzero_id(s)
  BY <1>1, <1>2, SystemOperators DEF P!first_nonzero_id, first_nonzero_id,
     P!last_nonzero_id, last_nonzero_id
<1>4. QED
  BY <1>3, SystemOperators DEF P!full_symbol_has_one_id, full_symbol_has_one_id

(* A symbol with one identifier has one nonzero coefficient, the first.    *)
LEMMA OneId ==
  ASSUME NEW s \in FullSymbols
  PROVE  full_symbol_has_one_id(s) <=>
           /\ ~full_symbol_is_zero(s)
           /\ \A c \in Ids : s.coef[c] # Zero => c = first_nonzero_id(s)
BY SystemOperators, SymbolOperators, SystemAssumed, P!OneId, FieldAssumption,
   MaxIdAssumption, IdSpanAssumption

(* Which symbols are source symbols, with coefficient 1.                   *)
LEMMA UnitSymbol ==
  ASSUME NEW s \in FullSymbols, NEW p \in Ids
  PROVE  /\ s.coef = UnitVector(p) =>
              full_symbol_has_one_id(s) /\ first_nonzero_id(s) = p
         /\ full_symbol_has_one_id(s) /\ s.coef[p] = One =>
              s.coef = UnitVector(p) /\ first_nonzero_id(s) = p
BY SystemOperators, SymbolOperators, SystemAssumed, P!UnitSymbol, FieldAssumption,
   MaxIdAssumption, IdSpanAssumption

(* A vector added to the generators of a subspace.                         *)
LEMMA SpanIsSubspace ==
  ASSUME NEW U \in SUBSET Vector, IsSubspace(U), NEW v \in Vector
  PROVE  /\ SpanWith(U, v) \subseteq Vector /\ IsSubspace(SpanWith(U, v))
         /\ U \subseteq SpanWith(U, v) /\ v \in SpanWith(U, v)
<1>1. \A W : P!IsSubspace(W) <=> IsSubspace(W)
  BY SystemOperators DEF P!IsSubspace, IsSubspace, P!symbol_add, symbol_add,
     P!symbol_mul, symbol_mul, P!ZeroVector, ZeroVector
<1>2. QED
  BY <1>1, SystemOperators, SystemAssumed, P!SpanIsSubspace, FieldAssumption,
     MaxIdAssumption, IdSpanAssumption

-------------------------------------------------------------------------------
(* The decoder's system and the one of the theorems are the same.          *)
LEMMA SameSystem ==
  /\ D!S!Init => P!Init
  /\ D!S!Step => P!Step
  /\ \A s : D!S!AddWithElimination(s) => P!AddWithElimination(s)
  /\ D!S!vars = P!vars
<1> USE DEF D!S!set, P!set, D!S!application, P!application
<1>1. D!S!vars = P!vars
  BY DEF D!S!vars, P!vars
<1>2. D!S!Init => P!Init
  BY SystemOperators DEF D!S!Init, P!Init, D!S!Slots, P!Slots
<1>3. \A s : D!S!AddWithElimination(s) => P!AddWithElimination(s)
  BY SystemOperators DEF D!S!AddWithElimination, P!AddWithElimination,
     D!S!vars, P!vars
<1>4. \A id : D!S!full_symbol_set_get_pivot(id) = P!full_symbol_set_get_pivot(id)
  BY DEF D!S!full_symbol_set_get_pivot, P!full_symbol_set_get_pivot
<1>5. D!S!RemovePivot => P!RemovePivot
  BY <1>4, SystemOperators DEF D!S!RemovePivot, P!RemovePivot
<1>6. D!S!Return <=> P!Return
  BY SystemOperators DEF D!S!Return, P!Return
<1>7. D!S!Redundant => P!Redundant
  BY <1>6, SystemOperators DEF D!S!Redundant, P!Redundant
<1>8. D!S!AddAsPivot => P!AddAsPivot
  BY SystemOperators DEF D!S!AddAsPivot, P!AddAsPivot, D!S!Normalized, P!Normalized
<1>9. D!S!EliminateRow => P!EliminateRow
  BY SystemOperators DEF D!S!EliminateRow, P!EliminateRow, D!S!NewlySolved, P!NewlySolved
<1>10. D!S!NewId = P!NewId /\ D!S!SetId = P!SetId
  BY SystemOperators DEF D!S!NewId, P!NewId, D!S!SetId, P!SetId
<1>11. \A n : D!S!GrownSize(n) = P!GrownSize(n)
  BY DEF D!S!GrownSize, P!GrownSize
<1>12. (D!S!NotifyStored <=> P!NotifyStored) /\ (D!S!Storing <=> P!Storing)
  BY <1>10, SystemOperators DEF D!S!NotifyStored, P!NotifyStored, D!S!Storing, P!Storing
<1>13. D!S!StoreRight => P!StoreRight
  BY <1>6, <1>10, <1>11, <1>12 DEF D!S!StoreRight, P!StoreRight
<1>14. D!S!StoreLeft => P!StoreLeft
  BY <1>6, <1>10, <1>11, <1>12 DEF D!S!StoreLeft, P!StoreLeft, D!S!Slots, P!Slots
<1>15. D!S!Overflow => P!Overflow
  BY <1>10, <1>11, <1>12 DEF D!S!Overflow, P!Overflow
<1>16. D!S!Step => P!Step
  BY <1>5, <1>7, <1>8, <1>9, <1>13, <1>14, <1>15 DEF D!S!Step, P!Step
<1>17. QED
  BY <1>1, <1>2, <1>3, <1>16

-------------------------------------------------------------------------------
(* The client in front of a network that may also deliver repair packets   *)
(* whose payload is not the one their header announces, as an encoder      *)
(* sends once its window slid.                                             *)
AnyNext == Next \/ \E p \in RepairPackets : ReceiveRepairPacket(p)

(* The window follows the loop over the identifiers of the packet in hand, *)
(* and the history knows when it is longer than the table.                 *)
HandlingPacket ==
  phase \in {"list", "submit"} =>
    /\ pkt \in RepairPackets
    /\ next_esi \in pkt.esi .. pkt.esi + pkt.nss
    /\ nb_id = next_esi - pkt.esi
    /\ first_id = IF nb_id = 0 THEN SYMBOL_ID_NONE ELSE pkt.esi
    /\ coef_tab # NULL
    /\ pkt.nss > symbol_size => overrun

(* The table holds the coefficients of the packet, as far as it goes.      *)
CoefficientsReady ==
  phase = "submit" =>
    /\ next_esi = pkt.esi + pkt.nss
    /\ \A n \in 0 .. symbol_size - 1 : n < pkt.nss => coef_tab[n] = pkt.coefs[n]

ClientInv == TypeOK /\ NoFault /\ HandlingPacket /\ CoefficientsReady

(* The packet in hand is honest.                                           *)
HonestInHand == phase \in {"list", "submit"} => pkt \in HonestPackets

LEMMA PacketFacts ==
  ASSUME NEW p \in RepairPackets
  PROVE  /\ p.esi \in Ids /\ p.nss \in Nat \ {0} /\ p.nss <= ew_size
         /\ p.coefs \in [0 .. ew_size - 1 -> F] /\ p.data \in Vector
         /\ p.esi + p.nss <= MaxId + 1
BY ClientAssumption, MaxIdAssumption DEF RepairPackets, Ids

LEMMA HonestPacketFacts ==
  ASSUME NEW p \in HonestPackets
  PROVE  p \in RepairPackets /\ p.data = Payload(p.esi, p.nss, p.coefs)
BY DEF HonestPackets

(* The client's table always has one entry for each byte of a symbol.      *)
LEMMA ClientCapacity ==
  ASSUME TypeOK, coef_tab # NULL
  PROVE  /\ coef_tab \in [0 .. symbol_size - 1 -> F]
         /\ D!Capacity = symbol_size
<1>1. coef_tab \in [0 .. symbol_size - 1 -> F]
  BY DEF TypeOK
<1>2. 0 \in Int /\ symbol_size - 1 \in Int /\ symbol_size \in Int /\ symbol_size > 0
  BY ClientAssumption
<1>3. Cardinality(0 .. symbol_size - 1)
        = IF 0 > symbol_size - 1 THEN 0 ELSE (symbol_size - 1) - 0 + 1
  BY <1>2, FS_Interval
<1>4. D!Capacity = symbol_size
  <2>1. \A T : D!Cardinality(T) = Cardinality(T)
    BY Zenon DEF D!Cardinality, Cardinality
  <2>2. DOMAIN coef_tab = 0 .. symbol_size - 1
    BY <1>1
  <2>3. QED
    BY <1>2, <1>3, <2>1, <2>2 DEF D!Capacity
<1>5. QED
  BY <1>1, <1>4

LEMMA InitClient ==
  ASSUME Init
  PROVE  ClientInv
<1>1. 0 \in Ids \union {SYMBOL_ID_NONE} /\ 0 \in 0 .. MaxListed /\ 0 \in 0 .. MaxId + 1
  BY MaxIdAssumption, ClientAssumption DEF Ids
<1>2. QED
  BY <1>1, DecoderOperators DEF Init, D!Init, ClientInv, TypeOK, NoFault,
     HandlingPacket, CoefficientsReady

LEMMA ReceiveRepairPacketInv ==
  ASSUME ClientInv, NEW p \in RepairPackets, ReceiveRepairPacket(p)
  PROVE  ClientInv'
<1>1. /\ first_id' = SYMBOL_ID_NONE /\ nb_id' = 0 /\ listed' = {}
      /\ phase' = "list" /\ pkt' = p /\ next_esi' = p.esi /\ UNCHANGED tables
      /\ overrun' = (overrun \/ p.nss > symbol_size)
  BY DecoderOperators DEF ReceiveRepairPacket, D!ResetCodingWindow
<1>2. coef_tab' \in [0 .. symbol_size - 1 -> F] /\ fault' = "none"
  <2> DEFINE capacity == IF coef_tab = NULL THEN symbol_size ELSE D!Capacity
  <2>1. capacity = symbol_size
    BY ClientCapacity DEF ClientInv
  <2>2. /\ coef_tab' = [n \in 0 .. capacity - 1 |->
                          IF n < symbol_size THEN Zero ELSE coef_tab[n]]
        /\ fault' \in D!Faults(symbol_size, capacity)
    BY DEF ReceiveRepairPacket, D!ResetCodingWindow
  <2>3. coef_tab' = [n \in 0 .. symbol_size - 1 |-> Zero]
    BY <2>1, <2>2, ClientAssumption
  <2>4. fault' = "none"
    BY <2>1, <2>2, ClientAssumption DEF D!Faults
  <2>5. QED
    BY <2>3, <2>4, FieldAssumption
<1>3. coef_tab' # NULL
  BY <1>2, ClientAssumption
<1>4. /\ p \in RepairPackets /\ p.esi \in 0 .. MaxId + 1
      /\ p.esi \in p.esi .. p.esi + p.nss /\ p.esi - p.esi = 0
  BY PacketFacts, MaxIdAssumption DEF Ids
<1>5. TypeOK'
  BY <1>1, <1>2, <1>4, ClientAssumption DEF ClientInv, TypeOK, tables
<1>6. HandlingPacket' /\ CoefficientsReady' /\ NoFault'
  BY <1>1, <1>2, <1>3, <1>4 DEF HandlingPacket, CoefficientsReady, NoFault
<1>7. QED
  BY <1>5, <1>6 DEF ClientInv

LEMMA ListSymbolInv ==
  ASSUME ClientInv, ListSymbol
  PROVE  ClientInv'
<1>1. /\ phase = "list" /\ next_esi < pkt.esi + pkt.nss /\ nb_id < MaxListed
      /\ first_id' = D!FirstListed(next_esi)
      /\ \/ D!Accepted(next_esi) /\ nb_id' = nb_id + 1 /\ listed' = listed \union {next_esi}
         \/ ~D!Accepted(next_esi) /\ UNCHANGED <<nb_id, listed>>
      /\ UNCHANGED <<coef_tab, fault, overrun>> /\ UNCHANGED tables
      /\ IF D!Accepted(next_esi)
         THEN next_esi' = next_esi + 1 /\ UNCHANGED <<phase, pkt>>
         ELSE phase' = "end" /\ pkt' = NULL /\ next_esi' = 0
  BY DEF ListSymbol, ListedUpTo, D!AddSourceSymbol
<1>2. /\ pkt \in RepairPackets /\ next_esi \in pkt.esi .. pkt.esi + pkt.nss
      /\ nb_id = next_esi - pkt.esi /\ coef_tab # NULL
      /\ first_id = IF nb_id = 0 THEN SYMBOL_ID_NONE ELSE pkt.esi
      /\ pkt.nss > symbol_size => overrun
  BY <1>1 DEF ClientInv, HandlingPacket
<1>3. /\ pkt \in RepairPackets /\ pkt.esi \in Ids /\ pkt.nss \in Nat \ {0}
      /\ pkt.esi + pkt.nss <= MaxId + 1
  BY <1>2, PacketFacts
<1>4. next_esi \in Ids /\ pkt.esi \in Nat /\ nb_id \in Nat
  BY <1>1, <1>2, <1>3, MaxIdAssumption DEF Ids
<1>5. pkt.esi # SYMBOL_ID_NONE
  BY <1>3, MaxIdAssumption, IdSpanAssumption DEF Ids, SYMBOL_ID_NONE
<1>6. first_id' = pkt.esi
  <2>1. nb_id = 0 => next_esi = pkt.esi
    BY <1>2, <1>4, MaxIdAssumption DEF Ids
  <2>2. QED
    BY <1>1, <1>2, <1>5, <2>1, DecoderOperators DEF D!FirstListed
<1>7. CASE D!Accepted(next_esi)
  <2>1. /\ nb_id' = nb_id + 1 /\ listed' = listed \union {next_esi}
        /\ next_esi' = next_esi + 1 /\ UNCHANGED <<phase, pkt>>
    BY <1>1, <1>7
  <2>2. nb_id' \in 0 .. MaxListed /\ nb_id' # 0 /\ nb_id' = next_esi' - pkt.esi
    <3>1. nb_id \in Nat /\ nb_id < MaxListed /\ MaxListed \in Nat
      BY <1>1, <1>4, ClientAssumption
    <3>2. nb_id = next_esi - pkt.esi /\ next_esi \in Nat /\ pkt.esi \in Nat
      BY <1>2, <1>4, MaxIdAssumption DEF Ids
    <3>3. nb_id' = nb_id + 1 /\ next_esi' = next_esi + 1
      BY <2>1
    <3>4. QED
      BY SMTT(60), <3>1, <3>2, <3>3
  <2>3. next_esi' \in pkt.esi .. pkt.esi + pkt.nss /\ next_esi' \in 0 .. MaxId + 1
    <3>1. UNCHANGED <<pkt>> /\ pkt.esi <= next_esi
      BY <1>2, <1>3, <2>1, MaxIdAssumption DEF Ids
    <3>2. QED
      BY <1>1, <1>3, <1>4, <2>1, <3>1, MaxIdAssumption DEF Ids
  <2>4. TypeOK'
    BY <1>1, <1>3, <1>4, <1>6, <2>1, <2>2, <2>3 DEF ClientInv, TypeOK, tables
  <2>5. QED
    BY <1>1, <1>2, <1>6, <2>1, <2>2, <2>3, <2>4
       DEF ClientInv, NoFault, HandlingPacket, CoefficientsReady
<1>8. CASE ~D!Accepted(next_esi)
  <2>1. UNCHANGED <<nb_id, listed>> /\ phase' = "end" /\ pkt' = NULL /\ next_esi' = 0
    BY <1>1, <1>8
  <2>2. 0 \in 0 .. MaxId + 1
    BY MaxIdAssumption
  <2>3. QED
    BY <1>1, <1>3, <1>6, <2>1, <2>2 DEF ClientInv, TypeOK, NoFault, HandlingPacket,
       CoefficientsReady, tables
<1>9. QED
  BY <1>7, <1>8

LEMMA GenerateCoefsInv ==
  ASSUME ClientInv, GenerateCoefs
  PROVE  ClientInv'
<1>1. /\ phase = "list" /\ next_esi >= pkt.esi + pkt.nss /\ fault = "none"
      /\ phase' = "submit"
      /\ UNCHANGED <<pkt, next_esi, first_id, nb_id, listed, overrun>>
      /\ UNCHANGED tables /\ D!GenerateCodingCoefs(pkt.coefs)
  BY DEF GenerateCoefs, ListedUpTo, D!GenerateCodingCoefs, D!Ready, D!window
<1>2. /\ pkt \in RepairPackets /\ next_esi \in pkt.esi .. pkt.esi + pkt.nss
      /\ nb_id = next_esi - pkt.esi /\ coef_tab # NULL
      /\ first_id = IF nb_id = 0 THEN SYMBOL_ID_NONE ELSE pkt.esi
      /\ pkt.nss > symbol_size => overrun
  BY <1>1 DEF ClientInv, HandlingPacket
<1>3. /\ pkt.esi \in Nat /\ pkt.nss \in Nat \ {0} /\ pkt.nss <= ew_size
      /\ pkt.coefs \in [0 .. ew_size - 1 -> F]
  BY <1>2, PacketFacts, MaxIdAssumption DEF Ids
<1>4. next_esi = pkt.esi + pkt.nss /\ nb_id = pkt.nss
  BY <1>1, <1>2, <1>3
<1>5. coef_tab \in [0 .. symbol_size - 1 -> F] /\ D!GenerationCapacity = symbol_size
  BY <1>2, ClientCapacity DEF ClientInv, D!GenerationCapacity
<1>6. /\ coef_tab' = [n \in 0 .. symbol_size - 1 |->
                        IF n < pkt.nss THEN pkt.coefs[n] ELSE coef_tab[n]]
      /\ fault' \in D!Faults(pkt.nss, symbol_size)
  <2>1. ~(nb_id > ew_size)
    BY <1>3, <1>4, ClientAssumption
  <2>2. PICK memory \in [0 .. D!GenerationCapacity - 1 -> F] :
          /\ coef_tab # NULL => memory = coef_tab
          /\ coef_tab' = [n \in DOMAIN memory |->
                            IF n < nb_id THEN pkt.coefs[n] ELSE memory[n]]
    BY <1>1, <2>1 DEF D!GenerateCodingCoefs
  <2>3. fault' \in D!Faults(nb_id, D!GenerationCapacity)
    BY <1>1, <2>1 DEF D!GenerateCodingCoefs
  <2>4. QED
    BY <1>2, <1>4, <1>5, <2>2, <2>3
<1>7. coef_tab' \in [0 .. symbol_size - 1 -> F]
  <2>1. \A n \in 0 .. symbol_size - 1 :
          (IF n < pkt.nss THEN pkt.coefs[n] ELSE coef_tab[n]) \in F
    BY <1>3, <1>5, ClientAssumption
  <2>2. QED
    BY <1>6, <2>1
<1>8. NoFault' /\ fault' \in {"none", "memory"}
  BY <1>1, <1>2, <1>3, <1>6, ClientAssumption DEF D!Faults, NoFault
<1>9. TypeOK'
  BY <1>1, <1>7, <1>8 DEF ClientInv, TypeOK, tables
<1>10. HandlingPacket' /\ CoefficientsReady'
  <2>1. coef_tab' # NULL
    BY <1>7, ClientAssumption
  <2>2. QED
    BY <1>1, <1>2, <1>4, <1>6, <2>1 DEF HandlingPacket, CoefficientsReady
<1>11. QED
  BY <1>8, <1>9, <1>10 DEF ClientInv

(* Submitting leaves the window alone, and the table is long enough unless *)
(* a window has more symbols than a symbol has bytes.                      *)
LEMMA SubmitRepairInv ==
  ASSUME ClientInv, SubmitRepair
  PROVE  ClientInv'
<1>1. /\ phase = "submit" /\ D!DecodeWithNewRepairSymbol(pkt.data)
      /\ phase' = "receive" /\ pkt' = NULL /\ next_esi' = 0
      /\ UNCHANGED <<first_id, nb_id, listed, coef_tab, overrun>> /\ UNCHANGED tables
  BY DEF SubmitRepair, D!DecodeWithNewRepairSymbol, D!window
<1>2. /\ pkt \in RepairPackets /\ nb_id = next_esi - pkt.esi /\ coef_tab # NULL
      /\ next_esi = pkt.esi + pkt.nss /\ (pkt.nss > symbol_size => overrun)
  BY <1>1 DEF ClientInv, HandlingPacket, CoefficientsReady
<1>3. pkt.esi \in Nat /\ pkt.nss \in Nat \ {0} /\ pkt.nss <= ew_size
  BY <1>2, PacketFacts, MaxIdAssumption DEF Ids
<1>4. nb_id = pkt.nss /\ D!Capacity = symbol_size
  BY <1>2, <1>3, ClientCapacity DEF ClientInv
<1>5. fault' = fault \/ (fault' = "memory" /\ overrun)
  BY <1>1, <1>2, <1>3, <1>4, ClientAssumption DEF D!DecodeWithNewRepairSymbol
<1>6. NoFault' /\ fault' \in {"none", "memory", "assert"}
  BY <1>1, <1>5 DEF ClientInv, NoFault, TypeOK
<1>7. TypeOK'
  BY <1>1, <1>6, MaxIdAssumption DEF ClientInv, TypeOK, tables
<1>8. QED
  BY <1>1, <1>6, <1>7 DEF ClientInv, HandlingPacket, CoefficientsReady

(* The steps that leave the window, its table and the packet alone.        *)
LEMMA WindowKept ==
  ASSUME ClientInv,
         UNCHANGED <<first_id, nb_id, listed, coef_tab, fault, pkt, next_esi, overrun>>,
         phase' = phase \/ phase' \in {"receive", "end"},
         src_symbols_tab' \in [Ids -> {"packet", "row", NULL}],
         src_symbols_status_tab' \in [Ids -> {"missing", "received", "decoded"}],
         src_symbols_allocated' \in [Ids -> BOOLEAN]
  PROVE  ClientInv'
<1>1. phase' \in {"oti", "receive", "list", "submit", "end"}
      /\ (phase' \in {"list", "submit"} => phase' = phase)
  BY DEF ClientInv, TypeOK
<1>2. TypeOK'
  BY <1>1 DEF ClientInv, TypeOK
<1>3. NoFault' /\ HandlingPacket' /\ CoefficientsReady'
  BY <1>1 DEF ClientInv, NoFault, HandlingPacket, CoefficientsReady
<1>4. QED
  BY <1>2, <1>3 DEF ClientInv

LEMMA NextClient ==
  ASSUME ClientInv, [AnyNext]_vars
  PROVE  ClientInv'
<1>1. /\ src_symbols_tab \in [Ids -> {"packet", "row", NULL}]
      /\ src_symbols_status_tab \in [Ids -> {"missing", "received", "decoded"}]
      /\ src_symbols_allocated \in [Ids -> BOOLEAN]
  BY DEF ClientInv, TypeOK
<1>2. ASSUME NEW is_oti, NEW known_codepoint, ReceiveFirstPacket(is_oti, known_codepoint)
      PROVE  ClientInv'
  BY <1>1, <1>2, WindowKept DEF ReceiveFirstPacket, decoder, tables
<1>3. ASSUME NEW esi \in Ids, ReceiveSourcePacket(esi) PROVE ClientInv'
  <2>1. /\ UNCHANGED <<first_id, nb_id, listed, coef_tab, fault, phase, pkt, next_esi,
                        overrun>>
        /\ src_symbols_tab' = [src_symbols_tab EXCEPT ![esi] = "packet"]
        /\ src_symbols_status_tab' = [src_symbols_status_tab EXCEPT ![esi] = "received"]
        /\ src_symbols_allocated' = [src_symbols_allocated EXCEPT ![esi] = TRUE]
    BY <1>3 DEF ReceiveSourcePacket, D!DecodeWithNewSourceSymbol, D!window
  <2>2. QED
    BY <1>1, <2>1, WindowKept
<1>4. ASSUME DecoderStep PROVE ClientInv'
  <2>1. UNCHANGED <<first_id, nb_id, listed, coef_tab, fault, phase, pkt, next_esi, overrun>>
    BY <1>4 DEF DecoderStep, D!SystemStep, D!window
  <2>2. /\ src_symbols_tab' \in [Ids -> {"packet", "row", NULL}]
        /\ src_symbols_status_tab' \in [Ids -> {"missing", "received", "decoded"}]
        /\ src_symbols_allocated' = src_symbols_allocated
    BY <1>1, <1>4 DEF DecoderStep, DecodedSourceSymbolCallback
  <2>3. QED
    BY <1>1, <2>1, <2>2, WindowKept
<1>5. ASSUME NoMorePacket \/ \E kind, esi : RefusePacket(kind, esi) PROVE ClientInv'
  BY <1>1, <1>5, WindowKept DEF NoMorePacket, RefusePacket, decoder, tables
<1>6. ASSUME UNCHANGED vars PROVE ClientInv'
  BY <1>1, <1>6, WindowKept DEF vars, decoder, tables
<1>7. QED
  BY <1>2, <1>3, <1>4, <1>5, <1>6, HonestPacketFacts, ReceiveRepairPacketInv,
     ListSymbolInv, GenerateCoefsInv, SubmitRepairInv DEF AnyNext, Next

LEMMA HonestNext ==
  ASSUME HonestInHand, [Next]_vars
  PROVE  HonestInHand'
<1>1. ASSUME NEW p \in HonestPackets, ReceiveRepairPacket(p) PROVE HonestInHand'
  BY <1>1 DEF ReceiveRepairPacket, HonestInHand
<1>2. CASE \E esi \in Ids : ReceiveSourcePacket(esi)
  BY <1>2 DEF ReceiveSourcePacket, HonestInHand
<1>3. QED
  BY <1>1, <1>2 DEF Next, vars, ReceiveFirstPacket, RefusePacket, ListSymbol,
     GenerateCoefs, SubmitRepair, DecoderStep, NoMorePacket, HonestInHand

(* Once a window was longer than the table, the history keeps it.          *)
LEMMA OverrunStays ==
  ASSUME [AnyNext]_vars
  PROVE  overrun => overrun'
<1>1. ASSUME NEW p, ReceiveRepairPacket(p) PROVE overrun => overrun'
  BY <1>1 DEF ReceiveRepairPacket
<1>2. QED
  BY <1>1 DEF AnyNext, Next, vars, ReceiveFirstPacket, ReceiveSourcePacket, RefusePacket,
     ListSymbol, GenerateCoefs, SubmitRepair, DecoderStep, NoMorePacket

LEMMA ClientInvariance == Spec => [](ClientInv /\ HonestInHand)
<1>1. Init => ClientInv /\ HonestInHand
  BY InitClient DEF Init, HonestInHand
<1>2. ClientInv /\ HonestInHand /\ [Next]_vars => ClientInv' /\ HonestInHand'
  BY NextClient, HonestNext DEF AnyNext
<1>3. QED
  BY <1>1, <1>2, PTL DEF Spec

(* The variables of the loop of simple_client.c keep their types.          *)
THEOREM ClientTypeCorrect == Spec => []TypeOK
<1>1. ClientInv => TypeOK
  BY DEF ClientInv
<1>2. QED
  BY <1>1, ClientInvariance, PTL

(* In simple_client.c's use of the decoder no assertion fails, and its     *)
(* table is written and read within its bounds until a repair packet comes *)
(* whose window has more symbols than a symbol has bytes.                  *)
THEOREM NoFaultInClient == Spec => []NoFault
<1>1. ClientInv => NoFault
  BY DEF ClientInv
<1>2. QED
  BY <1>1, ClientInvariance, PTL

-------------------------------------------------------------------------------
(* The header built for a repair packet is the one it announces, when the  *)
(* table of coefficients is long enough.                                   *)
LEMMA HeaderIsPayload ==
  ASSUME ~overrun, ClientInv, phase = "submit", NEW header \in D!Headers
  PROVE  /\ pkt \in RepairPackets
         /\ header = Payload(pkt.esi, pkt.nss, pkt.coefs) /\ header \in Vector
<1> DEFINE payload == Payload(pkt.esi, pkt.nss, pkt.coefs)
<1>1. /\ pkt \in RepairPackets /\ nb_id = next_esi - pkt.esi /\ coef_tab # NULL
      /\ next_esi = pkt.esi + pkt.nss
      /\ first_id = IF nb_id = 0 THEN SYMBOL_ID_NONE ELSE pkt.esi
      /\ \A n \in 0 .. symbol_size - 1 : n < pkt.nss => coef_tab[n] = pkt.coefs[n]
      /\ ~(pkt.nss > symbol_size)
  BY DEF ClientInv, HandlingPacket, CoefficientsReady
<1>2. /\ pkt.esi \in Nat /\ pkt.nss \in Nat \ {0} /\ pkt.nss <= symbol_size
  BY <1>1, PacketFacts, MaxIdAssumption, ClientAssumption DEF Ids
<1>3. nb_id = pkt.nss /\ first_id = pkt.esi /\ D!Capacity = symbol_size
  BY <1>1, <1>2, ClientCapacity DEF ClientInv
<1>4. header \in Vector
      /\ \A c \in Ids :
           IF c \in pkt.esi .. pkt.esi + pkt.nss - 1
           THEN c - pkt.esi < symbol_size => header[c] = coef_tab[c - pkt.esi]
           ELSE header[c] = Zero
  BY <1>3, DecoderOperators DEF D!Headers
<1>5. ASSUME NEW c \in Ids PROVE header[c] = payload[c]
  <2>1. c \in Nat
    BY MaxIdAssumption DEF Ids
  <2>2. CASE c \in pkt.esi .. pkt.esi + pkt.nss - 1
    <3>1. /\ c - pkt.esi \in 0 .. symbol_size - 1 /\ c - pkt.esi < pkt.nss
          /\ c - pkt.esi < symbol_size
      BY <1>2, <2>1, <2>2, ClientAssumption
    <3>2. header[c] = coef_tab[c - pkt.esi] /\ coef_tab[c - pkt.esi] = pkt.coefs[c - pkt.esi]
      BY <1>1, <1>4, <2>2, <3>1
    <3>3. payload[c] = pkt.coefs[c - pkt.esi]
      BY <1>2, <2>2 DEF Payload
    <3>4. QED
      BY <3>2, <3>3
  <2>3. CASE c \notin pkt.esi .. pkt.esi + pkt.nss - 1
    BY <1>2, <1>4, <2>3 DEF Payload
  <2>4. QED
    BY <2>2, <2>3
<1>6. header = [c \in Ids |-> header[c]] /\ payload = [c \in Ids |-> payload[c]]
  BY <1>4 DEF Vector, Payload
<1>7. QED
  BY <1>1, <1>4, <1>5, <1>6

(* Until then, every step of the client is a step of a linear system to    *)
(* which only honest symbols are submitted, or leaves it alone.            *)
LEMMA LinearSystemStep ==
  ASSUME ~overrun, ClientInv, HonestInHand, [Next]_vars
  PROVE  [D!S!Next]_(D!S!vars)
<1>1. ASSUME UNCHANGED decoder PROVE [D!S!Next]_(D!S!vars)
  BY <1>1 DEF decoder, D!S!vars, D!S!set, D!S!application
<1>2. ASSUME UNCHANGED D!system PROVE [D!S!Next]_(D!S!vars)
  BY <1>2 DEF D!system, D!S!vars, D!S!set, D!S!application
<1>3. ASSUME NEW v \in Vector, NEW s, s = [coef |-> v, data |-> v],
             D!S!AddWithElimination(s)
      PROVE  [D!S!Next]_(D!S!vars)
  BY <1>3, SystemOperators DEF D!S!Next, D!S!Honest
<1>4. ASSUME NEW esi \in Ids, ReceiveSourcePacket(esi) PROVE [D!S!Next]_(D!S!vars)
  <2>1. D!S!AddWithElimination([coef |-> UnitVector(esi), data |-> UnitVector(esi)])
    BY <1>4, DecoderOperators DEF ReceiveSourcePacket, D!DecodeWithNewSourceSymbol,
       full_symbol_create_from_source
  <2>2. UnitVector(esi) \in Vector
    BY VectorOps
  <2>3. QED
    BY <1>3, <2>1, <2>2
<1>5. ASSUME SubmitRepair PROVE [D!S!Next]_(D!S!vars)
  <2>1. phase = "submit" /\ D!DecodeWithNewRepairSymbol(pkt.data)
    BY <1>5 DEF SubmitRepair
  <2>2. ASSUME NEW header \in D!Headers,
               D!S!AddWithElimination([coef |-> header, data |-> pkt.data])
        PROVE  [D!S!Next]_(D!S!vars)
    <3>1. pkt.data = Payload(pkt.esi, pkt.nss, pkt.coefs)
      BY <2>1, HonestPacketFacts DEF HonestInHand
    <3>2. QED
      BY <1>3, <2>1, <2>2, <3>1, HeaderIsPayload
  <2>3. QED
    BY <1>2, <2>1, <2>2 DEF D!DecodeWithNewRepairSymbol
<1>6. ASSUME NEW p \in HonestPackets, ReceiveRepairPacket(p) PROVE [D!S!Next]_(D!S!vars)
  BY <1>2, <1>6 DEF ReceiveRepairPacket, D!ResetCodingWindow
<1>7. ASSUME ListSymbol PROVE [D!S!Next]_(D!S!vars)
  BY <1>2, <1>7 DEF ListSymbol, D!AddSourceSymbol
<1>8. ASSUME GenerateCoefs PROVE [D!S!Next]_(D!S!vars)
  BY <1>2, <1>8 DEF GenerateCoefs, D!GenerateCodingCoefs
<1>9. ASSUME DecoderStep PROVE [D!S!Next]_(D!S!vars)
  BY <1>9 DEF DecoderStep, D!SystemStep, D!S!Next
<1>10. QED
  BY <1>1, <1>4, <1>5, <1>6, <1>7, <1>8, <1>9 DEF Next, vars, ReceiveFirstPacket,
     RefusePacket, NoMorePacket

(***************************************************************************)
(* The calls of simple_client.c rebuild the header of each repair packet:  *)
(* the client implements, step by step, the linear system of module        *)
(* FullSymbolSet fed with honest symbols, whatever the size of the window  *)
(* the server announces, until a packet comes whose window is longer than  *)
(* the table of coefficients.                                              *)
(***************************************************************************)
THEOREM ClientIsLinearSystem == Spec => LinearSystemSteps
<1>1. Init => D!S!Init
  BY DEF Init, D!Init
<1>2. ClientInv /\ HonestInHand /\ [Next]_vars => [overrun \/ D!S!Next]_(D!S!vars)
  BY LinearSystemStep
<1>3. QED
  BY <1>1, <1>2, ClientInvariance, PTL DEF Spec, LinearSystemSteps

LEMMA SystemNext ==
  ASSUME [D!S!Next]_(D!S!vars)
  PROVE  [P!Next]_(P!vars)
<1>1. ASSUME UNCHANGED D!S!vars PROVE UNCHANGED P!vars
  BY <1>1 DEF D!S!vars, D!S!set, D!S!application, P!vars, P!set, P!application
<1>2. ASSUME NEW v \in D!S!Vector, D!S!AddWithElimination(D!S!Honest(v)) PROVE P!Next
  <2>1. D!S!Honest(v) = P!Honest(v) /\ v \in P!Vector
    BY SystemOperators DEF D!S!Honest, P!Honest
  <2>2. P!AddWithElimination(P!Honest(v))
    BY <1>2, <2>1, SameSystem
  <2>3. QED
    BY <2>1, <2>2 DEF P!Next
<1>3. D!S!Step => P!Next
  BY SameSystem DEF P!Next
<1>4. QED
  BY <1>1, <1>2, <1>3 DEF D!S!Next

(* The theorems about the linear system hold of the client's.              *)
LEMMA ClientSystemInit ==
  ASSUME Init
  PROVE  P!IInv
<1>1. NULL \notin P!FullSymbols
  BY SystemOperators, ClientAssumption
<1>2. P!Init => P!IInv
  BY <1>1, P!InitInv, FieldAssumption, MaxIdAssumption, IdSpanAssumption, ClientAssumption
<1>3. QED
  BY <1>2, SameSystem DEF Init, D!Init

LEMMA ClientSystemNext ==
  ASSUME ~overrun, P!NoWrap, P!IInv, ClientInv, HonestInHand, [Next]_vars
  PROVE  P!IInv' /\ [P!Next]_(P!vars)
<1>1. NULL \notin P!FullSymbols
  BY SystemOperators, ClientAssumption
<1>2. P!IInv /\ [P!Next]_(P!vars) => P!IInv'
  BY <1>1, P!NextInv, FieldAssumption, MaxIdAssumption, IdSpanAssumption, ClientAssumption
<1>3. QED
  BY <1>2, LinearSystemStep, SystemNext

(* An identifier of which the client is told has a row with its payload.   *)
LEMMA ToldHasPayload ==
  ASSUME ~overrun, P!NoWrap, P!IInv, ClientInv, HonestInHand, [Next]_vars,
          NEW id \in Ids, notified'[id] # notified[id]
  PROVE  \E k \in P!Slots' : /\ first_symbol_id' + k = id
                             /\ full_symbol_tab'[k].data = UnitVector(id)
<1>1. P!Next /\ id \in P!Ids /\ P!UnitVector(id) = UnitVector(id)
  BY ClientSystemNext, SystemOperators DEF P!vars, P!application
<1>2. NULL \notin P!FullSymbols
  BY SystemOperators, ClientAssumption
<1>3. \E k \in P!Rows' : /\ first_symbol_id' + k = id
                         /\ full_symbol_tab'[k].data = P!UnitVector(id)
  BY <1>1, <1>2, P!ToldHasRow, FieldAssumption, MaxIdAssumption, IdSpanAssumption,
     ClientAssumption
<1>4. QED
  BY <1>1, <1>3 DEF P!Rows

-------------------------------------------------------------------------------
(***************************************************************************)
(* The decoder the client drives is the one of module RlcDecoder, whatever *)
(* payloads it is given: what was proved of the headers of its rows holds  *)
(* for any packets.                                                        *)
(***************************************************************************)
LEMMA SameDecoderSystem ==
  /\ D!S!Step => A!S!Step
  /\ D!S!Init => A!S!Init
  /\ \A s : D!S!AddWithElimination(s) => A!S!AddWithElimination(s)
<1> USE DEF
      D!S!Ids, D!S!SYMBOL_ID_NONE, D!S!Vector, D!S!ZeroVector, D!S!UnitVector,
      D!S!symbol_add, D!S!symbol_mul, D!S!symbol_add_scaled, D!S!FullSymbols,
      D!S!full_symbol_get_coef, D!S!NonzeroIds, D!S!first_nonzero_id,
      D!S!last_nonzero_id, D!S!full_symbol_is_zero, D!S!full_symbol_has_one_id,
      D!S!ZeroSymbol, D!S!full_symbol_clone, D!S!full_symbol_scale,
      D!S!full_symbol_add, D!S!full_symbol_create_from_source, D!S!Min,
      D!S!Max, D!S!set, D!S!application, D!S!Slots,
      D!S!full_symbol_set_get_pivot, D!S!Return, D!S!RemovePivot,
      D!S!Redundant, D!S!Normalized, D!S!AddAsPivot, D!S!NewlySolved,
      D!S!EliminateRow, D!S!NewId, D!S!SetId, D!S!GrownSize, D!S!NotifyStored,
      D!S!Storing, D!S!StoreRight, D!S!StoreLeft, D!S!Overflow, D!S!Step,
      A!S!Ids, A!S!SYMBOL_ID_NONE, A!S!Vector, A!S!ZeroVector, A!S!UnitVector,
      A!S!symbol_add, A!S!symbol_mul, A!S!symbol_add_scaled, A!S!FullSymbols,
      A!S!full_symbol_get_coef, A!S!NonzeroIds, A!S!first_nonzero_id,
      A!S!last_nonzero_id, A!S!full_symbol_is_zero, A!S!full_symbol_has_one_id,
      A!S!ZeroSymbol, A!S!full_symbol_clone, A!S!full_symbol_scale,
      A!S!full_symbol_add, A!S!full_symbol_create_from_source, A!S!Min,
      A!S!Max, A!S!set, A!S!application, A!S!Slots,
      A!S!full_symbol_set_get_pivot, A!S!Return, A!S!RemovePivot,
      A!S!Redundant, A!S!Normalized, A!S!AddAsPivot, A!S!NewlySolved,
      A!S!EliminateRow, A!S!NewId, A!S!SetId, A!S!GrownSize, A!S!NotifyStored,
      A!S!Storing, A!S!StoreRight, A!S!StoreLeft, A!S!Overflow, A!S!Step
<1>1. D!S!Step => A!S!Step
  BY ZenonT(60)
<1>2. D!S!Init => A!S!Init
  BY ZenonT(60) DEF D!S!Init, A!S!Init
<1>3. \A U, v : D!S!SpanWith(U, v) = A!S!SpanWith(U, v)
  BY SMTT(60) DEF D!S!SpanWith, A!S!SpanWith
<1>4. \A s : D!S!AddWithElimination(s) => A!S!AddWithElimination(s)
  BY Zenon, <1>3 DEF D!S!AddWithElimination, A!S!AddWithElimination, D!S!vars, A!S!vars
<1> HIDE DEF D!S!Step, A!S!Step
<1>5. QED
  BY <1>1, <1>2, <1>4

LEMMA SameDecoder ==
  /\ D!ResetCodingWindow => A!ResetCodingWindow
  /\ \A id : D!AddSourceSymbol(id) => A!AddSourceSymbol(id)
  /\ \A cc : D!GenerateCodingCoefs(cc) => A!GenerateCodingCoefs(cc)
  /\ \A id, data : D!DecodeWithNewSourceSymbol(id, data)
                     => A!DecodeWithNewSourceSymbol(id, data)
  /\ \A data : D!DecodeWithNewRepairSymbol(data) => A!DecodeWithNewRepairSymbol(data)
  /\ D!SystemStep => A!SystemStep
  /\ D!Init => A!Init
<1> USE DEF
      D!Ids, D!Vector, D!SYMBOL_ID_NONE, D!UnitVector, D!system, D!window,
      D!Ready, D!Capacity, D!Faults, D!FirstListed, D!Accepted,
      D!GenerationCapacity, D!Headers, D!full_symbol_create_from_source,
      D!Cardinality, A!Ids, A!Vector, A!SYMBOL_ID_NONE, A!UnitVector, A!system,
      A!window, A!Ready, A!Capacity, A!Faults, A!FirstListed, A!Accepted,
      A!GenerationCapacity, A!Headers, A!full_symbol_create_from_source,
      A!Cardinality
<1>1. D!ResetCodingWindow => A!ResetCodingWindow
  BY Zenon DEF D!ResetCodingWindow, A!ResetCodingWindow
<1>2. \A id : D!AddSourceSymbol(id) => A!AddSourceSymbol(id)
  BY Zenon DEF D!AddSourceSymbol, A!AddSourceSymbol
<1>3. \A cc : D!GenerateCodingCoefs(cc) => A!GenerateCodingCoefs(cc)
  BY Zenon DEF D!GenerateCodingCoefs, A!GenerateCodingCoefs
<1>4. \A id, data : D!DecodeWithNewSourceSymbol(id, data)
                     => A!DecodeWithNewSourceSymbol(id, data)
  BY Zenon, SameDecoderSystem DEF D!DecodeWithNewSourceSymbol, A!DecodeWithNewSourceSymbol
<1>5. \A data : D!DecodeWithNewRepairSymbol(data) => A!DecodeWithNewRepairSymbol(data)
  BY Zenon, SameDecoderSystem DEF D!DecodeWithNewRepairSymbol, A!DecodeWithNewRepairSymbol
<1>6. D!SystemStep => A!SystemStep
  BY Zenon, SameDecoderSystem DEF D!SystemStep, A!SystemStep
<1>7. D!Init => A!Init
  BY Zenon, SameDecoderSystem DEF D!Init, A!Init
<1>8. QED
  BY <1>1, <1>2, <1>3, <1>4, <1>5, <1>6, <1>7

LEMMA DecoderAssumed ==
  /\ ew_size \in Nat \ {0} /\ symbol_size \in Nat \ {0} /\ MaxListed \in Nat
  /\ FULL_SYMBOL_SET_INITIAL_SIZE \in Nat \ {0} /\ NULL \notin A!FullSymbols
  /\ P!NoWrap <=> A!S!NoWrap
  /\ A!Ids = Ids /\ A!Vector = Vector /\ A!FullSymbols = FullSymbols
  /\ A!SYMBOL_ID_NONE = SYMBOL_ID_NONE
  /\ \A id : A!UnitVector(id) = UnitVector(id)
<1>1. A!Ids = Ids /\ A!SYMBOL_ID_NONE = SYMBOL_ID_NONE
  BY DEF A!Ids, Ids, A!SYMBOL_ID_NONE, SYMBOL_ID_NONE
<1>2. A!Vector = Vector /\ \A id : A!UnitVector(id) = UnitVector(id)
  BY <1>1 DEF A!Vector, Vector, A!UnitVector, UnitVector
<1>3. A!FullSymbols = FullSymbols
  BY <1>2 DEF A!FullSymbols, FullSymbols
<1>4. P!NoWrap <=> A!S!NoWrap
  BY DEF P!NoWrap, A!S!NoWrap
<1>5. QED
  BY <1>1, <1>2, <1>3, <1>4, ClientAssumption

(* The operators of the decoder's system, and the ranges of its fields.    *)
LEMMA SystemShared ==
  /\ \A s : /\ A!S!full_symbol_is_zero(s) = full_symbol_is_zero(s)
            /\ A!P!full_symbol_is_zero(s) = full_symbol_is_zero(s)
            /\ A!S!full_symbol_has_one_id(s) = full_symbol_has_one_id(s)
            /\ A!P!full_symbol_has_one_id(s) = full_symbol_has_one_id(s)
  /\ \A U, v : A!S!SpanWith(U, v) = SpanWith(U, v)
  /\ A!SystemInv =>
       /\ known \subseteq Vector /\ IsSubspace(known)
       /\ notified \in [Ids -> Nat] /\ dropped \subseteq Ids
<1>1. \A s : /\ A!full_symbol_is_zero(s) = full_symbol_is_zero(s)
             /\ A!full_symbol_has_one_id(s) = full_symbol_has_one_id(s)
  <2>1. \A s : A!NonzeroIds(s) = NonzeroIds(s)
    BY DecoderAssumed DEF A!NonzeroIds, NonzeroIds
  <2>2. \A T : A!Min(T) = Min(T) /\ A!Max(T) = Max(T)
    BY Zenon DEF A!Min, Min, A!Max, Max
  <2>3. \A s : /\ A!first_nonzero_id(s) = first_nonzero_id(s)
               /\ A!last_nonzero_id(s) = last_nonzero_id(s)
    BY <2>1, <2>2, DecoderAssumed DEF A!first_nonzero_id, first_nonzero_id,
       A!last_nonzero_id, last_nonzero_id
  <2>4. QED
    BY <2>3, DecoderAssumed DEF A!full_symbol_is_zero, full_symbol_is_zero,
       A!full_symbol_has_one_id, full_symbol_has_one_id
<1>2. \A U, v : A!SpanWith(U, v) = SpanWith(U, v)
  BY DecoderAssumed DEF A!SpanWith, SpanWith, A!symbol_add_scaled, symbol_add_scaled
<1>3. /\ \A s : /\ A!S!full_symbol_is_zero(s) = A!full_symbol_is_zero(s)
                /\ A!P!full_symbol_is_zero(s) = A!full_symbol_is_zero(s)
                /\ A!S!full_symbol_has_one_id(s) = A!full_symbol_has_one_id(s)
                /\ A!P!full_symbol_has_one_id(s) = A!full_symbol_has_one_id(s)
      /\ \A U, v : A!S!SpanWith(U, v) = A!SpanWith(U, v)
  BY DecoderAssumed, A!SystemOperators, FieldAssumption, MaxIdAssumption, IdSpanAssumption
<1>4. ASSUME A!SystemInv
      PROVE  /\ known \subseteq Vector /\ IsSubspace(known)
             /\ notified \in [Ids -> Nat] /\ dropped \subseteq Ids
  <2>1. /\ notified \in [Ids -> Nat] /\ dropped \subseteq Ids /\ known \subseteq Vector
    <3>1. /\ notified \in [A!Ids -> Nat] /\ dropped \subseteq A!Ids
          /\ known \subseteq A!Vector
      BY <1>4, A!SharedTypes, DecoderAssumed, FieldAssumption, MaxIdAssumption,
         IdSpanAssumption DEF A!SystemInv
    <3>2. QED
      BY <3>1, DecoderAssumed
  <2>2. A!P!IsSubspace(known)
    BY <1>4 DEF A!SystemInv, A!P!IInv
  <2>3. A!P!Ids = Ids
    BY DEF A!P!Ids, Ids
  <2>4. IsSubspace(known)
    BY <2>2, <2>3 DEF A!P!IsSubspace, IsSubspace, A!P!ZeroVector, ZeroVector,
       A!P!symbol_add, symbol_add, A!P!symbol_mul, symbol_mul
  <2>5. QED
    BY <2>1, <2>4
<1>5. QED
  BY <1>1, <1>2, <1>3, <1>4

(* Every step of the client is a step of its decoder or leaves it alone.   *)
LEMMA DecoderNext ==
  ASSUME ClientInv, [AnyNext]_vars
  PROVE  [A!Next]_(A!vars)
<1>1. ASSUME UNCHANGED decoder PROVE UNCHANGED A!vars
  BY <1>1 DEF decoder, A!vars, A!system, A!window
<1>2. ASSUME NEW esi \in Ids, ReceiveSourcePacket(esi) PROVE A!Next
  BY <1>2, SameDecoder, DecoderAssumed DEF ReceiveSourcePacket, A!Next
<1>3. ASSUME NEW p, ReceiveRepairPacket(p) PROVE A!Next
  BY <1>3, SameDecoder DEF ReceiveRepairPacket, A!Next
<1>4. CASE ListSymbol
  <2>1. /\ phase = "list" /\ next_esi < pkt.esi + pkt.nss /\ pkt \in RepairPackets
        /\ next_esi \in pkt.esi .. pkt.esi + pkt.nss
    BY <1>4 DEF ListSymbol, ListedUpTo, ClientInv, HandlingPacket
  <2>2. next_esi \in Ids
    BY <2>1, PacketFacts, MaxIdAssumption DEF Ids
  <2>3. QED
    BY <1>4, <2>2, SameDecoder, DecoderAssumed DEF ListSymbol, A!Next
<1>5. CASE GenerateCoefs
  <2>1. pkt.coefs \in [0 .. ew_size - 1 -> F]
    BY <1>5, PacketFacts DEF GenerateCoefs, ClientInv, HandlingPacket
  <2>2. QED
    BY <1>5, <2>1, SameDecoder DEF GenerateCoefs, A!Next
<1>6. CASE SubmitRepair
  <2>1. pkt.data \in Vector
    BY <1>6, PacketFacts DEF SubmitRepair, ClientInv, HandlingPacket
  <2>2. QED
    BY <1>6, <2>1, SameDecoder, DecoderAssumed DEF SubmitRepair, A!Next
<1>7. CASE DecoderStep
  BY <1>7, SameDecoder DEF DecoderStep, A!Next
<1>8. QED
  BY <1>1, <1>2, <1>3, <1>4, <1>5, <1>6, <1>7
     DEF AnyNext, Next, vars, ReceiveFirstPacket, RefusePacket, NoMorePacket

DecoderInv == A!SystemInv /\ A!P!CompleteInv

LEMMA DecoderInvInit == Init => DecoderInv
<1>1. A!Init => A!SystemInv /\ A!P!CompleteInv
  BY DecoderAssumed, A!AnnouncedInit, FieldAssumption, MaxIdAssumption, IdSpanAssumption
<1>2. QED
  BY <1>1, SameDecoder DEF Init, DecoderInv

LEMMA DecoderInvNext ==
  ASSUME P!NoWrap, ClientInv, DecoderInv, [AnyNext]_vars
  PROVE  /\ DecoderInv' /\ [A!P!Next]_(A!P!vars)
         /\ known \subseteq known' /\ dropped \subseteq dropped'
         /\ pc = "crashed" => pc' = "crashed"
<1>1. A!S!NoWrap /\ A!SystemInv /\ A!P!CompleteInv /\ [A!Next]_(A!vars)
  BY DecoderNext, DecoderAssumed DEF DecoderInv
<1>2. A!SystemInv' /\ A!P!CompleteInv' /\ [A!P!Next]_(A!P!vars)
  BY <1>1, DecoderAssumed, A!AnnouncedNext, FieldAssumption, MaxIdAssumption,
     IdSpanAssumption
<1>3. /\ known \subseteq known' /\ dropped \subseteq dropped'
      /\ pc = "crashed" => pc' = "crashed"
  BY <1>1, <1>2, DecoderAssumed, A!AnnouncedHistory, FieldAssumption, MaxIdAssumption,
     IdSpanAssumption
<1>4. QED
  BY <1>2, <1>3 DEF DecoderInv

LEMMA DecoderInvariance ==
  ASSUME P!NoWrap
  PROVE  Spec => []DecoderInv
<1>1. Init => DecoderInv
  BY DecoderInvInit
<1>2. ClientInv /\ DecoderInv /\ [Next]_vars => DecoderInv'
  BY DecoderInvNext DEF AnyNext
<1>3. QED
  BY <1>1, <1>2, ClientInvariance, PTL DEF Spec

(* What the decoder does with a source symbol, and in a step of its own.   *)
LEMMA SourceSubmitted ==
  ASSUME NEW esi \in Ids, ReceiveSourcePacket(esi)
  PROVE  \E s \in FullSymbols :
           /\ s.coef = UnitVector(esi) /\ ~full_symbol_is_zero(s)
           /\ A!S!AddWithElimination(s)
<1> DEFINE s == [coef |-> UnitVector(esi), data |-> UnitVector(esi)]
<1>1. UnitVector(esi) \in Vector /\ s \in FullSymbols /\ s.coef = UnitVector(esi)
  BY VectorOps DEF FullSymbols
<1>2. ~full_symbol_is_zero(s)
  BY <1>1, UnitSymbol DEF full_symbol_has_one_id
<1>3. D!S!AddWithElimination(s)
  BY DecoderOperators DEF ReceiveSourcePacket, D!DecodeWithNewSourceSymbol,
     full_symbol_create_from_source
<1> HIDE DEF s
<1>4. QED
  BY <1>1, <1>2, <1>3, SameDecoderSystem

LEMMA DecoderSteps ==
  ASSUME DecoderInv, DecoderStep
  PROVE  A!P!Step /\ A!P!Next
<1>1. A!SystemInv /\ A!S!Step
  BY SameDecoder DEF DecoderStep, A!SystemStep, DecoderInv
<1>2. QED
  BY <1>1, DecoderAssumed, A!StepSim, FieldAssumption, MaxIdAssumption, IdSpanAssumption

(* An identifier becomes available with its packet, or with a callback     *)
(* that the packets justify.                                               *)
LEMMA AvailableStep ==
  ASSUME P!NoWrap, ClientInv, DecoderInv, AvailableIsKnown, [AnyNext]_vars
  PROVE  AvailableIsKnown'
<1>1. known \subseteq known'
  BY DecoderInvNext
<1>2. CASE UNCHANGED src_symbols_status_tab
  BY <1>1, <1>2 DEF AvailableIsKnown
<1>3. ASSUME NEW esi \in Ids, ReceiveSourcePacket(esi) PROVE AvailableIsKnown'
  <2>1. PICK s \in FullSymbols : /\ s.coef = UnitVector(esi) /\ ~full_symbol_is_zero(s)
                                /\ A!S!AddWithElimination(s)
    BY <1>3, SourceSubmitted
  <2>2. known' = SpanWith(known, UnitVector(esi))
    BY <2>1, SystemShared DEF A!S!AddWithElimination
  <2>3. UnitVector(esi) \in known'
    <3>1. known \subseteq Vector /\ IsSubspace(known)
      BY SystemShared DEF DecoderInv
    <3>2. QED
      BY <2>2, <3>1, VectorOps, SpanIsSubspace
  <2>4. src_symbols_status_tab' = [src_symbols_status_tab EXCEPT ![esi] = "received"]
    BY <1>3 DEF ReceiveSourcePacket
  <2>5. QED
    BY <1>1, <2>3, <2>4 DEF AvailableIsKnown, ClientInv, TypeOK
<1>4. ASSUME DecoderStep PROVE AvailableIsKnown'
  <2>1. A!S!NoWrap /\ A!SystemInv /\ A!P!Next
    BY <1>4, DecoderSteps, DecoderAssumed DEF DecoderInv
  <2>2. ASSUME NEW id \in Ids, notified'[id] > notified[id] PROVE UnitVector(id) \in known'
    <3>1. notified'[id] # notified[id]
      <4>1. notified[id] \in Nat
        BY SystemShared DEF DecoderInv
      <4>2. QED
        BY <2>2, <4>1
    <3>2. A!UnitVector(id) \in known'
      BY <2>1, <3>1, DecoderAssumed, A!AnnouncedTold, FieldAssumption, MaxIdAssumption,
         IdSpanAssumption
    <3>3. QED
      BY <3>2, DecoderAssumed
  <2>3. src_symbols_status_tab' =
          [id \in Ids |-> IF notified'[id] > notified[id] THEN "decoded"
                          ELSE src_symbols_status_tab[id]]
    BY <1>4 DEF DecoderStep, DecodedSourceSymbolCallback
  <2>4. QED
    BY <1>1, <2>2, <2>3 DEF AvailableIsKnown
<1>5. QED
  BY <1>2, <1>3, <1>4 DEF AnyNext, Next, vars, tables, ReceiveFirstPacket,
     RefusePacket, ReceiveRepairPacket, ListSymbol, GenerateCoefs, SubmitRepair,
     NoMorePacket

(***************************************************************************)
(* What the client's table reports as received or decoded is determined by *)
(* the packets it received, whatever was lost.                             *)
(***************************************************************************)
THEOREM AvailableIsDetermined ==
  ASSUME P!NoWrap
  PROVE  Spec => []AvailableIsKnown
<1>1. Init => AvailableIsKnown
  BY DEF Init, AvailableIsKnown
<1>2. ClientInv /\ DecoderInv /\ AvailableIsKnown /\ [Next]_vars => AvailableIsKnown'
  BY AvailableStep DEF AnyNext
<1>3. QED
  BY <1>1, <1>2, ClientInvariance, DecoderInvariance, PTL DEF Spec

-------------------------------------------------------------------------------
(***************************************************************************)
(* What an orderly session leaves in the client's tables.  A source packet *)
(* of which nothing received before speaks settles its symbol: no callback *)
(* will ever tell of it (Reported).  Whatever else is solved is listed,    *)
(* because a repair packet with two coefficients leaves no symbol with one *)
(* identifier in hand (InHandKnown), and only such a symbol is solved in   *)
(* silence.                                                                *)
(***************************************************************************)
Reported ==
  \A id \in Ids : src_symbols_allocated[id] =>
    /\ src_symbols_tab[id] = "packet" /\ src_symbols_status_tab[id] # "missing"
    /\ A!P!Settled(id)

SolvedListed == \A id \in A!P!Decoded : src_symbols_status_tab[id] # "missing"

InHandKnown ==
  pc \in {"remove", "pivot"} =>
    \/ ~full_symbol_has_one_id(A!Announced(new_symbol1))
    \/ \E id \in Ids : src_symbols_allocated[id] /\ A!P!UnitInHand(id)

HasPair(p) ==
  \E c, d \in 0 .. p.nss - 1 : c # d /\ p.coefs[c] # Zero /\ p.coefs[d] # Zero

Pair == phase \in {"list", "submit"} => HasPair(pkt)

OrderInv == Reported /\ SolvedListed /\ InHandKnown /\ Pair

(* What the table of rows tells depends on nothing else.                   *)
LEMMA TableKept ==
  ASSUME UNCHANGED <<size, first_symbol_id, full_symbol_tab>>
  PROVE  /\ A!P!Decoded' = A!P!Decoded
         /\ \A id : A!P!UnitRow(id)' <=> A!P!UnitRow(id)
<1>1. UNCHANGED A!AnnouncedTab
  BY DEF A!AnnouncedTab
<1>2. A!P!Slots' = A!P!Slots /\ \A k : A!P!PivotOf(k)' = A!P!PivotOf(k)
  BY DEF A!P!Slots, A!P!PivotOf
<1>3. A!P!Rows' = A!P!Rows
  BY <1>1, <1>2 DEF A!P!Rows
<1>4. A!P!Decoded' = A!P!Decoded
  BY <1>1, <1>2, <1>3 DEF A!P!Decoded
<1>5. \A id : A!P!UnitRow(id)' <=> A!P!UnitRow(id)
  BY <1>1, <1>2, <1>3 DEF A!P!UnitRow
<1>6. QED
  BY <1>4, <1>5

LEMMA SystemKept ==
  ASSUME UNCHANGED D!system
  PROVE  /\ A!P!Decoded' = A!P!Decoded
         /\ \A id : A!P!Settled(id)' <=> A!P!Settled(id)
         /\ \A id : A!P!UnitInHand(id)' <=> A!P!UnitInHand(id)
<1>1. UNCHANGED <<size, first_symbol_id, full_symbol_tab, pc, new_symbol1, new_symbol>>
  BY DEF D!system
<1>2. /\ A!P!Decoded' = A!P!Decoded
      /\ \A id : A!P!UnitRow(id)' <=> A!P!UnitRow(id)
  BY <1>1, TableKept
<1>3. UNCHANGED A!AnnouncedTab
  BY <1>1 DEF A!AnnouncedTab
<1>4. A!P!Slots' = A!P!Slots /\ \A k : A!P!PivotOf(k)' = A!P!PivotOf(k)
  BY <1>1 DEF A!P!Slots, A!P!PivotOf
<1>5. A!P!Rows' = A!P!Rows
  BY <1>3, <1>4 DEF A!P!Rows
<1>6. \A id : A!P!UnitInHand(id)' <=> A!P!UnitInHand(id)
  BY <1>1, <1>3, <1>4, <1>5 DEF A!P!UnitInHand, A!Announced
<1>7. QED
  BY <1>2, <1>6 DEF A!P!Settled

(* Between two calls a symbol is settled by its row.                       *)
LEMMA SettledWhenIdle ==
  ASSUME pc = "idle", NEW id
  PROVE  A!P!Settled(id) <=> A!P!UnitRow(id)
BY DEF A!P!Settled, A!P!UnitInHand

LEMMA OrderSource ==
  ASSUME ClientInv, DecoderInv, OrderInv, NEW esi \in Ids, ReceiveSourcePacket(esi),
         \A v \in known : v[esi] = Zero
  PROVE  OrderInv'
<1>1. PICK s \in FullSymbols : /\ s.coef = UnitVector(esi) /\ ~full_symbol_is_zero(s)
                              /\ A!S!AddWithElimination(s)
  BY SourceSubmitted
<1>2. /\ pc = "idle" /\ pc' = "remove"
      /\ UNCHANGED <<size, first_symbol_id, full_symbol_tab>>
  BY <1>1, SystemShared DEF A!S!AddWithElimination, A!S!set
<1>3. A!P!UnitInHand(esi)'
  BY <1>1, DecoderAssumed, A!AnnouncedStarts, FieldAssumption, MaxIdAssumption,
     IdSpanAssumption DEF DecoderInv
<1>4. /\ src_symbols_tab' = [src_symbols_tab EXCEPT ![esi] = "packet"]
      /\ src_symbols_status_tab' = [src_symbols_status_tab EXCEPT ![esi] = "received"]
      /\ src_symbols_allocated' = [src_symbols_allocated EXCEPT ![esi] = TRUE]
      /\ UNCHANGED <<phase, pkt>>
  BY DEF ReceiveSourcePacket
<1>5. /\ src_symbols_tab \in [Ids -> {"packet", "row", NULL}]
      /\ src_symbols_status_tab \in [Ids -> {"missing", "received", "decoded"}]
      /\ src_symbols_allocated \in [Ids -> BOOLEAN]
  BY DEF ClientInv, TypeOK
<1>6. Reported'
  <2>1. SUFFICES ASSUME NEW id \in Ids, src_symbols_allocated'[id]
                 PROVE  /\ src_symbols_tab'[id] = "packet"
                        /\ src_symbols_status_tab'[id] # "missing"
                        /\ A!P!Settled(id)'
    BY DEF Reported
  <2>2. CASE id = esi
    BY <1>3, <1>4, <1>5, <2>2 DEF A!P!Settled
  <2>3. CASE id # esi
    <3>1. src_symbols_allocated[id]
      BY <1>4, <1>5, <2>1, <2>3
    <3>2. /\ src_symbols_tab[id] = "packet" /\ src_symbols_status_tab[id] # "missing"
          /\ A!P!UnitRow(id)
      BY <1>2, <3>1, SettledWhenIdle DEF OrderInv, Reported
    <3>3. A!P!UnitRow(id)'
      BY <1>2, <3>2, TableKept
    <3>4. QED
      BY <1>4, <1>5, <2>3, <3>2, <3>3 DEF A!P!Settled
  <2>4. QED
    BY <2>2, <2>3
<1>7. SolvedListed'
  BY <1>2, <1>4, <1>5, TableKept DEF OrderInv, SolvedListed
<1>8. InHandKnown'
  BY <1>3, <1>4, <1>5 DEF InHandKnown
<1>9. QED
  BY <1>4, <1>6, <1>7, <1>8 DEF OrderInv, Pair

(* The symbol of a repair packet with two coefficients has two identifiers.*)
LEMMA OrderSubmit ==
  ASSUME ~overrun, ClientInv, OrderInv, SubmitRepair
  PROVE  OrderInv'
<1>1. /\ phase = "submit" /\ phase' = "receive" /\ UNCHANGED tables
      /\ D!DecodeWithNewRepairSymbol(pkt.data)
  BY DEF SubmitRepair
<1>2. CASE UNCHANGED D!system
  BY <1>1, <1>2, SystemKept DEF OrderInv, Reported, SolvedListed, InHandKnown, Pair,
     tables, D!system, A!Announced
<1>3. ASSUME NEW header \in D!Headers,
             D!S!AddWithElimination([coef |-> header, data |-> pkt.data])
      PROVE  OrderInv'
  <2> DEFINE s == [coef |-> header, data |-> pkt.data]
  <2>1. /\ pkt \in RepairPackets /\ header = Payload(pkt.esi, pkt.nss, pkt.coefs)
        /\ header \in Vector
    BY <1>1, HeaderIsPayload
  <2>2. PICK c, d \in 0 .. pkt.nss - 1 :
          c # d /\ pkt.coefs[c] # Zero /\ pkt.coefs[d] # Zero
    BY <1>1 DEF OrderInv, Pair, HasPair
  <2>3. /\ pkt.esi \in Nat /\ pkt.nss \in Nat /\ pkt.esi + pkt.nss <= MaxId + 1
        /\ c \in Nat /\ d \in Nat /\ c < pkt.nss /\ d < pkt.nss
    BY <2>1, <2>2, PacketFacts, MaxIdAssumption DEF Ids
  <2>4. /\ pkt.esi + c \in Ids /\ pkt.esi + d \in Ids
        /\ header[pkt.esi + c] # Zero /\ header[pkt.esi + d] # Zero
    <3>1. ASSUME NEW n \in Nat, n < pkt.nss
          PROVE  pkt.esi + n \in Ids /\ header[pkt.esi + n] = pkt.coefs[n]
      <4>1. /\ pkt.esi + n \in Ids /\ pkt.esi + n \in pkt.esi .. pkt.esi + pkt.nss - 1
            /\ (pkt.esi + n) - pkt.esi = n
        BY <2>3, <3>1, MaxIdAssumption DEF Ids
      <4>2. QED
        BY <2>1, <4>1 DEF Payload
    <3>2. QED
      BY <2>2, <2>3, <3>1
  <2>5. s \in FullSymbols /\ A!Announced(s).coef = header /\ A!Announced(s) \in FullSymbols
    BY <2>1, PacketFacts DEF FullSymbols, A!Announced
  <2>6. ~full_symbol_has_one_id(A!Announced(s))
    <3>1. SUFFICES ASSUME full_symbol_has_one_id(A!Announced(s)) PROVE FALSE
      OBVIOUS
    <3>2. \A b \in Ids : header[b] # Zero => b = first_nonzero_id(A!Announced(s))
      BY <2>5, <3>1, OneId
    <3>3. pkt.esi + c # pkt.esi + d
      BY <2>2, <2>3
    <3>4. QED
      BY <2>4, <3>2, <3>3
  <2>7. A!S!AddWithElimination(s)
    BY <1>3, SameDecoderSystem
  <2> HIDE DEF s
  <2>8. CASE UNCHANGED A!S!vars
    <3>1. UNCHANGED D!system
      BY <2>8 DEF A!S!vars, A!S!set, A!S!application, D!system
    <3>2. QED
      BY <1>2, <3>1
  <2>9. CASE ~UNCHANGED A!S!vars
    <3>1. /\ pc = "idle" /\ pc' = "remove" /\ new_symbol1' = s
          /\ UNCHANGED <<size, first_symbol_id, full_symbol_tab>>
      BY <2>7, <2>9 DEF A!S!AddWithElimination, A!S!set
    <3>2. Reported'
      BY <1>1, <3>1, TableKept, SettledWhenIdle DEF OrderInv, Reported, tables, A!P!Settled
    <3>3. SolvedListed'
      BY <1>1, <3>1, TableKept DEF OrderInv, SolvedListed, tables
    <3>4. InHandKnown'
      BY <2>6, <3>1 DEF InHandKnown, A!Announced
    <3>5. QED
      BY <1>1, <3>2, <3>3, <3>4 DEF OrderInv, Pair
  <2>10. QED
    BY <2>8, <2>9
<1>4. QED
  BY <1>1, <1>2, <1>3 DEF D!DecodeWithNewRepairSymbol

LEMMA OrderDecoder ==
  ASSUME P!NoWrap, ClientInv, DecoderInv, OrderInv, DecoderStep, dropped' = {},
         pc' # "crashed"
  PROVE  OrderInv'
<1>1. A!S!NoWrap /\ A!SystemInv /\ A!P!Step
  BY DecoderSteps, DecoderAssumed DEF DecoderInv
<1>2. /\ src_symbols_tab' = [id \in Ids |-> IF notified'[id] > notified[id] THEN "row"
                                           ELSE src_symbols_tab[id]]
      /\ src_symbols_status_tab' =
           [id \in Ids |-> IF notified'[id] > notified[id] THEN "decoded"
                           ELSE src_symbols_status_tab[id]]
      /\ UNCHANGED <<src_symbols_allocated, phase, pkt>>
  BY DEF DecoderStep, DecodedSourceSymbolCallback
<1>3. notified \in [Ids -> Nat]
  BY SystemShared DEF DecoderInv
<1>4. Reported'
  <2>1. SUFFICES ASSUME NEW id \in Ids, src_symbols_allocated'[id]
                 PROVE  /\ src_symbols_tab'[id] = "packet"
                        /\ src_symbols_status_tab'[id] # "missing"
                        /\ A!P!Settled(id)'
    BY DEF Reported
  <2>2. /\ src_symbols_tab[id] = "packet" /\ src_symbols_status_tab[id] # "missing"
        /\ A!P!Settled(id)
    BY <1>2, <2>1 DEF OrderInv, Reported
  <2>3. A!P!Settled(id)' /\ notified'[id] = notified[id]
    BY <1>1, <2>2, DecoderAssumed, A!AnnouncedSettled, FieldAssumption, MaxIdAssumption,
       IdSpanAssumption
  <2>4. ~(notified'[id] > notified[id])
    BY <1>3, <2>3
  <2>5. QED
    BY <1>2, <2>2, <2>3, <2>4
<1>5. SolvedListed'
  <2>1. SUFFICES ASSUME NEW id \in A!P!Decoded'
                 PROVE  src_symbols_status_tab'[id] # "missing"
    BY DEF SolvedListed
  <2>2. id \in Ids
    <3>1. DecoderInv'
      BY DecoderInvNext DEF AnyNext, Next
    <3>2. A!P!RowsEchelon' /\ A!P!Ids = Ids
      BY <3>1 DEF DecoderInv, A!SystemInv, A!P!IInv, A!P!Ids, Ids
    <3>3. QED
      BY <3>2 DEF A!P!Decoded, A!P!RowsEchelon
  <2>3. CASE id \in A!P!Decoded
    BY <1>2, <2>2, <2>3 DEF OrderInv, SolvedListed
  <2>4. CASE id \notin A!P!Decoded
    <3>1. /\ pc \in {"remove", "pivot"}
          /\ A!P!full_symbol_has_one_id(A!Announced(new_symbol1)) \/ notified'[id] > notified[id]
          /\ \A other \in Ids : A!P!UnitInHand(other) => id = other
      BY <1>1, <2>4, DecoderAssumed, A!AnnouncedSolved, FieldAssumption, MaxIdAssumption,
         IdSpanAssumption
    <3>2. CASE notified'[id] > notified[id]
      BY <1>2, <2>2, <3>2
    <3>3. CASE full_symbol_has_one_id(A!Announced(new_symbol1))
      <4>1. src_symbols_allocated[id]
        BY <3>1, <3>3 DEF OrderInv, InHandKnown
      <4>2. QED
        BY <1>2, <2>2, <4>1 DEF OrderInv, Reported
    <3>4. QED
      BY <3>1, <3>2, <3>3, SystemShared
  <2>5. QED
    BY <2>3, <2>4
<1>6. InHandKnown'
  <2>1. SUFFICES ASSUME pc' \in {"remove", "pivot"}
                 PROVE  \/ ~full_symbol_has_one_id(A!Announced(new_symbol1)')
                        \/ \E id \in Ids : src_symbols_allocated'[id] /\ A!P!UnitInHand(id)'
    BY DEF InHandKnown
  <2>2. /\ pc \in {"remove", "pivot"} /\ UNCHANGED A!Announced(new_symbol1)
        /\ \A id \in Ids : A!P!UnitInHand(id) => A!P!UnitInHand(id)'
    BY <1>1, <2>1, DecoderAssumed, A!AnnouncedInHand, FieldAssumption, MaxIdAssumption,
       IdSpanAssumption
  <2>3. QED
    BY <1>2, <2>2 DEF OrderInv, InHandKnown
<1>7. QED
  BY <1>2, <1>4, <1>5, <1>6 DEF OrderInv, Pair

(* A step of an orderly session: a source packet is the first to speak of  *)
(* its symbol, and a repair packet has two coefficients.                   *)
OrderlyNext ==
  \/ \E is_oti, known_codepoint \in BOOLEAN : ReceiveFirstPacket(is_oti, known_codepoint)
  \/ \E esi \in Ids : ReceiveSourcePacket(esi) /\ \A v \in known : v[esi] = Zero
  \/ \E p \in RepairPackets : ReceiveRepairPacket(p) /\ HasPair(p)
  \/ Handle \/ NoMorePacket

LEMMA OrderStep ==
  ASSUME ~overrun, P!NoWrap, ClientInv, DecoderInv, OrderInv,
         [OrderlyNext]_vars, dropped' = {}, pc' # "crashed"
  PROVE  OrderInv'
<1>1. ASSUME UNCHANGED <<D!system, tables>>, Pair' PROVE OrderInv'
  BY <1>1, SystemKept DEF OrderInv, Reported, SolvedListed, InHandKnown, tables,
     D!system, A!Announced
<1>2. ASSUME NEW is_oti, NEW known_codepoint, ReceiveFirstPacket(is_oti, known_codepoint)
      PROVE  OrderInv'
  BY <1>1, <1>2 DEF ReceiveFirstPacket, decoder, D!system, Pair
<1>3. ASSUME NEW p \in RepairPackets, ReceiveRepairPacket(p), HasPair(p) PROVE OrderInv'
  BY <1>1, <1>3 DEF ReceiveRepairPacket, D!ResetCodingWindow, Pair
<1>4. CASE ListSymbol
  BY <1>1, <1>4 DEF ListSymbol, D!AddSourceSymbol, Pair, OrderInv
<1>5. CASE GenerateCoefs
  BY <1>1, <1>5 DEF GenerateCoefs, D!GenerateCodingCoefs, Pair, OrderInv
<1>6. CASE NoMorePacket
  BY <1>1, <1>6 DEF NoMorePacket, decoder, D!system, Pair
<1>7. CASE UNCHANGED vars
  BY <1>1, <1>7 DEF vars, decoder, D!system, Pair, OrderInv
<1>8. QED
  BY <1>2, <1>3, <1>4, <1>5, <1>6, <1>7, OrderSource, OrderSubmit, OrderDecoder
     DEF OrderlyNext, Handle

(* Nothing the client received speaks of the symbol c.                     *)
Untouched(c) ==
  /\ \A v \in known : v[c] = Zero
  /\ phase \in {"list", "submit"} => c \notin pkt.esi .. pkt.esi + pkt.nss - 1

(* A step that receives nothing about c.                                   *)
AwayNext(c) ==
  \/ \E is_oti, known_codepoint \in BOOLEAN : ReceiveFirstPacket(is_oti, known_codepoint)
  \/ \E esi \in Ids \ {c} : ReceiveSourcePacket(esi)
  \/ \E p \in RepairPackets :
       ReceiveRepairPacket(p) /\ c \notin p.esi .. p.esi + p.nss - 1
  \/ Handle \/ NoMorePacket

LEMMA UntouchedStep ==
  ASSUME ~overrun, ClientInv, DecoderInv, NEW c \in Ids, Untouched(c),
         [AwayNext(c)]_vars
  PROVE  Untouched(c)'
<1>1. known \subseteq Vector
  BY SystemShared DEF DecoderInv
<1>2. ASSUME NEW u \in Vector, u[c] = Zero, known' = SpanWith(known, u)
      PROVE  \A v \in known' : v[c] = Zero
  <2>1. SUFFICES ASSUME NEW w \in known, NEW a \in F
                 PROVE  symbol_add_scaled(w, a, u)[c] = Zero
    BY <1>2 DEF SpanWith
  <2>2. w[c] = Zero
    BY DEF Untouched
  <2>3. gf256_mul(a, Zero) = Zero /\ gf256_add(Zero, Zero) = Zero
    BY FieldAssumption
  <2>4. symbol_add_scaled(w, a, u)[c] = gf256_add(w[c], gf256_mul(a, u[c]))
    BY DEF symbol_add_scaled
  <2>5. QED
    BY <1>2, <2>2, <2>3, <2>4
<1>3. ASSUME UNCHANGED known,
             phase' \in {"list", "submit"} => phase \in {"list", "submit"} /\ pkt' = pkt
      PROVE  Untouched(c)'
  BY <1>3 DEF Untouched
<1>4. ASSUME NEW esi \in Ids \ {c}, ReceiveSourcePacket(esi) PROVE Untouched(c)'
  <2>1. PICK s \in FullSymbols : /\ s.coef = UnitVector(esi) /\ ~full_symbol_is_zero(s)
                                /\ A!S!AddWithElimination(s)
    BY <1>4, SourceSubmitted
  <2>2. known' = SpanWith(known, UnitVector(esi))
    BY <2>1, SystemShared DEF A!S!AddWithElimination
  <2>3. UnitVector(esi) \in Vector /\ UnitVector(esi)[c] = Zero
    BY VectorOps DEF UnitVector
  <2>4. phase' = phase /\ phase = "receive"
    BY <1>4 DEF ReceiveSourcePacket
  <2>5. QED
    BY <1>2, <2>2, <2>3, <2>4 DEF Untouched
<1>5. ASSUME NEW p \in RepairPackets, ReceiveRepairPacket(p),
             c \notin p.esi .. p.esi + p.nss - 1
      PROVE  Untouched(c)'
  BY <1>5 DEF ReceiveRepairPacket, D!ResetCodingWindow, D!system, Untouched
<1>6. CASE SubmitRepair
  <2>1. phase = "submit" /\ phase' = "receive" /\ D!DecodeWithNewRepairSymbol(pkt.data)
    BY <1>6 DEF SubmitRepair
  <2>2. CASE UNCHANGED D!system
    BY <1>3, <2>1, <2>2 DEF D!system
  <2>3. ASSUME NEW header \in D!Headers,
               D!S!AddWithElimination([coef |-> header, data |-> pkt.data])
        PROVE  Untouched(c)'
    <3>1. header \in Vector /\ header = Payload(pkt.esi, pkt.nss, pkt.coefs)
      BY <2>1, HeaderIsPayload
    <3>2. header[c] = Zero
      BY <2>1, <3>1 DEF Payload, Untouched
    <3>3. known' = known \/ known' = SpanWith(known, header)
      <4>1. A!S!AddWithElimination([coef |-> header, data |-> pkt.data])
        BY <2>3, SameDecoderSystem
      <4>2. QED
        BY <4>1, SystemShared DEF A!S!AddWithElimination, A!S!vars
    <3>4. QED
      BY <1>2, <2>1, <3>1, <3>2, <3>3 DEF Untouched
  <2>4. QED
    BY <2>1, <2>2, <2>3 DEF D!DecodeWithNewRepairSymbol
<1>7. CASE ListSymbol
  BY <1>3, <1>7 DEF ListSymbol, D!AddSourceSymbol, D!system
<1>8. CASE GenerateCoefs
  BY <1>3, <1>8 DEF GenerateCoefs, D!GenerateCodingCoefs, D!system
<1>9. CASE DecoderStep
  <2>1. UNCHANGED known
    BY <1>9 DEF DecoderStep, D!SystemStep, D!S!Step, D!S!RemovePivot, D!S!Redundant,
       D!S!AddAsPivot, D!S!EliminateRow, D!S!StoreRight, D!S!StoreLeft, D!S!Overflow
  <2>2. QED
    BY <1>3, <1>9, <2>1 DEF DecoderStep
<1>10. CASE \/ \E is_oti, known_codepoint \in BOOLEAN :
                 ReceiveFirstPacket(is_oti, known_codepoint)
            \/ NoMorePacket
  BY <1>3, <1>10 DEF ReceiveFirstPacket, NoMorePacket, decoder
<1>11. CASE UNCHANGED vars
  BY <1>3, <1>11 DEF vars, decoder
<1>12. QED
  BY <1>4, <1>5, <1>6, <1>7, <1>8, <1>9, <1>10, <1>11 DEF AwayNext, Handle

(* Between two calls of an orderly session the tables are exact.           *)
LEMMA OrderIsExact ==
  ASSUME DecoderInv, OrderInv, AvailableIsKnown, pc = "idle", dropped = {}, NEW id \in Ids
  PROVE  src_symbols_status_tab[id] # "missing" <=> UnitVector(id) \in known
<1>1. ASSUME UnitVector(id) \in known PROVE id \in A!P!Decoded
  BY <1>1, DecoderAssumed, A!AnnouncedDetermined, FieldAssumption, MaxIdAssumption,
     IdSpanAssumption DEF DecoderInv
<1>2. QED
  BY <1>1 DEF OrderInv, SolvedListed, AvailableIsKnown

(* At first nothing is reported and nothing is known.                      *)
LEMMA StartsOrderly ==
  ASSUME Init
  PROVE  /\ ClientInv /\ DecoderInv /\ AvailableIsKnown /\ OrderInv
         /\ \A c \in Ids : Untouched(c)
<1>1. /\ phase = "oti" /\ pc = "idle" /\ known = {D!S!ZeroVector}
      /\ full_symbol_tab = [k \in 0 .. size - 1 |-> NULL]
      /\ \A id \in Ids : /\ src_symbols_status_tab[id] = "missing"
                         /\ src_symbols_allocated[id] = FALSE
  BY DEF Init, D!Init, D!S!Init, D!S!Slots
<1>2. AvailableIsKnown
  BY <1>1 DEF AvailableIsKnown
<1>3. A!P!Decoded = {}
  BY <1>1 DEF A!P!Decoded, A!P!Rows, A!P!Slots, A!AnnouncedTab
<1>4. OrderInv
  BY <1>1, <1>3 DEF OrderInv, Reported, SolvedListed, InHandKnown, Pair
<1>5. \A c \in Ids : Untouched(c)
  BY <1>1 DEF Untouched, D!S!ZeroVector, D!S!Ids, Ids
<1>6. QED
  BY <1>2, <1>4, <1>5, InitClient, DecoderInvInit

(* What a client keeps, whatever it receives.                              *)
LEMMA ClientStays ==
  ASSUME P!NoWrap, ClientInv, DecoderInv, AvailableIsKnown, [AnyNext]_vars
  PROVE  /\ ClientInv' /\ DecoderInv' /\ AvailableIsKnown'
         /\ dropped \subseteq dropped' /\ (pc = "crashed" => pc' = "crashed")
         /\ overrun => overrun'
BY NextClient, DecoderInvNext, AvailableStep, OverrunStays
===============================================================================
