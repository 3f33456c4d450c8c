--------------------------- MODULE RlcDecoderProofs ---------------------------
(***************************************************************************)
(* Proofs about the decoder under calls in any order.  The application may *)
(* prepare any window for a repair symbol, so a row need not hold the      *)
(* payload its header announces, and the theorems about the linear system, *)
(* which are about honest symbols, do not apply as they stand.  But no     *)
(* payload is ever looked at: replace every payload by the one the header  *)
(* announces, and what is left is an execution of the linear system with   *)
(* honest symbols (P below), whose invariant then describes the headers of *)
(* the real one.                                                           *)
(***************************************************************************)
EXTENDS RlcDecoder, FiniteSetTheorems, TLAPS

(* The honest symbol with the header of s.                                 *)
Announced(s) == [coef |-> s.coef, data |-> s.coef]

AnnouncedTab ==
  [k \in 0 .. size - 1 |->
     IF full_symbol_tab[k] = NULL THEN NULL ELSE Announced(full_symbol_tab[k])]

P == INSTANCE FullSymbolSetProofs WITH
       full_symbol_tab <- AnnouncedTab,
       new_symbol1 <- Announced(new_symbol1),
       new_symbol <- Announced(new_symbol)

(***************************************************************************)
(* The operators of the two instances of FullSymbolSet that read no        *)
(* variable are those of module FullSymbol.                                *)
(***************************************************************************)
LEMMA SystemOperators ==
  /\ S!Ids = Ids /\ S!Vector = Vector /\ S!FullSymbols = FullSymbols
  /\ S!SYMBOL_ID_NONE = SYMBOL_ID_NONE /\ S!ZeroSymbol = ZeroSymbol
  /\ P!Ids = Ids /\ P!Vector = Vector /\ P!FullSymbols = FullSymbols
  /\ P!SYMBOL_ID_NONE = SYMBOL_ID_NONE /\ P!ZeroSymbol = ZeroSymbol
  /\ S!ZeroVector = ZeroVector /\ P!ZeroVector = ZeroVector
  /\ \A s : /\ S!first_nonzero_id(s) = first_nonzero_id(s)
            /\ P!first_nonzero_id(s) = first_nonzero_id(s)
            /\ S!last_nonzero_id(s) = last_nonzero_id(s)
            /\ P!last_nonzero_id(s) = last_nonzero_id(s)
            /\ S!full_symbol_is_zero(s) = full_symbol_is_zero(s)
            /\ P!full_symbol_is_zero(s) = full_symbol_is_zero(s)
            /\ S!full_symbol_has_one_id(s) = full_symbol_has_one_id(s)
            /\ P!full_symbol_has_one_id(s) = full_symbol_has_one_id(s)
            /\ S!full_symbol_clone(s) = full_symbol_clone(s)
            /\ P!full_symbol_clone(s) = full_symbol_clone(s)
  /\ \A s, a : /\ S!full_symbol_get_coef(s, a) = full_symbol_get_coef(s, a)
               /\ P!full_symbol_get_coef(s, a) = full_symbol_get_coef(s, a)
               /\ S!full_symbol_scale(s, a) = full_symbol_scale(s, a)
               /\ P!full_symbol_scale(s, a) = full_symbol_scale(s, a)
  /\ \A s, t : /\ S!full_symbol_add(s, t) = full_symbol_add(s, t)
               /\ P!full_symbol_add(s, t) = full_symbol_add(s, t)
  /\ \A U, v : S!SpanWith(U, v) = SpanWith(U, v) /\ P!SpanWith(U, v) = SpanWith(U, v)
<1>1. /\ S!Ids = Ids /\ S!Vector = Vector /\ S!SYMBOL_ID_NONE = SYMBOL_ID_NONE
      /\ P!Ids = Ids /\ P!Vector = Vector /\ P!SYMBOL_ID_NONE = SYMBOL_ID_NONE
  BY DEF S!Ids, P!Ids, Ids, S!Vector, P!Vector, Vector,
     S!SYMBOL_ID_NONE, P!SYMBOL_ID_NONE, SYMBOL_ID_NONE
<1>2. /\ S!FullSymbols = FullSymbols /\ P!FullSymbols = FullSymbols
      /\ S!ZeroVector = ZeroVector /\ P!ZeroVector = ZeroVector
      /\ S!ZeroSymbol = ZeroSymbol /\ P!ZeroSymbol = ZeroSymbol
  BY <1>1 DEF S!FullSymbols, P!FullSymbols, FullSymbols, S!ZeroVector, P!ZeroVector,
     ZeroVector, S!ZeroSymbol, P!ZeroSymbol, ZeroSymbol
<1>3. \A s : S!NonzeroIds(s) = NonzeroIds(s) /\ P!NonzeroIds(s) = NonzeroIds(s)
  BY <1>1 DEF S!NonzeroIds, P!NonzeroIds, NonzeroIds
<1>4. \A s : /\ S!first_nonzero_id(s) = first_nonzero_id(s)
             /\ P!first_nonzero_id(s) = first_nonzero_id(s)
             /\ S!last_nonzero_id(s) = last_nonzero_id(s)
             /\ P!last_nonzero_id(s) = last_nonzero_id(s)
  <2>1. \A T : S!Min(T) = Min(T) /\ S!Max(T) = Max(T)
    BY Zenon DEF S!Min, Min, S!Max, Max
  <2>2. \A T : P!Min(T) = Min(T) /\ P!Max(T) = Max(T)
    BY Zenon DEF P!Min, Min, P!Max, Max
  <2>3. QED
    BY <1>1, <1>3, <2>1, <2>2 DEF S!first_nonzero_id, P!first_nonzero_id,
       first_nonzero_id, S!last_nonzero_id, P!last_nonzero_id, last_nonzero_id
<1>5. \A s : /\ S!full_symbol_is_zero(s) = full_symbol_is_zero(s)
             /\ P!full_symbol_is_zero(s) = full_symbol_is_zero(s)
  BY <1>1, <1>4 DEF S!full_symbol_is_zero, P!full_symbol_is_zero, full_symbol_is_zero
<1>6. \A s : /\ S!full_symbol_has_one_id(s) = full_symbol_has_one_id(s)
             /\ P!full_symbol_has_one_id(s) = full_symbol_has_one_id(s)
  BY <1>4, <1>5 DEF S!full_symbol_has_one_id, P!full_symbol_has_one_id,
     full_symbol_has_one_id
<1>7. \A s : /\ S!full_symbol_clone(s) = full_symbol_clone(s)
             /\ P!full_symbol_clone(s) = full_symbol_clone(s)
  BY <1>2, <1>5 DEF S!full_symbol_clone, P!full_symbol_clone, full_symbol_clone
<1>8. \A s, a : /\ S!full_symbol_get_coef(s, a) = full_symbol_get_coef(s, a)
                /\ P!full_symbol_get_coef(s, a) = full_symbol_get_coef(s, a)
                /\ S!full_symbol_scale(s, a) = full_symbol_scale(s, a)
                /\ P!full_symbol_scale(s, a) = full_symbol_scale(s, a)
  BY <1>1, <1>5 DEF S!full_symbol_get_coef, P!full_symbol_get_coef,
     full_symbol_get_coef, S!full_symbol_scale, P!full_symbol_scale,
     full_symbol_scale, S!symbol_mul, P!symbol_mul, symbol_mul
<1>9. \A s, t : /\ S!full_symbol_add(s, t) = full_symbol_add(s, t)
                /\ P!full_symbol_add(s, t) = full_symbol_add(s, t)
  BY <1>1, <1>5, <1>7 DEF S!full_symbol_add, P!full_symbol_add, full_symbol_add,
     S!symbol_add, P!symbol_add, symbol_add
<1>10. \A U, v : S!SpanWith(U, v) = SpanWith(U, v) /\ P!SpanWith(U, v) = SpanWith(U, v)
  BY <1>1 DEF S!SpanWith, P!SpanWith, SpanWith, S!symbol_add_scaled,
     P!symbol_add_scaled, symbol_add_scaled
<1>11. QED
  BY <1>1, <1>2, <1>4, <1>5, <1>6, <1>7, <1>8, <1>9, <1>10

-------------------------------------------------------------------------------
(***************************************************************************)
(* What FullSymbolSetProofs shows of vectors and symbols, said of the      *)
(* operators of FullSymbol.                                                *)
(***************************************************************************)
LEMMA SystemAssumed ==
  FULL_SYMBOL_SET_INITIAL_SIZE \in Nat \ {0} /\ NULL \notin P!FullSymbols
BY SystemOperators, SystemAssumption

(* Vectors are closed under the operations of swif_symbol.c.               *)
LEMMA VectorOps ==
  /\ ZeroVector \in Vector
  /\ \A id \in Ids : UnitVector(id) \in Vector
  /\ \A u, v \in Vector : symbol_add(u, v) \in Vector
  /\ \A u \in Vector, a \in F : symbol_mul(a, u) \in Vector
  /\ \A u, v \in Vector, a \in F : symbol_add_scaled(u, a, v) \in Vector
BY FieldAssumption
   DEF Vector, ZeroVector, UnitVector, symbol_add, symbol_mul, symbol_add_scaled

(* The first and last nonzero identifiers are what their names say.        *)
LEMMA NonzeroRange ==
  ASSUME NEW s \in FullSymbols
  PROVE  /\ full_symbol_is_zero(s) <=> (\A c \in Ids : s.coef[c] = Zero)
         /\ ~full_symbol_is_zero(s) =>
              /\ first_nonzero_id(s) \in Ids
              /\ last_nonzero_id(s) \in Ids
              /\ s.coef[first_nonzero_id(s)] # Zero
              /\ s.coef[last_nonzero_id(s)] # Zero
              /\ \A c \in Ids : s.coef[c] # Zero =>
                   first_nonzero_id(s) <= c /\ c <= last_nonzero_id(s)
BY SystemOperators, SystemAssumed, P!NonzeroRange, FieldAssumption, MaxIdAssumption,
   IdSpanAssumption

(* A clone has the coefficients of the original.                           *)
LEMMA CloneCoef ==
  ASSUME NEW s \in FullSymbols
  PROVE  /\ full_symbol_clone(s) \in FullSymbols
         /\ full_symbol_clone(s).coef = s.coef
         /\ s.data = s.coef => full_symbol_clone(s).data = s.coef
BY SystemOperators, SystemAssumed, P!CloneCoef, FieldAssumption, MaxIdAssumption,
   IdSpanAssumption

(* Scaling multiplies every coefficient.                                   *)
LEMMA ScaleCoef ==
  ASSUME NEW s \in FullSymbols, NEW a \in F
  PROVE  /\ full_symbol_scale(s, a) \in FullSymbols
         /\ \A c \in Ids :
              full_symbol_scale(s, a).coef[c] = gf256_mul(a, s.coef[c])
<1>1. s \in P!FullSymbols
  BY SystemOperators
<1>2. /\ P!full_symbol_scale(s, a) \in P!FullSymbols
      /\ \A c \in P!Ids :
           P!full_symbol_scale(s, a).coef[c] = gf256_mul(a, s.coef[c])
  BY <1>1, SystemAssumed, P!ScaleCoef, FieldAssumption, MaxIdAssumption,
     IdSpanAssumption
<1>3. QED
  BY <1>2, SystemOperators

(* Adding adds every coefficient.                                          *)
LEMMA AddCoef ==
  ASSUME NEW s \in FullSymbols, NEW t \in FullSymbols
  PROVE  /\ full_symbol_add(s, t) \in FullSymbols
         /\ \A c \in Ids :
              full_symbol_add(s, t).coef[c] = gf256_add(s.coef[c], t.coef[c])
<1>1. s \in P!FullSymbols /\ t \in P!FullSymbols
  BY SystemOperators
<1>2. /\ P!full_symbol_add(s, t) \in P!FullSymbols
      /\ \A c \in P!Ids :
           P!full_symbol_add(s, t).coef[c] = gf256_add(s.coef[c], t.coef[c])
  BY <1>1, SystemAssumed, P!AddCoef, FieldAssumption, MaxIdAssumption,
     IdSpanAssumption
<1>3. QED
  BY <1>2, SystemOperators

(* The inverse of a nonzero element is nonzero.                            *)
LEMMA InvNonzero ==
  ASSUME NEW a \in F \ {Zero}
  PROVE  gf256_inv(a) \in F \ {Zero}
BY SystemAssumed, P!InvNonzero, FieldAssumption, MaxIdAssumption, IdSpanAssumption

-------------------------------------------------------------------------------
(***************************************************************************)
(* An operation on symbols does to the announced ones what it does to the  *)
(* real ones.                                                              *)
(***************************************************************************)
LEMMA AnnouncedOps ==
  ASSUME NEW s \in FullSymbols
  PROVE  /\ Announced(s) \in FullSymbols /\ Announced(s) # NULL /\ s # NULL
         /\ first_nonzero_id(Announced(s)) = first_nonzero_id(s)
         /\ last_nonzero_id(Announced(s)) = last_nonzero_id(s)
         /\ full_symbol_is_zero(Announced(s)) <=> full_symbol_is_zero(s)
         /\ full_symbol_has_one_id(Announced(s)) <=> full_symbol_has_one_id(s)
         /\ full_symbol_clone(Announced(s)) = Announced(full_symbol_clone(s))
         /\ \A a \in F : full_symbol_scale(Announced(s), a) = Announced(full_symbol_scale(s, a))
         /\ \A t \in FullSymbols :
              full_symbol_add(Announced(s), Announced(t)) = Announced(full_symbol_add(s, t))
<1>1. Announced(s) \in FullSymbols /\ Announced(s) # NULL /\ s # NULL
  BY SystemAssumption DEF Announced, FullSymbols
<1>2. \A t : NonzeroIds(Announced(t)) = NonzeroIds(t)
  BY DEF NonzeroIds, Announced
<1>3. \A t : /\ first_nonzero_id(Announced(t)) = first_nonzero_id(t)
             /\ last_nonzero_id(Announced(t)) = last_nonzero_id(t)
  BY <1>2 DEF first_nonzero_id, last_nonzero_id
<1>4. \A t : /\ full_symbol_is_zero(Announced(t)) <=> full_symbol_is_zero(t)
             /\ full_symbol_has_one_id(Announced(t)) <=> full_symbol_has_one_id(t)
  BY <1>3 DEF full_symbol_is_zero, full_symbol_has_one_id
<1>5. \A t : full_symbol_clone(Announced(t)) = Announced(full_symbol_clone(t))
  BY <1>4 DEF full_symbol_clone, Announced, ZeroSymbol
<1>6. \A t, a : full_symbol_scale(Announced(t), a) = Announced(full_symbol_scale(t, a))
  BY <1>4 DEF full_symbol_scale, Announced
<1>7. \A t : full_symbol_add(Announced(s), Announced(t)) = Announced(full_symbol_add(s, t))
  BY <1>4, <1>5 DEF full_symbol_add, Announced
<1>8. QED
  BY <1>1, <1>3, <1>4, <1>5, <1>6, <1>7

-------------------------------------------------------------------------------
(* The symbols are symbols.                                                *)
SymbolsTyped ==
  /\ full_symbol_tab \in [0 .. size - 1 -> FullSymbols \union {NULL}]
  /\ new_symbol1 \in FullSymbols /\ new_symbol \in FullSymbols

SystemInv == SymbolsTyped /\ P!IInv

(* The ranges of the fields that both systems share.                       *)
LEMMA SharedTypes ==
  ASSUME P!IInv
  PROVE  /\ size \in Nat \ {0} /\ IdSpan \in Nat \ {0} /\ MaxId \in Nat
         /\ first_symbol_id \in Nat /\ first_symbol_id \in Ids \union {SYMBOL_ID_NONE}
         /\ i \in Nat /\ pc \in {"idle", "remove", "pivot", "crashed"}
         /\ is_zero \in BOOLEAN
         /\ notified \in [Ids -> Nat] /\ lent \subseteq Ids
         /\ known \subseteq Vector /\ dropped \subseteq Ids
BY SystemOperators, IdSpanAssumption, MaxIdAssumption
   DEF P!IInv, P!TypeOK, Ids, SYMBOL_ID_NONE

LEMMA AnnouncedRows ==
  ASSUME SymbolsTyped
  PROVE  /\ P!Slots = S!Slots /\ P!Rows = S!Rows
         /\ \A k \in S!Slots :
              /\ AnnouncedTab[k] = NULL <=> full_symbol_tab[k] = NULL
              /\ full_symbol_tab[k] # NULL =>
                   /\ full_symbol_tab[k] \in FullSymbols
                   /\ AnnouncedTab[k] = Announced(full_symbol_tab[k])
<1>1. P!Slots = S!Slots
  BY DEF P!Slots, S!Slots
<1>2. \A k \in S!Slots :
         /\ full_symbol_tab[k] \in FullSymbols \union {NULL}
         /\ AnnouncedTab[k] = IF full_symbol_tab[k] = NULL THEN NULL
                              ELSE Announced(full_symbol_tab[k])
  BY DEF SymbolsTyped, AnnouncedTab, S!Slots
<1>3. \A k \in S!Slots :
         /\ AnnouncedTab[k] = NULL <=> full_symbol_tab[k] = NULL
         /\ full_symbol_tab[k] # NULL =>
              /\ full_symbol_tab[k] \in FullSymbols
              /\ AnnouncedTab[k] = Announced(full_symbol_tab[k])
  BY <1>2, AnnouncedOps
<1>4. P!Rows = S!Rows
  BY <1>1, <1>3 DEF P!Rows, S!Rows
<1>5. QED
  BY <1>1, <1>3, <1>4

LEMMA AnnouncedPivot ==
  ASSUME SystemInv, NEW id \in Nat
  PROVE  /\ P!full_symbol_set_get_pivot(id) = NULL <=> S!full_symbol_set_get_pivot(id) = NULL
         /\ S!full_symbol_set_get_pivot(id) # NULL =>
              /\ S!full_symbol_set_get_pivot(id) \in FullSymbols
              /\ P!full_symbol_set_get_pivot(id) = Announced(S!full_symbol_set_get_pivot(id))
<1>1. CASE id >= first_symbol_id /\ id < (size + first_symbol_id) % IdSpan
  <2>1. /\ S!full_symbol_set_get_pivot(id) = full_symbol_tab[id - first_symbol_id]
        /\ P!full_symbol_set_get_pivot(id) = AnnouncedTab[id - first_symbol_id]
    BY <1>1 DEF S!full_symbol_set_get_pivot, P!full_symbol_set_get_pivot
  <2>2. (size + first_symbol_id) % IdSpan <= size + first_symbol_id
    BY SharedTypes DEF SystemInv
  <2>3. id - first_symbol_id \in S!Slots
    BY <1>1, <2>2, SharedTypes DEF SystemInv, S!Slots
  <2>4. QED
    BY <2>1, <2>3, AnnouncedRows DEF SystemInv
<1>2. CASE ~(id >= first_symbol_id /\ id < (size + first_symbol_id) % IdSpan)
  BY <1>2 DEF S!full_symbol_set_get_pivot, P!full_symbol_set_get_pivot
<1>3. QED
  BY <1>1, <1>2

(* A step that leaves the table alone leaves the announced one alone.      *)
LEMMA TableSame ==
  ASSUME UNCHANGED <<size, full_symbol_tab>>
  PROVE  AnnouncedTab' = AnnouncedTab
BY DEF AnnouncedTab

-------------------------------------------------------------------------------
(* Every step of the system is a step of the announced one.                *)
LEMMA AddWithEliminationSim ==
  ASSUME SystemInv, NEW s \in FullSymbols, S!AddWithElimination(s)
  PROVE  /\ P!AddWithElimination(P!Honest(s.coef)) /\ SymbolsTyped'
         /\ [P!Next]_(P!vars)
         /\ pc' # pc => pc = "idle" /\ pc' = "remove"
<1>1. P!Honest(s.coef) = Announced(s) /\ Announced(s).coef = s.coef /\ s.coef \in Vector
  BY DEF P!Honest, Announced, FullSymbols
<1>2. CASE full_symbol_is_zero(s)
  <2>1. UNCHANGED S!vars
    BY <1>2, SystemOperators, SharedTypes DEF S!AddWithElimination
  <2>2. UNCHANGED P!vars
    BY <2>1, TableSame DEF S!vars, S!set, S!application, P!vars, P!set,
       P!application, Announced
  <2>3. P!AddWithElimination(P!Honest(s.coef))
    BY <1>1, <1>2, <2>2, SystemOperators, AnnouncedOps
       DEF P!AddWithElimination, S!AddWithElimination
  <2>4. QED
    BY <2>1, <2>2, <2>3 DEF SystemInv, SymbolsTyped, S!vars, S!set
<1>3. CASE ~full_symbol_is_zero(s)
  <2>1. /\ pc = "idle" /\ pc' = "remove"
        /\ new_symbol1' = s /\ new_symbol' = full_symbol_clone(s)
        /\ i' = first_nonzero_id(s) /\ is_zero' = TRUE
        /\ known' = SpanWith(known, s.coef)
        /\ UNCHANGED <<size, first_symbol_id, full_symbol_tab, notified, lent, dropped>>
    BY <1>3, SystemOperators DEF S!AddWithElimination, S!set, S!application
  <2>2. P!AddWithElimination(Announced(s))
    BY <1>1, <1>3, <2>1, SystemOperators, AnnouncedOps, TableSame
       DEF P!AddWithElimination, P!set, P!application
  <2>3. P!Next
    BY <1>1, <2>2, SystemOperators DEF P!Next
  <2>4. SymbolsTyped'
    BY <2>1, CloneCoef DEF SystemInv, SymbolsTyped
  <2>5. QED
    BY <1>1, <2>1, <2>2, <2>3, <2>4
<1>4. QED
  BY <1>2, <1>3

LEMMA RemovePivotSim ==
  ASSUME SystemInv, S!RemovePivot
  PROVE  P!RemovePivot /\ SymbolsTyped'
<1> DEFINE coef  == new_symbol.coef[i]
           pivot == S!full_symbol_set_get_pivot(i)
           sum   == full_symbol_add(new_symbol, full_symbol_scale(pivot, coef))
<1>1. new_symbol \in FullSymbols /\ i \in Nat
  BY SharedTypes DEF SystemInv, SymbolsTyped
<1>2. /\ pc = "remove" /\ i <= last_nonzero_id(new_symbol) /\ i' = i + 1
      /\ UNCHANGED <<size, first_symbol_id, full_symbol_tab, pc, new_symbol1,
                     notified, lent, known, dropped>>
      /\ \/ coef = Zero /\ UNCHANGED <<new_symbol, is_zero>>
         \/ coef # Zero /\ pivot = NULL /\ is_zero' = FALSE /\ UNCHANGED new_symbol
         \/ /\ coef # Zero /\ pivot # NULL
            /\ new_symbol' = IF full_symbol_is_zero(sum) THEN new_symbol ELSE sum
            /\ UNCHANGED is_zero
  BY SystemOperators DEF S!RemovePivot, S!set, S!application, full_symbol_get_coef
<1>3. coef \in F
  <2>1. ~full_symbol_is_zero(Announced(new_symbol))
    BY <1>2, SystemOperators DEF SystemInv, P!IInv, P!Removing
  <2>2. last_nonzero_id(new_symbol) \in Ids
    BY <1>1, <2>1, AnnouncedOps, NonzeroRange
  <2>3. i \in Ids
    BY <1>1, <1>2, <2>2, MaxIdAssumption DEF Ids
  <2>4. QED
    BY <1>1, <2>3 DEF FullSymbols, Vector
<1>4. /\ P!full_symbol_get_coef(Announced(new_symbol), i) = coef
      /\ last_nonzero_id(Announced(new_symbol)) = last_nonzero_id(new_symbol)
  BY <1>1, SystemOperators, AnnouncedOps DEF full_symbol_get_coef, Announced
<1>5. ASSUME pivot # NULL
      PROVE  /\ sum \in FullSymbols
             /\ P!full_symbol_add(Announced(new_symbol),
                   P!full_symbol_scale(P!full_symbol_set_get_pivot(i), coef))
                  = Announced(sum)
             /\ full_symbol_is_zero(Announced(sum)) <=> full_symbol_is_zero(sum)
  <2>1. pivot \in FullSymbols /\ P!full_symbol_set_get_pivot(i) = Announced(pivot)
    BY <1>1, <1>5, AnnouncedPivot
  <2>2. full_symbol_scale(pivot, coef) \in FullSymbols
    BY <1>3, <2>1, ScaleCoef
  <2>3. sum \in FullSymbols
    BY <1>1, <2>2, AddCoef
  <2>4. full_symbol_scale(Announced(pivot), coef) = Announced(full_symbol_scale(pivot, coef))
    BY <1>3, <2>1, AnnouncedOps
  <2>5. full_symbol_add(Announced(new_symbol), Announced(full_symbol_scale(pivot, coef)))
          = Announced(sum)
    BY <1>1, <2>2, AnnouncedOps
  <2>6. QED
    BY <2>1, <2>3, <2>4, <2>5, SystemOperators, AnnouncedOps
<1>6. pivot = NULL <=> P!full_symbol_set_get_pivot(i) = NULL
  BY <1>1, AnnouncedPivot
<1>7. P!RemovePivot
  <2>1. AnnouncedTab' = AnnouncedTab
    BY <1>2, TableSame
  <2>2. UNCHANGED <<size, first_symbol_id, AnnouncedTab, pc, Announced(new_symbol1),
                    notified, lent, known, dropped>>
    BY <1>2, <2>1 DEF Announced
  <2>3. CASE coef = Zero
    BY <1>2, <1>4, <2>2, <2>3, SystemOperators
       DEF P!RemovePivot, P!set, P!application, Announced
  <2>4. CASE coef # Zero /\ pivot = NULL
    BY <1>2, <1>4, <1>6, <2>2, <2>4, SystemOperators
       DEF P!RemovePivot, P!set, P!application, Announced
  <2>5. CASE coef # Zero /\ pivot # NULL
    <3>1. Announced(new_symbol)'
            = IF full_symbol_is_zero(Announced(sum)) THEN Announced(new_symbol)
              ELSE Announced(sum)
      BY <1>2, <1>5, <2>5 DEF Announced
    <3>2. QED
      BY <1>2, <1>4, <1>5, <1>6, <2>2, <2>5, <3>1, SystemOperators
         DEF P!RemovePivot, P!set, P!application
  <2>6. QED
    BY <2>3, <2>4, <2>5
<1>8. SymbolsTyped'
  BY <1>1, <1>2, <1>5 DEF SystemInv, SymbolsTyped
<1>9. QED
  BY <1>7, <1>8

LEMMA RedundantSim ==
  ASSUME SystemInv, S!Redundant
  PROVE  P!Redundant /\ SymbolsTyped'
<1>1. /\ pc = "remove" /\ i > last_nonzero_id(new_symbol) /\ is_zero
      /\ pc' = "idle" /\ new_symbol1' = ZeroSymbol /\ new_symbol' = ZeroSymbol
      /\ i' = 0 /\ is_zero' = TRUE
      /\ UNCHANGED <<size, first_symbol_id, full_symbol_tab, notified, lent, known, dropped>>
  BY SystemOperators DEF S!Redundant, S!Return, S!set, S!application
<1>2. Announced(ZeroSymbol) = ZeroSymbol /\ ZeroSymbol \in FullSymbols
  BY VectorOps DEF Announced, ZeroSymbol, FullSymbols
<1>3. last_nonzero_id(Announced(new_symbol)) = last_nonzero_id(new_symbol)
  BY AnnouncedOps DEF SystemInv, SymbolsTyped
<1>4. P!Redundant
  <2>1. Announced(new_symbol1)' = ZeroSymbol /\ Announced(new_symbol)' = ZeroSymbol
    BY <1>1, <1>2 DEF Announced
  <2>2. QED
    BY <1>1, <1>3, <2>1, SystemOperators, TableSame
       DEF P!Redundant, P!Return, P!set, P!application
<1>5. QED
  BY <1>1, <1>2, <1>4 DEF SystemInv, SymbolsTyped

LEMMA AddAsPivotSim ==
  ASSUME SystemInv, S!AddAsPivot
  PROVE  P!AddAsPivot /\ SymbolsTyped'
<1> DEFINE scaled == full_symbol_scale(new_symbol,
                       gf256_inv(new_symbol.coef[first_nonzero_id(new_symbol)]))
<1>1. /\ pc = "remove" /\ i > last_nonzero_id(new_symbol) /\ ~is_zero
      /\ pc' = "pivot" /\ i' = 0 /\ new_symbol' = scaled
      /\ UNCHANGED <<size, first_symbol_id, full_symbol_tab, new_symbol1, is_zero,
                     notified, lent, known, dropped>>
  BY SystemOperators DEF S!AddAsPivot, S!Normalized, S!set, S!application,
     full_symbol_get_coef
<1>2. new_symbol \in FullSymbols
  BY DEF SystemInv, SymbolsTyped
<1>3. gf256_inv(new_symbol.coef[first_nonzero_id(new_symbol)]) \in F
  <2>1. ~full_symbol_is_zero(new_symbol)
    BY <1>1, <1>2, SystemOperators, AnnouncedOps DEF SystemInv, P!IInv, P!Removing
  <2>2. new_symbol.coef[first_nonzero_id(new_symbol)] \in F \ {Zero}
    BY <1>2, <2>1, NonzeroRange DEF FullSymbols, Vector
  <2>3. QED
    BY <2>2, InvNonzero
<1>4. scaled \in FullSymbols
      /\ P!Normalized(Announced(new_symbol)) = Announced(scaled)
  <2>1. P!Normalized(Announced(new_symbol))
          = full_symbol_scale(Announced(new_symbol),
              gf256_inv(new_symbol.coef[first_nonzero_id(new_symbol)]))
    BY <1>2, SystemOperators, AnnouncedOps
       DEF P!Normalized, full_symbol_get_coef, Announced
  <2>2. QED
    BY <1>2, <1>3, <2>1, AnnouncedOps, ScaleCoef
<1>5. P!AddAsPivot
  <2>1. Announced(new_symbol)' = Announced(scaled)
        /\ Announced(new_symbol1)' = Announced(new_symbol1)
    BY <1>1 DEF Announced
  <2>2. last_nonzero_id(Announced(new_symbol)) = last_nonzero_id(new_symbol)
    BY <1>2, AnnouncedOps
  <2>3. QED
    BY <1>1, <1>4, <2>1, <2>2, SystemOperators, TableSame
       DEF P!AddAsPivot, P!set, P!application
<1>6. QED
  BY <1>1, <1>4, <1>5 DEF SystemInv, SymbolsTyped

LEMMA EliminateRowSim ==
  ASSUME SystemInv, S!EliminateRow
  PROVE  P!EliminateRow /\ SymbolsTyped'
<1> DEFINE row == full_symbol_tab[i]
           coef == row.coef[first_nonzero_id(new_symbol)]
           sum == full_symbol_add(row, full_symbol_scale(new_symbol, coef))
           si == first_nonzero_id(sum)
           newly == ~full_symbol_has_one_id(row) /\ full_symbol_has_one_id(sum)
<1>1. /\ pc = "pivot" /\ i < size /\ i' = i + 1
      /\ UNCHANGED <<size, first_symbol_id, pc, new_symbol1, new_symbol, is_zero,
                     known, dropped>>
      /\ \/ row = NULL /\ UNCHANGED <<full_symbol_tab, notified, lent>>
         \/ /\ row # NULL
            /\ full_symbol_tab' = [full_symbol_tab EXCEPT ![i] = sum]
            /\ IF newly
               THEN /\ notified' = [notified EXCEPT ![si] = @ + 1]
                    /\ lent' = (lent \ {first_symbol_id + i}) \union {si}
               ELSE /\ lent' = lent \ {first_symbol_id + i}
                    /\ UNCHANGED notified
  BY SystemOperators DEF S!EliminateRow, S!NewlySolved, S!set, S!application,
     full_symbol_get_coef
<1>2. new_symbol \in FullSymbols /\ i \in S!Slots /\ i \in 0 .. size - 1
  BY <1>1, SharedTypes DEF SystemInv, SymbolsTyped, S!Slots
<1>3. AnnouncedTab[i] = NULL <=> row = NULL
  BY <1>2, AnnouncedRows DEF SystemInv
<1>4. ASSUME row # NULL
      PROVE  /\ row \in FullSymbols /\ sum \in FullSymbols
             /\ AnnouncedTab[i] = Announced(row)
             /\ P!full_symbol_get_coef(Announced(row),
                   P!first_nonzero_id(Announced(new_symbol))) = coef
             /\ P!full_symbol_add(Announced(row),
                   P!full_symbol_scale(Announced(new_symbol), coef)) = Announced(sum)
             /\ P!first_nonzero_id(Announced(sum)) = si
             /\ P!NewlySolved(Announced(row), Announced(sum)) <=> newly
  <2>1. row \in FullSymbols /\ AnnouncedTab[i] = Announced(row)
    BY <1>2, <1>4, AnnouncedRows DEF SystemInv
  <2>2. coef \in F
    <3>1. ~full_symbol_is_zero(new_symbol)
      BY <1>1, <1>2, SystemOperators, AnnouncedOps DEF SystemInv, P!IInv, P!Pivoting
    <3>2. QED
      BY <1>2, <2>1, <3>1, NonzeroRange DEF FullSymbols, Vector
  <2>3. /\ full_symbol_scale(new_symbol, coef) \in FullSymbols
        /\ full_symbol_scale(Announced(new_symbol), coef)
             = Announced(full_symbol_scale(new_symbol, coef))
    BY <1>2, <2>2, ScaleCoef, AnnouncedOps
  <2>4. /\ sum \in FullSymbols
        /\ full_symbol_add(Announced(row), Announced(full_symbol_scale(new_symbol, coef)))
             = Announced(sum)
    BY <2>1, <2>3, AddCoef, AnnouncedOps
  <2>5. P!full_symbol_get_coef(Announced(row), P!first_nonzero_id(Announced(new_symbol))) = coef
    BY <1>2, SystemOperators, AnnouncedOps DEF full_symbol_get_coef, Announced
  <2>6. P!NewlySolved(Announced(row), Announced(sum)) <=> newly
    BY <2>1, <2>4, SystemOperators, AnnouncedOps DEF P!NewlySolved
  <2>7. P!first_nonzero_id(Announced(sum)) = si
    BY <2>4, SystemOperators, AnnouncedOps
  <2>8. QED
    BY <2>1, <2>3, <2>4, <2>5, <2>6, <2>7, SystemOperators
<1>5. UNCHANGED <<Announced(new_symbol1), Announced(new_symbol)>>
  BY <1>1 DEF Announced
<1>6. CASE row = NULL
  <2>1. P!EliminateRow
    BY <1>1, <1>3, <1>5, <1>6, TableSame DEF P!EliminateRow, P!set, P!application
  <2>2. QED
    BY <1>1, <1>6, <2>1 DEF SystemInv, SymbolsTyped
<1>7. CASE row # NULL
  <2>1. full_symbol_tab' \in [0 .. size - 1 -> FullSymbols \union {NULL}]
    BY <1>1, <1>4, <1>7 DEF SystemInv, SymbolsTyped
  <2>2. AnnouncedTab' = [AnnouncedTab EXCEPT ![i] = Announced(sum)]
    <3>1. \A k \in 0 .. size - 1 :
            full_symbol_tab'[k] = IF k = i THEN sum ELSE full_symbol_tab[k]
      BY <1>1, <1>2, <1>7 DEF SystemInv, SymbolsTyped
    <3>2. sum # NULL
      BY <1>4, <1>7, AnnouncedOps
    <3>3. AnnouncedTab' = [k \in 0 .. size - 1 |->
            IF full_symbol_tab'[k] = NULL THEN NULL ELSE Announced(full_symbol_tab'[k])]
      BY <1>1 DEF AnnouncedTab, Announced
    <3>4. AnnouncedTab' = [k \in 0 .. size - 1 |->
            IF k = i THEN Announced(sum) ELSE AnnouncedTab[k]]
      BY <3>1, <3>2, <3>3 DEF AnnouncedTab
    <3>5. QED
      BY <3>4 DEF AnnouncedTab
  <2>3. P!EliminateRow
    BY <1>1, <1>3, <1>4, <1>5, <1>7, <2>2 DEF P!EliminateRow, P!set, P!application
  <2>4. QED
    BY <1>1, <2>1, <2>3 DEF SystemInv, SymbolsTyped
<1>8. QED
  BY <1>6, <1>7

(* The stores agree on the slot, on the growth and on the callback.        *)
LEMMA AnnouncedStore ==
  ASSUME SystemInv
  PROVE  /\ P!NewId = S!NewId /\ P!SetId = S!SetId
         /\ \A d : P!GrownSize(d) = S!GrownSize(d)
         /\ P!Storing <=> S!Storing
         /\ P!NotifyStored <=> S!NotifyStored
<1>1. new_symbol \in FullSymbols /\ new_symbol1 \in FullSymbols
  BY DEF SystemInv, SymbolsTyped
<1>2. P!NewId = S!NewId
  BY <1>1, SystemOperators, AnnouncedOps DEF P!NewId, S!NewId
<1>3. P!SetId = S!SetId
  BY <1>2, SystemOperators DEF P!SetId, S!SetId
<1>4. \A d : P!GrownSize(d) = S!GrownSize(d)
  BY DEF P!GrownSize, S!GrownSize
<1>5. P!Storing <=> S!Storing
  BY DEF P!Storing, S!Storing
<1>6. P!NotifyStored <=> S!NotifyStored
  BY <1>1, <1>2, SystemOperators, AnnouncedOps
     DEF P!NotifyStored, S!NotifyStored, P!application, S!application
<1>7. QED
  BY <1>2, <1>3, <1>4, <1>5, <1>6

(* The identifiers a store computes with are naturals.                     *)
LEMMA StoreTypes ==
  ASSUME SystemInv, S!Storing
  PROVE  /\ S!NewId \in Nat /\ S!SetId \in Nat
         /\ \A d \in Nat : S!GrownSize(d) \in Nat /\ S!GrownSize(d) > d
                          /\ S!GrownSize(d) >= size
<1>1. new_symbol \in FullSymbols /\ ~full_symbol_is_zero(new_symbol)
  BY SystemOperators, AnnouncedOps
     DEF SystemInv, SymbolsTyped, S!Storing, P!IInv, P!Pivoting
<1>2. S!NewId \in Ids
  BY <1>1, NonzeroRange, SystemOperators DEF S!NewId
<1>3. S!NewId \in Nat
  BY <1>2, MaxIdAssumption DEF Ids
<1>4. S!SetId \in Nat
  BY <1>3, SharedTypes DEF S!SetId, SystemInv
<1>5. \A d \in Nat : S!GrownSize(d) \in Nat /\ S!GrownSize(d) > d /\ S!GrownSize(d) >= size
  BY SharedTypes DEF S!GrownSize, SystemInv
<1>6. QED
  BY <1>3, <1>4, <1>5

(* Return empties the symbols in hand, announced or not.                   *)
LEMMA ReturnSim ==
  ASSUME S!Return
  PROVE  P!Return /\ new_symbol1' \in FullSymbols /\ new_symbol' \in FullSymbols
<1>1. Announced(ZeroSymbol) = ZeroSymbol /\ ZeroSymbol \in FullSymbols
  BY VectorOps DEF Announced, ZeroSymbol, FullSymbols
<1>2. new_symbol1' = ZeroSymbol /\ new_symbol' = ZeroSymbol
  BY SystemOperators DEF S!Return
<1>3. Announced(new_symbol1)' = ZeroSymbol /\ Announced(new_symbol)' = ZeroSymbol
  BY <1>1, <1>2 DEF Announced
<1>4. QED
  BY <1>1, <1>2, <1>3, SystemOperators DEF P!Return, S!Return

LEMMA StoreRightSim ==
  ASSUME SystemInv, S!StoreRight
  PROVE  P!StoreRight /\ SymbolsTyped'
<1> DEFINE pos == S!NewId - S!SetId
<1>1. /\ S!Storing /\ S!NewId >= S!SetId /\ first_symbol_id' = S!SetId
      /\ size' = S!GrownSize(pos)
      /\ full_symbol_tab' =
           [k \in 0 .. size' - 1 |->
              IF k = pos THEN new_symbol
              ELSE IF k < size THEN full_symbol_tab[k] ELSE NULL]
      /\ S!NotifyStored /\ S!Return /\ UNCHANGED <<known, dropped>>
  BY DEF S!StoreRight
<1>2. pos \in Nat /\ size' \in Nat /\ size \in Nat
  <2>1. S!NewId \in Nat /\ S!SetId \in Nat
    BY <1>1, StoreTypes
  <2>2. pos \in Nat
    BY <1>1, <2>1
  <2>3. S!GrownSize(pos) \in Nat
    BY <1>1, <2>2, StoreTypes
  <2>4. QED
    BY <1>1, <2>2, <2>3, SharedTypes DEF SystemInv
<1>3. new_symbol \in FullSymbols
  BY DEF SystemInv, SymbolsTyped
<1>4. full_symbol_tab' \in [0 .. size' - 1 -> FullSymbols \union {NULL}]
  BY <1>1, <1>2, <1>3 DEF SystemInv, SymbolsTyped
<1>5. AnnouncedTab' =
        [k \in 0 .. size' - 1 |->
           IF k = pos THEN Announced(new_symbol)
           ELSE IF k < size THEN AnnouncedTab[k] ELSE NULL]
  <2>1. AnnouncedTab' = [k \in 0 .. size' - 1 |->
          IF full_symbol_tab'[k] = NULL THEN NULL ELSE Announced(full_symbol_tab'[k])]
    BY DEF AnnouncedTab, Announced
  <2>2. new_symbol # NULL
    BY <1>3, AnnouncedOps
  <2>3. \A k \in 0 .. size' - 1 :
          (IF full_symbol_tab'[k] = NULL THEN NULL ELSE Announced(full_symbol_tab'[k]))
          = IF k = pos THEN Announced(new_symbol)
            ELSE IF k < size THEN AnnouncedTab[k] ELSE NULL
    BY <1>1, <1>2, <2>2 DEF AnnouncedTab
  <2>4. QED
    BY <2>1, <2>3
<1>6. P!StoreRight
  BY <1>1, <1>5, AnnouncedStore, ReturnSim DEF P!StoreRight
<1>7. QED
  BY <1>1, <1>4, <1>6, ReturnSim DEF SymbolsTyped

LEMMA StoreLeftSim ==
  ASSUME SystemInv, S!StoreLeft
  PROVE  P!StoreLeft /\ SymbolsTyped'
<1> DEFINE shift == S!SetId - S!NewId
           moved == {k \in S!Slots : k + shift < S!GrownSize(shift)}
<1>1. /\ S!Storing /\ S!NewId < S!SetId /\ first_symbol_id' = S!NewId
      /\ size' = S!GrownSize(shift)
      /\ full_symbol_tab' =
           [k \in 0 .. size' - 1 |->
              IF k = 0 THEN new_symbol
              ELSE IF k - shift \in moved THEN full_symbol_tab[k - shift] ELSE NULL]
      /\ dropped' = dropped \union
           {S!SetId + k : k \in {j \in S!Slots \ moved : full_symbol_tab[j] # NULL}}
      /\ S!NotifyStored /\ S!Return /\ UNCHANGED known
  BY DEF S!StoreLeft
<1>2. shift \in Nat /\ size' \in Nat /\ size \in Nat
  <2>1. S!NewId \in Nat /\ S!SetId \in Nat
    BY <1>1, StoreTypes
  <2>2. shift \in Nat
    BY <1>1, <2>1
  <2>3. S!GrownSize(shift) \in Nat
    BY <1>1, <2>2, StoreTypes
  <2>4. QED
    BY <1>1, <2>2, <2>3, SharedTypes DEF SystemInv
<1>3. new_symbol \in FullSymbols
  BY DEF SystemInv, SymbolsTyped
<1>4. full_symbol_tab' \in [0 .. size' - 1 -> FullSymbols \union {NULL}]
  BY <1>1, <1>2, <1>3 DEF SystemInv, SymbolsTyped, S!Slots
<1>5. AnnouncedTab' =
        [k \in 0 .. size' - 1 |->
           IF k = 0 THEN Announced(new_symbol)
           ELSE IF k - shift \in moved THEN AnnouncedTab[k - shift] ELSE NULL]
  <2>1. AnnouncedTab' = [k \in 0 .. size' - 1 |->
          IF full_symbol_tab'[k] = NULL THEN NULL ELSE Announced(full_symbol_tab'[k])]
    BY DEF AnnouncedTab, Announced
  <2>2. new_symbol # NULL
    BY <1>3, AnnouncedOps
  <2>3. \A j \in moved :
          AnnouncedTab[j] = IF full_symbol_tab[j] = NULL THEN NULL
                            ELSE Announced(full_symbol_tab[j])
    BY DEF AnnouncedTab, S!Slots
  <2>4. \A k \in 0 .. size' - 1 :
          (IF full_symbol_tab'[k] = NULL THEN NULL ELSE Announced(full_symbol_tab'[k]))
          = IF k = 0 THEN Announced(new_symbol)
            ELSE IF k - shift \in moved THEN AnnouncedTab[k - shift] ELSE NULL
    BY <1>1, <2>2, <2>3
  <2>5. QED
    BY <2>1, <2>4
<1>6. {j \in P!Slots \ moved : AnnouncedTab[j] # NULL}
        = {j \in S!Slots \ moved : full_symbol_tab[j] # NULL}
  BY AnnouncedRows DEF SystemInv
<1>7. P!StoreLeft
  <2>1. {k \in P!Slots : k + shift < P!GrownSize(shift)} = moved
    BY AnnouncedRows, AnnouncedStore DEF SystemInv
  <2>2. shift = P!SetId - P!NewId
    BY AnnouncedStore
  <2> HIDE DEF moved, shift
  <2>3. QED
    BY <1>1, <1>5, <1>6, <2>1, <2>2, AnnouncedStore, ReturnSim DEF P!StoreLeft
<1>8. QED
  BY <1>1, <1>4, <1>7, ReturnSim DEF SymbolsTyped

LEMMA OverflowSim ==
  ASSUME SystemInv, S!Overflow
  PROVE  P!Overflow /\ SymbolsTyped'
<1>1. UNCHANGED <<size, first_symbol_id, full_symbol_tab, new_symbol1, new_symbol>>
  BY DEF S!Overflow, S!set
<1>2. P!Overflow
  BY <1>1, AnnouncedStore, TableSame
     DEF S!Overflow, P!Overflow, S!set, P!set, S!application, P!application, Announced
<1>3. QED
  BY <1>1, <1>2 DEF SystemInv, SymbolsTyped

LEMMA StepSim ==
  ASSUME SystemInv, S!Step
  PROVE  P!Step /\ P!Next /\ SymbolsTyped'
<1>1. P!Step /\ SymbolsTyped'
  BY RemovePivotSim, RedundantSim, AddAsPivotSim, EliminateRowSim, StoreRightSim,
     StoreLeftSim, OverflowSim DEF S!Step, P!Step
<1>2. QED
  BY <1>1 DEF P!Next

-------------------------------------------------------------------------------
(* The headers the decoder builds have their coefficients in the field.    *)
LEMMA HeaderTypes == Headers \subseteq Vector
BY DEF Headers

LEMMA InitSystem ==
  ASSUME Init
  PROVE  SystemInv
<1>1. S!Init
  BY DEF Init
<1>2. Announced(ZeroSymbol) = ZeroSymbol /\ ZeroSymbol \in FullSymbols
  BY VectorOps DEF Announced, ZeroSymbol, FullSymbols
<1>3. SymbolsTyped
  BY <1>1, <1>2, SystemOperators DEF S!Init, SymbolsTyped, S!Slots
<1>4. P!Init
  <2>1. AnnouncedTab = [k \in 0 .. size - 1 |-> NULL]
    BY <1>1 DEF S!Init, AnnouncedTab, S!Slots
  <2>2. QED
    BY <1>1, <1>2, <2>1, SystemOperators DEF S!Init, P!Init, P!Slots
<1>5. NULL \notin P!FullSymbols
  BY SystemOperators, SystemAssumption
<1>6. P!IInv
  BY <1>4, <1>5, P!InitInv, FieldAssumption, MaxIdAssumption, IdSpanAssumption,
     SystemAssumption
<1>7. QED
  BY <1>3, <1>6 DEF SystemInv

(* Whatever the application calls, the announced system takes a step of    *)
(* its own or none.                                                        *)
LEMMA NextSim ==
  ASSUME SystemInv, [Next]_vars
  PROVE  [P!Next]_(P!vars) /\ SymbolsTyped'
<1>1. ASSUME UNCHANGED system PROVE [P!Next]_(P!vars) /\ SymbolsTyped'
  BY <1>1, TableSame DEF SystemInv, SymbolsTyped, system, P!vars, P!set,
     P!application, Announced
<1>2. ASSUME NEW esi \in Ids, DecodeWithNewSourceSymbol(esi, UnitVector(esi))
      PROVE  [P!Next]_(P!vars) /\ SymbolsTyped'
  <2>1. full_symbol_create_from_source(esi, UnitVector(esi)) \in FullSymbols
    BY FieldAssumption DEF full_symbol_create_from_source, FullSymbols, Vector, UnitVector
  <2>2. QED
    BY <1>2, <2>1, AddWithEliminationSim DEF DecodeWithNewSourceSymbol
<1>3. ASSUME NEW data \in Vector, DecodeWithNewRepairSymbol(data)
      PROVE  [P!Next]_(P!vars) /\ SymbolsTyped'
  <2>1. CASE UNCHANGED system
    BY <1>1, <2>1
  <2>2. ASSUME NEW header \in Headers,
               S!AddWithElimination([coef |-> header, data |-> data])
        PROVE  [P!Next]_(P!vars) /\ SymbolsTyped'
    <3>1. [coef |-> header, data |-> data] \in FullSymbols
      BY HeaderTypes DEF FullSymbols
    <3>2. QED
      BY <2>2, <3>1, AddWithEliminationSim
  <2>3. QED
    BY <1>3, <2>1, <2>2 DEF DecodeWithNewRepairSymbol
<1>4. ASSUME SystemStep PROVE [P!Next]_(P!vars) /\ SymbolsTyped'
  BY <1>4, StepSim DEF SystemStep
<1>5. QED
  BY <1>1, <1>2, <1>3, <1>4 DEF Next, vars, ResetCodingWindow, AddSourceSymbol,
     GenerateCodingCoefs

LEMMA SystemInvariance ==
  ASSUME S!NoWrap
  PROVE  Spec => []SystemInv
<1>1. P!NoWrap
  BY DEF S!NoWrap, P!NoWrap
<1>2. NULL \notin P!FullSymbols
  BY SystemOperators, SystemAssumption
<1>3. P!IInv /\ [P!Next]_(P!vars) => P!IInv'
  BY <1>1, <1>2, P!NextInv, FieldAssumption, MaxIdAssumption, IdSpanAssumption,
     SystemAssumption
<1>4. Init => SystemInv
  BY InitSystem
<1>5. SystemInv /\ [Next]_vars => SystemInv'
  BY <1>3, NextSim DEF SystemInv
<1>6. QED
  BY <1>4, <1>5, PTL DEF Spec

(* Whatever the application calls, swif_decode_with_new_repair_symbol      *)
(* leaves the table of the linear system in reduced echelon form: a header *)
(* that is not the one its payload was computed with spoils payloads only. *)
THEOREM EchelonWhateverIsCalled ==
  ASSUME S!NoWrap
  PROVE  Spec => []EchelonForAnyCalls
<1>1. SystemInv => EchelonForAnyCalls
  <2> SUFFICES ASSUME SystemInv, pc = "idle", NEW k \in S!Rows
               PROVE  /\ S!PivotOf(k) \in Ids
                      /\ full_symbol_tab[k].coef[S!PivotOf(k)] = One
                      /\ \A c \in Ids : c < S!PivotOf(k) => full_symbol_tab[k].coef[c] = Zero
                      /\ \A j \in S!Rows \ {k} : full_symbol_tab[j].coef[S!PivotOf(k)] = Zero
    BY SystemOperators DEF EchelonForAnyCalls, S!ReducedEchelon
  <2>1. P!IInv /\ SymbolsTyped /\ k \in P!Rows /\ P!PivotOf(k) = S!PivotOf(k)
    BY AnnouncedRows DEF SystemInv, P!PivotOf, S!PivotOf
  <2>2. \A j \in S!Rows : j \in P!Rows /\ AnnouncedTab[j].coef = full_symbol_tab[j].coef
    <3>1. \A j \in S!Rows : j \in P!Rows /\ AnnouncedTab[j] = Announced(full_symbol_tab[j])
      BY AnnouncedRows DEF SystemInv, S!Rows
    <3>2. \A s : Announced(s).coef = s.coef
      BY DEF Announced
    <3>3. QED
      BY <3>1, <3>2
  <2>3. P!EchelonRow(k) /\ P!PivotOf(k) \in P!Ids
    BY <2>1 DEF P!IInv, P!RowsEchelon, P!Vanished
  <2>4. \A j \in P!Rows \ {k} : AnnouncedTab[j].coef[P!PivotOf(k)] = Zero
    BY <2>1 DEF P!IInv, P!ColumnsClear
  <2>5. QED
    BY <2>1, <2>2, <2>3, <2>4, SystemOperators DEF P!EchelonRow
<1>2. QED
  BY <1>1, SystemInvariance, PTL

-------------------------------------------------------------------------------
(***************************************************************************)
(* What the theorems about the linear system say of the decoder, whatever  *)
(* is submitted to it: they speak of headers, so the announced system may  *)
(* stand for the real one.                                                 *)
(***************************************************************************)
LEMMA AnnouncedAssumed ==
  /\ NULL \notin P!FullSymbols
  /\ S!NoWrap => P!NoWrap
BY SystemOperators, SystemAssumption DEF S!NoWrap, P!NoWrap

LEMMA AnnouncedInit ==
  ASSUME Init
  PROVE  SystemInv /\ P!CompleteInv
<1>1. P!CompleteInv
  BY SystemOperators DEF Init, S!Init, P!CompleteInv
<1>2. QED
  BY <1>1, InitSystem

LEMMA AnnouncedNext ==
  ASSUME S!NoWrap, SystemInv, P!CompleteInv, [Next]_vars
  PROVE  SystemInv' /\ P!CompleteInv' /\ [P!Next]_(P!vars)
<1>1. [P!Next]_(P!vars) /\ SymbolsTyped' /\ P!IInv
  BY NextSim DEF SystemInv
<1>2. P!IInv /\ [P!Next]_(P!vars) => P!IInv'
  BY AnnouncedAssumed, P!NextInv, FieldAssumption, MaxIdAssumption, IdSpanAssumption,
     SystemAssumption
<1>3. P!IInv /\ P!CompleteInv /\ [P!Next]_(P!vars) => P!CompleteInv'
  BY AnnouncedAssumed, P!CompleteNext, FieldAssumption, MaxIdAssumption,
     IdSpanAssumption, SystemAssumption
<1>4. QED
  BY <1>1, <1>2, <1>3 DEF SystemInv

(* What was learnt or lost stays so.                                       *)
LEMMA AnnouncedHistory ==
  ASSUME SystemInv, [P!Next]_(P!vars)
  PROVE  /\ known \subseteq known' /\ dropped \subseteq dropped'
         /\ pc = "crashed" => pc' = "crashed"
<1>1. P!IInv
  BY DEF SystemInv
<1>2. known \subseteq known'
  BY <1>1, AnnouncedAssumed, P!KnownGrows, FieldAssumption, MaxIdAssumption,
     IdSpanAssumption, SystemAssumption
<1>3. dropped \subseteq dropped' /\ (pc = "crashed" => pc' = "crashed")
  BY AnnouncedAssumed, P!HistoryGrows, FieldAssumption, MaxIdAssumption,
     IdSpanAssumption, SystemAssumption
<1>4. QED
  BY <1>2, <1>3

(* The application is told of what the packets determine.                  *)
LEMMA AnnouncedTold ==
  ASSUME S!NoWrap, SystemInv, P!Next, NEW id \in Ids, notified'[id] # notified[id]
  PROVE  UnitVector(id) \in known'
<1>1. P!IInv /\ id \in P!Ids /\ P!UnitVector(id) = UnitVector(id)
  BY SystemOperators DEF SystemInv, P!UnitVector, UnitVector
<1>2. P!UnitVector(id) \in known'
  BY <1>1, AnnouncedAssumed, P!ToldIsKnown, FieldAssumption, MaxIdAssumption,
     IdSpanAssumption, SystemAssumption
<1>3. QED
  BY <1>1, <1>2

(* A source symbol that nothing spoke of before.                           *)
LEMMA AnnouncedStarts ==
  ASSUME SystemInv, NEW id \in Ids, NEW s \in FullSymbols, s.coef = UnitVector(id),
         S!AddWithElimination(s), \A v \in known : v[id] = Zero
  PROVE  P!UnitInHand(id)'
<1>1. P!IInv /\ id \in P!Ids /\ P!UnitVector(id) = UnitVector(id)
  BY SystemOperators DEF SystemInv, P!UnitVector, UnitVector
<1>2. P!AddWithElimination(P!Honest(P!UnitVector(id)))
  BY <1>1, AddWithEliminationSim
<1>3. QED
  BY <1>1, <1>2, AnnouncedAssumed, P!UnitStarts, FieldAssumption, MaxIdAssumption,
     IdSpanAssumption, SystemAssumption

(* Once it arrived, the application is never told of it.                   *)
LEMMA AnnouncedSettled ==
  ASSUME S!NoWrap, SystemInv, P!Step, pc' # "crashed", NEW id \in Ids,
         id \notin dropped', P!Settled(id)
  PROVE  P!Settled(id)' /\ notified'[id] = notified[id]
<1>1. P!IInv /\ id \in P!Ids /\ P!Next
  BY SystemOperators DEF SystemInv, P!Next
<1>2. CASE P!UnitRow(id)
  <2>1. P!UnitRow(id)' /\ notified'[id] = notified[id]
    BY <1>1, <1>2, AnnouncedAssumed, P!SolvedStays, FieldAssumption, MaxIdAssumption,
       IdSpanAssumption, SystemAssumption
  <2>2. QED
    BY <2>1 DEF P!Settled
<1>3. CASE P!UnitInHand(id)
  BY <1>1, <1>3, AnnouncedAssumed, P!UnitPasses, FieldAssumption, MaxIdAssumption,
     IdSpanAssumption, SystemAssumption
<1>4. QED
  BY <1>2, <1>3 DEF P!Settled

(* What is in hand stays in hand until the call returns.                   *)
LEMMA AnnouncedInHand ==
  ASSUME S!NoWrap, SystemInv, P!Step, pc' \in {"remove", "pivot"}
  PROVE  /\ pc \in {"remove", "pivot"} /\ UNCHANGED Announced(new_symbol1)
         /\ \A id \in Ids : P!UnitInHand(id) => P!UnitInHand(id)'
<1>1. P!IInv /\ P!Next
  BY DEF SystemInv, P!Next
<1>2. pc \in {"remove", "pivot"} /\ UNCHANGED Announced(new_symbol1)
  BY AnnouncedAssumed, P!ArgumentStays, FieldAssumption, MaxIdAssumption,
     IdSpanAssumption, SystemAssumption
<1>3. ASSUME NEW id \in P!Ids, P!UnitInHand(id) PROVE P!UnitInHand(id)'
  BY <1>1, <1>3, AnnouncedAssumed, P!UnitPasses, FieldAssumption, MaxIdAssumption,
     IdSpanAssumption, SystemAssumption
<1>4. QED
  BY <1>2, <1>3, SystemOperators

(* An identifier solved is notified in the same step, or the symbol        *)
(* submitted had a single coefficient.                                     *)
LEMMA AnnouncedSolved ==
  ASSUME S!NoWrap, SystemInv, P!Step, pc' # "crashed", NEW id \in P!Decoded' \ P!Decoded
  PROVE  /\ pc \in {"remove", "pivot"}
         /\ P!full_symbol_has_one_id(Announced(new_symbol1)) \/ notified'[id] > notified[id]
         /\ \A other \in Ids : P!UnitInHand(other) => id = other
<1>1. P!IInv /\ P!Next
  BY DEF SystemInv, P!Next
<1>2. pc \in {"remove", "pivot"}
  BY DEF P!Step, P!RemovePivot, P!Redundant, P!AddAsPivot, P!EliminateRow,
     P!StoreRight, P!StoreLeft, P!Overflow, P!Storing
<1>3. P!full_symbol_has_one_id(Announced(new_symbol1)) \/ notified'[id] > notified[id]
  BY <1>1, AnnouncedAssumed, P!SolvedStep, FieldAssumption, MaxIdAssumption,
     IdSpanAssumption, SystemAssumption
<1>4. ASSUME NEW other \in P!Ids, P!UnitInHand(other) PROVE id = other
  BY <1>1, <1>4, AnnouncedAssumed, P!UnitSolvesItself, FieldAssumption,
     MaxIdAssumption, IdSpanAssumption, SystemAssumption
<1>5. QED
  BY <1>2, <1>3, <1>4, SystemOperators

(* Between two calls, what the packets determine has a solved row.         *)
LEMMA AnnouncedDetermined ==
  ASSUME SystemInv, P!CompleteInv, pc = "idle", dropped = {}, NEW id \in Ids,
         UnitVector(id) \in known
  PROVE  id \in P!Decoded
<1>1. P!IInv /\ id \in P!Ids /\ P!UnitVector(id) = UnitVector(id)
  BY SystemOperators DEF SystemInv, P!UnitVector, UnitVector
<1>2. QED
  BY <1>1, AnnouncedAssumed, P!DeterminedIsSolved, FieldAssumption, MaxIdAssumption,
     IdSpanAssumption, SystemAssumption

-------------------------------------------------------------------------------
(* The window.  What was listed since the last reset is counted by nb_id,  *)
(* and close to first_id.                                                  *)
WindowInv ==
  /\ WindowTypeOK
  /\ IsFiniteSet(listed) /\ Cardinality(listed) <= nb_id
  /\ first_id = SYMBOL_ID_NONE => nb_id = 0
  /\ nb_id > 0 => listed # {}
  /\ \A id \in listed : (id - first_id) % IdSpan <= max_coding_window_size

(* A table of the decoder is an array of field elements, of a capacity     *)
(* that is one of the two it may be allocated with.                        *)
LEMMA TableCapacity ==
  ASSUME WindowInv, coef_tab # NULL
  PROVE  /\ Capacity \in {symbol_size, max_coding_window_size}
         /\ coef_tab \in [0 .. Capacity - 1 -> F]
<1>1. PICK capacity \in {symbol_size, max_coding_window_size} :
        coef_tab \in [0 .. capacity - 1 -> F]
  BY DEF WindowInv, WindowTypeOK
<1>2. Cardinality(0 .. capacity - 1) = capacity
  <2>1. 0 \in Int /\ capacity - 1 \in Int /\ capacity > 0
    BY DecoderAssumption
  <2>2. Cardinality(0 .. capacity - 1)
          = IF 0 > capacity - 1 THEN 0 ELSE (capacity - 1) - 0 + 1
    BY <2>1, FS_Interval
  <2>3. QED
    BY <2>1, <2>2, DecoderAssumption
<1>3. Capacity = capacity
  BY <1>1, <1>2 DEF Capacity
<1>4. QED
  BY <1>1, <1>3

LEMMA ResetWindow ==
  ASSUME WindowInv, ResetCodingWindow
  PROVE  WindowInv'
<1> DEFINE capacity == IF coef_tab = NULL THEN symbol_size ELSE Capacity
<1>1. capacity \in {symbol_size, max_coding_window_size}
  BY TableCapacity
<1>2. coef_tab' \in [0 .. capacity - 1 -> F]
  <2>1. coef_tab' = [n \in 0 .. capacity - 1 |->
                       IF n < symbol_size THEN Zero ELSE coef_tab[n]]
    BY DEF ResetCodingWindow
  <2>2. Zero \in F
    BY FieldAssumption
  <2>3. \A n \in 0 .. capacity - 1 :
          (IF n < symbol_size THEN Zero ELSE coef_tab[n]) \in F
    BY <2>2, TableCapacity, DecoderAssumption
  <2>4. QED
    BY <2>1, <2>3
<1>3. /\ first_id' = SYMBOL_ID_NONE /\ nb_id' = 0 /\ listed' = {}
      /\ fault' \in {"none", "memory"}
  BY DEF ResetCodingWindow, Faults
<1>4. WindowTypeOK'
  BY <1>1, <1>2, <1>3, DecoderAssumption DEF WindowTypeOK
<1>5. QED
  BY <1>3, <1>4, FS_EmptySet DEF WindowInv

LEMMA AddToWindow ==
  ASSUME WindowInv, NEW esi \in Ids, AddSourceSymbol(esi)
  PROVE  WindowInv'
<1>1. /\ nb_id \in Nat /\ listed \subseteq Ids /\ first_id' = FirstListed(esi)
      /\ nb_id < MaxListed /\ UNCHANGED <<coef_tab, fault>>
  BY DEF WindowInv, WindowTypeOK, AddSourceSymbol
<1>2. esi \in Nat /\ esi < SYMBOL_ID_NONE /\ SYMBOL_ID_NONE \in Nat
  BY MaxIdAssumption, IdSpanAssumption DEF Ids, SYMBOL_ID_NONE
<1>3. FirstListed(esi) \in Ids
  BY DEF FirstListed, WindowInv, WindowTypeOK
<1>4. first_id' # SYMBOL_ID_NONE
  BY <1>1, <1>3, MaxIdAssumption, IdSpanAssumption DEF Ids, SYMBOL_ID_NONE
<1>5. \A id \in listed : (id - first_id') % IdSpan <= max_coding_window_size
  <2>1. CASE first_id = SYMBOL_ID_NONE
    <3>1. listed = {}
      <4>1. Cardinality(listed) = 0
        BY <2>1, FS_CardinalityType DEF WindowInv
      <4>2. QED
        BY <4>1, FS_EmptySet DEF WindowInv
    <3>2. QED
      BY <3>1
  <2>2. CASE first_id # SYMBOL_ID_NONE
    BY <1>1, <2>2 DEF FirstListed, WindowInv
  <2>3. QED
    BY <2>1, <2>2
<1>6. CASE Accepted(esi) /\ nb_id' = nb_id + 1 /\ listed' = listed \union {esi}
  <2>1. /\ IsFiniteSet(listed') /\ Cardinality(listed') <= nb_id'
    <3>1. /\ IsFiniteSet(listed \union {esi}) /\ Cardinality(listed) \in Nat
          /\ Cardinality(listed \union {esi}) <= Cardinality(listed) + 1
      <4>1. IsFiniteSet(listed) /\ Cardinality(listed) \in Nat
        BY FS_CardinalityType DEF WindowInv
      <4>2. /\ IsFiniteSet(listed \union {esi})
            /\ Cardinality(listed \union {esi})
                 = IF esi \in listed THEN Cardinality(listed) ELSE Cardinality(listed) + 1
        BY <4>1, FS_AddElement
      <4>3. QED
        BY <4>1, <4>2
    <3>2. QED
      BY <1>1, <1>6, <3>1, FS_CardinalityType DEF WindowInv
  <2>2. (esi - first_id') % IdSpan <= max_coding_window_size
    BY <1>1, <1>6 DEF Accepted
  <2>3. WindowTypeOK'
    BY <1>1, <1>3, <1>6, DecoderAssumption DEF WindowInv, WindowTypeOK
  <2>4. QED
    BY <1>1, <1>4, <1>5, <1>6, <2>1, <2>2, <2>3 DEF WindowInv
<1>7. CASE ~Accepted(esi) /\ UNCHANGED <<nb_id, listed>>
  BY <1>1, <1>3, <1>4, <1>5, <1>7 DEF WindowInv, WindowTypeOK
<1>8. QED
  BY <1>6, <1>7 DEF AddSourceSymbol

LEMMA GenerateForWindow ==
  ASSUME WindowInv, NEW cc \in [0 .. max_coding_window_size - 1 -> F],
         GenerateCodingCoefs(cc)
  PROVE  WindowInv'
<1>1. UNCHANGED window
  BY DEF GenerateCodingCoefs
<1>2. WindowTypeOK'
  <2>1. CASE nb_id > max_coding_window_size
    <3>1. nb_id \in Nat
      BY DEF WindowInv, WindowTypeOK
    <3>2. fault' = "assert" /\ UNCHANGED coef_tab
      BY <2>1, <3>1, DecoderAssumption DEF GenerateCodingCoefs
    <3>3. QED
      BY <1>1, <3>2 DEF window, WindowInv, WindowTypeOK
  <2>2. CASE ~(nb_id > max_coding_window_size)
    <3>1. PICK memory \in [0 .. GenerationCapacity - 1 -> F] :
            /\ nb_id <= max_coding_window_size
            /\ coef_tab' = [n \in DOMAIN memory |->
                              IF n < nb_id THEN cc[n] ELSE memory[n]]
            /\ fault' \in Faults(nb_id, GenerationCapacity)
      BY <2>2 DEF GenerateCodingCoefs
    <3>2. GenerationCapacity \in {symbol_size, max_coding_window_size}
      BY TableCapacity DEF GenerationCapacity
    <3>3. nb_id \in Nat
      BY DEF WindowInv, WindowTypeOK
    <3>4. coef_tab' \in [0 .. GenerationCapacity - 1 -> F]
      <4>1. \A n \in 0 .. GenerationCapacity - 1 :
              (IF n < nb_id THEN cc[n] ELSE memory[n]) \in F
        BY <3>1, <3>2, <3>3, DecoderAssumption
      <4>2. QED
        BY <3>1, <4>1
    <3>5. fault' \in {"none", "memory"}
      BY <3>1 DEF Faults
    <3>6. QED
      BY <1>1, <3>2, <3>4, <3>5 DEF window, WindowInv, WindowTypeOK
  <2>3. QED
    BY <2>1, <2>2
<1>3. QED
  BY <1>1, <1>2 DEF window, WindowInv

LEMMA WindowInvariance == Spec => []WindowInv
<1>1. Init => WindowInv
  BY FS_EmptySet, MaxIdAssumption, IdSpanAssumption, DecoderAssumption
     DEF Init, WindowInv, WindowTypeOK, Ids, SYMBOL_ID_NONE
<1>2. WindowInv /\ [Next]_vars => WindowInv'
  <2>1. ASSUME WindowInv, UNCHANGED <<window, coef_tab>>, fault' \in {"none", "memory", "assert"}
        PROVE  WindowInv'
    BY <2>1 DEF WindowInv, WindowTypeOK, window
  <2>2. ASSUME WindowInv, NEW esi \in Ids, DecodeWithNewSourceSymbol(esi, UnitVector(esi))
        PROVE  WindowInv'
    BY <2>1, <2>2 DEF DecodeWithNewSourceSymbol, WindowInv, WindowTypeOK
  <2>3. ASSUME WindowInv, NEW data \in Vector, DecodeWithNewRepairSymbol(data)
        PROVE  WindowInv'
    BY <2>1, <2>3 DEF DecodeWithNewRepairSymbol, WindowInv, WindowTypeOK
  <2>4. ASSUME WindowInv, SystemStep PROVE WindowInv'
    BY <2>1, <2>4 DEF SystemStep, WindowInv, WindowTypeOK
  <2>5. ASSUME WindowInv, UNCHANGED vars PROVE WindowInv'
    BY <2>1, <2>5 DEF vars, WindowInv, WindowTypeOK
  <2>6. QED
    BY <2>2, <2>3, <2>4, <2>5, ResetWindow, AddToWindow, GenerateForWindow DEF Next
<1>3. QED
  BY <1>1, <1>2, PTL DEF Spec

(* Under calls in any order, the fields of the decoder keep their types,   *)
(* and its table of coefficients one of the two capacities it is allocated *)
(* with.                                                                   *)
THEOREM WindowTypeCorrect == Spec => []WindowTypeOK
<1>1. WindowInv => WindowTypeOK
  BY DEF WindowInv
<1>2. QED
  BY <1>1, WindowInvariance, PTL

(* "assert(rlc_dec->nb_id == 0)" (swif_rlc_api.c:316) never fails, and     *)
(* first_id and nb_id describe symbols that were accepted.                 *)
THEOREM FirstIdentifierIsListed == Spec => []FirstIsListed
<1>1. WindowInv => FirstIsListed
  BY DEF WindowInv, FirstIsListed
<1>2. QED
  BY <1>1, WindowInvariance, PTL
===============================================================================
