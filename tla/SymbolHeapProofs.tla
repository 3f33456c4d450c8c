--------------------------- MODULE SymbolHeapProofs ---------------------------
(***************************************************************************)
(* Proofs about full symbols in memory.  First their arrays, which are     *)
(* indexed within their bounds, and the operations on them, which compute  *)
(* those of module FullSymbol, for every field, every range of identifiers *)
(* and every size of payload.  Then the linear system made of them: its    *)
(* pointers are valid and own what they point to, its symbols keep their   *)
(* layout, no assertion fails, nothing leaks, and every step is a step of  *)
(* module FullSymbolSet.                                                   *)
(***************************************************************************)
EXTENDS SymbolHeap, FiniteSetTheorems, TLAPS

(* The system this one implements, through the same refinement mapping as  *)
(* S, with the theorems about it.                                          *)
P == INSTANCE FullSymbolSetProofs WITH
       full_symbol_tab <- Table,
       new_symbol1 <- At(submitted),
       new_symbol <- At(reduced),
       i <- turn,
       lent <- {id \in Ids : lent_to[id] # NULL}

(***************************************************************************)
(* The operators of P that read no variable are those of FullSymbol.       *)
(***************************************************************************)
LEMMA SystemOperators ==
  /\ P!Ids = Ids /\ P!Vector = Vector /\ P!SYMBOL_ID_NONE = SYMBOL_ID_NONE
  /\ P!FullSymbols = FullSymbols
  /\ P!ZeroVector = ZeroVector /\ P!ZeroSymbol = ZeroSymbol
  /\ \A s : /\ P!first_nonzero_id(s) = first_nonzero_id(s)
            /\ P!last_nonzero_id(s) = last_nonzero_id(s)
            /\ P!full_symbol_is_zero(s) = full_symbol_is_zero(s)
            /\ P!full_symbol_has_one_id(s) = full_symbol_has_one_id(s)
            /\ P!full_symbol_clone(s) = full_symbol_clone(s)
  /\ \A s, a : /\ P!full_symbol_get_coef(s, a) = full_symbol_get_coef(s, a)
               /\ P!full_symbol_scale(s, a) = full_symbol_scale(s, a)
  /\ \A s, t : P!full_symbol_add(s, t) = full_symbol_add(s, t)
  /\ \A U, v : P!SpanWith(U, v) = SpanWith(U, v)
<1>1. P!Ids = Ids /\ P!Vector = Vector /\ P!SYMBOL_ID_NONE = SYMBOL_ID_NONE
  BY DEF P!Ids, Ids, P!Vector, Vector, P!SYMBOL_ID_NONE, SYMBOL_ID_NONE
<1>2. P!FullSymbols = FullSymbols /\ P!ZeroVector = ZeroVector /\ P!ZeroSymbol = ZeroSymbol
  BY <1>1 DEF P!FullSymbols, FullSymbols, P!ZeroVector, ZeroVector, P!ZeroSymbol, ZeroSymbol
<1>3. \A s : P!NonzeroIds(s) = NonzeroIds(s)
  BY <1>1 DEF P!NonzeroIds, NonzeroIds
<1>4. \A s : /\ P!first_nonzero_id(s) = first_nonzero_id(s)
             /\ P!last_nonzero_id(s) = last_nonzero_id(s)
  <2>1. \A T : P!Min(T) = Min(T) /\ P!Max(T) = Max(T)
    BY Zenon DEF P!Min, Min, P!Max, Max
  <2>2. QED
    BY <1>1, <1>3, <2>1 DEF P!first_nonzero_id, first_nonzero_id,
       P!last_nonzero_id, last_nonzero_id
<1>5. \A s : P!full_symbol_is_zero(s) = full_symbol_is_zero(s)
  BY <1>1, <1>4 DEF P!full_symbol_is_zero, full_symbol_is_zero
<1>6. \A s : P!full_symbol_has_one_id(s) = full_symbol_has_one_id(s)
  BY <1>4, <1>5 DEF P!full_symbol_has_one_id, full_symbol_has_one_id
<1>7. \A s : P!full_symbol_clone(s) = full_symbol_clone(s)
  BY <1>2, <1>5 DEF P!full_symbol_clone, full_symbol_clone
<1>8. \A s, a : /\ P!full_symbol_get_coef(s, a) = full_symbol_get_coef(s, a)
                /\ P!full_symbol_scale(s, a) = full_symbol_scale(s, a)
  BY <1>1, <1>5 DEF P!full_symbol_get_coef, full_symbol_get_coef,
     P!full_symbol_scale, full_symbol_scale, P!symbol_mul, symbol_mul
<1>9. \A s, t : P!full_symbol_add(s, t) = full_symbol_add(s, t)
  BY <1>1, <1>5, <1>7 DEF P!full_symbol_add, full_symbol_add, P!symbol_add, symbol_add
<1>10. \A U, v : P!SpanWith(U, v) = SpanWith(U, v)
  BY <1>1 DEF P!SpanWith, SpanWith, P!symbol_add_scaled, symbol_add_scaled
<1>11. QED
  BY <1>1, <1>2, <1>4, <1>5, <1>6, <1>7, <1>8, <1>9, <1>10

-------------------------------------------------------------------------------
(***************************************************************************)
(* What FullSymbolSetProofs shows of vectors and symbols, said of the      *)
(* operators of FullSymbol.                                                *)
(***************************************************************************)
LEMMA SystemAssumed ==
  FULL_SYMBOL_SET_INITIAL_SIZE \in Nat \ {0} /\ NULL \notin P!FullSymbols
BY SystemOperators, InitialSizeAssumption, NullAssumption

(* Vectors are closed under the operations of swif_symbol.c.               *)
LEMMA VectorOps ==
  /\ ZeroVector \in Vector
  /\ \A id \in Ids : UnitVector(id) \in Vector
  /\ \A u, v \in Vector : symbol_add(u, v) \in Vector
  /\ \A u \in Vector, a \in F : symbol_mul(a, u) \in Vector
  /\ \A u, v \in Vector, a \in F : symbol_add_scaled(u, a, v) \in Vector
BY FieldAssumption
   DEF Vector, ZeroVector, UnitVector, symbol_add, symbol_mul, symbol_add_scaled

(* The first and last nonzero identifiers are what their names say.        *)
LEMMA NonzeroRange ==
  ASSUME NEW s \in FullSymbols
  PROVE  /\ full_symbol_is_zero(s) <=> (\A c \in Ids : s.coef[c] = Zero)
         /\ ~full_symbol_is_zero(s) =>
              /\ first_nonzero_id(s) \in Ids
              /\ last_nonzero_id(s) \in Ids
              /\ s.coef[first_nonzero_id(s)] # Zero
              /\ s.coef[last_nonzero_id(s)] # Zero
              /\ \A c \in Ids : s.coef[c] # Zero =>
                   first_nonzero_id(s) <= c /\ c <= last_nonzero_id(s)
BY SystemOperators, SystemAssumed, P!NonzeroRange, FieldAssumption, MaxIdAssumption,
   IdSpanAssumption

(* A symbol with one identifier has one nonzero coefficient, the first.    *)
LEMMA OneId ==
  ASSUME NEW s \in FullSymbols
  PROVE  full_symbol_has_one_id(s) <=>
           /\ ~full_symbol_is_zero(s)
           /\ \A c \in Ids : s.coef[c] # Zero => c = first_nonzero_id(s)
BY SystemOperators, SystemAssumed, P!OneId, FieldAssumption, MaxIdAssumption,
   IdSpanAssumption

(* The inverse of a nonzero element is nonzero.                            *)
LEMMA InvNonzero ==
  ASSUME NEW a \in F \ {Zero}
  PROVE  gf256_inv(a) \in F \ {Zero}
BY SystemAssumed, P!InvNonzero, FieldAssumption, MaxIdAssumption, IdSpanAssumption

-------------------------------------------------------------------------------
(* The reserved identifier is none of those in use.                        *)
LEMMA NoneIsOut ==
  /\ SYMBOL_ID_NONE \notin Ids
  /\ \A c \in Ids : c \in Nat /\ c <= MaxId /\ c < SYMBOL_ID_NONE
  /\ SYMBOL_ID_NONE \in Nat /\ MaxId \in Nat
BY IdSpanAssumption, MaxIdAssumption DEF SYMBOL_ID_NONE, Ids

(* What a well shaped layout looks like, by cases.                         *)
LEMMA ShapeFacts ==
  ASSUME NEW l, Shaped(l)
  PROVE  /\ \/ /\ l.first_id = SYMBOL_ID_NONE /\ l.last_id = SYMBOL_ID_NONE
               /\ l.coef \in [0 .. 0 -> F]
            \/ /\ l.first_id \in Ids /\ l.last_id \in Ids /\ l.first_id <= l.last_id
               /\ l.coef \in [0 .. l.last_id - l.first_id -> F]
         /\ l.data_size \in 0 .. MaxId + 1
         /\ l.data \in [0 .. l.data_size - 1 -> F]
         /\ l.first_nonzero_id \in Ids \union {SYMBOL_ID_NONE}
         /\ l.last_nonzero_id \in Ids \union {SYMBOL_ID_NONE}
<1>1. /\ l.first_id \in Ids \union {SYMBOL_ID_NONE}
      /\ l.last_id \in Ids \union {SYMBOL_ID_NONE}
      /\ l.data_size \in 0 .. MaxId + 1
      /\ l.first_nonzero_id \in Ids \union {SYMBOL_ID_NONE}
      /\ l.last_nonzero_id \in Ids \union {SYMBOL_ID_NONE}
  BY DEF Shaped, Layouts
<1>2. l.data \in [0 .. l.data_size - 1 -> F]
  BY DEF Shaped, ArrayOf
<1>3. CASE l.first_id = SYMBOL_ID_NONE
  <2>1. l.last_id = SYMBOL_ID_NONE
    BY <1>3 DEF Shaped, AllocAsserts, AdjustAsserts
  <2>2. l.coef \in [0 .. 1 - 1 -> F]
    BY <1>3 DEF Shaped, AllocatedSize, ArrayOf
  <2>3. QED
    BY <1>1, <1>2, <1>3, <2>1, <2>2
<1>4. CASE l.first_id # SYMBOL_ID_NONE
  <2>1. /\ l.last_id # SYMBOL_ID_NONE /\ l.first_id <= l.last_id
        /\ l.first_id \in Ids /\ l.last_id \in Ids
    BY <1>1, <1>4 DEF Shaped, AllocAsserts, AdjustAsserts
  <2>2. l.coef \in [0 .. (l.last_id - l.first_id + 1) - 1 -> F]
    <3>1. AllocatedSize(l.first_id, l.last_id) = l.last_id - l.first_id + 1
      BY <1>4 DEF AllocatedSize
    <3>2. l.coef \in ArrayOf(l.last_id - l.first_id + 1)
      BY <3>1 DEF Shaped
    <3>3. QED
      BY <3>2 DEF ArrayOf
  <2>3. (l.last_id - l.first_id + 1) - 1 = l.last_id - l.first_id
    BY <2>1, NoneIsOut
  <2>4. QED
    BY <1>1, <1>2, <1>4, <2>1, <2>2, <2>3
<1>5. QED
  BY <1>3, <1>4

(* An index into the array of coefficients is within its bounds.           *)
LEMMA Coefficient ==
  ASSUME NEW l, Shaped(l), NEW c \in Ids
  PROVE  /\ full_symbol_includes_id(l, c) =>
              /\ l.first_id \in Ids /\ l.last_id \in Ids
              /\ c - l.first_id \in 0 .. l.last_id - l.first_id
              /\ l.coef[c - l.first_id] \in F
              /\ GetCoef(l, c) = l.coef[c - l.first_id]
         /\ ~full_symbol_includes_id(l, c) => GetCoef(l, c) = Zero
         /\ GetCoef(l, c) \in F
<1>1. CASE full_symbol_includes_id(l, c)
  <2>1. l.first_id <= c /\ c <= l.last_id
    BY <1>1, NoneIsOut, ShapeFacts DEF full_symbol_includes_id
  <2>2. l.first_id \in Ids /\ l.last_id \in Ids /\ l.coef \in [0 .. l.last_id - l.first_id -> F]
    BY <2>1, NoneIsOut, ShapeFacts
  <2>3. c - l.first_id \in 0 .. l.last_id - l.first_id
    BY <2>1, <2>2, NoneIsOut
  <2>4. QED
    BY <1>1, <2>2, <2>3 DEF GetCoef
<1>2. CASE ~full_symbol_includes_id(l, c)
  BY <1>2, FieldAssumption DEF GetCoef
<1>3. QED
  BY <1>1, <1>2

(* A layout stands for a symbol.                                           *)
LEMMA AbsType ==
  ASSUME NEW l, Shaped(l)
  PROVE  /\ Abs(l) \in FullSymbols
         /\ \A c \in Ids : Abs(l).coef[c] = GetCoef(l, c)
         /\ \A c \in Ids : Abs(l).data[c] = IF c < l.data_size THEN l.data[c] ELSE Zero
<1>1. \A c \in Ids : GetCoef(l, c) \in F
  BY Coefficient
<1>2. \A c \in Ids : (IF c < l.data_size THEN l.data[c] ELSE Zero) \in F
  BY ShapeFacts, NoneIsOut, FieldAssumption
<1>3. QED
  BY <1>1, <1>2 DEF Abs, Payload, FullSymbols, Vector

(* Two records of the form of a layout with the same arrays and the same   *)
(* range stand for the same symbol, whatever their bounds.                 *)
LEMMA SameArrays ==
  ASSUME NEW l, Shaped(l), NEW r, Shaped(r),
         r.first_id = l.first_id, r.last_id = l.last_id, r.coef = l.coef,
         r.data_size = l.data_size, r.data = l.data
  PROVE  Abs(r) = Abs(l)
BY DEF Abs, GetCoef, full_symbol_includes_id, Payload

(* The entries that are found nonzero are the identifiers of the symbol    *)
(* that have a coefficient.                                                *)
LEMMA Entries ==
  ASSUME NEW l, Shaped(l)
  PROVE  /\ l.first_id # SYMBOL_ID_NONE => NonzeroEntries(l) = NonzeroIds(Abs(l))
         /\ l.first_id = SYMBOL_ID_NONE => NonzeroIds(Abs(l)) = {}
<1>1. CASE l.first_id = SYMBOL_ID_NONE
  <2>1. \A c \in Ids : ~full_symbol_includes_id(l, c)
    BY <1>1, NoneIsOut DEF full_symbol_includes_id
  <2>2. \A c \in Ids : Abs(l).coef[c] = Zero
    BY <2>1, Coefficient, AbsType
  <2>3. QED
    BY <1>1, <2>2 DEF NonzeroIds
<1>2. CASE l.first_id # SYMBOL_ID_NONE
  <2>1. l.first_id \in Ids /\ l.last_id \in Ids /\ l.first_id <= l.last_id
    BY <1>2, ShapeFacts
  <2>2. l.first_id .. l.last_id \subseteq Ids
    BY <2>1, NoneIsOut DEF Ids
  <2>3. \A c \in Ids : full_symbol_includes_id(l, c) <=> c \in l.first_id .. l.last_id
    BY <2>1, NoneIsOut DEF full_symbol_includes_id
  <2>4. \A c \in Ids : Abs(l).coef[c] # Zero <=>
          c \in l.first_id .. l.last_id /\ l.coef[c - l.first_id] # Zero
    BY <2>3, Coefficient, AbsType
  <2>5. QED
    BY <1>2, <2>2, <2>4 DEF NonzeroIds, NonzeroEntries
<1>3. QED
  BY <1>1, <1>2

(* full_symbol_adjust_min_max_coef finds the bounds.                       *)
LEMMA AdjustCorrect ==
  ASSUME NEW l, Shaped(l)
  PROVE  /\ Shaped(AdjustMinMax(l)) /\ Tight(AdjustMinMax(l))
         /\ Abs(AdjustMinMax(l)) = Abs(l)
         /\ AdjustMinMax(l).first_id = l.first_id
         /\ AdjustMinMax(l).last_id = l.last_id
         /\ AdjustMinMax(l).coef = l.coef
         /\ AdjustMinMax(l).data_size = l.data_size
         /\ AdjustMinMax(l).data = l.data
<1> DEFINE r == AdjustMinMax(l)
           N == NonzeroIds(Abs(l))
<1>1. Abs(l) \in FullSymbols
  BY AbsType
<1>2. /\ r.first_id = l.first_id /\ r.last_id = l.last_id /\ r.coef = l.coef
      /\ r.data_size = l.data_size /\ r.data = l.data
      /\ r.first_nonzero_id = first_nonzero_id(Abs(l))
      /\ r.last_nonzero_id = last_nonzero_id(Abs(l))
      /\ r = [l EXCEPT !.first_nonzero_id = first_nonzero_id(Abs(l)),
                       !.last_nonzero_id = last_nonzero_id(Abs(l))]
  <2>1. l \in Layouts
    BY DEF Shaped
  <2>2. CASE l.first_id = SYMBOL_ID_NONE \/ NonzeroEntries(l) = {}
    <3>1. N = {}
      BY <2>2, Entries
    <3>2. first_nonzero_id(Abs(l)) = SYMBOL_ID_NONE /\ last_nonzero_id(Abs(l)) = SYMBOL_ID_NONE
      BY <3>1 DEF first_nonzero_id, last_nonzero_id
    <3>3. r = [l EXCEPT !.first_nonzero_id = SYMBOL_ID_NONE,
                       !.last_nonzero_id = SYMBOL_ID_NONE]
      BY <2>2 DEF AdjustMinMax
    <3> HIDE DEF r
    <3>4. QED
      BY <2>1, <3>2, <3>3 DEF Layouts
  <2>3. CASE ~(l.first_id = SYMBOL_ID_NONE \/ NonzeroEntries(l) = {})
    <3>1. N = NonzeroEntries(l) /\ N # {}
      BY <2>3, Entries
    <3>2. first_nonzero_id(Abs(l)) = Min(N) /\ last_nonzero_id(Abs(l)) = Max(N)
      BY <3>1 DEF first_nonzero_id, last_nonzero_id
    <3>3. r = [l EXCEPT !.first_nonzero_id = Min(NonzeroEntries(l)),
                       !.last_nonzero_id = Max(NonzeroEntries(l))]
      BY <2>3 DEF AdjustMinMax
    <3>4. r = [l EXCEPT !.first_nonzero_id = first_nonzero_id(Abs(l)),
                       !.last_nonzero_id = last_nonzero_id(Abs(l))]
      BY <3>1, <3>2, <3>3
    <3> HIDE DEF r
    <3>5. QED
      BY <2>1, <3>4 DEF Layouts
  <2>4. QED
    BY <2>2, <2>3
<1>3. /\ first_nonzero_id(Abs(l)) \in Ids \union {SYMBOL_ID_NONE}
      /\ last_nonzero_id(Abs(l)) \in Ids \union {SYMBOL_ID_NONE}
  <2>1. CASE full_symbol_is_zero(Abs(l))
    <3>1. N = {}
      BY <1>1, <2>1, NonzeroRange DEF NonzeroIds
    <3>2. QED
      BY <3>1 DEF first_nonzero_id, last_nonzero_id
  <2>2. CASE ~full_symbol_is_zero(Abs(l))
    BY <1>1, <2>2, NonzeroRange
  <2>3. QED
    BY <2>1, <2>2
<1> HIDE DEF r
<1>4. r \in Layouts
  BY <1>2, <1>3 DEF Shaped, Layouts
<1>5. Shaped(r)
  BY <1>2, <1>4 DEF Shaped
<1>6. Abs(r) = Abs(l)
  BY <1>2, <1>5, SameArrays
<1>7. Tight(r)
  BY <1>2, <1>6 DEF Tight
<1>8. QED
  BY <1>2, <1>5, <1>6, <1>7 DEF r

(* The ranges full_symbol_alloc accepts.                                   *)
AllocRange(first_id, last_id) ==
  \/ first_id = SYMBOL_ID_NONE /\ last_id = SYMBOL_ID_NONE
  \/ first_id \in Ids /\ last_id \in Ids /\ first_id <= last_id

LEMMA RangeOfShape ==
  ASSUME NEW l, Shaped(l)
  PROVE  AllocRange(l.first_id, l.last_id)
BY ShapeFacts DEF AllocRange

(* A zero layout stands for a zero symbol.                                 *)
LEMMA ZeroTight ==
  ASSUME NEW l, Shaped(l), Tight(l)
  PROVE  IsZero(l) <=> full_symbol_is_zero(Abs(l))
BY DEF Tight, IsZero, full_symbol_is_zero

(* full_symbol_alloc returns a zero symbol of the range and size asked.    *)
LEMMA AllocCorrect ==
  ASSUME NEW first_id, NEW last_id, AllocRange(first_id, last_id),
         NEW data_size \in 0 .. MaxId + 1
  PROVE  /\ AllocAsserts(first_id, last_id)
         /\ Shaped(Alloc(first_id, last_id, data_size))
         /\ Tight(Alloc(first_id, last_id, data_size))
         /\ Abs(Alloc(first_id, last_id, data_size)) = ZeroSymbol
         /\ Alloc(first_id, last_id, data_size).first_id = first_id
         /\ Alloc(first_id, last_id, data_size).last_id = last_id
         /\ Alloc(first_id, last_id, data_size).data_size = data_size
<1> DEFINE n == AllocatedSize(first_id, last_id)
           l == [first_id |-> first_id, last_id |-> last_id,
                 coef |-> [k \in 0 .. n - 1 |-> Zero],
                 first_nonzero_id |-> 0, last_nonzero_id |-> 0,
                 data_size |-> data_size,
                 data |-> [k \in 0 .. data_size - 1 |-> Zero]]
<1>1. AllocAsserts(first_id, last_id)
  BY NoneIsOut DEF AllocRange, AllocAsserts, AdjustAsserts
<1>2. n \in 1 .. MaxId + 1
  BY NoneIsOut, MaxIdAssumption DEF AllocRange, AllocatedSize, Ids
<1>3. [k \in 0 .. n - 1 |-> Zero] \in ArrayOf(n)
  BY FieldAssumption DEF ArrayOf
<1>4. [k \in 0 .. data_size - 1 |-> Zero] \in ArrayOf(data_size)
  BY FieldAssumption DEF ArrayOf
<1>5. Shaped(l)
  <2> HIDE DEF n
  <2>1. 0 \in Ids
    BY MaxIdAssumption DEF Ids
  <2>2. first_id \in Ids \union {SYMBOL_ID_NONE} /\ last_id \in Ids \union {SYMBOL_ID_NONE}
    BY DEF AllocRange
  <2>3. l \in Layouts
    BY <1>2, <1>3, <1>4, <2>1, <2>2 DEF Layouts
  <2>4. l.coef \in ArrayOf(AllocatedSize(l.first_id, l.last_id))
    BY <1>3 DEF n
  <2>5. QED
    BY <1>1, <1>4, <2>3, <2>4 DEF Shaped
<1>6. Alloc(first_id, last_id, data_size) = AdjustMinMax(l)
  BY DEF Alloc
<1>7. Abs(l) = ZeroSymbol
  <2>1. ASSUME NEW c \in Ids PROVE GetCoef(l, c) = Zero
    <3>1. CASE full_symbol_includes_id(l, c)
      <4>1. /\ l.first_id \in Ids /\ l.last_id \in Ids
            /\ c - l.first_id \in 0 .. l.last_id - l.first_id
            /\ GetCoef(l, c) = l.coef[c - l.first_id]
        BY <1>5, <3>1, Coefficient
      <4>2. n - 1 = l.last_id - l.first_id
        BY <4>1, NoneIsOut DEF AllocatedSize
      <4>3. QED
        BY <4>1, <4>2
    <3>2. CASE ~full_symbol_includes_id(l, c)
      BY <3>2 DEF GetCoef
    <3>3. QED
      BY <3>1, <3>2
  <2>2. ASSUME NEW c \in Ids
        PROVE  (IF c < l.data_size THEN l.data[c] ELSE Zero) = Zero
    BY NoneIsOut
  <2> HIDE DEF l
  <2>3. QED
    BY <2>1, <2>2 DEF Abs, Payload, ZeroSymbol, ZeroVector
<1>8. l.first_id = first_id /\ l.last_id = last_id /\ l.data_size = data_size
  OBVIOUS
<1> HIDE DEF l
<1>9. QED
  BY <1>1, <1>5, <1>6, <1>7, <1>8, AdjustCorrect

(***************************************************************************)
(* full_symbol_clone: the copy is of the same shape, with the same bounds, *)
(* and its assertions hold.                                                *)
(***************************************************************************)
LEMMA CloneCorrect ==
  ASSUME NEW l, Shaped(l), Tight(l)
  PROVE  /\ CloneAsserts(l)
         /\ Shaped(Clone(l)) /\ Tight(Clone(l))
         /\ Abs(Clone(l)) = full_symbol_clone(Abs(l))
<1> DEFINE new == Alloc(l.first_id, l.last_id, l.data_size)
           r == Clone(l)
<1>1. /\ AllocAsserts(l.first_id, l.last_id)
      /\ Shaped(new) /\ Abs(new) = ZeroSymbol
      /\ new.first_id = l.first_id /\ new.last_id = l.last_id
      /\ new.data_size = l.data_size
  BY RangeOfShape, AllocCorrect, ShapeFacts
<1>2. r = [new EXCEPT !.first_nonzero_id = l.first_nonzero_id,
                      !.last_nonzero_id = l.last_nonzero_id,
                      !.coef = IF IsZero(l) THEN @ ELSE l.coef,
                      !.data = IF IsZero(l) THEN @ ELSE l.data]
  BY DEF Clone
<1> HIDE DEF new, r
<1>3. new \in Layouts /\ l \in Layouts
  BY <1>1 DEF Shaped
<1>4. CASE IsZero(l)
  <2>1. /\ r.first_id = new.first_id /\ r.last_id = new.last_id
        /\ r.coef = new.coef /\ r.data_size = new.data_size /\ r.data = new.data
        /\ r.first_nonzero_id = l.first_nonzero_id
        /\ r.last_nonzero_id = l.last_nonzero_id
        /\ r \in Layouts
    BY <1>2, <1>3, <1>4 DEF Layouts
  <2>2. Shaped(r)
    BY <1>1, <2>1 DEF Shaped
  <2>3. Abs(r) = ZeroSymbol
    BY <1>1, <2>1, <2>2, SameArrays
  <2>4. full_symbol_is_zero(Abs(l)) /\ Abs(l) \in FullSymbols
    BY <1>4, ZeroTight, AbsType
  <2>5. NonzeroIds(Abs(l)) = {} /\ NonzeroIds(ZeroSymbol) = {}
    BY <2>4, NonzeroRange DEF NonzeroIds, ZeroSymbol, ZeroVector
  <2>6. Tight(r)
    BY <2>1, <2>3, <2>5 DEF Tight, first_nonzero_id, last_nonzero_id
  <2>7. QED
    BY <1>1, <2>2, <2>3, <2>4, <2>6 DEF r, CloneAsserts, full_symbol_clone
<1>5. CASE ~IsZero(l)
  <2>1. /\ r.first_id = l.first_id /\ r.last_id = l.last_id
        /\ r.coef = l.coef /\ r.data_size = l.data_size /\ r.data = l.data
        /\ r.first_nonzero_id = l.first_nonzero_id
        /\ r.last_nonzero_id = l.last_nonzero_id
        /\ r \in Layouts
    BY <1>1, <1>2, <1>3, <1>5 DEF Layouts
  <2>2. Shaped(r)
    BY <2>1 DEF Shaped
  <2>3. Abs(r) = Abs(l)
    BY <2>1, <2>2, SameArrays
  <2>4. ~full_symbol_is_zero(Abs(l))
    BY <1>5, ZeroTight
  <2>5. Tight(r)
    BY <2>1, <2>3 DEF Tight
  <2>6. QED
    BY <1>1, <2>2, <2>3, <2>4, <2>5 DEF r, CloneAsserts, full_symbol_clone
<1>6. QED
  BY <1>4, <1>5

(* The bounds that full_symbol_scale asserts are there.                    *)
LEMMA ScaleSafe ==
  ASSUME NEW l, Shaped(l), Tight(l)
  PROVE  ScaleAsserts(l)
<1>1. AdjustAsserts(l.first_id, l.last_id)
  BY DEF Shaped, AllocAsserts
<1>2. CASE IsZero(l)
  BY <1>2 DEF ScaleAsserts
<1>3. CASE ~IsZero(l)
  <2>1. ~full_symbol_is_zero(Abs(l)) /\ Abs(l) \in FullSymbols
    BY <1>3, ZeroTight, AbsType
  <2>2. last_nonzero_id(Abs(l)) \in Ids
    BY <2>1, NonzeroRange
  <2>3. l.last_nonzero_id # SYMBOL_ID_NONE
    BY <2>2, NoneIsOut DEF Tight
  <2>4. QED
    BY <1>1, <2>3 DEF ScaleAsserts
<1>4. QED
  BY <1>2, <1>3

(***************************************************************************)
(* full_symbol_scale multiplies every coefficient and every byte, whatever *)
(* part of the identifiers the array covers.                               *)
(***************************************************************************)
LEMMA ScaleCorrect ==
  ASSUME NEW l, Shaped(l), Tight(l), NEW a \in F
  PROVE  /\ Shaped(Scale(l, a)) /\ Tight(Scale(l, a))
         /\ Abs(Scale(l, a)) = full_symbol_scale(Abs(l), a)
<1>1. CASE IsZero(l)
  BY <1>1, ZeroTight DEF Scale, full_symbol_scale
<1>2. CASE ~IsZero(l)
  <2> DEFINE coef == [k \in DOMAIN l.coef |-> gf256_mul(a, l.coef[k])]
             data == [k \in DOMAIN l.data |-> gf256_mul(a, l.data[k])]
             r == [l EXCEPT !.coef = coef, !.data = data]
  <2>1. l \in Layouts
    BY DEF Shaped
  <2>2. \A n \in Int : \A v \in ArrayOf(n) :
          [k \in DOMAIN v |-> gf256_mul(a, v[k])] \in ArrayOf(n)
    BY FieldAssumption DEF ArrayOf
  <2>3. /\ coef \in UNION {ArrayOf(n) : n \in 1 .. MaxId + 1}
        /\ data \in UNION {ArrayOf(n) : n \in 0 .. MaxId + 1}
    BY <2>1, <2>2 DEF Layouts
  <2>4. AllocatedSize(l.first_id, l.last_id) \in Int /\ l.data_size \in Int
    BY ShapeFacts, NoneIsOut DEF AllocatedSize
  <2>5. /\ coef \in ArrayOf(AllocatedSize(l.first_id, l.last_id))
        /\ data \in ArrayOf(l.data_size)
    BY <2>2, <2>4 DEF Shaped
  <2>6. /\ \A k \in DOMAIN l.coef : coef[k] = gf256_mul(a, l.coef[k])
        /\ \A k \in DOMAIN l.data : data[k] = gf256_mul(a, l.data[k])
    OBVIOUS
  <2> HIDE DEF coef, data
  <2>7. /\ r.first_id = l.first_id /\ r.last_id = l.last_id /\ r.data_size = l.data_size
        /\ r.coef = coef /\ r.data = data /\ r \in Layouts
    BY <2>1, <2>3 DEF Layouts
  <2>8. Scale(l, a) = AdjustMinMax(r)
    BY <1>2 DEF Scale, coef, data
  <2> HIDE DEF r
  <2>9. Shaped(r)
    BY <2>5, <2>7 DEF Shaped
  <2>10. Abs(r) = [coef |-> symbol_mul(a, Abs(l).coef), data |-> symbol_mul(a, Abs(l).data)]
    <3>1. ASSUME NEW c \in Ids PROVE GetCoef(r, c) = gf256_mul(a, GetCoef(l, c))
      <4>1. full_symbol_includes_id(r, c) <=> full_symbol_includes_id(l, c)
        BY <2>7 DEF full_symbol_includes_id
      <4>2. CASE full_symbol_includes_id(l, c)
        <5>1. c - l.first_id \in DOMAIN l.coef
          BY <4>2, Coefficient, ShapeFacts, NoneIsOut
        <5>2. QED
          BY <2>6, <2>7, <4>1, <4>2, <5>1 DEF GetCoef
      <4>3. CASE ~full_symbol_includes_id(l, c)
        BY <4>1, <4>3, FieldAssumption DEF GetCoef
      <4>4. QED
        BY <4>2, <4>3
    <3>2. ASSUME NEW c \in Ids
          PROVE  (IF c < r.data_size THEN r.data[c] ELSE Zero)
                   = gf256_mul(a, IF c < l.data_size THEN l.data[c] ELSE Zero)
      <4>1. CASE c < l.data_size
        <5>1. c \in DOMAIN l.data
          BY <4>1, ShapeFacts, NoneIsOut
        <5>2. QED
          BY <2>6, <2>7, <4>1, <5>1
      <4>2. CASE ~(c < l.data_size)
        BY <2>7, <4>2, FieldAssumption
      <4>3. QED
        BY <4>1, <4>2
    <3>3. Abs(r).coef = symbol_mul(a, Abs(l).coef)
      BY <3>1, AbsType DEF Abs, symbol_mul
    <3>4. Abs(r).data = symbol_mul(a, Abs(l).data)
      BY <3>2, AbsType DEF Abs, Payload, symbol_mul
    <3>5. QED
      BY <3>3, <3>4 DEF Abs
  <2>11. ~full_symbol_is_zero(Abs(l))
    BY <1>2, ZeroTight
  <2>12. QED
    BY <2>8, <2>9, <2>10, <2>11, AdjustCorrect DEF full_symbol_scale
<1>3. QED
  BY <1>1, <1>2

(* The bounds of a nonzero layout are inside its array, and outside them   *)
(* it has no coefficient.                                                  *)
LEMMA Bounds ==
  ASSUME NEW l, Shaped(l), Tight(l), ~IsZero(l)
  PROVE  /\ l.first_nonzero_id \in Ids /\ l.last_nonzero_id \in Ids
         /\ l.first_nonzero_id <= l.last_nonzero_id
         /\ full_symbol_includes_id(l, l.first_nonzero_id)
         /\ full_symbol_includes_id(l, l.last_nonzero_id)
         /\ \A c \in Ids : c < l.first_nonzero_id \/ c > l.last_nonzero_id =>
              GetCoef(l, c) = Zero
<1> DEFINE s == Abs(l)
<1>1. s \in FullSymbols /\ ~full_symbol_is_zero(s)
  BY AbsType, ZeroTight
<1>2. l.first_nonzero_id = first_nonzero_id(s) /\ l.last_nonzero_id = last_nonzero_id(s)
  BY DEF Tight
<1>3. \A c \in Ids : s.coef[c] = GetCoef(l, c)
  BY AbsType
<1> HIDE DEF s
<1>4. /\ first_nonzero_id(s) \in Ids /\ last_nonzero_id(s) \in Ids
      /\ s.coef[first_nonzero_id(s)] # Zero /\ s.coef[last_nonzero_id(s)] # Zero
      /\ \A c \in Ids : s.coef[c] # Zero =>
           first_nonzero_id(s) <= c /\ c <= last_nonzero_id(s)
  BY <1>1, NonzeroRange
<1>5. /\ full_symbol_includes_id(l, l.first_nonzero_id)
      /\ full_symbol_includes_id(l, l.last_nonzero_id)
  BY <1>2, <1>3, <1>4 DEF GetCoef
<1>6. ASSUME NEW c \in Ids, c < l.first_nonzero_id \/ c > l.last_nonzero_id
      PROVE  GetCoef(l, c) = Zero
  BY <1>2, <1>3, <1>4, <1>6, NoneIsOut
<1>7. QED
  BY <1>2, <1>4, <1>5, <1>6

(* Byte by byte, the sum of two payloads of different sizes.               *)
LEMMA ByteSums ==
  ASSUME NEW l1, Shaped(l1), NEW l2, Shaped(l2), NEW c \in Ids
  PROVE  /\ ByteSum(l1, l2, c) = gf256_add(Payload(l1)[c], Payload(l2)[c])
         /\ ByteSum(l1, l2, c) \in F
         /\ c >= l1.data_size /\ c >= l2.data_size => ByteSum(l1, l2, c) = Zero
<1>1. /\ Payload(l1)[c] = IF c < l1.data_size THEN l1.data[c] ELSE Zero
      /\ Payload(l2)[c] = IF c < l2.data_size THEN l2.data[c] ELSE Zero
      /\ Payload(l1)[c] \in F /\ Payload(l2)[c] \in F
  BY AbsType DEF Payload, Abs, FullSymbols, Vector
<1>2. l1.data_size \in Nat /\ l2.data_size \in Nat /\ c \in Nat
  BY ShapeFacts, NoneIsOut
<1>3. gf256_add(Payload(l1)[c], Zero) = Payload(l1)[c]
      /\ gf256_add(Zero, Payload(l2)[c]) = Payload(l2)[c]
      /\ gf256_add(Payload(l1)[c], Payload(l2)[c]) \in F
      /\ gf256_add(Zero, Zero) = Zero
  BY <1>1, FieldAssumption
<1>4. QED
  BY <1>1, <1>2, <1>3 DEF ByteSum

(***************************************************************************)
(* full_symbol_add of two nonzero symbols: the array of the result holds   *)
(* both, no assertion fails and no index is out of bounds.                 *)
(***************************************************************************)
LEMMA AddBaseCorrect ==
  ASSUME NEW l1, Shaped(l1), Tight(l1), ~IsZero(l1),
         NEW l2, Shaped(l2), Tight(l2), ~IsZero(l2)
  PROVE  LET sum == AddBase(l1, l2, SumArray(l1, l2))
         IN  /\ AllocAsserts(FirstCoef(l1, l2), LastCoef(l1, l2))
             /\ AddBaseAsserts(l1, l2, SumArray(l1, l2))
             /\ Shaped(sum) /\ Tight(sum)
             /\ Abs(sum) = [coef |-> symbol_add(Abs(l1).coef, Abs(l2).coef),
                            data |-> symbol_add(Abs(l1).data, Abs(l2).data)]
<1> DEFINE first == FirstCoef(l1, l2)
           last  == LastCoef(l1, l2)
           n     == Larger(l1.data_size, l2.data_size)
           res   == SumArray(l1, l2)
           coef  == [k \in DOMAIN res.coef |->
                       IF k + res.first_id \in first .. last
                       THEN gf256_add(GetCoef(l1, k + res.first_id),
                                      GetCoef(l2, k + res.first_id))
                       ELSE Zero]
           data  == [k \in DOMAIN res.data |-> ByteSum(l1, l2, k)]
           r     == [res EXCEPT !.coef = coef, !.data = data]
<1>1. /\ first \in Ids /\ last \in Ids /\ first <= last
      /\ first <= l1.first_nonzero_id /\ first <= l2.first_nonzero_id
      /\ l1.first_nonzero_id <= last /\ l2.first_nonzero_id <= last
      /\ first <= l1.last_nonzero_id /\ first <= l2.last_nonzero_id
      /\ l1.last_nonzero_id <= last /\ l2.last_nonzero_id <= last
  <2>1. \A l \in {l1, l2} :
          /\ l.first_nonzero_id \in Ids /\ l.last_nonzero_id \in Ids
          /\ l.first_nonzero_id <= l.last_nonzero_id
    BY Bounds
  <2>2. QED
    BY <2>1, NoneIsOut DEF FirstCoef, LastCoef, Smaller, Larger
<1>2. /\ n \in 0 .. MaxId + 1 /\ l1.data_size <= n /\ l2.data_size <= n
      /\ l1.data_size \in Nat /\ l2.data_size \in Nat
  BY ShapeFacts, NoneIsOut DEF Larger
<1>3. res = Alloc(first, last, n)
  BY DEF SumArray
<1> HIDE DEF first, last, n
<1>4. /\ AllocAsserts(first, last)
      /\ Shaped(res) /\ res.first_id = first /\ res.last_id = last /\ res.data_size = n
  BY <1>1, <1>2, <1>3, AllocCorrect DEF AllocRange
<1>5. AddBaseAsserts(l1, l2, res)
  BY <1>1, <1>2, <1>4, NoneIsOut, ShapeFacts
     DEF AddBaseAsserts, full_symbol_includes_id, AdjustAsserts
<1> HIDE DEF res
<1>6. res.coef \in [0 .. last - first -> F] /\ res.data \in [0 .. n - 1 -> F]
  BY <1>1, <1>4, ShapeFacts, NoneIsOut
<1>7. /\ coef \in [0 .. last - first -> F]
      /\ \A c \in first .. last : coef[c - first] = gf256_add(GetCoef(l1, c), GetCoef(l2, c))
  <2>1. \A c \in first .. last : c \in Ids /\ c - first \in 0 .. last - first
                                /\ (c - first) + first = c
    BY <1>1, NoneIsOut DEF Ids
  <2>2. \A k \in 0 .. last - first : k + first \in first .. last
    BY <1>1, NoneIsOut
  <2>3. \A c \in Ids : gf256_add(GetCoef(l1, c), GetCoef(l2, c)) \in F
    BY Coefficient, FieldAssumption
  <2>4. \A k \in 0 .. last - first :
          coef[k] = gf256_add(GetCoef(l1, k + first), GetCoef(l2, k + first))
    BY <1>4, <1>6, <2>2
  <2>5. DOMAIN coef = 0 .. last - first
    BY <1>6
  <2>6. coef = [k \in 0 .. last - first |-> coef[k]]
    BY <2>5
  <2> HIDE DEF coef
  <2>7. coef \in [0 .. last - first -> F]
    BY <2>1, <2>2, <2>3, <2>4, <2>6
  <2>8. QED
    BY <2>1, <2>4, <2>7
<1>8. /\ data \in [0 .. n - 1 -> F]
      /\ \A k \in 0 .. n - 1 : data[k] = ByteSum(l1, l2, k)
  <2>1. \A k \in 0 .. n - 1 : k \in Ids
    BY <1>2, NoneIsOut DEF Ids
  <2>2. QED
    BY <1>6, <2>1, ByteSums
<1>9. AddBase(l1, l2, res) = AdjustMinMax(r)
  BY DEF AddBase, first, last, FirstCoef, LastCoef
<1> HIDE DEF coef, data
<1>10. res \in Layouts
  BY <1>4 DEF Shaped
<1>11. /\ coef \in ArrayOf((last - first) + 1) /\ (last - first) + 1 \in 1 .. MaxId + 1
       /\ data \in ArrayOf(n)
  <2>1. ((last - first) + 1) - 1 = last - first /\ (last - first) + 1 \in 1 .. MaxId + 1
    BY <1>1, NoneIsOut DEF Ids
  <2>2. QED
    BY <1>7, <1>8, <2>1 DEF ArrayOf
<1>12. /\ r.first_id = first /\ r.last_id = last /\ r.data_size = n
       /\ r.coef = coef /\ r.data = data /\ r \in Layouts
  <2>1. /\ coef \in UNION {ArrayOf(k) : k \in 1 .. MaxId + 1}
        /\ data \in UNION {ArrayOf(k) : k \in 0 .. MaxId + 1}
    BY <1>2, <1>11
  <2>2. QED
    BY <1>4, <1>10, <2>1 DEF Layouts
<1> HIDE DEF r
<1>13. Shaped(r)
  <2>1. AllocatedSize(first, last) = (last - first) + 1
    BY <1>1, NoneIsOut DEF AllocatedSize
  <2>2. QED
    BY <1>4, <1>11, <1>12, <2>1 DEF Shaped
<1>14. Abs(r).coef = symbol_add(Abs(l1).coef, Abs(l2).coef)
  <2>1. ASSUME NEW c \in Ids
        PROVE  GetCoef(r, c) = gf256_add(GetCoef(l1, c), GetCoef(l2, c))
    <3>1. CASE c \in first .. last
      <4>1. full_symbol_includes_id(r, c)
        BY <1>1, <1>12, <3>1, NoneIsOut DEF full_symbol_includes_id
      <4>2. QED
        BY <1>7, <1>12, <3>1, <4>1 DEF GetCoef
    <3>2. CASE c \notin first .. last
      <4>1. ~full_symbol_includes_id(r, c)
        BY <1>1, <1>12, <3>2, NoneIsOut DEF full_symbol_includes_id
      <4>2. c < first \/ c > last
        BY <1>1, <3>2, NoneIsOut
      <4>3. \A l \in {l1, l2} :
              /\ l.first_nonzero_id \in Ids /\ l.last_nonzero_id \in Ids
              /\ c < l.first_nonzero_id \/ c > l.last_nonzero_id
        BY <1>1, <4>2, Bounds, NoneIsOut
      <4>4. GetCoef(l1, c) = Zero /\ GetCoef(l2, c) = Zero
        BY <4>3, Bounds
      <4>5. QED
        BY <4>1, <4>4, FieldAssumption DEF GetCoef
    <3>3. QED
      BY <3>1, <3>2
  <2>2. QED
    BY <2>1, AbsType DEF Abs, symbol_add
<1>15. Abs(r).data = symbol_add(Abs(l1).data, Abs(l2).data)
  <2>1. ASSUME NEW c \in Ids
        PROVE  Payload(r)[c] = gf256_add(Payload(l1)[c], Payload(l2)[c])
    <3>1. c \in Nat /\ n \in Nat
      BY <1>2, NoneIsOut
    <3>2. Payload(r)[c] = IF c < n THEN data[c] ELSE Zero
      BY <1>12 DEF Payload
    <3>3. CASE c < n
      BY <1>8, <3>1, <3>2, <3>3, ByteSums
    <3>4. CASE ~(c < n)
      BY <1>2, <3>1, <3>2, <3>4, ByteSums
    <3>5. QED
      BY <3>3, <3>4
  <2>2. /\ Abs(r).data = Payload(r) /\ Abs(l1).data = Payload(l1) /\ Abs(l2).data = Payload(l2)
        /\ Payload(r) = [c \in Ids |-> Payload(r)[c]]
    BY DEF Abs, Payload
  <2>3. QED
    BY <2>1, <2>2 DEF symbol_add
<1>16. Abs(r) = [coef |-> symbol_add(Abs(l1).coef, Abs(l2).coef),
                 data |-> symbol_add(Abs(l1).data, Abs(l2).data)]
  BY <1>14, <1>15 DEF Abs
<1>17. QED
  BY <1>4, <1>5, <1>9, <1>13, <1>16, AdjustCorrect DEF first, last, res
(***************************************************************************)
(* full_symbol_add: when one operand is zero the other is cloned, of two   *)
(* zero ones a symbol without identifiers or payload comes back.           *)
(***************************************************************************)
LEMMA AddCorrect ==
  ASSUME NEW l1, Shaped(l1), Tight(l1), NEW l2, Shaped(l2), Tight(l2)
  PROVE  /\ AddAsserts(l1, l2)
         /\ Shaped(Add(l1, l2)) /\ Tight(Add(l1, l2))
         /\ Abs(Add(l1, l2)) = full_symbol_add(Abs(l1), Abs(l2))
<1>1. /\ IsZero(l1) <=> full_symbol_is_zero(Abs(l1))
      /\ IsZero(l2) <=> full_symbol_is_zero(Abs(l2))
  BY ZeroTight
<1>2. CASE IsZero(l1) /\ IsZero(l2)
  <2>1. 0 \in 0 .. MaxId + 1 /\ AllocRange(SYMBOL_ID_NONE, SYMBOL_ID_NONE)
    BY MaxIdAssumption DEF AllocRange
  <2>2. LET zero == Alloc(SYMBOL_ID_NONE, SYMBOL_ID_NONE, 0)
        IN  Shaped(zero) /\ Tight(zero) /\ Abs(zero) = ZeroSymbol
    BY <2>1, AllocCorrect
  <2>3. QED
    BY <1>1, <1>2, <2>2 DEF Add, AddAsserts, full_symbol_add, full_symbol_clone
<1>3. CASE IsZero(l1) /\ ~IsZero(l2)
  BY <1>1, <1>3, CloneCorrect DEF Add, AddAsserts, full_symbol_add
<1>4. CASE ~IsZero(l1) /\ IsZero(l2)
  BY <1>1, <1>4, CloneCorrect DEF Add, AddAsserts, full_symbol_add, full_symbol_clone
<1>5. CASE ~IsZero(l1) /\ ~IsZero(l2)
  BY <1>1, <1>5, AddBaseCorrect DEF Add, AddAsserts, full_symbol_add
<1>6. QED
  BY <1>2, <1>3, <1>4, <1>5

(***************************************************************************)
(* The constructors.  A source symbol stands for its unit vector; a repair *)
(* symbol for the coefficients it was given, from its first identifier on. *)
(***************************************************************************)
LEMMA CreateFromSourceCorrect ==
  ASSUME NEW id \in Ids, NEW bytes \in ArrayOf(MaxId + 1)
  PROVE  LET l == CreateFromSource(id, bytes, MaxId + 1)
         IN  /\ Shaped(l) /\ Tight(l)
             /\ Abs(l) = full_symbol_create_from_source(id, [c \in Ids |-> bytes[c]])
<1> DEFINE new == Alloc(id, id, MaxId + 1)
           coef == [new.coef EXCEPT ![0] = One]
           r == [new EXCEPT !.coef = coef, !.data = bytes]
<1>1. id \in Nat /\ id # SYMBOL_ID_NONE /\ id - id = 0 /\ MaxId + 1 \in 0 .. MaxId + 1
  BY NoneIsOut
<1>2. /\ Shaped(new) /\ new.first_id = id /\ new.last_id = id
      /\ new.data_size = MaxId + 1
  <2>1. AllocRange(id, id)
    BY <1>1 DEF AllocRange
  <2>2. QED
    BY <1>1, <2>1, AllocCorrect
<1>3. CreateFromSource(id, bytes, MaxId + 1) = AdjustMinMax(r)
  BY DEF CreateFromSource
<1> HIDE DEF new
<1>4. coef \in ArrayOf(1) /\ coef[0] = One
  <2>1. new.coef \in [0 .. 0 -> F]
    BY <1>1, <1>2, ShapeFacts
  <2>2. \A v \in [0 .. 0 -> F] :
          [v EXCEPT ![0] = One] \in [0 .. 0 -> F] /\ [v EXCEPT ![0] = One][0] = One
    BY FieldAssumption
  <2>3. QED
    BY <2>1, <2>2 DEF ArrayOf
<1> HIDE DEF coef
<1>5. /\ r.first_id = id /\ r.last_id = id /\ r.data_size = MaxId + 1
      /\ r.coef = coef /\ r.data = bytes /\ r \in Layouts
  <2>1. /\ coef \in UNION {ArrayOf(k) : k \in 1 .. MaxId + 1}
        /\ bytes \in UNION {ArrayOf(k) : k \in 0 .. MaxId + 1}
    BY <1>1, <1>4, NoneIsOut
  <2>2. new \in Layouts
    BY <1>2 DEF Shaped
  <2>3. QED
    BY <1>2, <2>1, <2>2 DEF Layouts
<1> HIDE DEF r
<1>6. Shaped(r)
  <2>1. AllocatedSize(id, id) = 1
    BY <1>1 DEF AllocatedSize
  <2>2. AllocAsserts(id, id)
    BY <1>2 DEF Shaped
  <2>3. QED
    BY <1>4, <1>5, <2>1, <2>2 DEF Shaped
<1>7. Abs(r) = full_symbol_create_from_source(id, [c \in Ids |-> bytes[c]])
  <2>1. ASSUME NEW c \in Ids PROVE GetCoef(r, c) = IF c = id THEN One ELSE Zero
    <3>1. c \in Nat /\ (c >= id /\ c <= id <=> c = id)
      BY <1>1, NoneIsOut
    <3>2. GetCoef(r, c) = IF c >= id /\ c <= id THEN coef[c - id] ELSE Zero
      BY <1>5 DEF GetCoef, full_symbol_includes_id
    <3>3. c = id => coef[c - id] = One
      BY <1>1, <1>4
    <3>4. QED
      BY <3>1, <3>2, <3>3
  <2>2. \A c \in Ids : c < r.data_size
    BY <1>5, NoneIsOut
  <2>3. QED
    BY <1>5, <2>1, <2>2
       DEF Abs, Payload, full_symbol_create_from_source, UnitVector
<1>8. QED
  BY <1>3, <1>6, <1>7, AdjustCorrect

LEMMA CreateCorrect ==
  ASSUME NEW min \in Ids, NEW nb \in 1 .. MaxId + 1, min + nb - 1 <= MaxId,
         NEW coefs \in [0 .. nb - 1 -> F], NEW bytes \in ArrayOf(MaxId + 1)
  PROVE  LET l == Create(coefs, min, nb, bytes, MaxId + 1)
         IN  /\ Shaped(l) /\ Tight(l)
             /\ Abs(l) = [coef |-> [c \in Ids |-> IF c \in min .. min + nb - 1
                                                  THEN coefs[c - min] ELSE Zero],
                          data |-> [c \in Ids |-> bytes[c]]]
<1> DEFINE last == min + nb - 1
           new == Alloc(min, last, MaxId + 1)
           r == [new EXCEPT !.coef = coefs, !.data = bytes]
<1>1. /\ last \in Ids /\ min <= last /\ last - min = nb - 1
      /\ min \in Nat /\ nb \in Nat /\ MaxId + 1 \in 0 .. MaxId + 1
  BY NoneIsOut DEF Ids
<1>2. LastCreated(min, nb) = last
  BY <1>1, IdSpanAssumption, MaxIdAssumption DEF LastCreated, Ids
<1>3. [k \in 0 .. nb - 1 |-> coefs[k]] = coefs
  OBVIOUS
<1>4. Create(coefs, min, nb, bytes, MaxId + 1) = AdjustMinMax(r)
  BY <1>2, <1>3 DEF Create
<1> HIDE DEF last
<1>5. AllocRange(min, last)
  BY <1>1 DEF AllocRange
<1>6. /\ Shaped(new) /\ new.first_id = min /\ new.last_id = last
      /\ new.data_size = MaxId + 1
  BY <1>1, <1>5, AllocCorrect
<1> HIDE DEF new
<1>7. coefs \in ArrayOf(nb)
  BY DEF ArrayOf
<1>8. /\ r.first_id = min /\ r.last_id = last /\ r.data_size = MaxId + 1
      /\ r.coef = coefs /\ r.data = bytes /\ r \in Layouts
  <2>1. /\ coefs \in UNION {ArrayOf(k) : k \in 1 .. MaxId + 1}
        /\ bytes \in UNION {ArrayOf(k) : k \in 0 .. MaxId + 1}
    BY <1>7, NoneIsOut
  <2>2. new \in Layouts
    BY <1>6 DEF Shaped
  <2>3. QED
    BY <1>6, <2>1, <2>2 DEF Layouts
<1> HIDE DEF r
<1>9. Shaped(r)
  <2>1. AllocatedSize(min, last) = nb
    BY <1>1, NoneIsOut DEF AllocatedSize
  <2>2. AllocAsserts(min, last)
    BY <1>6 DEF Shaped
  <2>3. QED
    BY <1>7, <1>8, <2>1, <2>2 DEF Shaped
<1>10. Abs(r) = [coef |-> [c \in Ids |-> IF c \in min .. min + nb - 1
                                         THEN coefs[c - min] ELSE Zero],
                 data |-> [c \in Ids |-> bytes[c]]]
  <2>1. ASSUME NEW c \in Ids
        PROVE  GetCoef(r, c) = IF c \in min .. min + nb - 1 THEN coefs[c - min] ELSE Zero
    <3>1. c \in min .. min + nb - 1 <=> c >= min /\ c <= last
      BY <1>1, NoneIsOut DEF last
    <3>2. QED
      BY <1>8, <3>1 DEF GetCoef, full_symbol_includes_id
  <2>2. \A c \in Ids : c < r.data_size
    BY <1>8, NoneIsOut
  <2>3. QED
    BY <1>8, <2>1, <2>2 DEF Abs, Payload
<1>11. QED
  BY <1>4, <1>9, <1>10, AdjustCorrect

(***************************************************************************)
(* The operations of swif_full_symbol_impl.c on symbols implement those of *)
(* module FullSymbol: no assertion in them fails, no index is out of       *)
(* bounds, the bounds of the result are those of its coefficients, and it  *)
(* stands for the symbol the abstract operation returns.                   *)
(***************************************************************************)
THEOREM LayoutImplements ==
  ASSUME NEW l1, Shaped(l1), Tight(l1), NEW l2, Shaped(l2), Tight(l2), NEW a \in F
  PROVE  /\ CloneAsserts(l1) /\ ScaleAsserts(l1) /\ AddAsserts(l1, l2)
         /\ \A r \in {Clone(l1), Scale(l1, a), Add(l1, l2)} : Shaped(r) /\ Tight(r)
         /\ Abs(Clone(l1)) = full_symbol_clone(Abs(l1))
         /\ Abs(Scale(l1, a)) = full_symbol_scale(Abs(l1), a)
         /\ Abs(Add(l1, l2)) = full_symbol_add(Abs(l1), Abs(l2))
BY CloneCorrect, ScaleSafe, ScaleCorrect, AddCorrect

-------------------------------------------------------------------------------
(* malloc returns an address that is not in use.                           *)
LEMMA FreshIsNew ==
  ASSUME NEW h, IsFiniteSet(DOMAIN h)
  PROVE  Fresh(h) \in Nat /\ Fresh(h) \notin DOMAIN h
<1> DEFINE n == Cardinality(DOMAIN h)
<1>1. n \in Nat
  BY FS_CardinalityType
<1>2. \E a \in 1 .. n + 1 : a \notin DOMAIN h
  <2>1. SUFFICES ASSUME 1 .. n + 1 \subseteq DOMAIN h PROVE FALSE
    OBVIOUS
  <2>2. Cardinality(1 .. n + 1) <= n
    BY <2>1, FS_Subset
  <2>3. Cardinality(1 .. n + 1) = IF 1 > n + 1 THEN 0 ELSE (n + 1) - 1 + 1
    BY <1>1, FS_Interval
  <2>4. QED
    BY <1>1, <2>2, <2>3
<1>3. Fresh(h) \in 1 .. n + 1 /\ Fresh(h) \notin DOMAIN h
  BY <1>2 DEF Fresh
<1>4. QED
  BY <1>1, <1>3

LEMMA PutFacts ==
  ASSUME NEW h, NEW l, IsFiniteSet(DOMAIN h)
  PROVE  /\ Fresh(h) \in Nat /\ Fresh(h) \notin DOMAIN h
         /\ DOMAIN Put(h, l) = DOMAIN h \union {Fresh(h)}
         /\ IsFiniteSet(DOMAIN Put(h, l))
         /\ Put(h, l)[Fresh(h)] = l
         /\ \A a \in DOMAIN h : Put(h, l)[a] = h[a]
<1>1. Fresh(h) \in Nat /\ Fresh(h) \notin DOMAIN h
  BY FreshIsNew
<1>2. DOMAIN Put(h, l) = DOMAIN h \union {Fresh(h)}
  BY DEF Put
<1>3. IsFiniteSet(DOMAIN h \union {Fresh(h)})
  BY FS_AddElement
<1>4. QED
  BY <1>1, <1>2, <1>3 DEF Put

LEMMA FreedFacts ==
  ASSUME NEW h, NEW A, IsFiniteSet(DOMAIN h)
  PROVE  /\ DOMAIN Freed(h, A) = DOMAIN h \ A
         /\ IsFiniteSet(DOMAIN Freed(h, A))
         /\ \A a \in DOMAIN h \ A : Freed(h, A)[a] = h[a]
<1>1. DOMAIN Freed(h, A) = DOMAIN h \ A
  BY DEF Freed
<1>2. IsFiniteSet(DOMAIN h \ A)
  BY FS_Subset
<1>3. QED
  BY <1>1, <1>2 DEF Freed

-------------------------------------------------------------------------------
RowSlots == {k \in Slots : full_symbol_tab[k] # NULL}

WellFormed(h) ==
  /\ IsFiniteSet(DOMAIN h)
  /\ \A a \in DOMAIN h : a \in Nat /\ Shaped(h[a]) /\ Tight(h[a])

(* Every pointer is NULL or points to a symbol that is allocated; the      *)
(* symbols in hand exist during a call only.                               *)
PointersValid ==
  /\ full_symbol_tab \in [Slots -> DOMAIN heap \union {NULL}]
  /\ lent_to \in [Ids -> DOMAIN heap \union {NULL}]
  /\ IF pc = "idle" THEN submitted = NULL /\ reduced = NULL
     ELSE submitted \in DOMAIN heap /\ reduced \in DOMAIN heap /\ submitted # reduced

(* No symbol is owned twice, and none that was lost is owned.              *)
OwnedOnce ==
  /\ \A k \in RowSlots :
       /\ full_symbol_tab[k] # submitted /\ full_symbol_tab[k] # reduced
       /\ full_symbol_tab[k] \notin leaked
       /\ \A j \in RowSlots : full_symbol_tab[j] = full_symbol_tab[k] => j = k
  /\ submitted \notin leaked /\ reduced \notin leaked

(* And none is owned by nobody but those lost with the rows that fell off  *)
(* the table.                                                              *)
AllOwned ==
  /\ DOMAIN heap = {full_symbol_tab[k] : k \in RowSlots} \union leaked
                     \union ({submitted, reduced} \ {NULL})
  /\ leaked = {} <=> dropped = {}

(***************************************************************************)
(* A payload the application still has is that of the row of its           *)
(* identifier.  The elimination of a new pivot replaces every row, so the  *)
(* payloads lent before are gone, and those of rows solved by this pivot   *)
(* are of identifiers before it.                                           *)
(***************************************************************************)
Lending ==
  \A id \in Ids : lent_to[id] # NULL =>
    \E k \in RowSlots :
      /\ full_symbol_tab[k] = lent_to[id] /\ first_symbol_id + k = id
      /\ pc = "pivot" /\ k < turn => id < NewId

HeapInv ==
  /\ WellFormed(heap) /\ PointersValid /\ OwnedOnce /\ AllOwned /\ Lending
  /\ ~fault

(* What the invariant says of the system the heap stands for.              *)
LEMMA SystemTypes ==
  ASSUME P!IInv
  PROVE  /\ size \in Nat \ {0} /\ IdSpan \in Nat \ {0} /\ MaxId \in Nat
         /\ FULL_SYMBOL_SET_INITIAL_SIZE \in Nat
         /\ size <= FULL_SYMBOL_SET_INITIAL_SIZE + 2 * MaxId + 1
         /\ first_symbol_id \in Nat /\ first_symbol_id \in Ids \union {SYMBOL_ID_NONE}
         /\ turn \in Nat /\ pc \in {"idle", "remove", "pivot", "crashed"}
         /\ is_zero \in BOOLEAN
         /\ notified \in [Ids -> Nat]
         /\ known \subseteq Vector /\ dropped \subseteq Ids
BY SystemOperators, NoneIsOut, IdSpanAssumption, InitialSizeAssumption
   DEF P!IInv, P!TypeOK, P!SizeBound

LEMMA TableFacts ==
  ASSUME HeapInv
  PROVE  /\ P!Slots = Slots /\ P!Rows = RowSlots
         /\ \A k \in Slots : Table[k] = NULL <=> full_symbol_tab[k] = NULL
         /\ \A k \in RowSlots :
              /\ full_symbol_tab[k] \in DOMAIN heap
              /\ Table[k] = Abs(heap[full_symbol_tab[k]])
              /\ Table[k] \in FullSymbols
         /\ NULL \notin DOMAIN heap
<1>1. P!Slots = Slots
  BY DEF P!Slots, Slots
<1>2. NULL \notin DOMAIN heap
  BY NullAssumption DEF HeapInv, WellFormed
<1>3. \A k \in RowSlots :
         /\ full_symbol_tab[k] \in DOMAIN heap
         /\ Table[k] = Abs(heap[full_symbol_tab[k]])
         /\ Table[k] \in FullSymbols
  BY AbsType DEF HeapInv, PointersValid, WellFormed, RowSlots, Table
<1>4. \A k \in Slots : Table[k] = NULL <=> full_symbol_tab[k] = NULL
  BY <1>3, NullAssumption DEF RowSlots, Table
<1>5. P!Rows = RowSlots
  BY <1>1, <1>4 DEF P!Rows, RowSlots
<1>6. QED
  BY <1>1, <1>2, <1>3, <1>4, <1>5

(* The symbols in hand during a call.                                      *)
LEMMA InHandFacts ==
  ASSUME HeapInv, pc # "idle"
  PROVE  /\ reduced \in DOMAIN heap /\ submitted \in DOMAIN heap /\ submitted # reduced
         /\ reduced # NULL /\ submitted # NULL
         /\ Shaped(heap[reduced]) /\ Tight(heap[reduced])
         /\ Shaped(heap[submitted]) /\ Tight(heap[submitted])
         /\ At(reduced) = Abs(heap[reduced]) /\ At(submitted) = Abs(heap[submitted])
         /\ At(reduced) \in FullSymbols /\ At(submitted) \in FullSymbols
<1>1. reduced \in DOMAIN heap /\ submitted \in DOMAIN heap /\ submitted # reduced
  BY DEF HeapInv, PointersValid
<1>2. reduced # NULL /\ submitted # NULL
  BY <1>1, TableFacts
<1>3. At(reduced) = Abs(heap[reduced]) /\ At(submitted) = Abs(heap[submitted])
  BY <1>2 DEF At
<1>4. QED
  BY <1>1, <1>2, <1>3, AbsType DEF HeapInv, WellFormed

(* Far from the end of the uint32_t range, a row is looked up in its slot. *)
LEMMA PivotAt ==
  ASSUME P!NoWrap, NEW tab, NEW first \in Ids, NEW n \in Nat,
         n <= FULL_SYMBOL_SET_INITIAL_SIZE + 2 * MaxId + 1, NEW k \in 0 .. n - 1
  PROVE  Pivot(tab, first, n, first + k) = tab[k]
<1>1. first \in Nat /\ first <= MaxId /\ IdSpan \in Nat /\ MaxId \in Nat
      /\ FULL_SYMBOL_SET_INITIAL_SIZE \in Nat
  BY NoneIsOut, IdSpanAssumption, InitialSizeAssumption
<1>2. n + first < IdSpan
  BY <1>1 DEF P!NoWrap
<1>3. (n + first) % IdSpan = n + first
  BY <1>1, <1>2
<1>4. QED
  BY <1>1, <1>3 DEF Pivot

LEMMA PivotFacts ==
  ASSUME HeapInv, P!IInv, NEW id \in Nat
  PROVE  LET pivot == Pivot(full_symbol_tab, first_symbol_id, size, id)
         IN  /\ P!full_symbol_set_get_pivot(id) = NULL <=> pivot = NULL
             /\ pivot # NULL =>
                  /\ id - first_symbol_id \in RowSlots
                  /\ pivot = full_symbol_tab[id - first_symbol_id]
                  /\ P!full_symbol_set_get_pivot(id) = Table[id - first_symbol_id]
<1>1. CASE id >= first_symbol_id /\ id < (size + first_symbol_id) % IdSpan
  <2>1. /\ P!full_symbol_set_get_pivot(id) = Table[id - first_symbol_id]
        /\ Pivot(full_symbol_tab, first_symbol_id, size, id)
              = full_symbol_tab[id - first_symbol_id]
    BY <1>1 DEF P!full_symbol_set_get_pivot, Pivot
  <2>2. (size + first_symbol_id) % IdSpan <= size + first_symbol_id
    BY SystemTypes
  <2>3. id - first_symbol_id \in Slots
    BY <1>1, <2>2, SystemTypes DEF Slots
  <2>4. QED
    BY <2>1, <2>3, TableFacts DEF RowSlots
<1>2. CASE ~(id >= first_symbol_id /\ id < (size + first_symbol_id) % IdSpan)
  BY <1>2 DEF P!full_symbol_set_get_pivot, Pivot
<1>3. QED
  BY <1>1, <1>2

(* Rows whose symbols are left alone make the same table.                  *)
LEMMA TableKept ==
  ASSUME HeapInv, UNCHANGED <<size, full_symbol_tab>>,
         \A k \in RowSlots : heap'[full_symbol_tab[k]] = heap[full_symbol_tab[k]]
  PROVE  Table' = Table
BY DEF Table, Slots, RowSlots

-------------------------------------------------------------------------------
(* A symbol that is created is well laid out, and honest.                  *)
LEMMA InputFacts ==
  ASSUME NEW l \in Inputs
  PROVE  /\ Shaped(l) /\ Tight(l)
         /\ \E v \in Vector : Abs(l) = P!Honest(v)
<1>1. MaxId \in Nat /\ Ids = 0 .. MaxId /\ ArrayOf(MaxId + 1) = Vector
  BY MaxIdAssumption DEF Ids, ArrayOf, Vector
<1>2. ASSUME NEW id \in Sources, l = CreateFromSource(id, UnitVector(id), MaxId + 1)
      PROVE  /\ Shaped(l) /\ Tight(l)
             /\ \E v \in Vector : Abs(l) = P!Honest(v)
  <2>1. id \in Ids /\ UnitVector(id) \in Vector
    BY VectorOps, SourcesAssumption
  <2>2. /\ Shaped(l) /\ Tight(l)
        /\ Abs(l) = full_symbol_create_from_source(id, [c \in Ids |-> UnitVector(id)[c]])
    BY <1>1, <1>2, <2>1, CreateFromSourceCorrect
  <2>3. [c \in Ids |-> UnitVector(id)[c]] = UnitVector(id)
    BY DEF UnitVector
  <2>4. QED
    BY <2>1, <2>2, <2>3 DEF full_symbol_create_from_source, P!Honest
<1>3. ASSUME NEW w \in Windows, NEW coefs \in [0 .. w.nb - 1 -> F],
             l = Create(coefs, w.min, w.nb,
                        [c \in Ids |-> IF c \in w.min .. w.min + w.nb - 1
                                       THEN coefs[c - w.min] ELSE Zero],
                        MaxId + 1)
      PROVE  /\ Shaped(l) /\ Tight(l)
             /\ \E v \in Vector : Abs(l) = P!Honest(v)
  <2> DEFINE bytes == [c \in Ids |-> IF c \in w.min .. w.min + w.nb - 1
                                     THEN coefs[c - w.min] ELSE Zero]
  <2>1. w.min \in Ids /\ w.nb \in 1 .. MaxId + 1 /\ w.min + w.nb - 1 <= MaxId
    BY WindowsAssumption
  <2>2. bytes \in Vector
    <3>1. \A c \in Ids : c \in w.min .. w.min + w.nb - 1 => c - w.min \in 0 .. w.nb - 1
      BY <1>1, <2>1
    <3>2. \A c \in Ids : (IF c \in w.min .. w.min + w.nb - 1
                          THEN coefs[c - w.min] ELSE Zero) \in F
      BY <3>1, FieldAssumption
    <3>3. QED
      BY <3>2 DEF Vector
  <2>3. /\ Shaped(l) /\ Tight(l)
        /\ Abs(l) = [coef |-> [c \in Ids |-> IF c \in w.min .. w.min + w.nb - 1
                                             THEN coefs[c - w.min] ELSE Zero],
                     data |-> [c \in Ids |-> bytes[c]]]
    <3>1. l = Create(coefs, w.min, w.nb, bytes, MaxId + 1) /\ bytes \in ArrayOf(MaxId + 1)
      BY <1>1, <1>3, <2>2
    <3> HIDE DEF bytes
    <3>2. QED
      BY <2>1, <3>1, CreateCorrect
  <2>4. [c \in Ids |-> bytes[c]] = bytes
    OBVIOUS
  <2>5. Abs(l) = P!Honest(bytes)
    BY <2>3, <2>4 DEF P!Honest
  <2>6. QED
    BY <2>2, <2>3, <2>5
<1>4. QED
  BY <1>2, <1>3 DEF Inputs, SourceSymbols, RepairSymbols

LEMMA SubmitSim ==
  ASSUME HeapInv, P!IInv, NEW l \in Inputs, Submit(l)
  PROVE  P!Next /\ HeapInv'
<1> DEFINE h1 == Put(heap, l)
           h2 == Put(h1, Clone(l))
<1>1. /\ pc = "idle" /\ ~IsZero(l) /\ heap' = h2
      /\ submitted' = Fresh(heap) /\ reduced' = Fresh(h1)
      /\ turn' = l.first_nonzero_id /\ is_zero' = TRUE /\ pc' = "remove"
      /\ known' = SpanWith(known, Abs(l).coef) /\ fault' = ~CloneAsserts(l)
      /\ UNCHANGED <<size, first_symbol_id, full_symbol_tab, notified, lent_to, dropped,
                     leaked>>
  BY DEF Submit, set, application
<1>2. Shaped(l) /\ Tight(l)
  BY InputFacts
<1>3. PICK v \in Vector : Abs(l) = P!Honest(v)
  BY InputFacts
<1>4. /\ CloneAsserts(l) /\ Shaped(Clone(l)) /\ Tight(Clone(l))
      /\ Abs(Clone(l)) = full_symbol_clone(Abs(l))
  BY <1>2, CloneCorrect
<1>5. /\ submitted' \in Nat /\ submitted' \notin DOMAIN heap
      /\ DOMAIN h1 = DOMAIN heap \union {submitted'} /\ IsFiniteSet(DOMAIN h1)
      /\ h1[submitted'] = l /\ \A a \in DOMAIN heap : h1[a] = heap[a]
  BY <1>1, PutFacts DEF HeapInv, WellFormed
<1> HIDE DEF h1
<1>6. /\ reduced' \in Nat /\ reduced' \notin DOMAIN h1
      /\ DOMAIN heap' = DOMAIN h1 \union {reduced'} /\ IsFiniteSet(DOMAIN heap')
      /\ heap'[reduced'] = Clone(l) /\ \A a \in DOMAIN h1 : heap'[a] = h1[a]
  <2>1. /\ Fresh(h1) \in Nat /\ Fresh(h1) \notin DOMAIN h1
        /\ DOMAIN h2 = DOMAIN h1 \union {Fresh(h1)} /\ IsFiniteSet(DOMAIN h2)
        /\ h2[Fresh(h1)] = Clone(l) /\ \A a \in DOMAIN h1 : h2[a] = h1[a]
    <3>1. IsFiniteSet(DOMAIN h1)
      BY <1>5
    <3>2. QED
      BY <3>1, PutFacts, Zenon
  <2> HIDE DEF h2
  <2>2. QED
    BY <1>1, <2>1
<1> HIDE DEF h2
<1>7. /\ submitted' # NULL /\ reduced' # NULL
      /\ At(submitted)' = Abs(l) /\ At(reduced)' = full_symbol_clone(Abs(l))
  BY <1>4, <1>5, <1>6, NullAssumption DEF At
<1>8. Table' = Table
  BY <1>1, <1>5, <1>6, TableFacts, TableKept
<1>9. P!Next
  <2>1. ~full_symbol_is_zero(Abs(l)) /\ turn' = first_nonzero_id(Abs(l))
    BY <1>1, <1>2, ZeroTight DEF Tight
  <2>2. {id \in Ids : lent_to[id] # NULL}' = {id \in Ids : lent_to[id] # NULL}
    BY <1>1
  <2>3. P!AddWithElimination(P!Honest(v))
    BY <1>1, <1>3, <1>7, <1>8, <2>1, <2>2, SystemOperators
       DEF P!AddWithElimination, P!set, P!application
  <2>4. QED
    BY <2>3, SystemOperators DEF P!Next
<1>10. WellFormed(heap')
  <2>1. ASSUME NEW a \in DOMAIN heap'
        PROVE  a \in Nat /\ Shaped(heap'[a]) /\ Tight(heap'[a])
    <3>1. a = reduced' \/ a = submitted' \/ a \in DOMAIN heap
      BY <1>5, <1>6
    <3>2. QED
      BY <1>2, <1>4, <1>5, <1>6, <3>1 DEF HeapInv, WellFormed
  <2>2. QED
    BY <1>6, <2>1 DEF WellFormed
<1>11. RowSlots' = RowSlots /\ Slots' = Slots
  BY <1>1 DEF RowSlots, Slots
<1>12. PointersValid'
  BY <1>1, <1>5, <1>6, <1>11 DEF HeapInv, PointersValid
<1>13. OwnedOnce'
  <2>1. leaked \subseteq DOMAIN heap
    BY DEF HeapInv, AllOwned
  <2>2. QED
    BY <1>1, <1>5, <1>6, <1>11, <2>1, TableFacts DEF HeapInv, OwnedOnce
<1>14. AllOwned'
  BY <1>1, <1>5, <1>6, <1>7, <1>11 DEF HeapInv, AllOwned, PointersValid
<1>15. Lending'
  BY <1>1, <1>11 DEF HeapInv, Lending
<1>16. QED
  BY <1>1, <1>4, <1>9, <1>10, <1>12, <1>13, <1>14, <1>15 DEF HeapInv

-------------------------------------------------------------------------------
(* The symbol worked on is replaced, in place or by one allocated since,   *)
(* before the elimination of the new pivot begins.                         *)
LEMMA HandReplaced ==
  ASSUME HeapInv, pc # "idle", pc' # "idle", pc' = "pivot" => turn' = 0, ~fault',
         UNCHANGED <<size, first_symbol_id, full_symbol_tab, lent_to, dropped, leaked,
                     submitted>>,
         NEW l, Shaped(l), Tight(l),
         reduced' \in Nat, reduced' = reduced \/ reduced' \notin DOMAIN heap,
         IsFiniteSet(DOMAIN heap'),
         DOMAIN heap' = (DOMAIN heap \ {reduced}) \union {reduced'},
         heap'[reduced'] = l, \A a \in DOMAIN heap \ {reduced} : heap'[a] = heap[a]
  PROVE  /\ HeapInv' /\ Table' = Table
         /\ At(submitted)' = At(submitted) /\ At(reduced)' = Abs(l)
<1>1. /\ submitted \in DOMAIN heap /\ reduced \in DOMAIN heap /\ submitted # reduced
      /\ submitted # NULL /\ reduced # NULL /\ reduced' # NULL
  BY InHandFacts, NullAssumption
<1>2. \A k \in RowSlots : full_symbol_tab[k] \in DOMAIN heap \ {reduced}
  BY TableFacts DEF HeapInv, OwnedOnce
<1>3. Table' = Table
  BY <1>2, TableKept
<1>4. At(submitted)' = At(submitted) /\ At(reduced)' = Abs(l)
  BY <1>1 DEF At
<1>5. RowSlots' = RowSlots /\ Slots' = Slots
  BY DEF RowSlots, Slots
<1>6. WellFormed(heap')
  <2>1. ASSUME NEW a \in DOMAIN heap'
        PROVE  a \in Nat /\ Shaped(heap'[a]) /\ Tight(heap'[a])
    <3>1. a = reduced' \/ a \in DOMAIN heap \ {reduced}
      OBVIOUS
    <3>2. QED
      BY <3>1 DEF HeapInv, WellFormed
  <2>2. QED
    BY <2>1 DEF WellFormed
<1>7. \A id \in Ids : lent_to[id] \in DOMAIN heap' \union {NULL}
  BY <1>2 DEF HeapInv, Lending
<1>8. PointersValid'
  <2>1. full_symbol_tab' \in [Slots -> DOMAIN heap' \union {NULL}]
    BY <1>2 DEF HeapInv, PointersValid, RowSlots
  <2>2. lent_to' \in [Ids -> DOMAIN heap' \union {NULL}]
    BY <1>7 DEF HeapInv, PointersValid
  <2>3. submitted' \in DOMAIN heap' /\ reduced' \in DOMAIN heap' /\ submitted' # reduced'
    BY <1>1
  <2>4. QED
    BY <1>5, <2>1, <2>2, <2>3 DEF PointersValid
<1>9. OwnedOnce'
  <2>1. leaked \subseteq DOMAIN heap /\ reduced \notin leaked
    BY DEF HeapInv, AllOwned, OwnedOnce
  <2>2. reduced' \notin leaked
    BY <2>1
  <2>3. QED
    BY <1>1, <1>2, <1>5, <2>2 DEF HeapInv, OwnedOnce
<1>10. AllOwned'
  <2>1. /\ DOMAIN heap = {full_symbol_tab[k] : k \in RowSlots} \union leaked
                           \union {submitted, reduced}
        /\ leaked = {} <=> dropped = {}
        /\ reduced \notin leaked
    BY <1>1 DEF HeapInv, AllOwned, OwnedOnce
  <2>2. DOMAIN heap' = {full_symbol_tab[k] : k \in RowSlots} \union leaked
                         \union {submitted, reduced'}
    BY <1>1, <1>2, <2>1
  <2>3. QED
    BY <1>1, <1>5, <2>1, <2>2 DEF AllOwned
<1>11. Lending'
  <2>1. \A k \in RowSlots : k \in Nat
    BY DEF RowSlots, Slots
  <2>2. QED
    BY <1>5, <2>1 DEF HeapInv, Lending
<1>12. QED
  BY <1>3, <1>4, <1>6, <1>8, <1>9, <1>10, <1>11 DEF HeapInv

(* A row in the middle of the reduction is not zero.                       *)
LEMMA RowNonzero ==
  ASSUME HeapInv, P!IInv, pc # "pivot", NEW k \in RowSlots
  PROVE  ~full_symbol_is_zero(Table[k])
<1>1. k \in P!Rows /\ Table[k] \in FullSymbols
  BY TableFacts
<1>2. P!PivotOf(k) \in Ids /\ Table[k].coef[P!PivotOf(k)] = One
  BY <1>1, SystemOperators DEF P!IInv, P!RowsEchelon, P!Vanished, P!EchelonRow
<1>3. QED
  BY <1>1, <1>2, NonzeroRange, FieldAssumption

LEMMA RemovePivotSim ==
  ASSUME HeapInv, P!IInv, RemovePivot
  PROVE  P!RemovePivot /\ HeapInv'
<1> DEFINE coef  == GetCoef(heap[reduced], turn)
           pivot == Pivot(full_symbol_tab, first_symbol_id, size, turn)
<1>1. /\ pc = "remove" /\ turn <= heap[reduced].last_nonzero_id /\ turn' = turn + 1
      /\ UNCHANGED <<size, first_symbol_id, full_symbol_tab, pc, submitted, notified,
                     lent_to, known, dropped, leaked>>
  BY DEF RemovePivot, set, application
<1>2. /\ reduced \in DOMAIN heap /\ submitted # reduced /\ Shaped(heap[reduced])
      /\ Tight(heap[reduced]) /\ At(reduced) = Abs(heap[reduced])
      /\ At(reduced) \in FullSymbols
  BY <1>1, InHandFacts
<1>3. heap[reduced].last_nonzero_id = last_nonzero_id(At(reduced))
  BY <1>2 DEF Tight
<1>4. turn \in Ids /\ turn \in Nat
  <2>1. ~full_symbol_is_zero(At(reduced))
    BY <1>1, SystemOperators DEF P!IInv, P!Removing
  <2>2. last_nonzero_id(At(reduced)) \in Ids
    BY <1>2, <2>1, NonzeroRange
  <2>3. QED
    BY <1>1, <1>3, <2>2, SystemTypes DEF Ids
<1>5. coef \in F /\ P!full_symbol_get_coef(At(reduced), turn) = coef
  BY <1>2, <1>4, Coefficient, AbsType, SystemOperators DEF full_symbol_get_coef
<1>6. P!full_symbol_set_get_pivot(turn) = NULL <=> pivot = NULL
  BY <1>4, PivotFacts
<1>7. {id \in Ids : lent_to[id] # NULL}' = {id \in Ids : lent_to[id] # NULL}
  BY <1>1
<1>8. CASE coef = Zero \/ pivot = NULL
  <2>1. /\ UNCHANGED <<heap, reduced, fault>>
        /\ \/ coef = Zero /\ UNCHANGED is_zero
           \/ coef # Zero /\ pivot = NULL /\ is_zero' = FALSE
    BY <1>8 DEF RemovePivot
  <2>2. /\ HeapInv' /\ Table' = Table
        /\ At(submitted)' = At(submitted) /\ At(reduced)' = At(reduced)
    BY <1>1, <1>2, <2>1, HandReplaced DEF HeapInv, WellFormed
  <2>3. P!RemovePivot
    <3> HIDE DEF coef, pivot
    <3>1. QED
      BY <1>1, <1>2, <1>3, <1>5, <1>6, <1>7, <2>1, <2>2, SystemOperators
         DEF P!RemovePivot, P!set, P!application
  <2>4. QED
    BY <2>2, <2>3
<1>9. CASE coef # Zero /\ pivot # NULL
  <2> DEFINE clone == Fresh(heap)
             multiple == Scale(Clone(heap[pivot]), coef)
             h1 == Put(heap, multiple)
             total == Add(heap[reduced], multiple)
             sum == Fresh(h1)
             h2 == Put(h1, total)
             row == Table[turn - first_symbol_id]
  <2>1. /\ turn - first_symbol_id \in RowSlots
        /\ pivot = full_symbol_tab[turn - first_symbol_id]
        /\ P!full_symbol_set_get_pivot(turn) = row
    BY <1>4, <1>9, PivotFacts
  <2>2. /\ pivot \in DOMAIN heap /\ Shaped(heap[pivot]) /\ Tight(heap[pivot])
        /\ row = Abs(heap[pivot])
    BY <2>1, TableFacts DEF HeapInv, WellFormed
  <2>3. full_symbol_clone(row) = row
    BY <1>1, <2>1, RowNonzero DEF full_symbol_clone
  <2>4. /\ CloneAsserts(heap[pivot]) /\ ScaleAsserts(Clone(heap[pivot]))
        /\ Shaped(multiple) /\ Tight(multiple)
        /\ Abs(multiple) = full_symbol_scale(row, coef)
    <3>1. /\ CloneAsserts(heap[pivot]) /\ Shaped(Clone(heap[pivot]))
          /\ Tight(Clone(heap[pivot])) /\ Abs(Clone(heap[pivot])) = row
      BY <2>2, <2>3, CloneCorrect
    <3> HIDE DEF coef, pivot, row
    <3>2. QED
      BY <1>5, <3>1, ScaleSafe, ScaleCorrect
  <2> HIDE DEF multiple
  <2>5. /\ AddAsserts(heap[reduced], multiple) /\ Shaped(total) /\ Tight(total)
        /\ Abs(total) = full_symbol_add(At(reduced), full_symbol_scale(row, coef))
    BY <1>2, <2>4, AddCorrect
  <2>6. /\ clone \in Nat /\ clone \notin DOMAIN heap
        /\ DOMAIN h1 = DOMAIN heap \union {clone} /\ IsFiniteSet(DOMAIN h1)
        /\ h1[clone] = multiple /\ \A a \in DOMAIN heap : h1[a] = heap[a]
    <3>1. IsFiniteSet(DOMAIN heap)
      BY DEF HeapInv, WellFormed
    <3>2. QED
      BY <3>1, PutFacts, Zenon
  <2>7. LET h3 == Put(h1, Add(h1[reduced], h1[clone]))
        IN  /\ KeepSum(h3, reduced, clone, sum)
            /\ fault' = ~(/\ CloneAsserts(heap[pivot]) /\ ScaleAsserts(Clone(heap[pivot]))
                          /\ AddAsserts(h1[reduced], h1[clone])
                          /\ CanFree(h3, Spare(h3, reduced, sum), clone))
            /\ UNCHANGED is_zero
    BY <1>9 DEF RemovePivot, multiple
  <2> HIDE DEF h1, coef, pivot, row
  <2>8. h1[reduced] = heap[reduced] /\ h1[clone] = multiple
    BY <1>2, <2>6
  <2>9. /\ KeepSum(h2, reduced, clone, sum) /\ UNCHANGED is_zero
        /\ CanFree(h2, Spare(h2, reduced, sum), clone) => ~fault'
    BY <2>4, <2>5, <2>7, <2>8
  <2> HIDE DEF clone, total
  <2>10. /\ sum \in Nat /\ sum \notin DOMAIN h1
         /\ DOMAIN h2 = DOMAIN h1 \union {sum} /\ IsFiniteSet(DOMAIN h2)
         /\ h2[sum] = total /\ \A a \in DOMAIN h1 : h2[a] = h1[a]
    <3>1. IsFiniteSet(DOMAIN h1)
      BY <2>6
    <3>2. QED
      BY <3>1, PutFacts, Zenon
  <2> HIDE DEF h2, sum
  <2>11. ~fault'
    <3>1. Spare(h2, reduced, sum) \in {sum, reduced}
      BY DEF Spare
    <3>2. QED
      BY <1>2, <2>6, <2>9, <2>10, <3>1 DEF CanFree
  <2>12. IsZero(h2[sum]) <=> full_symbol_is_zero(Abs(total))
    BY <2>5, <2>10, ZeroTight
  <2>13. CASE IsZero(h2[sum])
    <3>1. reduced' = reduced /\ heap' = Freed(h2, {sum, clone})
      BY <2>9, <2>13 DEF KeepSum, Spare
    <3>2. /\ DOMAIN heap' = DOMAIN h2 \ {sum, clone} /\ IsFiniteSet(DOMAIN heap')
          /\ \A a \in DOMAIN h2 \ {sum, clone} : heap'[a] = h2[a]
      BY <2>10, <3>1, FreedFacts
    <3>3. DOMAIN heap' = DOMAIN heap /\ \A a \in DOMAIN heap : heap'[a] = heap[a]
      BY <2>6, <2>10, <3>2
    <3>4. /\ HeapInv' /\ Table' = Table
          /\ At(submitted)' = At(submitted) /\ At(reduced)' = Abs(heap[reduced])
      BY <1>1, <1>2, <2>11, <3>1, <3>2, <3>3, HandReplaced DEF HeapInv, WellFormed
    <3>5. P!RemovePivot
      BY <1>1, <1>2, <1>3, <1>5, <1>6, <1>7, <1>9, <2>1, <2>5, <2>9, <2>12, <2>13,
         <3>4, SystemOperators
         DEF P!RemovePivot, P!set, P!application
    <3>6. QED
      BY <3>4, <3>5
  <2>14. CASE ~IsZero(h2[sum])
    <3>1. reduced' = sum /\ heap' = Freed(h2, {reduced, clone})
      BY <2>9, <2>14 DEF KeepSum, Spare
    <3>2. /\ DOMAIN heap' = DOMAIN h2 \ {reduced, clone} /\ IsFiniteSet(DOMAIN heap')
          /\ \A a \in DOMAIN h2 \ {reduced, clone} : heap'[a] = h2[a]
      <4>1. IsFiniteSet(DOMAIN h2)
        BY <2>10
      <4>2. QED
        BY <3>1, <4>1, FreedFacts, Zenon
    <3>3. /\ DOMAIN heap' = (DOMAIN heap \ {reduced}) \union {sum}
          /\ heap'[sum] = total /\ \A a \in DOMAIN heap \ {reduced} : heap'[a] = heap[a]
          /\ sum \notin DOMAIN heap
      BY <1>2, <2>6, <2>10, <3>2
    <3>4. /\ HeapInv' /\ Table' = Table
          /\ At(submitted)' = At(submitted) /\ At(reduced)' = Abs(total)
      BY <1>1, <1>2, <2>5, <2>10, <2>11, <3>1, <3>2, <3>3, HandReplaced
    <3>5. P!RemovePivot
      BY <1>1, <1>2, <1>3, <1>5, <1>6, <1>7, <1>9, <2>1, <2>5, <2>9, <2>12, <2>14,
         <3>4, SystemOperators
         DEF P!RemovePivot, P!set, P!application
    <3>6. QED
      BY <3>4, <3>5
  <2>15. QED
    BY <2>13, <2>14
<1>10. QED
  BY <1>8, <1>9

LEMMA RedundantSim ==
  ASSUME HeapInv, P!IInv, Redundant
  PROVE  P!Redundant /\ HeapInv'
<1>1. /\ pc = "remove" /\ turn > heap[reduced].last_nonzero_id /\ is_zero
      /\ pc' = "idle" /\ submitted' = NULL /\ reduced' = NULL /\ turn' = 0 /\ is_zero' = TRUE
      /\ heap' = Freed(heap, {reduced, submitted})
      /\ fault' = ~CanFree(heap, reduced, submitted)
      /\ UNCHANGED <<size, first_symbol_id, full_symbol_tab, notified, lent_to, known,
                     dropped, leaked>>
  BY DEF Redundant, Return, set, application
<1>2. /\ reduced \in DOMAIN heap /\ submitted \in DOMAIN heap /\ submitted # reduced
      /\ reduced # NULL /\ submitted # NULL /\ Shaped(heap[reduced])
      /\ Tight(heap[reduced]) /\ At(reduced) = Abs(heap[reduced])
  BY <1>1, InHandFacts
<1>3. /\ DOMAIN heap' = DOMAIN heap \ {reduced, submitted} /\ IsFiniteSet(DOMAIN heap')
      /\ \A a \in DOMAIN heap \ {reduced, submitted} : heap'[a] = heap[a]
  <2>1. IsFiniteSet(DOMAIN heap)
    BY DEF HeapInv, WellFormed
  <2>2. QED
    BY <1>1, <2>1, FreedFacts, Zenon
<1>4. \A k \in RowSlots : full_symbol_tab[k] \in DOMAIN heap \ {reduced, submitted}
  BY TableFacts DEF HeapInv, OwnedOnce
<1>5. Table' = Table
  BY <1>1, <1>3, <1>4, TableKept
<1>6. P!Redundant
  <2>1. heap[reduced].last_nonzero_id = last_nonzero_id(At(reduced))
    BY <1>2 DEF Tight
  <2>2. At(submitted)' = ZeroSymbol /\ At(reduced)' = ZeroSymbol
    BY <1>1 DEF At
  <2>3. {id \in Ids : lent_to[id] # NULL}' = {id \in Ids : lent_to[id] # NULL}
    BY <1>1
  <2>4. QED
    BY <1>1, <1>5, <2>1, <2>2, <2>3, SystemOperators
       DEF P!Redundant, P!Return, P!set, P!application
<1>7. RowSlots' = RowSlots /\ Slots' = Slots
  BY <1>1 DEF RowSlots, Slots
<1>8. WellFormed(heap')
  BY <1>3 DEF HeapInv, WellFormed
<1>9. PointersValid'
  <2>1. full_symbol_tab' \in [Slots -> DOMAIN heap' \union {NULL}]
    BY <1>1, <1>3, <1>4 DEF HeapInv, PointersValid, RowSlots
  <2>2. lent_to' \in [Ids -> DOMAIN heap' \union {NULL}]
    BY <1>1, <1>3, <1>4 DEF HeapInv, PointersValid, Lending
  <2>3. QED
    BY <1>1, <1>7, <2>1, <2>2 DEF PointersValid
<1>10. OwnedOnce'
  <2>1. NULL \notin leaked
    BY TableFacts DEF HeapInv, AllOwned
  <2>2. QED
    BY <1>1, <1>7, <2>1 DEF HeapInv, OwnedOnce, RowSlots
<1>11. AllOwned'
  <2>1. /\ DOMAIN heap = {full_symbol_tab[k] : k \in RowSlots} \union leaked
                           \union {submitted, reduced}
        /\ leaked = {} <=> dropped = {}
        /\ reduced \notin leaked /\ submitted \notin leaked
    BY <1>2 DEF HeapInv, AllOwned, OwnedOnce
  <2>2. DOMAIN heap' = {full_symbol_tab[k] : k \in RowSlots} \union leaked
    BY <1>3, <1>4, <2>1
  <2>3. QED
    BY <1>1, <1>7, <2>1, <2>2 DEF AllOwned
<1>12. Lending'
  BY <1>1, <1>7 DEF HeapInv, Lending
<1>13. ~fault'
  BY <1>1, <1>2 DEF CanFree
<1>14. QED
  BY <1>13, <1>6, <1>8, <1>9, <1>10, <1>11, <1>12 DEF HeapInv

LEMMA AddAsPivotSim ==
  ASSUME HeapInv, P!IInv, AddAsPivot
  PROVE  P!AddAsPivot /\ HeapInv'
<1> DEFINE l == heap[reduced]
           coef == GetCoef(l, l.first_nonzero_id)
           normal == Scale(l, gf256_inv(coef))
<1>1. /\ pc = "remove" /\ turn > l.last_nonzero_id /\ ~is_zero
      /\ heap' = [heap EXCEPT ![reduced] = normal]
      /\ pc' = "pivot" /\ turn' = 0
      /\ UNCHANGED <<size, first_symbol_id, full_symbol_tab, submitted, reduced, is_zero,
                     notified, lent_to, known, dropped, leaked>>
      /\ fault' = ~ScaleAsserts(l)
  BY DEF AddAsPivot, set, application
<1>2. /\ reduced \in DOMAIN heap /\ Shaped(l) /\ Tight(l) /\ At(reduced) = Abs(l)
      /\ At(reduced) \in FullSymbols
  BY <1>1, InHandFacts
<1>3. /\ l.first_nonzero_id = first_nonzero_id(At(reduced))
      /\ l.last_nonzero_id = last_nonzero_id(At(reduced))
  BY <1>2 DEF Tight
<1>4. ~full_symbol_is_zero(At(reduced))
  BY <1>1, SystemOperators DEF P!IInv, P!Removing
<1>5. l.first_nonzero_id \in Ids /\ At(reduced).coef[l.first_nonzero_id] # Zero
  BY <1>2, <1>3, <1>4, NonzeroRange
<1>6. /\ coef = full_symbol_get_coef(At(reduced), first_nonzero_id(At(reduced)))
      /\ coef \in F \ {Zero}
  BY <1>2, <1>3, <1>5, Coefficient, AbsType DEF full_symbol_get_coef
<1>7. /\ Shaped(normal) /\ Tight(normal)
      /\ Abs(normal) = full_symbol_scale(At(reduced), gf256_inv(coef))
  <2>1. gf256_inv(coef) \in F
    BY <1>6, InvNonzero
  <2> HIDE DEF coef
  <2>2. QED
    BY <1>2, <2>1, ScaleCorrect
<1> HIDE DEF normal
<1>8. /\ DOMAIN heap' = DOMAIN heap /\ heap'[reduced] = normal
      /\ \A a \in DOMAIN heap \ {reduced} : heap'[a] = heap[a]
  BY <1>1, <1>2
<1>9. /\ HeapInv' /\ Table' = Table
      /\ At(submitted)' = At(submitted) /\ At(reduced)' = Abs(normal)
  <2>1. reduced' = reduced /\ reduced \in Nat /\ ~fault' /\ IsFiniteSet(DOMAIN heap')
    BY <1>1, <1>2, <1>8, ScaleSafe DEF HeapInv, WellFormed
  <2>2. DOMAIN heap' = (DOMAIN heap \ {reduced}) \union {reduced'}
    BY <1>2, <1>8, <2>1
  <2>3. QED
    BY <1>1, <1>7, <1>8, <2>1, <2>2, HandReplaced
<1>10. {id \in Ids : lent_to[id] # NULL}' = {id \in Ids : lent_to[id] # NULL}
  BY <1>1
<1>11. P!AddAsPivot
  <2> HIDE DEF coef
  <2>1. QED
    BY <1>1, <1>3, <1>6, <1>7, <1>9, <1>10, SystemOperators
       DEF P!AddAsPivot, P!Normalized, P!set, P!application
<1>12. QED
  BY <1>9, <1>11

-------------------------------------------------------------------------------
(* A symbol has one identifier when its bounds meet.                       *)
LEMMA OneIdTight ==
  ASSUME NEW l, Shaped(l), Tight(l)
  PROVE  HasOneId(l) <=> full_symbol_has_one_id(Abs(l))
BY ZeroTight DEF HasOneId, full_symbol_has_one_id, Tight

(* The row of a slot is replaced by one allocated since.                   *)
LEMMA RowReplaced ==
  ASSUME HeapInv, pc # "idle", NEW k \in RowSlots,
         UNCHANGED <<size, first_symbol_id, submitted, reduced, dropped, leaked>>,
         NEW l, Shaped(l), Tight(l),
         NEW new \in Nat, new \notin DOMAIN heap, IsFiniteSet(DOMAIN heap'),
         DOMAIN heap' = (DOMAIN heap \ {full_symbol_tab[k]}) \union {new},
         heap'[new] = l,
         \A a \in DOMAIN heap \ {full_symbol_tab[k]} : heap'[a] = heap[a],
         full_symbol_tab' = [full_symbol_tab EXCEPT ![k] = new]
  PROVE  /\ RowSlots' = RowSlots /\ Slots' = Slots
         /\ WellFormed(heap') /\ OwnedOnce' /\ AllOwned'
         /\ full_symbol_tab' \in [Slots -> DOMAIN heap' \union {NULL}]
         /\ submitted \in DOMAIN heap' /\ reduced \in DOMAIN heap' /\ submitted # reduced
         /\ Table' = [Table EXCEPT ![k] = Abs(l)]
         /\ At(submitted)' = At(submitted) /\ At(reduced)' = At(reduced)
         /\ heap'[reduced] = heap[reduced]
<1>1. /\ full_symbol_tab[k] \in DOMAIN heap /\ k \in Slots /\ NULL \notin DOMAIN heap
      /\ new # NULL /\ full_symbol_tab \in [Slots -> DOMAIN heap \union {NULL}]
  BY TableFacts, NullAssumption DEF HeapInv, PointersValid, RowSlots
<1>2. Slots' = Slots
  BY DEF Slots
<1>3. full_symbol_tab'[k] = new /\ \A j \in Slots \ {k} : full_symbol_tab'[j] = full_symbol_tab[j]
  BY <1>1
<1>4. RowSlots' = RowSlots
  BY <1>1, <1>2, <1>3 DEF RowSlots
<1>5. /\ submitted \in DOMAIN heap /\ reduced \in DOMAIN heap /\ submitted # reduced
      /\ submitted # NULL /\ reduced # NULL
      /\ full_symbol_tab[k] # submitted /\ full_symbol_tab[k] # reduced
  BY InHandFacts DEF HeapInv, OwnedOnce
<1>6. \A j \in RowSlots \ {k} : full_symbol_tab[j] \in DOMAIN heap \ {full_symbol_tab[k]}
  BY TableFacts DEF HeapInv, OwnedOnce
<1>7. WellFormed(heap')
  <2>1. ASSUME NEW a \in DOMAIN heap'
        PROVE  a \in Nat /\ Shaped(heap'[a]) /\ Tight(heap'[a])
    <3>1. a = new \/ a \in DOMAIN heap \ {full_symbol_tab[k]}
      OBVIOUS
    <3>2. QED
      BY <3>1 DEF HeapInv, WellFormed
  <2>2. QED
    BY <2>1 DEF WellFormed
<1>8. full_symbol_tab' \in [Slots -> DOMAIN heap' \union {NULL}]
  BY <1>1, <1>6 DEF RowSlots
<1>9. OwnedOnce'
  <2>1. new \notin leaked
    BY DEF HeapInv, AllOwned
  <2>2. ASSUME NEW j \in RowSlots
        PROVE  /\ full_symbol_tab'[j] # submitted /\ full_symbol_tab'[j] # reduced
               /\ full_symbol_tab'[j] \notin leaked
               /\ \A m \in RowSlots : full_symbol_tab'[m] = full_symbol_tab'[j] => m = j
    <3>1. \A m \in RowSlots : m \in Slots
      BY DEF RowSlots
    <3>2. CASE j = k
      BY <1>3, <1>5, <1>6, <2>1, <3>1, <3>2
    <3>3. CASE j # k
      BY <1>3, <1>5, <1>6, <3>1, <3>3 DEF HeapInv, OwnedOnce
    <3>4. QED
      BY <3>2, <3>3
  <2>3. QED
    BY <1>4, <2>2 DEF HeapInv, OwnedOnce
<1>10. AllOwned'
  <2>1. /\ DOMAIN heap = {full_symbol_tab[j] : j \in RowSlots} \union leaked
                           \union {submitted, reduced}
        /\ leaked = {} <=> dropped = {}
        /\ full_symbol_tab[k] \notin leaked
    BY <1>5 DEF HeapInv, AllOwned, OwnedOnce
  <2>2. {full_symbol_tab'[j] : j \in RowSlots}
          = ({full_symbol_tab[j] : j \in RowSlots} \ {full_symbol_tab[k]}) \union {new}
    <3>1. \A j \in RowSlots : j \in Slots
      BY DEF RowSlots
    <3>2. QED
      BY <1>3, <1>6, <3>1
  <2>3. DOMAIN heap' = {full_symbol_tab'[j] : j \in RowSlots} \union leaked
                         \union {submitted, reduced}
    BY <1>5, <2>1, <2>2
  <2>4. QED
    BY <1>4, <1>5, <2>1, <2>3 DEF AllOwned
<1>11. Table' = [Table EXCEPT ![k] = Abs(l)]
  <2> DEFINE entry(j) == IF full_symbol_tab'[j] = NULL THEN NULL
                         ELSE Abs(heap'[full_symbol_tab'[j]])
  <2>1. entry(k) = Abs(l)
    BY <1>1, <1>3
  <2>2. \A j \in Slots \ {k} : entry(j) = Table[j]
    BY <1>3, <1>6 DEF Table, RowSlots
  <2>3. Table' = [j \in Slots |-> entry(j)]
    BY <1>2 DEF Table
  <2>4. DOMAIN Table = Slots
    BY DEF Table
  <2> HIDE DEF entry
  <2>5. QED
    BY <2>1, <2>2, <2>3, <2>4 DEF Table
<1>12. At(submitted)' = At(submitted) /\ At(reduced)' = At(reduced)
  BY <1>5 DEF At
<1>13. QED
  BY <1>2, <1>4, <1>5, <1>7, <1>8, <1>9, <1>10, <1>11, <1>12

(* What the new pivot and the sum with a row are, from module              *)
(* FullSymbolSetProofs.                                                    *)
LEMMA NewPivotHere ==
  ASSUME P!IInv, pc = "pivot"
  PROVE  /\ P!NewId \in Ids
         /\ turn \in P!Rows =>
              /\ P!RowSum(turn) \in FullSymbols
              /\ first_symbol_id + turn \in Ids
              /\ first_symbol_id + turn # P!NewId =>
                   /\ P!RowSum(turn).coef[first_symbol_id + turn] = One
                   /\ Table[turn].coef[P!NewId] = Zero =>
                        P!RowSum(turn).coef = Table[turn].coef
              /\ first_symbol_id + turn = P!NewId => full_symbol_is_zero(P!RowSum(turn))
<1>1. NULL \notin P!FullSymbols
  BY SystemOperators, NullAssumption
<1>2. P!NewId \in P!Ids
  BY <1>1, P!NewPivot, FieldAssumption, MaxIdAssumption, IdSpanAssumption,
     InitialSizeAssumption
<1>3. ASSUME turn \in P!Rows
      PROVE  /\ P!RowSum(turn) \in P!FullSymbols
             /\ P!PivotOf(turn) \in P!Ids
             /\ P!PivotOf(turn) # P!NewId =>
                  /\ P!RowSum(turn).coef[P!PivotOf(turn)] = One
                  /\ Table[turn].coef[P!NewId] = Zero =>
                       P!RowSum(turn).coef = Table[turn].coef
             /\ P!PivotOf(turn) = P!NewId => P!full_symbol_is_zero(P!RowSum(turn))
  BY <1>1, <1>3, P!RowSumFacts, FieldAssumption, MaxIdAssumption, IdSpanAssumption,
     InitialSizeAssumption
<1>4. QED
  BY <1>2, <1>3, SystemOperators DEF P!PivotOf

(* A row that is solved by the elimination of the new pivot is that of an  *)
(* identifier before it, and the identifier left in it is its own.         *)
LEMMA SolvedRow ==
  ASSUME P!IInv, pc = "pivot", turn \in P!Rows,
         ~full_symbol_has_one_id(Table[turn]), full_symbol_has_one_id(P!RowSum(turn))
  PROVE  /\ first_nonzero_id(P!RowSum(turn)) = first_symbol_id + turn
         /\ first_symbol_id + turn \in Ids /\ first_symbol_id + turn < P!NewId
         /\ P!RowSum(turn).coef[first_symbol_id + turn] = One
<1> DEFINE id == first_symbol_id + turn
           sum == P!RowSum(turn)
<1>1. sum \in FullSymbols /\ P!PivotOf(turn) = id
  BY NewPivotHere DEF P!PivotOf
<1>2. id # P!NewId
  <2>1. ~full_symbol_is_zero(sum)
    BY DEF full_symbol_has_one_id
  <2>2. QED
    BY <1>1, <2>1, NewPivotHere
<1>3. /\ id \in Ids /\ sum.coef[id] = One
      /\ Table[turn].coef[P!NewId] = Zero => sum.coef = Table[turn].coef
  BY <1>1, <1>2, NewPivotHere
<1> HIDE DEF sum
<1>4. first_nonzero_id(sum) = id
  BY <1>1, <1>3, OneId, FieldAssumption DEF sum
<1>5. id < P!NewId
  <2>1. P!NewId \in Ids /\ id \in Nat /\ P!NewId \in Nat
    BY <1>3, NewPivotHere, NoneIsOut
  <2>2. ASSUME P!NewId < id PROVE FALSE
    <3>1. ~P!Vanished(turn)
      BY <1>1, <1>2 DEF P!Vanished
    <3>2. Table[turn].coef[P!NewId] = Zero
      BY <1>1, <2>1, <2>2, <3>1, SystemOperators DEF P!IInv, P!RowsEchelon, P!EchelonRow
    <3>3. sum.coef = Table[turn].coef
      BY <1>3, <3>2
    <3>4. NonzeroIds(sum) = NonzeroIds(Table[turn])
      BY <3>3 DEF NonzeroIds
    <3>5. full_symbol_has_one_id(sum) <=> full_symbol_has_one_id(Table[turn])
      BY <3>4 DEF full_symbol_has_one_id, full_symbol_is_zero, first_nonzero_id,
         last_nonzero_id
    <3>6. QED
      BY <3>5 DEF sum
  <2>3. QED
    BY <1>2, <2>1, <2>2
<1>6. QED
  BY <1>3, <1>4, <1>5 DEF sum

LEMMA EliminateRowSim ==
  ASSUME P!NoWrap, HeapInv, P!IInv, EliminateRow
  PROVE  P!EliminateRow /\ HeapInv'
<1>1. /\ pc = "pivot" /\ turn < size /\ turn' = turn + 1
      /\ UNCHANGED <<size, first_symbol_id, pc, submitted, reduced, is_zero, known, dropped,
                     leaked>>
  BY DEF EliminateRow, set
<1>2. /\ reduced \in DOMAIN heap /\ Shaped(heap[reduced]) /\ Tight(heap[reduced])
      /\ At(reduced) = Abs(heap[reduced]) /\ At(reduced) \in FullSymbols
  BY <1>1, InHandFacts
<1>3. turn \in Slots /\ turn \in Nat
  BY <1>1, SystemTypes DEF Slots
<1>4. NewId = P!NewId /\ NewId \in Ids
  BY <1>1, <1>2, NewPivotHere, SystemOperators DEF NewId, Tight, P!NewId
<1>5. CASE full_symbol_tab[turn] = NULL
  <2>1. UNCHANGED <<heap, full_symbol_tab, notified, lent_to, fault>>
    BY <1>5 DEF EliminateRow, set, application
  <2>2. RowSlots' = RowSlots /\ Slots' = Slots
    BY <1>1, <2>1 DEF RowSlots, Slots
  <2>3. Table' = Table /\ At(submitted)' = At(submitted) /\ At(reduced)' = At(reduced)
    BY <1>1, <2>1, TableKept DEF At
  <2>4. HeapInv'
    <3>1. WellFormed(heap') /\ PointersValid' /\ OwnedOnce' /\ AllOwned' /\ ~fault'
      BY <1>1, <2>1, <2>2 DEF HeapInv, PointersValid, OwnedOnce, AllOwned
    <3>2. Lending'
      <4>1. \A k \in RowSlots : k \in Nat /\ (k < turn + 1 => k < turn)
        BY <1>3, <1>5 DEF RowSlots, Slots
      <4>2. NewId' = NewId
        BY <1>1, <2>1 DEF NewId
      <4>3. QED
        BY <1>1, <2>1, <2>2, <4>1, <4>2 DEF HeapInv, Lending
    <3>3. QED
      BY <3>1, <3>2 DEF HeapInv
  <2>5. P!EliminateRow
    <3>1. Table[turn] = NULL
      BY <1>3, <1>5, TableFacts
    <3>2. {id \in Ids : lent_to[id] # NULL}' = {id \in Ids : lent_to[id] # NULL}
      BY <2>1
    <3>3. QED
      BY <1>1, <2>1, <2>3, <3>1, <3>2, SystemOperators
         DEF P!EliminateRow, P!set, P!application
  <2>6. QED
    BY <2>4, <2>5
<1>6. CASE full_symbol_tab[turn] # NULL
  <2> DEFINE row == full_symbol_tab[turn]
             clone == Fresh(heap)
             coef == GetCoef(heap[row], NewId)
             multiple == Scale(Clone(heap[reduced]), coef)
             h1 == Put(heap, multiple)
             total == Add(heap[row], multiple)
             sum == Fresh(h1)
             h2 == Put(h1, total)
             si == h2[sum].first_nonzero_id
             id0 == first_symbol_id + turn
             Told == ~HasOneId(heap[row]) /\ HasOneId(total)
             lent == {id \in Ids : lent_to[id] # NULL}
  <2>1. turn \in RowSlots
    BY <1>3, <1>6 DEF RowSlots
  <2>2. /\ row \in DOMAIN heap /\ Shaped(heap[row]) /\ Tight(heap[row])
        /\ Table[turn] = Abs(heap[row]) /\ Table[turn] \in FullSymbols
        /\ turn \in P!Rows /\ Table[turn] # NULL
    BY <1>3, <1>6, <2>1, TableFacts DEF HeapInv, WellFormed
  <2>3. coef \in F /\ coef = full_symbol_get_coef(Table[turn], NewId)
    BY <1>4, <2>2, Coefficient, AbsType DEF full_symbol_get_coef
  <2>4. /\ CloneAsserts(heap[reduced]) /\ ScaleAsserts(Clone(heap[reduced]))
        /\ Shaped(multiple) /\ Tight(multiple)
        /\ Abs(multiple) = full_symbol_scale(At(reduced), coef)
    <3>1. ~full_symbol_is_zero(At(reduced))
      BY <1>1, SystemOperators DEF P!IInv, P!Pivoting
    <3>2. /\ CloneAsserts(heap[reduced]) /\ Shaped(Clone(heap[reduced]))
          /\ Tight(Clone(heap[reduced])) /\ Abs(Clone(heap[reduced])) = At(reduced)
      BY <1>2, <3>1, CloneCorrect DEF full_symbol_clone
    <3> HIDE DEF coef
    <3>3. QED
      BY <2>3, <3>2, ScaleSafe, ScaleCorrect
  <2> HIDE DEF multiple
  <2>5. /\ AddAsserts(heap[row], multiple) /\ Shaped(total) /\ Tight(total)
        /\ Abs(total) = P!RowSum(turn)
    <3>1. /\ AddAsserts(heap[row], multiple) /\ Shaped(total) /\ Tight(total)
          /\ Abs(total) = full_symbol_add(Table[turn], full_symbol_scale(At(reduced), coef))
      BY <2>2, <2>4, AddCorrect
    <3>2. QED
      BY <1>4, <2>3, <3>1, SystemOperators DEF P!RowSum
  <2>6. /\ clone \in Nat /\ clone \notin DOMAIN heap
        /\ DOMAIN h1 = DOMAIN heap \union {clone} /\ IsFiniteSet(DOMAIN h1)
        /\ h1[clone] = multiple /\ \A a \in DOMAIN heap : h1[a] = heap[a]
    <3>1. IsFiniteSet(DOMAIN heap)
      BY DEF HeapInv, WellFormed
    <3>2. QED
      BY <3>1, PutFacts, Zenon
  <2>7. h1[row] = heap[row] /\ h1[clone] = multiple
    BY <2>2, <2>6
  <2>8. /\ heap' = Freed(h2, {row, clone})
        /\ full_symbol_tab' = [full_symbol_tab EXCEPT ![turn] = sum]
        /\ IF ~HasOneId(heap[row]) /\ HasOneId(h2[sum])
           THEN Notify(si, full_symbol_tab', first_symbol_id, size, {row},
                       /\ CloneAsserts(heap[reduced]) /\ ScaleAsserts(Clone(heap[reduced]))
                       /\ AddAsserts(h1[row], h1[clone]) /\ CanFree(h2, row, clone)
                       /\ GetCoef(h2[sum], si) = One)
           ELSE /\ lent_to' = StillLent({row})
                /\ fault' = ~(/\ CloneAsserts(heap[reduced])
                              /\ ScaleAsserts(Clone(heap[reduced]))
                              /\ AddAsserts(h1[row], h1[clone]) /\ CanFree(h2, row, clone))
                /\ UNCHANGED notified
    <3>1. sum = Fresh(h1) /\ h2 = Put(h1, Add(h1[row], h1[clone]))
      BY <2>7
    <3>2. QED
      BY <1>6, <2>7 DEF EliminateRow, NewId, multiple
  <2> HIDE DEF h1, clone, coef, total
  <2>9. /\ sum \in Nat /\ sum \notin DOMAIN h1
        /\ DOMAIN h2 = DOMAIN h1 \union {sum} /\ IsFiniteSet(DOMAIN h2)
        /\ h2[sum] = total /\ \A a \in DOMAIN h1 : h2[a] = h1[a]
    <3>1. IsFiniteSet(DOMAIN h1)
      BY <2>6
    <3>2. QED
      BY <3>1, PutFacts, Zenon
  <2> HIDE DEF h2, sum
  <2>10. CanFree(h2, row, clone)
    BY <2>2, <2>6, <2>9 DEF CanFree
  <2>11. /\ DOMAIN heap' = DOMAIN h2 \ {row, clone} /\ IsFiniteSet(DOMAIN heap')
         /\ \A a \in DOMAIN h2 \ {row, clone} : heap'[a] = h2[a]
    <3>1. IsFiniteSet(DOMAIN h2)
      BY <2>9
    <3>2. QED
      BY <2>8, <3>1, FreedFacts, Zenon
  <2>12. /\ sum \notin DOMAIN heap /\ DOMAIN heap' = (DOMAIN heap \ {row}) \union {sum}
         /\ heap'[sum] = total /\ \A a \in DOMAIN heap \ {row} : heap'[a] = heap[a]
    BY <2>2, <2>6, <2>9, <2>11
  <2>13. /\ RowSlots' = RowSlots /\ Slots' = Slots
         /\ WellFormed(heap') /\ OwnedOnce' /\ AllOwned'
         /\ full_symbol_tab' \in [Slots -> DOMAIN heap' \union {NULL}]
         /\ submitted \in DOMAIN heap' /\ reduced \in DOMAIN heap' /\ submitted # reduced
         /\ Table' = [Table EXCEPT ![turn] = Abs(total)]
         /\ At(submitted)' = At(submitted) /\ At(reduced)' = At(reduced)
         /\ heap'[reduced] = heap[reduced]
    BY <1>1, <2>1, <2>5, <2>8, <2>9, <2>11, <2>12, RowReplaced
  <2>14. /\ HasOneId(heap[row]) <=> full_symbol_has_one_id(Table[turn])
         /\ HasOneId(total) <=> full_symbol_has_one_id(P!RowSum(turn))
         /\ si = first_nonzero_id(P!RowSum(turn))
    BY <2>2, <2>5, <2>9, OneIdTight DEF Tight
  <2>15. Told => si = id0 /\ id0 \in Ids /\ id0 < NewId /\ P!RowSum(turn).coef[id0] = One
    BY <1>1, <1>4, <2>2, <2>14, SolvedRow
  <2>16. \A k \in RowSlots : full_symbol_tab[k] = row => k = turn
    BY <2>1 DEF HeapInv, OwnedOnce
  <2>17. \A id \in Ids : lent_to[id] = row => id = id0
    BY <2>2, <2>16, TableFacts DEF HeapInv, Lending
  <2>18. \A id \in Ids : id = id0 /\ lent_to[id] # NULL => lent_to[id] = row
    <3>1. ASSUME NEW id \in Ids, id = id0, lent_to[id] # NULL PROVE lent_to[id] = row
      <4>1. PICK k \in RowSlots : full_symbol_tab[k] = lent_to[id] /\ first_symbol_id + k = id
        BY <3>1 DEF HeapInv, Lending
      <4>2. k = turn
        BY <1>3, <3>1, <4>1, SystemTypes DEF RowSlots, Slots
      <4>3. QED
        BY <4>1, <4>2
    <3>2. QED
      BY <3>1
  <2>19. /\ sum \in DOMAIN heap' /\ sum # NULL /\ full_symbol_tab'[turn] = sum
         /\ NULL \notin DOMAIN heap
    BY <1>3, <2>8, <2>9, <2>12, TableFacts, NullAssumption DEF HeapInv, PointersValid
  (* What the application has after this turn. *)
  <2>20. /\ ~fault'
         /\ lent_to' \in [Ids -> (DOMAIN heap \ {row}) \union {NULL, sum}]
         /\ \A id \in Ids : IF Told /\ id = id0 THEN lent_to'[id] = sum
                            ELSE lent_to'[id] = StillLent({row})[id]
         /\ notified' = IF Told THEN [notified EXCEPT ![id0] = @ + 1] ELSE notified
    <3>1. /\ StillLent({row}) \in [Ids -> (DOMAIN heap \ {row}) \union {NULL}]
          /\ \A id \in Ids : StillLent({row})[id] = IF lent_to[id] = row THEN NULL
                                                    ELSE lent_to[id]
      BY DEF StillLent, HeapInv, PointersValid
    <3>2. CASE Told
      <4>1. Pivot(full_symbol_tab', first_symbol_id, size, si) = sum
        <5>1. first_symbol_id \in Ids
          BY <2>2, SystemTypes, SystemOperators DEF P!IInv, P!EmptyUntilFirst
        <5>2. turn \in 0 .. size - 1
          BY <1>3 DEF Slots
        <5>3. Pivot(full_symbol_tab', first_symbol_id, size, first_symbol_id + turn)
                = full_symbol_tab'[turn]
          BY <5>1, <5>2, SystemTypes, PivotAt
        <5>4. QED
          BY <2>15, <2>19, <3>2, <5>3
      <4>2. GetCoef(h2[sum], si) = One
        BY <2>5, <2>9, <2>15, <3>2, AbsType
      <4>3. /\ notified' = [notified EXCEPT ![si] = @ + 1]
            /\ lent_to' = [StillLent({row}) EXCEPT ![si] = sum] /\ ~fault'
        BY <2>4, <2>5, <2>7, <2>8, <2>9, <2>19, <2>10, <3>2, <4>1, <4>2 DEF Notify
      <4>4. QED
        BY <2>15, <3>1, <3>2, <4>3
    <3>3. CASE ~Told
      BY <2>4, <2>5, <2>7, <2>8, <2>9, <2>10, <3>1, <3>3
    <3>4. QED
      BY <3>2, <3>3
  <2>21. {id \in Ids : lent_to'[id] # NULL} = (lent \ {id0}) \union (IF Told THEN {id0} ELSE {})
    <3>1. \A id \in Ids : StillLent({row})[id] # NULL <=> lent_to[id] # NULL /\ id # id0
      BY <2>17, <2>18 DEF StillLent
    <3>2. Told => id0 \in Ids
      BY <2>15
    <3> HIDE DEF id0, Told
    <3>3. QED
      BY <2>19, <2>20, <3>1, <3>2
  <2>22. HeapInv'
    <3>1. PointersValid'
      <4>1. lent_to' \in [Ids -> DOMAIN heap' \union {NULL}]
        BY <2>12, <2>20
      <4>2. QED
        BY <1>1, <2>13, <4>1 DEF PointersValid
    <3>2. Lending'
      <4>1. NewId' = NewId
        BY <1>1, <2>13 DEF NewId
      <4>2. ASSUME NEW id \in Ids, lent_to'[id] # NULL
            PROVE  \E k \in RowSlots :
                     /\ full_symbol_tab'[k] = lent_to'[id] /\ first_symbol_id + k = id
                     /\ k < turn + 1 => id < NewId
        <5>1. CASE Told /\ id = id0
          BY <2>1, <2>15, <2>19, <2>20, <5>1
        <5>2. CASE ~(Told /\ id = id0)
          <6>1. lent_to'[id] = lent_to[id] /\ lent_to[id] # row
            BY <2>20, <4>2, <5>2 DEF StillLent
          <6>2. PICK k \in RowSlots :
                  /\ full_symbol_tab[k] = lent_to[id] /\ first_symbol_id + k = id
                  /\ k < turn => id < NewId
            BY <1>1, <4>2, <6>1 DEF HeapInv, Lending
          <6>3. k # turn /\ k \in Nat /\ k \in Slots
            BY <6>1, <6>2 DEF RowSlots, Slots
          <6>4. full_symbol_tab'[k] = full_symbol_tab[k]
            BY <2>8, <6>3 DEF HeapInv, PointersValid
          <6>5. QED
            BY <1>3, <6>1, <6>2, <6>3, <6>4
        <5>3. QED
          BY <5>1, <5>2
      <4>3. QED
        BY <1>1, <2>13, <4>1, <4>2 DEF Lending
    <3>3. QED
      BY <2>13, <2>20, <3>1, <3>2 DEF HeapInv
  <2>23. P!EliminateRow
    <3> HIDE DEF Told, id0, si, row
    <3>1. QED
      BY <1>1, <1>4, <2>2, <2>5, <2>13, <2>14, <2>15, <2>20, <2>21, SystemOperators
         DEF P!EliminateRow, P!RowSum, P!NewlySolved, P!NewId, P!application, Told, id0, row
  <2>24. QED
    BY <2>22, <2>23
<1>7. QED
  BY <1>5, <1>6

-------------------------------------------------------------------------------
(* The copy that is stored is the new symbol, whose pivot is NewId.        *)
LEMMA StoredSymbol ==
  ASSUME HeapInv, P!IInv, pc = "pivot"
  PROVE  /\ CloneAsserts(heap[reduced]) /\ Shaped(Stored) /\ Tight(Stored)
         /\ Abs(Stored) = At(reduced) /\ At(reduced) \in FullSymbols
         /\ NewId = P!NewId /\ NewId \in Ids /\ SetId = P!SetId
         /\ GetCoef(Stored, NewId) = One
         /\ HasOneId(Stored) <=> full_symbol_has_one_id(At(reduced))
         /\ HasOneId(heap[submitted]) <=> full_symbol_has_one_id(At(submitted))
<1>1. /\ reduced \in DOMAIN heap /\ Shaped(heap[reduced]) /\ Tight(heap[reduced])
      /\ At(reduced) = Abs(heap[reduced]) /\ At(reduced) \in FullSymbols
      /\ Shaped(heap[submitted]) /\ Tight(heap[submitted])
      /\ At(submitted) = Abs(heap[submitted])
  BY InHandFacts
<1>2. ~full_symbol_is_zero(At(reduced)) /\ At(reduced).coef[P!NewId] = One
  BY SystemOperators DEF P!IInv, P!Pivoting
<1>3. /\ CloneAsserts(heap[reduced]) /\ Shaped(Stored) /\ Tight(Stored)
      /\ Abs(Stored) = At(reduced)
  BY <1>1, <1>2, CloneCorrect DEF Stored, full_symbol_clone
<1>4. NewId = P!NewId /\ NewId \in Ids
  BY <1>1, NewPivotHere, SystemOperators DEF NewId, Tight, P!NewId
<1>5. SetId = P!SetId
  BY <1>4, SystemOperators DEF SetId, P!SetId
<1>6. GetCoef(Stored, NewId) = One
  BY <1>2, <1>3, <1>4, AbsType
<1>7. /\ HasOneId(Stored) <=> full_symbol_has_one_id(At(reduced))
      /\ HasOneId(heap[submitted]) <=> full_symbol_has_one_id(At(submitted))
  BY <1>1, <1>3, OneIdTight
<1>8. QED
  BY <1>1, <1>3, <1>4, <1>5, <1>6, <1>7

(* What a store and the return after it free is allocated.                 *)
LEMMA ReturnFrees ==
  ASSUME HeapInv, pc # "idle", NEW old,
         old \subseteq {full_symbol_tab[k] : k \in RowSlots}
  PROVE  /\ old \subseteq DOMAIN Put(heap, Stored)
         /\ CanFree(Put(heap, Stored), reduced, submitted)
         /\ CanFree(Freed(Put(heap, Stored), old), reduced, submitted)
<1>1. /\ reduced \in DOMAIN heap /\ submitted \in DOMAIN heap /\ reduced # submitted
      /\ \A k \in RowSlots : full_symbol_tab[k] \in DOMAIN heap
  BY InHandFacts, TableFacts
<1>2. reduced \notin old /\ submitted \notin old
  BY DEF HeapInv, OwnedOnce
<1>3. DOMAIN Put(heap, Stored) = DOMAIN heap \union {Fresh(heap)}
  BY DEF Put
<1>4. DOMAIN Freed(Put(heap, Stored), old) = DOMAIN Put(heap, Stored) \ old
  BY DEF Freed
<1>5. QED
  BY <1>1, <1>2, <1>3, <1>4 DEF CanFree

(* The heap after a store that freed the rows `old'.                       *)
HeapStored(old) ==
  /\ IsFiniteSet(DOMAIN heap')
  /\ DOMAIN heap' = (DOMAIN heap \ (old \union {reduced, submitted})) \union {Fresh(heap)}
  /\ heap'[Fresh(heap)] = Stored
  /\ \A a \in DOMAIN heap \ (old \union {reduced, submitted}) : heap'[a] = heap[a]

LEMMA HeapAfterStore ==
  ASSUME HeapInv, pc # "idle", NEW old, old \subseteq DOMAIN heap,
         \/ heap' = Freed(Freed(Put(heap, Stored), old), {reduced, submitted})
         \/ old = {} /\ heap' = Freed(Put(heap, Stored), {reduced, submitted})
  PROVE  HeapStored(old) /\ Fresh(heap) \in Nat /\ Fresh(heap) \notin DOMAIN heap
<1> DEFINE new == Fresh(heap)
           h1 == Put(heap, Stored)
           h2 == Freed(h1, old)
<1>1. IsFiniteSet(DOMAIN heap) /\ reduced \in DOMAIN heap /\ submitted \in DOMAIN heap
  BY InHandFacts DEF HeapInv, WellFormed
<1>2. /\ new \in Nat /\ new \notin DOMAIN heap
      /\ DOMAIN h1 = DOMAIN heap \union {new} /\ IsFiniteSet(DOMAIN h1)
      /\ h1[new] = Stored /\ \A a \in DOMAIN heap : h1[a] = heap[a]
  BY <1>1, PutFacts, Zenon
<1> HIDE DEF h1, new
<1>3. CASE heap' = Freed(h2, {reduced, submitted})
  <2>1. /\ DOMAIN h2 = DOMAIN h1 \ old /\ IsFiniteSet(DOMAIN h2)
        /\ \A a \in DOMAIN h1 \ old : h2[a] = h1[a]
    <3>1. IsFiniteSet(DOMAIN h1)
      BY <1>2
    <3>2. QED
      BY <3>1, FreedFacts, Zenon
  <2> HIDE DEF h2
  <2>2. /\ DOMAIN heap' = DOMAIN h2 \ {reduced, submitted} /\ IsFiniteSet(DOMAIN heap')
        /\ \A a \in DOMAIN h2 \ {reduced, submitted} : heap'[a] = h2[a]
    <3>1. IsFiniteSet(DOMAIN h2)
      BY <2>1
    <3>2. QED
      BY <1>3, <3>1, FreedFacts, Zenon
  <2>3. QED
    BY <1>1, <1>2, <2>1, <2>2 DEF HeapStored, new
<1>4. CASE old = {} /\ heap' = Freed(h1, {reduced, submitted})
  <2>1. /\ DOMAIN heap' = DOMAIN h1 \ {reduced, submitted} /\ IsFiniteSet(DOMAIN heap')
        /\ \A a \in DOMAIN h1 \ {reduced, submitted} : heap'[a] = h1[a]
    <3>1. IsFiniteSet(DOMAIN h1)
      BY <1>2
    <3>2. QED
      BY <1>4, <3>1, FreedFacts, Zenon
  <2>2. QED
    BY <1>1, <1>2, <1>4, <2>1 DEF HeapStored, new
<1>5. QED
  BY <1>3, <1>4 DEF h1

(***************************************************************************)
(* What a store that puts the copy in the slot `pos' does to the rows: the *)
(* others are rows from before, in the slot of their own identifier and    *)
(* not freed; a payload that is lent moves with its row; and a row is      *)
(* freed, kept or lost, in which case one was dropped.                     *)
(***************************************************************************)
RowsMoved(old, pos) ==
  /\ full_symbol_tab' = [k \in 0 .. size' - 1 |-> full_symbol_tab'[k]]
  /\ full_symbol_tab'[pos] = Fresh(heap)
  /\ \A k \in (0 .. size' - 1) \ {pos} : full_symbol_tab'[k] # NULL =>
       \E j \in RowSlots : /\ first_symbol_id + j = first_symbol_id' + k
                           /\ full_symbol_tab'[k] = full_symbol_tab[j]
                           /\ full_symbol_tab[j] \notin old

PayloadsMoved(old, pos) ==
  \A id \in Ids : lent_to[id] # NULL =>
    /\ lent_to[id] \notin old
    /\ \E k \in (0 .. size' - 1) \ {pos} :
         full_symbol_tab'[k] = lent_to[id] /\ first_symbol_id' + k = id

RowsAccounted(old, pos) ==
  /\ leaked \subseteq leaked' /\ (leaked' = {} <=> dropped' = {})
  /\ \A a \in leaked' :
       /\ a \in leaked \/ \E j \in RowSlots : a = full_symbol_tab[j]
       /\ a \notin old
       /\ \A k \in (0 .. size' - 1) \ {pos} : full_symbol_tab'[k] # a
  /\ \A j \in RowSlots :
       \/ full_symbol_tab[j] \in old \union leaked'
       \/ \E k \in (0 .. size' - 1) \ {pos} : full_symbol_tab'[k] = full_symbol_tab[j]

(***************************************************************************)
(* Such a store keeps the invariant, and is one of the abstract system.    *)
(***************************************************************************)
LEMMA StoreSim ==
  ASSUME P!NoWrap, HeapInv, P!IInv, pc = "pivot", NEW old, old \subseteq DOMAIN heap,
         HeapStored(old), Fresh(heap) \in Nat, Fresh(heap) \notin DOMAIN heap,
         NotifyStored(old, TRUE), pc' = "idle", submitted' = NULL, reduced' = NULL,
         size' \in Nat, size' <= FULL_SYMBOL_SET_INITIAL_SIZE + 2 * MaxId + 1,
         first_symbol_id' \in Ids, NEW pos \in 0 .. size' - 1,
         first_symbol_id' + pos = NewId,
         RowsMoved(old, pos), PayloadsMoved(old, pos), RowsAccounted(old, pos)
  PROVE  /\ HeapInv'
         /\ Table' = [k \in 0 .. size' - 1 |->
                        IF k = pos THEN At(reduced)
                        ELSE IF full_symbol_tab'[k] = NULL THEN NULL
                        ELSE Abs(heap[full_symbol_tab'[k]])]
         /\ At(submitted)' = ZeroSymbol /\ At(reduced)' = ZeroSymbol
         /\ LET lent == {id \in Ids : lent_to[id] # NULL}
            IN  IF ~full_symbol_has_one_id(At(submitted)) /\ full_symbol_has_one_id(At(reduced))
                THEN /\ notified' = [notified EXCEPT ![NewId] = @ + 1]
                     /\ {id \in Ids : lent_to'[id] # NULL} = lent \union {NewId}
                ELSE /\ UNCHANGED notified
                     /\ {id \in Ids : lent_to'[id] # NULL} = lent
<1> DEFINE new == Fresh(heap)
           T == 0 .. size' - 1
<1>1. /\ CloneAsserts(heap[reduced]) /\ Shaped(Stored) /\ Tight(Stored)
      /\ Abs(Stored) = At(reduced) /\ NewId \in Ids
      /\ GetCoef(Stored, NewId) = One
      /\ HasOneId(Stored) <=> full_symbol_has_one_id(At(reduced))
      /\ HasOneId(heap[submitted]) <=> full_symbol_has_one_id(At(submitted))
  BY StoredSymbol
<1>2. /\ reduced \in DOMAIN heap /\ submitted \in DOMAIN heap
      /\ NULL \notin DOMAIN heap /\ new # NULL
      /\ Slots' = T
  BY InHandFacts, TableFacts, NullAssumption DEF Slots
<1>3. \A j \in RowSlots : /\ full_symbol_tab[j] \in DOMAIN heap
                          /\ full_symbol_tab[j] # submitted /\ full_symbol_tab[j] # reduced
                          /\ j \in Nat
  BY TableFacts DEF HeapInv, OwnedOnce, RowSlots, Slots
<1>4. ASSUME NEW k \in T \ {pos}, full_symbol_tab'[k] # NULL
      PROVE  /\ full_symbol_tab'[k] \in DOMAIN heap' \ {new} /\ full_symbol_tab'[k] \in DOMAIN heap
             /\ heap'[full_symbol_tab'[k]] = heap[full_symbol_tab'[k]]
  BY <1>3, <1>4 DEF HeapStored, RowsMoved
<1>5. new \in DOMAIN heap' /\ heap'[new] = Stored
  BY DEF HeapStored
<1>6. RowSlots' = {k \in T : full_symbol_tab'[k] # NULL}
  BY <1>2 DEF RowSlots
<1>7. WellFormed(heap')
  <2>1. ASSUME NEW a \in DOMAIN heap'
        PROVE  a \in Nat /\ Shaped(heap'[a]) /\ Tight(heap'[a])
    <3>1. a = new \/ a \in DOMAIN heap \ (old \union {reduced, submitted})
      BY DEF HeapStored
    <3>2. QED
      BY <1>1, <1>5, <3>1 DEF HeapInv, WellFormed, HeapStored
  <2>2. QED
    BY <2>1 DEF WellFormed, HeapStored
(* What was lost is still there. *)
<1>8. \A a \in leaked' : a \in DOMAIN heap /\ a \in DOMAIN heap'
  <2>1. ASSUME NEW a \in leaked' PROVE a \in DOMAIN heap /\ a # reduced /\ a # submitted
    <3>1. a \in leaked \/ \E j \in RowSlots : a = full_symbol_tab[j]
      BY <2>1 DEF RowsAccounted
    <3>2. ASSUME a \in leaked PROVE a \in DOMAIN heap /\ a # reduced /\ a # submitted
      BY <3>2 DEF HeapInv, AllOwned, OwnedOnce
    <3>3. QED
      BY <1>3, <3>1, <3>2
  <2>2. QED
    BY <2>1 DEF RowsAccounted, HeapStored
<1>9. OwnedOnce'
  <2>1. ASSUME NEW k \in T, full_symbol_tab'[k] # NULL
        PROVE  /\ full_symbol_tab'[k] # NULL /\ full_symbol_tab'[k] \notin leaked'
               /\ \A m \in T : full_symbol_tab'[m] # NULL
                                /\ full_symbol_tab'[m] = full_symbol_tab'[k] => m = k
    <3>1. CASE k = pos
      <4>1. full_symbol_tab'[k] = new
        BY <3>1 DEF RowsMoved
      <4>2. QED
        BY <1>4, <1>8, <2>1, <3>1, <4>1
    <3>2. CASE k # pos
      <4>1. PICK j \in RowSlots : /\ first_symbol_id + j = first_symbol_id' + k
                                  /\ full_symbol_tab'[k] = full_symbol_tab[j]
        BY <2>1, <3>2 DEF RowsMoved
      <4>2. ASSUME NEW m \in T, full_symbol_tab'[m] # NULL,
                   full_symbol_tab'[m] = full_symbol_tab'[k]
            PROVE  m = k
        <5>1. m # pos
          BY <1>4, <2>1, <3>2, <4>2 DEF RowsMoved
        <5>2. PICK i \in RowSlots : /\ first_symbol_id + i = first_symbol_id' + m
                                    /\ full_symbol_tab'[m] = full_symbol_tab[i]
          BY <4>2, <5>1 DEF RowsMoved
        <5>3. i = j
          BY <4>1, <4>2, <5>2 DEF HeapInv, OwnedOnce
        <5>4. first_symbol_id' \in Nat /\ k \in Nat /\ m \in Nat
          BY NoneIsOut
        <5>5. QED
          BY <4>1, <5>2, <5>3, <5>4
      <4>3. full_symbol_tab'[k] \notin leaked'
        BY <3>2 DEF RowsAccounted
      <4>4. QED
        BY <2>1, <4>2, <4>3
    <3>3. QED
      BY <3>1, <3>2
  <2>2. QED
    BY <1>2, <1>6, <1>8, <2>1 DEF OwnedOnce
<1>10. AllOwned'
  <2>1. DOMAIN heap = {full_symbol_tab[j] : j \in RowSlots} \union leaked
                        \union {submitted, reduced}
    BY <1>2 DEF HeapInv, AllOwned
  <2>2. ASSUME NEW a \in DOMAIN heap'
        PROVE  a \in leaked' \/ \E k \in RowSlots' : a = full_symbol_tab'[k]
    <3>1. CASE a = new
      BY <1>2, <1>6, <3>1 DEF RowsMoved
    <3>2. CASE a # new /\ a \notin leaked'
      <4>1. a \in DOMAIN heap \ (old \union {reduced, submitted})
        BY <3>2 DEF HeapStored
      <4>2. PICK j \in RowSlots : a = full_symbol_tab[j]
        BY <2>1, <3>2, <4>1 DEF RowsAccounted
      <4>3. PICK k \in T : full_symbol_tab'[k] = a
        BY <3>2, <4>1, <4>2 DEF RowsAccounted
      <4>4. QED
        BY <1>2, <1>6, <4>1, <4>3
    <3>3. QED
      BY <3>1, <3>2
  <2>3. \A k \in RowSlots' : full_symbol_tab'[k] \in DOMAIN heap'
    BY <1>4, <1>5, <1>6 DEF RowsMoved
  <2>4. DOMAIN heap' = {full_symbol_tab'[k] : k \in RowSlots'} \union leaked'
    BY <1>8, <2>2, <2>3
  <2>5. QED
    BY <2>4 DEF AllOwned, RowsAccounted
<1>11. Table' = [k \in T |-> IF k = pos THEN At(reduced)
                             ELSE IF full_symbol_tab'[k] = NULL THEN NULL
                             ELSE Abs(heap[full_symbol_tab'[k]])]
  <2> DEFINE entry(k) == IF full_symbol_tab'[k] = NULL THEN NULL
                         ELSE Abs(heap'[full_symbol_tab'[k]])
  <2>1. Table' = [k \in T |-> entry(k)]
    BY <1>2 DEF Table
  <2>2. entry(pos) = At(reduced)
    BY <1>1, <1>2, <1>5 DEF RowsMoved
  <2>3. \A k \in T \ {pos} : entry(k) = IF full_symbol_tab'[k] = NULL THEN NULL
                                        ELSE Abs(heap[full_symbol_tab'[k]])
    BY <1>4
  <2> HIDE DEF entry
  <2>4. QED
    BY <2>1, <2>2, <2>3
<1>12. At(submitted)' = ZeroSymbol /\ At(reduced)' = ZeroSymbol
  BY DEF At
(* What the application has after the store. *)
<1> DEFINE Told == ~HasOneId(heap[submitted]) /\ HasOneId(Stored)
<1>13. /\ StillLent(old) = lent_to /\ lent_to \in [Ids -> DOMAIN heap \union {NULL}]
  <2>1. lent_to \in [Ids -> DOMAIN heap \union {NULL}]
    BY DEF HeapInv, PointersValid
  <2>2. \A id \in Ids : lent_to[id] \notin old
    BY <1>2, <2>1 DEF PayloadsMoved
  <2>3. QED
    BY <2>1, <2>2 DEF StillLent
<1>14. /\ ~fault'
       /\ lent_to' = IF Told THEN [lent_to EXCEPT ![NewId] = new] ELSE lent_to
       /\ notified' = IF Told THEN [notified EXCEPT ![NewId] = @ + 1] ELSE notified
  <2>1. Pivot(full_symbol_tab', first_symbol_id', size', NewId) = new
    <3>1. Pivot(full_symbol_tab', first_symbol_id', size', first_symbol_id' + pos)
            = full_symbol_tab'[pos]
      BY PivotAt
    <3>2. QED
      BY <3>1 DEF RowsMoved
  <2>2. QED
    BY <1>1, <1>2, <1>13, <2>1 DEF NotifyStored, Notify
<1>15. \A id \in Ids : lent_to'[id] = IF Told /\ id = NewId THEN new ELSE lent_to[id]
  BY <1>1, <1>13, <1>14
<1>16. \A id \in Ids : lent_to'[id] # NULL =>
         /\ lent_to'[id] \in DOMAIN heap'
         /\ \E k \in RowSlots' : /\ full_symbol_tab'[k] = lent_to'[id]
                                 /\ first_symbol_id' + k = id
  <2>1. ASSUME NEW id \in Ids, lent_to'[id] # NULL
        PROVE  \E k \in T : full_symbol_tab'[k] = lent_to'[id] /\ first_symbol_id' + k = id
    BY <1>15, <2>1 DEF PayloadsMoved, RowsMoved
  <2>2. QED
    BY <1>4, <1>5, <1>6, <2>1 DEF RowsMoved
<1>17. PointersValid'
  <2>1. full_symbol_tab' \in [T -> DOMAIN heap' \union {NULL}]
    BY <1>4, <1>5 DEF RowsMoved
  <2>2. lent_to' \in [Ids -> DOMAIN heap' \union {NULL}]
    <3>1. DOMAIN lent_to' = Ids
      BY <1>13, <1>14
    <3>2. lent_to' = [id \in Ids |-> lent_to'[id]]
      BY <1>13, <1>14, <3>1
    <3>3. QED
      BY <1>16, <3>2
  <2>3. QED
    BY <1>2, <2>1, <2>2 DEF PointersValid
<1>18. Lending'
  BY <1>16 DEF Lending
<1>19. HeapInv'
  BY <1>7, <1>9, <1>10, <1>14, <1>17, <1>18 DEF HeapInv
<1>20. {id \in Ids : lent_to'[id] # NULL}
         = {id \in Ids : lent_to[id] # NULL} \union (IF Told THEN {NewId} ELSE {})
  BY <1>1, <1>2, <1>15
<1>21. QED
  BY <1>1, <1>11, <1>12, <1>14, <1>19, <1>20

(* Where the copy is stored, and how far the table grows.                  *)
LEMMA StorePlace ==
  ASSUME HeapInv, P!IInv, Storing
  PROVE  /\ pc = "pivot" /\ turn >= size /\ P!Storing /\ size \in Nat
         /\ NewId \in Ids /\ SetId \in Ids /\ NewId \in Nat /\ SetId \in Nat
         /\ RowSlots # {} \/ SetId # NewId => SetId = first_symbol_id
         /\ \A d \in 0 .. MaxId :
              /\ GrownSize(d) = P!GrownSize(d)
              /\ GrownSize(d) \in Nat \ {0} /\ GrownSize(d) >= size /\ GrownSize(d) > d
              /\ GrownSize(d) <= FULL_SYMBOL_SET_INITIAL_SIZE + 2 * MaxId + 1
         /\ \A id \in Ids : lent_to[id] # NULL =>
              \E k \in RowSlots :
                full_symbol_tab[k] = lent_to[id] /\ first_symbol_id + k = id /\ id < NewId
<1>1. pc = "pivot" /\ turn >= size /\ P!Storing /\ size \in Nat
  BY SystemTypes DEF Storing, P!Storing
<1>2. NewId \in Ids
  BY <1>1, StoredSymbol
<1>3. /\ SetId \in Ids
      /\ RowSlots # {} \/ SetId # NewId => SetId = first_symbol_id
  <2>1. first_symbol_id = SYMBOL_ID_NONE => RowSlots = {}
    BY TableFacts, SystemOperators DEF P!IInv, P!EmptyUntilFirst
  <2>2. QED
    BY <1>2, <2>1, SystemTypes DEF SetId
<1>4. NewId \in Nat /\ SetId \in Nat
  BY <1>2, <1>3, NoneIsOut
<1>5. ASSUME NEW d \in 0 .. MaxId
      PROVE  /\ GrownSize(d) = P!GrownSize(d)
             /\ GrownSize(d) \in Nat \ {0} /\ GrownSize(d) >= size /\ GrownSize(d) > d
             /\ GrownSize(d) <= FULL_SYMBOL_SET_INITIAL_SIZE + 2 * MaxId + 1
  BY SystemTypes DEF GrownSize, P!GrownSize
<1>6. ASSUME NEW id \in Ids, lent_to[id] # NULL
      PROVE  \E k \in RowSlots :
               full_symbol_tab[k] = lent_to[id] /\ first_symbol_id + k = id /\ id < NewId
  <2>1. PICK k \in RowSlots : /\ full_symbol_tab[k] = lent_to[id] /\ first_symbol_id + k = id
                              /\ k < turn => id < NewId
    BY <1>1, <1>6 DEF HeapInv, Lending
  <2>2. k < turn
    BY <1>1, SystemTypes DEF RowSlots, Slots
  <2>3. QED
    BY <2>1, <2>2
<1>7. QED
  BY <1>1, <1>2, <1>3, <1>4, <1>5, <1>6

LEMMA StoreRightSim ==
  ASSUME P!NoWrap, HeapInv, P!IInv, StoreRight
  PROVE  P!StoreRight /\ HeapInv'
<1> DEFINE pos == NewId - SetId
           old == Overwritten(pos)
           grown == GrownSize(pos)
<1>1. /\ Storing /\ NewId >= SetId /\ first_symbol_id' = SetId /\ size' = grown
      /\ full_symbol_tab' =
           [k \in 0 .. size' - 1 |-> IF k = pos THEN Fresh(heap)
                                     ELSE IF k < size THEN full_symbol_tab[k] ELSE NULL]
      /\ NotifyStored(old, /\ old \subseteq DOMAIN Put(heap, Stored)
                           /\ CanFree(Freed(Put(heap, Stored), old), reduced, submitted))
      /\ pc' = "idle" /\ submitted' = NULL /\ reduced' = NULL /\ turn' = 0 /\ is_zero' = TRUE
      /\ heap' = Freed(Freed(Put(heap, Stored), old), {reduced, submitted})
      /\ UNCHANGED <<known, dropped, leaked>>
  BY DEF StoreRight, Return
<1>2. /\ pc = "pivot" /\ turn >= size /\ P!Storing /\ size \in Nat
      /\ NewId \in Ids /\ SetId \in Ids /\ NewId \in Nat /\ SetId \in Nat
      /\ RowSlots # {} => SetId = first_symbol_id
      /\ \A id \in Ids : lent_to[id] # NULL =>
           \E k \in RowSlots :
             full_symbol_tab[k] = lent_to[id] /\ first_symbol_id + k = id /\ id < NewId
  BY <1>1, StorePlace
<1>3. pos \in 0 .. MaxId /\ SetId + pos = NewId
  BY <1>1, <1>2, NoneIsOut
<1>4. /\ grown = P!GrownSize(pos) /\ grown \in Nat \ {0} /\ grown >= size /\ grown > pos
      /\ grown <= FULL_SYMBOL_SET_INITIAL_SIZE + 2 * MaxId + 1
  <2> HIDE DEF pos
  <2>1. QED
    BY <1>1, <1>3, StorePlace
<1>5. pos \in 0 .. size' - 1
  BY <1>1, <1>3, <1>4
<1>6. \A k \in RowSlots : k \in Nat /\ k < size /\ k \in Slots /\ full_symbol_tab[k] # NULL
  BY <1>2 DEF RowSlots, Slots
<1>7. /\ old \subseteq DOMAIN heap
      /\ old \subseteq {full_symbol_tab[k] : k \in RowSlots}
      /\ \A k \in RowSlots : full_symbol_tab[k] \in old <=> k = pos
  <2>1. CASE pos < size /\ full_symbol_tab[pos] # NULL
    <3>1. pos \in RowSlots /\ old = {full_symbol_tab[pos]}
      BY <1>2, <1>3, <2>1 DEF RowSlots, Slots, Overwritten
    <3>2. QED
      BY <3>1, TableFacts DEF HeapInv, OwnedOnce
  <2>2. CASE ~(pos < size /\ full_symbol_tab[pos] # NULL)
    <3>1. old = {}
      BY <2>2 DEF Overwritten
    <3>2. QED
      BY <1>6, <2>2, <3>1
  <2>3. QED
    BY <2>1, <2>2
<1> HIDE DEF old, grown
<1>8. HeapStored(old) /\ Fresh(heap) \in Nat /\ Fresh(heap) \notin DOMAIN heap
  BY <1>1, <1>2, <1>7, HeapAfterStore
<1>9. \A k \in (0 .. size' - 1) \ {pos} : /\ full_symbol_tab'[k] # NULL => k \in RowSlots
                                          /\ k \in RowSlots => full_symbol_tab'[k] = full_symbol_tab[k]
                                          /\ k < size => full_symbol_tab'[k] = full_symbol_tab[k]
                                          /\ k >= size => full_symbol_tab'[k] = NULL
  BY <1>1, <1>2, <1>4, <1>6 DEF RowSlots, Slots
<1>10. \A k \in RowSlots : k \in 0 .. size' - 1
  BY <1>1, <1>2, <1>4, <1>6
<1>11. RowsMoved(old, pos)
  BY <1>1, <1>2, <1>5, <1>7, <1>9 DEF RowsMoved
<1>12. PayloadsMoved(old, pos)
  <2>1. ASSUME NEW id \in Ids, lent_to[id] # NULL
        PROVE  /\ lent_to[id] \notin old
               /\ \E k \in (0 .. size' - 1) \ {pos} :
                    full_symbol_tab'[k] = lent_to[id] /\ first_symbol_id' + k = id
    <3>1. PICK k \in RowSlots :
            full_symbol_tab[k] = lent_to[id] /\ first_symbol_id + k = id /\ id < NewId
      BY <1>2, <2>1
    <3>2. SetId = first_symbol_id /\ k # pos
      BY <1>2, <1>3, <3>1
    <3>3. QED
      BY <1>1, <1>7, <1>9, <1>10, <3>1, <3>2
  <2>2. QED
    BY <2>1 DEF PayloadsMoved
<1>13. RowsAccounted(old, pos)
  <2>1. /\ leaked' = leaked /\ (leaked' = {} <=> dropped' = {})
        /\ leaked \intersect old = {}
    BY <1>1, <1>7 DEF HeapInv, AllOwned, OwnedOnce
  <2>2. \A k \in (0 .. size' - 1) \ {pos} : full_symbol_tab'[k] \notin leaked
    <3>1. NULL \notin leaked
      BY TableFacts DEF HeapInv, AllOwned
    <3>2. QED
      BY <1>9, <3>1 DEF HeapInv, OwnedOnce
  <2>3. QED
    BY <1>7, <1>9, <1>10, <2>1, <2>2 DEF RowsAccounted
<1>14. NotifyStored(old, TRUE)
  <2>1. /\ old \subseteq DOMAIN Put(heap, Stored)
        /\ CanFree(Freed(Put(heap, Stored), old), reduced, submitted)
    BY <1>2, <1>7, ReturnFrees
  <2>2. QED
    BY <1>1, <2>1 DEF NotifyStored, Notify
<1>15. /\ HeapInv'
       /\ Table' = [k \in 0 .. size' - 1 |->
                      IF k = pos THEN At(reduced)
                      ELSE IF full_symbol_tab'[k] = NULL THEN NULL
                      ELSE Abs(heap[full_symbol_tab'[k]])]
       /\ At(submitted)' = ZeroSymbol /\ At(reduced)' = ZeroSymbol
       /\ LET lent == {id \in Ids : lent_to[id] # NULL}
          IN  IF ~full_symbol_has_one_id(At(submitted)) /\ full_symbol_has_one_id(At(reduced))
              THEN /\ notified' = [notified EXCEPT ![NewId] = @ + 1]
                   /\ {id \in Ids : lent_to'[id] # NULL} = lent \union {NewId}
              ELSE /\ UNCHANGED notified
                   /\ {id \in Ids : lent_to'[id] # NULL} = lent
  <2>1. /\ size' \in Nat /\ size' <= FULL_SYMBOL_SET_INITIAL_SIZE + 2 * MaxId + 1
        /\ first_symbol_id' \in Ids /\ first_symbol_id' + pos = NewId
    BY <1>1, <1>2, <1>3, <1>4
  <2> HIDE DEF pos
  <2>2. QED
    BY <1>1, <1>2, <1>5, <1>7, <1>8, <1>11, <1>12, <1>13, <1>14, <2>1, StoreSim
<1>16. Table' = [k \in 0 .. size' - 1 |-> IF k = pos THEN At(reduced)
                                          ELSE IF k < size THEN Table[k] ELSE NULL]
  <2>1. \A k \in (0 .. size' - 1) \ {pos} : k < size =>
          Table[k] = IF full_symbol_tab'[k] = NULL THEN NULL ELSE Abs(heap[full_symbol_tab'[k]])
    <3>1. \A k \in (0 .. size' - 1) \ {pos} : k < size =>
            k \in Slots /\ full_symbol_tab'[k] = full_symbol_tab[k]
      BY <1>2, <1>9 DEF Slots
    <3>2. \A k \in Slots : Table[k] = IF full_symbol_tab[k] = NULL THEN NULL
                                     ELSE Abs(heap[full_symbol_tab[k]])
      BY DEF Table
    <3>3. QED
      BY <3>1, <3>2
  <2>2. \A k \in (0 .. size' - 1) \ {pos} :
          (IF full_symbol_tab'[k] = NULL THEN NULL ELSE Abs(heap[full_symbol_tab'[k]]))
            = IF k < size THEN Table[k] ELSE NULL
    BY <1>1, <1>2, <1>4, <1>9, <2>1
  <2> HIDE DEF pos
  <2>3. QED
    BY <1>15, <2>2
<1>17. P!StoreRight
  <2>1. NewId = P!NewId /\ SetId = P!SetId
    BY <1>2, StoredSymbol
  <2>2. P!NotifyStored
    BY <1>15, <2>1, SystemOperators DEF P!NotifyStored, P!application
  <2>3. QED
    BY <1>1, <1>2, <1>4, <1>15, <1>16, <2>1, <2>2, SystemOperators DEF P!StoreRight, P!Return
<1>18. QED
  BY <1>15, <1>17

LEMMA StoreLeftSim ==
  ASSUME P!NoWrap, HeapInv, P!IInv, StoreLeft
  PROVE  P!StoreLeft /\ HeapInv'
<1> DEFINE shift == SetId - NewId
           grown == GrownSize(shift)
           moved == {k \in Slots : k + shift < grown}
           lost == {k \in Slots \ moved : full_symbol_tab[k] # NULL}
<1>1. /\ Storing /\ NewId < SetId /\ first_symbol_id' = NewId /\ size' = grown
      /\ full_symbol_tab' =
           [k \in 0 .. size' - 1 |->
              IF k = 0 THEN Fresh(heap)
              ELSE IF k - shift \in moved THEN full_symbol_tab[k - shift] ELSE NULL]
      /\ dropped' = dropped \union {SetId + k : k \in lost}
      /\ leaked' = leaked \union {full_symbol_tab[k] : k \in lost}
      /\ NotifyStored({}, CanFree(Put(heap, Stored), reduced, submitted))
      /\ pc' = "idle" /\ submitted' = NULL /\ reduced' = NULL /\ turn' = 0 /\ is_zero' = TRUE
      /\ heap' = Freed(Put(heap, Stored), {reduced, submitted})
      /\ UNCHANGED known
  BY DEF StoreLeft, Return
<1>2. /\ pc = "pivot" /\ turn >= size /\ P!Storing /\ size \in Nat
      /\ NewId \in Ids /\ SetId \in Ids /\ NewId \in Nat /\ SetId \in Nat
      /\ SetId # NewId => SetId = first_symbol_id
      /\ \A id \in Ids : lent_to[id] # NULL =>
           \E k \in RowSlots :
             full_symbol_tab[k] = lent_to[id] /\ first_symbol_id + k = id /\ id < NewId
  BY <1>1, StorePlace
<1>3. /\ SetId = first_symbol_id /\ NewId < first_symbol_id
      /\ shift \in 1 .. MaxId /\ NewId + shift = first_symbol_id
  BY <1>1, <1>2, NoneIsOut
<1>4. /\ grown = P!GrownSize(shift) /\ grown \in Nat \ {0} /\ grown >= size /\ grown > shift
      /\ grown <= FULL_SYMBOL_SET_INITIAL_SIZE + 2 * MaxId + 1
  <2>1. shift \in 0 .. MaxId
    BY <1>3
  <2> HIDE DEF shift
  <2>2. QED
    BY <1>1, <2>1, StorePlace
<1> HIDE DEF grown
<1>5. \A k \in Slots : k \in Nat
  BY DEF Slots
<1>6. \A k \in RowSlots : k \in Slots /\ full_symbol_tab[k] # NULL
  BY DEF RowSlots
(* The application has no payload: every row is of an identifier after NewId. *)
<1>7. \A id \in Ids : lent_to[id] = NULL
  <2>1. ASSUME NEW id \in Ids, lent_to[id] # NULL PROVE FALSE
    <3>1. PICK k \in RowSlots : first_symbol_id + k = id /\ id < NewId
      BY <1>2, <2>1
    <3>2. k \in Nat
      BY <1>5, <1>6
    <3>3. QED
      BY <1>2, <1>3, <3>1, <3>2
  <2>2. QED
    BY <2>1
<1>8. HeapStored({}) /\ Fresh(heap) \in Nat /\ Fresh(heap) \notin DOMAIN heap
  <2>1. heap' = Freed(Put(heap, Stored), {reduced, submitted}) /\ pc # "idle"
    BY <1>1, <1>2
  <2>2. {} \subseteq DOMAIN heap
    OBVIOUS
  <2> HIDE DEF moved, lost, shift
  <2>3. QED
    BY <2>1, <2>2, HeapAfterStore
<1>9. RowsMoved({}, 0)
  <2>1. full_symbol_tab'[0] = Fresh(heap)
    BY <1>1, <1>4
  <2>2. ASSUME NEW k \in (0 .. size' - 1) \ {0}, full_symbol_tab'[k] # NULL
        PROVE  \E j \in RowSlots : /\ first_symbol_id + j = first_symbol_id' + k
                                   /\ full_symbol_tab'[k] = full_symbol_tab[j]
    <3>1. k - shift \in moved /\ full_symbol_tab'[k] = full_symbol_tab[k - shift]
      BY <1>1, <2>2
    <3>2. k - shift \in RowSlots
      BY <2>2, <3>1 DEF RowSlots
    <3>3. first_symbol_id + (k - shift) = first_symbol_id' + k
      BY <1>1, <1>2, <1>3
    <3>4. QED
      BY <3>1, <3>2, <3>3
  <2>3. QED
    BY <1>1, <2>1, <2>2 DEF RowsMoved
<1>10. PayloadsMoved({}, 0)
  BY <1>7 DEF PayloadsMoved
<1>11. RowsAccounted({}, 0)
  <2>1. ASSUME NEW j \in RowSlots, j \in moved
        PROVE  \E k \in (0 .. size' - 1) \ {0} : full_symbol_tab'[k] = full_symbol_tab[j]
    <3>1. /\ j + shift \in (0 .. size' - 1) \ {0} /\ (j + shift) - shift = j
      BY <1>1, <1>3, <1>4, <1>5, <2>1
    <3>2. full_symbol_tab'[j + shift] = full_symbol_tab[j]
      BY <1>1, <2>1, <3>1
    <3>3. QED
      BY <3>1, <3>2
  <2>2. \A j \in RowSlots : j \in moved \/ full_symbol_tab[j] \in leaked'
    BY <1>1, <1>6
  <2>3. leaked' = {} <=> dropped' = {}
    <3>1. /\ leaked' = leaked \union {full_symbol_tab[k] : k \in lost}
          /\ dropped' = dropped \union {SetId + k : k \in lost}
          /\ leaked = {} <=> dropped = {}
      BY <1>1 DEF HeapInv, AllOwned
    <3> HIDE DEF lost
    <3>2. CASE lost = {}
      BY <3>1, <3>2
    <3>3. ASSUME NEW k \in lost PROVE leaked' # {} /\ dropped' # {}
      BY <3>1
    <3>4. QED
      BY <3>2, <3>3
  <2>4. ASSUME NEW a \in leaked'
        PROVE  /\ a \in leaked \/ \E j \in RowSlots : a = full_symbol_tab[j]
               /\ \A k \in (0 .. size' - 1) \ {0} : full_symbol_tab'[k] # a
    <3>1. a \in leaked \/ \E j \in RowSlots \ moved : a = full_symbol_tab[j]
      BY <1>1 DEF RowSlots
    <3>2. ASSUME NEW k \in (0 .. size' - 1) \ {0}, full_symbol_tab'[k] = a
          PROVE  FALSE
      <4>1. a # NULL
        BY <3>1, TableFacts DEF HeapInv, AllOwned
      <4>2. k - shift \in moved /\ full_symbol_tab'[k] = full_symbol_tab[k - shift]
        BY <1>1, <3>2, <4>1
      <4>3. k - shift \in RowSlots
        BY <3>2, <4>1, <4>2 DEF RowSlots
      <4>4. QED
        BY <3>1, <3>2, <4>2, <4>3 DEF HeapInv, OwnedOnce
    <3>3. QED
      BY <3>1, <3>2
  <2>5. leaked \subseteq leaked'
    BY <1>1
  <2> HIDE DEF moved, lost
  <2>6. QED
    BY <2>1, <2>2, <2>3, <2>4, <2>5 DEF RowsAccounted
<1>12. NotifyStored({}, TRUE)
  <2>1. CanFree(Put(heap, Stored), reduced, submitted)
    <3>1. {} \subseteq {full_symbol_tab[k] : k \in RowSlots}
      OBVIOUS
    <3>2. QED
      BY <1>2, <3>1, ReturnFrees
  <2>2. QED
    BY <1>1, <2>1 DEF NotifyStored, Notify
<1>13. /\ HeapInv'
       /\ Table' = [k \in 0 .. size' - 1 |->
                      IF k = 0 THEN At(reduced)
                      ELSE IF full_symbol_tab'[k] = NULL THEN NULL
                      ELSE Abs(heap[full_symbol_tab'[k]])]
       /\ At(submitted)' = ZeroSymbol /\ At(reduced)' = ZeroSymbol
       /\ LET lent == {id \in Ids : lent_to[id] # NULL}
          IN  IF ~full_symbol_has_one_id(At(submitted)) /\ full_symbol_has_one_id(At(reduced))
              THEN /\ notified' = [notified EXCEPT ![NewId] = @ + 1]
                   /\ {id \in Ids : lent_to'[id] # NULL} = lent \union {NewId}
              ELSE /\ UNCHANGED notified
                   /\ {id \in Ids : lent_to'[id] # NULL} = lent
  <2>1. /\ size' \in Nat /\ size' <= FULL_SYMBOL_SET_INITIAL_SIZE + 2 * MaxId + 1
        /\ first_symbol_id' \in Ids /\ first_symbol_id' + 0 = NewId /\ 0 \in 0 .. size' - 1
        /\ {} \subseteq DOMAIN heap
    BY <1>1, <1>2, <1>4
  <2>2. QED
    BY <1>1, <1>2, <1>8, <1>9, <1>10, <1>11, <1>12, <2>1, StoreSim
<1>14. \A k \in Slots : Table[k] = IF full_symbol_tab[k] = NULL THEN NULL
                                   ELSE Abs(heap[full_symbol_tab[k]])
  BY DEF Table
<1>15. Table' = [k \in 0 .. size' - 1 |->
                   IF k = 0 THEN At(reduced)
                   ELSE IF k - shift \in moved THEN Table[k - shift] ELSE NULL]
  <2>1. \A k \in (0 .. size' - 1) \ {0} :
          (IF full_symbol_tab'[k] = NULL THEN NULL ELSE Abs(heap[full_symbol_tab'[k]]))
            = IF k - shift \in moved THEN Table[k - shift] ELSE NULL
    BY <1>1, <1>14
  <2> HIDE DEF shift, moved
  <2>2. QED
    BY <1>13, <2>1
<1>16. P!StoreLeft
  <2>1. NewId = P!NewId /\ SetId = P!SetId
    BY <1>2, StoredSymbol
  <2>2. P!NotifyStored
    BY <1>13, <2>1, SystemOperators DEF P!NotifyStored, P!application
  <2>3. /\ moved = {k \in P!Slots : k + shift < P!GrownSize(shift)}
        /\ lost = {k \in P!Slots \ moved : Table[k] # NULL}
    BY <1>4, TableFacts
  <2> HIDE DEF lost, moved
  <2>4. dropped' = dropped \union {P!SetId + k : k \in lost}
    BY <1>1, <2>1
  <2>5. QED
    BY <1>1, <1>2, <1>4, <1>13, <1>15, <2>1, <2>2, <2>3, <2>4, SystemOperators
       DEF P!StoreLeft, P!Return
<1>17. QED
  BY <1>13, <1>16

LEMMA OverflowSim ==
  ASSUME HeapInv, P!IInv, Overflow
  PROVE  P!Overflow /\ HeapInv'
<1> DEFINE shift == SetId - NewId
<1>1. /\ Storing /\ NewId < SetId /\ shift >= size /\ shift + size > GrownSize(shift)
      /\ pc' = "crashed"
      /\ UNCHANGED <<size, first_symbol_id, full_symbol_tab, heap, submitted, reduced, turn,
                     is_zero, notified, lent_to, known, dropped, leaked, fault>>
  BY DEF Overflow, set, application
<1>2. /\ P!Storing /\ pc = "pivot" /\ NewId = P!NewId /\ SetId = P!SetId
      /\ shift \in 0 .. MaxId
  BY <1>1, StorePlace, StoredSymbol, NoneIsOut
<1>3. GrownSize(shift) = P!GrownSize(shift)
  BY DEF GrownSize, P!GrownSize
<1>4. Table' = Table /\ At(submitted)' = At(submitted) /\ At(reduced)' = At(reduced)
  BY <1>1, TableKept DEF At
<1>5. P!Overflow
  <2>1. {id \in Ids : lent_to[id] # NULL}' = {id \in Ids : lent_to[id] # NULL}
    BY <1>1
  <2>2. QED
    BY <1>1, <1>2, <1>3, <1>4, <2>1, SystemOperators DEF P!Overflow, P!set, P!application
<1>6. RowSlots' = RowSlots /\ Slots' = Slots
  BY <1>1 DEF RowSlots, Slots
<1>7. HeapInv'
  BY <1>1, <1>2, <1>6 DEF HeapInv, PointersValid, OwnedOnce, AllOwned, Lending
<1>8. QED
  BY <1>5, <1>7

-------------------------------------------------------------------------------
(* The operators of S that read no variable, and its actions, are those of *)
(* P as well.                                                              *)
LEMMA PromisedOperators ==
  /\ S!Ids = Ids /\ S!Vector = Vector /\ S!SYMBOL_ID_NONE = SYMBOL_ID_NONE
  /\ S!FullSymbols = FullSymbols
  /\ S!ZeroVector = ZeroVector /\ S!ZeroSymbol = ZeroSymbol
  /\ \A s : /\ S!first_nonzero_id(s) = first_nonzero_id(s)
            /\ S!last_nonzero_id(s) = last_nonzero_id(s)
            /\ S!full_symbol_is_zero(s) = full_symbol_is_zero(s)
            /\ S!full_symbol_has_one_id(s) = full_symbol_has_one_id(s)
            /\ S!full_symbol_clone(s) = full_symbol_clone(s)
  /\ \A s, a : /\ S!full_symbol_get_coef(s, a) = full_symbol_get_coef(s, a)
               /\ S!full_symbol_scale(s, a) = full_symbol_scale(s, a)
  /\ \A s, t : S!full_symbol_add(s, t) = full_symbol_add(s, t)
  /\ \A U, v : S!SpanWith(U, v) = SpanWith(U, v)
<1>1. S!Ids = Ids /\ S!Vector = Vector /\ S!SYMBOL_ID_NONE = SYMBOL_ID_NONE
  BY DEF S!Ids, Ids, S!Vector, Vector, S!SYMBOL_ID_NONE, SYMBOL_ID_NONE
<1>2. S!FullSymbols = FullSymbols /\ S!ZeroVector = ZeroVector /\ S!ZeroSymbol = ZeroSymbol
  BY <1>1 DEF S!FullSymbols, FullSymbols, S!ZeroVector, ZeroVector, S!ZeroSymbol, ZeroSymbol
<1>3. \A s : S!NonzeroIds(s) = NonzeroIds(s)
  BY <1>1 DEF S!NonzeroIds, NonzeroIds
<1>4. \A s : /\ S!first_nonzero_id(s) = first_nonzero_id(s)
             /\ S!last_nonzero_id(s) = last_nonzero_id(s)
  <2>1. \A T : S!Min(T) = Min(T) /\ S!Max(T) = Max(T)
    BY Zenon DEF S!Min, Min, S!Max, Max
  <2>2. QED
    BY <1>1, <1>3, <2>1 DEF S!first_nonzero_id, first_nonzero_id,
       S!last_nonzero_id, last_nonzero_id
<1>5. \A s : S!full_symbol_is_zero(s) = full_symbol_is_zero(s)
  BY <1>1, <1>4 DEF S!full_symbol_is_zero, full_symbol_is_zero
<1>6. \A s : S!full_symbol_has_one_id(s) = full_symbol_has_one_id(s)
  BY <1>4, <1>5 DEF S!full_symbol_has_one_id, full_symbol_has_one_id
<1>7. \A s : S!full_symbol_clone(s) = full_symbol_clone(s)
  BY <1>2, <1>5 DEF S!full_symbol_clone, full_symbol_clone
<1>8. \A s, a : /\ S!full_symbol_get_coef(s, a) = full_symbol_get_coef(s, a)
                /\ S!full_symbol_scale(s, a) = full_symbol_scale(s, a)
  BY <1>1, <1>5 DEF S!full_symbol_get_coef, full_symbol_get_coef,
     S!full_symbol_scale, full_symbol_scale, S!symbol_mul, symbol_mul
<1>9. \A s, t : S!full_symbol_add(s, t) = full_symbol_add(s, t)
  BY <1>1, <1>5, <1>7 DEF S!full_symbol_add, full_symbol_add, S!symbol_add, symbol_add
<1>10. \A U, v : S!SpanWith(U, v) = SpanWith(U, v)
  BY <1>1 DEF S!SpanWith, SpanWith, S!symbol_add_scaled, symbol_add_scaled
<1>11. QED
  BY <1>1, <1>2, <1>4, <1>5, <1>6, <1>7, <1>8, <1>9, <1>10

LEMMA SameSystem ==
  /\ P!Init => S!Init
  /\ [P!Next]_(P!vars) => [S!Next]_(S!vars)
<1> USE DEF S!set, P!set, S!application, P!application
<1> USE SystemOperators, PromisedOperators
<1>1. UNCHANGED P!vars => UNCHANGED S!vars
  BY DEF S!vars, P!vars
<1>2. P!Init => S!Init
  BY DEF S!Init, P!Init, S!Slots, P!Slots
<1>3. \A s : P!AddWithElimination(s) => S!AddWithElimination(s)
  BY DEF S!AddWithElimination, P!AddWithElimination, S!vars, P!vars
<1>4. \A id : S!full_symbol_set_get_pivot(id) = P!full_symbol_set_get_pivot(id)
  BY DEF S!full_symbol_set_get_pivot, P!full_symbol_set_get_pivot
<1>5. P!RemovePivot => S!RemovePivot
  BY <1>4 DEF S!RemovePivot, P!RemovePivot
<1>6. S!Return <=> P!Return
  BY DEF S!Return, P!Return
<1>7. P!Redundant => S!Redundant
  BY <1>6 DEF S!Redundant, P!Redundant
<1>8. P!AddAsPivot => S!AddAsPivot
  BY DEF S!AddAsPivot, P!AddAsPivot, S!Normalized, P!Normalized
<1>9. P!EliminateRow => S!EliminateRow
  BY DEF S!EliminateRow, P!EliminateRow, S!NewlySolved, P!NewlySolved
<1>10. S!NewId = P!NewId /\ S!SetId = P!SetId
  BY DEF S!NewId, P!NewId, S!SetId, P!SetId
<1>11. \A n : S!GrownSize(n) = P!GrownSize(n)
  BY DEF S!GrownSize, P!GrownSize
<1>12. (S!NotifyStored <=> P!NotifyStored) /\ (S!Storing <=> P!Storing)
  BY <1>10 DEF S!NotifyStored, P!NotifyStored, S!Storing, P!Storing
<1>13. P!StoreRight => S!StoreRight
  BY <1>6, <1>10, <1>11, <1>12 DEF S!StoreRight, P!StoreRight
<1>14. P!StoreLeft => S!StoreLeft
  BY <1>6, <1>10, <1>11, <1>12 DEF S!StoreLeft, P!StoreLeft, S!Slots, P!Slots
<1>15. P!Overflow => S!Overflow
  BY <1>10, <1>11, <1>12 DEF S!Overflow, P!Overflow
<1>16. \A v : S!Honest(v) = P!Honest(v)
  BY DEF S!Honest, P!Honest
<1>17. QED
  BY <1>1, <1>2, <1>3, <1>5, <1>7, <1>8, <1>9, <1>13, <1>14, <1>15, <1>16
     DEF S!Next, P!Next, S!Step, P!Step

-------------------------------------------------------------------------------
(* The heap starts empty.                                                  *)
LEMMA InitSim ==
  ASSUME Init
  PROVE  P!Init /\ HeapInv
<1>1. /\ size = FULL_SYMBOL_SET_INITIAL_SIZE /\ first_symbol_id = SYMBOL_ID_NONE
      /\ full_symbol_tab = [k \in Slots |-> NULL] /\ heap = [a \in {} |-> NULL]
      /\ pc = "idle" /\ submitted = NULL /\ reduced = NULL
      /\ turn = 0 /\ is_zero = TRUE
      /\ notified = [id \in Ids |-> 0] /\ lent_to = [id \in Ids |-> NULL]
      /\ known = {ZeroVector} /\ dropped = {} /\ leaked = {} /\ fault = FALSE
  BY DEF Init
<1>2. Table = [k \in Slots |-> NULL] /\ RowSlots = {}
  BY <1>1 DEF Table, RowSlots
<1>3. DOMAIN heap = {} /\ IsFiniteSet({})
  BY <1>1, FS_EmptySet
<1>4. P!Init
  <2>1. P!Slots = Slots /\ {id \in Ids : lent_to[id] # NULL} = {}
    BY <1>1 DEF P!Slots, Slots
  <2>2. At(submitted) = ZeroSymbol /\ At(reduced) = ZeroSymbol
    BY <1>1 DEF At
  <2>3. QED
    BY <1>1, <1>2, <2>1, <2>2, SystemOperators DEF P!Init
<1>5. HeapInv
  BY <1>1, <1>2, <1>3
     DEF HeapInv, WellFormed, PointersValid, OwnedOnce, AllOwned, Lending
<1>6. QED
  BY <1>4, <1>5

LEMMA NextSim ==
  ASSUME P!NoWrap, HeapInv, P!IInv, [Next]_vars
  PROVE  [P!Next]_(P!vars) /\ HeapInv'
<1>1. CASE UNCHANGED vars
  <2>1. /\ UNCHANGED <<size, first_symbol_id, full_symbol_tab, heap, pc, submitted, reduced,
                       turn, is_zero, notified, lent_to, known, dropped, leaked, fault>>
    BY <1>1 DEF vars, set, application
  <2>2. Table' = Table /\ At(submitted)' = At(submitted) /\ At(reduced)' = At(reduced)
    BY <2>1 DEF Table, At, Slots
  <2>3. UNCHANGED P!vars
    BY <2>1, <2>2 DEF P!vars, P!set, P!application
  <2>4. HeapInv'
    BY <2>1 DEF HeapInv, PointersValid, OwnedOnce, AllOwned, Lending, RowSlots, Slots, NewId
  <2>5. QED
    BY <2>3, <2>4
<1>2. CASE \E l \in Inputs : Submit(l)
  BY <1>2, SubmitSim
<1>3. CASE Step
  BY <1>3, RemovePivotSim, RedundantSim, AddAsPivotSim, EliminateRowSim, StoreRightSim,
     StoreLeftSim, OverflowSim DEF Step, P!Next, P!Step
<1>4. QED
  BY <1>1, <1>2, <1>3 DEF Next

(***************************************************************************)
(* Away from the end of the identifier range, every step of the heap is a  *)
(* step of the linear system, so the invariant of that system holds of the *)
(* symbols in memory and the one of the heap is kept.                      *)
(***************************************************************************)
THEOREM HeapInvariance ==
  ASSUME S!NoWrap
  PROVE  Spec => [](HeapInv /\ P!IInv)
<1>1. P!NoWrap
  BY DEF S!NoWrap, P!NoWrap
<1>2. NULL \notin P!FullSymbols
  BY SystemOperators, NullAssumption
<1>3. Init => HeapInv /\ P!IInv
  <2>1. P!Init => P!IInv
    BY <1>2, P!InitInv, FieldAssumption, MaxIdAssumption, IdSpanAssumption,
       InitialSizeAssumption
  <2>2. QED
    BY <2>1, InitSim
<1>4. HeapInv /\ P!IInv /\ [Next]_vars => (HeapInv /\ P!IInv)'
  <2>1. P!IInv /\ [P!Next]_(P!vars) => P!IInv'
    BY <1>1, <1>2, P!NextInv, FieldAssumption, MaxIdAssumption, IdSpanAssumption,
       InitialSizeAssumption
  <2>2. QED
    BY <1>1, <2>1, NextSim
<1>5. QED
  BY <1>3, <1>4, PTL DEF Spec

(* Every pointer of the table, of the call in progress and of the          *)
(* application is NULL or points to a full symbol that is allocated.       *)
THEOREM HeapTypeCorrect ==
  ASSUME S!NoWrap
  PROVE  Spec => []TypeOK
<1>1. HeapInv => TypeOK
  <2> SUFFICES ASSUME HeapInv PROVE TypeOK
    OBVIOUS
  <2>1. /\ \A k \in Slots : full_symbol_tab[k] \in DOMAIN heap \union {NULL}
        /\ \A id \in Ids : lent_to[id] \in DOMAIN heap \union {NULL}
        /\ submitted \in DOMAIN heap \union {NULL} /\ reduced \in DOMAIN heap \union {NULL}
    BY DEF HeapInv, PointersValid
  <2>2. QED
    BY <2>1 DEF TypeOK, HeapInv, WellFormed
<1>2. QED
  BY <1>1, HeapInvariance, PTL

(* No assertion of swif_full_symbol_impl.c fails, the row looked up for a  *)
(* callback is always there, with coefficient 1, and whatever a call frees *)
(* is allocated when it is freed.                                          *)
THEOREM AssertionsNeverFail ==
  ASSUME S!NoWrap
  PROVE  Spec => []AssertionsHold
<1>1. HeapInv => AssertionsHold
  BY DEF HeapInv, AssertionsHold
<1>2. QED
  BY <1>1, HeapInvariance, PTL

(* The bounds of every symbol allocated are those of its nonzero           *)
(* coefficients.                                                           *)
THEOREM BoundsStayTight ==
  ASSUME S!NoWrap
  PROVE  Spec => []BoundsAreTight
<1>1. HeapInv => BoundsAreTight
  BY DEF HeapInv, WellFormed, BoundsAreTight
<1>2. QED
  BY <1>1, HeapInvariance, PTL

(***************************************************************************)
(* Between two calls the symbols allocated are the rows, each in one slot, *)
(* and those lost with the rows that fell off the table, which no row      *)
(* shares.                                                                 *)
(***************************************************************************)
THEOREM NothingLeaks ==
  ASSUME S!NoWrap
  PROVE  Spec => []OnlyRowsRemain
<1> DEFINE owned == {full_symbol_tab[k] : k \in RowSlots}
<1>1. HeapInv => OnlyRowsRemain
  <2> SUFFICES ASSUME HeapInv, pc = "idle"
               PROVE  /\ DOMAIN heap = owned \union leaked
                      /\ Cardinality(DOMAIN heap) = Cardinality(RowSlots) + Cardinality(leaked)
                      /\ leaked = {} <=> dropped = {}
    BY DEF OnlyRowsRemain, RowSlots
  <2>1. DOMAIN heap = owned \union leaked /\ (leaked = {} <=> dropped = {})
    BY DEF HeapInv, AllOwned, PointersValid
  <2>2. IsFiniteSet(DOMAIN heap)
    BY DEF HeapInv, WellFormed
  <2>3. owned \intersect leaked = {}
    BY DEF HeapInv, OwnedOnce
  <2> DEFINE at == [k \in RowSlots |-> full_symbol_tab[k]]
  <2>4. at \in Injection(RowSlots, owned) /\ at \in Surjection(RowSlots, owned)
    <3>1. \A j, k \in RowSlots : full_symbol_tab[j] = full_symbol_tab[k] => j = k
      BY DEF HeapInv, OwnedOnce
    <3>2. at \in [RowSlots -> owned]
      OBVIOUS
    <3>3. \A a \in owned : \E k \in RowSlots : at[k] = a
      OBVIOUS
    <3>4. \A j, k \in RowSlots : at[j] = at[k] => j = k
      BY <3>1
    <3> HIDE DEF at, owned
    <3>5. QED
      BY <3>2, <3>3, <3>4 DEF Injection, IsInjective, Surjection
  <2> HIDE DEF at, owned
  <2>5. IsFiniteSet(owned) /\ IsFiniteSet(leaked)
    BY <2>1, <2>2, FS_Subset
  <2>6. Cardinality(RowSlots) = Cardinality(owned)
    BY <2>4, <2>5, FS_Injection
  <2>7. /\ Cardinality(owned \union leaked)
              = Cardinality(owned) + Cardinality(leaked) - Cardinality(owned \intersect leaked)
        /\ Cardinality(owned) \in Nat /\ Cardinality(leaked) \in Nat
    BY <2>5, FS_Union, FS_CardinalityType
  <2>8. QED
    <3>1. Cardinality(owned \intersect leaked) = 0
      BY <2>3, FS_EmptySet
    <3>2. Cardinality(DOMAIN heap) = Cardinality(owned) + Cardinality(leaked)
      BY <2>1, <2>7, <3>1
    <3>3. QED
      BY <2>1, <2>6, <3>2
<1>2. QED
  BY <1>1, HeapInvariance, PTL

(* The arrays and pointers implement the linear system: what is proved of  *)
(* module FullSymbolSet holds of the symbols in memory.                    *)
THEOREM HeapIsLinearSystem ==
  ASSUME S!NoWrap
  PROVE  Spec => ImplementsFullSymbolSet
<1>1. Init => S!Init
  BY InitSim, SameSystem
<1>2. HeapInv /\ P!IInv /\ [Next]_vars => [S!Next]_(S!vars)
  <2>1. P!NoWrap
    BY DEF S!NoWrap, P!NoWrap
  <2>2. QED
    BY <2>1, NextSim, SameSystem
<1>3. QED
  BY <1>1, <1>2, HeapInvariance, PTL DEF Spec, ImplementsFullSymbolSet
===============================================================================
