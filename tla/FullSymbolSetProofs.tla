-------------------------- MODULE FullSymbolSetProofs --------------------------
(***************************************************************************)
(* Proofs about the linear system, for every field of characteristic 2,    *)
(* every number of source symbols and every initial size of the table.     *)
(***************************************************************************)
EXTENDS FullSymbolSet, FiniteSetTheorems, WellFoundedInduction, TLAPS

(***************************************************************************)
(* Full symbols, and sums and multiples of them: what every operation does *)
(* to one coefficient.                                                     *)
(***************************************************************************)
(* A nonempty set of natural numbers has a smallest element, and Min       *)
(* returns it.                                                             *)
LEMMA MinIsLeast ==
  ASSUME NEW S \in SUBSET Nat, S # {}
  PROVE  /\ Min(S) \in S
         /\ \A y \in S : Min(S) <= y
<1> DEFINE Down == {0 .. x : x \in S}
<1>1. Down \subseteq FiniteSubsetsOf(Nat) /\ Down # {}
  <2>1. ASSUME NEW x \in S PROVE 0 .. x \in SUBSET Nat /\ IsFiniteSet(0 .. x)
    BY FS_Interval
  <2>2. QED
    BY <2>1 DEF FiniteSubsetsOf
<1>2. PICK D \in Down : \A E \in Down : ~(<<E, D>> \in StrictSubsetOrdering(Nat))
  BY <1>1, FS_StrictSubsetOrderingWellFounded, WFMin
<1>3. PICK x \in S : D = 0 .. x
  OBVIOUS
<1>4. ASSUME NEW y \in S PROVE x <= y
  <2>1. SUFFICES ASSUME y < x PROVE FALSE
    OBVIOUS
  <2>2. 0 .. y \subseteq 0 .. x /\ 0 .. y # 0 .. x /\ 0 .. x \subseteq Nat
    <3>1. x \in 0 .. x /\ x \notin 0 .. y
      BY <2>1
    <3>2. QED
      BY <2>1, <3>1
  <2>3. <<0 .. y, 0 .. x>> \in StrictSubsetOrdering(Nat)
    BY <2>2 DEF StrictSubsetOrdering
  <2>4. QED
    BY <1>2, <1>3, <2>3
<1>5. QED
  BY <1>4 DEF Min

(* A nonempty set of identifiers has a largest element, and Max returns    *)
(* it.                                                                     *)
LEMMA MaxIsGreatest ==
  ASSUME NEW S \in SUBSET Ids, S # {}
  PROVE  /\ Max(S) \in S
         /\ \A y \in S : y <= Max(S)
<1> DEFINE T == {MaxId - x : x \in S}
<1>1. T \in SUBSET Nat /\ T # {}
  <2>1. \A x \in S : x \in Int /\ 0 <= x /\ x <= MaxId
    BY MaxIdAssumption DEF Ids
  <2>2. \A x \in S : MaxId - x \in Nat
    BY <2>1, MaxIdAssumption
  <2>3. QED
    BY <2>2
<1>2. Min(T) \in T /\ \A y \in T : Min(T) <= y
  BY <1>1, MinIsLeast
<1>3. PICK x \in S : Min(T) = MaxId - x
  BY <1>2
<1>4. ASSUME NEW y \in S PROVE x >= y
  <2>1. MaxId - x <= MaxId - y
    BY <1>2, <1>3
  <2>2. QED
    BY <2>1, MaxIdAssumption DEF Ids
<1>5. QED
  BY <1>4, MaxIdAssumption DEF Max, Ids

(* Vectors are closed under the three operations of swif_symbol.c.         *)
LEMMA VectorOps ==
  /\ ZeroVector \in Vector
  /\ \A id \in Ids : UnitVector(id) \in Vector
  /\ \A u, v \in Vector : symbol_add(u, v) \in Vector
  /\ \A u \in Vector, a \in F : symbol_mul(a, u) \in Vector
  /\ \A u, v \in Vector, a \in F : symbol_add_scaled(u, a, v) \in Vector
BY FieldAssumption
   DEF Vector, ZeroVector, UnitVector, symbol_add, symbol_mul, symbol_add_scaled

(* A symbol is zero when all of its coefficients are; otherwise its first  *)
(* and last nonzero identifiers are what their names say.                  *)
LEMMA NonzeroRange ==
  ASSUME NEW s \in FullSymbols
  PROVE  /\ full_symbol_is_zero(s) <=> (\A c \in Ids : s.coef[c] = Zero)
         /\ ~full_symbol_is_zero(s) =>
              /\ first_nonzero_id(s) \in Ids
              /\ last_nonzero_id(s) \in Ids
              /\ s.coef[first_nonzero_id(s)] # Zero
              /\ s.coef[last_nonzero_id(s)] # Zero
              /\ \A c \in Ids : s.coef[c] # Zero =>
                   first_nonzero_id(s) <= c /\ c <= last_nonzero_id(s)
<1> DEFINE N == NonzeroIds(s)
<1>1. N \in SUBSET Ids /\ N \in SUBSET Nat
  BY DEF NonzeroIds, Ids
<1>2. CASE N = {}
  <2>1. full_symbol_is_zero(s)
    BY <1>2 DEF full_symbol_is_zero, first_nonzero_id
  <2>2. QED
    BY <1>2, <2>1 DEF NonzeroIds
<1>3. CASE N # {}
  <2>1. Min(N) \in N /\ \A y \in N : Min(N) <= y
    BY <1>1, <1>3, MinIsLeast
  <2>2. Max(N) \in N /\ \A y \in N : y <= Max(N)
    BY <1>1, <1>3, MaxIsGreatest
  <2>3. first_nonzero_id(s) = Min(N) /\ last_nonzero_id(s) = Max(N)
    BY <1>3 DEF first_nonzero_id, last_nonzero_id
  <2>4. ~full_symbol_is_zero(s)
    BY <1>1, <2>1, <2>3, IdSpanAssumption, MaxIdAssumption
       DEF full_symbol_is_zero, SYMBOL_ID_NONE, Ids
  <2>5. QED
    BY <1>1, <2>1, <2>2, <2>3, <2>4 DEF NonzeroIds
<1>4. QED
  BY <1>2, <1>3

(* A symbol with one identifier has one nonzero coefficient, the first.    *)
LEMMA OneId ==
  ASSUME NEW s \in FullSymbols
  PROVE  full_symbol_has_one_id(s) <=>
           /\ ~full_symbol_is_zero(s)
           /\ \A c \in Ids : s.coef[c] # Zero => c = first_nonzero_id(s)
<1>1. CASE full_symbol_is_zero(s)
  BY <1>1 DEF full_symbol_has_one_id
<1>2. CASE ~full_symbol_is_zero(s)
  <2>1. full_symbol_has_one_id(s) <=> first_nonzero_id(s) = last_nonzero_id(s)
    BY <1>2 DEF full_symbol_has_one_id
  <2>2. QED
    BY <1>2, <2>1, NonzeroRange, MaxIdAssumption DEF Ids
<1>3. QED
  BY <1>1, <1>2

(* A clone has the coefficients of the original.                           *)
LEMMA CloneCoef ==
  ASSUME NEW s \in FullSymbols
  PROVE  /\ full_symbol_clone(s) \in FullSymbols
         /\ full_symbol_clone(s).coef = s.coef
         /\ s.data = s.coef => full_symbol_clone(s).data = s.coef
<1>1. CASE full_symbol_is_zero(s)
  <2>1. s.coef = ZeroVector
    BY <1>1, NonzeroRange DEF FullSymbols, Vector, ZeroVector
  <2>2. QED
    BY <1>1, <2>1, VectorOps DEF full_symbol_clone, ZeroSymbol, FullSymbols
<1>2. CASE ~full_symbol_is_zero(s)
  BY <1>2 DEF full_symbol_clone
<1>3. QED
  BY <1>1, <1>2

(* Scaling multiplies every coefficient, also of a zero symbol.            *)
LEMMA ScaleCoef ==
  ASSUME NEW s \in FullSymbols, NEW a \in F
  PROVE  /\ full_symbol_scale(s, a) \in FullSymbols
         /\ full_symbol_scale(s, a).coef = symbol_mul(a, s.coef)
         /\ \A c \in Ids :
              full_symbol_scale(s, a).coef[c] = gf256_mul(a, s.coef[c])
         /\ s.data = s.coef =>
              full_symbol_scale(s, a).data = full_symbol_scale(s, a).coef
<1> DEFINE r == full_symbol_scale(s, a)
<1>1. CASE full_symbol_is_zero(s)
  <2>1. s.coef = ZeroVector
    BY <1>1, NonzeroRange DEF FullSymbols, Vector, ZeroVector
  <2>2. symbol_mul(a, s.coef) = ZeroVector
    BY <2>1, FieldAssumption DEF symbol_mul, ZeroVector
  <2>3. r = s
    BY <1>1 DEF full_symbol_scale
  <2>4. QED
    BY <2>1, <2>2, <2>3 DEF symbol_mul
<1>2. CASE ~full_symbol_is_zero(s)
  <2>1. r = [coef |-> symbol_mul(a, s.coef), data |-> symbol_mul(a, s.data)]
    BY <1>2 DEF full_symbol_scale
  <2>2. symbol_mul(a, s.coef) \in Vector /\ symbol_mul(a, s.data) \in Vector
    BY VectorOps DEF FullSymbols
  <2>3. r \in FullSymbols /\ r.coef = symbol_mul(a, s.coef)
    BY <2>1, <2>2 DEF FullSymbols
  <2>4. \A c \in Ids : symbol_mul(a, s.coef)[c] = gf256_mul(a, s.coef[c])
    BY DEF symbol_mul
  <2>5. QED
    BY <2>1, <2>3, <2>4
<1>3. QED
  BY <1>1, <1>2

(* Adding adds every coefficient, also when an operand is zero.            *)
LEMMA AddCoef ==
  ASSUME NEW s \in FullSymbols, NEW t \in FullSymbols
  PROVE  /\ full_symbol_add(s, t) \in FullSymbols
         /\ full_symbol_add(s, t).coef = symbol_add(s.coef, t.coef)
         /\ \A c \in Ids :
              full_symbol_add(s, t).coef[c] = gf256_add(s.coef[c], t.coef[c])
         /\ s.data = s.coef /\ t.data = t.coef =>
              full_symbol_add(s, t).data = full_symbol_add(s, t).coef
<1> DEFINE r == full_symbol_add(s, t)
<1>1. CASE full_symbol_is_zero(s)
  <2>1. \A c \in Ids : s.coef[c] = Zero
    BY <1>1, NonzeroRange
  <2>2. symbol_add(s.coef, t.coef) = t.coef
    BY <2>1, FieldAssumption DEF symbol_add, FullSymbols, Vector
  <2>3. r = full_symbol_clone(t)
    BY <1>1 DEF full_symbol_add
  <2>4. QED
    BY <2>2, <2>3, CloneCoef DEF symbol_add
<1>2. CASE ~full_symbol_is_zero(s) /\ full_symbol_is_zero(t)
  <2>1. \A c \in Ids : t.coef[c] = Zero
    BY <1>2, NonzeroRange
  <2>2. symbol_add(s.coef, t.coef) = s.coef
    BY <2>1, FieldAssumption DEF symbol_add, FullSymbols, Vector
  <2>3. r = s
    BY <1>2 DEF full_symbol_add
  <2>4. QED
    BY <2>2, <2>3 DEF symbol_add
<1>3. CASE ~full_symbol_is_zero(s) /\ ~full_symbol_is_zero(t)
  <2>1. r = [coef |-> symbol_add(s.coef, t.coef), data |-> symbol_add(s.data, t.data)]
    BY <1>3 DEF full_symbol_add
  <2>2. QED
    BY <2>1, VectorOps DEF FullSymbols, symbol_add
<1>4. QED
  BY <1>1, <1>2, <1>3

(* The field has no zero divisors.                                         *)
LEMMA MulNonzero ==
  ASSUME NEW a \in F \ {Zero}, NEW b \in F \ {Zero}
  PROVE  gf256_mul(a, b) # Zero
<1>1. SUFFICES ASSUME gf256_mul(a, b) = Zero PROVE FALSE
  OBVIOUS
<1>2. gf256_inv(a) \in F /\ gf256_mul(a, gf256_inv(a)) = One
  BY FieldAssumption
<1>3. gf256_mul(gf256_mul(gf256_inv(a), a), b) = Zero
  BY <1>1, <1>2, FieldAssumption
<1>4. gf256_mul(One, b) = Zero
  BY <1>2, <1>3, FieldAssumption
<1>5. QED
  BY <1>4, FieldAssumption

(* The inverse of a nonzero element is nonzero.                            *)
LEMMA InvNonzero ==
  ASSUME NEW a \in F \ {Zero}
  PROVE  gf256_inv(a) \in F \ {Zero}
<1>1. gf256_inv(a) \in F /\ gf256_mul(a, gf256_inv(a)) = One
  BY FieldAssumption
<1>2. gf256_mul(a, Zero) = Zero /\ Zero # One
  BY FieldAssumption
<1>3. QED
  BY <1>1, <1>2

(* Addition regroups, and multiplication distributes on both sides.        *)
LEMMA FieldRegroup ==
  ASSUME NEW a \in F, NEW b \in F, NEW x \in F, NEW y \in F, NEW z \in F
  PROVE  /\ gf256_add(gf256_add(x, gf256_mul(a, y)), gf256_add(z, gf256_mul(b, y)))
              = gf256_add(gf256_add(x, z), gf256_mul(gf256_add(a, b), y))
         /\ gf256_mul(b, gf256_add(x, gf256_mul(a, y)))
              = gf256_add(gf256_mul(b, x), gf256_mul(gf256_mul(b, a), y))
<1> DEFINE p == gf256_mul(a, y)
           q == gf256_mul(b, y)
<1>1. p \in F /\ q \in F
  BY FieldAssumption
<1>2. gf256_mul(gf256_add(a, b), y) = gf256_add(p, q)
  BY FieldAssumption
<1>3. gf256_add(gf256_add(x, p), gf256_add(z, q))
        = gf256_add(gf256_add(x, z), gf256_add(p, q))
  <2>1. gf256_add(gf256_add(x, p), gf256_add(z, q))
          = gf256_add(x, gf256_add(p, gf256_add(z, q)))
    BY <1>1, FieldAssumption
  <2>2. gf256_add(p, gf256_add(z, q)) = gf256_add(z, gf256_add(p, q))
    BY <1>1, FieldAssumption
  <2>3. gf256_add(x, gf256_add(z, gf256_add(p, q)))
          = gf256_add(gf256_add(x, z), gf256_add(p, q))
    BY <1>1, FieldAssumption
  <2>4. QED
    BY <2>1, <2>2, <2>3
<1>4. gf256_mul(b, gf256_add(x, p)) = gf256_add(gf256_mul(b, x), gf256_mul(b, p))
  BY <1>1, FieldAssumption
<1>5. gf256_mul(b, p) = gf256_mul(gf256_mul(b, a), y)
  BY FieldAssumption
<1>6. QED
  BY <1>2, <1>3, <1>4, <1>5

(* Adding a vector to the generators of a subspace gives a subspace that   *)
(* holds the old one and the vector.                                       *)
LEMMA SpanIsSubspace ==
  ASSUME NEW S \in SUBSET Vector, IsSubspace(S), NEW v \in Vector
  PROVE  /\ SpanWith(S, v) \subseteq Vector /\ IsSubspace(SpanWith(S, v))
         /\ S \subseteq SpanWith(S, v) /\ v \in SpanWith(S, v)
<1> DEFINE T == SpanWith(S, v)
<1>1. T \subseteq Vector
  BY VectorOps DEF SpanWith
<1>2. S \subseteq T
  <2>1. ASSUME NEW u \in S PROVE symbol_add_scaled(u, Zero, v) = u
    BY FieldAssumption DEF symbol_add_scaled, Vector
  <2>2. QED
    BY <2>1, FieldAssumption DEF SpanWith
<1>3. v \in T
  <2>1. symbol_add_scaled(ZeroVector, One, v) = v
    <3>1. \A x \in F : gf256_add(Zero, gf256_mul(One, x)) = x
      BY FieldAssumption
    <3>2. QED
      BY <3>1 DEF symbol_add_scaled, Vector, ZeroVector
  <2>2. QED
    BY <2>1, FieldAssumption DEF IsSubspace, SpanWith
<1>4. ASSUME NEW t1 \in T, NEW t2 \in T PROVE symbol_add(t1, t2) \in T
  <2>1. PICK u1 \in S, a1 \in F : t1 = symbol_add_scaled(u1, a1, v)
    BY DEF SpanWith
  <2>2. PICK u2 \in S, a2 \in F : t2 = symbol_add_scaled(u2, a2, v)
    BY DEF SpanWith
  <2>3. symbol_add(t1, t2)
          = symbol_add_scaled(symbol_add(u1, u2), gf256_add(a1, a2), v)
    <3>1. ASSUME NEW c \in Ids
          PROVE gf256_add(gf256_add(u1[c], gf256_mul(a1, v[c])),
                          gf256_add(u2[c], gf256_mul(a2, v[c])))
                  = gf256_add(gf256_add(u1[c], u2[c]),
                              gf256_mul(gf256_add(a1, a2), v[c]))
      <4>1. u1[c] \in F /\ u2[c] \in F /\ v[c] \in F
        BY DEF Vector
      <4>2. QED
        BY ONLY <4>1, FieldRegroup, a1 \in F, a2 \in F
    <3>2. symbol_add(t1, t2)
            = [c \in Ids |-> gf256_add(gf256_add(u1[c], gf256_mul(a1, v[c])),
                                       gf256_add(u2[c], gf256_mul(a2, v[c])))]
      BY <2>1, <2>2 DEF symbol_add, symbol_add_scaled
    <3>3. symbol_add_scaled(symbol_add(u1, u2), gf256_add(a1, a2), v)
            = [c \in Ids |-> gf256_add(gf256_add(u1[c], u2[c]),
                                       gf256_mul(gf256_add(a1, a2), v[c]))]
      BY DEF symbol_add, symbol_add_scaled
    <3>4. QED
      BY <3>1, <3>2, <3>3
  <2>4. symbol_add(u1, u2) \in S /\ gf256_add(a1, a2) \in F
    BY FieldAssumption DEF IsSubspace
  <2>5. QED
    BY <2>3, <2>4 DEF SpanWith
<1>5. ASSUME NEW t \in T, NEW b \in F PROVE symbol_mul(b, t) \in T
  <2>1. PICK u \in S, a \in F : t = symbol_add_scaled(u, a, v)
    BY DEF SpanWith
  <2>2. symbol_mul(b, t) = symbol_add_scaled(symbol_mul(b, u), gf256_mul(b, a), v)
    <3>1. ASSUME NEW c \in Ids
          PROVE gf256_mul(b, gf256_add(u[c], gf256_mul(a, v[c])))
                  = gf256_add(gf256_mul(b, u[c]), gf256_mul(gf256_mul(b, a), v[c]))
      BY FieldRegroup DEF Vector
    <3>2. symbol_mul(b, t)
            = [c \in Ids |-> gf256_mul(b, gf256_add(u[c], gf256_mul(a, v[c])))]
      BY <2>1 DEF symbol_mul, symbol_add_scaled
    <3>3. symbol_add_scaled(symbol_mul(b, u), gf256_mul(b, a), v)
            = [c \in Ids |-> gf256_add(gf256_mul(b, u[c]),
                                       gf256_mul(gf256_mul(b, a), v[c]))]
      BY DEF symbol_mul, symbol_add_scaled
    <3>4. QED
      BY <3>1, <3>2, <3>3
  <2>3. symbol_mul(b, u) \in S /\ gf256_mul(b, a) \in F
    BY FieldAssumption DEF IsSubspace
  <2>4. QED
    BY <2>2, <2>3 DEF SpanWith
<1>6. IsSubspace(T)
  <2>1. ZeroVector \in T
    BY <1>2 DEF IsSubspace
  <2>2. QED
    BY <1>4, <1>5, <2>1 DEF IsSubspace
<1>7. QED
  BY <1>1, <1>2, <1>3, <1>6

(* Two elements whose sum is zero are equal.                               *)
LEMMA AddZeroEqual ==
  ASSUME NEW a \in F, NEW b \in F, gf256_add(a, b) = Zero
  PROVE  a = b
<1>1. gf256_add(gf256_add(a, b), b) = gf256_add(a, gf256_add(b, b))
  BY FieldAssumption
<1>2. gf256_add(Zero, b) = b /\ gf256_add(b, b) = Zero /\ gf256_add(a, Zero) = a
  BY FieldAssumption
<1>3. QED
  BY <1>1, <1>2

(* A symbol with a single identifier and coefficient 1 there is the source *)
(* symbol itself.                                                          *)
LEMMA UnitSymbol ==
  ASSUME NEW s \in FullSymbols, NEW p \in Ids
  PROVE  /\ s.coef = UnitVector(p) =>
              full_symbol_has_one_id(s) /\ first_nonzero_id(s) = p
         /\ full_symbol_has_one_id(s) /\ s.coef[p] = One =>
              s.coef = UnitVector(p) /\ first_nonzero_id(s) = p
<1>1. ASSUME s.coef = UnitVector(p)
      PROVE  full_symbol_has_one_id(s) /\ first_nonzero_id(s) = p
  <2>1. \A c \in Ids : s.coef[c] # Zero <=> c = p
    BY <1>1, FieldAssumption DEF UnitVector
  <2>2. ~full_symbol_is_zero(s) /\ first_nonzero_id(s) = p
    BY <2>1, NonzeroRange
  <2>3. QED
    BY <2>1, <2>2, OneId
<1>2. ASSUME full_symbol_has_one_id(s), s.coef[p] = One
      PROVE  s.coef = UnitVector(p) /\ first_nonzero_id(s) = p
  <2>1. p = first_nonzero_id(s) /\ \A c \in Ids : s.coef[c] # Zero => c = p
    BY <1>2, OneId, FieldAssumption
  <2>2. s.coef = [c \in Ids |-> s.coef[c]]
    BY DEF FullSymbols, Vector
  <2>3. QED
    BY <1>2, <2>1, <2>2 DEF UnitVector
<1>3. QED
  BY <1>1, <1>2

-------------------------------------------------------------------------------
(***************************************************************************)
(* The parts of the invariant that only read the rows, and the types.      *)
(***************************************************************************)
LEMMA RowType ==
  ASSUME TypeOK, NEW k \in Rows
  PROVE  /\ full_symbol_tab[k] \in FullSymbols
         /\ \A c \in Ids : full_symbol_tab[k].coef[c] \in F
         /\ k \in Nat /\ k < size
BY DEF TypeOK, Rows, Slots, FullSymbols, Vector

(* Far from the end of the uint32_t range, the look-up finds exactly the   *)
(* row whose pivot is id.                                                  *)
LEMMA PivotLookup ==
  ASSUME NoWrap, TypeOK, SizeBound, EmptyUntilFirst, NEW id \in Ids
  PROVE  /\ full_symbol_set_get_pivot(id) = NULL <=> ~HasPivot(id)
         /\ \A k \in Rows : PivotOf(k) = id =>
              full_symbol_set_get_pivot(id) = full_symbol_tab[k]
<1>1. id \in Nat /\ id <= MaxId /\ IdSpan \in Nat /\ MaxId \in Nat /\ size \in Nat
      /\ FULL_SYMBOL_SET_INITIAL_SIZE \in Nat /\ first_symbol_id \in Nat
  BY MaxIdAssumption, IdSpanAssumption, InitialSizeAssumption
     DEF Ids, TypeOK, SYMBOL_ID_NONE
<1>2. CASE first_symbol_id = SYMBOL_ID_NONE
  <2>1. id < first_symbol_id
    BY <1>1, <1>2, IdSpanAssumption DEF SYMBOL_ID_NONE
  <2>2. full_symbol_set_get_pivot(id) = NULL
    BY <1>1, <2>1 DEF full_symbol_set_get_pivot
  <2>3. Rows = {}
    BY <1>2 DEF EmptyUntilFirst
  <2>4. QED
    BY <2>2, <2>3 DEF HasPivot
<1>3. CASE first_symbol_id # SYMBOL_ID_NONE
  <2>1. first_symbol_id <= MaxId
    BY <1>3 DEF TypeOK, Ids
  <2>2. size + first_symbol_id < IdSpan /\ size + first_symbol_id \in Nat
    BY <1>1, <2>1 DEF NoWrap, SizeBound
  <2>3. (size + first_symbol_id) % IdSpan = size + first_symbol_id
    BY <1>1, <2>2
  <2>4. CASE id >= first_symbol_id /\ id < size + first_symbol_id
    <3>1. id - first_symbol_id \in Slots /\ PivotOf(id - first_symbol_id) = id
      BY <1>1, <2>4 DEF Slots, PivotOf
    <3>2. full_symbol_set_get_pivot(id) = full_symbol_tab[id - first_symbol_id]
      BY <2>3, <2>4 DEF full_symbol_set_get_pivot
    <3>3. \A k \in Slots : PivotOf(k) = id => k = id - first_symbol_id
      BY <1>1 DEF Slots, PivotOf
    <3>4. QED
      BY <3>1, <3>2, <3>3 DEF HasPivot, Rows
  <2>5. CASE ~(id >= first_symbol_id /\ id < size + first_symbol_id)
    <3>1. full_symbol_set_get_pivot(id) = NULL
      BY <2>3, <2>5 DEF full_symbol_set_get_pivot
    <3>2. \A k \in Slots : PivotOf(k) # id
      BY <1>1, <2>5 DEF Slots, PivotOf
    <3>3. QED
      BY <3>1, <3>2 DEF HasPivot, Rows
  <2>6. QED
    BY <2>4, <2>5
<1>4. QED
  BY <1>2, <1>3

(* Two rows have two pivots.                                               *)
LEMMA PivotsDiffer ==
  ASSUME TypeOK, NEW k \in Rows, NEW j \in Rows, k # j
  PROVE  PivotOf(k) # PivotOf(j)
BY MaxIdAssumption, IdSpanAssumption DEF TypeOK, Rows, Slots, PivotOf, Ids, SYMBOL_ID_NONE

LEMMA InitInv == Init => IInv
<1> SUFFICES ASSUME Init PROVE IInv
  OBVIOUS
<1> USE DEF Init
<1>1. Rows = {}
  BY DEF Rows, Slots
<1>2. ZeroSymbol \in FullSymbols /\ ZeroVector \in Vector
  BY VectorOps DEF ZeroSymbol, FullSymbols
<1>3. TypeOK
  BY <1>2, InitialSizeAssumption DEF TypeOK, Slots
<1>4. SizeBound /\ EmptyUntilFirst
  BY <1>1, InitialSizeAssumption, MaxIdAssumption DEF SizeBound, EmptyUntilFirst
<1>5. RowsEchelon /\ VanishedIsZero /\ ColumnsClear /\ Sound
  BY <1>1 DEF RowsEchelon, VanishedIsZero, ColumnsClear, Sound
<1>6. Removing /\ Pivoting
  BY DEF Removing, Pivoting
<1>7. IsSubspace(known) /\ InHandSound
  <2>1. symbol_add(ZeroVector, ZeroVector) = ZeroVector
    BY FieldAssumption DEF symbol_add, ZeroVector
  <2>2. \A a \in F : symbol_mul(a, ZeroVector) = ZeroVector
    BY FieldAssumption DEF symbol_mul, ZeroVector
  <2>3. QED
    BY <2>1, <2>2 DEF IsSubspace, InHandSound, ZeroSymbol
<1>8. NotifiedIsDecoded /\ NotifiedOnce
  BY DEF NotifiedIsDecoded, NotifiedOnce
<1>9. QED
  BY <1>3, <1>4, <1>5, <1>6, <1>7, <1>8 DEF IInv

-------------------------------------------------------------------------------
(***************************************************************************)
(* A step that leaves the table and what the application was told keeps    *)
(* everything that is said of them, as long as no further row vanishes.    *)
(***************************************************************************)
LEMMA TableUnchanged ==
  ASSUME IInv, UNCHANGED <<set, application, dropped>>,
         \A k \in Rows : Vanished(k)' <=> Vanished(k)
  PROVE  /\ Rows' = Rows
         /\ SizeBound' /\ EmptyUntilFirst'
         /\ RowsEchelon' /\ VanishedIsZero' /\ ColumnsClear'
         /\ NotifiedIsDecoded' /\ NotifiedOnce'
<1> USE DEF IInv, set, application
<1>1. Rows' = Rows /\ \A k \in Rows : PivotOf(k)' = PivotOf(k)
  BY DEF Rows, Slots, PivotOf
<1>2. SizeBound' /\ EmptyUntilFirst'
  BY <1>1 DEF SizeBound, EmptyUntilFirst
<1>3. RowsEchelon'
  BY <1>1 DEF RowsEchelon, EchelonRow, PivotOf
<1>4. VanishedIsZero'
  BY <1>1 DEF VanishedIsZero
<1>5. ColumnsClear'
  BY <1>1 DEF ColumnsClear
<1>6. NotifiedIsDecoded' /\ NotifiedOnce'
  BY <1>1 DEF NotifiedIsDecoded, NotifiedOnce
<1>7. QED
  BY <1>1, <1>2, <1>3, <1>4, <1>5, <1>6

LEMMA AddWithEliminationInv ==
  ASSUME IInv, NEW v \in Vector, AddWithElimination(Honest(v))
  PROVE  IInv'
<1> DEFINE s == Honest(v)
<1>1. CASE full_symbol_is_zero(s)
  <2>1. UNCHANGED vars
    BY <1>1 DEF AddWithElimination
  <2>2. QED
    BY <2>1 DEF IInv, vars, set, application, TypeOK, Slots, SizeBound, EmptyUntilFirst,
         Rows, RowsEchelon, VanishedIsZero, Vanished, NewId, EchelonRow, PivotOf,
         ColumnsClear, Removing, Reduced, HasPivot, MultipleOfRow, Pivoting,
         IsSubspace, InHandSound, Sound, NotifiedIsDecoded, NotifiedOnce
<1>2. CASE ~full_symbol_is_zero(s)
  <2> USE <1>2
  <2>0. /\ pc' = "remove" /\ new_symbol1' = s /\ new_symbol' = full_symbol_clone(s)
        /\ i' = first_nonzero_id(s) /\ is_zero' = TRUE
        /\ known' = SpanWith(known, s.coef)
        /\ UNCHANGED <<set, application, dropped>>
        /\ pc = "idle"
    BY DEF AddWithElimination
  <2>1. s \in FullSymbols /\ s.coef = v /\ s.data = v
    BY DEF Honest, FullSymbols
  <2>2. new_symbol' = s /\ first_nonzero_id(s) \in Ids
    BY <2>0, <2>1, NonzeroRange DEF full_symbol_clone
  <2>3. /\ known \subseteq known' /\ known' \subseteq Vector
        /\ v \in known' /\ IsSubspace(known')
    BY <2>0, <2>1, SpanIsSubspace DEF IInv, TypeOK
  <2>4. TypeOK'
    BY <2>0, <2>1, <2>2, <2>3 DEF IInv, TypeOK, set, application, Slots, Ids
  <2>5. /\ Rows' = Rows
        /\ SizeBound' /\ EmptyUntilFirst'
        /\ RowsEchelon' /\ VanishedIsZero' /\ ColumnsClear'
        /\ NotifiedIsDecoded' /\ NotifiedOnce'
    BY <2>0, TableUnchanged DEF Vanished
  <2>6. Removing'
    <3>1. \A c \in Ids : c < i' => new_symbol'.coef[c] = Zero
      <4>1. ASSUME NEW c \in Ids, c < first_nonzero_id(s)
            PROVE s.coef[c] = Zero
        <5>1. s.coef[c] # Zero => first_nonzero_id(s) <= c
          BY <2>1, NonzeroRange
        <5>2. QED
          BY <2>2, <4>1, <5>1 DEF Ids
      <4>2. QED
        BY <2>0, <2>2, <4>1
    <3>2. Reduced'
      BY <2>0, <3>1 DEF Reduced
    <3>3. QED
      BY <2>2, <3>2 DEF Removing
  <2>7. Pivoting'
    BY <2>0 DEF Pivoting
  <2>8. InHandSound' /\ Sound'
    BY <2>0, <2>1, <2>2, <2>3, <2>5 DEF IInv, InHandSound, Sound, set
  <2>9. QED
    BY <2>3, <2>4, <2>5, <2>6, <2>7, <2>8 DEF IInv
<1>3. QED
  BY <1>1, <1>2

LEMMA RemovePivotInv ==
  ASSUME NoWrap, IInv, RemovePivot
  PROVE  IInv'
<1> DEFINE coef  == full_symbol_get_coef(new_symbol, i)
           pivot == full_symbol_set_get_pivot(i)
           sum   == full_symbol_add(new_symbol, full_symbol_scale(pivot, coef))
<1>1. /\ pc = "remove" /\ pc' = "remove" /\ i' = i + 1
      /\ i <= last_nonzero_id(new_symbol)
      /\ UNCHANGED <<set, new_symbol1, application, known, dropped>>
  BY DEF RemovePivot
<1>2. /\ TypeOK /\ new_symbol \in FullSymbols
      /\ ~full_symbol_is_zero(new_symbol) /\ (Reduced \/ MultipleOfRow)
  BY <1>1 DEF IInv, TypeOK, Removing
<1>3. i \in Ids /\ i \in Nat
  BY <1>1, <1>2, NonzeroRange, MaxIdAssumption DEF TypeOK, Ids
<1>4. coef \in F /\ coef = new_symbol.coef[i]
  BY <1>2, <1>3 DEF full_symbol_get_coef, FullSymbols, Vector
<1>5. /\ Rows' = Rows
      /\ SizeBound' /\ EmptyUntilFirst'
      /\ RowsEchelon' /\ VanishedIsZero' /\ ColumnsClear'
      /\ NotifiedIsDecoded' /\ NotifiedOnce'
  BY <1>1, TableUnchanged DEF Vanished
<1>6. /\ \A k \in Rows : PivotOf(k)' = PivotOf(k) /\ full_symbol_tab'[k] = full_symbol_tab[k]
      /\ \A c \in Ids : HasPivot(c)' <=> HasPivot(c)
  BY <1>1, <1>5 DEF PivotOf, HasPivot, set
<1>7. ASSUME new_symbol' \in FullSymbols, is_zero' \in BOOLEAN,
             new_symbol'.coef \in known, new_symbol'.data = new_symbol'.coef,
             ~full_symbol_is_zero(new_symbol)', Reduced' \/ MultipleOfRow'
      PROVE  IInv'
  <2>1. TypeOK'
    BY <1>1, <1>2, <1>3, <1>7 DEF TypeOK, set, application, Slots
  <2>2. Removing' /\ Pivoting'
    BY <1>1, <1>7 DEF Removing, Pivoting
  <2>3. IsSubspace(known') /\ InHandSound' /\ Sound'
    BY <1>1, <1>5, <1>6, <1>7 DEF IInv, InHandSound, Sound
  <2>4. QED
    BY <1>5, <2>1, <2>2, <2>3 DEF IInv
<1>8. CASE coef = Zero
  <2>1. UNCHANGED <<new_symbol, is_zero>>
    BY <1>8 DEF RemovePivot
  <2>2. CASE Reduced
    <3>1. Reduced'
      <4>1. \A c \in Ids : (c < i' => c < i \/ c = i) /\ (c < i => c < i')
        BY <1>1, <1>3 DEF Ids
      <4>2. ASSUME NEW c \in Ids, c < i', new_symbol'.coef[c] # Zero PROVE ~HasPivot(c)'
        BY <1>4, <1>6, <1>8, <2>1, <2>2, <4>1, <4>2 DEF Reduced
      <4>3. (\A c \in Ids : c < i => new_symbol.coef[c] = Zero)
              <=> (\A c \in Ids : c < i' => new_symbol'.coef[c] = Zero)
        BY <1>4, <1>8, <2>1, <4>1
      <4>4. QED
        BY <2>1, <2>2, <4>2, <4>3 DEF Reduced
    <3>2. QED
      BY <1>2, <1>7, <2>1, <3>1 DEF IInv, InHandSound, TypeOK
  <2>3. CASE MultipleOfRow
    <3>1. MultipleOfRow'
      <4>1. PICK k \in Rows, a \in F \ {Zero} :
              /\ PivotOf(k) < i
              /\ new_symbol.coef = symbol_mul(a, full_symbol_tab[k].coef)
              /\ is_zero \/ \E c \in Ids : c # PivotOf(k) /\ new_symbol.coef[c] # Zero
        BY <2>3 DEF MultipleOfRow
      <4>2. PivotOf(k) \in Ids
        BY DEF IInv, RowsEchelon
      <4>3. PivotOf(k) < i + 1
        BY <1>3, <4>1, <4>2 DEF Ids
      <4>4. QED
        BY <1>1, <1>5, <1>6, <2>1, <4>1, <4>3 DEF MultipleOfRow
    <3>2. QED
      BY <1>2, <1>7, <2>1, <3>1 DEF IInv, InHandSound, TypeOK
  <2>4. QED
    BY <1>2, <2>2, <2>3
<1>9. CASE coef # Zero /\ pivot = NULL
  <2>1. is_zero' = FALSE /\ new_symbol' = new_symbol
    BY <1>9 DEF RemovePivot
  <2>2. ~HasPivot(i)
    BY <1>3, <1>9, PivotLookup DEF IInv
  <2>3. CASE Reduced
    <3>1. Reduced'
      BY <1>1, <1>3, <1>4, <1>6, <1>9, <2>1, <2>2, <2>3 DEF Reduced, Ids
    <3>2. QED
      BY <1>2, <1>7, <2>1, <3>1 DEF IInv, InHandSound, TypeOK
  <2>4. CASE MultipleOfRow
    <3>1. MultipleOfRow'
      <4>1. PICK k \in Rows, a \in F \ {Zero} :
              /\ PivotOf(k) < i
              /\ new_symbol.coef = symbol_mul(a, full_symbol_tab[k].coef)
        BY <2>4 DEF MultipleOfRow
      <4>2. PivotOf(k) \in Ids
        BY DEF IInv, RowsEchelon
      <4>3. PivotOf(k) < i + 1 /\ i # PivotOf(k)
        BY <1>3, <4>1, <4>2 DEF Ids
      <4>4. QED
        BY <1>1, <1>3, <1>4, <1>5, <1>6, <1>9, <2>1, <4>1, <4>3 DEF MultipleOfRow
    <3>2. QED
      BY <1>2, <1>7, <2>1, <3>1 DEF IInv, InHandSound, TypeOK
  <2>5. QED
    BY <1>2, <2>3, <2>4
<1>10. CASE coef # Zero /\ pivot # NULL
  <2>1. /\ new_symbol' = IF full_symbol_is_zero(sum) THEN new_symbol ELSE sum
        /\ is_zero' = is_zero
    BY <1>10 DEF RemovePivot
  <2>2. PICK k \in Rows : PivotOf(k) = i /\ full_symbol_tab[k] = pivot
    BY <1>3, <1>10, PivotLookup DEF IInv, HasPivot
  <2>3. /\ pivot \in FullSymbols /\ EchelonRow(k)
        /\ \A c \in Ids : pivot.coef[c] \in F
        /\ pivot.coef \in known /\ pivot.data = pivot.coef
    BY <1>1, <1>2, <2>2, RowType DEF IInv, RowsEchelon, Vanished, Sound
  <2>4. /\ sum \in FullSymbols
        /\ \A c \in Ids :
             sum.coef[c] = gf256_add(new_symbol.coef[c], gf256_mul(coef, pivot.coef[c]))
        /\ sum.coef = symbol_add(new_symbol.coef, symbol_mul(coef, pivot.coef))
        /\ sum.data = sum.coef
    BY <1>2, <1>4, <2>3, ScaleCoef, AddCoef DEF IInv, InHandSound
  <2>5. Reduced
    <3>1. SUFFICES ASSUME MultipleOfRow PROVE FALSE
      BY <1>2
    <3>2. PICK m \in Rows, a \in F \ {Zero} :
            /\ PivotOf(m) < i
            /\ new_symbol.coef = symbol_mul(a, full_symbol_tab[m].coef)
      BY <3>1 DEF MultipleOfRow
    <3>3. m # k
      BY <1>3, <2>2, <3>2
    <3>4. full_symbol_tab[m].coef[i] = Zero
      BY <2>2, <3>3 DEF IInv, ColumnsClear
    <3>5. new_symbol.coef[i] = gf256_mul(a, Zero)
      BY <1>3, <3>2, <3>4 DEF symbol_mul
    <3>6. QED
      BY <1>4, <1>10, <3>5, FieldAssumption
  <2>6. \A c \in Ids : c < i => sum.coef[c] = new_symbol.coef[c]
    <3>1. ASSUME NEW c \in Ids, c < i PROVE sum.coef[c] = new_symbol.coef[c]
      <4>1. pivot.coef[c] = Zero
        BY <2>2, <2>3, <3>1 DEF EchelonRow
      <4>2. new_symbol.coef[c] \in F
        BY <1>2 DEF FullSymbols, Vector
      <4>3. QED
        BY <1>4, <2>4, <4>1, <4>2, FieldAssumption
    <3>2. QED
      BY <3>1
  <2>7. sum.coef[i] = Zero
    <3>1. pivot.coef[i] = One
      BY <2>2, <2>3 DEF EchelonRow
    <3>2. QED
      BY <1>3, <1>4, <2>4, <3>1, FieldAssumption
  <2>8. CASE full_symbol_is_zero(sum)
    <3>1. new_symbol' = new_symbol
      BY <2>1, <2>8
    <3>2. \A c \in Ids : new_symbol.coef[c] = gf256_mul(coef, pivot.coef[c])
      <4>1. ASSUME NEW c \in Ids
            PROVE  new_symbol.coef[c] = gf256_mul(coef, pivot.coef[c])
        <5>1. sum.coef[c] = Zero
          BY <2>4, <2>8, NonzeroRange
        <5>2. new_symbol.coef[c] \in F /\ gf256_mul(coef, pivot.coef[c]) \in F
          BY <1>2, <1>4, <2>3, FieldAssumption DEF FullSymbols, Vector
        <5>3. QED
          BY <2>4, <5>1, <5>2, AddZeroEqual
      <4>2. QED
        BY <4>1
    <3>3. new_symbol.coef = symbol_mul(coef, pivot.coef)
      BY <1>2, <3>2 DEF symbol_mul, FullSymbols, Vector
    <3>4. is_zero
      <4>1. \A c \in Ids : c < i => new_symbol.coef[c] = Zero
        BY <2>4, <2>6, <2>8, NonzeroRange
      <4>2. QED
        BY <2>5, <4>1 DEF Reduced
    <3>5. PivotOf(k) < i + 1
      BY <1>3, <2>2
    <3>6. MultipleOfRow'
      BY <1>1, <1>4, <1>5, <1>6, <1>10, <2>1, <2>2, <3>1, <3>3, <3>4, <3>5 DEF MultipleOfRow
    <3>7. QED
      BY <1>2, <1>7, <2>1, <3>1, <3>6 DEF IInv, InHandSound, TypeOK
  <2>9. CASE ~full_symbol_is_zero(sum)
    <3>1. new_symbol' = sum
      BY <2>1, <2>9
    <3>2. \A c \in Ids : c < i' => c < i \/ c = i
      BY <1>1, <1>3 DEF Ids
    <3>3. Reduced'
      <4>1. ASSUME NEW c \in Ids, c < i', new_symbol'.coef[c] # Zero PROVE ~HasPivot(c)'
        BY <1>6, <2>5, <2>6, <2>7, <3>1, <3>2, <4>1 DEF Reduced
      <4>2. (\A c \in Ids : c < i => new_symbol.coef[c] = Zero)
              <=> (\A c \in Ids : c < i' => new_symbol'.coef[c] = Zero)
        <5>1. \A c \in Ids : c < i => c < i'
          BY <1>1, <1>3 DEF Ids
        <5>2. QED
          BY <2>6, <2>7, <3>1, <3>2, <5>1
      <4>3. QED
        BY <2>1, <2>5, <4>1, <4>2 DEF Reduced
    <3>4. sum.coef \in known
      BY <1>4, <2>3, <2>4 DEF IInv, InHandSound, IsSubspace
    <3>5. QED
      BY <1>7, <1>2, <2>1, <2>4, <2>9, <3>1, <3>3, <3>4 DEF TypeOK
  <2>10. QED
    BY <2>8, <2>9
<1>11. QED
  BY <1>8, <1>9, <1>10

LEMMA RedundantInv ==
  ASSUME IInv, Redundant
  PROVE  IInv'
<1>1. /\ pc = "remove" /\ pc' = "idle"
      /\ new_symbol1' = ZeroSymbol /\ new_symbol' = ZeroSymbol
      /\ i' = 0 /\ is_zero' = TRUE
      /\ UNCHANGED <<set, application, known, dropped>>
  BY DEF Redundant, Return
<1>2. /\ Rows' = Rows
      /\ SizeBound' /\ EmptyUntilFirst'
      /\ RowsEchelon' /\ VanishedIsZero' /\ ColumnsClear'
      /\ NotifiedIsDecoded' /\ NotifiedOnce'
  BY <1>1, TableUnchanged DEF Vanished
<1>3. TypeOK'
  BY <1>1, VectorOps DEF IInv, TypeOK, set, application, Slots, ZeroSymbol, FullSymbols
<1>4. Removing' /\ Pivoting'
  BY <1>1 DEF Removing, Pivoting
<1>5. IsSubspace(known') /\ InHandSound' /\ Sound'
  BY <1>1, <1>2 DEF IInv, IsSubspace, InHandSound, Sound, set, ZeroSymbol
<1>6. QED
  BY <1>2, <1>3, <1>4, <1>5 DEF IInv

LEMMA AddAsPivotInv ==
  ASSUME IInv, AddAsPivot
  PROVE  IInv'
<1> DEFINE lead == first_nonzero_id(new_symbol)
           inv  == gf256_inv(full_symbol_get_coef(new_symbol, lead))
<1>1. /\ pc = "remove" /\ pc' = "pivot" /\ i' = 0
      /\ i > last_nonzero_id(new_symbol) /\ ~is_zero
      /\ new_symbol' = full_symbol_scale(new_symbol, inv)
      /\ UNCHANGED <<set, new_symbol1, is_zero, application, known, dropped>>
  BY DEF AddAsPivot, Normalized
<1>2. /\ TypeOK /\ new_symbol \in FullSymbols /\ i \in Nat
      /\ ~full_symbol_is_zero(new_symbol) /\ (Reduced \/ MultipleOfRow)
      /\ \A c \in Ids : new_symbol.coef[c] \in F
  BY <1>1 DEF IInv, TypeOK, Removing, FullSymbols, Vector
<1>3. /\ lead \in Ids /\ new_symbol.coef[lead] # Zero
      /\ \A c \in Ids : new_symbol.coef[c] # Zero => lead <= c /\ c < i
  <2>1. last_nonzero_id(new_symbol) \in Ids /\ last_nonzero_id(new_symbol) < i
    BY <1>1, <1>2, NonzeroRange DEF Ids
  <2>2. \A c \in Ids : c <= last_nonzero_id(new_symbol) => c < i
    BY <1>2, <2>1 DEF Ids
  <2>3. QED
    BY <1>2, <2>2, NonzeroRange
<1>4. /\ inv \in F \ {Zero}
      /\ gf256_mul(inv, new_symbol.coef[lead]) = One
  <2>1. inv \in F \ {Zero} /\ gf256_mul(new_symbol.coef[lead], inv) = One
    BY <1>2, <1>3, InvNonzero, FieldAssumption DEF full_symbol_get_coef
  <2>2. QED
    BY <1>2, <1>3, <2>1, FieldAssumption
<1>5. /\ new_symbol' \in FullSymbols
      /\ new_symbol'.coef = symbol_mul(inv, new_symbol.coef)
      /\ \A c \in Ids : new_symbol'.coef[c] = gf256_mul(inv, new_symbol.coef[c])
      /\ new_symbol'.data = new_symbol'.coef
  BY <1>1, <1>2, <1>4, ScaleCoef DEF IInv, InHandSound
<1>6. \A c \in Ids : new_symbol'.coef[c] # Zero <=> new_symbol.coef[c] # Zero
  <2>1. ASSUME NEW c \in Ids, new_symbol.coef[c] # Zero PROVE new_symbol'.coef[c] # Zero
    <3>1. new_symbol.coef[c] \in F \ {Zero}
      BY <1>2, <2>1
    <3>2. QED
      BY <1>4, <1>5, <3>1, MulNonzero
  <2>2. ASSUME NEW c \in Ids, new_symbol.coef[c] = Zero PROVE new_symbol'.coef[c] = Zero
    BY <1>4, <1>5, <2>2, FieldAssumption
  <2>3. QED
    BY <2>1, <2>2
<1>7. NewId' = lead /\ ~full_symbol_is_zero(new_symbol)' /\ new_symbol'.coef[lead] = One
  <2>1. NonzeroIds(new_symbol)' = NonzeroIds(new_symbol)
    BY <1>6 DEF NonzeroIds
  <2>2. QED
    BY <1>2, <1>3, <1>4, <1>5, <2>1 DEF NewId, first_nonzero_id, full_symbol_is_zero
<1>8. \A k \in Rows : ~Vanished(k) /\ ~Vanished(k)' /\ EchelonRow(k)
  BY <1>1, <1>2, RowType DEF Vanished, IInv, RowsEchelon
<1>9. /\ Rows' = Rows
      /\ SizeBound' /\ EmptyUntilFirst'
      /\ RowsEchelon' /\ VanishedIsZero' /\ ColumnsClear'
      /\ NotifiedIsDecoded' /\ NotifiedOnce'
  BY <1>1, <1>8, TableUnchanged
<1>10. TypeOK'
  BY <1>1, <1>2, <1>5 DEF TypeOK, set, application, Slots
<1>11. Pivoting'
  <2> DEFINE Clear == \A k \in Rows : PivotOf(k) # lead => new_symbol'.coef[PivotOf(k)] = Zero
             Same  == \A k \in Rows : PivotOf(k) = lead =>
                        /\ full_symbol_tab[k].coef = new_symbol'.coef
                        /\ \E c \in Ids : c # lead /\ new_symbol'.coef[c] # Zero
  <2>1. SUFFICES Clear /\ Same
    <3>1. \A k \in Rows : ~(k < i')
      BY <1>1, <1>2, RowType
    <3>2. \A k \in Rows : PivotOf(k)' = PivotOf(k) /\ full_symbol_tab'[k] = full_symbol_tab[k]
      BY <1>1 DEF PivotOf, set
    <3>3. QED
      BY <1>7, <1>9, <3>1, <3>2 DEF Pivoting
  <2>2. CASE Reduced
    <3>1. \A k \in Rows : PivotOf(k) \in Ids /\ new_symbol.coef[PivotOf(k)] = Zero
      BY <1>3, <1>8, <2>2 DEF Reduced, HasPivot, EchelonRow
    <3>2. QED
      BY <1>3, <1>6, <3>1
  <2>3. CASE MultipleOfRow
    <3>1. PICK m \in Rows, a \in F \ {Zero} :
            /\ new_symbol.coef = symbol_mul(a, full_symbol_tab[m].coef)
            /\ \E c \in Ids : c # PivotOf(m) /\ new_symbol.coef[c] # Zero
      BY <1>1, <2>3 DEF MultipleOfRow
    <3>2. /\ full_symbol_tab[m] \in FullSymbols
          /\ \A c \in Ids : full_symbol_tab[m].coef[c] \in F
          /\ \A c \in Ids : new_symbol.coef[c] = gf256_mul(a, full_symbol_tab[m].coef[c])
      BY <1>2, <3>1, RowType DEF symbol_mul
    <3>3. /\ PivotOf(m) \in Ids /\ full_symbol_tab[m].coef[PivotOf(m)] = One
          /\ \A c \in Ids : c < PivotOf(m) => full_symbol_tab[m].coef[c] = Zero
      BY <1>8 DEF EchelonRow
    <3>4. new_symbol.coef[PivotOf(m)] = a
      BY <3>2, <3>3, FieldAssumption
    <3>5. lead = PivotOf(m)
      <4>1. lead <= PivotOf(m)
        BY <1>3, <3>3, <3>4
      <4>2. ~(lead < PivotOf(m))
        <5>1. SUFFICES ASSUME lead < PivotOf(m) PROVE FALSE
          OBVIOUS
        <5>2. full_symbol_tab[m].coef[lead] = Zero
          BY <1>3, <3>3, <5>1
        <5>3. new_symbol.coef[lead] = gf256_mul(a, Zero)
          BY <1>3, <3>2, <5>2
        <5>4. QED
          BY <1>3, <5>3, FieldAssumption
      <4>3. QED
        BY <1>3, <3>3, <4>1, <4>2 DEF Ids
    <3>6. \A c \in Ids : new_symbol'.coef[c] = full_symbol_tab[m].coef[c]
      <4>1. gf256_mul(inv, a) = One
        BY <1>4, <3>4, <3>5
      <4>2. ASSUME NEW x \in F PROVE gf256_mul(inv, gf256_mul(a, x)) = x
        <5>1. gf256_mul(inv, gf256_mul(a, x)) = gf256_mul(gf256_mul(inv, a), x)
          BY <1>4, FieldAssumption
        <5>2. gf256_mul(One, x) = x
          BY FieldAssumption
        <5>3. QED
          BY <4>1, <5>1, <5>2
      <4>3. QED
        BY <1>5, <3>2, <4>2
    <3>7. new_symbol'.coef = full_symbol_tab[m].coef
      BY <1>5, <3>2, <3>6 DEF FullSymbols, Vector
    <3>8. \A k \in Rows : PivotOf(k) # lead => new_symbol'.coef[PivotOf(k)] = Zero
      BY <1>8, <3>5, <3>7 DEF IInv, ColumnsClear, EchelonRow
    <3>9. \A k \in Rows : PivotOf(k) = lead => k = m
      BY <1>2, <3>5, PivotsDiffer
    <3>10. QED
      BY <1>6, <3>1, <3>5, <3>7, <3>8, <3>9
  <2>4. QED
    BY <1>2, <2>2, <2>3
<1>12. Removing'
  BY <1>1 DEF Removing
<1>13. IsSubspace(known') /\ InHandSound' /\ Sound'
  BY <1>1, <1>2, <1>4, <1>5, <1>9 DEF IInv, IsSubspace, InHandSound, Sound, set
<1>14. QED
  BY <1>9, <1>10, <1>11, <1>12, <1>13 DEF IInv

-------------------------------------------------------------------------------
(***************************************************************************)
(* The sum that replaces row i: it keeps its pivot and loses the new one,  *)
(* or it vanishes because the row was the new symbol itself.               *)
(***************************************************************************)
RowSum(k) ==
  full_symbol_add(full_symbol_tab[k],
    full_symbol_scale(new_symbol, full_symbol_get_coef(full_symbol_tab[k], NewId)))

LEMMA NewPivot ==
  ASSUME IInv, pc = "pivot"
  PROVE  /\ new_symbol \in FullSymbols /\ NewId \in Ids
         /\ \A c \in Ids : new_symbol.coef[c] \in F
         /\ new_symbol.coef[NewId] = One
         /\ \A c \in Ids : c < NewId => new_symbol.coef[c] = Zero
         /\ \A k \in Rows : PivotOf(k) # NewId => new_symbol.coef[PivotOf(k)] = Zero
<1>1. new_symbol \in FullSymbols /\ ~full_symbol_is_zero(new_symbol)
  BY DEF IInv, TypeOK, Pivoting
<1>2. NewId \in Ids /\ \A c \in Ids : new_symbol.coef[c] # Zero => NewId <= c
  BY <1>1, NonzeroRange DEF NewId
<1>3. \A c \in Ids : c < NewId => ~(NewId <= c)
  BY <1>2 DEF Ids
<1>4. QED
  BY <1>1, <1>2, <1>3 DEF IInv, Pivoting, FullSymbols, Vector

LEMMA RowSumFacts ==
  ASSUME IInv, pc = "pivot", i \in Rows
  PROVE  /\ RowSum(i) \in FullSymbols
         /\ RowSum(i).coef[NewId] = Zero
         /\ RowSum(i).coef \in known /\ RowSum(i).data = RowSum(i).coef
         /\ \A j \in Rows \ {i} : RowSum(i).coef[PivotOf(j)] = Zero
         /\ PivotOf(i) \in Ids
         /\ PivotOf(i) # NewId =>
              /\ RowSum(i).coef[PivotOf(i)] = One
              /\ \A c \in Ids : c < PivotOf(i) => RowSum(i).coef[c] = Zero
              /\ full_symbol_tab[i].coef[NewId] = Zero =>
                   RowSum(i).coef = full_symbol_tab[i].coef
         /\ PivotOf(i) = NewId =>
              /\ full_symbol_is_zero(RowSum(i))
              /\ ~full_symbol_has_one_id(full_symbol_tab[i])
<1> DEFINE row == full_symbol_tab[i]
           x   == full_symbol_get_coef(row, NewId)
           p   == PivotOf(i)
<1>1. /\ new_symbol \in FullSymbols /\ NewId \in Ids
      /\ \A c \in Ids : new_symbol.coef[c] \in F
      /\ new_symbol.coef[NewId] = One
      /\ \A c \in Ids : c < NewId => new_symbol.coef[c] = Zero
      /\ \A k \in Rows : PivotOf(k) # NewId => new_symbol.coef[PivotOf(k)] = Zero
  BY NewPivot
<1>2. /\ row \in FullSymbols /\ \A c \in Ids : row.coef[c] \in F
      /\ row.coef \in known /\ row.data = row.coef
      /\ i \in Nat
  BY RowType DEF IInv, Sound
<1>3. x \in F /\ x = row.coef[NewId]
  BY <1>1, <1>2 DEF full_symbol_get_coef
<1>4. /\ RowSum(i) \in FullSymbols
      /\ RowSum(i).coef = symbol_add(row.coef, symbol_mul(x, new_symbol.coef))
      /\ \A c \in Ids :
           RowSum(i).coef[c] = gf256_add(row.coef[c], gf256_mul(x, new_symbol.coef[c]))
      /\ RowSum(i).data = RowSum(i).coef
  <2> DEFINE scaled == full_symbol_scale(new_symbol, x)
  <2>1. new_symbol.data = new_symbol.coef
    BY DEF IInv, InHandSound
  <2>2. /\ scaled \in FullSymbols /\ scaled.data = scaled.coef
        /\ scaled.coef = symbol_mul(x, new_symbol.coef)
        /\ \A c \in Ids : scaled.coef[c] = gf256_mul(x, new_symbol.coef[c])
    BY <1>1, <1>3, <2>1, ScaleCoef
  <2>3. RowSum(i) = full_symbol_add(row, scaled)
    BY DEF RowSum
  <2> HIDE DEF scaled, x, row
  <2>4. QED
    BY <1>2, <2>2, <2>3, AddCoef
<1> HIDE DEF x
<1>5. RowSum(i).coef \in known
  BY <1>2, <1>3, <1>4 DEF IInv, IsSubspace, InHandSound
<1>6. /\ p \in Ids /\ row.coef[p] = One
      /\ \A c \in Ids : c < p => row.coef[c] = Zero
  BY <1>2 DEF IInv, RowsEchelon, Vanished, EchelonRow
<1>7. RowSum(i).coef[NewId] = Zero
  <2>1. RowSum(i).coef[NewId] = gf256_add(x, gf256_mul(x, One))
    BY <1>1, <1>3, <1>4
  <2>2. QED
    BY <1>3, <2>1, FieldAssumption
<1>8. ASSUME NEW c \in Ids, new_symbol.coef[c] = Zero
      PROVE  RowSum(i).coef[c] = row.coef[c]
  <2>1. RowSum(i).coef[c] = gf256_add(row.coef[c], gf256_mul(x, Zero))
    BY <1>4, <1>8
  <2>2. row.coef[c] \in F
    BY <1>2
  <2>3. QED
    BY <1>3, <2>1, <2>2, FieldAssumption
<1>9. ASSUME NEW j \in Rows \ {i} PROVE RowSum(i).coef[PivotOf(j)] = Zero
  <2>1. PivotOf(j) \in Ids /\ row.coef[PivotOf(j)] = Zero
    BY DEF IInv, RowsEchelon, ColumnsClear
  <2>2. QED
    BY <1>1, <1>7, <1>8, <2>1
<1>10. ASSUME p # NewId
       PROVE  /\ RowSum(i).coef[p] = One
              /\ \A c \in Ids : c < p => RowSum(i).coef[c] = Zero
              /\ row.coef[NewId] = Zero => RowSum(i).coef = row.coef
  <2>1. RowSum(i).coef[p] = One
    BY <1>1, <1>6, <1>8, <1>10
  <2>2. ASSUME row.coef[NewId] = Zero
        PROVE  \A c \in Ids : RowSum(i).coef[c] = row.coef[c]
    <3>1. \A y \in F : gf256_mul(Zero, y) = Zero /\ gf256_add(y, Zero) = y
      BY FieldAssumption
    <3>2. QED
      BY <1>1, <1>2, <1>3, <1>4, <2>2, <3>1
  <2>3. row.coef[NewId] = Zero => RowSum(i).coef = row.coef
    BY <1>2, <1>4, <2>2 DEF FullSymbols, Vector
  <2>4. ASSUME NEW c \in Ids, c < p PROVE RowSum(i).coef[c] = Zero
    <3>1. CASE NewId < p
      BY <1>1, <1>6, <2>2, <2>4, <3>1
    <3>2. CASE ~(NewId < p)
      <4>1. c < NewId
        BY <1>1, <1>6, <1>10, <2>4, <3>2 DEF Ids
      <4>2. QED
        BY <1>1, <1>6, <1>8, <2>4, <4>1
    <3>3. QED
      BY <3>1, <3>2
  <2>5. QED
    BY <2>1, <2>3, <2>4
<1>11. ASSUME p = NewId
       PROVE  /\ full_symbol_is_zero(RowSum(i))
              /\ ~full_symbol_has_one_id(row)
  <2>1. /\ row.coef = new_symbol.coef
        /\ \E c \in Ids : c # NewId /\ new_symbol.coef[c] # Zero
    BY <1>2, <1>11 DEF IInv, Pivoting
  <2>2. \A c \in Ids : RowSum(i).coef[c] = Zero
    <3>1. x = One
      BY <1>1, <1>3, <2>1
    <3>2. QED
      <4>1. \A y \in F : gf256_add(y, gf256_mul(One, y)) = Zero
        BY FieldAssumption
      <4>2. QED
        BY <1>1, <1>4, <2>1, <3>1, <4>1
  <2>3. row.coef[NewId] # Zero
    BY <1>1, <2>1, FieldAssumption
  <2>4. QED
    BY <1>1, <1>2, <1>4, <2>1, <2>2, <2>3, NonzeroRange, OneId
<1>12. QED
  BY <1>4, <1>5, <1>6, <1>7, <1>9, <1>10, <1>11

LEMMA EliminateRowInv ==
  ASSUME IInv, EliminateRow
  PROVE  IInv'
<1>1. /\ pc = "pivot" /\ i < size /\ i' = i + 1
      /\ UNCHANGED <<pc, new_symbol1, new_symbol, is_zero, known, dropped>>
  BY DEF EliminateRow
<1>2. /\ TypeOK /\ i \in Nat /\ i' \in Nat /\ i \in Slots
      /\ size \in Nat /\ first_symbol_id \in Nat
  BY <1>1, MaxIdAssumption, IdSpanAssumption DEF IInv, TypeOK, Slots, Ids, SYMBOL_ID_NONE
<1>3. NewId' = NewId
  BY <1>1 DEF NewId
<1>4. \A k \in Nat : k < i' <=> k < i \/ k = i
  BY <1>1, <1>2
<1>5. CASE full_symbol_tab[i] = NULL
  <2>1. UNCHANGED <<set, application>>
    BY <1>5 DEF EliminateRow
  <2>2. \A k \in Rows : k \in Nat /\ k # i /\ (k < i' <=> k < i) /\ (k >= i' => k >= i)
    BY <1>1, <1>2, <1>5, RowType DEF Rows
  <2>3. \A k \in Rows : Vanished(k)' <=> Vanished(k)
    BY <1>1, <1>3, <2>1, <2>2 DEF Vanished, PivotOf, set
  <2>4. /\ Rows' = Rows
        /\ SizeBound' /\ EmptyUntilFirst'
        /\ RowsEchelon' /\ VanishedIsZero' /\ ColumnsClear'
        /\ NotifiedIsDecoded' /\ NotifiedOnce'
    BY <1>1, <2>1, <2>3, TableUnchanged
  <2>5. TypeOK'
    BY <1>1, <1>2, <2>1 DEF TypeOK, set, application, Slots
  <2>6. Removing' /\ Pivoting'
    BY <1>1, <1>3, <2>1, <2>2, <2>4 DEF IInv, Removing, Pivoting, PivotOf, set
  <2>7. IsSubspace(known') /\ InHandSound' /\ Sound'
    BY <1>1, <2>1, <2>4 DEF IInv, IsSubspace, InHandSound, Sound, set
  <2>8. QED
    BY <2>4, <2>5, <2>6, <2>7 DEF IInv
<1>6. CASE full_symbol_tab[i] # NULL
  <2> DEFINE row == full_symbol_tab[i]
             sum == RowSum(i)
             si  == first_nonzero_id(sum)
             Solved == ~full_symbol_has_one_id(row) /\ full_symbol_has_one_id(sum)
  <2>1. /\ full_symbol_tab' = [full_symbol_tab EXCEPT ![i] = sum]
        /\ UNCHANGED <<size, first_symbol_id>>
        /\ Solved => /\ notified' = [notified EXCEPT ![si] = @ + 1]
                     /\ lent' \subseteq lent \union {si}
        /\ ~Solved => lent' \subseteq lent /\ notified' = notified
    BY <1>6 DEF EliminateRow, NewlySolved, RowSum, NewId
  <2>2. i \in Rows /\ row \in FullSymbols /\ row.data = row.coef
    BY <1>2, <1>6, RowType DEF Rows, IInv, Sound
  <2>3. /\ sum \in FullSymbols
        /\ sum.coef[NewId] = Zero
        /\ sum.coef \in known /\ sum.data = sum.coef
        /\ \A j \in Rows \ {i} : sum.coef[PivotOf(j)] = Zero
        /\ PivotOf(i) \in Ids
        /\ PivotOf(i) # NewId =>
             /\ sum.coef[PivotOf(i)] = One
             /\ \A c \in Ids : c < PivotOf(i) => sum.coef[c] = Zero
             /\ row.coef[NewId] = Zero => sum.coef = row.coef
        /\ PivotOf(i) = NewId =>
             full_symbol_is_zero(sum) /\ ~full_symbol_has_one_id(row)
    BY <1>1, <2>2, RowSumFacts
  <2> HIDE DEF sum
  <2>4. /\ sum # NULL
        /\ full_symbol_tab'[i] = sum
        /\ \A k \in Slots : k # i => full_symbol_tab'[k] = full_symbol_tab[k]
        /\ Slots' = Slots
        /\ \A k : PivotOf(k)' = PivotOf(k)
    BY <1>2, <2>1, <2>3, NullAssumption DEF TypeOK, Slots, PivotOf
  <2>5. Rows' = Rows /\ Rows \subseteq Slots
    BY <2>2, <2>4 DEF Rows
  <2>6. Solved => si = PivotOf(i) /\ si \in Ids /\ sum.coef = UnitVector(si)
    <3>1. Solved => PivotOf(i) # NewId
      BY <2>3 DEF full_symbol_has_one_id
    <3>2. QED
      BY <2>3, <3>1, UnitSymbol
  <2>7. TypeOK'
    <3>1. full_symbol_tab' \in [Slots' -> FullSymbols \union {NULL}]
      BY <2>1, <2>3, <2>4 DEF IInv, TypeOK
    <3>2. notified' \in [Ids -> Nat] /\ lent' \subseteq Ids
      BY <2>1, <2>6 DEF IInv, TypeOK
    <3>3. QED
      BY <1>1, <1>2, <2>1, <3>1, <3>2 DEF TypeOK
  <2>8. SizeBound' /\ EmptyUntilFirst'
    BY <2>1, <2>5 DEF IInv, SizeBound, EmptyUntilFirst
  <2>9. \A k \in Rows : Vanished(k)' <=> Vanished(k) \/ (k = i /\ PivotOf(i) = NewId)
    <3>1. ASSUME NEW k \in Rows
          PROVE  Vanished(k)' <=> Vanished(k) \/ (k = i /\ PivotOf(i) = NewId)
      <4>1. k < i' <=> k < i \/ k = i
        BY <1>2, <1>4, RowType
      <4>2. Vanished(k)' <=> PivotOf(k) = NewId /\ (k < i \/ k = i)
        BY <1>1, <1>3, <2>4, <4>1 DEF Vanished
      <4>3. QED
        BY <1>1, <4>2 DEF Vanished
    <3>2. QED
      BY <3>1
  <2>10. RowsEchelon'
    <3>1. ASSUME NEW k \in Rows PROVE PivotOf(k) \in Ids /\ (Vanished(k)' \/ EchelonRow(k)')
      <4>1. CASE k = i
        BY <2>3, <2>4, <2>9, <4>1 DEF EchelonRow
      <4>2. CASE k # i
        BY <2>4, <2>5, <2>9, <4>2 DEF IInv, RowsEchelon, EchelonRow
      <4>3. QED
        BY <4>1, <4>2
    <3>2. QED
      BY <2>4, <2>5, <3>1 DEF RowsEchelon
  <2>11. VanishedIsZero'
    <3>1. ASSUME NEW k \in Rows, Vanished(k)' PROVE full_symbol_is_zero(full_symbol_tab'[k])
      <4>1. CASE k = i
        <5>1. PivotOf(i) = NewId
          BY <2>9, <3>1, <4>1 DEF Vanished
        <5>2. QED
          BY <2>3, <2>4, <4>1, <5>1
      <4>2. CASE k # i
        BY <2>4, <2>5, <2>9, <3>1, <4>2 DEF IInv, VanishedIsZero
      <4>3. QED
        BY <4>1, <4>2
    <3>2. QED
      BY <2>5, <3>1 DEF VanishedIsZero
  <2>12. ColumnsClear'
    <3>1. ASSUME NEW k \in Rows, NEW j \in Rows \ {k}
          PROVE  full_symbol_tab'[j].coef[PivotOf(k)] = Zero
      <4>1. CASE j = i
        BY <2>3, <2>4, <3>1, <4>1
      <4>2. CASE j # i
        BY <2>4, <2>5, <3>1, <4>2 DEF IInv, ColumnsClear
      <4>3. QED
        BY <4>1, <4>2
    <3>2. QED
      BY <2>4, <2>5, <3>1 DEF ColumnsClear
  <2>13. Removing'
    BY <1>1 DEF Removing
  <2>14. Pivoting'
    <3>1. ASSUME NEW k \in Rows, k < i' PROVE full_symbol_tab'[k].coef[NewId] = Zero
      <4>1. CASE k = i
        BY <2>3, <2>4, <4>1
      <4>2. CASE k # i
        BY <1>1, <1>2, <1>4, <2>4, <2>5, <3>1, <4>2, RowType DEF IInv, Pivoting
      <4>3. QED
        BY <4>1, <4>2
    <3>2. ASSUME NEW k \in Rows, k >= i' PROVE k >= i /\ full_symbol_tab'[k] = full_symbol_tab[k]
      <4>1. k # i /\ k >= i
        BY <1>1, <1>2, <3>2, RowType
      <4>2. QED
        BY <2>4, <2>5, <4>1
    <3>3. QED
      BY <1>1, <1>3, <2>4, <2>5, <3>1, <3>2 DEF IInv, Pivoting
  <2>15. IsSubspace(known') /\ InHandSound' /\ Sound'
    BY <1>1, <2>3, <2>4, <2>5 DEF IInv, IsSubspace, InHandSound, Sound
  <2>16. ASSUME NEW id \in Ids, notified[id] > 0, id \notin dropped
         PROVE  \E k \in Rows : /\ PivotOf(k) = id
                                /\ full_symbol_tab'[k].coef = UnitVector(id)
                                /\ full_symbol_tab'[k].data = UnitVector(id)
    <3>1. PICK k \in Rows : /\ PivotOf(k) = id
                            /\ full_symbol_tab[k].coef = UnitVector(id)
                            /\ full_symbol_tab[k].data = UnitVector(id)
      BY <2>16 DEF IInv, NotifiedIsDecoded
    <3>2. CASE k = i
      <4>1. full_symbol_has_one_id(row)
        BY <2>2, <3>1, <3>2, UnitSymbol
      <4>2. PivotOf(i) # NewId
        BY <2>3, <4>1
      <4>3. row.coef[NewId] = Zero
        BY <1>1, <3>1, <3>2, <4>2, NewPivot DEF UnitVector
      <4>4. sum.coef = UnitVector(id) /\ sum.data = UnitVector(id)
        BY <2>3, <3>1, <3>2, <4>2, <4>3
      <4>5. QED
        BY <2>4, <3>1, <3>2, <4>4
    <3>3. CASE k # i
      BY <2>4, <2>5, <3>1, <3>3
    <3>4. QED
      BY <3>2, <3>3
  <2>17. NotifiedIsDecoded'
    <3>1. ASSUME NEW id \in Ids, notified'[id] > 0, id \notin dropped
          PROVE  \E k \in Rows : /\ PivotOf(k) = id
                                 /\ full_symbol_tab'[k].coef = UnitVector(id)
                                 /\ full_symbol_tab'[k].data = UnitVector(id)
      <4>1. CASE Solved /\ id = si
        BY <2>2, <2>3, <2>4, <2>6, <4>1
      <4>2. CASE ~(Solved /\ id = si)
        <5>1. notified[id] > 0
          BY <2>1, <3>1, <4>2 DEF IInv, TypeOK
        <5>2. QED
          BY <2>16, <3>1, <5>1
      <4>3. QED
        BY <4>1, <4>2
    <3>2. QED
      BY <1>1, <2>4, <2>5, <3>1 DEF NotifiedIsDecoded
  <2>18. NotifiedOnce'
    <3>1. ASSUME dropped = {}, Solved, notified[si] > 0 PROVE FALSE
      <4>1. PICK k \in Rows : PivotOf(k) = si /\ full_symbol_tab[k].coef = UnitVector(si)
        BY <2>6, <3>1 DEF IInv, NotifiedIsDecoded
      <4>2. k = i
        BY <1>2, <2>2, <2>6, <3>1, <4>1, PivotsDiffer
      <4>3. QED
        BY <2>2, <2>6, <3>1, <4>1, <4>2, UnitSymbol
    <3>2. ASSUME dropped = {}, NEW id \in Ids PROVE notified'[id] <= 1
      <4>1. notified[id] \in Nat /\ notified[id] <= 1
        BY <3>2 DEF IInv, TypeOK, NotifiedOnce
      <4>2. CASE Solved /\ id = si
        BY <2>1, <3>1, <3>2, <4>1, <4>2 DEF IInv, TypeOK
      <4>3. CASE ~(Solved /\ id = si)
        BY <2>1, <4>1, <4>3 DEF IInv, TypeOK
      <4>4. QED
        BY <4>2, <4>3
    <3>3. QED
      BY <1>1, <3>2 DEF NotifiedOnce
  <2>19. QED
    BY <2>7, <2>8, <2>10, <2>11, <2>12, <2>13, <2>14, <2>15, <2>17, <2>18 DEF IInv
<1>7. QED
  BY <1>5, <1>6

-------------------------------------------------------------------------------
(* How far the table grows.                                                *)
LEMMA GrownSizeBound ==
  ASSUME TypeOK, SizeBound, NEW d \in 0 .. MaxId
  PROVE  /\ GrownSize(d) \in Nat \ {0}
         /\ GrownSize(d) >= size /\ GrownSize(d) > d
         /\ GrownSize(d) <= FULL_SYMBOL_SET_INITIAL_SIZE + 2 * MaxId + 1
BY MaxIdAssumption, InitialSizeAssumption DEF TypeOK, SizeBound, GrownSize

(* Once the elimination is over every row is clear of the new pivot, and   *)
(* the only row that may have it as a pivot has vanished.                  *)
LEMMA RowsAtStore ==
  ASSUME IInv, Storing, NEW k \in Rows
  PROVE  /\ PivotOf(k) \in Ids
         /\ full_symbol_tab[k] \in FullSymbols
         /\ full_symbol_tab[k].coef[NewId] = Zero
         /\ PivotOf(k) = NewId => full_symbol_is_zero(full_symbol_tab[k])
         /\ PivotOf(k) # NewId => EchelonRow(k) /\ new_symbol.coef[PivotOf(k)] = Zero
<1>1. pc = "pivot" /\ k < i
  BY RowType DEF Storing, IInv, TypeOK
<1>2. Vanished(k) <=> PivotOf(k) = NewId
  BY <1>1 DEF Vanished
<1>3. QED
  BY <1>1, <1>2, RowType DEF IInv, Pivoting, RowsEchelon, VanishedIsZero

(***************************************************************************)
(* Whatever way the table moved: if its rows are the new one and the old   *)
(* ones in the slots of their pivots, short of those recorded as dropped,  *)
(* the invariant holds after the store.                                    *)
(***************************************************************************)
LEMMA StoreInv ==
  ASSUME IInv, Storing, NotifyStored, Return, UNCHANGED known,
         size' \in Nat \ {0}, SizeBound', first_symbol_id' \in Ids,
         full_symbol_tab' \in [Slots' -> FullSymbols \union {NULL}],
         dropped \subseteq dropped', dropped' \subseteq Ids,
         \A k \in Rows' :
            \/ first_symbol_id' + k = NewId /\ full_symbol_tab'[k] = new_symbol
            \/ \E j \in Rows : /\ PivotOf(j) = first_symbol_id' + k /\ PivotOf(j) # NewId
                               /\ full_symbol_tab'[k] = full_symbol_tab[j],
         \A j \in Rows :
            \/ PivotOf(j) = NewId \/ PivotOf(j) \in dropped'
            \/ \E k \in Rows' : /\ first_symbol_id' + k = PivotOf(j)
                                /\ full_symbol_tab'[k] = full_symbol_tab[j],
         \E k \in Rows' : first_symbol_id' + k = NewId /\ full_symbol_tab'[k] = new_symbol
  PROVE  IInv'
<1>1. /\ pc' = "idle" /\ i' = 0 /\ is_zero' = TRUE
      /\ new_symbol1' = ZeroSymbol /\ new_symbol' = ZeroSymbol /\ known' = known
  BY DEF Return
<1>2. /\ new_symbol \in FullSymbols /\ NewId \in Ids
      /\ new_symbol.coef[NewId] = One
      /\ \A c \in Ids : c < NewId => new_symbol.coef[c] = Zero
  BY NewPivot DEF Storing
<1>3. /\ TypeOK /\ NewId # SYMBOL_ID_NONE /\ first_symbol_id' # SYMBOL_ID_NONE
      /\ first_symbol_id' \in Nat /\ \A k \in Rows' : k \in Nat
  <2>1. \A c \in Ids : c \in Nat /\ c # SYMBOL_ID_NONE
    BY MaxIdAssumption, IdSpanAssumption DEF Ids, SYMBOL_ID_NONE
  <2>2. \A k \in Rows' : k \in Nat
    BY DEF Rows, Slots
  <2>3. QED
    BY <1>2, <2>1, <2>2 DEF IInv
<1> DEFINE Solved == ~full_symbol_has_one_id(new_symbol1) /\ full_symbol_has_one_id(new_symbol)
<1>4. /\ Solved => notified' = [notified EXCEPT ![NewId] = @ + 1]
      /\ ~Solved => notified' = notified
      /\ lent' \subseteq lent \union {NewId}
  BY DEF NotifyStored, application
<1>5. TypeOK'
  <2>1. notified' \in [Ids -> Nat] /\ lent' \subseteq Ids
    BY <1>2, <1>3, <1>4 DEF TypeOK
  <2>2. ZeroSymbol \in FullSymbols
    BY VectorOps DEF ZeroSymbol, FullSymbols
  <2>3. QED
    BY <1>1, <1>3, <2>1, <2>2 DEF TypeOK
<1>6. EmptyUntilFirst'
  BY <1>3 DEF EmptyUntilFirst
<1>7. RowsEchelon' /\ VanishedIsZero'
  <2>1. \A k \in Rows' : ~Vanished(k)'
    BY <1>1 DEF Vanished
  <2>2. ASSUME NEW k \in Rows' PROVE EchelonRow(k)'
    <3>1. CASE first_symbol_id' + k = NewId /\ full_symbol_tab'[k] = new_symbol
      BY <1>2, <3>1 DEF EchelonRow, PivotOf
    <3>2. CASE \E j \in Rows : /\ PivotOf(j) = first_symbol_id' + k /\ PivotOf(j) # NewId
                               /\ full_symbol_tab'[k] = full_symbol_tab[j]
      BY <3>2, RowsAtStore DEF EchelonRow, PivotOf
    <3>3. QED
      BY <3>1, <3>2
  <2>3. QED
    BY <2>1, <2>2 DEF RowsEchelon, EchelonRow, VanishedIsZero
<1>8. ColumnsClear'
  <2>1. ASSUME NEW k \in Rows', NEW j \in Rows' \ {k}
        PROVE  full_symbol_tab'[j].coef[first_symbol_id' + k] = Zero
    <3>1. first_symbol_id' + k # first_symbol_id' + j
      BY <1>3
    <3>2. CASE first_symbol_id' + k = NewId /\ full_symbol_tab'[k] = new_symbol
      BY <3>1, <3>2, RowsAtStore
    <3>3. CASE \E m \in Rows : /\ PivotOf(m) = first_symbol_id' + k /\ PivotOf(m) # NewId
                               /\ full_symbol_tab'[k] = full_symbol_tab[m]
      BY <3>1, <3>3, RowsAtStore DEF IInv, ColumnsClear
    <3>4. QED
      BY <3>2, <3>3
  <2>2. QED
    BY <2>1 DEF ColumnsClear, PivotOf
<1>9. Removing' /\ Pivoting'
  BY <1>1 DEF Removing, Pivoting
<1>10. IsSubspace(known') /\ InHandSound' /\ Sound'
  BY <1>1 DEF IInv, IsSubspace, InHandSound, Sound, ZeroSymbol
<1>11. ASSUME NEW id \in Ids, notified[id] > 0, id \notin dropped
       PROVE  \E j \in Rows : /\ PivotOf(j) = id /\ id # NewId
                              /\ full_symbol_tab[j].coef = UnitVector(id)
                              /\ full_symbol_tab[j].data = UnitVector(id)
  <2>1. PICK j \in Rows : /\ PivotOf(j) = id
                          /\ full_symbol_tab[j].coef = UnitVector(id)
                          /\ full_symbol_tab[j].data = UnitVector(id)
    BY <1>11 DEF IInv, NotifiedIsDecoded
  <2>2. id # NewId
    BY <2>1, RowsAtStore, UnitSymbol DEF full_symbol_has_one_id
  <2>3. QED
    BY <2>1, <2>2
<1>12. NotifiedIsDecoded'
  <2>1. ASSUME NEW id \in Ids, notified'[id] > 0, id \notin dropped'
        PROVE  \E k \in Rows' : /\ first_symbol_id' + k = id
                                /\ full_symbol_tab'[k].coef = UnitVector(id)
                                /\ full_symbol_tab'[k].data = UnitVector(id)
    <3>1. CASE Solved /\ id = NewId
      <4>1. new_symbol.coef = UnitVector(NewId) /\ new_symbol.data = UnitVector(NewId)
        BY <1>2, <3>1, UnitSymbol DEF IInv, InHandSound
      <4>2. QED
        BY <3>1, <4>1
    <3>2. CASE ~(Solved /\ id = NewId)
      <4>1. notified[id] > 0 /\ id \notin dropped
        BY <1>3, <1>4, <2>1, <3>2 DEF TypeOK
      <4>2. QED
        BY <1>11, <2>1, <4>1
    <3>3. QED
      BY <3>1, <3>2
  <2>2. QED
    BY <2>1 DEF NotifiedIsDecoded, PivotOf
<1>13. NotifiedOnce'
  <2>1. ASSUME dropped' = {}, NEW id \in Ids PROVE notified'[id] <= 1
    <3>1. dropped = {} /\ notified[id] \in Nat /\ notified[id] <= 1
      BY <1>3, <2>1 DEF IInv, TypeOK, NotifiedOnce
    <3>2. CASE Solved /\ id = NewId
      <4>1. notified[id] = 0
        BY <1>11, <3>1, <3>2
      <4>2. QED
        BY <1>2, <1>3, <1>4, <3>2, <4>1 DEF TypeOK
    <3>3. CASE ~(Solved /\ id = NewId)
      BY <1>3, <1>4, <3>1, <3>3 DEF TypeOK
    <3>4. QED
      BY <3>2, <3>3
  <2>2. QED
    BY <2>1 DEF NotifiedOnce
<1>14. QED
  BY <1>5, <1>6, <1>7, <1>8, <1>9, <1>10, <1>12, <1>13 DEF IInv

(* A store keeps the rows, short of those recorded as dropped.             *)
NextPivots == {first_symbol_id' + k : k \in Rows'}

StoreKeeps ==
  /\ dropped \subseteq dropped'
  /\ \A j \in Rows :
       PivotOf(j) = NewId \/ PivotOf(j) \in dropped' \/ PivotOf(j) \in NextPivots
  /\ NewId \in NextPivots

(* It moves the rows without a change, and adds the new one.               *)
StoreMoves ==
  /\ \A k \in Rows' :
       \/ first_symbol_id' + k = NewId /\ full_symbol_tab'[k] = new_symbol
       \/ \E j \in Rows : /\ PivotOf(j) = first_symbol_id' + k /\ PivotOf(j) # NewId
                          /\ full_symbol_tab'[k] = full_symbol_tab[j]
  /\ \A j \in Rows :
       \/ PivotOf(j) = NewId \/ PivotOf(j) \in dropped'
       \/ \E k \in Rows' : /\ first_symbol_id' + k = PivotOf(j)
                           /\ full_symbol_tab'[k] = full_symbol_tab[j]
  /\ \E k \in Rows' : first_symbol_id' + k = NewId /\ full_symbol_tab'[k] = new_symbol

LEMMA StoreRightInv ==
  ASSUME IInv, StoreRight
  PROVE  IInv' /\ StoreKeeps /\ StoreMoves
<1> DEFINE idx_pos == NewId - SetId
<1>1. /\ Storing /\ NewId >= SetId /\ first_symbol_id' = SetId
      /\ size' = GrownSize(idx_pos)
      /\ full_symbol_tab' =
           [k \in 0 .. size' - 1 |->
              IF k = idx_pos THEN new_symbol
              ELSE IF k < size THEN full_symbol_tab[k] ELSE NULL]
      /\ NotifyStored /\ Return
      /\ known' = known /\ dropped' = dropped
  BY DEF StoreRight
<1>2. /\ TypeOK /\ SizeBound /\ EmptyUntilFirst /\ dropped \subseteq Ids
      /\ new_symbol \in FullSymbols
      /\ NewId \in Ids /\ NewId \in Nat
  BY <1>1, NewPivot, MaxIdAssumption DEF IInv, TypeOK, Storing, Ids
<1>3. /\ SetId \in Ids /\ SetId \in Nat
      /\ first_symbol_id # SYMBOL_ID_NONE => SetId = first_symbol_id
      /\ idx_pos \in 0 .. MaxId
  BY <1>1, <1>2, MaxIdAssumption DEF TypeOK, SetId, Ids
<1>4. /\ size' \in Nat \ {0} /\ size' >= size /\ size' > idx_pos /\ SizeBound'
      /\ size \in Nat
  BY <1>1, <1>2, <1>3, GrownSizeBound DEF SizeBound, TypeOK
<1>5. Slots \subseteq Slots' /\ Slots' = 0 .. size' - 1 /\ idx_pos \in Slots'
  <2>1. Slots = 0 .. size - 1 /\ Slots' = 0 .. size' - 1
    BY DEF Slots
  <2>2. \A a \in Nat, b \in Nat : b >= a => 0 .. a - 1 \subseteq 0 .. b - 1
    OBVIOUS
  <2>3. \A a \in Nat, b \in Nat : b > a => a \in 0 .. b - 1
    OBVIOUS
  <2>4. size \in Nat /\ size' \in Nat /\ idx_pos \in Nat
    BY <1>3, <1>4
  <2>5. QED
    BY <1>4, <2>1, <2>2, <2>3, <2>4
<1>6. /\ \A k \in Slots' : k # idx_pos =>
           full_symbol_tab'[k] = IF k < size THEN full_symbol_tab[k] ELSE NULL
      /\ full_symbol_tab'[idx_pos] = new_symbol
  BY <1>1, <1>5
<1>7. full_symbol_tab' \in [Slots' -> FullSymbols \union {NULL}]
  <2>1. \A k \in Slots' : k < size => k \in Slots
    BY <1>4 DEF Slots
  <2>2. QED
    BY <1>1, <1>2, <1>5, <2>1 DEF TypeOK
<1>8. ASSUME NEW k \in Rows', k # idx_pos
      PROVE  /\ k \in Rows /\ PivotOf(k) = first_symbol_id' + k /\ PivotOf(k) # NewId
             /\ full_symbol_tab'[k] = full_symbol_tab[k]
  <2>1. k \in Slots' /\ full_symbol_tab'[k] # NULL
    BY <1>8 DEF Rows
  <2>2. k < size /\ full_symbol_tab'[k] = full_symbol_tab[k]
    BY <1>6, <1>8, <2>1
  <2>3. k \in Rows
    BY <1>4, <2>1, <2>2 DEF Rows, Slots
  <2>4. SetId = first_symbol_id
    BY <1>2, <1>3, <2>3 DEF EmptyUntilFirst
  <2>5. k \in Nat
    BY <1>4, <2>1 DEF Slots
  <2>6. QED
    BY <1>1, <1>2, <1>3, <1>8, <2>2, <2>3, <2>4, <2>5 DEF PivotOf
<1>9. ASSUME NEW j \in Rows, PivotOf(j) # NewId
      PROVE  /\ j \in Rows' /\ first_symbol_id' + j = PivotOf(j)
             /\ full_symbol_tab'[j] = full_symbol_tab[j]
  <2>1. SetId = first_symbol_id
    BY <1>2, <1>3 DEF EmptyUntilFirst
  <2>2. j \in Slots /\ j < size /\ j \in Nat /\ full_symbol_tab[j] # NULL
    BY <1>4 DEF Rows, Slots
  <2>3. j # idx_pos
    BY <1>2, <1>3, <1>9, <2>1, <2>2 DEF PivotOf
  <2>4. full_symbol_tab'[j] = full_symbol_tab[j]
    BY <1>5, <1>6, <2>2, <2>3
  <2>5. QED
    BY <1>1, <1>5, <2>1, <2>2, <2>4 DEF Rows, PivotOf
<1>10. /\ idx_pos \in Rows' /\ first_symbol_id' + idx_pos = NewId
       /\ full_symbol_tab'[idx_pos] = new_symbol
  BY <1>1, <1>2, <1>3, <1>5, <1>6, NullAssumption DEF Rows
<1> HIDE DEF idx_pos
<1>11. \A k \in Rows' :
            \/ first_symbol_id' + k = NewId /\ full_symbol_tab'[k] = new_symbol
            \/ \E j \in Rows : /\ PivotOf(j) = first_symbol_id' + k /\ PivotOf(j) # NewId
                               /\ full_symbol_tab'[k] = full_symbol_tab[j]
  BY <1>8, <1>10
<1>12. \A j \in Rows :
            \/ PivotOf(j) = NewId \/ PivotOf(j) \in dropped'
            \/ \E k \in Rows' : /\ first_symbol_id' + k = PivotOf(j)
                                /\ full_symbol_tab'[k] = full_symbol_tab[j]
  BY <1>9
<1>13. \E k \in Rows' : first_symbol_id' + k = NewId /\ full_symbol_tab'[k] = new_symbol
  BY <1>10
<1>14. IInv'
  BY <1>1, <1>2, <1>3, <1>4, <1>7, <1>11, <1>12, <1>13, StoreInv
<1>15. StoreKeeps
  BY <1>1, <1>12, <1>13 DEF StoreKeeps, NextPivots
<1>16. StoreMoves
  BY <1>11, <1>12, <1>13 DEF StoreMoves
<1>17. QED
  BY <1>14, <1>15, <1>16

LEMMA StoreLeftInv ==
  ASSUME IInv, StoreLeft
  PROVE  IInv' /\ StoreKeeps /\ StoreMoves
<1> DEFINE shift == SetId - NewId
           moved == {k \in Slots : k + shift < GrownSize(shift)}
<1>1. /\ Storing /\ NewId < SetId /\ first_symbol_id' = NewId
      /\ size' = GrownSize(shift)
      /\ full_symbol_tab' =
           [k \in 0 .. size' - 1 |->
              IF k = 0 THEN new_symbol
              ELSE IF k - shift \in moved THEN full_symbol_tab[k - shift] ELSE NULL]
      /\ dropped' = dropped \union
           {SetId + k : k \in {j \in Slots \ moved : full_symbol_tab[j] # NULL}}
      /\ NotifyStored /\ Return
      /\ known' = known
  BY DEF StoreLeft
<1>2. /\ TypeOK /\ SizeBound /\ dropped \subseteq Ids
      /\ new_symbol \in FullSymbols
      /\ NewId \in Ids /\ NewId \in Nat
  BY <1>1, NewPivot, MaxIdAssumption DEF IInv, TypeOK, Storing, Ids
<1>3. /\ SetId = first_symbol_id /\ SetId \in Ids /\ SetId \in Nat
      /\ shift \in 0 .. MaxId /\ shift # 0
  <2>1. first_symbol_id # SYMBOL_ID_NONE
    BY <1>1, <1>2 DEF SetId
  <2>2. SetId = first_symbol_id /\ SetId \in Ids
    BY <1>2, <2>1 DEF TypeOK, SetId
  <2>3. QED
    BY <1>1, <1>2, <2>2, MaxIdAssumption DEF Ids
<1>4. size' \in Nat \ {0} /\ size' >= size /\ size' > shift /\ SizeBound' /\ size \in Nat
  BY <1>1, <1>2, <1>3, GrownSizeBound DEF SizeBound, TypeOK
<1>5. /\ Slots' = 0 .. size' - 1 /\ 0 \in Slots' /\ moved \subseteq Slots
      /\ \A k \in moved : k \in Nat /\ k + shift \in Slots' /\ k + shift # 0
                         /\ (k + shift) - shift = k
  BY <1>1, <1>3, <1>4 DEF Slots
<1>6. /\ full_symbol_tab'[0] = new_symbol
      /\ \A k \in Slots' : k # 0 => full_symbol_tab'[k] =
            IF k - shift \in moved THEN full_symbol_tab[k - shift] ELSE NULL
  BY <1>1, <1>5
<1>7. full_symbol_tab' \in [Slots' -> FullSymbols \union {NULL}]
  BY <1>1, <1>2, <1>5 DEF TypeOK
<1> HIDE DEF moved
<1>8. ASSUME NEW k \in Rows', k # 0
      PROVE  /\ k - shift \in Rows /\ PivotOf(k - shift) = first_symbol_id' + k
             /\ PivotOf(k - shift) # NewId
             /\ full_symbol_tab'[k] = full_symbol_tab[k - shift]
  <2>1. k \in Slots' /\ full_symbol_tab'[k] # NULL /\ k \in Nat
    BY <1>5, <1>8 DEF Rows
  <2>2. k - shift \in moved /\ full_symbol_tab'[k] = full_symbol_tab[k - shift]
    BY <1>6, <1>8, <2>1
  <2>3. k - shift \in Rows
    BY <1>5, <2>1, <2>2 DEF Rows
  <2>4. PivotOf(k - shift) = NewId + k
    BY <1>2, <1>3, <2>1 DEF PivotOf
  <2>5. QED
    BY <1>1, <1>2, <1>8, <2>1, <2>2, <2>3, <2>4
<1>9. ASSUME NEW j \in Rows, j \in moved
      PROVE  /\ j + shift \in Rows' /\ first_symbol_id' + (j + shift) = PivotOf(j)
             /\ full_symbol_tab'[j + shift] = full_symbol_tab[j]
  <2>1. full_symbol_tab'[j + shift] = full_symbol_tab[j] /\ full_symbol_tab[j] # NULL
    BY <1>5, <1>6, <1>9 DEF Rows
  <2>2. j + shift \in Rows'
    BY <1>5, <1>9, <2>1 DEF Rows
  <2>3. first_symbol_id' + (j + shift) = PivotOf(j)
    BY <1>1, <1>2, <1>3, <1>5, <1>9 DEF PivotOf
  <2>4. QED
    BY <2>1, <2>2, <2>3
<1>10. ASSUME NEW j \in Rows, j \notin moved PROVE PivotOf(j) \in dropped'
  BY <1>1, <1>3, <1>10 DEF Rows, PivotOf
<1>11. dropped \subseteq dropped' /\ dropped' \subseteq Ids
  <2>1. \A j \in Slots : full_symbol_tab[j] # NULL => SetId + j \in Ids
    BY <1>1, <1>3, RowsAtStore DEF Rows, PivotOf
  <2>2. QED
    BY <1>1, <1>2, <2>1
<1>12. 0 \in Rows' /\ first_symbol_id' + 0 = NewId /\ full_symbol_tab'[0] = new_symbol
  BY <1>1, <1>2, <1>5, <1>6, NullAssumption DEF Rows
<1> HIDE DEF shift
<1>13. \A k \in Rows' :
            \/ first_symbol_id' + k = NewId /\ full_symbol_tab'[k] = new_symbol
            \/ \E j \in Rows : /\ PivotOf(j) = first_symbol_id' + k /\ PivotOf(j) # NewId
                               /\ full_symbol_tab'[k] = full_symbol_tab[j]
  BY <1>8, <1>12
<1>14. \A j \in Rows :
            \/ PivotOf(j) = NewId \/ PivotOf(j) \in dropped'
            \/ \E k \in Rows' : /\ first_symbol_id' + k = PivotOf(j)
                                /\ full_symbol_tab'[k] = full_symbol_tab[j]
  BY <1>9, <1>10
<1>15. \E k \in Rows' : first_symbol_id' + k = NewId /\ full_symbol_tab'[k] = new_symbol
  BY <1>12
<1>16. IInv'
  BY <1>1, <1>2, <1>4, <1>7, <1>11, <1>13, <1>14, <1>15, StoreInv
<1>17. StoreKeeps
  BY <1>11, <1>14, <1>15 DEF StoreKeeps, NextPivots
<1>18. StoreMoves
  BY <1>13, <1>14, <1>15 DEF StoreMoves
<1>19. QED
  BY <1>16, <1>17, <1>18

LEMMA OverflowInv ==
  ASSUME IInv, Overflow
  PROVE  IInv'
<1>1. /\ Storing /\ NewId < SetId /\ pc = "pivot" /\ pc' = "crashed"
      /\ UNCHANGED <<set, new_symbol1, new_symbol, i, is_zero, application, known, dropped>>
  BY DEF Overflow, Storing
<1>2. /\ NewId \in Nat /\ SetId = first_symbol_id /\ first_symbol_id \in Nat
  BY <1>1, NewPivot, MaxIdAssumption, IdSpanAssumption
     DEF IInv, TypeOK, SetId, Ids, SYMBOL_ID_NONE
<1>3. \A k \in Rows : PivotOf(k) # NewId
  BY <1>1, <1>2, RowType DEF IInv, PivotOf
<1>4. /\ Rows' = Rows
      /\ SizeBound' /\ EmptyUntilFirst'
      /\ RowsEchelon' /\ VanishedIsZero' /\ ColumnsClear'
      /\ NotifiedIsDecoded' /\ NotifiedOnce'
  BY <1>1, <1>3, TableUnchanged DEF Vanished
<1>5. TypeOK'
  BY <1>1 DEF IInv, TypeOK, set, application, Slots
<1>6. Removing' /\ Pivoting'
  BY <1>1 DEF Removing, Pivoting
<1>7. IsSubspace(known') /\ InHandSound' /\ Sound'
  BY <1>1, <1>4 DEF IInv, IsSubspace, InHandSound, Sound, set
<1>8. QED
  BY <1>4, <1>5, <1>6, <1>7 DEF IInv

LEMMA UnchangedInv ==
  ASSUME IInv, UNCHANGED vars
  PROVE  IInv'
BY DEF IInv, vars, set, application, TypeOK, Slots, SizeBound, EmptyUntilFirst,
     Rows, RowsEchelon, VanishedIsZero, Vanished, NewId, EchelonRow, PivotOf,
     ColumnsClear, Removing, Reduced, HasPivot, MultipleOfRow, Pivoting,
     IsSubspace, InHandSound, Sound, NotifiedIsDecoded, NotifiedOnce

LEMMA NextInv ==
  ASSUME NoWrap, IInv, [Next]_vars
  PROVE  IInv'
<1>1. ASSUME NEW v \in Vector, AddWithElimination(Honest(v)) PROVE IInv'
  BY <1>1, AddWithEliminationInv
<1>2. CASE RemovePivot
  BY <1>2, RemovePivotInv
<1>3. CASE Redundant
  BY <1>3, RedundantInv
<1>4. CASE AddAsPivot
  BY <1>4, AddAsPivotInv
<1>5. CASE EliminateRow
  BY <1>5, EliminateRowInv
<1>6. CASE StoreRight
  BY <1>6, StoreRightInv
<1>7. CASE StoreLeft
  BY <1>7, StoreLeftInv
<1>8. CASE Overflow
  BY <1>8, OverflowInv
<1>9. CASE UNCHANGED vars
  BY <1>9, UnchangedInv
<1>10. QED
  BY <1>1, <1>2, <1>3, <1>4, <1>5, <1>6, <1>7, <1>8, <1>9 DEF Next, Step

(***************************************************************************)
(* The invariant holds of every execution whose identifiers stay far       *)
(* enough from the end of the uint32_t range.                              *)
(***************************************************************************)
THEOREM Invariance ==
  ASSUME NoWrap
  PROVE  Spec => []IInv
<1>1. Init => IInv
  BY InitInv
<1>2. IInv /\ [Next]_vars => IInv'
  BY NextInv
<1>3. QED
  BY <1>1, <1>2, PTL DEF Spec

(* Every variable keeps its type, and the size of the table is bounded.    *)
THEOREM TypeCorrect ==
  ASSUME NoWrap
  PROVE  Spec => [](TypeOK /\ SizeBound)
<1>1. IInv => TypeOK /\ SizeBound
  BY DEF IInv
<1>2. QED
  BY Invariance, <1>1, PTL

(* Between two calls full_symbol_add_with_elimination has left the table   *)
(* in reduced echelon form, every row in the slot of its pivot.            *)
THEOREM EchelonForm ==
  ASSUME NoWrap
  PROVE  Spec => []ReducedEchelon
<1>1. IInv => ReducedEchelon
  BY DEF IInv, ReducedEchelon, RowsEchelon, Vanished, EchelonRow, ColumnsClear
<1>2. QED
  BY Invariance, <1>1, PTL

(* Every row is a combination of what was submitted, payload included.     *)
THEOREM Soundness ==
  ASSUME NoWrap
  PROVE  Spec => []Sound
<1>1. IInv => Sound
  BY DEF IInv
<1>2. QED
  BY Invariance, <1>1, PTL

(* The application is told at most once of an identifier, unless a row     *)
(* fell off the table.                                                     *)
THEOREM ToldOnce ==
  ASSUME NoWrap
  PROVE  Spec => []NotifiedOnce
<1>1. IInv => NotifiedOnce
  BY DEF IInv
<1>2. QED
  BY Invariance, <1>1, PTL

(* What the application was told stays true, and it is told once.          *)
THEOREM Notification ==
  ASSUME NoWrap
  PROVE  Spec => [](NotifiedIsDecoded /\ NotifiedOnce)
<1>1. IInv => NotifiedIsDecoded /\ NotifiedOnce
  BY DEF IInv
<1>2. QED
  BY Invariance, <1>1, PTL

-------------------------------------------------------------------------------
(* The step of a store that solves an identifier, for both directions.     *)
LEMMA StoreNotifies ==
  ASSUME NotifyStored, TypeOK, NewId \in Ids, NEW id \in Ids, id = NewId,
         full_symbol_has_one_id(new_symbol)
  PROVE  full_symbol_has_one_id(new_symbol1) \/ notified'[id] > notified[id]
<1>1. CASE full_symbol_has_one_id(new_symbol1)
  BY <1>1
<1>2. CASE ~full_symbol_has_one_id(new_symbol1)
  <2>1. notified' = [notified EXCEPT ![NewId] = @ + 1]
    BY <1>2 DEF NotifyStored
  <2>2. notified[NewId] \in Nat /\ notified'[NewId] = notified[NewId] + 1
    BY <2>1 DEF TypeOK
  <2>3. QED
    BY <2>2
<1>3. QED
  BY <1>1, <1>2

LEMMA StoreRightNotifies ==
  ASSUME IInv, StoreRight, NEW id \in Decoded' \ Decoded
  PROVE  full_symbol_has_one_id(new_symbol1) \/ notified'[id] > notified[id]
<1> DEFINE idx_pos == NewId - SetId
<1>1. /\ Storing /\ NewId >= SetId /\ first_symbol_id' = SetId
      /\ size' = GrownSize(idx_pos)
      /\ full_symbol_tab' =
           [k \in 0 .. size' - 1 |->
              IF k = idx_pos THEN new_symbol
              ELSE IF k < size THEN full_symbol_tab[k] ELSE NULL]
      /\ NotifyStored
  BY DEF StoreRight
<1>2. TypeOK /\ EmptyUntilFirst /\ NewId \in Ids /\ NewId \in Nat
  BY <1>1, NewPivot, MaxIdAssumption DEF IInv, Storing, Ids
<1>3. PICK k \in Rows' : /\ id = first_symbol_id' + k
                         /\ full_symbol_has_one_id(full_symbol_tab'[k])
  BY DEF Decoded, PivotOf
<1>4. k \in 0 .. size' - 1 /\ k \in Nat /\ full_symbol_tab'[k] # NULL
  BY DEF Rows, Slots
<1>5. CASE k = idx_pos
  <2>1. SetId \in Nat
    BY <1>2, MaxIdAssumption, IdSpanAssumption DEF TypeOK, SetId, Ids, SYMBOL_ID_NONE
  <2>2. id = NewId /\ full_symbol_has_one_id(new_symbol)
    BY <1>1, <1>2, <1>3, <1>4, <1>5, <2>1
  <2>3. QED
    BY <1>1, <1>2, <2>2, StoreNotifies
<1>6. CASE k # idx_pos
  <2>1. k < size /\ full_symbol_tab'[k] = full_symbol_tab[k]
    BY <1>1, <1>4, <1>6
  <2>2. k \in Rows
    BY <1>2, <1>4, <2>1 DEF TypeOK, Rows, Slots
  <2>3. SetId = first_symbol_id
    BY <1>2, <2>2 DEF EmptyUntilFirst, SetId
  <2>4. id \in Decoded
    BY <1>1, <1>3, <2>1, <2>2, <2>3 DEF Decoded, PivotOf
  <2>5. QED
    BY <2>4
<1>7. QED
  BY <1>5, <1>6

LEMMA StoreLeftNotifies ==
  ASSUME IInv, StoreLeft, NEW id \in Decoded' \ Decoded
  PROVE  full_symbol_has_one_id(new_symbol1) \/ notified'[id] > notified[id]
<1> DEFINE shift == SetId - NewId
           moved == {k \in Slots : k + shift < GrownSize(shift)}
<1>1. /\ Storing /\ NewId < SetId /\ first_symbol_id' = NewId
      /\ full_symbol_tab' =
           [k \in 0 .. size' - 1 |->
              IF k = 0 THEN new_symbol
              ELSE IF k - shift \in moved THEN full_symbol_tab[k - shift] ELSE NULL]
      /\ NotifyStored
  BY DEF StoreLeft
<1>2. TypeOK /\ NewId \in Ids /\ NewId \in Nat
  BY <1>1, NewPivot, MaxIdAssumption DEF IInv, Storing, Ids
<1>3. SetId = first_symbol_id /\ SetId \in Nat
  BY <1>1, <1>2, MaxIdAssumption, IdSpanAssumption DEF TypeOK, SetId, Ids, SYMBOL_ID_NONE
<1>4. PICK k \in Rows' : /\ id = first_symbol_id' + k
                         /\ full_symbol_has_one_id(full_symbol_tab'[k])
  BY DEF Decoded, PivotOf
<1>5. k \in 0 .. size' - 1 /\ k \in Nat /\ full_symbol_tab'[k] # NULL
  BY DEF Rows, Slots
<1>6. CASE k = 0
  <2>1. id = NewId /\ full_symbol_has_one_id(new_symbol)
    BY <1>1, <1>2, <1>4, <1>5, <1>6
  <2>2. QED
    BY <1>1, <1>2, <2>1, StoreNotifies
<1>7. CASE k # 0
  <2>1. k - shift \in moved /\ full_symbol_tab'[k] = full_symbol_tab[k - shift]
    BY <1>1, <1>5, <1>7
  <2>2. k - shift \in Rows
    BY <1>5, <2>1 DEF Rows
  <2>3. PivotOf(k - shift) = id
    BY <1>1, <1>2, <1>3, <1>4, <1>5 DEF PivotOf
  <2>4. id \in Decoded
    BY <1>4, <2>1, <2>2, <2>3 DEF Decoded
  <2>5. QED
    BY <2>4
<1>8. QED
  BY <1>6, <1>7

LEMMA EliminateRowNotifies ==
  ASSUME IInv, EliminateRow, NEW id \in Decoded' \ Decoded
  PROVE  notified'[id] > notified[id]
<1> DEFINE row == full_symbol_tab[i]
           sum == RowSum(i)
           si  == first_nonzero_id(sum)
<1>1. row # NULL
  <2>1. row = NULL => Decoded' = Decoded
    BY DEF EliminateRow, set, Decoded, Rows, Slots, PivotOf
  <2>2. QED
    BY <2>1
<1>2. /\ pc = "pivot"
      /\ full_symbol_tab' = [full_symbol_tab EXCEPT ![i] = sum]
      /\ UNCHANGED <<size, first_symbol_id>>
      /\ ~full_symbol_has_one_id(row) /\ full_symbol_has_one_id(sum) =>
           notified' = [notified EXCEPT ![si] = @ + 1]
  BY <1>1 DEF EliminateRow, NewlySolved, RowSum, NewId
<1>3. i \in Rows
  BY <1>1 DEF EliminateRow, Rows, Slots, IInv, TypeOK
<1>4. /\ sum \in FullSymbols /\ PivotOf(i) \in Ids
      /\ PivotOf(i) # NewId => sum.coef[PivotOf(i)] = One
      /\ PivotOf(i) = NewId => full_symbol_is_zero(sum)
  BY <1>2, <1>3, RowSumFacts
<1> HIDE DEF sum
<1>5. PICK k \in Rows' : id = PivotOf(k) /\ full_symbol_has_one_id(full_symbol_tab'[k])
  BY <1>2 DEF Decoded, PivotOf
<1>6. k \in Slots /\ full_symbol_tab'[k] # NULL
  BY <1>2 DEF Rows, Slots
<1>7. k = i
  <2>1. SUFFICES ASSUME k # i PROVE FALSE
    OBVIOUS
  <2>2. k \in Rows /\ full_symbol_tab'[k] = full_symbol_tab[k]
    BY <1>2, <1>6, <2>1 DEF IInv, TypeOK, Rows
  <2>3. QED
    BY <1>5, <2>2 DEF Decoded
<1>8. full_symbol_has_one_id(sum) /\ ~full_symbol_has_one_id(row)
  <2>1. full_symbol_tab'[i] = sum
    BY <1>2, <1>6, <1>7 DEF IInv, TypeOK
  <2>2. QED
    BY <1>3, <1>5, <1>7, <2>1 DEF Decoded
<1>9. si = id /\ id \in Ids
  BY <1>4, <1>5, <1>7, <1>8, UnitSymbol DEF full_symbol_has_one_id
<1>10. notified[id] \in Nat /\ notified'[id] = notified[id] + 1
  BY <1>2, <1>8, <1>9 DEF IInv, TypeOK
<1>11. QED
  BY <1>10

LEMMA SolvedStep ==
  ASSUME IInv, [Next]_vars, NEW id \in Decoded' \ Decoded
  PROVE  full_symbol_has_one_id(new_symbol1) \/ notified'[id] > notified[id]
<1>1. ASSUME UNCHANGED set PROVE FALSE
  BY <1>1 DEF set, Decoded, Rows, Slots, PivotOf
<1>2. ASSUME NEW v \in Vector, AddWithElimination(Honest(v)) PROVE FALSE
  BY <1>1, <1>2 DEF AddWithElimination, vars
<1>3. CASE RemovePivot \/ Redundant \/ AddAsPivot \/ Overflow
  BY <1>1, <1>3 DEF RemovePivot, Redundant, AddAsPivot, Overflow
<1>4. CASE EliminateRow
  BY <1>4, EliminateRowNotifies
<1>5. CASE StoreRight
  BY <1>5, StoreRightNotifies
<1>6. CASE StoreLeft
  BY <1>6, StoreLeftNotifies
<1>7. CASE UNCHANGED vars
  BY <1>1, <1>7 DEF vars
<1>8. QED
  BY <1>2, <1>3, <1>4, <1>5, <1>6, <1>7 DEF Next, Step

(* An identifier that becomes solved is notified in the same step, unless  *)
(* the symbol submitted had a single coefficient.                          *)
THEOREM SolvedIsNotified ==
  ASSUME NoWrap
  PROVE  Spec => DecodingIsNotified
<1> DEFINE Told == \A id \in Decoded' \ Decoded :
                     full_symbol_has_one_id(new_symbol1) \/ notified'[id] > notified[id]
<1>1. IInv /\ [Next]_vars => [Told]_vars
  BY SolvedStep
<1>2. QED
  BY <1>1, Invariance, PTL DEF Spec, DecodingIsNotified

-------------------------------------------------------------------------------
(***************************************************************************)
(* Nothing is lost.  Between two calls no pivot-free combination of what   *)
(* was submitted is left but zero.  While pivots are removed from the new  *)
(* symbol, that holds of the combinations known before the call, a set U   *)
(* the rows belong to, and the symbol in hand adds one dimension to it.    *)
(* While the new pivot is eliminated from the rows, what is left without a *)
(* pivot are the multiples of the symbol in hand.                          *)
(***************************************************************************)
Clear(v) == \A k \in Rows : v[PivotOf(k)] = Zero

Basis(U) ==
  /\ IsSubspace(U)
  /\ \A k \in Rows : full_symbol_tab[k].coef \in U
  /\ \A v \in U : Clear(v) => v = ZeroVector

CompleteInv ==
  dropped = {} =>
    /\ pc = "idle" => \A v \in known : Clear(v) => v = ZeroVector
    /\ pc = "remove" =>
         \E U \in SUBSET known : Basis(U) /\ known \subseteq SpanWith(U, new_symbol.coef)
    /\ pc = "pivot" =>
         \A v \in known : Clear(v) => v = symbol_mul(v[NewId], new_symbol.coef)

(* A multiple of a row is moved from one part of a sum to the other.       *)
LEMMA SumMoves ==
  ASSUME NEW u \in Vector, NEW x \in Vector, NEW r \in Vector, NEW a \in F, NEW b \in F
  PROVE  symbol_add_scaled(u, a, x)
           = symbol_add_scaled(symbol_add(u, symbol_mul(gf256_mul(a, b), r)), a,
                               symbol_add(x, symbol_mul(b, r)))
<1>1. ASSUME NEW y \in F, NEW z \in F, NEW t \in F
      PROVE  gf256_add(y, gf256_mul(a, z))
               = gf256_add(gf256_add(y, gf256_mul(gf256_mul(a, b), t)),
                           gf256_mul(a, gf256_add(z, gf256_mul(b, t))))
  <2> DEFINE m == gf256_mul(a, z)
             p == gf256_mul(gf256_mul(a, b), t)
  <2>1. m \in F /\ p \in F
    BY FieldAssumption
  <2>2. gf256_mul(a, gf256_add(z, gf256_mul(b, t))) = gf256_add(m, p)
    BY FieldAssumption
  <2> HIDE DEF m, p
  <2>3. gf256_add(gf256_add(y, p), gf256_add(m, p)) = gf256_add(y, gf256_add(p, gf256_add(p, m)))
    BY <2>1, FieldAssumption
  <2>4. gf256_add(p, gf256_add(p, m)) = gf256_add(gf256_add(p, p), m)
    BY <2>1, FieldAssumption
  <2>5. gf256_add(gf256_add(p, p), m) = m
    BY <2>1, FieldAssumption
  <2>6. gf256_add(gf256_add(y, p), gf256_add(m, p)) = gf256_add(y, m)
    BY <2>3, <2>4, <2>5
  <2>7. QED
    BY <2>2, <2>6 DEF m, p
<1>2. \A c \in Ids : u[c] \in F /\ x[c] \in F /\ r[c] \in F
  BY DEF Vector
<1>3. QED
  BY <1>1, <1>2 DEF symbol_add_scaled, symbol_add, symbol_mul

(* The multiple of a vector by 0 is zero.                                  *)
LEMMA ZeroMultiple ==
  ASSUME NEW x \in Vector
  PROVE  symbol_mul(Zero, x) = ZeroVector
<1>1. \A c \in Ids : gf256_mul(Zero, x[c]) = Zero
  BY FieldAssumption DEF Vector
<1>2. QED
  BY <1>1 DEF symbol_mul, ZeroVector

(* A sum with a vector of the set is in the set.                           *)
LEMMA SumInside ==
  ASSUME NEW U, U \subseteq Vector, IsSubspace(U), NEW x \in U
  PROVE  SpanWith(U, x) \subseteq U
<1>1. ASSUME NEW u \in U, NEW a \in F PROVE symbol_add_scaled(u, a, x) \in U
  <2>1. symbol_add(u, symbol_mul(a, x)) \in U
    BY DEF IsSubspace
  <2>2. symbol_add_scaled(u, a, x) = symbol_add(u, symbol_mul(a, x))
    BY DEF symbol_add_scaled, symbol_add, symbol_mul
  <2>3. QED
    BY <2>1, <2>2
<1>2. QED
  BY <1>1 DEF SpanWith

(* While no row moves, a vector is clear, and a set is a basis, as before. *)
LEMMA RowsStay ==
  ASSUME UNCHANGED set
  PROVE  /\ Rows' = Rows
         /\ \A k \in Rows : PivotOf(k)' = PivotOf(k)
         /\ \A v : Clear(v)' <=> Clear(v)
         /\ \A U : Basis(U)' <=> Basis(U)
BY DEF set, Rows, Slots, Clear, PivotOf, Basis

LEMMA AddWithEliminationComplete ==
  ASSUME IInv, CompleteInv, NEW w \in Vector, AddWithElimination(Honest(w))
  PROVE  CompleteInv'
<1> DEFINE s == Honest(w)
<1>1. CASE full_symbol_is_zero(s)
  <2>1. UNCHANGED vars
    BY <1>1 DEF AddWithElimination
  <2>2. QED
    BY <2>1 DEF CompleteInv, vars, set, Clear, Basis, Rows, Slots, PivotOf, NewId
<1>2. CASE ~full_symbol_is_zero(s)
  <2>1. /\ pc = "idle" /\ pc' = "remove" /\ new_symbol' = full_symbol_clone(s)
        /\ known' = SpanWith(known, s.coef)
        /\ UNCHANGED <<set, dropped>>
    BY <1>2 DEF AddWithElimination
  <2>2. s \in FullSymbols /\ s.coef = w
    BY DEF Honest, FullSymbols
  <2>3. new_symbol'.coef = w
    BY <2>1, <2>2, CloneCoef
  <2>4. known \subseteq Vector /\ IsSubspace(known)
    BY DEF IInv, TypeOK
  <2>5. known \subseteq known'
    BY <2>1, <2>2, <2>4, SpanIsSubspace
  <2>6. ASSUME dropped = {} PROVE Basis(known)
    BY <2>1, <2>4, <2>6 DEF CompleteInv, Basis, IInv, Sound
  <2>7. ASSUME dropped' = {}
        PROVE  \E U \in SUBSET known' :
                 Basis(U)' /\ known' \subseteq SpanWith(U, new_symbol'.coef)
    <3>1. Basis(known) /\ known' \subseteq SpanWith(known, new_symbol'.coef)
      BY <2>1, <2>2, <2>3, <2>6, <2>7
    <3>2. \A U : Basis(U)' <=> Basis(U)
      BY <2>1, RowsStay
    <3>3. QED
      BY <2>5, <3>1, <3>2
  <2>8. QED
    BY <2>1, <2>7 DEF CompleteInv
<1>3. QED
  BY <1>1, <1>2

LEMMA RemovePivotComplete ==
  ASSUME NoWrap, IInv, CompleteInv, RemovePivot
  PROVE  CompleteInv'
<1> DEFINE coef  == full_symbol_get_coef(new_symbol, i)
           pivot == full_symbol_set_get_pivot(i)
           sum   == full_symbol_add(new_symbol, full_symbol_scale(pivot, coef))
<1>1. /\ pc = "remove" /\ pc' = "remove"
      /\ i <= last_nonzero_id(new_symbol)
      /\ UNCHANGED <<set, known, dropped>>
  BY DEF RemovePivot
<1>2. new_symbol \in FullSymbols /\ ~full_symbol_is_zero(new_symbol)
  BY <1>1 DEF IInv, TypeOK, Removing
<1>3. i \in Ids
  BY <1>1, <1>2, NonzeroRange, MaxIdAssumption DEF IInv, TypeOK, Ids
<1>4. coef \in F
  BY <1>2, <1>3 DEF full_symbol_get_coef, FullSymbols, Vector
<1>5. \A U : Basis(U)' <=> Basis(U)
  BY <1>1, RowsStay
<1>6. known \subseteq Vector
  BY DEF IInv, TypeOK
<1>7. SUFFICES ASSUME dropped' = {}, NEW U \in SUBSET known, Basis(U),
                      known \subseteq SpanWith(U, new_symbol.coef)
               PROVE  known \subseteq SpanWith(U, new_symbol'.coef)
  BY <1>1, <1>5 DEF CompleteInv
<1>8. CASE new_symbol' = new_symbol
  BY <1>7, <1>8
<1>9. CASE new_symbol' # new_symbol
  <2>1. pivot # NULL /\ new_symbol' = sum
    BY <1>9 DEF RemovePivot
  <2>2. PICK k \in Rows : PivotOf(k) = i /\ full_symbol_tab[k] = pivot
    BY <1>3, <2>1, PivotLookup DEF IInv, HasPivot
  <2>3. pivot \in FullSymbols /\ pivot.coef \in U /\ pivot.coef \in Vector
    BY <1>7, <2>2, RowType DEF IInv, Basis, FullSymbols
  <2>4. sum.coef = symbol_add(new_symbol.coef, symbol_mul(coef, pivot.coef))
    BY <1>2, <1>4, <2>3, ScaleCoef, AddCoef
  <2>5. new_symbol.coef \in Vector
    BY <1>2 DEF FullSymbols
  <2>6. ASSUME NEW u \in U, NEW a \in F
        PROVE  symbol_add_scaled(u, a, new_symbol.coef) \in SpanWith(U, sum.coef)
    <3>1. symbol_add(u, symbol_mul(gf256_mul(a, coef), pivot.coef)) \in U
      BY <1>4, <1>7, <2>3, FieldAssumption DEF Basis, IsSubspace
    <3>2. u \in Vector
      BY <1>6
    <3>3. symbol_add_scaled(u, a, new_symbol.coef)
            = symbol_add_scaled(symbol_add(u, symbol_mul(gf256_mul(a, coef), pivot.coef)),
                                a, sum.coef)
      BY <1>4, <2>3, <2>4, <2>5, <3>2, SumMoves
    <3>4. QED
      BY <3>1, <3>3 DEF SpanWith
  <2>7. QED
    BY <1>7, <2>1, <2>6 DEF SpanWith
<1>10. QED
  BY <1>8, <1>9

LEMMA RedundantComplete ==
  ASSUME IInv, CompleteInv, Redundant
  PROVE  CompleteInv'
<1>1. /\ pc = "remove" /\ pc' = "idle" /\ is_zero
      /\ i > last_nonzero_id(new_symbol)
      /\ UNCHANGED <<set, known, dropped>>
  BY DEF Redundant, Return
<1>2. new_symbol \in FullSymbols /\ ~full_symbol_is_zero(new_symbol)
  BY <1>1 DEF IInv, TypeOK, Removing
<1>3. SUFFICES ASSUME dropped = {}, NEW v \in known, Clear(v)
               PROVE  v = ZeroVector
  BY <1>1, RowsStay DEF CompleteInv
<1>4. PICK U \in SUBSET known : Basis(U) /\ known \subseteq SpanWith(U, new_symbol.coef)
  BY <1>1, <1>3 DEF CompleteInv
<1>5. MultipleOfRow
  <2>1. SUFFICES ASSUME Reduced PROVE FALSE
    BY <1>1 DEF IInv, Removing
  <2>2. /\ first_nonzero_id(new_symbol) \in Ids
        /\ new_symbol.coef[first_nonzero_id(new_symbol)] # Zero
        /\ last_nonzero_id(new_symbol) \in Ids
        /\ first_nonzero_id(new_symbol) <= last_nonzero_id(new_symbol)
    BY <1>2, NonzeroRange
  <2>3. first_nonzero_id(new_symbol) < i
    BY <1>1, <2>2, MaxIdAssumption DEF IInv, TypeOK, Ids
  <2>4. QED
    BY <1>1, <2>1, <2>2, <2>3 DEF Reduced
<1>6. new_symbol.coef \in U
  BY <1>4, <1>5 DEF MultipleOfRow, Basis, IsSubspace
<1>7. U \subseteq Vector
  BY DEF IInv, TypeOK
<1>8. v \in U
  BY <1>4, <1>6, <1>7, SumInside DEF Basis
<1>9. QED
  BY <1>3, <1>4, <1>8 DEF Basis

(* Multiplication regroups.                                                *)
LEMMA ProductRegroup ==
  ASSUME NEW a \in F, NEW b \in F, NEW x \in F, NEW y \in F
  PROVE  gf256_mul(gf256_mul(a, b), gf256_mul(x, y))
           = gf256_mul(a, gf256_mul(gf256_mul(b, x), y))
<1>1. gf256_mul(x, y) \in F
  BY FieldAssumption
<1>2. gf256_mul(b, gf256_mul(x, y)) = gf256_mul(gf256_mul(b, x), y)
  BY FieldAssumption
<1>3. gf256_mul(gf256_mul(a, b), gf256_mul(x, y)) = gf256_mul(a, gf256_mul(b, gf256_mul(x, y)))
  BY <1>1, FieldAssumption
<1>4. QED
  BY <1>2, <1>3

LEMMA AddAsPivotComplete ==
  ASSUME IInv, CompleteInv, AddAsPivot
  PROVE  CompleteInv'
<1> DEFINE lead == first_nonzero_id(new_symbol)
           inv  == gf256_inv(full_symbol_get_coef(new_symbol, lead))
           x    == new_symbol.coef
           y    == new_symbol'.coef
<1>1. /\ pc = "remove" /\ pc' = "pivot"
      /\ i > last_nonzero_id(new_symbol)
      /\ new_symbol' = full_symbol_scale(new_symbol, inv)
      /\ UNCHANGED <<set, known, dropped>>
  BY DEF AddAsPivot, Normalized
<1>2. /\ new_symbol \in FullSymbols /\ ~full_symbol_is_zero(new_symbol)
      /\ x \in Vector /\ \A c \in Ids : x[c] \in F
  BY <1>1 DEF IInv, TypeOK, Removing, FullSymbols, Vector
<1>3. /\ lead \in Ids /\ x[lead] \in F \ {Zero}
      /\ \A c \in Ids : x[c] # Zero => c < i
  <2>1. last_nonzero_id(new_symbol) \in Ids
    BY <1>2, NonzeroRange
  <2>2. \A c \in Ids : c <= last_nonzero_id(new_symbol) => c < i
    BY <1>1, <2>1, MaxIdAssumption DEF IInv, TypeOK, Ids
  <2>3. QED
    BY <1>2, <2>2, NonzeroRange
<1>4. inv \in F /\ gf256_mul(x[lead], inv) = One
  BY <1>3, FieldAssumption DEF full_symbol_get_coef
<1>5. /\ y \in Vector
      /\ \A c \in Ids : y[c] = gf256_mul(inv, x[c])
  BY <1>1, <1>2, <1>4, ScaleCoef DEF FullSymbols
<1>6. NewId' = lead
  <2>1. \A c \in Ids : y[c] # Zero <=> x[c] # Zero
    <3>1. ASSUME NEW c \in Ids, y[c] = Zero PROVE x[c] = Zero
      <4>1. inv \in F \ {Zero}
        BY <1>3, InvNonzero DEF full_symbol_get_coef
      <4>2. QED
        BY <1>2, <1>5, <3>1, <4>1, MulNonzero
    <3>2. ASSUME NEW c \in Ids, x[c] = Zero PROVE y[c] = Zero
      BY <1>4, <1>5, <3>2, FieldAssumption
    <3>3. QED
      BY <3>1, <3>2
  <2>2. NonzeroIds(new_symbol)' = NonzeroIds(new_symbol)
    BY <2>1 DEF NonzeroIds
  <2>3. QED
    BY <2>2 DEF NewId, first_nonzero_id
<1>7. known \subseteq Vector /\ ZeroVector \in Vector
  BY VectorOps DEF IInv, TypeOK
<1>8. SUFFICES ASSUME dropped = {}, NEW v \in known, Clear(v)
               PROVE  v = symbol_mul(v[lead], y)
  BY <1>1, <1>6, RowsStay DEF CompleteInv
<1>9. PICK U \in SUBSET known : Basis(U) /\ known \subseteq SpanWith(U, x)
  BY <1>1, <1>8 DEF CompleteInv
<1>10. CASE MultipleOfRow
  <2>1. x \in U
    BY <1>9, <1>10 DEF MultipleOfRow, Basis, IsSubspace
  <2>2. v \in U
    BY <1>7, <1>9, <2>1, SumInside DEF Basis
  <2>3. v = ZeroVector
    BY <1>8, <1>9, <2>2 DEF Basis
  <2>4. v[lead] = Zero
    BY <1>3, <2>3 DEF ZeroVector
  <2>5. QED
    BY <1>5, <2>3, <2>4, ZeroMultiple
<1>11. CASE Reduced
  <2>1. PICK u \in U, a \in F : v = symbol_add_scaled(u, a, x)
    BY <1>9 DEF SpanWith
  <2>2. u \in Vector /\ \A c \in Ids : u[c] \in F
    BY <1>7, <1>9 DEF Vector
  <2>3. \A c \in Ids : v[c] = gf256_add(u[c], gf256_mul(a, x[c]))
    BY <2>1 DEF symbol_add_scaled
  <2>4. ASSUME NEW k \in Rows PROVE u[PivotOf(k)] = Zero
    <3>1. PivotOf(k) \in Ids /\ HasPivot(PivotOf(k))
      BY DEF IInv, RowsEchelon, HasPivot
    <3>2. x[PivotOf(k)] = Zero
      BY <1>3, <1>11, <3>1 DEF Reduced
    <3>3. /\ v[PivotOf(k)] = gf256_add(u[PivotOf(k)], gf256_mul(a, Zero))
          /\ u[PivotOf(k)] \in F
      BY <2>2, <2>3, <3>1, <3>2
    <3>4. gf256_mul(a, Zero) = Zero /\ \A b \in F : gf256_add(b, Zero) = b
      BY <2>1, FieldAssumption
    <3>5. v[PivotOf(k)] = u[PivotOf(k)]
      BY <3>3, <3>4
    <3>6. QED
      BY <1>8, <3>5 DEF Clear
  <2>5. u = ZeroVector
    BY <1>9, <2>4 DEF Basis, Clear
  <2>6. \A c \in Ids : v[c] = gf256_mul(a, x[c])
    <3>1. ASSUME NEW c \in Ids PROVE v[c] = gf256_mul(a, x[c])
      <4>1. u[c] = Zero /\ gf256_mul(a, x[c]) \in F
        BY <1>2, <2>5, FieldAssumption DEF ZeroVector
      <4>2. \A p \in F : gf256_add(Zero, p) = p
        BY FieldAssumption
      <4>3. QED
        BY <2>3, <4>1, <4>2
    <3>2. QED
      BY <3>1
  <2>7. ASSUME NEW c \in Ids PROVE v[c] = gf256_mul(v[lead], y[c])
    <3>1. v[lead] = gf256_mul(a, x[lead])
      BY <1>3, <2>6
    <3>2. gf256_mul(gf256_mul(a, x[lead]), gf256_mul(inv, x[c]))
            = gf256_mul(a, gf256_mul(gf256_mul(x[lead], inv), x[c]))
      <4>1. x[lead] \in F /\ x[c] \in F
        BY <1>2, <1>3
      <4> HIDE DEF lead, inv, x
      <4>2. QED
        BY <1>4, <4>1, ProductRegroup
    <3>3. gf256_mul(One, x[c]) = x[c]
      BY <1>2, FieldAssumption
    <3>4. QED
      BY <1>4, <1>5, <2>6, <3>1, <3>2, <3>3
  <2>8. v \in Vector
    BY <1>7
  <2>9. QED
    BY <2>7, <2>8 DEF symbol_mul, Vector
<1>12. QED
  BY <1>1, <1>10, <1>11 DEF IInv, Removing

LEMMA EliminateRowComplete ==
  ASSUME IInv, CompleteInv, EliminateRow
  PROVE  CompleteInv'
<1>1. /\ pc = "pivot" /\ pc' = "pivot" /\ i < size
      /\ UNCHANGED <<size, first_symbol_id, new_symbol, known, dropped>>
  BY DEF EliminateRow, set
<1>2. Rows' = Rows
  <2>1. CASE full_symbol_tab[i] = NULL
    BY <1>1, <2>1 DEF EliminateRow, set, Rows, Slots
  <2>2. CASE full_symbol_tab[i] # NULL
    <3>1. full_symbol_tab' = [full_symbol_tab EXCEPT ![i] = RowSum(i)]
      BY <2>2 DEF EliminateRow, RowSum, NewId
    <3>2. i \in Slots
      BY <1>1 DEF IInv, TypeOK, Slots
    <3>3. i \in Rows
      BY <2>2, <3>2 DEF Rows
    <3>4. RowSum(i) # NULL
      BY <1>1, <3>3, RowSumFacts, NullAssumption
    <3>5. QED
      BY <1>1, <2>2, <3>1, <3>2, <3>4 DEF IInv, TypeOK, Rows, Slots
  <2>3. QED
    BY <2>1, <2>2
<1>3. NewId' = NewId /\ \A v : Clear(v)' <=> Clear(v)
  BY <1>1, <1>2 DEF NewId, Clear, PivotOf
<1>4. QED
  BY <1>1, <1>3 DEF CompleteInv

(* The pivots after a store are those before it and the new one.           *)
LEMMA StoreComplete ==
  ASSUME IInv, CompleteInv, Storing, StoreKeeps, pc' = "idle", UNCHANGED known
  PROVE  CompleteInv'
<1>1. pc = "pivot"
  BY DEF Storing
<1>2. /\ new_symbol.coef \in Vector
      /\ NewId \in Ids
  BY <1>1, NewPivot DEF FullSymbols
<1>3. SUFFICES ASSUME dropped' = {}, NEW v \in known,
                      \A k \in Rows' : v[first_symbol_id' + k] = Zero
               PROVE  v = ZeroVector
  BY DEF CompleteInv, Clear, PivotOf
<1>4. \A p \in NextPivots : v[p] = Zero
  BY <1>3 DEF NextPivots
<1>5. v[NewId] = Zero /\ dropped = {}
  BY <1>3, <1>4 DEF StoreKeeps
<1>6. Clear(v)
  BY <1>3, <1>4, <1>5 DEF Clear, StoreKeeps
<1>7. v = symbol_mul(v[NewId], new_symbol.coef)
  BY <1>1, <1>5, <1>6 DEF CompleteInv
<1>8. QED
  BY <1>2, <1>5, <1>7, ZeroMultiple

LEMMA CompleteNext ==
  ASSUME NoWrap, IInv, CompleteInv, [Next]_vars
  PROVE  CompleteInv'
<1>1. ASSUME NEW v \in Vector, AddWithElimination(Honest(v)) PROVE CompleteInv'
  BY <1>1, AddWithEliminationComplete
<1>2. CASE RemovePivot
  BY <1>2, RemovePivotComplete
<1>3. CASE Redundant
  BY <1>3, RedundantComplete
<1>4. CASE AddAsPivot
  BY <1>4, AddAsPivotComplete
<1>5. CASE EliminateRow
  BY <1>5, EliminateRowComplete
<1>6. CASE StoreRight
  <2>1. Storing /\ pc' = "idle" /\ UNCHANGED known
    BY <1>6 DEF StoreRight, Return
  <2>2. QED
    BY <1>6, <2>1, StoreRightInv, StoreComplete
<1>7. CASE StoreLeft
  <2>1. Storing /\ pc' = "idle" /\ UNCHANGED known
    BY <1>7 DEF StoreLeft, Return
  <2>2. QED
    BY <1>7, <2>1, StoreLeftInv, StoreComplete
<1>8. CASE Overflow
  BY <1>8 DEF Overflow, CompleteInv
<1>9. CASE UNCHANGED vars
  BY <1>9 DEF CompleteInv, vars, set, Clear, Basis, Rows, Slots, PivotOf, NewId
<1>10. QED
  BY <1>1, <1>2, <1>3, <1>4, <1>5, <1>6, <1>7, <1>8, <1>9 DEF Next, Step

(***************************************************************************)
(* full_symbol_add_with_elimination loses nothing of what was submitted,   *)
(* whatever the order of the identifiers and however the table grew, as    *)
(* long as no row was shifted off its end.                                 *)
(***************************************************************************)
THEOREM Completeness ==
  ASSUME NoWrap
  PROVE  Spec => []Complete
<1>1. Init => CompleteInv
  <2>1. SUFFICES ASSUME Init PROVE CompleteInv
    OBVIOUS
  <2>2. QED
    BY <2>1 DEF Init, CompleteInv
<1>2. IInv /\ CompleteInv /\ [Next]_vars => CompleteInv'
  BY CompleteNext
<1>3. IInv /\ CompleteInv => Complete
  <2>1. SUFFICES ASSUME IInv, CompleteInv, pc = "idle", dropped = {}
                 PROVE  Unresolved = {ZeroVector}
    BY DEF Complete
  <2>2. ZeroVector \in Unresolved
    <3>1. ZeroVector \in known
      BY <2>1 DEF IInv, IsSubspace
    <3>2. \A k \in Rows : PivotOf(k) \in Ids
      BY <2>1 DEF IInv, RowsEchelon
    <3>3. QED
      BY <3>1, <3>2 DEF Unresolved, ZeroVector
  <2>3. QED
    BY <2>1, <2>2 DEF CompleteInv, Unresolved, Clear
<1>4. QED
  BY Invariance, <1>1, <1>2, <1>3, PTL DEF Spec

-------------------------------------------------------------------------------
(* Where the application is told of an identifier, its row is.             *)
LEMMA ToldHasRow ==
  ASSUME NoWrap, IInv, Next, NEW id \in Ids, notified'[id] # notified[id]
  PROVE  \E k \in Rows' : /\ first_symbol_id' + k = id
                          /\ full_symbol_tab'[k].coef = UnitVector(id)
                          /\ full_symbol_tab'[k].data = UnitVector(id)
<1>1. IInv'
  BY NextInv
<1>2. notified \in [Ids -> Nat]
  BY DEF IInv, TypeOK
<1>3. CASE EliminateRow
  <2>1. PICK k : k = i
    OBVIOUS
  <2>2. /\ pc = "pivot" /\ k < size /\ full_symbol_tab[k] # NULL /\ size' = size
        /\ full_symbol_tab' = [full_symbol_tab EXCEPT ![k] = RowSum(k)]
        /\ NewlySolved(full_symbol_tab[k], RowSum(k))
        /\ notified' = [notified EXCEPT ![first_nonzero_id(RowSum(k))] = @ + 1]
    BY <1>3, <2>1 DEF EliminateRow, RowSum, set, application, NewId
  <2>3. full_symbol_has_one_id(RowSum(k)) /\ ~full_symbol_is_zero(RowSum(k))
    BY <2>2 DEF NewlySolved, full_symbol_has_one_id
  <2>4. k \in Rows /\ k \in 0 .. size - 1
    BY <2>1, <2>2 DEF IInv, TypeOK, Rows, Slots
  <2>5. RowSum(k) \in FullSymbols /\ RowSum(k) # NULL
    BY <2>1, <2>2, <2>4, RowSumFacts, NullAssumption
  <2>6. full_symbol_tab'[k] = RowSum(k) /\ k \in Rows'
    BY <2>2, <2>4, <2>5 DEF IInv, TypeOK, Rows, Slots
  <2>7. PivotOf(k)' \in Ids /\ RowSum(k).coef[PivotOf(k)'] = One
    BY <1>1, <2>3, <2>6 DEF IInv, RowsEchelon, VanishedIsZero, EchelonRow
  <2>8. RowSum(k).coef = UnitVector(PivotOf(k)') /\ first_nonzero_id(RowSum(k)) = PivotOf(k)'
    BY <2>3, <2>5, <2>7, UnitSymbol
  <2>9. id = PivotOf(k)'
    BY <1>2, <2>2, <2>7, <2>8
  <2>10. full_symbol_tab'[k].data = full_symbol_tab'[k].coef
    BY <1>1, <2>6 DEF IInv, Sound
  <2>11. QED
    BY <2>6, <2>8, <2>9, <2>10 DEF PivotOf
<1>4. ASSUME Storing, NotifyStored, StoreMoves
      PROVE  \E k \in Rows' : /\ first_symbol_id' + k = id
                              /\ full_symbol_tab'[k].coef = UnitVector(id)
                              /\ full_symbol_tab'[k].data = UnitVector(id)
  <2>1. /\ new_symbol \in FullSymbols /\ NewId \in Ids
        /\ new_symbol.coef[NewId] = One /\ new_symbol.data = new_symbol.coef
    BY <1>4, NewPivot DEF Storing, IInv, InHandSound
  <2>2. full_symbol_has_one_id(new_symbol) /\ id = NewId
    BY <1>2, <1>4, <2>1 DEF NotifyStored, application
  <2>3. new_symbol.coef = UnitVector(id)
    BY <2>1, <2>2, UnitSymbol
  <2>4. QED
    BY <1>4, <2>1, <2>2, <2>3 DEF StoreMoves
<1>5. CASE StoreRight
  BY <1>4, <1>5, StoreRightInv DEF StoreRight
<1>6. CASE StoreLeft
  BY <1>4, <1>6, StoreLeftInv DEF StoreLeft
<1>7. ASSUME NEW v \in Vector, AddWithElimination(Honest(v)) PROVE FALSE
  BY <1>7 DEF AddWithElimination, vars, application
<1>8. CASE RemovePivot \/ Redundant \/ AddAsPivot \/ Overflow
  BY <1>8 DEF RemovePivot, Redundant, AddAsPivot, Overflow, application
<1>9. QED
  BY <1>3, <1>5, <1>6, <1>7, <1>8 DEF Next, Step

(* The application is told of nothing the packets do not determine.        *)
LEMMA ToldIsKnown ==
  ASSUME NoWrap, IInv, Next, NEW id \in Ids, notified'[id] # notified[id]
  PROVE  UnitVector(id) \in known'
<1>1. IInv'
  BY NextInv
<1>2. QED
  BY <1>1, ToldHasRow DEF IInv, Sound

(* What the packets determine, later packets determine.                    *)
LEMMA KnownGrows ==
  ASSUME IInv, [Next]_vars
  PROVE  known \subseteq known'
<1>1. ASSUME NEW v \in Vector, AddWithElimination(Honest(v)) PROVE known \subseteq known'
  <2>1. Honest(v).coef = v
    BY DEF Honest
  <2>2. known \subseteq SpanWith(known, v)
    BY SpanIsSubspace DEF IInv, TypeOK
  <2>3. QED
    BY <1>1, <2>1, <2>2 DEF AddWithElimination, vars
<1>2. CASE Step
  BY <1>2 DEF Step, RemovePivot, Redundant, AddAsPivot, EliminateRow, StoreRight,
     StoreLeft, Overflow
<1>3. CASE UNCHANGED vars
  BY <1>3 DEF vars
<1>4. QED
  BY <1>1, <1>2, <1>3 DEF Next

(* Rows that fell off stay away, and a program that stopped stays stopped. *)
LEMMA HistoryGrows ==
  ASSUME [Next]_vars
  PROVE  dropped \subseteq dropped' /\ (pc = "crashed" => pc' = "crashed")
<1>1. ASSUME NEW v \in Vector, AddWithElimination(Honest(v))
      PROVE  dropped \subseteq dropped' /\ pc # "crashed"
  BY <1>1 DEF AddWithElimination, vars
<1>2. CASE Step
  BY <1>2 DEF Step, RemovePivot, Redundant, AddAsPivot, EliminateRow, StoreRight,
     StoreLeft, Overflow, Storing
<1>3. CASE UNCHANGED vars
  BY <1>3 DEF vars
<1>4. QED
  BY <1>1, <1>2, <1>3 DEF Next

-------------------------------------------------------------------------------
(***************************************************************************)
(* Source symbols that arrive before anything else speaks of them.  Such a *)
(* symbol passes through the elimination unchanged and changes no row; its *)
(* row, once stored, is never replaced and never notified.                 *)
(***************************************************************************)
UnitRow(id) ==
  \E k \in Rows : PivotOf(k) = id /\ full_symbol_tab[k].coef = UnitVector(id)

UnitInHand(id) ==
  /\ pc \in {"remove", "pivot"}
  /\ new_symbol1.coef = UnitVector(id) /\ new_symbol.coef = UnitVector(id)
  /\ \A k \in Rows : PivotOf(k) # id /\ full_symbol_tab[k].coef[id] = Zero

Settled(id) == UnitRow(id) \/ UnitInHand(id)

(* The pivot about to be eliminated is not that of a solved row.           *)
LEMMA UnitRowIsOld ==
  ASSUME IInv, pc = "pivot", NEW k \in Rows, NEW id \in Ids, PivotOf(k) = id,
         full_symbol_tab[k].coef = UnitVector(id)
  PROVE  NewId # id
<1>1. SUFFICES ASSUME NewId = id PROVE FALSE
  OBVIOUS
<1>2. UnitVector(id)[id] = One /\ \A c \in Ids : c # id => UnitVector(id)[c] = Zero
  BY DEF UnitVector
<1>3. k \in Nat /\ i \in Nat /\ (k < i \/ k >= i)
  BY RowType DEF IInv, TypeOK
<1>4. QED
  BY <1>1, <1>2, <1>3, FieldAssumption DEF IInv, Pivoting

LEMMA EliminateSolved ==
  ASSUME IInv, EliminateRow, NEW id \in Ids, UnitRow(id)
  PROVE  UnitRow(id)' /\ notified'[id] = notified[id]
<1>1. PICK k \in Rows : PivotOf(k) = id /\ full_symbol_tab[k].coef = UnitVector(id)
  BY DEF UnitRow
<1>2. PICK m : m = i
  OBVIOUS
<1>3. /\ pc = "pivot" /\ m < size /\ UNCHANGED <<size, first_symbol_id>>
      /\ \/ full_symbol_tab[m] = NULL /\ UNCHANGED <<full_symbol_tab, notified>>
         \/ /\ full_symbol_tab[m] # NULL
            /\ full_symbol_tab' = [full_symbol_tab EXCEPT ![m] = RowSum(m)]
            /\ \/ ~NewlySolved(full_symbol_tab[m], RowSum(m)) /\ notified' = notified
               \/ /\ NewlySolved(full_symbol_tab[m], RowSum(m))
                  /\ notified' = [notified EXCEPT ![first_nonzero_id(RowSum(m))] = @ + 1]
  BY <1>2 DEF EliminateRow, set, application, RowSum, NewId
<1>4. NewId # id
  BY <1>1, <1>3, UnitRowIsOld
<1>5. CASE full_symbol_tab[m] = NULL
  BY <1>1, <1>3, <1>5 DEF UnitRow, Rows, Slots, PivotOf
<1>6. CASE full_symbol_tab[m] # NULL
  <2>1. m \in Rows /\ m \in Slots
    BY <1>2, <1>3, <1>6 DEF IInv, TypeOK, Rows, Slots
  <2>2. /\ RowSum(m) \in FullSymbols /\ RowSum(m) # NULL /\ PivotOf(m) \in Ids
        /\ PivotOf(m) # NewId =>
             /\ RowSum(m).coef[PivotOf(m)] = One
             /\ full_symbol_tab[m].coef[NewId] = Zero =>
                  RowSum(m).coef = full_symbol_tab[m].coef
        /\ PivotOf(m) = NewId => full_symbol_is_zero(RowSum(m))
    BY <1>2, <1>3, <2>1, RowSumFacts, NullAssumption
  <2>3. full_symbol_tab'[k] # NULL /\ full_symbol_tab'[k].coef = UnitVector(id)
    <3>1. CASE k = m
      <4>1. UnitVector(id)[NewId] = Zero
        BY <1>3, <1>4, NewPivot DEF UnitVector
      <4>2. RowSum(m).coef = UnitVector(id)
        BY <1>1, <1>4, <2>2, <3>1, <4>1
      <4>3. full_symbol_tab'[k] = RowSum(m)
        BY <1>3, <1>6, <2>1, <3>1 DEF IInv, TypeOK
      <4>4. QED
        BY <2>2, <4>2, <4>3
    <3>2. CASE k # m
      <4>1. full_symbol_tab'[k] = full_symbol_tab[k]
        BY <1>3, <1>6, <3>2 DEF IInv, TypeOK, Rows
      <4>2. QED
        BY <1>1, <4>1 DEF Rows
    <3>3. QED
      BY <3>1, <3>2
  <2>4. UnitRow(id)'
    BY <1>1, <1>3, <2>3 DEF UnitRow, Rows, Slots, PivotOf
  <2>5. ASSUME NewlySolved(full_symbol_tab[m], RowSum(m)) PROVE first_nonzero_id(RowSum(m)) # id
    <3>1. /\ ~full_symbol_has_one_id(full_symbol_tab[m])
          /\ full_symbol_has_one_id(RowSum(m)) /\ ~full_symbol_is_zero(RowSum(m))
      BY <2>5 DEF NewlySolved, full_symbol_has_one_id
    <3>2. first_nonzero_id(RowSum(m)) = PivotOf(m)
      BY <2>2, <3>1, UnitSymbol
    <3>3. k # m
      BY <1>1, <3>1, RowType, UnitSymbol DEF IInv
    <3>4. PivotOf(k) # PivotOf(m)
      BY <2>1, <3>3, PivotsDiffer DEF IInv
    <3>5. QED
      BY <1>1, <3>2, <3>4
  <2>6. notified'[id] = notified[id]
    BY <1>3, <1>6, <2>5 DEF IInv, TypeOK
  <2>7. QED
    BY <2>4, <2>6
<1>7. QED
  BY <1>5, <1>6

LEMMA StoreSolved ==
  ASSUME IInv, Storing, NotifyStored, StoreMoves, NEW id \in Ids, UnitRow(id),
         id \notin dropped'
  PROVE  UnitRow(id)' /\ notified'[id] = notified[id]
<1>1. PICK k \in Rows : PivotOf(k) = id /\ full_symbol_tab[k].coef = UnitVector(id)
  BY DEF UnitRow
<1>2. NewId # id
  BY <1>1, UnitRowIsOld DEF Storing
<1>3. UnitRow(id)'
  BY <1>1, <1>2 DEF StoreMoves, UnitRow, PivotOf
<1>4. notified'[id] = notified[id]
  BY <1>2 DEF NotifyStored, application, IInv, TypeOK
<1>5. QED
  BY <1>3, <1>4

(* A solved row stays, and the application is not told of it again.        *)
LEMMA SolvedStays ==
  ASSUME NoWrap, IInv, Next, NEW id \in Ids, UnitRow(id), id \notin dropped'
  PROVE  UnitRow(id)' /\ notified'[id] = notified[id]
<1>1. ASSUME UNCHANGED <<set, application>>
      PROVE  UnitRow(id)' /\ notified'[id] = notified[id]
  BY <1>1 DEF set, application, UnitRow, Rows, Slots, PivotOf
<1>2. ASSUME NEW v \in Vector, AddWithElimination(Honest(v))
      PROVE  UNCHANGED <<set, application>>
  BY <1>2 DEF AddWithElimination, vars
<1>3. CASE RemovePivot \/ Redundant \/ AddAsPivot \/ Overflow
  BY <1>1, <1>3 DEF RemovePivot, Redundant, AddAsPivot, Overflow
<1>4. CASE EliminateRow
  BY <1>4, EliminateSolved
<1>5. CASE StoreRight
  BY <1>5, StoreRightInv, StoreSolved DEF StoreRight
<1>6. CASE StoreLeft
  BY <1>6, StoreLeftInv, StoreSolved DEF StoreLeft
<1>7. QED
  BY <1>1, <1>2, <1>3, <1>4, <1>5, <1>6 DEF Next, Step

(* The symbol submitted is in hand.                                        *)
LEMMA UnitStarts ==
  ASSUME IInv, NEW id \in Ids, AddWithElimination(Honest(UnitVector(id))),
         \A v \in known : v[id] = Zero
  PROVE  UnitInHand(id)'
<1> DEFINE s == Honest(UnitVector(id))
<1>1. s \in FullSymbols /\ s.coef = UnitVector(id)
  BY VectorOps DEF Honest, FullSymbols
<1>2. ~full_symbol_is_zero(s)
  BY <1>1, UnitSymbol DEF full_symbol_has_one_id
<1>3. full_symbol_clone(s) = s
  BY <1>2 DEF full_symbol_clone
<1>4. /\ pc' = "remove" /\ new_symbol1' = s /\ new_symbol' = s
      /\ UNCHANGED set
  BY <1>2, <1>3 DEF AddWithElimination
<1>5. \A k \in Rows : full_symbol_tab[k].coef[id] = Zero
  BY DEF IInv, Sound
<1>6. ASSUME NEW k \in Rows PROVE PivotOf(k) # id
  <2>1. pc = "idle"
    BY DEF AddWithElimination
  <2>2. EchelonRow(k)
    BY <2>1 DEF IInv, RowsEchelon, Vanished
  <2>3. QED
    BY <1>5, <2>2, FieldAssumption DEF EchelonRow
<1>7. QED
  BY <1>1, <1>4, <1>5, <1>6 DEF UnitInHand, set, Rows, Slots, PivotOf

(* What the symbol in hand is, and that no row has its pivot.              *)
LEMMA UnitInHandFacts ==
  ASSUME IInv, NEW id \in Ids, UnitInHand(id)
  PROVE  /\ new_symbol \in FullSymbols /\ new_symbol1 \in FullSymbols
         /\ NewId = id /\ last_nonzero_id(new_symbol) = id
         /\ new_symbol.coef[id] = One
         /\ \A c \in Ids : c # id => new_symbol.coef[c] = Zero
         /\ full_symbol_has_one_id(new_symbol1)
         /\ \A k \in Rows : PivotOf(k) # id
<1>1. new_symbol \in FullSymbols /\ new_symbol1 \in FullSymbols
  BY DEF IInv, TypeOK
<1>2. /\ full_symbol_has_one_id(new_symbol) /\ NewId = id
      /\ full_symbol_has_one_id(new_symbol1)
  BY <1>1, UnitSymbol DEF UnitInHand, NewId
<1>3. last_nonzero_id(new_symbol) = id
  BY <1>2 DEF full_symbol_has_one_id, NewId
<1>4. /\ new_symbol.coef[id] = One
      /\ \A c \in Ids : c # id => new_symbol.coef[c] = Zero
  BY DEF UnitInHand, UnitVector
<1>5. \A k \in Rows : PivotOf(k) # id
  BY DEF UnitInHand
<1>6. QED
  BY <1>1, <1>2, <1>3, <1>4, <1>5

LEMMA EliminateUnit ==
  ASSUME IInv, EliminateRow, NEW id \in Ids, UnitInHand(id)
  PROVE  UnitInHand(id)' /\ UNCHANGED notified
<1>1. /\ new_symbol \in FullSymbols /\ NewId = id
      /\ \A k \in Rows : PivotOf(k) # id /\ full_symbol_tab[k].coef[id] = Zero
  BY UnitInHandFacts DEF UnitInHand
<1>2. PICK m : m = i
  OBVIOUS
<1>3. /\ pc = "pivot" /\ pc' = pc /\ m < size
      /\ UNCHANGED <<size, first_symbol_id, new_symbol1, new_symbol>>
      /\ \/ full_symbol_tab[m] = NULL /\ UNCHANGED <<full_symbol_tab, notified>>
         \/ /\ full_symbol_tab[m] # NULL
            /\ full_symbol_tab' = [full_symbol_tab EXCEPT ![m] = RowSum(m)]
            /\ NewlySolved(full_symbol_tab[m], RowSum(m)) \/ notified' = notified
  BY <1>2 DEF EliminateRow, set, application, RowSum, NewId
<1>4. CASE full_symbol_tab[m] = NULL
  BY <1>3, <1>4 DEF UnitInHand, Rows, Slots, PivotOf
<1>5. CASE full_symbol_tab[m] # NULL
  <2>1. m \in Rows /\ m \in Slots /\ full_symbol_tab[m] \in FullSymbols
    BY <1>2, <1>3, <1>5, RowType DEF IInv, TypeOK, Rows, Slots
  <2>2. RowSum(m).coef = full_symbol_tab[m].coef /\ RowSum(m) \in FullSymbols
    BY <1>1, <1>2, <1>3, <2>1, RowSumFacts
  <2>3. full_symbol_has_one_id(RowSum(m)) <=> full_symbol_has_one_id(full_symbol_tab[m])
    BY <2>2 DEF full_symbol_has_one_id, full_symbol_is_zero, first_nonzero_id,
       last_nonzero_id, NonzeroIds
  <2>4. notified' = notified
    BY <1>3, <1>5, <2>3 DEF NewlySolved
  <2>5. /\ \A k \in Rows' : k \in Rows
        /\ \A k \in Rows : full_symbol_tab'[k].coef = full_symbol_tab[k].coef
    BY <1>3, <1>5, <2>1, <2>2 DEF IInv, TypeOK, Rows, Slots
  <2>6. QED
    BY <1>1, <1>3, <2>4, <2>5 DEF UnitInHand, PivotOf
<1>6. QED
  BY <1>4, <1>5

(* It passes through the elimination, changes no row and is stored without *)
(* a callback.                                                             *)
LEMMA UnitPasses ==
  ASSUME NoWrap, IInv, Next, NEW id \in Ids, UnitInHand(id), pc' # "crashed"
  PROVE  /\ Settled(id)' /\ UNCHANGED notified
         /\ pc' # "idle" => UnitInHand(id)'
<1>1. /\ new_symbol \in FullSymbols /\ NewId = id /\ last_nonzero_id(new_symbol) = id
      /\ full_symbol_has_one_id(new_symbol1)
      /\ new_symbol.coef[id] = One
      /\ \A c \in Ids : c # id => new_symbol.coef[c] = Zero
      /\ \A k \in Rows : PivotOf(k) # id /\ full_symbol_tab[k].coef[id] = Zero
  BY UnitInHandFacts DEF UnitInHand
<1>2. ASSUME NEW v \in Vector, AddWithElimination(Honest(v)) PROVE FALSE
  BY <1>2 DEF AddWithElimination, UnitInHand
<1>3. CASE RemovePivot
  <2>1. /\ pc = "remove" /\ i <= id /\ UNCHANGED <<set, pc, new_symbol1, application>>
        /\ \/ UNCHANGED new_symbol
           \/ new_symbol.coef[i] # Zero /\ full_symbol_set_get_pivot(i) # NULL
    BY <1>1, <1>3 DEF RemovePivot, full_symbol_get_coef
  <2>2. i \in Ids
    BY <2>1, MaxIdAssumption DEF IInv, TypeOK, Ids
  <2>3. UNCHANGED new_symbol
    BY <1>1, <2>1, <2>2, PivotLookup DEF IInv, HasPivot
  <2>4. QED
    BY <2>1, <2>3 DEF UnitInHand, Settled, set, application, Rows, Slots, PivotOf
<1>4. CASE Redundant
  <2>1. pc = "remove" /\ i > id /\ is_zero
    BY <1>1, <1>4 DEF Redundant
  <2>2. CASE Reduced
    BY <1>1, <2>1, <2>2, FieldAssumption DEF Reduced, Ids
  <2>3. CASE MultipleOfRow
    <3>1. PICK k \in Rows, a \in F \ {Zero} :
            new_symbol.coef = symbol_mul(a, full_symbol_tab[k].coef)
      BY <2>3 DEF MultipleOfRow
    <3>2. new_symbol.coef[id] = gf256_mul(a, Zero)
      BY <1>1, <3>1 DEF symbol_mul
    <3>3. QED
      BY <1>1, <3>1, <3>2, FieldAssumption
  <2>4. QED
    BY <2>1, <2>2, <2>3 DEF IInv, Removing
<1>5. CASE AddAsPivot
  <2>1. /\ pc' = "pivot" /\ new_symbol' = full_symbol_scale(new_symbol, gf256_inv(One))
        /\ UNCHANGED <<set, new_symbol1, application>>
    BY <1>1, <1>5 DEF AddAsPivot, Normalized, NewId, full_symbol_get_coef
  <2>2. gf256_inv(One) \in F /\ gf256_mul(One, gf256_inv(One)) = One
    BY FieldAssumption
  <2>3. gf256_inv(One) = One
    BY <2>2, FieldAssumption
  <2>4. /\ new_symbol'.coef = symbol_mul(One, new_symbol.coef)
    BY <1>1, <2>1, <2>2, <2>3, ScaleCoef
  <2>5. \A c \in Ids : gf256_mul(One, new_symbol.coef[c]) = new_symbol.coef[c]
    BY <1>1, FieldAssumption DEF FullSymbols, Vector
  <2>6. new_symbol'.coef = UnitVector(id)
    <3>1. symbol_mul(One, new_symbol.coef) = [c \in Ids |-> new_symbol.coef[c]]
      BY <2>5 DEF symbol_mul
    <3>2. [c \in Ids |-> new_symbol.coef[c]] = new_symbol.coef
      BY <1>1 DEF FullSymbols, Vector
    <3>3. QED
      BY <2>4, <3>1, <3>2 DEF UnitInHand
  <2>7. QED
    BY <2>1, <2>6 DEF UnitInHand, Settled, set, application, Rows, Slots, PivotOf
<1>6. CASE EliminateRow
  BY <1>6, EliminateUnit DEF Settled
<1>7. ASSUME NotifyStored, StoreMoves, pc' = "idle"
      PROVE  Settled(id)' /\ UNCHANGED notified
  <2>1. UnitRow(id)'
    BY <1>1, <1>7 DEF StoreMoves, UnitRow, UnitInHand, PivotOf
  <2>2. QED
    BY <1>1, <1>7, <2>1 DEF NotifyStored, application, Settled
<1>8. CASE StoreRight
  BY <1>7, <1>8, StoreRightInv DEF StoreRight, Return
<1>9. CASE StoreLeft
  BY <1>7, <1>9, StoreLeftInv DEF StoreLeft, Return
<1>10. CASE Overflow
  BY <1>10 DEF Overflow
<1>11. QED
  BY <1>2, <1>3, <1>4, <1>5, <1>6, <1>8, <1>9, <1>10 DEF Next, Step

(* While it is in hand, no other identifier becomes solved.                *)
LEMMA UnitSolvesItself ==
  ASSUME NoWrap, IInv, Next, NEW id \in Ids, UnitInHand(id), pc' # "crashed",
         NEW solved \in Decoded' \ Decoded
  PROVE  solved = id
<1>1. ASSUME UNCHANGED set PROVE FALSE
  BY <1>1 DEF set, Decoded, Rows, Slots, PivotOf
<1>2. ASSUME NEW v \in Vector, AddWithElimination(Honest(v)) PROVE FALSE
  BY <1>2 DEF AddWithElimination, UnitInHand
<1>3. CASE RemovePivot \/ Redundant \/ AddAsPivot \/ Overflow
  BY <1>1, <1>3 DEF RemovePivot, Redundant, AddAsPivot, Overflow
<1>4. CASE EliminateRow
  <2>1. notified' = notified /\ notified'[solved] > notified[solved]
    BY <1>4, EliminateUnit, EliminateRowNotifies
  <2>2. solved \in Ids
    <3>1. PICK k \in Rows' : solved = PivotOf(k)'
      BY DEF Decoded
    <3>2. IInv'
      BY NextInv
    <3>3. QED
      BY <3>1, <3>2 DEF IInv, RowsEchelon
  <2>3. notified[solved] \in Nat
    BY <2>2 DEF IInv, TypeOK
  <2>4. QED
    BY <2>1, <2>3
<1>5. ASSUME StoreMoves PROVE solved = id
  <2>1. PICK k \in Rows' : /\ solved = first_symbol_id' + k
                           /\ full_symbol_has_one_id(full_symbol_tab'[k])
    BY DEF Decoded, PivotOf
  <2>2. CASE first_symbol_id' + k = NewId
    BY <2>1, <2>2, UnitInHandFacts
  <2>3. CASE \E j \in Rows : /\ PivotOf(j) = first_symbol_id' + k
                              /\ full_symbol_tab'[k] = full_symbol_tab[j]
    BY <2>1, <2>3 DEF Decoded
  <2>4. QED
    BY <1>5, <2>1, <2>2, <2>3 DEF StoreMoves
<1>6. CASE StoreRight
  BY <1>5, <1>6, StoreRightInv
<1>7. CASE StoreLeft
  BY <1>5, <1>7, StoreLeftInv
<1>8. QED
  BY <1>2, <1>3, <1>4, <1>6, <1>7 DEF Next, Step

(* The symbol submitted is looked at until the call returns.               *)
LEMMA ArgumentStays ==
  ASSUME Step, pc' \in {"remove", "pivot"}
  PROVE  pc \in {"remove", "pivot"} /\ UNCHANGED new_symbol1
BY DEF Step, RemovePivot, Redundant, AddAsPivot, EliminateRow, StoreRight, StoreLeft,
   Overflow, Storing, Return

-------------------------------------------------------------------------------
(* Between two calls, what the packets determine has a solved row.         *)
LEMMA DeterminedIsSolved ==
  ASSUME IInv, CompleteInv, pc = "idle", dropped = {}, NEW id \in Ids,
         UnitVector(id) \in known
  PROVE  id \in Decoded
<1> DEFINE u == UnitVector(id)
<1>1. /\ u \in Vector /\ u[id] = One /\ \A c \in Ids : c # id => u[c] = Zero
  BY VectorOps DEF UnitVector
<1> HIDE DEF u
<1>2. \A v \in known : Clear(v) => v = ZeroVector
  BY DEF CompleteInv
<1>3. \A k \in Rows : EchelonRow(k) /\ PivotOf(k) \in Ids
  BY DEF IInv, RowsEchelon, Vanished
<1>4. PICK k \in Rows : PivotOf(k) = id
  <2>1. ASSUME \A k \in Rows : PivotOf(k) # id PROVE FALSE
    <3>1. Clear(u)
      BY <1>1, <1>3, <2>1 DEF Clear
    <3>2. u = ZeroVector
      BY <1>2, <3>1 DEF u
    <3>3. QED
      BY <1>1, <3>2, FieldAssumption DEF ZeroVector
  <2>2. QED
    BY <2>1
<1>5. /\ full_symbol_tab[k] \in FullSymbols /\ full_symbol_tab[k].coef \in known
      /\ full_symbol_tab[k].coef \in Vector
  BY RowType DEF IInv, Sound, FullSymbols
<1> DEFINE d == symbol_add(full_symbol_tab[k].coef, u)
<1>6. /\ d \in known
      /\ \A c \in Ids : d[c] = gf256_add(full_symbol_tab[k].coef[c], u[c])
  BY <1>5 DEF IInv, IsSubspace, symbol_add, u
<1> HIDE DEF d
<1>7. Clear(d)
  <2>1. ASSUME NEW j \in Rows PROVE d[PivotOf(j)] = Zero
    <3>1. CASE j = k
      <4>1. full_symbol_tab[k].coef[id] = One
        BY <1>3, <1>4 DEF EchelonRow
      <4>2. QED
        BY <1>1, <1>4, <1>6, <3>1, <4>1, FieldAssumption
    <3>2. CASE j # k
      <4>1. PivotOf(j) # id /\ PivotOf(j) \in Ids
        BY <1>3, <1>4, <3>2, PivotsDiffer DEF IInv
      <4>2. full_symbol_tab[k].coef[PivotOf(j)] = Zero
        BY <3>2 DEF IInv, ColumnsClear
      <4>3. QED
        BY <1>1, <1>6, <4>1, <4>2, FieldAssumption
    <3>3. QED
      BY <3>1, <3>2
  <2>2. QED
    BY <2>1 DEF Clear
<1>8. \A c \in Ids : gf256_add(full_symbol_tab[k].coef[c], u[c]) = Zero
  <2>1. d = ZeroVector
    BY <1>2, <1>6, <1>7
  <2>2. QED
    BY <1>6, <2>1 DEF ZeroVector
<1>9. \A c \in Ids : full_symbol_tab[k].coef[c] = u[c]
  BY <1>1, <1>5, <1>8, AddZeroEqual DEF Vector
<1>10. full_symbol_tab[k].coef = UnitVector(id)
  BY <1>1, <1>5, <1>9 DEF Vector, u
<1>11. full_symbol_has_one_id(full_symbol_tab[k])
  BY <1>5, <1>10, UnitSymbol
<1>12. QED
  BY <1>4, <1>11 DEF Decoded
===============================================================================
