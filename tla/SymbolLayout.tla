----------------------------- MODULE SymbolLayout -----------------------------
(***************************************************************************)
(* How swif_full_symbol_impl.c lays a full symbol out in memory: an array  *)
(* of coefficients whose entry 0 is that of the identifier first_id, the   *)
(* bounds of its nonzero part, and an array of data_size bytes.  The       *)
(* operations are those of module FullSymbol with their index arithmetic;  *)
(* an operator ...Asserts says when every assertion in the operation       *)
(* holds.  Abs is the symbol a layout stands for.                          *)
(***************************************************************************)
EXTENDS FullSymbol

(* Arrays start at 0.                                                      *)
ArrayOf(n) == [0 .. n - 1 -> F]

(* The entries of an array of coefficients.  One without identifiers has   *)
(* an entry all the same, so that no pointer is NULL.                      *)
AllocatedSize(first_id, last_id) ==
  IF first_id = SYMBOL_ID_NONE THEN 1 ELSE last_id - first_id + 1

full_symbol_includes_id(l, id) == id >= l.first_id /\ id <= l.last_id

(* full_symbol_get_coef on the array.                                      *)
GetCoef(l, id) == IF full_symbol_includes_id(l, id) THEN l.coef[id - l.first_id] ELSE Zero

IsZero(l) == l.first_nonzero_id = SYMBOL_ID_NONE

HasOneId(l) == ~IsZero(l) /\ l.first_nonzero_id = l.last_nonzero_id

Payload(l) == [c \in Ids |-> IF c < l.data_size THEN l.data[c] ELSE Zero]

Abs(l) == [coef |-> [c \in Ids |-> GetCoef(l, c)], data |-> Payload(l)]

-------------------------------------------------------------------------------
(* The identifiers that have a nonzero entry.                              *)
NonzeroEntries(l) == {id \in l.first_id .. l.last_id : l.coef[id - l.first_id] # Zero}

(***************************************************************************)
(* full_symbol_adjust_min_max_coef: the first loop looks upwards from      *)
(* first_id, the second downwards from last_id, over no entry at all when  *)
(* the first found none.                                                   *)
(***************************************************************************)
AdjustMinMax(l) ==
  IF l.first_id = SYMBOL_ID_NONE \/ NonzeroEntries(l) = {}
  THEN [l EXCEPT !.first_nonzero_id = SYMBOL_ID_NONE, !.last_nonzero_id = SYMBOL_ID_NONE]
  ELSE [l EXCEPT !.first_nonzero_id = Min(NonzeroEntries(l)),
                 !.last_nonzero_id = Max(NonzeroEntries(l))]

(* Its assertions, those of full_symbol_adjust_min_coef included.          *)
AdjustAsserts(first_id, last_id) ==
  first_id = SYMBOL_ID_NONE <=> last_id = SYMBOL_ID_NONE

(* full_symbol_alloc: calloc clears both arrays.                           *)
Alloc(first_id, last_id, data_size) ==
  AdjustMinMax(
    [first_id |-> first_id, last_id |-> last_id,
     coef |-> [k \in 0 .. AllocatedSize(first_id, last_id) - 1 |-> Zero],
     first_nonzero_id |-> 0, last_nonzero_id |-> 0,
     data_size |-> data_size,
     data |-> [k \in 0 .. data_size - 1 |-> Zero]])

AllocAsserts(first_id, last_id) ==
  /\ first_id # SYMBOL_ID_NONE => first_id <= last_id
  /\ AdjustAsserts(first_id, last_id)

(* full_symbol_create_from_source.                                         *)
CreateFromSource(id, bytes, data_size) ==
  AdjustMinMax([Alloc(id, id, data_size) EXCEPT !.coef[0] = One, !.data = bytes])

(* full_symbol_create: the sum is a uint32_t.                              *)
LastCreated(min, nb) == (min + nb - 1) % IdSpan

Create(coefs, min, nb, bytes, data_size) ==
  AdjustMinMax([Alloc(min, LastCreated(min, nb), data_size) EXCEPT
                  !.coef = [k \in 0 .. nb - 1 |-> coefs[k]], !.data = bytes])

(* Mutant: the payload is not copied.                                      *)
CloneHeader(l) ==
  LET new == Alloc(l.first_id, l.last_id, l.data_size)
  IN  [new EXCEPT !.first_nonzero_id = l.first_nonzero_id,
                  !.last_nonzero_id = l.last_nonzero_id,
                  !.coef = IF IsZero(l) THEN @ ELSE l.coef]

(* full_symbol_clone: the arrays of a zero symbol are not copied.          *)
Clone(l) ==
  LET new == Alloc(l.first_id, l.last_id, l.data_size)
  IN  [new EXCEPT !.first_nonzero_id = l.first_nonzero_id,
                  !.last_nonzero_id = l.last_nonzero_id,
                  !.coef = IF IsZero(l) THEN @ ELSE l.coef,
                  !.data = IF IsZero(l) THEN @ ELSE l.data]

CloneAsserts(l) == AllocAsserts(l.first_id, l.last_id)

(* full_symbol_scale, in place; the bounds are found again because a zero  *)
(* factor clears the symbol.                                               *)
Scale(l, a) ==
  IF IsZero(l) THEN l
  ELSE AdjustMinMax(
         [l EXCEPT !.coef = [k \in DOMAIN l.coef |-> gf256_mul(a, l.coef[k])],
                   !.data = [k \in DOMAIN l.data |-> gf256_mul(a, l.data[k])]])

(* Nothing is asserted of a symbol without identifiers or coefficients.    *)
ScaleAsserts(l) ==
  \/ l.first_id = SYMBOL_ID_NONE \/ IsZero(l)
  \/ /\ l.last_nonzero_id # SYMBOL_ID_NONE
     /\ AdjustAsserts(l.first_id, l.last_id)

-------------------------------------------------------------------------------
Smaller(a, b) == IF a <= b THEN a ELSE b

Larger(a, b) == IF a >= b THEN a ELSE b

(* The identifiers a sum extends over.                                     *)
FirstCoef(l1, l2) == Smaller(l1.first_nonzero_id, l2.first_nonzero_id)

(* Mutant: the result ends where the first operand does.                   *)
LastOfFirst(l1, l2) == l1.last_nonzero_id

LastCoef(l1, l2) == Larger(l1.last_nonzero_id, l2.last_nonzero_id)

(* Byte k of the sum of two payloads, of which one may be shorter.         *)
ByteSum(l1, l2, k) ==
  IF k < l1.data_size /\ k < l2.data_size THEN gf256_add(l1.data[k], l2.data[k])
  ELSE IF k < l1.data_size THEN l1.data[k]
  ELSE IF k < l2.data_size THEN l2.data[k]
  ELSE Zero

(* Mutant: the bounds of the sum taken for those of its operands.          *)
AddBaseUnadjusted(l1, l2, result) ==
  [result EXCEPT
     !.first_nonzero_id = Smaller(l1.first_nonzero_id, l2.first_nonzero_id),
     !.last_nonzero_id = Larger(l1.last_nonzero_id, l2.last_nonzero_id),
     !.coef = [k \in DOMAIN result.coef |->
                 gf256_add(GetCoef(l1, k + result.first_id),
                           GetCoef(l2, k + result.first_id))],
     !.data = [k \in DOMAIN result.data |-> ByteSum(l1, l2, k)]]

(* full_symbol_add_base, into the arrays of `result'.                      *)
AddBase(l1, l2, result) ==
  LET first == Smaller(l1.first_nonzero_id, l2.first_nonzero_id)
      last  == Larger(l1.last_nonzero_id, l2.last_nonzero_id)
  IN  AdjustMinMax(
        [result EXCEPT
           !.coef = [k \in DOMAIN result.coef |->
                       IF k + result.first_id \in first .. last
                       THEN gf256_add(GetCoef(l1, k + result.first_id),
                                      GetCoef(l2, k + result.first_id))
                       ELSE Zero],
           !.data = [k \in DOMAIN result.data |-> ByteSum(l1, l2, k)]])

AddBaseAsserts(l1, l2, result) ==
  /\ result.data_size >= l1.data_size /\ result.data_size >= l2.data_size
  /\ \A l \in {l1, l2} :
       /\ full_symbol_includes_id(result, l.first_nonzero_id)
       /\ full_symbol_includes_id(result, l.last_nonzero_id)
  /\ AdjustAsserts(result.first_id, result.last_id)

(* full_symbol_add: the sum of two nonzero symbols gets an array that just *)
(* holds it; of a zero operand nothing is read, its payload included.      *)
SumArray(l1, l2) ==
  Alloc(FirstCoef(l1, l2), LastCoef(l1, l2), Larger(l1.data_size, l2.data_size))

Add(l1, l2) ==
  IF IsZero(l1) /\ IsZero(l2) THEN Alloc(SYMBOL_ID_NONE, SYMBOL_ID_NONE, 0)
  ELSE IF IsZero(l1) THEN Clone(l2)
  ELSE IF IsZero(l2) THEN Clone(l1)
  ELSE AddBase(l1, l2, SumArray(l1, l2))

AddAsserts(l1, l2) ==
  IF IsZero(l1) /\ IsZero(l2) THEN TRUE
  ELSE IF IsZero(l1) THEN CloneAsserts(l2)
  ELSE IF IsZero(l2) THEN CloneAsserts(l1)
  ELSE /\ AllocAsserts(FirstCoef(l1, l2), LastCoef(l1, l2))
       /\ AddBaseAsserts(l1, l2, SumArray(l1, l2))

-------------------------------------------------------------------------------
(* The layouts a symbol may have.                                          *)
Layouts ==
  [first_id : Ids \union {SYMBOL_ID_NONE}, last_id : Ids \union {SYMBOL_ID_NONE},
   coef : UNION {ArrayOf(n) : n \in 1 .. MaxId + 1},
   first_nonzero_id : Ids \union {SYMBOL_ID_NONE},
   last_nonzero_id : Ids \union {SYMBOL_ID_NONE},
   data_size : 0 .. MaxId + 1,
   data : UNION {ArrayOf(n) : n \in 0 .. MaxId + 1}]

Shaped(l) ==
  /\ l \in Layouts
  /\ AllocAsserts(l.first_id, l.last_id)
  /\ l.coef \in ArrayOf(AllocatedSize(l.first_id, l.last_id))
  /\ l.data \in ArrayOf(l.data_size)

(***************************************************************************)
(* "first_nonzero_id and last_nonzero_id correspond [to] the first and     *)
(* last source symbol indices that have non zero coefficients [...] and    *)
(* these values are maintained after each operation"                       *)
(* (swif_full_symbol_impl.h:32-36).                                        *)
(***************************************************************************)
Tight(l) ==
  /\ l.first_nonzero_id = first_nonzero_id(Abs(l))
  /\ l.last_nonzero_id = last_nonzero_id(Abs(l))
===============================================================================
