------------------------------ MODULE FullSymbol ------------------------------
(***************************************************************************)
(* A full symbol (swif_full_symbol_t): an encoding header together with    *)
(* the payload it describes, and the operations of swif_full_symbol_impl.c *)
(* on it.  The arrays of the code cover [first_id, last_id]; here a header *)
(* is defined on every identifier and is zero outside that range, which is *)
(* what full_symbol_get_coef returns there.                                *)
(***************************************************************************)
EXTENDS GaloisField, FiniteSetsExt

CONSTANT
  IdSpan   (* The number of values of a symbol_id_t: 2^32 in the code.     *)

ASSUME IdSpanAssumption == IdSpan \in Nat /\ MaxId < IdSpan - 1

(* The reserved identifier, the largest one (0xffffffff).                  *)
SYMBOL_ID_NONE == IdSpan - 1

FullSymbols == [coef : Vector, data : Vector]

full_symbol_get_coef(s, id) == s.coef[id]

NonzeroIds(s) == {c \in Ids : s.coef[c] # Zero}

(* first_nonzero_id and last_nonzero_id, as adjust_min_max_coef leaves     *)
(* them after every operation.                                             *)
first_nonzero_id(s) ==
  IF NonzeroIds(s) = {} THEN SYMBOL_ID_NONE ELSE Min(NonzeroIds(s))

last_nonzero_id(s) ==
  IF NonzeroIds(s) = {} THEN SYMBOL_ID_NONE ELSE Max(NonzeroIds(s))

full_symbol_is_zero(s) == first_nonzero_id(s) = SYMBOL_ID_NONE

(* Mutant: a zero symbol, whose two bounds are equal too, is let through.  *)
HasOneIdOrNone(s) == first_nonzero_id(s) = last_nonzero_id(s)

full_symbol_has_one_id(s) ==
  /\ ~full_symbol_is_zero(s)
  /\ first_nonzero_id(s) = last_nonzero_id(s)

(* full_symbol_alloc: no coefficient and a cleared payload.                *)
ZeroSymbol == [coef |-> ZeroVector, data |-> ZeroVector]

(* A clone of a zero symbol copies nothing, so its payload is cleared.     *)
full_symbol_clone(s) == IF full_symbol_is_zero(s) THEN ZeroSymbol ELSE s

(* Mutant: the payload is not scaled.                                      *)
ScaleHeader(s, a) == [coef |-> symbol_mul(a, s.coef), data |-> s.data]

(* A zero symbol is left as it is, otherwise header and payload scale.     *)
full_symbol_scale(s, a) ==
  IF full_symbol_is_zero(s)
  THEN s
  ELSE [coef |-> symbol_mul(a, s.coef), data |-> symbol_mul(a, s.data)]

(* The sum; a zero operand is skipped altogether, payload included.        *)
full_symbol_add(s, t) ==
  IF full_symbol_is_zero(s)
  THEN full_symbol_clone(t)
  ELSE IF full_symbol_is_zero(t)
       THEN s
       ELSE [coef |-> symbol_add(s.coef, t.coef),
             data |-> symbol_add(s.data, t.data)]

(* full_symbol_create_from_source: the symbol of a received source packet. *)
full_symbol_create_from_source(id, data) ==
  [coef |-> UnitVector(id), data |-> data]
===============================================================================
