----------------------------- MODULE GaloisField -----------------------------
(***************************************************************************)
(* The finite field the codec computes in, and the vector operations of    *)
(* swif_symbol.c.                                                          *)
(*                                                                         *)
(* The code works in GF(2^8): addition is XOR (gf256_add in swif_symbol.h) *)
(* and multiplication and inversion are look-ups in the tables of          *)
(* swif_table-mul-gf256.c.  Nothing in the decoder depends on the field    *)
(* having 256 elements, so the field is a parameter, and the assumption    *)
(* below is what the tables must satisfy.  TLC runs with GF(2) and with    *)
(* GF(4), which is a subfield of GF(256); the theorems hold for any field  *)
(* of characteristic 2.                                                    *)
(***************************************************************************)
EXTENDS Integers

CONSTANTS
  F,                (* The field elements: the values of a byte.           *)
  Zero, One,        (* The bytes 0 and 1.                                  *)
  gf256_add(_, _),  (* XOR.                                                *)
  gf256_mul(_, _),  (* The table gf256_mul_table.                          *)
  gf256_inv(_),     (* The table gf256_inv_table.                          *)
  MaxId             (* The largest source symbol identifier in use.        *)

Ids == 0 .. MaxId

ASSUME FieldAssumption ==
  /\ Zero \in F /\ One \in F /\ Zero # One
  /\ \A a, b \in F : gf256_add(a, b) \in F /\ gf256_mul(a, b) \in F
  /\ \A a, b \in F : gf256_add(a, b) = gf256_add(b, a)
  /\ \A a, b, c \in F :
       gf256_add(gf256_add(a, b), c) = gf256_add(a, gf256_add(b, c))
  /\ \A a \in F : gf256_add(a, Zero) = a
  /\ \A a \in F : gf256_add(a, a) = Zero
  /\ \A a, b \in F : gf256_mul(a, b) = gf256_mul(b, a)
  /\ \A a, b, c \in F :
       gf256_mul(gf256_mul(a, b), c) = gf256_mul(a, gf256_mul(b, c))
  /\ \A a \in F : gf256_mul(a, One) = a /\ gf256_mul(a, Zero) = Zero
  /\ \A a, b, c \in F :
       gf256_mul(a, gf256_add(b, c))
         = gf256_add(gf256_mul(a, b), gf256_mul(a, c))
  /\ \A a \in F \ {Zero} :
       gf256_inv(a) \in F /\ gf256_mul(a, gf256_inv(a)) = One

ASSUME MaxIdAssumption == MaxId \in Nat

(***************************************************************************)
(* A vector gives a field element to every source symbol.  It stands both  *)
(* for an encoding header (the coefficients) and for a payload: a payload  *)
(* is represented by the combination of the source payloads it is equal    *)
(* to, because every operation of the codec on payloads is linear.         *)
(***************************************************************************)
Vector == [Ids -> F]

ZeroVector == [c \in Ids |-> Zero]

(* The header of the source symbol of identifier id, and its payload.      *)
UnitVector(id) == [c \in Ids |-> IF c = id THEN One ELSE Zero]

(* symbol_add: byte by byte addition.                                      *)
symbol_add(u, v) == [c \in Ids |-> gf256_add(u[c], v[c])]

(* symbol_mul: every byte times coef; a zero coef clears the result.       *)
symbol_mul(coef, u) == [c \in Ids |-> gf256_mul(coef, u[c])]

(* symbol_add_scaled: u += coef * v.                                       *)
symbol_add_scaled(u, coef, v) ==
  [c \in Ids |-> gf256_add(u[c], gf256_mul(coef, v[c]))]

(* Sets of vectors closed under the operations, and the span of such a set *)
(* and one more vector.                                                    *)
IsSubspace(S) ==
  /\ ZeroVector \in S
  /\ \A u, v \in S : symbol_add(u, v) \in S
  /\ \A u \in S, a \in F : symbol_mul(a, u) \in S

SpanWith(S, v) == {symbol_add_scaled(u, a, v) : u \in S, a \in F}
==============================================================================
