-------------------------------- MODULE GF256 ---------------------------------
(***************************************************************************)
(* The field GF(2^8) of the codec: the tables of swif_table-mul-gf256.c    *)
(* and the look-ups of swif_symbol.c.  A byte is the set of its bits.      *)
(*                                                                         *)
(* The 65536 entries of gf256_mul_table are the products of polynomials    *)
(* over GF(2) modulo x^8 + x^4 + x^3 + x^2 + 1 (0x11d); gf256_inv_table is *)
(* copied, entry by entry.                                                 *)
(***************************************************************************)
EXTENDS Word

Bytes == SUBSET Positions(8)

Zero == {}
One == {0}

gf256_add(a, b) == Xor(a, b)

(* x^8 modulo the polynomial.                                              *)
Reduction == {0, 2, 3, 4}

(* The products of a byte and the powers of x.                             *)
TimesX(a) == Xor(ShiftLeft(a, 1, 8), IF 7 \in a THEN Reduction ELSE Zero)

Multiples ==
  [a \in Bytes |->
     LET times[n \in Positions(8)] == IF n = 0 THEN a ELSE TimesX(times[n - 1])
     IN  times]

(* gf256_mul_table: bit b of the product is the sum of the bits b of the   *)
(* multiples of one factor that the other one selects.                     *)
gf256_mul(a, b) ==
  {k \in Positions(8) :
     Cardinality({n \in b : k \in Multiples[a][n]}) % 2 = 1}

(* Row by row, from the inverse of 0, which is given as 0.                  *)
Inverses == <<
    0,   1, 142, 244,  71, 167, 122, 186, 173, 157, 221, 152,  61, 170,  93, 150,
  216, 114, 192,  88, 224,  62,  76, 102, 144, 222,  85, 128, 160, 131,  75,  42,
  108, 237,  57,  81,  96,  86,  44, 138, 112, 208,  31,  74,  38, 139,  51, 110,
   72, 137, 111,  46, 164, 195,  64,  94,  80,  34, 207, 169, 171,  12,  21, 225,
   54,  95, 248, 213, 146,  78, 166,   4,  48, 136,  43,  30,  22, 103,  69, 147,
   56,  35, 104, 140, 129,  26,  37,  97,  19, 193, 203,  99, 151,  14,  55,  65,
   36,  87, 202,  91, 185, 196,  23,  77,  82, 141, 239, 179,  32, 236,  47,  50,
   40, 209,  17, 217, 233, 251, 218, 121, 219, 119,   6, 187, 132, 205, 254, 252,
   27,  84, 161,  29, 124, 204, 228, 176,  73,  49,  39,  45,  83, 105,   2, 245,
   24, 223,  68,  79, 155, 188,  15,  92,  11, 220, 189, 148, 172,   9, 199, 162,
   28, 130, 159, 198,  52, 194,  70,   5, 206,  59,  13,  60, 156,   8, 190, 183,
  135, 229, 238, 107, 235, 242, 191, 175, 197, 100,   7, 123, 149, 154, 174, 182,
   18,  89, 165,  53, 101, 184, 163, 158, 210, 247,  98,  90, 133, 125, 168,  58,
   41, 113, 200, 246, 249,  67, 215, 214,  16, 115, 118, 120, 153,  10,  25, 145,
   20,  63, 230, 240, 134, 177, 226, 241, 250, 116, 243, 180, 109,  33, 178, 106,
  227, 231, 181, 234,   3, 143, 211, 201,  66, 212, 232, 117, 127, 255, 126, 253>>

gf256_inv_table == [a \in Bytes |-> ToWord(Inverses[ToNumber(a) + 1], 8)]

gf256_inv(a) == gf256_inv_table[a]

(* A division by 0 gives 0.                                                *)
gf256_div(a, b) == gf256_mul(a, gf256_inv(b))

(***************************************************************************)
(* What module GaloisField assumes of the field.  By its definition the    *)
(* product distributes over the sum of its second factors, so that         *)
(* commutativity and associativity need only be looked at where all but    *)
(* one factor are powers of x.                                             *)
(***************************************************************************)
ASSUME TablesAreAField ==
  LET Monomials == {{b} : b \in Positions(8)}
  IN  /\ \A a \in Bytes, b \in Monomials :
           /\ gf256_mul(a, b) = gf256_mul(b, a)
           /\ \A c \in Monomials :
                gf256_mul(a, gf256_mul(b, c)) = gf256_mul(gf256_mul(a, b), c)
      /\ \A a \in Bytes, b, c \in Monomials :
           gf256_mul(gf256_add(a, b), c)
             = gf256_add(gf256_mul(a, c), gf256_mul(b, c))
      /\ \A a \in Bytes : gf256_mul(a, One) = a /\ gf256_mul(a, Zero) = Zero
      /\ \A a \in Bytes \ {Zero} : gf256_mul(a, gf256_inv(a)) = One

(* Every product divided by its first factor is the second one.            *)
ASSUME DivisionAssumption ==
  \A a \in Bytes \ {Zero}, b \in Bytes : gf256_div(gf256_mul(a, b), a) = b
===============================================================================
