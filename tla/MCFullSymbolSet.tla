--------------------------- MODULE MCFullSymbolSet ---------------------------
(* Fields for the model checking of the linear system.                     *)
EXTENDS FullSymbolSet, Bitwise, Sequences

(* GF(2).                                                                  *)
Bits == {0, 1}
BitAdd(a, b) == (a + b) % 2
BitMul(a, b) == a * b
BitInv(a) == a

(* GF(4): 2 and 3 are the roots of x^2 + x + 1.                            *)
Quads == 0 .. 3
QuadAdd(a, b) == a ^^ b
QuadMul(a, b) ==
  IF a = 0 \/ b = 0 THEN 0 ELSE 1 + ((a + b - 2) % 3)
QuadInv(a) == IF a = 0 THEN 0 ELSE 1 + ((4 - a) % 3)
==============================================================================
