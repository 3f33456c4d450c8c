----------------------------- MODULE MCRlcEncoder -----------------------------
(* The field GF(2) for the model checking of the encoder.                  *)
EXTENDS RlcEncoder

Bits == {0, 1}
BitAdd(a, b) == (a + b) % 2
BitMul(a, b) == a * b
BitInv(a) == a
===============================================================================
