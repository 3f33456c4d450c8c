------------------------- MODULE MCCodingCoefficients -------------------------
(* Keys for the model checking of the coefficients: the second value drawn *)
(* from 439 is zero, and so is the first one drawn from 36729; the last    *)
(* one is equal to 439 in sixteen bits.                                    *)
EXTENDS CodingCoefficients

SomeKeys == {36729, 2^16 + 439}
===============================================================================
