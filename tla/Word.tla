--------------------------------- MODULE Word ---------------------------------
(***************************************************************************)
(* Unsigned machine words, as sets of bit positions: the operators of C on *)
(* uint32_t, whatever the width.  Exclusive or is the symmetric            *)
(* difference, and an addition wraps at the width.                         *)
(***************************************************************************)
EXTENDS FiniteSetsExt, Integers

Positions(width) == 0 .. width - 1

(* The word of a number, and the number of a word.                         *)
ToWord(n, width) == {b \in Positions(width) : (n \div 2^b) % 2 = 1}
ToNumber(x) == MapThenSumSet(LAMBDA b : 2^b, x)

Xor(x, y) == (x \ y) \union (y \ x)

ShiftLeft(x, n, width) == {b + n : b \in x} \intersect Positions(width)
ShiftRight(x, n) == {b - n : b \in {c \in x : c >= n}}

(* A bit is carried into b from a lower one where both words have it, if   *)
(* one of the words has each bit in between.                               *)
Carried(x, y, width) ==
  {b \in Positions(width) :
     \E j \in x \intersect y :
       j < b /\ \A l \in j + 1 .. b - 1 : l \in x \union y}

Plus(x, y, width) == Xor(Xor(x, y), Carried(x, y, width))

(* Long multiplication.                                                    *)
Times(x, y, width) ==
  FoldSet(LAMBDA b, sum : Plus(sum, ShiftLeft(x, b, width), width), {}, y)
===============================================================================
