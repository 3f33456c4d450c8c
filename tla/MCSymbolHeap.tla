----------------------------- MODULE MCSymbolHeap -----------------------------
(* A field for the model checking of the linear system in memory.           *)
EXTENDS SymbolHeap

(* GF(2).                                                                  *)
Bits == {0, 1}
BitAdd(a, b) == (a + b) % 2
BitMul(a, b) == a * b
BitInv(a) == a

(* A window that leaves out the last symbol.                               *)
FirstThree == {[min |-> 0, nb |-> 3]}
===============================================================================
