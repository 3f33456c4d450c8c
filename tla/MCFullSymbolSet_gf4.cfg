CONSTANTS
  F <- Quads
  Zero = 0
  One = 1
  gf256_add <- QuadAdd
  gf256_mul <- QuadMul
  gf256_inv <- QuadInv
  MaxId = 2
  IdSpan = 100
  FULL_SYMBOL_SET_INITIAL_SIZE = 1
  NULL = NULL

SPECIFICATION Spec

INVARIANTS ReducedEchelon Sound Complete
CHECK_DEADLOCK FALSE
