CONSTANTS
  F <- Bits
  Zero = 0
  One = 1
  gf256_add <- BitAdd
  gf256_mul <- BitMul
  gf256_inv <- BitInv
  MaxId = 2
  IdSpan = 100
  FULL_SYMBOL_SET_INITIAL_SIZE = 2
  NULL = NULL

SPECIFICATION Spec

INVARIANT LentBufferStays
CHECK_DEADLOCK FALSE
