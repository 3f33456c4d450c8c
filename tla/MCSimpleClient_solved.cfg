CONSTANTS
  F <- Bits
  Zero = 0
  One = 1
  gf256_add <- BitAdd
  gf256_mul <- BitMul
  gf256_inv <- BitInv
  MaxId = 2
  IdSpan = 100
  FULL_SYMBOL_SET_INITIAL_SIZE = 2
  NULL = NULL
  symbol_size = 3
  MaxListed = 3
  ew_size = 3
  tot_enc = 5

SPECIFICATION Spec

INVARIANT SolvedIsAvailable
CHECK_DEADLOCK FALSE
