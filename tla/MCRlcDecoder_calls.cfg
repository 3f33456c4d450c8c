CONSTANTS
  F <- Bits
  Zero = 0
  One = 1
  gf256_add <- BitAdd
  gf256_mul <- BitMul
  gf256_inv <- BitInv
  MaxId = 1
  IdSpan = 100
  FULL_SYMBOL_SET_INITIAL_SIZE = 2
  NULL = NULL
  symbol_size = 2
  MaxListed = 3
  max_coding_window_size = 1

SPECIFICATION Spec

INVARIANTS WindowTypeOK FirstIsListed EchelonForAnyCalls
CHECK_DEADLOCK FALSE
