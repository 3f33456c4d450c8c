CONSTANTS
  F <- Bits
  Zero = 0
  One = 1
  gf256_add <- BitAdd
  gf256_mul <- BitMul
  gf256_inv <- BitInv
  MaxId = 3
  IdSpan = 100
  FULL_SYMBOL_SET_INITIAL_SIZE = 2
  NULL = NULL
  Sources = {0, 1, 2, 3}
  Windows <- FirstThree

SPECIFICATION Spec

INVARIANTS TypeOK AssertionsHold BoundsAreTight OnlyRowsRemain
PROPERTIES ImplementsFullSymbolSet
CHECK_DEADLOCK FALSE
