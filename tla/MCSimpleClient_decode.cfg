CONSTANTS
  F <- Bits
  Zero = 0
  One = 1
  gf256_add <- BitAdd
  gf256_mul <- BitMul
  gf256_inv <- BitInv
  MaxId = 2
  IdSpan = 100
  FULL_SYMBOL_SET_INITIAL_SIZE = 2
  NULL = NULL
  symbol_size = 2
  MaxListed = 4
  ew_size = 2
  tot_enc = 5

SPECIFICATION Spec

INVARIANTS TypeOK NoFault AvailableIsKnown
PROPERTIES ImplementsLinearSystem PacketsAreHandled
CHECK_DEADLOCK FALSE
