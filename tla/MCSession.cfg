CONSTANTS
  F <- Bits
  Zero = 0
  One = 1
  gf256_add <- BitAdd
  gf256_mul <- BitMul
  gf256_inv <- BitInv
  MaxId = 2
  IdSpan = 100
  NssSpan = 4
  FULL_SYMBOL_SET_INITIAL_SIZE = 2
  NULL = NULL
  symbol_size = 3
  MaxListed = 4
  ew_size = 2
  tot_enc = 5
  MaxInFlight = 3
  full_density = FALSE

SPECIFICATION SessionSpec

INVARIANTS ServerTypeOK ScheduleFits NeverRefused DeterminedIsAvailable CleanupFreesPackets
PROPERTIES DecodedIsRead SessionEnds
CHECK_DEADLOCK FALSE
