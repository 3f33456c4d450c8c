CONSTANTS
  F <- Bits
  Zero = 0
  One = 1
  gf256_add <- BitAdd
  gf256_mul <- BitMul
  gf256_inv <- BitInv
  MaxId = 8
  EsiSpan = 100
  max_coding_window_size = 3
  NULL = NULL

SPECIFICATION Spec

INVARIANTS TypeOK IInv WindowContents InformationIsWindow
PROPERTIES RepairWithinWindow RepairUntilSlide ImplementsCodingWindow
