SPECIFICATION Spec
CONSTANTS
  Keys <- SomeKeys
  Densities = {7, 15}
  BadDensity = 16
  MaxWindow = 5
  Windows = {3, 5}
  MaxDraws = 16
  NssBits = 2
  NULL = NULL
INVARIANT TypeOK
INVARIANT EndsAgree
INVARIANT FullDensityInvertible
PROPERTY CallsEnd
