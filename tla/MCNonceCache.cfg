SPECIFICATION Spec
CONSTANTS
  Nonces = {n1, n2, n3, n4}
  None = None
  CacheSize = 3
  SlotsMin = 2
  SlotsMax = 8
  Hashes = {0, 1, 7}
  MaxNow = 4
SYMMETRY Symmetry
INVARIANT TableSound
PROPERTY SetImplemented
