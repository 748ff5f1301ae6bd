SPECIFICATION Spec
CONSTANTS
  Sources = {s1}
  Epochs = {e1}
  Nonces = {n1, n2}
  Refreshers = {r1, r2}
  None = None
  Window = 1
  Interval = 2
  Cost = 2
  Credit = 2
  CacheSize = 1
  MaxEpochs = 1
  MaxNow = 3
  MaxStates = 1
  MaxBacks = 0
  MaxBoots = 0
PROPERTY ReplayNeverMovesLastAuth
