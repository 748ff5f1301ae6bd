SPECIFICATION MCSpec
CONSTANTS
  Sources = {s1}
  Epochs = {e1}
  Nonces = {n1, n2}
  Refreshers = {r1, r2}
  None = None
  Window = 1
  Interval = 2
  Cost = 2
  Credit = 2
  CacheSize = 1
  MaxEpochs = 1
  MaxNow = 3
  MaxStates = 2
  MaxBacks = 1
  MaxBoots = 1
  OnceStates = 1
  ReturnNow = 2
  MaxStamp = 3
SYMMETRY Symmetry
INVARIANTS RateBound DroppedAtOnce NamedSpacing
PROPERTY TakenOnce
