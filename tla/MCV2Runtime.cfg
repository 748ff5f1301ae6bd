SPECIFICATION Spec
CONSTANTS
  Invocations = {i1, i2}
  Callers = {c1, c2}
  Writers = {w1}
  None = None
  MaxID = 2
  MaxStray = 1
  MaxInvocations = 2
  MaxChunks = 1
SYMMETRY Symmetry
INVARIANTS NoLateFrames CallIDsIncrease OwnAnswer SingleReader AbandonedNeverCompletes
PROPERTIES StreamImplemented NoCallAfterAbandoned
