SPECIFICATION FairSpec
CONSTANTS
  Invocations = {i1}
  Callers = {c1, c2}
  Writers = {w1}
  None = None
  MaxID = 2
  MaxStray = 0
  MaxInvocations = 1
  MaxChunks = 1
PROPERTIES CancelUnblocks InvocationEnds
