SPECIFICATION FairSpec
CONSTANTS
  MaxN = 6
  Block = 2
  Threshold = 4
  Workers = {main, w1, w2}
  Main = main
  None = None
INVARIANTS TypeOK CalledOnce EndsAsLoop
PROPERTIES StopsTaking Terminates
