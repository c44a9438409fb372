SPECIFICATION FairSpec
CONSTANTS
  g1 = g1
  g2 = g2
  Goroutines = {g1, g2}
  MaxDepth = 2
  MaxCallID = 3
  FrameLenLimit = 2
  MaxInt32 = 2
  GasLimit = 2
  MaxIterators = 4
  Items = 1
PROPERTIES StoredIteratorsClosed CallsEnd
INVARIANT NoIteratorLeak
CHECK_DEADLOCK FALSE
