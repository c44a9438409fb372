SPECIFICATION Spec
CONSTANTS
  g1 = g1
  g2 = g2
  Goroutines = {g1, g2}
  MaxDepth = 2
  MaxCallID = 3
  FrameLenLimit = 1
  MaxInt32 = 2
  GasLimit = 3
  MaxIterators = 4
  Items = 1
SYMMETRY GoroutineSymmetry
INVARIANT NoIteratorLeak
CHECK_DEADLOCK FALSE
