SPECIFICATION Spec
CONSTANTS
  g1 = g1
  g2 = g2
  Goroutines = {g1, g2}
  MaxDepth = 2
  MaxCallID = 3
  FrameLenLimit = 2
  MaxInt32 = 2
  GasLimit = 3
  MaxIterators = 4
  Items = 1
INVARIANTS TypeOK HandlesResolve NoUseAfterClose ClosedOnce FramesReleased
PROPERTY CursorsArePrivate
CHECK_DEADLOCK FALSE
