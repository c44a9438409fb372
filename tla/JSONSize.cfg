SPECIFICATION Spec
CONSTANTS
  Nil = Nil
  MinInt <- MCMinInt
  Measured <- MCMeasured
INVARIANT SizesAreExact
CHECK_DEADLOCK FALSE
