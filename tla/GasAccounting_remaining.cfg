SPECIFICATION Spec
CONSTANTS
  Word = 16
  GasLimits <- Limits
  Amounts <- Costs
  Lengths <- Sizes
  Numerator = 3
  Denominator = 2
  MaxDepth = 2
  MaxMeter = 8
INVARIANT RemainingIsLeft
\* The meter may be used up.
CHECK_DEADLOCK FALSE
