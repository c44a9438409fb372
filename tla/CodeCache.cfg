SPECIFICATION Spec
CONSTANTS
  short = short
  long = long
  bad = bad
  Codes = {short, long, bad}
  Valid = {short, long}
  CodeLen <- MCCodeLen
  CostPerByte = 3
  GasLimits = {2, 3, 6}
  ChecksumLen = 2
  MaxList = 2
  Nil = Nil
INVARIANTS OnlyPaidCodesStored StoredCodesStay SyncPinsList
