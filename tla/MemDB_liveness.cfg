SPECIFICATION FairSpec
CONSTANTS
  c1 = c1
  c2 = c2
  i1 = i1
  i2 = i2
  v2 = v2
  v1 = v1
  Nil = Nil
  Empty = Empty
  Clients = {c1, c2}
  Iters = {i1}
  Keys = {1, 2, 3}
  Values = {v1}
  Bounds = {Nil}
  chBufferSize = 1
PROPERTIES OperationsReturn DeadlocksStay
CHECK_DEADLOCK FALSE
