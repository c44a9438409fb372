SPECIFICATION Spec
CONSTANTS
  c1 = c1
  c2 = c2
  i1 = i1
  i2 = i2
  v1 = v1
  v2 = v2
  Nil = Nil
  Empty = Empty
  Clients = {c1, c2}
  Iters = {i1}
  Keys = {1, 2}
  Values = {v1, v2}
  Bounds = {Nil, Empty, 1, 2}
  chBufferSize = 1
INVARIANT TypeOK
PROPERTIES IteratorsAreSnapshots TreeIsStable
CHECK_DEADLOCK FALSE
