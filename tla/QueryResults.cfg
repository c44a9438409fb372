SPECIFICATION Spec
CONSTANTS
  d1 = d1
  d2 = d2
  t1 = t1
  t2 = t2
  Data = {d1, d2}
  Texts = {t1, t2}
  Depth = 3
  Nil = Nil
  Absent = Absent
  Empty = Empty
INVARIANTS FailuresArrive AnswersArriveUnchanged SystemErrorsArrive
