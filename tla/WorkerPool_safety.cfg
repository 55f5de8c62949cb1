SPECIFICATION Spec
CONSTANTS
  t1 = t1
  t2 = t2
  t3 = t3
  t4 = t4
  Tasks = {t1, t2, t3}
  NoTask = NoTask
  Parent <- MCFlat
  Resizers = {r1}
  Sizes <- MCSizes
  Waits = TRUE
  QueueCap = 2
  Half = 4
SYMMETRY MCSymmetry
CHECK_DEADLOCK FALSE
INVARIANTS
  TypeOK
  ShrinkOvershootsByOne
  NeverParkedIdle
PROPERTY
  KeepsPromise
