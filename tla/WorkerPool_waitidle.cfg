SPECIFICATION Spec
CONSTANTS
  t1 = t1
  t2 = t2
  t3 = t3
  t4 = t4
  Tasks = {t1, t2}
  NoTask = NoTask
  Parent <- MCFlat
  Resizers = {}
  Sizes <- MCOne
  Waits = TRUE
  QueueCap = 2
  Half = 4
CHECK_DEADLOCK FALSE
INVARIANT
  WaitIdleCompletes
