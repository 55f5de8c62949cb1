SPECIFICATION TerminatingSpec
CONSTANTS
  t1 = t1
  t2 = t2
  t3 = t3
  t4 = t4
  Tasks = {t1, t2, t3, t4}
  NoTask = NoTask
  Parent <- MCNested
  Resizers = {r1}
  Sizes <- MCTwo
  Waits = FALSE
  QueueCap = 1
  Half = 4
CHECK_DEADLOCK FALSE
PROPERTIES
  PoolGoesOn
