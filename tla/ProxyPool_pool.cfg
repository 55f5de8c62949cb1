SPECIFICATION FairSpec
CONSTANTS
  a = a
  Items = {i1, i2}
  Addrs = {a}
  Gets = {g1}
  Refreshes = {r1}
  Holders = {h1}
  Answers <- Single
  Limits = {1}
  MinSizes = {2}
  None = None
CHECK_DEADLOCK FALSE
INVARIANTS
  ListIsSound
  UsesWithinLimit
PROPERTIES
  GrantsFromPool
  CallsReturn
