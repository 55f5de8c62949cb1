SPECIFICATION Spec
CONSTANTS
  a1 = a1
  a2 = a2
  a3 = a3
  Appends = {a1, a3}
  KeyOf <- MCKeyOf
  Closers = {}
  Setters = {s1}
  DirOf <- MCDirOf
  Dir0 = "old"
  None = None
CHECK_DEADLOCK FALSE
INVARIANT
  NoAppendLosesItsHandle
