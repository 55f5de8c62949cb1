SPECIFICATION Spec
CONSTANTS
  c1 = c1
  c2 = c2
  k1 = k1
  r1 = r1
  l1 = l1
  Calls = {c1, c2, k1}
  Kind <- MCKind
  Senders = {}
  Beats = {ping}
  None = None
CHECK_DEADLOCK FALSE
INVARIANT
  OneHeartbeatLoop
