SPECIFICATION LibrarySpec
CONSTANTS
  o1 = o1
  m1 = m1
  x1 = x1
  Proxies = {p1, p2}
  Requests = {q1, q2}
  MaxJars = 2
  Hosts <- MCHosts
  Home = "a"
  Within <- MCWithin
  Opaque = {"::1"}
  Limits <- MCLimits
  MaxHops = 3
  Targets <- MCTargets
  Origin <- MCOrigin
  Site <- MCSite
  Https <- MCHttps
  Loopback = {"http://localhost"}
  NoURL = NoURL
  Callers = {c1, c2}
  Pools = {w1, w2, w3}
  NoPool = NoPool
  Sizes = {0, 1, 2}
  Writers = {f1, f2, f3}
  NoWriter = NoWriter
  Dirs = {d1, d2}
  NoDir = NoDir
  Gets = {o1, m1, x1}
  Kind <- MCKind
  URLs = {u, v}
  Counts = {0, 5, 9}
  DefaultCount = 5
  None = None
CHECK_DEADLOCK FALSE
INVARIANTS
  PartsTypeOK
  ClearedStaysCleared
  CookiesTellTrue
  HeadersTellTrue
  DefaultsInOrder
PROPERTIES
  FollowsPolicy
  PlainFollowsPolicy
