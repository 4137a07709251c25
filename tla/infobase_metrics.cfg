SPECIFICATION Spec
CONSTANTS
  a1 = a1
  a2 = a2
  k1 = k1
  Modems = {m1}
  Dests = {d1}
  Addrs = {a1, a2}
  Metrics = {k1}
  Values = {0, 1}
  Absent = absent
  Session = session
  Updates <- MCUpdates
  MaxQueue = 3
  MaxCalls = 4
CHECK_DEADLOCK FALSE
INVARIANT MetricsDeclared
