SPECIFICATION Spec
CONSTANTS
  d1 = d1
  d2 = d2
  r1 = r1
  RFs = {r1}
  Dests = {d1, d2}
  HomeOf <- BothAtOne
  Metrics <- SomeMetrics
  Absent = absent
  HoldInterval = 0
  ExpireCount = 2
  SendInterval = 1
  MaxPeers = 2
  MaxAge = 2
  Faults = {"loss", "restart", "send_error", "repeat_up"}
INVARIANTS
  TypeOK
  NothingLeftBehind
