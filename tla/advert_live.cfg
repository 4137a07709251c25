SPECIFICATION FairSpec
CONSTANTS
  d1 = d1
  d2 = d2
  r1 = r1
  RFs = {r1}
  Dests = {d1, d2}
  HomeOf <- BothAtOne
  Metrics <- OneMetric
  Absent = absent
  HoldInterval = 0
  ExpireCount = 0
  SendInterval = 1
  MaxPeers = 2
  MaxAge = 0
  Faults = {"loss", "repeat_up", "restart"}
PROPERTY
  Converges
INVARIANT
  DeclaredTranslated
