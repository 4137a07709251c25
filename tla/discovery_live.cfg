SPECIFICATION FairSpec
CONSTANTS
  Routers = {r1, r2}
  Modems = {m1}
  Ids = {c1, c2}
  NoConn = none
  Failing = {r1}
  Faults = {"loss", "connect_error", "vanish"}
INVARIANT
  NoStaleEntry
PROPERTY
  ModemDiscovered
