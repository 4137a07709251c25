SPECIFICATION Spec
CONSTANTS
  Dests = {d1}
  Session = session
  SendTries = 2
  Heartbeats <- ModemBeats
  Env = {"late", "overdue_at_stop", "suppress", "silent", "heartbeats", "link_loss", "vanish"}
  ClientOps <- ModemUpdatesDestinations
  ClientStatuses = {"Success"}
  MaxQueue = 2
  MaxStream = 1
INVARIANTS
  TypeOK
  OnlyHeadSent
  HandshakeOrder
CHECK_DEADLOCK FALSE
