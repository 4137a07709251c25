SPECIFICATION Spec
CONSTANTS
  Dests = {d1}
  Session = session
  SendTries = 2
  Heartbeats <- BothBeat
  Env = {}
  ClientOps <- ModemUpDown
  ClientStatuses = {"Success", "Not_Interested"}
  MaxQueue = 2
  MaxStream = 1
INVARIANT
  RefusalRespected
