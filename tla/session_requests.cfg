SPECIFICATION Spec
CONSTANTS
  Dests = {d1, d2}
  Session = session
  SendTries = 2
  Heartbeats <- BothBeat
  Env = {}
  ClientOps <- RouterAsks
  ClientStatuses = {"Success"}
  MaxQueue = 2
  MaxStream = 2
INVARIANTS
  TransactionModel
  
