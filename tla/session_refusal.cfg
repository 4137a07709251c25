SPECIFICATION Spec
CONSTANTS
  Dests = {d1}
  Session = session
  SendTries = 2
  Heartbeats <- BothBeat
  Env = {"empty_request", "no_status", "ip_conflict", "link_loss", "vanish"}
  ClientOps <- BothAct
  ClientStatuses = {"Success", "Not_Interested"}
  MaxQueue = 3
  MaxStream = 1
INVARIANTS
  ViewsAgree
