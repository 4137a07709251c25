SPECIFICATION FairSpec
CONSTANTS
  Dests = {d1}
  Session = session
  SendTries = 2
  Heartbeats <- BothBeat
  Env = {"silent", "heartbeats", "link_loss", "ip_conflict", "vanish", "invalid"}
  ClientOps <- ModemDrives
  ClientStatuses = {"Success"}
  MaxQueue = 3
  MaxStream = 1
PROPERTIES
  QueuesServed
  TerminationPropagates
  HandshakeDecided
