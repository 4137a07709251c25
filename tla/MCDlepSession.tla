--------------------------- MODULE MCDlepSession ---------------------------
(* Instances of DlepSession for TLC.                                        *)
EXTENDS DlepSession

\* Both ends have a positive heartbeat-interval; only the modem has.
BothBeat == [modem \in BOOLEAN |-> TRUE]
ModemBeats == [modem \in BOOLEAN |-> modem]

\* The modem's client brings destinations up and down and may end the
\* process, the router's client may end the process.
ModemDrives ==
  [modem  |-> {"destination_up", "destination_down", "terminate"},
   router |-> {"terminate"}]

\* The router's client announces destinations and asks for their link
\* characteristics, the modem's client answers; both update the session.
RouterAsks ==
  [modem  |-> {"destination_up", "peer_update", "linkchar_reply"},
   router |-> {"destination_up", "peer_update", "linkchar_request"}]

\* The modem's client brings destinations up and down, for as long as the
\* session lasts.
ModemUpDown ==
  [modem |-> {"destination_up", "destination_down"}, router |-> {}]

\* The modem's client changes its destinations and answers
\* what the router's client asks; either may end its process.
BothAct ==
  [modem  |-> ServiceCalls \ {"linkchar_request", "peer_update"},
   router |-> {"linkchar_request", "terminate"}]

\* The modem's client brings destinations up and updates them.
ModemUpdatesDestinations ==
  [modem |-> {"destination_up", "destination_update"}, router |-> {}]

=============================================================================
