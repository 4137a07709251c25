-------------------------------- MODULE Peer --------------------------------
(***************************************************************************)
(* One end of a DLEP session: the class Peer of Peer.cpp, together with    *)
(* the destination bookkeeping of InfoBaseMgr.cpp that it works on.        *)
(*                                                                         *)
(* An endpoint is a record.  Every member function of the class is an      *)
(* operator that maps the endpoint before the call to the endpoint after   *)
(* it; the messages the call hands to the socket are appended to the field *)
(* "out", which the composing module moves to the TCP stream.  All of the  *)
(* code modelled here runs under dlep->mutex, so a handler is one step.    *)
(*                                                                         *)
(* Data items are abstracted: what the handlers decide from them (whether  *)
(* the message validates, whether its IP addresses are consistent, which   *)
(* status the client returns, ...) is an input record "c", see Inputs.     *)
(* The protocol configuration is that of dlep-rfc-8175.xml.                *)
(***************************************************************************)
EXTENDS Naturals, Sequences, FiniteSets, SequencesExt

CONSTANTS Dests,       \* the MAC addresses of destinations
          Session,     \* names the session-level queue (an empty DlepMac)
          SendTries,   \* the config parameter send-tries
          Heartbeats   \* Heartbeats[modem]: is heartbeat-interval positive?

ASSUME DestsAssumption == IsFiniteSet(Dests) /\ Session \notin Dests
ASSUME SendTriesAssumption == SendTries \in Nat \ {0}
ASSUME HeartbeatsAssumption == Heartbeats \in [BOOLEAN -> BOOLEAN]

-----------------------------------------------------------------------------
(* Messages and the static part of the protocol configuration.             *)

\* The response each request is answered with (element <response> of the
\* protocol configuration; ResponsePending::response_id).
ResponseTo ==
  [Session_Initialization       |-> "Session_Initialization_Response",
   Session_Update               |-> "Session_Update_Response",
   Session_Termination          |-> "Session_Termination_Response",
   Destination_Up               |-> "Destination_Up_Response",
   Destination_Announce         |-> "Destination_Announce_Response",
   Destination_Down             |-> "Destination_Down_Response",
   Link_Characteristics_Request |-> "Link_Characteristics_Response"]

Requests == DOMAIN ResponseTo

Responses ==
  {"Session_Initialization_Response", "Session_Update_Response",
   "Session_Termination_Response", "Destination_Up_Response",
   "Destination_Announce_Response", "Destination_Down_Response",
   "Link_Characteristics_Response"}

\* Element <sender> of the protocol configuration, for the messages that only
\* one side may send.
ModemOnly ==
  {"Session_Initialization_Response", "Destination_Up", "Destination_Update",
   "Destination_Announce_Response", "Link_Characteristics_Response"}

RouterOnly ==
  {"Session_Initialization", "Destination_Up_Response",
   "Destination_Announce", "Link_Characteristics_Request"}

Unacknowledged == {"Destination_Update", "Heartbeat", "EOF"}

MessageTypes == Requests \cup Responses \cup Unacknowledged

\* Status codes that messages carry; "none" is the absence of the data item.
Statuses ==
  {"none", "Success", "Not_Interested", "Request_Denied", "Invalid_Data"}

\* Status codes whose <failure_mode> is terminate.
TerminateStatuses == {"Invalid_Data"}

\* ProtocolMessage::add_status: RFC 8175 has no Invalid_Message, the code
\* falls back to Invalid_Data.
add_status(s) == IF s = "Invalid_Message" THEN "Invalid_Data" ELSE s

Queues == Dests \cup {Session}

\* The messages that carry a MAC address, and so belong to a destination.
DestinationTypes ==
  {"Destination_Up", "Destination_Up_Response", "Destination_Announce",
   "Destination_Announce_Response", "Destination_Update", "Destination_Down",
   "Destination_Down_Response", "Link_Characteristics_Request",
   "Link_Characteristics_Response"}

Message ==
  {m \in [type : MessageTypes, dest : Queues, status : Statuses] :
     m.type \in DestinationTypes <=> m.dest \in Dests}

Msg(t, q, s) == [type |-> t, dest |-> q, status |-> s]

-----------------------------------------------------------------------------
(* The endpoint.                                                           *)

\* PeerState, plus "connecting": the TCP connection exists, but
\* Dlep::handle_async_make_peer has not run on this side yet.
PeerStates ==
  {"nonexistent", "connecting", "connected", "in_session", "terminating"}

\* A ResponsePending; its destination is the queue it is on.
Entry == [type : Requests, tries : 0 .. SendTries]

Timers == {"acktivity", "heartbeat"}

\* Why this end called Peer::terminate (its status_name); "none" when it
\* did not.  A history variable: no guard reads it.
Causes ==
  {"none", "Client", "Unexpected_Message", "Invalid_Message", "Invalid_Data",
   "Invalid_Destination", "Inconsistent_Data", "Timed_Out"}

Endpoint ==
  [modem          : BOOLEAN,                  \* dlep->is_modem()
   pstate         : PeerStates,
   pending        : [Queues -> Seq(Entry)],   \* responses_pending
   not_interested : SUBSET Dests,             \* not_interested_destinations
   peer_pdp       : SUBSET Dests,             \* destinations of peer_pdp
   needs_response : SUBSET Dests,             \* those with needs_response set
   local_pdp      : SUBSET Dests,             \* destinations of dlep->local_pdp
   asked          : SUBSET Dests,             \* linkchar requests at the client
   heartbeats     : BOOLEAN,                  \* peer_heartbeat_interval_sec # 0
   acktivity      : BOOLEAN,                  \* acktivity_timer is running
   heartbeat      : BOOLEAN,                  \* heartbeat_timer is running
   cancelled      : SUBSET Timers,            \* stopped, but handlers may be due
   cause          : Causes,
   out            : Seq(Message)]

\* What the environment decides while a handler runs: the outcome of
\* parse_and_validate, of validate_ip_data_items, of the search for unknown
\* metrics in update_data_items and of should_send_response, the status
\* that DlepClient::destination_up returns, and whether a link
\* characteristics request carries metrics.
Inputs ==
  [valid : BOOLEAN, ip_ok : BOOLEAN, metrics_known : BOOLEAN, send : BOOLEAN,
   status : {"Success", "Not_Interested", "Request_Denied"},
   has_metrics : BOOLEAN]

\* A Peer as its constructor leaves it, in the process whose local
\* destinations are dests.
NewPeer(modem, state, dests) ==
  [modem |-> modem, pstate |-> state, pending |-> [q \in Queues |-> <<>>],
   not_interested |-> {}, peer_pdp |-> {}, needs_response |-> {},
   local_pdp |-> dests, asked |-> {}, heartbeats |-> FALSE,
   acktivity |-> FALSE, heartbeat |-> FALSE, cancelled |-> {},
   cause |-> "none", out |-> <<>>]

-----------------------------------------------------------------------------
(* Sending.                                                                *)

send_session_message(e, m) == [e EXCEPT !.out = Append(@, m)]

\* send_simple_response; send is the outcome of should_send_response.
send_simple_response(e, t, s, q, send) ==
  IF send THEN send_session_message(e, Msg(t, q, add_status(s))) ELSE e

\* The part of send_message_expecting_response that hands the head of queue
\* q to the socket.
transmit_head(e, q) ==
  LET h == Head(e.pending[q])
  IN  [send_session_message(e, Msg(h.type, q, "none")) EXCEPT
         !.pending[q] = <<[h EXCEPT !.tries = h.tries + 1]>> \o Tail(@)]

\* Mutant of send_queued: the message is taken for already sent.
send_queued_skipped(e, q) == e

\* send_message_expecting_response for a ResponsePending that is already at
\* the head of queue q: a retransmission, or the next message of the queue.
send_queued(e, q) ==
  IF q \in e.not_interested THEN e ELSE transmit_head(e, q)

\* Mutant of send_message_expecting_response: the test that rp is at the
\* front of its queue is lost.
send_without_front_test(e, q, t) ==
  IF q \in e.not_interested THEN e
  ELSE [send_session_message(e, Msg(t, q, "none")) EXCEPT
          !.pending[q] = Append(@, [type |-> t, tries |-> 1])]

\* send_message_expecting_response for a new ResponsePending of type t.
send_message_expecting_response(e, q, t) ==
  IF q \in e.not_interested THEN e
  ELSE LET pushed == [e EXCEPT !.pending[q] =
                        Append(@, [type |-> t, tries |-> 0])]
       IN  IF e.pending[q] = <<>> THEN transmit_head(pushed, q) ELSE pushed

-----------------------------------------------------------------------------
(* Stopping.                                                               *)

\* stop_timers and set_state_terminating.  Cancelling a timer that has
\* expired does not take back its handler, if that is already queued in the
\* io_service: it runs, without an error, after the peer was stopped.
stop_peer(e) ==
  [e EXCEPT !.acktivity = FALSE, !.heartbeat = FALSE,
            !.cancelled = @ \cup {t \in Timers :
                                    \/ t = "acktivity" /\ e.acktivity
                                    \/ t = "heartbeat" /\ e.heartbeat},
            !.pstate = "terminating"]

terminate(e, why) ==
  IF e.pstate = "terminating" THEN e
  ELSE send_message_expecting_response(
         [stop_peer(e) EXCEPT !.cause = why], Session, "Session_Termination")

-----------------------------------------------------------------------------
(* Responses.                                                              *)

\* The response answers the message at the head of its queue.
response_ok(e, m) ==
  /\ e.pending[m.dest] # <<>>
  /\ ResponseTo[Head(e.pending[m.dest]).type] = m.type

handle_response(e, m) ==
  IF response_ok(e, m)
  THEN LET popped == [e EXCEPT !.pending[m.dest] = Tail(@)]
       IN  IF popped.pending[m.dest] = <<>> THEN popped
           ELSE send_queued(popped, m.dest)
  ELSE terminate(e, "Unexpected_Message")

-----------------------------------------------------------------------------
(* Destinations: the calls that the service and the info base make.        *)

DestinationUpType(e) ==
  IF e.modem THEN "Destination_Up" ELSE "Destination_Announce"

destination_up(e, d) ==
  IF d \in e.needs_response
  THEN send_session_message([e EXCEPT !.needs_response = @ \ {d}],
                            Msg("Destination_Announce_Response", d, "Success"))
  ELSE send_message_expecting_response(e, d, DestinationUpType(e))

destination_down(e, d) ==
  send_message_expecting_response(e, d, "Destination_Down")

destination_update(e, d) ==
  IF d \in e.not_interested THEN e
  ELSE send_session_message(e, Msg("Destination_Update", d, "none"))

peer_update(e) ==
  IF e.pstate = "in_session"
  THEN send_message_expecting_response(e, Session, "Session_Update")
  ELSE e

link_characteristics_request(e, d) ==
  send_message_expecting_response(e, d, "Link_Characteristics_Request")

\* The Status data item is the one that the client's data items hold, if
\* they do: the code adds none.
link_characteristics_response(e, d, status, send) ==
  send_simple_response(e, "Link_Characteristics_Response", status, d, send)

\* sendAllDestinations calls destination_up for every local destination.
\* Each call works on a queue of its own, so the calls are independent; the
\* order of the messages of different destinations is arbitrary but fixed,
\* as it is in the map that the code iterates over.
sendAllDestinations(e) ==
  LET answered == e.local_pdp \cap e.needs_response
      pushed   == (e.local_pdp \ e.needs_response) \ e.not_interested
      first    == {d \in pushed : e.pending[d] = <<>>}
      type     == DestinationUpType(e)
      sent     ==
        {Msg("Destination_Announce_Response", d, "Success") : d \in answered}
          \cup {Msg(type, d, "none") : d \in first}
  IN  [e EXCEPT
         !.needs_response = @ \ answered,
         !.pending = [q \in Queues |->
            IF q \in pushed
            THEN Append(e.pending[q],
                        [type |-> type, tries |-> IF q \in first THEN 1 ELSE 0])
            ELSE e.pending[q]],
         !.out = @ \o SetToSeq(sent)]

\* PeerData::removeDestination on peer_pdp; DestinationData, and with it the
\* needs_response mark, is deleted.
RemovePeerDestination(e, d) ==
  [e EXCEPT !.peer_pdp = @ \ {d}, !.needs_response = @ \ {d}]

-----------------------------------------------------------------------------
(* Message handlers.                                                       *)

\* Mutant of start_peer: the router takes the session to be up at once.
start_peer_in_session(e) ==
  IF e.modem THEN [e EXCEPT !.pstate = "connected", !.acktivity = TRUE]
  ELSE send_message_expecting_response(
         [e EXCEPT !.pstate = "in_session", !.acktivity = TRUE],
         Session, "Session_Initialization")

\* start_peer: the router opens the handshake.
start_peer(e) ==
  LET started == [e EXCEPT !.pstate = "connected", !.acktivity = TRUE]
  IN  IF e.modem THEN started
      ELSE send_message_expecting_response(started, Session,
                                           "Session_Initialization")

\* What both handshake handlers end with: the session is up, the client is
\* told, the peer is sent every local destination and heartbeats start, unless
\* the own heartbeat-interval is 0.  The peer's interval is kept.
session_up(e) ==
  LET up == sendAllDestinations([e EXCEPT !.heartbeats = Heartbeats[~e.modem],
                                          !.pstate = "in_session"])
  IN  [up EXCEPT !.heartbeat = Heartbeats[e.modem]]

\* Modem: Session_Initialization from the router.
handle_peer_initialization(e, c) ==
  IF ~c.ip_ok THEN terminate(e, "Inconsistent_Data")
  ELSE session_up(send_simple_response(e, "Session_Initialization_Response",
                                       "Success", Session, c.send))

\* Mutant of handle_peer_initialization_response: the state is not set.
handle_peer_initialization_response_stays(e, m) == handle_response(e, m)

\* Router: Session_Initialization_Response from the modem.
handle_peer_initialization_response(e, m) ==
  IF response_ok(e, m) THEN session_up(handle_response(e, m))
  ELSE handle_response(e, m)

\* Mutant of handle_peer_update: no response.
handle_peer_update_silent(e, c) ==
  IF ~c.ip_ok THEN terminate(e, "Inconsistent_Data") ELSE e

handle_peer_update(e, c) ==
  IF ~c.ip_ok THEN terminate(e, "Inconsistent_Data")
  ELSE send_simple_response(e, "Session_Update_Response",
         IF c.metrics_known THEN "Success" ELSE "Invalid_Message",
         Session, c.send)

handle_peer_termination(e, c) ==
  stop_peer(send_simple_response(e, "Session_Termination_Response", "none",
                                 Session, c.send))

handle_peer_termination_response(e, m) ==
  IF e.pstate = "terminating" THEN stop_peer(handle_response(e, m)) ELSE e

\* Mutant of handle_destination_up: a destination the client refused is kept.
handle_destination_up_keeps_refused(e, m, c) ==
  LET have == m.dest \in e.peer_pdp
      seen == [e EXCEPT !.not_interested = @ \ {m.dest},
                        !.peer_pdp = @ \cup {m.dest}]
  IN  IF m.type \in Requests
      THEN send_simple_response(seen, ResponseTo[m.type],
             IF have THEN "Invalid_Message" ELSE c.status, m.dest, c.send)
      ELSE seen

\* Destination_Up, and a Destination_Announce_Response, at the router.
handle_destination_up(e, m, c) ==
  LET d    == m.dest
      have == d \in e.peer_pdp
      seen == IF have THEN e
              ELSE [e EXCEPT
                      !.not_interested = @ \ {d},
                      !.peer_pdp = IF c.status = "Success"
                                   THEN @ \cup {d} ELSE @]
  IN  IF ~have /\ ~c.ip_ok THEN terminate(e, "Inconsistent_Data")
      ELSE IF m.type \in Requests
      THEN send_simple_response(seen, ResponseTo[m.type],
             IF have THEN "Invalid_Message" ELSE c.status, d, c.send)
      ELSE seen

\* Destination_Up_Response at the modem, Destination_Announce_Response at
\* the router.  The queue is served before the status is looked at.
handle_destination_up_response(e, m, c) ==
  LET served == handle_response(e, m)
      marked == IF m.status = "Not_Interested"
                THEN [served EXCEPT !.not_interested = @ \cup {m.dest}]
                ELSE served
  IN  IF ~response_ok(e, m) THEN served
      ELSE IF m.status \in {"none", "Success"} /\ ~e.modem
      THEN handle_destination_up(marked, m, c)
      ELSE marked

\* Mutant of handle_destination_announce: the response is sent at once, and
\* again when the client brings the destination up.
handle_destination_announce_twice(e, m, c) ==
  send_simple_response(
    [e EXCEPT !.peer_pdp = @ \cup {m.dest},
              !.needs_response = @ \cup {m.dest}],
    "Destination_Announce_Response", "Success", m.dest, c.send)

\* Modem: Destination_Announce from the router.  Unless the destination is
\* already local, the response is deferred to the client's destination_up.
handle_destination_announce(e, m, c) ==
  LET d     == m.dest
      added == [e EXCEPT !.not_interested = @ \ {d},
                         !.peer_pdp = @ \cup {d}]
      await == [added EXCEPT !.needs_response = @ \cup {d}]
      reply == "Destination_Announce_Response"
  IN  IF d \in e.peer_pdp
      THEN send_simple_response(e, reply, "Invalid_Message", d, c.send)
      ELSE IF d \in e.local_pdp THEN destination_up(await, d)
      ELSE IF c.status = "Success" THEN await
      ELSE send_simple_response(added, reply, c.status, d, c.send)

handle_destination_update(e, m, c) ==
  IF m.dest \notin e.peer_pdp THEN terminate(e, "Invalid_Message")
  ELSE IF ~c.ip_ok THEN terminate(e, "Inconsistent_Data")
  ELSE e

handle_destination_down(e, m, c) ==
  LET d     == m.dest
      known == IF d \in e.peer_pdp THEN RemovePeerDestination(e, d)
               ELSE [e EXCEPT !.not_interested = @ \cup {d}]
  IN  IF d \notin e.peer_pdp \cup e.local_pdp
      THEN terminate(e, "Invalid_Destination")
      ELSE send_simple_response(known, "Destination_Down_Response",
                                "Success", d, c.send)

\* Modem.  A request with metrics goes to the client, which calls
\* linkchar_reply when it is done; one without is answered with the metrics
\* of the destination, and no Status.
handle_link_characteristics_request(e, m, c) ==
  IF m.dest \notin e.local_pdp THEN terminate(e, "Invalid_Destination")
  ELSE IF c.has_metrics THEN [e EXCEPT !.asked = @ \cup {m.dest}]
  ELSE link_characteristics_response(e, m.dest, "none", c.send)

handle_link_characteristics_response(e, m) ==
  LET served == handle_response(e, m)
  IN  IF response_ok(e, m) /\ m.dest \notin e.peer_pdp
      THEN terminate(served, "Invalid_Destination")
      ELSE served

\* check_status_code_failure.
status_code_failure(m) ==
  /\ m.type \notin {"Session_Termination", "Session_Termination_Response"}
  /\ m.status \in TerminateStatuses

\* ProtocolMessage::validate: may the peer send this message at all?
sender_ok(e, m) == m.type \notin (IF e.modem THEN ModemOnly ELSE RouterOnly)

\* ProtocolMessage::validate: the protocol configuration asks for exactly one
\* Status in a Link_Characteristics_Response.  (The other messages of which it
\* asks one always have it.)
status_ok(m) == m.type = "Link_Characteristics_Response" => m.status # "none"

handle_peer_signal(e, m, c) ==
  IF ~c.valid \/ ~sender_ok(e, m) \/ ~status_ok(m)
  THEN terminate(e, "Invalid_Message")
  ELSE IF status_code_failure(m) THEN terminate(e, m.status)
  ELSE CASE m.type = "Heartbeat" -> e
         [] m.type = "Destination_Update" -> handle_destination_update(e, m, c)
         [] m.type = "Destination_Up" /\ e.modem ->
              handle_destination_announce(e, m, c)
         [] m.type = "Destination_Up" /\ ~e.modem ->
              handle_destination_up(e, m, c)
         [] m.type \in {"Destination_Up_Response",
                        "Destination_Announce_Response"} ->
              handle_destination_up_response(e, m, c)
         [] m.type = "Destination_Announce" ->
              handle_destination_announce(e, m, c)
         [] m.type = "Destination_Down" -> handle_destination_down(e, m, c)
         [] m.type \in {"Destination_Down_Response",
                        "Session_Update_Response"} -> handle_response(e, m)
         [] m.type = "Link_Characteristics_Request" ->
              handle_link_characteristics_request(e, m, c)
         [] m.type = "Link_Characteristics_Response" ->
              handle_link_characteristics_response(e, m)
         [] m.type = "Session_Update" -> handle_peer_update(e, c)
         [] m.type = "Session_Initialization" ->
              handle_peer_initialization(e, c)
         [] m.type = "Session_Initialization_Response" ->
              handle_peer_initialization_response(e, m)
         [] m.type = "Session_Termination" -> handle_peer_termination(e, c)
         [] m.type = "Session_Termination_Response" ->
              handle_peer_termination_response(e, m)

\* handle_session_receive for one message, or for the end of the stream.
handle_session_receive(e, m, c) ==
  IF m.type = "EOF" THEN stop_peer(e) ELSE handle_peer_signal(e, m, c)

-----------------------------------------------------------------------------
(* Timers.                                                                 *)

\* handle_acktivity_timeout begins when its timer has expired, so that
\* stop_timers has nothing to cancel, and ends with scheduling it again unless
\* the peer is terminating.
timed_out(e) == terminate([e EXCEPT !.acktivity = FALSE], "Timed_Out")

schedule_acktivity_timer(e) ==
  IF e.pstate = "terminating" THEN e ELSE [e EXCEPT !.acktivity = TRUE]

\* Mutant of check_for_retransmits: one transmission too many.
check_for_retransmits_once_more(e, q) ==
  IF Head(e.pending[q]).tries <= SendTries
  THEN schedule_acktivity_timer(send_queued(e, q))
  ELSE timed_out(e)

\* check_for_retransmits for the one queue whose head is overdue.
check_for_retransmits(e, q) ==
  IF Head(e.pending[q]).tries < SendTries
  THEN schedule_acktivity_timer(send_queued(e, q))
  ELSE timed_out(e)

\* Mutant of PeerInactive: the silent peer is taken to be active.
PeerInactive_active(e) == schedule_acktivity_timer(e)

\* check_for_activity when the peer has been silent for too long.
PeerInactive(e) == timed_out(e)

\* The handler of a cancelled acktivity timer when nothing is overdue.
acktivity_after_stop(e) ==
  schedule_acktivity_timer([e EXCEPT !.cancelled = @ \ {"acktivity"}])

\* A handler that finds the peer stopped sends nothing, but schedules the
\* timer again: schedule_heartbeat does not look at the state of the peer.
handle_heartbeat_timeout(e) ==
  LET armed == [e EXCEPT !.heartbeat = Heartbeats[e.modem],
                         !.cancelled = @ \ {"heartbeat"}]
  IN  IF e.pstate = "in_session"
      THEN send_session_message(armed, Msg("Heartbeat", Session, "none"))
      ELSE armed

=============================================================================
