----------------------------- MODULE DlepSession -----------------------------
(***************************************************************************)
(* A modem and a router running a DLEP session: two endpoints (module      *)
(* Peer) joined by a TCP connection, the clients that drive them through   *)
(* DlepService (DlepServiceImpl.cpp), their timers, and the life of the    *)
(* session from the TCP connect to the removal of the Peer objects         *)
(* (Dlep.cpp).  Every handler and every service call holds dlep->mutex of  *)
(* its process, so each is one step; the two processes interleave freely.  *)
(*                                                                         *)
(* A read of several complete messages is a sequence of Receive steps.     *)
(* Time is abstracted: a timer that is armed may fire at any moment, and   *)
(* Env says whether the response to a message may be overdue while the     *)
(* message or the response is still on its way.                            *)
(***************************************************************************)
EXTENDS Peer

CONSTANTS Env,             \* environment behaviours of this instance
          ClientOps,       \* service calls each client makes
          ClientStatuses,  \* statuses the clients return for a destination
          MaxQueue,        \* bound: client messages on one queue
          MaxStream        \* bound: unacknowledged messages in a stream

Node == {"modem", "router"}

EnvBehaviours ==
  {"late",            \* a response may be overdue although it is on its way
   "overdue_at_stop", \* a response may be overdue as the peer is stopped
   "silent",          \* a peer may be silent for heartbeat-threshold intervals
   "suppress",        \* ack-probability < 100
   "invalid",         \* the clients supply data items that do not validate
   "ip_conflict",     \* the clients supply conflicting IP addresses
   "unknown_metric",  \* the clients update metrics never declared
   "empty_request",   \* link characteristics requests may have no metrics
   "no_status",       \* link characteristics replies may have no Status
   "early_calls",     \* clients call destination_* during the handshake
   "heartbeats",      \* heartbeat timers fire
   "link_loss",       \* the TCP connection breaks
   "vanish"}          \* when it does, an end may not be told

ServiceCalls ==
  {"destination_up", "destination_down", "destination_update", "peer_update",
   "linkchar_request", "linkchar_reply", "terminate"}

ASSUME EnvAssumption == Env \subseteq EnvBehaviours
ASSUME ClientAssumption ==
  /\ ClientOps \in [Node -> SUBSET ServiceCalls]
  /\ ClientStatuses \subseteq {"Success", "Not_Interested", "Request_Denied"}
  /\ ClientStatuses # {}
ASSUME BoundsAssumption == MaxQueue \in Nat /\ MaxStream \in Nat

VARIABLES ep,      \* ep[n]: the endpoint of node n
          stream,  \* stream[n]: what node n has not yet read from its socket
          link     \* does the TCP connection carry data?

vars == <<ep, stream, link>>

Other(n) == IF n = "modem" THEN "router" ELSE "modem"

TypeOK ==
  /\ ep \in [Node -> Endpoint]
  /\ stream \in [Node -> Seq(Message)]
  /\ link \in BOOLEAN

\* The Peer object is in dlep->peers.
InMap(e) == e.pstate \notin {"nonexistent", "connecting"}

EOF == Msg("EOF", Session, "none")

Init ==
  /\ ep = [n \in Node |-> NewPeer(n = "modem", "nonexistent", {})]
  /\ stream = [n \in Node |-> <<>>]
  /\ link = FALSE

-----------------------------------------------------------------------------
(* Steps of one process.                                                   *)

\* Node n ends a step as endpoint e, having read its stream up to rest.
\* What it wrote reaches the peer unless the connection is gone.
Commit(n, e, rest) ==
  /\ ep' = [ep EXCEPT ![n] = [e EXCEPT !.out = <<>>]]
  /\ stream' = [stream EXCEPT
       ![n] = rest,
       ![Other(n)] = IF link THEN @ \o e.out ELSE @]
  /\ UNCHANGED link

\* As Commit, and n is done with the connection: nothing travels on it any
\* more.  If its socket is closed, the peer reads EOF after the data; one that
\* is closed with unread data resets the connection, which may lose what the
\* peer has not read.
Close(n, e, successor, closed) ==
  /\ ep' = [ep EXCEPT ![n] = successor]
  /\ \E reset \in BOOLEAN :
       /\ reset => stream[n] # <<>>
       /\ stream' = [stream EXCEPT
            ![n] = <<>>,
            ![Other(n)] = CASE ~link \/ ~closed -> @
                            [] link /\ closed /\ reset -> <<EOF>>
                            [] OTHER -> @ \o e.out \o <<EOF>>]
  /\ link' = FALSE

\* The router connects after discovery; the modem only offers a connection
\* while it has no peer, the router only takes one while it has none.
TcpConnect ==
  /\ \A n \in Node : ep[n].pstate = "nonexistent"
  /\ ep' = [n \in Node |-> NewPeer(n = "modem", "connecting", ep[n].local_pdp)]
  /\ stream' = [n \in Node |-> <<>>]
  /\ link' = TRUE

\* The accept or connect completes: Dlep::handle_async_make_peer.
MakePeer(n) ==
  /\ ep[n].pstate = "connecting"
  /\ Commit(n, start_peer(ep[n]), stream[n])

\* A fault that Env names may or may not strike; the others never do.
FaultFree(b) == IF b \in Env THEN BOOLEAN ELSE {TRUE}

HandlerInputs ==
  [valid : FaultFree("invalid"), ip_ok : FaultFree("ip_conflict"),
   metrics_known : FaultFree("unknown_metric"), send : FaultFree("suppress"),
   status : ClientStatuses, has_metrics : FaultFree("empty_request")]

Receive(n) ==
  /\ InMap(ep[n])
  /\ stream[n] # <<>>
  /\ \E c \in HandlerInputs :
       Commit(n, handle_session_receive(ep[n], Head(stream[n]), c),
              Tail(stream[n]))

\* The response that n waits for on queue q may still be on its way: the
\* request is unread, n has something to read, or the peer's client has not
\* answered yet.
ResponseUnderway(n, q) ==
  \/ \E i \in DOMAIN stream[Other(n)] :
       /\ stream[Other(n)][i].dest = q
       /\ stream[Other(n)][i].type \in Requests
  \/ stream[n] # <<>>
  \/ q \in ep[Other(n)].needs_response \cup ep[Other(n)].asked

\* handle_acktivity_timeout, when it finds the response on queue q overdue.
\* Several overdue queues are several steps in the order of the map; the
\* loop is left when the first of them terminates the peer.  The handler may
\* have been queued before its timer was cancelled.
ResponseOverdue(n, q) ==
  /\ \/ ep[n].acktivity
     \/ "overdue_at_stop" \in Env /\ "acktivity" \in ep[n].cancelled
  /\ ep[n].pending[q] # <<>>
  /\ "late" \in Env \/ ~ResponseUnderway(n, q)
  /\ Commit(n, check_for_retransmits(ep[n], q), stream[n])

\* handle_acktivity_timeout, when it finds the peer inactive.
InactivityTimeout(n) ==
  /\ "silent" \in Env
  /\ ep[n].acktivity
  /\ ep[n].heartbeats
  /\ "late" \in Env \/ stream[n] = <<>>
  /\ Commit(n, PeerInactive(ep[n]), stream[n])

HeartbeatTimeout(n) ==
  /\ "heartbeats" \in Env
  /\ ep[n].heartbeat
  /\ Len(stream[Other(n)]) < MaxStream
  /\ Commit(n, handle_heartbeat_timeout(ep[n]), stream[n])

\* The handler of a timer that was cancelled when it was already queued.
HandlerAfterStop(n) ==
  /\ InMap(ep[n])
  /\ \/ /\ "acktivity" \in ep[n].cancelled
        /\ Commit(n, acktivity_after_stop(ep[n]), stream[n])
     \/ /\ "heartbeat" \in ep[n].cancelled
        /\ Commit(n, handle_heartbeat_timeout(ep[n]), stream[n])

\* Dlep::cleanup_ex_peers removes a terminating peer from the map.  The socket
\* is closed when the last handler has let go of the Peer, which a heartbeat
\* timer that was scheduled again never does while the process lives.
CleanupExPeers(n) ==
  /\ ep[n].pstate = "terminating"
  /\ Close(n, ep[n], NewPeer(n = "modem", "nonexistent", ep[n].local_pdp),
           ~ep[n].heartbeat)

\* The connection breaks and what was in transit is lost.  An end that is told
\* finds the end of its stream; if the peer's host or the network is gone, an
\* end that has nothing to send is not told.
LinkLoss ==
  /\ "link_loss" \in Env
  /\ link
  /\ link' = FALSE
  /\ stream' \in [Node -> {<<EOF>>} \cup IF "vanish" \in Env THEN {<<>>} ELSE {}]
  /\ UNCHANGED ep

-----------------------------------------------------------------------------
(* Calls of the DlepService interface.                                     *)

Calls(n, op) == op \in ClientOps[n]

\* Between the TCP connect and peer_up the client has no way to see that a
\* session is coming up; its calls are not held back by the code.
CallsDestination(n, op) ==
  Calls(n, op) /\ ("early_calls" \in Env \/ ep[n].pstate # "connected")

HasRoom(n, q) == Len(ep[n].pending[q]) < MaxQueue

\* What the info base tells the peer, if there is one.
TellPeer(n, without, with) ==
  Commit(n, IF InMap(ep[n]) THEN with ELSE without, stream[n])

ServiceDestinationUp(n, d) ==
  LET added == [ep[n] EXCEPT !.local_pdp = @ \cup {d}]
  IN  /\ CallsDestination(n, "destination_up")
      /\ d \notin ep[n].local_pdp
      /\ HasRoom(n, d)
      /\ TellPeer(n, added, destination_up(added, d))

ServiceDestinationDown(n, d) ==
  LET local   == [ep[n] EXCEPT !.local_pdp = @ \ {d}]
      foreign == RemovePeerDestination(ep[n], d)
  IN  /\ CallsDestination(n, "destination_down")
      /\ HasRoom(n, d)
      /\ \/ /\ d \in ep[n].local_pdp
            /\ TellPeer(n, local, destination_down(local, d))
         \/ /\ d \in ep[n].peer_pdp \ ep[n].local_pdp
            /\ Commit(n, destination_down(foreign, d), stream[n])

ServiceDestinationUpdate(n, d) ==
  /\ CallsDestination(n, "destination_update")
  /\ InMap(ep[n])
  /\ d \in ep[n].local_pdp \cup ep[n].peer_pdp
  /\ Len(stream[Other(n)]) < MaxStream
  /\ Commit(n, destination_update(ep[n], d), stream[n])

ServicePeerUpdate(n) ==
  /\ Calls(n, "peer_update")
  /\ InMap(ep[n])
  /\ HasRoom(n, Session)
  /\ Commit(n, peer_update(ep[n]), stream[n])

ServiceLinkcharRequest(n, d) ==
  /\ Calls(n, "linkchar_request")
  /\ d \in ep[n].peer_pdp
  /\ HasRoom(n, d)
  /\ Commit(n, link_characteristics_request(ep[n], d), stream[n])

ServiceLinkcharReply(n, d) ==
  /\ Calls(n, "linkchar_reply")
  /\ d \in ep[n].asked
  /\ \E send \in FaultFree("suppress"),
        status \in ClientStatuses
                     \cup IF "no_status" \in Env THEN {"none"} ELSE {} :
       Commit(n, link_characteristics_response(
                   [ep[n] EXCEPT !.asked = @ \ {d}], d, status, send), stream[n])

\* The process ends: its peer is terminated, and its sockets are closed.
ServiceTerminate(n) ==
  /\ Calls(n, "terminate")
  /\ ep[n].pstate # "nonexistent"
  /\ Close(n, IF InMap(ep[n]) THEN terminate(ep[n], "Client") ELSE ep[n],
           NewPeer(n = "modem", "nonexistent", {}), TRUE)

ClientStep(n) ==
  \/ \E d \in Dests : \/ ServiceDestinationUp(n, d)
                      \/ ServiceDestinationDown(n, d)
                      \/ ServiceDestinationUpdate(n, d)
                      \/ ServiceLinkcharRequest(n, d)
                      \/ ServiceLinkcharReply(n, d)
  \/ ServicePeerUpdate(n)
  \/ ServiceTerminate(n)

TimerStep(n) ==
  \/ \E q \in Queues : ResponseOverdue(n, q)
  \/ InactivityTimeout(n)
  \/ HeartbeatTimeout(n)
  \/ HandlerAfterStop(n)
  \/ CleanupExPeers(n)

Next ==
  \/ TcpConnect
  \/ LinkLoss
  \/ \E n \in Node : \/ MakePeer(n)
                     \/ Receive(n)
                     \/ TimerStep(n)
                     \/ ClientStep(n)

Spec == Init /\ [][Next]_vars

-----------------------------------------------------------------------------
(* Fairness: the io_service thread runs every completed operation and every *)
(* expired timer; the peer stays silent on a connection that is gone.       *)

Fairness ==
  \A n \in Node :
    /\ WF_vars(MakePeer(n))
    /\ WF_vars(Receive(n))
    /\ WF_vars(CleanupExPeers(n))
    /\ WF_vars(~link /\ InactivityTimeout(n))
    /\ \A q \in Queues : WF_vars(ep[n].acktivity /\ ResponseOverdue(n, q))

FairSpec == Spec /\ Fairness

-----------------------------------------------------------------------------
(* Safety.                                                                 *)

Active(n) == ep[n].pstate \in {"connected", "in_session"}

\* Only the message at the head of a queue has been handed to the socket
\* (Peer.h: "The message at the head of the queue has been sent and is
\* awaiting a response.  Additional messages in the queue are still waiting
\* to be sent"), whatever retransmissions, refusals and failures do.
OnlyHeadSent ==
  \A n \in Node, q \in Queues :
    \A i \in DOMAIN ep[n].pending[q] :
      i > 1 => ep[n].pending[q][i].tries = 0

\* The messages about queue q that n has sent and its peer has not read.
RequestsUnderway(n, q) ==
  {i \in DOMAIN stream[Other(n)] :
     stream[Other(n)][i].dest = q /\ stream[Other(n)][i].type \in Requests}

ResponsesUnderway(n, q) ==
  {i \in DOMAIN stream[n] :
     stream[n][i].dest = q /\ stream[n][i].type \in Responses}

\* The requests of n about q whose response the peer's client still owes.
Deferred(n, q) ==
  {t \in {"Destination_Announce", "Link_Characteristics_Request"} :
     \/ t = "Destination_Announce" /\ q \in ep[Other(n)].needs_response
     \/ t = "Link_Characteristics_Request" /\ q \in ep[Other(n)].asked}

\* DLEP's transaction model, end to end, in every state of the two peers while
\* the connection lasts: of each queue of an endpoint at most one request is
\* unanswered in the network or at the peer's client, it is the one at the
\* head of the queue, and whatever comes back answers the head of the queue,
\* so that handle_response never finds a mismatch.
TransactionModel ==
  \A n \in Node, q \in Queues :
    link =>
      LET head == Head(ep[n].pending[q]).type
      IN  /\ Cardinality(RequestsUnderway(n, q))
               + Cardinality(ResponsesUnderway(n, q))
               + Cardinality(Deferred(n, q)) <= 1
          /\ RequestsUnderway(n, q) # {} =>
               /\ ep[n].pending[q] # <<>>
               /\ \A i \in RequestsUnderway(n, q) :
                    stream[Other(n)][i].type = head
          /\ \A i \in ResponsesUnderway(n, q) :
               response_ok(ep[n], stream[n][i])
          /\ Deferred(n, q) # {} =>
               ep[n].pending[q] # <<>> /\ Deferred(n, q) = {head}

\* Two of these implementations find no fault with each other: no end
\* terminates the session for a protocol error, a timeout or bad data.  This
\* depends on the clients.  It holds while they accept every destination, ask
\* for link characteristics with metrics and answer with a Status, and while
\* only one side changes a destination that the other asks about.  It fails
\* for a destination that is taken down while its refusal is under way, that
\* is updated and taken down, or taken down while it is asked about.
SessionStable ==
  \A n \in Node : ep[n].cause \in {"none", "Client"}

\* The router considers the session up only when the modem does, or did:
\* handle_peer_initialization_response runs after the modem's handler of
\* Session_Initialization, however often the request is retransmitted.
HandshakeOrder ==
  ep["router"].pstate = "in_session" =>
    ep["modem"].pstate \notin {"connecting", "connected"}

\* Nothing is under way in a session.
Quiescent ==
  \A n \in Node : /\ ep[n].pstate = "in_session"
                  /\ stream[n] = <<>>
                  /\ \A q \in Queues : ep[n].pending[q] = <<>>

\* When a session has nothing under way, the peer_pdp of each end holds the
\* destinations that the other end's local_pdp does, but for those that the
\* peer has refused, which it may lack.
ViewsAgree ==
  Quiescent =>
    \A n \in Node :
      /\ ep[Other(n)].peer_pdp \subseteq ep[n].local_pdp
      /\ ep[n].local_pdp \ ep[n].not_interested \subseteq ep[Other(n)].peer_pdp

-----------------------------------------------------------------------------
(* Liveness.                                                               *)

\* A queue that stays non-empty while the session lasts gets shorter again
\* and again: every request is answered, or the session is given up after
\* send-tries transmissions.
QueuesServed ==
  \A n \in Node, q \in Queues :
    <>[](Active(n) /\ ep[n].pending[q] # <<>>) =>
      []<><<Len(ep'[n].pending[q]) < Len(ep[n].pending[q])>>_vars

\* When one end terminates the session, the other end does not stay in it,
\* even if the Session_Termination message is lost or never sent, and if the
\* end of the connection is never seen: then the silence of the peer is.
TerminationPropagates ==
  \A n \in Node :
    ep[n].pstate = "terminating" ~> ep[Other(n)].pstate # "in_session"

\* The modem waits for a Session_Initialization on a connection that is gone,
\* which nothing has told it: no heartbeat interval is known yet, and no
\* response is awaited.
Stranded ==
  /\ ep["modem"].pstate = "connected" /\ ep["router"].pstate = "nonexistent"
  /\ ~link /\ stream["modem"] = <<>>

\* A handshake is decided: a TCP connection becomes a session of both ends,
\* or both ends drop it and a new one can be made.  The one exception is a
\* modem that is left alone in it (Stranded), which stays for ever; the router
\* always decides, because it awaits a response.
HandshakeDecided ==
  (\E n \in Node : ep[n].pstate = "connecting") ~>
    \/ \A n \in Node : ep[n].pstate = "in_session"
    \/ \A n \in Node : ep[n].pstate = "nonexistent"
    \/ Stranded

-----------------------------------------------------------------------------
(* What the comments and documents of the code say, and the code does not  *)
(* do.                                                                     *)

\* DlepClient.h on Not_Interested: it is returned "to tell the peer to refrain
\* from sending further messages about this mac_address".  While n holds d in
\* not_interested_destinations, it has nothing about d on its way or waiting
\* to be sent.
RefusalRespected ==
  \A n \in Node : \A d \in ep[n].not_interested :
    Active(n) => ep[n].pending[d] = <<>> /\ RequestsUnderway(n, d) = {}

\* Peer.cpp on terminate: "This peer will now be in state terminating, and
\* the cleanup timer in Dlep.cpp will eventually remove it."  A terminating
\* peer is only removed, never revived.
TerminatingIsFinal ==
  [][\A n \in Node : ep[n].pstate = "terminating" =>
       ep'[n].pstate \in {"terminating", "nonexistent"}]_vars

\* Peer.cpp on a cancelled heartbeat timer: "this peer is shutting down.  We
\* don't want to restart the timer at the end of this function".
StoppedTimersStayStopped ==
  \A n \in Node : ep[n].pstate = "terminating" => ~ep[n].heartbeat

\* DlepClient.h on linkchar_request: for a request without metrics "the
\* response is sent automatically by DlepService".  A link characteristics
\* transaction does not cost the session.
LinkcharHarmless ==
  \A n \in Node : ep[n].cause # "Invalid_Message"

\* Peer.h on ResponsePending::msg_buffer: "Used to retransmit the signal in
\* case the response is lost."  A lost response costs retransmissions, and
\* at worst the session after send-tries of them, but the retransmission
\* itself is never treated as a protocol error.
RetransmissionHarmless ==
  \A n \in Node : ep[n].cause \in {"none", "Client", "Timed_Out"}

\* DlepService.h on destination_up: "If there is no extant peer session, the
\* DLEP service adds the destination to its local database so that it can be
\* sent to a future peer."  A peer that is not in session yet is sent nothing
\* about destinations.
DestinationsNeedSession ==
  \A n \in Node :
    ep[n].pstate = "connected" => \A d \in Dests : ep[n].pending[d] = <<>>

\* Peer.h on PeerState::terminating: "We have sent it a PEER_TERMINATION
\* signal and are waiting for a PEER_TERMINATION_Response from the Peer."
TerminationAnnounced ==
  \A n \in Node :
    /\ ep[n].pstate = "terminating"
    /\ ep[n].cause # "none"
    => \A i \in DOMAIN ep[n].pending[Session] :
         ep[n].pending[Session][i].type = "Session_Termination" =>
           ep[n].pending[Session][i].tries > 0

\* Peer.h on responses_pending: "DLEP's transaction model says that a peer
\* can only have one message in flight for each destination."
OneInFlight ==
  \A n \in Node, d \in Dests :
    Active(n) =>
      Cardinality({i \in DOMAIN stream[Other(n)] :
                     /\ stream[Other(n)][i].dest = d
                     /\ stream[Other(n)][i].type
                          \in Requests \cup {"Destination_Update"}}) <= 1

=============================================================================
