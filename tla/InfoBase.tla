------------------------------ MODULE InfoBase ------------------------------
(***************************************************************************)
(* The contents of the information base (InfoBaseMgr.cpp): metrics and IP   *)
(* addresses of peers and destinations, from the client calls that change   *)
(* a modem's local_pdp, through the messages that carry the changes, to the *)
(* router's peer_pdp, which they are checked against before they are stored *)
(* (Peer::validate_ip_data_items).                                          *)
(*                                                                         *)
(* A router and several modems; only the modems' half of each session is    *)
(* followed, with a channel that keeps messages in order.  The router's     *)
(* client accepts every destination, and a session ends at both ends at     *)
(* once: refusals, retransmissions and terminations are DlepSession's.      *)
(*                                                                         *)
(* ip_data_items never holds two entries that are ip_equal, so it is a set. *)
(* An address stands for its type, its value and its prefix length.         *)
(***************************************************************************)
EXTENDS Naturals, Sequences, FiniteSets

CONSTANTS
  Modems, Dests, Addrs,
  Metrics,        \* the configured metrics
  Values,         \* metric values; 0 is the default
  Absent,         \* no such metric, or no such destination
  Session,        \* the queue of session messages
  Updates,        \* data items that clients give in one call
  MaxQueue,       \* bound: messages on one queue of responses_pending
  MaxCalls        \* bound: client calls

ASSUME InfoBaseAssumption ==
  /\ IsFiniteSet(Dests) /\ Session \notin Dests
  /\ 0 \in Values /\ Absent \notin Values
  /\ MaxQueue \in Nat /\ MaxCalls \in Nat

VARIABLES
  local_pdp,      \* each modem's own data
  peer,           \* the router's Peer of each modem: its state and peer_pdp
  router_ips,     \* addresses in the router's local_pdp
  pending,        \* responses_pending of each modem; the head has been sent
  channel,        \* messages on their way to the router
  responses,      \* responses on their way to a modem
  overtaken,      \* history: destinations whose Destination_Update was sent
                  \*   while their Destination_Up was still queued
  calls           \* number of client calls so far

vars == <<local_pdp, peer, router_ips, pending, channel, responses, overtaken, calls>>

-----------------------------------------------------------------------------
(* Data items and the bases that hold them *)

MetricMap == [Metrics -> Values \cup {Absent}]
NoMetrics == [k \in Metrics |-> Absent]
ItemSet   == [metrics : MetricMap, adds : SUBSET Addrs, drops : SUBSET Addrs]

ASSUME UpdatesAssumption == Updates \subseteq ItemSet

DestData == [metrics : MetricMap, ips : SUBSET Addrs]
Base     == [metrics : MetricMap, ips : SUBSET Addrs,
             dests : [Dests -> DestData \cup {Absent}]]

ASSUME AbsentAssumption == Absent \notin DestData

EmptyBase == [metrics |-> NoMetrics, ips |-> {}, dests |-> [d \in Dests |-> Absent]]
EmptyDest == [metrics |-> NoMetrics, ips |-> {}]

\* Dlep::initialize declares every metric, with a default value.
DefaultBase == [EmptyBase EXCEPT !.metrics = [k \in Metrics |-> 0]]

Merge(old, new) ==
  [k \in Metrics |-> IF new[k] # Absent THEN new[k] ELSE old[k]]

\* Adding an address that is there and dropping one that is not do nothing.
update_ip_data_items(ips, items) == (ips \cup items.adds) \ items.drops

\* What DestinationData::update and PeerData::update_data_items_helper store.
Apply(x, items) ==
  [x EXCEPT !.metrics = Merge(x.metrics, items.metrics),
            !.ips     = update_ip_data_items(x.ips, items)]

\* get_all_data_items: everything x has, as data items to add.
AllItems(x) == [metrics |-> x.metrics, adds |-> x.ips, drops |-> {}]

Has(base, d)  == base.dests[d] # Absent
MetricsOf(items) == {k \in Metrics : items.metrics[k] # Absent}
MetricsOnly(items) == [items EXCEPT !.adds = {}, !.drops = {}]

addDestination(base, d, items) == [base EXCEPT !.dests[d] = Apply(EmptyDest, items)]

updateDestination(base, d, items) ==
  [base EXCEPT !.dests[d] = Apply(base.dests[d], items)]

removeDestination(base, d) == [base EXCEPT !.dests[d] = Absent]

\* The metrics of an update must be known already; those of an accepted update
\* also go to every destination.
MetricsKnown(base, items) == \A k \in MetricsOf(items) : base.metrics[k] # Absent

ApplyUpdate(base, items) ==
  [Apply(base, items) EXCEPT
     !.dests = [d \in Dests |-> IF Has(base, d)
                                THEN Apply(base.dests[d], MetricsOnly(items))
                                ELSE Absent]]

\* Mutant: the addresses of an update with an unknown metric are stored.
update_data_items_partly(base, items) ==
  IF MetricsKnown(base, items) THEN ApplyUpdate(base, items)
  ELSE [base EXCEPT !.ips = update_ip_data_items(base.ips, items)]

update_data_items(base, items) ==
  IF MetricsKnown(base, items) THEN ApplyUpdate(base, items) ELSE base

remove_data_items(base, items) ==
  [base EXCEPT
     !.metrics = [k \in Metrics |-> IF items.metrics[k] = base.metrics[k]
                                    THEN Absent ELSE base.metrics[k]],
     !.ips = @ \ items.adds]

-----------------------------------------------------------------------------
(* Messages *)

Queues  == Dests \cup {Session}
Types   == {"Session_Initialization_Response", "Session_Update",
            "Destination_Up", "Destination_Update", "Destination_Down"}
Message == [type : Types, queue : Queues, items : ItemSet]
Msg(type, q, items) == [type |-> type, queue |-> q, items |-> items]
NoItems == [metrics |-> NoMetrics, adds |-> {}, drops |-> {}]

InSession(m) == peer[m].state = "in_session"

\* send_message_expecting_response: the first message of a queue is sent.
SendQueued(m, msg) ==
  /\ pending' = [pending EXCEPT ![m][msg.queue] = Append(pending[m][msg.queue], msg)]
  /\ channel' = IF pending[m][msg.queue] = <<>>
                THEN [channel EXCEPT ![m] = Append(channel[m], msg)] ELSE channel

\* send_session_message.
SendNow(m, msg) ==
  /\ channel' = [channel EXCEPT ![m] = Append(channel[m], msg)]
  /\ UNCHANGED pending

SendNothing == UNCHANGED <<pending, channel>>

\* The modem is in session once it has sent Session_Initialization_Response.
TellPeers(m, sending) ==
  IF peer[m].state \in {"connected", "in_session"} THEN sending ELSE SendNothing

RoomFor(m, q) == Len(pending[m][q]) < MaxQueue

Call(m, base) ==
  /\ calls < MaxCalls /\ calls' = calls + 1
  /\ local_pdp' = [local_pdp EXCEPT ![m] = base]
  /\ UNCHANGED <<peer, router_ips, responses>>

-----------------------------------------------------------------------------
(* Client calls at a modem *)

destination_up(m, d, items) ==
  /\ ~Has(local_pdp[m], d) /\ RoomFor(m, d)
  /\ Call(m, addDestination(local_pdp[m], d, items))
  /\ TellPeers(m, SendQueued(m, Msg("Destination_Up", d, items)))
  /\ overtaken' = overtaken \ {<<m, d>>}

destination_update(m, d, items) ==
  /\ Has(local_pdp[m], d)
  /\ Call(m, updateDestination(local_pdp[m], d, items))
  /\ TellPeers(m, SendNow(m, Msg("Destination_Update", d, items)))
  /\ overtaken' = IF Len(pending[m][d]) > 1 THEN overtaken \cup {<<m, d>>} ELSE overtaken

destination_down(m, d) ==
  /\ Has(local_pdp[m], d) /\ RoomFor(m, d)
  /\ Call(m, removeDestination(local_pdp[m], d))
  /\ TellPeers(m, SendQueued(m, Msg("Destination_Down", d, NoItems)))
  /\ UNCHANGED overtaken

\* A refused update (an unknown metric) is a call that changes nothing.
peer_update(m, items) ==
  /\ MetricsKnown(local_pdp[m], items) /\ RoomFor(m, Session)
  /\ Call(m, update_data_items(local_pdp[m], items))
  /\ TellPeers(m, SendQueued(m, Msg("Session_Update", Session, items)))
  /\ UNCHANGED overtaken

peer_remove_data_items(m, items) ==
  /\ Call(m, remove_data_items(local_pdp[m], items))
  /\ SendNothing
  /\ UNCHANGED overtaken

-----------------------------------------------------------------------------
(* The life of a session *)

Here(m) == {d \in Dests : Has(local_pdp[m], d)}

UpFor(m, d) == Msg("Destination_Up", d, AllItems(local_pdp[m].dests[d]))

Orders(S) == {s \in [1..Cardinality(S) -> S] : \A i, j \in DOMAIN s : s[i] = s[j] => i = j}

\* The handshake: the modem sends its session data, then all its destinations
\* (sendAllDestinations).  The router starts a new Peer with empty data.
session_up(m) ==
  /\ peer[m].state = "none"
  /\ peer' = [peer EXCEPT ![m] = [state |-> "connected", data |-> EmptyBase]]
  /\ \E order \in Orders(Here(m)) :
       channel' = [channel EXCEPT ![m] =
         <<Msg("Session_Initialization_Response", Session, AllItems(local_pdp[m]))>>
         \o [i \in 1..Len(order) |-> UpFor(m, order[i])]]
  /\ pending' = [pending EXCEPT ![m] =
       [q \in Queues |-> IF q \in Here(m) THEN <<UpFor(m, q)>> ELSE <<>>]]
  /\ overtaken' = overtaken \ ({m} \X Dests)
  /\ UNCHANGED <<local_pdp, router_ips, responses, calls>>

\* The session is over; the router's Peer stays until it is cleaned up.
Ended(m) ==
  /\ peer' = [peer EXCEPT ![m].state = "terminating"]
  /\ pending' = [pending EXCEPT ![m] = [q \in Queues |-> <<>>]]
  /\ channel' = [channel EXCEPT ![m] = <<>>]
  /\ responses' = [responses EXCEPT ![m] = <<>>]
  /\ UNCHANGED <<local_pdp, router_ips, overtaken, calls>>

terminate(m) == InSession(m) /\ Ended(m)

\* Mutant: the data of a removed peer is left in the information base.
cleanup_ex_peers_keeps_data(m) ==
  /\ peer[m].state = "terminating"
  /\ peer' = [peer EXCEPT ![m].state = "none"]
  /\ UNCHANGED <<local_pdp, router_ips, pending, channel, responses, overtaken, calls>>

cleanup_ex_peers(m) ==
  /\ peer[m].state = "terminating"
  /\ peer' = [peer EXCEPT ![m] = [state |-> "none", data |-> EmptyBase]]
  /\ UNCHANGED <<local_pdp, router_ips, pending, channel, responses, overtaken, calls>>

\* The router's client adds addresses to, or drops them from, its own data.
RouterUpdates(items) ==
  /\ calls < MaxCalls /\ calls' = calls + 1
  /\ router_ips' = update_ip_data_items(router_ips, items)
  /\ UNCHANGED <<local_pdp, peer, pending, channel, responses, overtaken>>

-----------------------------------------------------------------------------
(* The router's message handlers *)

DestIps(m) == UNION {peer[m].data.dests[d].ips : d \in {x \in Dests : Has(peer[m].data, x)}}

\* Addresses that find_ip_data_item finds at the router or at any peer in
\* dlep->peers, in session or terminating.
Owned == router_ips \cup UNION {peer[m].data.ips \cup DestIps(m) : m \in Modems}

\* Mutant: addresses of destinations are not searched.
validate_ip_data_items_no_dests(items, existing) ==
  /\ items.adds \cap (router_ips \cup UNION {peer[m].data.ips : m \in Modems}) = {}
  /\ items.drops \subseteq existing

validate_ip_data_items(items, existing) ==
  /\ items.adds \cap Owned = {}
  /\ items.drops \subseteq existing

Stored(m, data) == peer' = [peer EXCEPT ![m].data = data]

Respond(m, q, status) ==
  responses' = [responses EXCEPT ![m] = Append(responses[m], [queue |-> q, status |-> status])]

Taken(m) == channel' = [channel EXCEPT ![m] = Tail(channel[m])]

Arrived(m, type) == channel[m] # <<>> /\ Head(channel[m]).type = type

\* The metrics of a new peer are all unknown; the result of the update and the
\* addresses in it are not checked.
handle_peer_initialization_response(m) ==
  /\ Arrived(m, "Session_Initialization_Response")
  /\ peer' = [peer EXCEPT ![m] =
       [state |-> "in_session",
        data  |-> update_data_items(peer[m].data, Head(channel[m]).items)]]
  /\ Taken(m)
  /\ UNCHANGED <<local_pdp, router_ips, pending, responses, overtaken, calls>>

handle_peer_update(m) ==
  LET items == Head(channel[m]).items IN
  /\ Arrived(m, "Session_Update")
  /\ \/ /\ ~validate_ip_data_items(items, peer[m].data.ips)
        /\ Ended(m)
     \/ /\ validate_ip_data_items(items, peer[m].data.ips)
        /\ Stored(m, update_data_items(peer[m].data, items))
        /\ Respond(m, Session, IF MetricsKnown(peer[m].data, items)
                               THEN "Success" ELSE "Invalid_Message")
        /\ Taken(m)
        /\ UNCHANGED <<local_pdp, router_ips, pending, overtaken, calls>>

handle_destination_up(m) ==
  LET msg == Head(channel[m])
      d   == msg.queue
  IN
  /\ Arrived(m, "Destination_Up")
  /\ \/ /\ Has(peer[m].data, d)
        /\ Respond(m, d, "Invalid_Message")
        /\ Taken(m)
        /\ UNCHANGED <<local_pdp, peer, router_ips, pending, overtaken, calls>>
     \/ /\ ~Has(peer[m].data, d) /\ ~validate_ip_data_items(msg.items, {})
        /\ Ended(m)
     \/ /\ ~Has(peer[m].data, d) /\ validate_ip_data_items(msg.items, {})
        /\ Stored(m, addDestination(peer[m].data, d, msg.items))
        /\ Respond(m, d, "Success")
        /\ Taken(m)
        /\ UNCHANGED <<local_pdp, router_ips, pending, overtaken, calls>>

handle_destination_update(m) ==
  LET msg   == Head(channel[m])
      d     == msg.queue
      valid == /\ Has(peer[m].data, d)
               /\ validate_ip_data_items(msg.items, peer[m].data.dests[d].ips)
  IN
  /\ Arrived(m, "Destination_Update")
  /\ \/ ~valid /\ Ended(m)
     \/ /\ valid
        /\ Stored(m, updateDestination(peer[m].data, d, msg.items))
        /\ Taken(m)
        /\ UNCHANGED <<local_pdp, router_ips, pending, responses, overtaken, calls>>

\* Mutant: the destination stays in the router's base.
handle_destination_down_kept(m) ==
  LET d == Head(channel[m]).queue IN
  /\ Arrived(m, "Destination_Down") /\ Has(peer[m].data, d)
  /\ Respond(m, d, "Success")
  /\ Taken(m)
  /\ UNCHANGED <<local_pdp, peer, router_ips, pending, overtaken, calls>>

handle_destination_down(m) ==
  LET d == Head(channel[m]).queue IN
  /\ Arrived(m, "Destination_Down")
  /\ \/ /\ ~Has(peer[m].data, d)
        /\ Ended(m)
     \/ /\ Has(peer[m].data, d)
        /\ Stored(m, removeDestination(peer[m].data, d))
        /\ Respond(m, d, "Success")
        /\ Taken(m)
        /\ UNCHANGED <<local_pdp, router_ips, pending, overtaken, calls>>

\* A response at the modem: a status other than Success ends the session, the
\* others send the next message of the queue.
handle_response(m) ==
  LET r    == Head(responses[m])
      rest == Tail(pending[m][r.queue])
  IN
  /\ responses[m] # <<>>
  /\ \/ r.status # "Success" /\ Ended(m)
     \/ /\ r.status = "Success"
        /\ responses' = [responses EXCEPT ![m] = Tail(responses[m])]
        /\ pending' = [pending EXCEPT ![m][r.queue] = rest]
        /\ channel' = IF rest = <<>> THEN channel
                      ELSE [channel EXCEPT ![m] = Append(channel[m], Head(rest))]
        /\ UNCHANGED <<local_pdp, peer, router_ips, overtaken, calls>>

-----------------------------------------------------------------------------

Init ==
  /\ local_pdp = [m \in Modems |-> DefaultBase]
  /\ peer = [m \in Modems |-> [state |-> "none", data |-> EmptyBase]]
  /\ router_ips = {}
  /\ pending = [m \in Modems |-> [q \in Queues |-> <<>>]]
  /\ channel = [m \in Modems |-> <<>>]
  /\ responses = [m \in Modems |-> <<>>]
  /\ overtaken = {}
  /\ calls = 0

Client(m) ==
  \/ \E d \in Dests, items \in Updates :
       destination_up(m, d, items) \/ destination_update(m, d, items)
  \/ \E d \in Dests : destination_down(m, d)
  \/ \E items \in Updates : peer_update(m, items) \/ peer_remove_data_items(m, items)

Handler(m) ==
  \/ handle_peer_initialization_response(m) \/ handle_peer_update(m)
  \/ handle_destination_up(m) \/ handle_destination_update(m)
  \/ handle_destination_down(m) \/ handle_response(m)

Lifecycle(m) == session_up(m) \/ terminate(m) \/ cleanup_ex_peers(m)

Next ==
  \/ \E m \in Modems : Client(m) \/ Handler(m) \/ Lifecycle(m)
  \/ \E items \in Updates : RouterUpdates(items)

Spec == Init /\ [][Next]_vars

-----------------------------------------------------------------------------
(* Properties *)

Peers == [state : {"none", "connected", "in_session", "terminating"}, data : Base]
Response == [queue : Queues, status : {"Success", "Invalid_Message"}]

TypeOK ==
  /\ local_pdp \in [Modems -> Base] /\ peer \in [Modems -> Peers]
  /\ router_ips \subseteq Addrs /\ overtaken \subseteq Modems \X Dests /\ calls \in 0..MaxCalls
  /\ pending \in [Modems -> [Queues -> Seq(Message)]]
  /\ channel \in [Modems -> Seq(Message)]
  /\ responses \in [Modems -> Seq(Response)]
  /\ \A m \in Modems : peer[m].state = "none" => peer[m].data = EmptyBase

\* No address belongs to two destinations, of one peer or of two, in the
\* router's information base, whatever the clients claim and in whatever order
\* messages of different modems arrive (validate_ip_data_items).
AddressesDisjoint ==
  \A m, n \in Modems : \A d, e \in Dests :
    (<<m, d>> # <<n, e>> /\ Has(peer[m].data, d) /\ Has(peer[n].data, e))
      => peer[m].data.dests[d].ips \cap peer[n].data.dests[e].ips = {}

\* Nothing about destination d of modem m is on its way.
Quiet(m, d) ==
  /\ pending[m][d] = <<>>
  /\ \A i \in DOMAIN channel[m] : channel[m][i].queue \notin {d, Session}
  /\ responses[m] = <<>> /\ pending[m][Session] = <<>>

\* When a session is quiet the router has exactly the modem's destinations,
\* although Destination_Up waits its turn in a queue and the other messages of
\* the destination do not; and with the modem's metrics and addresses, unless
\* an update was sent before the Destination_Up it belongs to.
DestinationsMirrored ==
  \A m \in Modems, d \in Dests :
    InSession(m) /\ Quiet(m, d) =>
      /\ Has(peer[m].data, d) <=> Has(local_pdp[m], d)
      /\ <<m, d>> \notin overtaken => peer[m].data.dests[d] = local_pdp[m].dests[d]

\* A message the router refuses, by ending the session or with a status, has
\* changed nothing (PeerData::update_data_items: "don't apply any changes, and
\* return an error").
RefusedChangesNothing ==
  [][\A m \in Modems :
       \/ InSession(m) /\ peer'[m].state = "terminating"
       \/ Len(responses'[m]) > Len(responses[m])
          /\ responses'[m][Len(responses'[m])].status # "Success"
       => peer'[m].data = peer[m].data]_vars

\* Dlep.cpp on the metrics of local_pdp: they "are sent to peers during session
\* initialization, so this effectively declares all of our supported metrics
\* to our peers".  A router in session knows the metrics of its peer.
MetricsDeclared ==
  \A m \in Modems :
    InSession(m) => \A k \in Metrics :
      local_pdp[m].metrics[k] # Absent => peer[m].data.metrics[k] # Absent

\* DestinationsMirrored of every update, sent early or not.
UpdatesMirrored ==
  \A m \in Modems, d \in Dests :
    InSession(m) /\ Quiet(m, d) => peer[m].data.dests[d] = local_pdp[m].dests[d]
=============================================================================
