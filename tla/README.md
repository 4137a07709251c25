# LL-DLEP: TLA+ specifications, model checking and proofs

This project specifies LL-DLEP, MIT Lincoln Laboratory's implementation of the
Dynamic Link Exchange Protocol (RFC 8175), in TLA+.  A *modem* and a *router*
find each other by UDP multicast, hold a session over TCP, and use it to tell
each other which *destinations* (MAC addresses) can be reached over the radio
and how well.  The specifications are translated from the C++ source; TLC checks
them on small instances, and TLAPS proves the most important invariants for
every instance.

Contents: [the system](#the-system) · [modules](#modules-and-the-code-they-model) ·
[runs](#runs) · [fairness](#fairness) · [proofs](#proofs) ·
[disagreements](#disagreements-between-code-and-documentation) ·
[not modelled](#not-modelled) · [plan](#plan)

Run one configuration with `tlc -config session_live.cfg MCDlepSession` (the module
of each run is in PROJECT.json; the longest takes about two minutes), and check the
proofs with `tlapm DlepSessionProofs.tla` (likewise `PeerProofs`, `StreamProofs`,
`InfoBaseProofs`, `DestAdvertProofs`, `DiscoveryProofs`, `StartupProofs`,
`ProtocolConfigProofs`).

## The system

One process is a modem or a router.  It is a library: a *client* (the radio's or
the router's software) is called back through `DlepClient` and calls in through
`DlepService`.  An `io_service` thread runs all timers and completion handlers;
the client calls from its own threads.  Almost everything holds the recursive
mutex `dlep->mutex`.

| Component | State | Operations | Interacts with |
|---|---|---|---|
| `Dlep` (Dlep.cpp) | map of peers, acceptor, cleanup timer | accept / connect, make a peer, remove terminating peers | creates `Peer`, `PeerDiscovery`, `DestAdvert` |
| `Peer` (Peer.cpp) | state of the session, one response queue for the session and one per destination, refused destinations, activity and heartbeat timers | start, stop, terminate; a handler per message; retransmission, inactivity, heartbeats | socket to the other process; `InfoBaseMgr`; callbacks to the client |
| `InfoBaseMgr` | `local_pdp`: our destinations and metrics; `peer_pdp` of each peer: what it told us; which destinations owe a response | add, update, remove, send all | tells every `Peer` of changes to `local_pdp` |
| `DlepServiceImpl` | none | destination_up / update / down, peer_update, linkchar_request / reply, terminate | information base, `Peer`, `DestAdvert` |
| `PeerDiscovery` | discovery timer | send discovery (router), answer with an offer (modem), connect (router) | multicast; `Dlep` |
| `PeriodicMcastSendRcv` | send timer, sockets | send periodically, receive | base of discovery and advertisement |
| `DestAdvert` | table RF ID → destinations, up or down, metrics, age; own destinations | send, receive, purge | multicast; `local_pdp` |
| `ProtocolMessage`, `DataItem` | the bytes and the data items of one message | build, edit, rebuild, serialize, parse, validate, print, read text | all of the above |
| `ProtocolConfigImpl` | maps from ids to names and to descriptions of signals, messages, data items, status codes, modules | load from XML, look up | read by all, without a lock |
| `DlepInit`, threads | is initialization done, did it succeed; two mutexes | start the library's thread, wait for it, stop and join it | client threads, `io_service` |
| example client, utilities | | command line, logging, tables | |

What is hard here, and what makes each component correct:

* **Transactions** (`Peer::responses_pending`).  A request is sent when it reaches
  the head of its queue, and retransmitted until answered or given up.  Over any
  sequence of calls, responses, timeouts and refusals at most one request of a
  queue may be under way, each answer must match the head, and a queue must
  neither jam nor hold the session for ever.
* **The life of a session.**  Either end may terminate at any moment, the
  connection may break, messages of an old state arrive in a new one, timers fire
  late.  Each connection must end up as a session on both sides or on neither, a
  terminating peer must not come back, and the other end must learn of it.
* **Two information bases.**  Destinations are announced, refused, answered late
  and taken down at two ends concurrently; when the dust settles they must agree.
* **Discovery.**  Lost packets, failing connects and repeated discoveries race the
  removal of old peers; a modem must get exactly one peer and be found again.
* **Advertisement.**  Advertisements, purges and client calls update one table in
  any order; local destinations must be exactly what the table says is up.

* **Bytes.**  TCP delivers messages in pieces of any size; messages are built, edited
  by the client and rebuilt; every value type has its own encoding, validation and
  text form.  What is handled must be what was meant, and no handler may be given a
  message it cannot read.
* **Addresses and metrics.**  Several modems may claim one address; updates travel
  beside the queues, not in them.  An address must have one owner, and what a client
  gave must arrive.
* **Threads.**  Client threads, the library's thread and its callbacks share the
  information base under two mutexes; initialization and termination hand the
  library from one thread to the other and back.

PROJECT.json lists these hazards at their lines, with the properties that cover
them.

## Modules and the code they model

| Module | Models |
|---|---|
| `Peer` | one endpoint of a session: the `Peer` object with the information base as it sees it. Operators from endpoints to endpoints, one per method |
| `DlepSession` | EXTENDS `Peer`: a modem and a router, the TCP connection between them, their clients, timers, creation and removal of peers |
| `DestAdvert` | neighbours that advertise their routers, the lossy network, this modem's table, purge timer and client |
| `Discovery` | several routers and modems: discovery, offers, connects, accepts, peers maps, cleanup |
| `DataItem` | the value types of data items: serialize, deserialize, validate, print, read text |
| `ProtocolMessage` | EXTENDS `DataItem`: one message object, from header to parse and validation |
| `MessageStream` | abstract: what a session promises its handlers, messages whole and in order |
| `SessionStream` | one direction of a session's byte stream: writes, partial writes, the receive buffer; implements `MessageStream` |
| `Wire` | EXTENDS `ProtocolMessage` and `SessionStream`: messages from the sender's data items to the receiver's |
| `InfoBase` | a router and several modems: metrics and addresses in the information base, the messages that carry them, the address checks |
| `ProtocolConfig` | loading the protocol configuration, element by element |
| `Startup` | EXTENDS `ProtocolConfig`: the threads and mutexes, from `DlepInit` to `terminate` |
| `MC...` | values for the constants of the runs, one module per specification; `Discovery` needs none |
| `PeerProofs`, `DlepSessionProofs` | lemmas about the methods of `Peer`; theorems about sessions |
| `StreamProofs` | `SessionStream` implements `MessageStream` |
| `InfoBaseProofs`, `DestAdvertProofs`, `DiscoveryProofs` | theorems about these modules |
| `ProtocolConfigProofs`, `StartupProofs` | lemmas about loading the configuration; theorems about `Startup` |

**Atomicity.**  A handler or service call that holds `dlep->mutex` from beginning
to end is one step, with every state change it makes.  A read that returns several
messages is several `Receive` steps.  Packet send and completion are one step; the
network may delay the packet.

**`Peer`.**  An endpoint is a record: `pstate` (`Peer::pstate`), `pending`
(`responses_pending`; entries with type and number of tries), `local_pdp` and
`peer_pdp` (sets of destinations), `needs_response` and `asked` (responses the
client owes), `not_interested`, `acktivity` and `heartbeat` (is the timer armed),
`cancelled` (timers that were cancelled and whose handlers may already be queued),
`heartbeats` (did the peer tell a positive interval), `out` (written by this step), and
`cause`, a history variable: why the session was terminated.  Data items are
abstracted to the outcome of the checks made on them (`Inputs`: does the message
validate, do its IP addresses conflict, are its metrics known, which status does
the client return, is the response sent at all).  The message names, which of them expect
responses, who may send them and which status codes terminate come from
`dlep-rfc-8175.xml`, and so does the rule that a Link_Characteristics_Response has
exactly one Status (`status_ok`): `link_characteristics_response` adds none, so that only a
reply whose client puts one among its data items validates, as the example client's
automatic reply does (ExampleDlepClientImpl.cpp:773).  `ProtocolMessage::add_status` replaces a status that the
configuration lacks (`Invalid_Message` becomes `Invalid_Data`), which matters,
because that status terminates the session.

**`DlepSession`.**  `stream[n]` is what node n has not read.  `TcpConnect` needs
both ends to be without a peer; overlapping connections are the subject of
`Discovery`.  When an end closes its socket the other reads what is left and then
the end of the stream.  When the connection breaks each end finds the end of its
stream, or with `"vanish"` finds nothing: a host that is gone tells nobody.  Time is
abstracted: an armed timer may fire at any moment, but `ResponseOverdue` only when
nothing that would answer is on its way, unless `Env` has `"late"`.

Cancelling a timer does not stop a handler that is already queued.  `HandlerAfterStop`
runs it: the one of the activity timer is scheduled again only if the peer is not
terminating (Peer.cpp:498), the one of the heartbeat timer always (Peer.cpp:925).  A timer that is scheduled again keeps the `Peer`
alive when `cleanup_ex_peers` has removed it from the map, and with it the socket, which
the other end then does not see closed.  (A handler that finds a response overdue
after the stop is the environment `"overdue_at_stop"`.)  `Heartbeats` says which
ends have a positive heartbeat interval.

`Env` names what may go wrong in an instance, and
`ClientOps` what each client calls.  Clients answer with `destination_up` or
`linkchar_reply` only what they were asked, and call `destination_*` outside a
handshake unless `Env` has `"early_calls"`.

**`DestAdvert`.**  The neighbours' side (`destinations`, send timer) and the
receiver's table `db`; an entry's `age` stands for its timestamp.  The receiver
never looks at the sequence number and uptime of an advertisement, so they are
left out.  The data items of a call are a function from some metrics to values:
the table replaces them (`update_advert_entry_data_items`), a destination merges
them (`DestinationData::update`).  Each router is attached to one neighbour.

**`Discovery`.**  A connection is the states of the `Peer` objects at its two ends;
`peers` is the router's map, keyed by the modem's address and port.  The modem's
map is keyed by the port the router connects from, so each of its peers has an
entry.  A `Peer` that is replaced in the map lives on until its read ends.  A router sends
its next discovery whatever became of the last one.  `Failing` are the routers whose send
may fail, after which they send no more.

**`DataItem`, `ProtocolMessage`.**  The code has a case for each value type
in each of its visitors; the model gives each type a *layout*, a sequence of field
kinds, and has one operator per visitor on field kinds.  A byte has `Radix` values
(256 in the code; 8 in the run), and integers keep their width in bytes, so that
truncation and length limits are met early.  A thrown exception is a result with
`ok = FALSE`.  `pm` is the message object: `building` data item by data item, `checked`
(parsed and shown to the client in `peer_init`), edited, `rebuilt`, or `threw`.

**`SessionStream`.**  `send_session_message` starts an asynchronous write.  What the
socket takes at once is on the `wire`; a rest is written later, from memory that is
kept only for messages that await a response.  Nothing in the code waits for a write
to end before it starts the next.  The history variable `spoiled` records that writes
overlapped, or that memory was written that the code had freed; what follows is then
any of the outcomes, and the properties speak of streams that are not spoiled.  The
receiver reads into what is left of its buffer, hands on complete messages, and moves
the rest to the front.

**`InfoBase`.**  `local_pdp` is each modem's data, `peer` the router's `Peer` with its
`peer_pdp`.  A data item set is a function from metrics to values (or `Absent`), the
addresses it adds and those it drops.  `ip_data_items` never holds two equal entries,
so it is a set, and an address stands for its type, value and prefix length.
`pending` is `responses_pending` with contents, whose heads have been sent; Destination_Update
is sent beside it.  The history variable `overtaken` records that an update was sent
while a Destination_Up was still queued.  The router's client accepts every
destination and both ends of a session end together: refusals, retransmission and
termination are the subject of `DlepSession`.

**`ProtocolConfig`.**  An element of the document is a record, with `None` for fields
that are absent; each `extract_module_*` is an action that either extends the maps or
throws (`load = "bad"`), with the code's order of tests.  XML parsing and validation
against the schema are one step that fails or succeeds.

**`Startup`.**  `pc` and `op` say where each client thread is, `io` and `handler` where
the library's thread is; `mutex` (recursive, with its depth) and `advert_mutex` are the
two locks.  What a call or a handler does is modelled in the other modules; here it
is the set of shared variables it reads or writes between locking and unlocking
(`OpAccess`, `HandlerAccess`).  The lock of the advertisement database ends with the block
that uses it (`unlock_advert`); what `destination_update` and `destination_down` do after it
(place `"rest"`) is under `dlep->mutex` only.  `initialize`, with the notification of the waiting
thread and spurious wake-ups, loads the configuration of `ProtocolConfig` step by
step; exceptions it does not catch end the process, and so do those of socket calls in a
handler (`handler_exception`: Peer.cpp:39, Dlep.cpp:312).  Clients keep two rules: a
callback calls the service only when the client has it, and `terminate` is called
when no other thread is in a call, and not from a callback.

Bounds, all named constants: `MaxQueue` and `MaxStream` (client messages per queue,
unacknowledged messages per stream) limit only the clients' guards; `MaxAge` merges
ages beyond the purge limits; `MaxPeers` limits routers per neighbour; `Ids` the
connections that exist at once; `MaxItems` data items of a message; `MaxSent` messages
sent; `MaxCalls` client calls; `MaxElements` elements of a configuration document;
`MaxWork` elements and service calls together.  `SendTries`, `SocketSize` and
`BufferSize` are parameters of the configuration, the system and the code.

## Runs

Ten passing runs:

| Run | Instance | Checks |
|---|---|---|
| `session_refusal` | 1 destination brought up, updated and down, the router's client may refuse and asks for link characteristics; 3 messages per queue; conflicting addresses, missing Status, connection loss with and without notice; any number of sessions | `ViewsAgree` |
| `session_requests` | 2 destinations; router announces and asks for link characteristics, modem's client answers later, both update the session; 2 messages per queue | `TransactionModel`, `SessionStable` |
| `session_timing` | 1 destination; premature retransmission, lost responses, silence, heartbeats of the modem, handlers after a cancel, connection loss with and without notice | `TypeOK`, `OnlyHeadSent`, `HandshakeOrder` |
| `session_live` | 1 destination, 3 messages per queue; silence, heartbeats, connection loss with and without notice, conflicting addresses, invalid messages; fair | `QueuesServed`, `TerminationPropagates`, `HandshakeDecided` |
| `advert_core` | a neighbour with 2 routers; loss, restart, failing sends, repeated destination_up; whole and partial metrics; entries expire | `TypeOK`, `NothingLeftBehind` |
| `advert_live` | as above, no expiry, no failing sends; fair | `Converges`, `DeclaredTranslated` |
| `discovery_live` | 2 routers, 1 modem, 2 connections; loss, failing connects, overlapping discoveries, one router whose sends may fail, routers that vanish; fair | `NoStaleEntry`, `ModemDiscovered` |
| `wire` | a data item of each value type, in messages of up to 2 items, edited, rebuilt, damaged in each byte, printed and read; 3 messages of 4 to 10 bytes over a socket of 6 and a buffer of 9; fair | `TypeOK`, `ReadsBack`, `NoByteIgnored`, `HandlersCanRead`, `TextReadsBack`, `DeliversMessages`, `Delivered` |
| `infobase` | 2 modems, 1 destination each, 2 addresses, 1 metric; 3 messages per queue, 4 client calls; any number of sessions | `TypeOK`, `AddressesDisjoint`, `DestinationsMirrored`, `RefusedChangesNothing` |
| `startup` | documents of up to 4 elements in 2 modules, 2 client threads, destination advertisement on; fair | `TypeOK`, `MapsAgree`, `ReferencesResolve`, `ServiceReady`, `RacesOnlyWithAdvert`, `CallsReturn`, no deadlock |

In words:

* `TransactionModel`: of each queue at most one exchange is under way (on the wire,
  or with the peer's client), it belongs to the head, and what comes back answers
  the head.
* `SessionStable`: no end terminates for a protocol error, a timeout or bad data.  This
  depends on the clients: it holds when they accept every destination, ask for link
  characteristics with metrics and answer with a Status, and do not take down
  what the other end asks about.  It fails in `session_refusal`.
* `ViewsAgree`: in a session with nothing under way, `peer_pdp` at each end is the
  other's `local_pdp`, up to refused destinations.
* `OnlyHeadSent`: no entry behind the head has been transmitted.
* `HandshakeOrder`: a router in session faces a modem that has been in session.
* `QueuesServed`: a queue of a live session does not keep its head for ever.
* `TerminationPropagates`: no end stays in a session the other has left, although
  neither Session_Termination nor the end of the connection may reach it.
  `HandshakeDecided`: each connection becomes a session or is dropped, except by
  a modem whose router is gone before the handshake and that nothing tells so
  (`Stranded`; see `DeadPeerRemoved` below).
* `NothingLeftBehind`: a local destination is one that the table has under an RF ID the
  client has declared up.  `DeclaredTranslated`: with no expiry, the default, and
  the other way round.  `Converges`: with no expiry, once a
  neighbour is stable, the local destinations become and stay its routers.
* `NoStaleEntry`: every entry of a router's map has its live `Peer`.
  `ModemDiscovered`: a modem without a peer gets one.
* `ReadsBack`: however a message is built or rebuilt, parsing its bytes gives the data
  items it was asked to carry.  `NoByteIgnored`: a message with one byte changed, or
  cut short, is refused or read as something else.  `HandlersCanRead`: a message that
  validates, damaged or not, has every data item its handler gets, with its type.
  `TextReadsBack`: printed data
  items are read back as the same.
* `DeliversMessages`: `SessionStream` implements `MessageStream`: handlers are given the
  messages that were sent, whole, once and in order.  `Delivered`: and each is, in the end.
* `AddressesDisjoint`: no address belongs to two destinations in the router's base.
  `DestinationsMirrored`: when a session is quiet the router has the modem's
  destinations, with their metrics and addresses unless an update overtook its
  Destination_Up.  `RefusedChangesNothing`: a refused message has changed nothing.
* `MapsAgree`, `ReferencesResolve`: ids and names correspond one to one, all maps tell
  the same story, references are defined and no data item contains itself.
* `ServiceReady`: the client gets a service only with a complete configuration (so that
  it may read it without a lock), and no thread is left behind by a failed
  `DlepInit` or by `terminate`.  `CallsReturn`: both return.
* `RacesOnlyWithAdvert`: two threads use the same data, one of them writing, only
  while a handler of destination advertisement runs and no client holds its mutex, and
  never the database of advertised destinations.

Why the bounds suffice: the queues of different destinations interact only through
the session queue, the stream and termination, which one or two destinations show;
a queue of three has a head, one that is next and one behind that; two tries tell
the first, a retransmission and giving up apart; two routers race for a modem, each with
a connect of its own under way, or one of them with two.  Ages matter only relative to the
purge limits.  In `wire` data items do not interact but through lengths and
positions, which two of them show, and three messages leave a whole one behind a
split one.  A queue of three in `infobase` holds up, down and up again, the case that
an update can overtake; four calls are enough to fill it and send the update, or to
let two modems claim the same address twice (five calls, 2.4 million states, also
pass).  Four elements of `startup` are two definitions, one reference and one
extension.

`session_timing`, `wire` and `infobase` do not check for deadlock: a modem whose router is
gone without notice may wait for ever in a handshake (without clients that end
the process), and the messages and client calls of the other two are bounded.

`infobase_metrics` and `refusal_ignored` end in a violation of what a comment says; see
[disagreements](#disagreements-between-code-and-documentation).

## Fairness

* `DlepSession`: weak fairness of `MakePeer`, `Receive`, `CleanupExPeers` and
  `ResponseOverdue` of each node, and of `InactivityTimeout` once the connection is gone.
  The `io_service` thread runs every handler that is
  ready; the cleanup timer re-arms itself every five seconds; the activity timer
  every second while the peer is active, and it finds a peer inactive from which
  nothing can come any more, if that peer has told a heartbeat interval.  Nothing is
  assumed of clients, of heartbeats or of a new TCP connect, nor of inactivity while the
  connection stands.
* `DestAdvert`: weak fairness of the send timer; strong fairness of the arrival of
  each advertisement: a packet that is sent again and again is not lost each time.
* `Discovery`: weak fairness of the discovery timer, of completions, of reading the
  end of a stream, of the activity check and of cleanup; strong fairness of packet
  arrival and of connects.  Nothing is assumed of session establishment.
* `Wire`: weak fairness of continuing a write and of the receive loop: both are
  handlers of an `io_service` thread that keeps running.  Nothing is assumed of sending.
* `Startup`: weak fairness of every thread that can go on, which includes that the
  client's callbacks return; strong fairness of getting a mutex that is free again and
  again.  Nothing is assumed of new calls or of spurious wake-ups.

## Proofs

The theorems hold for every value of the constants that satisfies the named
assumptions of the modules: any set of destinations, modems, routers, threads or
messages, any number of tries, and every combination of faults except those a
theorem names in its `ASSUME`.  Where it names a fault, the statement is false with it,
and the table of disagreements below has the counterexample; what `Benign` excludes is
discussed under *Stable sessions*.

| Theorem | States | Under |
|---|---|---|
| `DlepSessionProofs`: `TypeCorrect`, `HeadSent`, `Handshake` | `TypeOK`, `OnlyHeadSent`, `HandshakeOrder` | |
| `DlepSessionProofs`: `Transactions` | `TransactionModel` | no response overdue while it is on its way (no `"late"`) |
| `DlepSessionProofs`: `Stable`, `Views` | `SessionStable`, `ViewsAgree` | `Benign` |
| `StreamProofs`: `DeliversInOrder` | `DeliversMessages` | messages whose length field is right |
| `InfoBaseProofs`: `TypeCorrect`, `RouterMirrorsModem`, `AddressesStayDisjoint`, `RefusalChangesNothing` | `TypeOK`, `DestinationsMirrored`, `AddressesDisjoint`, `RefusedChangesNothing` | |
| `DestAdvertProofs`: `TypeCorrect` | `TypeOK` | |
| `DestAdvertProofs`: `LeavesNothing` | `NothingLeftBehind` | hold interval 0 |
| `DestAdvertProofs`: `Translation` | `DeclaredTranslated` | hold interval 0, no expiry |
| `DiscoveryProofs`: `EntriesLive` | `NoStaleEntry` | |
| `StartupProofs`: `TypeCorrect`, `ConfigurationAgrees`, `ConfigurationResolves`, `ServiceIsReady`, `RacesConfined` | `TypeOK`, `MapsAgree`, `ReferencesResolve`, `ServiceReady`, `RacesOnlyWithAdvert` | |

**Sessions.**  None of `TypeOK`, `OnlyHeadSent` and `HandshakeOrder` is inductive:

* tries stay within bounds only because entries behind the head have not been
  transmitted, so that an entry that becomes the head starts from zero; and a
  message belongs on the queue where its response will look for it.  `WellFormed`
  says this of an endpoint.
* `HandshakeOrder` needs to know what is on the wire: while the modem is still
  handshaking, the router is not in session *and* no Session_Initialization_Response
  is on its way to the router.  This is `HandshakeInv`.

`SessionInv` is the conjunction.  `PeerProofs` shows, operator by operator, that each
method takes well-formed endpoints to well-formed ones and is *tame*: it does not
enter the session, does not fall back into the handshake and does not write a
Session_Initialization_Response.  The two handlers of the handshake are the
exceptions, treated on their own.  `DlepSessionProofs` lifts this to the steps of the
composition, one lemma per kind of step.

The handlers of the handshake set `in_session` whatever the state is, so that a
terminating peer stays terminating only if neither message
of the handshake can reach it.  `CalmInv`, which `Stable` and `Views` rest on, says where the
two messages can be: each is
only ever the first message of its stream, and is there only while the end that will read
it is in the state that expects it (`StreamsOK`); an end that waits for a response has
its activity timer running (`EndpointCalm`).  It is preserved in an environment that is
`Orderly`: responses are neither late nor suppressed nor overdue at a stop, so that
nothing is retransmitted while it is still on its way, both ends learn that the connection
is gone, and clients do not call during the handshake.  Without that, a terminating peer can
be revived (`TerminatingIsFinal`, below).

**Transactions.**  `TransactionModel` is about what exists of an exchange at the two
ends and on both streams, so a step of either end can break it.  `FlightInv` says, for
each queue of an endpoint while the connection lasts, that the request on its way, the
request that the peer's client still owes an answer to, and the response on its way back
are the one at the head of the queue, and that no two of them exist at once.
`PeerProofs` shows for each method what one end contributes, `Kept`: the endpoint asks
(`Asked`) only on a queue that waits for nothing, or that is free because its response was
just read or is overdue with nothing under way, and then asks for the new head; and it
answers (`Answered`) at most one of the requests that it owes or just read, and no longer
owes it afterwards.  For the handlers of messages this needs that a request arrives
only while the client owes nothing about the same destination, which `FlightInv` gives
(`Reads`).  `FlightStep` puts the two halves together: what one end asks concerns its own
queues, what it answers those of its peer.  The one hypothesis is that no response counts
as overdue while it is on its way, since a retransmission makes a second copy of the
request; with `"late"` TLC finds that within a few steps.  Responses may be suppressed,
the clients may call anything at any time, and the handshake need not be orderly: a
terminating peer that is revived still keeps to the model.

**Stable sessions.**  That no end ever finds a fault with the other depends on everything
both ends hold and on both streams: `handle_destination_up` terminates for a destination
that the router has already, `handle_destination_down` for one that it lacks,
`handle_response` for a response that the head of the queue does not wait for, and
`check_for_retransmits` for one that never comes.  `StableInv`, on top of `SessionInv`,
`CalmInv` and `FlightInv`, says why none of these happens:

* `Tidy`, of each endpoint: it has no cause to terminate, the destinations are the modem's,
  no answer is left to a client, and nothing waits about a refused destination.
* `Served`, while there is a connection: the request at the head of every queue that is not
  empty, or its response, is on its way.  So nothing is ever overdue (`NeverOverdue`).
* `Mirror`, of each destination while the modem is in session: its queue alternates
  between up and down; the last request says what the modem has, the first one what the
  router has still to learn, or has learned once the response is on its way; with
  nothing queued, the two agree or the router has refused and has nothing.
* `StreamStable`: what is in a stream can be read by its owner.  When the connection is
  gone, the stream of each end that still reads ends with EOF, and what comes before it
  is as acceptable as it was when the connection broke, although the peer is gone or
  has already a new `Peer`: `Matched` and `Sound` say so without reference to the
  other end.

`Hears` collects what the handlers of `Peer` do to one end; `StableCommit` shows that a
step of that form preserves the invariant at both; one lemma each follows for the steps
that end a session or begin one.  `ViewsAgree` is `Mirror` with empty queues.

`Benign` is the range of instances around `session_refusal`: any destinations, tries, queue
and stream bounds; the modem's client brings destinations up and down, both
clients update and terminate; metrics, heartbeats and loss of the link, of which both ends
are told; the router's client accepts or refuses.  With refusals a client has to wait for the answer before it calls again
(`MaxQueue <= 1`); otherwise a Destination_Down that was queued behind a refused
Destination_Up is sent after all, for a destination the router never had, and that ends
the session (`refusal_ignored`, below).  Adding `"late"`, `"suppress"`, `"early_calls"`, the status Request_Denied, or
updates or link characteristics requests of destinations that also go down makes
`SessionStable` false, each within a few hundred states.

**The byte stream.**  The invariant relates the bytes on their way to the messages sent
by position: `off[i]` is where message i ends in the stream of all bytes ever sent.
What the receiver has buffered and the wire carries begins where the last handled
message ends (`Carries`), and the unfinished writes, of which only the first may be
accepted in part, go on where the wire ends (`Continues`).  `Enqueue`, `Transfer` and
`Handling` show how a send, a write and a handled message move these marks.  A complete
message in the buffer has the header of the next message sent, and hence its length.
`off` and the unwritten bytes are existentially quantified (`Whole`), and nothing is said
once the stream is spoiled, which is when `MessageStream` allows anything.  The theorem
is about `StreamSpec(M)`, the stream of any set `M` of messages.  The steps that `Wire`
takes on the stream are of this form with the messages it builds, but `Wire` uses
the recursive operators of `DataItem`, so that it cannot be instantiated in a proof.

**The information base.**  For each modem, `ModemOK` says which requests are in flight
(at most the head of each queue, once: `FlightOK`), that the router stores no metric of
a peer (the disagreement of `infobase_metrics`, which is why every change of one ends
the session), and that a session that nothing on its way will end *mirrors*: handling
the messages on the wire takes what the router has of a destination to what the modem
has, or to what the queued messages will make of it.  What a sequence of messages does
is a chain of values, one for each message, so that adding one at the back or handling
one at the front changes only an end of it; no induction over the sequence is needed.
`AddressesStayDisjoint` follows from what one step stores, since each
message is checked against all of the router's bases; so does `RefusalChangesNothing`.

**Advertisement.**  `AdvertInv` says that the local destinations are what the table has up
(`Translated`), with the types and `HomesKept` (an entry, an advertisement under way and a
neighbour list only routers of that neighbour), without which one entry's purge could
take down another's destination.  `UpLinked`, that an RF ID that is up was declared up,
turns this into `NothingLeftBehind`; `LinkedUp`, that one declared up has an entry that is up,
into `DeclaredTranslated`, and needs that no entry is erased.  With a hold
interval both theorems are false (`HeardKept`, below).

**Discovery.**  `NoStaleEntry` is inductive with the types.

**Start and threads.**  `StartupInv` joins two invariants.  `LoadInv`: what each element of
the configuration has been checked for when it is stored; its maps agree, references
resolve, and among any data items there is one that contains none of the others, so that
none contains itself at any depth.  `ThreadInv`: who holds each mutex in which place (`Locks`, `AdvertLocks`), and how
far the two threads of `DlepInit` can be apart (`Phases`).  `RacesConfined` then follows by
comparing what two threads access with the mutexes they hold: two that hold `dlep->mutex`
are one, so one of two that race is a handler of destination advertisement, and the
other does not hold the mutex of the database, without which it does not use it.

**Assumptions.**  `NoneAssumption`, `AbsentAssumption` and the like say that a value standing
for "nothing" is not one of the values; sizes are natural numbers, a header and a socket
are not empty; `Main` is a client thread and `Io` is not.  TLC evaluates each on the runs.

**Only model-checked.**  All liveness properties (TLAPS has no proof rules for fairness
here).  `SessionStable` of routers that announce destinations and ask for link
characteristics (`session_requests`): there `Mirror` would be needed in both directions, with
the answers that a client defers.  What `Wire` says of
values (`ReadsBack`, `NoByteIgnored`, `HandlersCanRead`, `TextReadsBack`) and its `TypeOK`: the operators of `DataItem` recurse over nested data
items, so what they compute is out of the prover's reach.

## Disagreements between code and documentation

With a run, and an entry under "findings" in PROJECT.json:

* `infobase_metrics`: Dlep.cpp:88 says that Session_Initialization_Response declares the
  modem's metrics to its peers.  The router compares them with the empty data of the
  new peer, finds each of them unknown and rejects them all (Peer.cpp:1312,
  InfoBaseMgr.cpp:426); the result is ignored.  A later Session_Update with a metric is
  answered Invalid_Message, which ends the session.
* `refusal_ignored`: DlepClient.h:169 says that Not_Interested tells the peer "to refrain from
  sending further messages about this mac_address".  `handle_destination_up_response`
  serves the queue before it records the refusal (Peer.cpp:1479): a Destination_Down queued
  behind the refused Destination_Up is sent, and the router, which has no such
  destination, ends the session.

### Other disagreements

These were found with the same models.  Each is a definition in the properties
of its module; replace the properties of the configuration by it and make the change
given here, if any, to see it fail (`QueuesServed`, `TerminatingIsFinal`, `HeardKept`,
`DeadPeerRemoved`, `PendingKept` and `SendsForever` as PROPERTY, the others as INVARIANT, with
CHECK_DEADLOCK FALSE and without SYMMETRY).

| Statement | Source | Configuration | What happens |
|---|---|---|---|
| `QueuesServed` | UserGuide.md:479 | `session_live` with `"late"` added to `Env` | the handshake handlers set `in_session` whatever the state is: a retransmitted Session_Initialization revives a terminating modem peer whose timers are stopped, and its requests are neither retransmitted nor given up (Peer.cpp:1218) |
| `TerminatingIsFinal` | Peer.cpp:863 | `session_timing` | the same revival, also by a queued activity handler that finds Session_Initialization overdue after the stop and sends it again |
| `StoppedTimersStayStopped` | Peer.cpp:910 | `session_live` | a heartbeat handler that is queued when its timer is cancelled is called without an error, and schedules the timer again (Peer.cpp:925): the `Peer` outlives its removal from the map (Dlep.cpp:540) and its socket stays open |
| `LinkcharHarmless` | DlepClient.h:205 | `session_requests` with `Env = {"empty_request"}` | the automatic answer to a request without metrics has no Status, of which the configuration asks one (dlep-rfc-8175.xml:822); the router answers it with Invalid_Message and ends the session (Peer.cpp:713, 1872) |
| `RetransmissionHarmless` | Peer.h:110 | `session_timing` with `Env = {"suppress"}`, `ClientOps <- ModemUpDown` | the receiver answers a retransmitted Destination_Up whose response was lost with a status that terminates the session (Peer.cpp:1399) |
| `DestinationsNeedSession` | DlepService.h:64 | `session_refusal` with `Env = {"early_calls"}` | destination_up during the handshake sends Destination_Up to a peer not in session, and again when the handshake ends (InfoBaseMgr.cpp:278) |
| `TerminationAnnounced` | Peer.h:68 | `session_live` | Session_Termination behind an unanswered session message is never sent (Peer.cpp:859) |
| `OneInFlight` | Peer.h:300 | `session_timing` | Destination_Update bypasses the queue (Peer.cpp:649) |
| `UpdatesMirrored` | Peer.cpp:649 | `infobase` | an update that overtakes a queued down and up is applied to the old destination, and lost with it |
| `HeardKept` | Design.md:270 | `advert_core` with `HoldInterval = 1`, `ExpireCount = 0` | the placeholder mark is not cleared when the advertisement arrives; a hold purge then erases the entry and leaves its destinations behind (DestAdvert.cpp:187) |
| `PendingKept` | UserGuide.md:361 | `advert_core` | with hold interval 0, "wait forever", a placeholder is erased at the first purge: its report interval is 0 (DestAdvert.cpp:390) |
| `AdvertisesItsRouters` | Peer.cpp:2010 | `advert_core` | the end of one session clears the destinations of all (Peer.cpp:2011) |
| `SendsForever` | Design.md:157 | `advert_live` with `"send_error"` added to `Faults` | a failed send leaves the send timer unarmed (PeriodicMcastSendRcv.cpp:239) |
| `DeclaredTranslated` | Design.md:171 | `advert_core` | an entry that expires is erased (DestAdvert.cpp:404), and the next advertisement makes one that is down although the client still has its RF ID declared up (DestAdvert.cpp:133): its destinations are forgotten |
| `ModemHasOnePeer` | Dlep.cpp:598 | `discovery_live` | a discovery sent while a connect is under way leads to a second connect, which the modem accepts; so do two routers at once |
| `PeersMapped` | Peer.cpp:863 | `discovery_live` | the second connect replaces the first live `Peer` in the router's map (Dlep.cpp:324), where the cleanup no longer finds it |
| `DeadPeerRemoved` | UserGuide.md:430 | `discovery_live` | a router whose host goes down between connect and handshake leaves a modem peer that is never found inactive and blocks discovery (Peer.cpp:370) |
| `NeverSpoiled` | PeriodicMcastSendRcv.cpp:283 | `wire` | there the buffer is bound to the completion handler; `send_session_message` starts a write while another is unfinished, and writes from a buffer that is gone (Peer.cpp:75) |
| `NoRace` | DlepServiceImpl.cpp:16 | `startup` | handlers of destination advertisement change `local_pdp` and the queues without `dlep->mutex` (DestAdvert.cpp:117), while peer_update, the queries, or destination_down and destination_update after they have released the advertisement lock (DlepServiceImpl.cpp:164, 233), use them; and they read `destinations` (DestAdvert.cpp:61) while `terminate` clears it: the two hold no common mutex |
| `FailureReported` | DlepInit.h:33 | `startup` | `initialize` catches only BadParameterName: a bad protocol configuration, or a session port in use, ends the process instead of making DlepInit return nullptr (Dlep.cpp:258); so does, later, a connection that is gone when its `Peer` is made (Peer.cpp:39) |
| `ServiceAlive` | Dlep.cpp:258 | `startup` | BadParameterName thrown by a handler ends the library's thread; the client is not told |

Seen while translating, without a definition of their own:

* A repeated `destination_up` of an RF ID that is up stores its data items in the table but
  does not give them to the destinations that are there (DlepServiceImpl.cpp:65); an
  update with some of the metrics replaces all of the table's (DestAdvert.cpp:287), so that
  a router advertised later is announced without the others, while those already
  there keep them.
* A heartbeat interval below 500 ms rounds to 0 seconds, which turns the inactivity check
  off (Peer.cpp:1131), and the product of interval and threshold may overflow
  (Peer.cpp:383).
* The addresses of Session_Initialization_Response and Destination_Announce, and those
  the router's client adds, are stored without `validate_ip_data_items`.  Adding an address
  the destination already has, or dropping one it has not, is an error that ends the session.
  `peer_remove_data_items` tells no peer.
* A message longer than `MAX_SIGNAL_SIZE` (65536, while a length field allows 65539 bytes with
  its header) fills the receive buffer, and the receiver then reads zero bytes again and
  again (Peer.cpp:1041); `Delivered` excludes such messages.  `update_message_length`
  throws only after the message has grown.  `parse` does not look at the length field.
* DataItem.h calls `from_string` the inverse of `to_string`: it is not for strings that are
  empty or have spaces, nor for empty MAC addresses (`Printable` excludes them).
* A signal and a message may share a name, although `get_signal_id` assumes they do not
  (ProtocolConfigImpl.cpp:1067); an element that repeats an id and a name is merged
  silently (757); the response of an extending element is ignored, and such an element may
  change the message flag, after which its response is looked up in the wrong map; sub data
  items of one parent may share an id; id 0 cannot be a response, although the schema
  allows it.
* The example client's `linkchar_request` uses `dlep_service` (ExampleDlepClientImpl.cpp:773),
  which ExampleMain.cpp:76 sets only after DlepInit has returned; the library may call
  back before.

## Not modelled

* Reads and writes that complete after they were cancelled.  (Queued timer handlers are
  modelled, and the `Peer` that one of them keeps alive only through its open socket.)
* Heartbeat intervals as numbers, and the time that `check_for_activity` computes from them.
* The choice among the addresses of an offer, IPv6 scopes, socket set-up; extensions
  and experiments.
* XML parsing and schema validation are one step; of the configuration `dlep-rfc-8175`
  the session models use the messages, responses, senders and status codes, and `wire`
  a smaller one with a data item of each type.
* Data items that are neither metrics nor addresses in the information base, and the
  contents of the read-only answers of `DlepServiceImpl`.
* `NetUtils`, `DlepLogger`, `Table` and the commands and printing of the example client:
  pure I/O.

## Plan

1. `StableInv` for routers that announce destinations and for link characteristics
   requests: `Mirror` in both directions, and a deferred answer as a third place
   where an exchange can be (`Owed` in `FlightInv`).
2. Crossing Destination_Down and Link_Characteristics_Request; two neighbours that
   advertise the same router; the addresses of Destination_Announce.
3. *PeerLifecycle*: asynchronous reads and writes as operations under way, as a refinement
   of the removal of peers in `DlepSession`.
4. An abstract specification of a session as both clients see it (up, down,
   destinations known), with `DlepSession` shown to implement it.
