-------------------------- MODULE DlepSessionProofs --------------------------
(***************************************************************************)
(* Theorems about DlepSession, for every set of destinations, every        *)
(* send-tries, every behaviour of the environment and of the clients.      *)
(*                                                                         *)
(* SessionInv has two parts.  EndpointsOK is what the operations of one    *)
(* endpoint preserve (module PeerProofs).  HandshakeInv strengthens        *)
(* HandshakeOrder by the message that could break it: while the modem is   *)
(* still in the handshake, no Session_Initialization_Response is on its    *)
(* way to the router.  In an environment that is Orderly, CalmInv adds     *)
(* where the two messages of the handshake can be, so that no session that *)
(* is over comes up again.  FlightInv adds, where no response is late,     *)
(* where what exists of a transaction can be: on its way, owed by a        *)
(* client, or on the way back.  StableInv, for instances that are Benign,  *)
(* adds that every exchange is served and that what is queued and on its   *)
(* way takes the router's view of each destination to the modem's.         *)
(***************************************************************************)
EXTENDS DlepSession, PeerProofs

EndpointsOK ==
  /\ ep \in [Node -> Endpoint]
  /\ \A n \in Node : /\ WellFormed(ep[n])
                     /\ ep[n].out = <<>>
                     /\ ep[n].modem = (n = "modem")
  /\ stream \in [Node -> Seq(Message)]
  /\ link \in BOOLEAN

HandshakeInv ==
  Handshaking(ep["modem"]) =>
    ep["router"].pstate # "in_session" /\ NoInitResponse(stream["router"])

SessionInv == EndpointsOK /\ HandshakeInv

-----------------------------------------------------------------------------
(* Facts about the steps of one process.                                   *)

\* A new Peer is well formed.
LEMMA NewPeerOK ==
  ASSUME NEW modem \in BOOLEAN, NEW s \in PeerStates, NEW D \in SUBSET Dests
  PROVE  /\ WellFormed(NewPeer(modem, s, D))
         /\ NewPeer(modem, s, D).out = <<>>
         /\ NewPeer(modem, s, D).modem = modem
         /\ NewPeer(modem, s, D).pstate = s
  BY DEF NewPeer, WellFormed, Endpoint, Causes, Disciplined, HeadOnly,
         RightQueue

\* A new Peer of either node is well formed and starts its handshake.
LEMMA NewPeerOfNode ==
  ASSUME NEW n, NEW s \in PeerStates, NEW D \in SUBSET Dests
  PROVE  LET p == NewPeer(n = "modem", s, D)
         IN  /\ WellFormed(p)
             /\ p.out = <<>>
             /\ p.modem = (n = "modem")
             /\ p.pstate = s
<1> DEFINE b == (n = "modem")
<1>1. b \in BOOLEAN
  BY Zenon
<1> HIDE DEF b
<1>2. /\ WellFormed(NewPeer(b, s, D))
      /\ NewPeer(b, s, D).out = <<>>
      /\ NewPeer(b, s, D).modem = b
      /\ NewPeer(b, s, D).pstate = s
  BY <1>1, NewPeerOK
<1> QED
  BY <1>2 DEF b

\* There are two nodes, each the other's peer.
LEMMA NodeFacts ==
  /\ \A n \in Node : Other(n) \in Node /\ Other(n) # n
  /\ Other("router") = "modem" /\ Other("modem") = "router"
  /\ "router" \in Node /\ "modem" \in Node
  BY DEF Node, Other

\* The end of a stream is no Session_Initialization_Response.
LEMMA EofIsMessage == EOF \in Message /\ NoInitResponse(<<EOF>>)
  BY DestsAssumption
  DEF EOF, Msg, Message, MessageTypes, Unacknowledged, Queues, Statuses,
      DestinationTypes, NoInitResponse

\* Emptying the output buffer of an endpoint.
LEMMA Flushed ==
  ASSUME NEW e, WellFormed(e)
  PROVE  LET f == [e EXCEPT !.out = <<>>]
         IN  /\ WellFormed(f)
             /\ f.out = <<>>
             /\ f.modem = e.modem
             /\ f.pstate = e.pstate
<1> DEFINE f == [e EXCEPT !.out = <<>>]
<1>1. <<>> \in Seq(Message)
  OBVIOUS
<1>2. f \in Endpoint /\ f.pending = e.pending
  BY <1>1 DEF WellFormed, Endpoint
<1>3. f.out = <<>> /\ f.modem = e.modem /\ f.pstate = e.pstate
  BY DEF WellFormed, Endpoint
<1> QED
  BY <1>2, <1>3 DEF WellFormed

\* A step that ends with Commit keeps the types.
LEMMA CommitTypes ==
  ASSUME EndpointsOK, NEW n \in Node, NEW e, WellFormed(e),
         e.modem = (n = "modem"), NEW rest \in Seq(Message),
         Commit(n, e, rest)
  PROVE  EndpointsOK'
<1> DEFINE f == [e EXCEPT !.out = <<>>]
<1>1. WellFormed(f) /\ f.out = <<>> /\ f.modem = (n = "modem")
  BY Flushed
<1>2. ep' = [ep EXCEPT ![n] = f]
  BY DEF Commit
<1> HIDE DEF f
<1>3. /\ ep' \in [Node -> Endpoint]
      /\ \A k \in Node : /\ WellFormed(ep'[k])
                         /\ ep'[k].out = <<>>
                         /\ ep'[k].modem = (k = "modem")
  BY <1>1, <1>2 DEF EndpointsOK, WellFormed
<1>4. e.out \in Seq(Message)
  BY DEF WellFormed, Endpoint
<1>5. stream' \in [Node -> Seq(Message)]
  <2>1. stream \in [Node -> Seq(Message)]
    BY DEF EndpointsOK
  <2>2. stream[Other(n)] \o e.out \in Seq(Message)
    BY <1>4, <2>1, NodeFacts
  <2> QED
    BY <2>1, <2>2 DEF Commit
<1>6. link' \in BOOLEAN
  BY DEF Commit, EndpointsOK
<1> QED
  BY <1>3, <1>5, <1>6 DEF EndpointsOK

\* What Commit does to the state of the peer and to the streams.
LEMMA CommitEffect ==
  ASSUME EndpointsOK, NEW n \in Node, NEW e, WellFormed(e),
         NEW rest \in Seq(Message), Commit(n, e, rest)
  PROVE  /\ ep'[n].pstate = e.pstate
         /\ ep'[Other(n)] = ep[Other(n)]
         /\ stream'[n] = rest
         /\ stream'[Other(n)] \in {stream[Other(n)], stream[Other(n)] \o e.out}
<1> DEFINE f == [e EXCEPT !.out = <<>>]
<1>1. f.pstate = e.pstate
  BY Flushed
<1>2. ep' = [ep EXCEPT ![n] = f]
  BY DEF Commit
<1> HIDE DEF f
<1> QED
  BY <1>1, <1>2, NodeFacts DEF Commit, EndpointsOK

\* A step that does not complete the handshake, and reads at most one
\* message, preserves the invariant.
LEMMA TameCommit ==
  ASSUME SessionInv, NEW n \in Node, NEW e, WellFormed(e), Tame(ep[n], e),
         NEW rest \in Seq(Message),
         NoInitResponse(stream[n]) => NoInitResponse(rest),
         Commit(n, e, rest)
  PROVE  SessionInv'
<1>1. EndpointsOK /\ HandshakeInv
  BY DEF SessionInv
<1>2. e.modem = (n = "modem")
  BY <1>1 DEF EndpointsOK, Tame
<1>3. EndpointsOK'
  BY <1>1, <1>2, CommitTypes
<1>4. /\ ep'[n].pstate = e.pstate
      /\ ep'[Other(n)] = ep[Other(n)]
      /\ stream'[n] = rest
      /\ stream'[Other(n)] \in {stream[Other(n)], stream[Other(n)] \o e.out}
  BY <1>1, CommitEffect
<1>5. CASE n = "modem"
  <2>1. NoInitResponse(ep[n].out)
    BY <1>1 DEF EndpointsOK, NoInitResponse
  <2>2. NoInitResponse(e.out) /\ e.out \in Seq(Message)
    BY <2>1 DEF Tame, WellFormed, Endpoint
  <2>3. ASSUME Handshaking(ep'["modem"])
        PROVE  /\ ep'["router"].pstate # "in_session"
               /\ NoInitResponse(stream'["router"])
    <3>1. Handshaking(ep["modem"])
      BY <1>4, <1>5, <2>3 DEF Tame, Handshaking
    <3>2. /\ ep["router"].pstate # "in_session"
          /\ NoInitResponse(stream["router"])
      BY <1>1, <3>1 DEF HandshakeInv
    <3>3. NoInitResponse(stream["router"] \o e.out)
      BY <1>1, <2>2, <3>2, ConcatNoInitResponse, NodeFacts DEF EndpointsOK
    <3> QED
      BY <1>4, <1>5, <3>2, <3>3, NodeFacts
  <2> QED
    BY <1>3, <2>3 DEF SessionInv, HandshakeInv
<1>6. CASE n = "router"
  <2>1. ASSUME Handshaking(ep'["modem"])
        PROVE  /\ ep'["router"].pstate # "in_session"
               /\ NoInitResponse(stream'["router"])
    <3>1. Handshaking(ep["modem"])
      BY <1>4, <1>6, <2>1, NodeFacts
    <3>2. /\ ep["router"].pstate # "in_session"
          /\ NoInitResponse(stream["router"])
      BY <1>1, <3>1 DEF HandshakeInv
    <3> QED
      BY <1>4, <1>6, <3>2 DEF Tame
  <2> QED
    BY <1>3, <2>1 DEF SessionInv, HandshakeInv
<1> QED
  BY <1>5, <1>6 DEF Node

\* A step that ends with Close removes the peer of n.
LEMMA CloseStep ==
  ASSUME SessionInv, NEW n \in Node, NEW e, WellFormed(e),
         NEW D \in SUBSET Dests, NEW closed \in BOOLEAN,
         Close(n, e, NewPeer(n = "modem", "nonexistent", D), closed)
  PROVE  SessionInv'
<1> DEFINE f == NewPeer(n = "modem", "nonexistent", D)
<1>1. EndpointsOK /\ HandshakeInv
  BY DEF SessionInv
<1>2. /\ WellFormed(f)
      /\ f.out = <<>>
      /\ f.modem = (n = "modem")
      /\ f.pstate = "nonexistent"
  <2>1. "nonexistent" \in PeerStates
    BY DEF PeerStates
  <2> QED
    BY <2>1, NewPeerOfNode, ZenonT(60)
<1> HIDE DEF f
<1>3. ep' = [ep EXCEPT ![n] = f]
  BY DEF Close, f
<1>4. /\ ep' \in [Node -> Endpoint]
      /\ \A k \in Node : /\ WellFormed(ep'[k])
                         /\ ep'[k].out = <<>>
                         /\ ep'[k].modem = (k = "modem")
  BY <1>1, <1>2, <1>3 DEF EndpointsOK, WellFormed
<1>5. PICK tail \in {stream[Other(n)], <<EOF>>,
                     stream[Other(n)] \o e.out \o <<EOF>>} :
        stream' = [stream EXCEPT ![n] = <<>>, ![Other(n)] = tail]
  BY DEF Close
<1>6. tail \in Seq(Message)
  <2>1. stream[Other(n)] \in Seq(Message) /\ e.out \in Seq(Message)
    BY <1>1, NodeFacts DEF EndpointsOK, WellFormed, Endpoint
  <2>2. <<EOF>> \in Seq(Message)
    BY EofIsMessage
  <2>3. stream[Other(n)] \o e.out \in Seq(Message)
    BY <2>1
  <2>4. stream[Other(n)] \o e.out \o <<EOF>> \in Seq(Message)
    BY <2>2, <2>3
  <2> QED
    BY <1>5, <2>1, <2>2, <2>4
<1>7. stream' \in [Node -> Seq(Message)] /\ stream'[n] = <<>>
  <2>1. stream \in [Node -> Seq(Message)] /\ <<>> \in Seq(Message)
    BY <1>1 DEF EndpointsOK
  <2> QED
    BY <1>5, <1>6, <2>1, NodeFacts
<1>8. EndpointsOK'
  BY <1>4, <1>7 DEF EndpointsOK, Close
<1>9. HandshakeInv'
  <2>1. CASE n = "modem"
    BY <1>1, <1>2, <1>3, <2>1 DEF EndpointsOK, HandshakeInv, Handshaking
  <2>2. CASE n = "router"
    <3>1. NoInitResponse(stream'["router"])
      BY <1>7, <2>2 DEF NoInitResponse
    <3>2. ep'["router"].pstate = "nonexistent"
      BY <1>1, <1>2, <1>3, <2>2 DEF EndpointsOK
    <3> QED
      BY <3>1, <3>2 DEF HandshakeInv
  <2> QED
    BY <2>1, <2>2 DEF Node
<1> QED
  BY <1>8, <1>9 DEF SessionInv

-----------------------------------------------------------------------------
(* The invariant is inductive.                                             *)

\* The initial states satisfy the invariant.
LEMMA InvInit == Init => SessionInv
<1> SUFFICES ASSUME Init PROVE SessionInv
  OBVIOUS
<1> DEFINE p(n) == NewPeer(n = "modem", "nonexistent", {})
<1>1. \A n \in Node : /\ WellFormed(p(n))
                      /\ p(n).out = <<>>
                      /\ p(n).modem = (n = "modem")
                      /\ p(n).pstate = "nonexistent"
  <2>1. "nonexistent" \in PeerStates /\ {} \in SUBSET Dests
    BY DEF PeerStates
  <2> TAKE n \in Node
  <2> QED
    BY <2>1, NewPeerOfNode, ZenonT(60)
<1>2. ep = [n \in Node |-> p(n)]
  BY DEF Init
<1> HIDE DEF p
<1>3. EndpointsOK
  <2>1. <<>> \in Seq(Message)
    OBVIOUS
  <2> QED
    BY <1>1, <1>2, <2>1 DEF Init, EndpointsOK, WellFormed
<1>4. HandshakeInv
  BY <1>1, <1>2, NodeFacts DEF HandshakeInv, Handshaking
<1> QED
  BY <1>3, <1>4 DEF SessionInv

\* A new connection starts the handshake with empty streams.
LEMMA TcpConnectStep ==
  ASSUME SessionInv, TcpConnect PROVE SessionInv'
<1> DEFINE p(n) == NewPeer(n = "modem", "connecting", ep[n].local_pdp)
<1>1. \A n \in Node : /\ WellFormed(p(n))
                      /\ p(n).out = <<>>
                      /\ p(n).modem = (n = "modem")
                      /\ p(n).pstate = "connecting"
  <2>1. \A n \in Node : ep[n].local_pdp \in SUBSET Dests
    BY DEF SessionInv, EndpointsOK, WellFormed, Endpoint
  <2>2. "connecting" \in PeerStates
    BY DEF PeerStates
  <2> TAKE n \in Node
  <2> DEFINE D == ep[n].local_pdp
  <2>3. D \in SUBSET Dests
    BY <2>1
  <2> HIDE DEF D
  <2>4. /\ WellFormed(NewPeer(n = "modem", "connecting", D))
        /\ NewPeer(n = "modem", "connecting", D).out = <<>>
        /\ NewPeer(n = "modem", "connecting", D).modem = (n = "modem")
        /\ NewPeer(n = "modem", "connecting", D).pstate = "connecting"
    BY <2>2, <2>3, NewPeerOfNode, ZenonT(60)
  <2> QED
    BY <2>4, ZenonT(60) DEF D
<1>2. ep' = [n \in Node |-> p(n)]
  BY DEF TcpConnect
<1> HIDE DEF p
<1>3. EndpointsOK'
  <2>1. <<>> \in Seq(Message)
    OBVIOUS
  <2> QED
    BY <1>1, <1>2, <2>1 DEF TcpConnect, EndpointsOK, WellFormed
<1>4. HandshakeInv'
  BY <1>1, <1>2, NodeFacts DEF TcpConnect, HandshakeInv, NoInitResponse
<1> QED
  BY <1>3, <1>4 DEF SessionInv

\* A connection that breaks loses messages and adds only the end of stream.
LEMMA LinkLossStep ==
  ASSUME SessionInv, LinkLoss PROVE SessionInv'
<1>1. <<EOF>> \in Seq(Message)
  BY EofIsMessage
<1>2. \A n \in Node : stream'[n] = <<EOF>> \/ stream'[n] = <<>>
  BY DEF LinkLoss
<1>3. stream' \in [Node -> Seq(Message)]
  <2>1. <<>> \in Seq(Message)
    OBVIOUS
  <2>2. {<<EOF>>} \cup (IF "vanish" \in Env THEN {<<>>} ELSE {}) \subseteq Seq(Message)
    BY <1>1, <2>1
  <2> QED
    BY <2>2 DEF LinkLoss
<1>4. EndpointsOK'
  BY <1>3 DEF SessionInv, EndpointsOK, LinkLoss
<1>5. NoInitResponse(stream'["router"])
  BY <1>2, EofIsMessage, NodeFacts DEF NoInitResponse
<1>6. HandshakeInv'
  BY <1>5 DEF SessionInv, HandshakeInv, LinkLoss
<1> QED
  BY <1>4, <1>6 DEF SessionInv

\* Reading the next message: the one step that may complete a handshake.
LEMMA ReceiveStep ==
  ASSUME SessionInv, NEW n \in Node, Receive(n) PROVE SessionInv'
<1> DEFINE m == Head(stream[n])
           rest == Tail(stream[n])
<1>1. EndpointsOK /\ HandshakeInv /\ WellFormed(ep[n])
  BY DEF SessionInv, EndpointsOK
<1>2. stream[n] \in Seq(Message) /\ stream[n] # <<>>
  BY <1>1 DEF EndpointsOK, Receive
<1>3. m \in Message /\ rest \in Seq(Message)
  BY <1>2
<1>4. PICK c \in HandlerInputs :
        Commit(n, handle_session_receive(ep[n], m, c), rest)
  BY DEF Receive
<1>5. c \in Inputs
  BY ClientAssumption DEF HandlerInputs, Inputs, FaultFree
<1> DEFINE f == handle_session_receive(ep[n], m, c)
<1>6. Handled(ep[n], m, f)
  <2> HIDE DEF m
  <2> QED
    BY <1>1, <1>3, <1>5, HandleSessionReceive
<1>7. NoInitResponse(stream[n]) => NoInitResponse(rest)
  BY <1>2 DEF NoInitResponse
<1>8. m = stream[n][1] /\ 1 \in DOMAIN stream[n]
  BY <1>2
<1> HIDE DEF f, m, rest
<1>9. CASE Tame(ep[n], f)
  BY <1>3, <1>4, <1>6, <1>7, <1>9, TameCommit DEF Handled, f
<1>10. CASE ~Tame(ep[n], f)
  <2>1. /\ WellFormed(f)
        /\ f.modem = ep[n].modem
        /\ f.pstate = "in_session"
        /\ ep[n].modem \/ m.type = "Session_Initialization_Response"
    BY <1>6, <1>10 DEF Handled, Completed, Plain
  <2>2. ep[n].modem = (n = "modem")
    BY <1>1 DEF EndpointsOK
  <2>3. EndpointsOK'
    BY <1>1, <1>3, <1>4, <2>1, <2>2, CommitTypes DEF f
  <2>4. ep'[n].pstate = "in_session" /\ ep'[Other(n)] = ep[Other(n)]
    BY <1>1, <1>3, <1>4, <2>1, CommitEffect DEF f
  <2>5. ~Handshaking(ep'["modem"])
    <3>1. CASE n = "modem"
      BY <2>4, <3>1 DEF Handshaking
    <3>2. CASE n = "router"
      <4>1. m.type = "Session_Initialization_Response"
        BY <2>1, <2>2, <3>2
      <4>2. ~NoInitResponse(stream["router"])
        BY <1>8, <3>2, <4>1 DEF NoInitResponse
      <4>3. ~Handshaking(ep["modem"])
        BY <1>1, <4>2 DEF HandshakeInv
      <4> QED
        BY <2>4, <3>2, <4>3, NodeFacts
    <3> QED
      BY <3>1, <3>2 DEF Node
  <2> QED
    BY <2>3, <2>5 DEF SessionInv, HandshakeInv
<1> QED
  BY <1>9, <1>10

\* Every other step of a process is an operation of its endpoint.
LEMMA ProcessStep ==
  ASSUME SessionInv, NEW n \in Node, NEW e, WellFormed(e), Tame(ep[n], e),
         Commit(n, e, stream[n])
  PROVE  SessionInv'
  BY TameCommit DEF SessionInv, EndpointsOK

\* The handshake has not begun to change anything but the state.
Fresh(e) ==
  /\ Handshaking(e) /\ e.peer_pdp = {} /\ e.asked = {} /\ ~e.heartbeats
  /\ \A d \in Dests : e.pending[d] = <<>>

Idle(e, f) ==
  /\ f.pstate = e.pstate /\ f.pending = e.pending /\ f.out = e.out
  /\ f.peer_pdp = e.peer_pdp /\ f.asked = e.asked /\ f.heartbeats = e.heartbeats

\* Node n goes on as f without reading, and keeps to the transaction model:
\* it asks nothing where a request is under way and answers only what it
\* owes.  If clients leave handshakes alone, a step in one changes at most
\* the local destinations.
Keeps(e, f) == Kept(e, f, {}, [q \in Queues |-> Owed(e, q)], TRUE)

Moved(n, f) ==
  /\ WellFormed(f) /\ Plain(ep[n], f) /\ Commit(n, f, stream[n])
  /\ Keeps(ep[n], f)
  /\ Fresh(ep[n]) /\ "early_calls" \notin Env => Idle(ep[n], f)

\* The peer of node n is removed, and its socket closed with e's last words,
\* unless a heartbeat timer still holds on to a peer that was stopped.
Left(n, e, D) ==
  /\ D \in SUBSET Dests /\ D \subseteq ep[n].local_pdp /\ WellFormed(e)
  /\ e = ep[n] \/ (InMap(ep[n]) /\ e = terminate(ep[n], "Client"))
  /\ \E closed \in BOOLEAN :
       /\ closed \/ ep[n].pstate = "terminating"
       /\ Close(n, e, NewPeer(n = "modem", "nonexistent", D), closed)

\* An endpoint that writes nothing, changes no queue and owes no more keeps to
\* the transaction model.
LEMMA KeepsSame ==
  ASSUME NEW e, NEW f, e.out = <<>>, f.out = e.out, f.pending = e.pending,
         f.needs_response \subseteq e.needs_response, f.asked \subseteq e.asked
  PROVE  Keeps(e, f)
<1>1. \A q \in Queues : Owed(f, q) \subseteq Owed(e, q)
  BY DEF Owed
<1> QED
  BY <1>1, KeptStart DEF Keeps

\* What the timers of a process do.
LEMMA TimerMove ==
  ASSUME SessionInv, NEW n \in Node, TimerStep(n)
  PROVE  \/ \E q \in Queues : ResponseOverdue(n, q)
         \/ \E f : Moved(n, f)
         \/ \E e, D : Left(n, e, D)
<1>1. WellFormed(ep[n]) /\ ep[n].out = <<>> /\ Keeps(ep[n], ep[n])
  BY KeepsSame DEF SessionInv, EndpointsOK
<1>2. ASSUME InactivityTimeout(n) PROVE Moved(n, PeerInactive(ep[n]))
  <2>1. LET f == PeerInactive(ep[n])
        IN  WellFormed(f) /\ Plain(ep[n], f) /\ Keeps(ep[n], f)
    BY <1>1, TimedOut, KeptTimedOut DEF PeerInactive, Keeps
  <2> QED
    BY <1>2, <2>1 DEF InactivityTimeout, Moved, Fresh
<1>3. ASSUME Commit(n, handle_heartbeat_timeout(ep[n]), stream[n])
      PROVE  Moved(n, handle_heartbeat_timeout(ep[n]))
  <2>1. Fresh(ep[n]) => handle_heartbeat_timeout(ep[n]) = Armed(ep[n])
    BY DEF Fresh, Handshaking, handle_heartbeat_timeout, Armed
  <2>2. Fresh(ep[n]) => Idle(ep[n], handle_heartbeat_timeout(ep[n]))
    BY <1>1, <2>1, ArmedSame DEF Idle
  <2>3. Keeps(ep[n], handle_heartbeat_timeout(ep[n]))
    BY <1>1, KeptPeerUpdate DEF Keeps
  <2> QED
    BY <1>1, <1>3, <2>2, <2>3, HandleHeartbeatTimeout DEF Moved
<1>4. ASSUME CleanupExPeers(n) PROVE Left(n, ep[n], ep[n].local_pdp)
  <2> DEFINE closed == ~ep[n].heartbeat
  <2>1. ep[n].local_pdp \in SUBSET Dests /\ closed \in BOOLEAN
    BY <1>1 DEF WellFormed, Endpoint
  <2>2. /\ ep[n].pstate = "terminating"
        /\ Close(n, ep[n], NewPeer(n = "modem", "nonexistent", ep[n].local_pdp), closed)
    BY <1>4, ZenonT(60) DEF CleanupExPeers
  <2> HIDE DEF closed
  <2> QED
    BY <1>1, <2>1, <2>2, ZenonT(60) DEF Left
<1>5. ASSUME InMap(ep[n]), Commit(n, acktivity_after_stop(ep[n]), stream[n])
      PROVE  Moved(n, acktivity_after_stop(ep[n]))
  <2> DEFINE f == acktivity_after_stop(ep[n])
  <2>1. /\ WellFormed(f) /\ Plain(ep[n], f)
        /\ f.pending = ep[n].pending /\ f.out = ep[n].out /\ f.pstate = ep[n].pstate
        /\ f.needs_response = ep[n].needs_response /\ f.asked = ep[n].asked
        /\ f.peer_pdp = ep[n].peer_pdp /\ f.heartbeats = ep[n].heartbeats
    BY <1>1, <1>5, AcktivityAfterStop DEF InMap
  <2> HIDE DEF f
  <2>2. Keeps(ep[n], f) /\ Idle(ep[n], f)
    BY <1>1, <2>1, KeepsSame DEF Idle
  <2> QED
    BY <1>5, <2>1, <2>2 DEF Moved, f
<1>6. ASSUME HeartbeatTimeout(n) \/ HandlerAfterStop(n) PROVE \E f : Moved(n, f)
  BY <1>3, <1>5, <1>6, Zenon DEF HeartbeatTimeout, HandlerAfterStop
<1> QED
  BY <1>2, <1>4, <1>6, Zenon DEF TimerStep

\* What the calls of a client do.
LEMMA ClientMove ==
  ASSUME SessionInv, NEW n \in Node, ClientStep(n)
  PROVE  (\E f : Moved(n, f)) \/ \E e, D : Left(n, e, D)
<1>1. WellFormed(ep[n]) /\ ep[n].out = <<>> /\ Keeps(ep[n], ep[n])
  BY KeepsSame DEF SessionInv, EndpointsOK
<1>1a. ASSUME NEW op, CallsDestination(n, op), Fresh(ep[n]), "early_calls" \notin Env
       PROVE  ~InMap(ep[n])
  BY <1>1a DEF CallsDestination, Fresh, Handshaking, InMap
<1>2. ASSUME NEW d \in Dests, ServiceDestinationUp(n, d) PROVE \E f : Moved(n, f)
  <2> DEFINE e == [ep[n] EXCEPT !.local_pdp = @ \cup {d}]
             f == IF InMap(ep[n]) THEN destination_up(e, d) ELSE e
  <2>1. /\ WellFormed(e) /\ Plain(ep[n], e) /\ Idle(ep[n], e)
        /\ e.out = <<>> /\ Keeps(ep[n], e)
    <3>1. Idle(ep[n], e) /\ e.out = <<>> /\ e.needs_response = ep[n].needs_response
      BY <1>1 DEF WellFormed, Endpoint, Idle
    <3>2. WellFormed(e) /\ Plain(ep[n], e)
      BY <1>1, <3>1, SameQueues DEF WellFormed, Endpoint
    <3> HIDE DEF e
    <3> QED
      BY <1>1, <3>1, <3>2, KeepsSame DEF Idle
  <2>2. Commit(n, f, stream[n])
    BY <1>2, ZenonT(60) DEF ServiceDestinationUp, TellPeer
  <2> HIDE DEF e
  <2>3. WellFormed(f) /\ Plain(ep[n], f)
    BY <2>1, DestinationUp, PlainTransitive
  <2>4. Fresh(ep[n]) /\ "early_calls" \notin Env => Idle(ep[n], f)
    BY <1>1a, <1>2, <2>1 DEF ServiceDestinationUp
  <2>5. Keeps(ep[n], f)
    BY <2>1, KeptDestinationUp DEF Keeps
  <2> HIDE DEF f
  <2> QED
    BY <2>2, <2>3, <2>4, <2>5 DEF Moved
<1>3. ASSUME NEW d \in Dests, ServiceDestinationDown(n, d) PROVE \E f : Moved(n, f)
  <2> DEFINE e == [ep[n] EXCEPT !.local_pdp = @ \ {d}]
             f == IF InMap(ep[n]) THEN destination_down(e, d) ELSE e
             g == RemovePeerDestination(ep[n], d)
             h == destination_down(g, d)
  <2>1. /\ WellFormed(e) /\ Plain(ep[n], e) /\ Idle(ep[n], e)
        /\ e.out = <<>> /\ Keeps(ep[n], e)
    <3>1. Idle(ep[n], e) /\ e.out = <<>> /\ e.needs_response = ep[n].needs_response
      BY <1>1 DEF WellFormed, Endpoint, Idle
    <3>2. WellFormed(e) /\ Plain(ep[n], e)
      BY <1>1, <3>1, SameQueues DEF WellFormed, Endpoint
    <3> HIDE DEF e
    <3> QED
      BY <1>1, <3>1, <3>2, KeepsSame DEF Idle
  <2>2. Commit(n, f, stream[n]) \/ (Commit(n, h, stream[n]) /\ ep[n].peer_pdp # {})
    BY <1>3, ZenonT(60) DEF ServiceDestinationDown, TellPeer
  <2> HIDE DEF e
  <2>3. WellFormed(f) /\ Plain(ep[n], f)
    BY <2>1, DestinationDown, PlainTransitive
  <2>4. Fresh(ep[n]) /\ "early_calls" \notin Env => Idle(ep[n], f)
    BY <1>1a, <1>3, <2>1 DEF ServiceDestinationDown
  <2>5. WellFormed(h) /\ Plain(ep[n], h)
    BY <1>1, RemoveDestination, DestinationDown, PlainTransitive
  <2>6. Keeps(ep[n], f)
    BY <2>1, KeptClient DEF Keeps
  <2>7. Keeps(ep[n], h)
    <3>1. WellFormed(g)
      BY <1>1, RemoveDestination
    <3>2. /\ g.out = ep[n].out /\ g.pending = ep[n].pending /\ g.asked = ep[n].asked
          /\ g.needs_response \subseteq ep[n].needs_response
      BY <1>1 DEF RemovePeerDestination, WellFormed, Endpoint
    <3> HIDE DEF g
    <3>3. Keeps(ep[n], g)
      BY <1>1, <3>2, KeepsSame
    <3> QED
      BY <3>1, <3>3, KeptClient DEF Keeps
  <2> HIDE DEF f, h
  <2> QED
    BY <2>2, <2>3, <2>4, <2>5, <2>6, <2>7 DEF Moved, Fresh
<1>4. ASSUME NEW d \in Dests, ServiceDestinationUpdate(n, d)
      PROVE  Moved(n, destination_update(ep[n], d))
  <2>1. Keeps(ep[n], destination_update(ep[n], d))
    BY <1>1, KeptClient DEF Keeps
  <2> QED
    BY <1>1, <1>1a, <1>4, <2>1, DestinationUpdate DEF ServiceDestinationUpdate, Moved
<1>5. ASSUME NEW d \in Dests, ServiceLinkcharRequest(n, d)
      PROVE  Moved(n, link_characteristics_request(ep[n], d))
  <2>1. Keeps(ep[n], link_characteristics_request(ep[n], d))
    BY <1>1, KeptClient DEF Keeps
  <2> QED
    BY <1>1, <1>5, <2>1, LinkCharacteristicsRequest
    DEF ServiceLinkcharRequest, Moved, Fresh
<1>6. ASSUME NEW d \in Dests, ServiceLinkcharReply(n, d) PROVE \E f : Moved(n, f)
  <2> DEFINE e == [ep[n] EXCEPT !.asked = @ \ {d}]
  <2>1. WellFormed(e) /\ Plain(ep[n], e)
    BY <1>1, SameQueues DEF WellFormed, Endpoint
  <2>2. PICK send \in FaultFree("suppress"),
             s \in ClientStatuses \cup IF "no_status" \in Env THEN {"none"} ELSE {} :
          Commit(n, link_characteristics_response(e, d, s, send), stream[n])
    BY <1>6 DEF ServiceLinkcharReply
  <2>3. send \in BOOLEAN /\ s \in Statuses
    BY ClientAssumption DEF FaultFree, Statuses
  <2>3a. /\ e.out = <<>> /\ e.pending = ep[n].pending
         /\ e.needs_response = ep[n].needs_response /\ e.asked = ep[n].asked \ {d}
    BY <1>1 DEF WellFormed, Endpoint
  <2> DEFINE f == link_characteristics_response(e, d, s, send)
  <2> HIDE DEF e
  <2>4. WellFormed(f) /\ Plain(ep[n], f)
    BY <2>1, <2>3, LinkCharacteristicsResponse, PlainTransitive
  <2>5. ~Fresh(ep[n]) /\ d \in ep[n].asked
    BY <1>6 DEF ServiceLinkcharReply, Fresh
  <2>6. Keeps(ep[n], f)
    <3> DEFINE t == "Link_Characteristics_Request"
               D == [q \in Queues |-> Owed(ep[n], q)]
    <3>1. /\ t \in Requests /\ ResponseTo[t] = "Link_Characteristics_Response"
          /\ "Link_Characteristics_Response" \in DestinationTypes
          /\ d \in Queues
      BY RequestNames DEF ResponseTo, DestinationTypes, Queues
    <3>2. t \in D[d] /\ t \notin Owed(e, d)
      BY <2>3a, <2>5, <3>1 DEF Owed
    <3>3. Kept(ep[n], e, {}, D, TRUE)
      BY <1>1, <2>3a, KeepsSame DEF Keeps
    <3> HIDE DEF D, t
    <3>4. Kept(ep[n], f, {}, D, TRUE)
      BY <2>1, <2>3, <2>3a, <3>1, <3>2, <3>3, KeptSimpleResponse
      DEF link_characteristics_response
    <3> QED
      BY <3>4 DEF Keeps, D
  <2> QED
    BY <2>2, <2>4, <2>5, <2>6 DEF Moved
<1>7. ASSUME ServicePeerUpdate(n) PROVE Moved(n, peer_update(ep[n]))
  <2>1. Fresh(ep[n]) => peer_update(ep[n]) = ep[n]
    BY DEF Fresh, Handshaking, peer_update
  <2>2. Fresh(ep[n]) => Idle(ep[n], peer_update(ep[n]))
    BY <2>1 DEF Idle
  <2>3. Keeps(ep[n], peer_update(ep[n]))
    BY <1>1, KeptPeerUpdate DEF Keeps
  <2> QED
    BY <1>1, <1>7, <2>2, <2>3, PeerUpdate DEF ServicePeerUpdate, Moved
<1>8. ASSUME ServiceTerminate(n) PROVE \E e, D : Left(n, e, D)
  <2> DEFINE e == IF InMap(ep[n]) THEN terminate(ep[n], "Client") ELSE ep[n]
  <2>1. WellFormed(e)
    BY <1>1, Terminate DEF Causes
  <2>2. Close(n, e, NewPeer(n = "modem", "nonexistent", {}), TRUE)
    BY <1>8, ZenonT(60) DEF ServiceTerminate
  <2>3. e = ep[n] \/ (InMap(ep[n]) /\ e = terminate(ep[n], "Client"))
    BY Zenon
  <2> HIDE DEF e
  <2> QED
    BY <2>1, <2>2, <2>3, ZenonT(60) DEF Left
<1> QED
  BY <1>2, <1>3, <1>4, <1>5, <1>6, <1>7, <1>8, Zenon DEF ClientStep

\* Every timer and every call of either client preserves the invariant.
LEMMA MoveInv ==
  ASSUME SessionInv, NEW n \in Node, TimerStep(n) \/ ClientStep(n)
  PROVE  SessionInv'
<1>1. WellFormed(ep[n])
  BY DEF SessionInv, EndpointsOK
<1>2. ASSUME NEW q \in Queues, ResponseOverdue(n, q) PROVE SessionInv'
  BY <1>1, <1>2, CheckForRetransmits, ProcessStep DEF ResponseOverdue
<1>3. ASSUME NEW f, Moved(n, f) PROVE SessionInv'
  BY <1>3, ProcessStep DEF Moved, Plain
<1>4. ASSUME NEW e, NEW D, Left(n, e, D) PROVE SessionInv'
  BY <1>4, CloseStep DEF Left
<1> QED
  BY <1>2, <1>3, <1>4, TimerMove, ClientMove

\* Every step preserves the invariant.
LEMMA InvNext == SessionInv /\ [Next]_vars => SessionInv'
<1> SUFFICES ASSUME SessionInv, [Next]_vars PROVE SessionInv'
  OBVIOUS
<1>1. CASE TcpConnect
  BY <1>1, TcpConnectStep
<1>2. CASE LinkLoss
  BY <1>2, LinkLossStep
<1>3. ASSUME NEW n \in Node, MakePeer(n) PROVE SessionInv'
  BY <1>3, StartPeer, ProcessStep DEF MakePeer, SessionInv, EndpointsOK
<1>4. ASSUME NEW n \in Node, Receive(n) PROVE SessionInv'
  BY <1>4, ReceiveStep
<1>5. ASSUME NEW n \in Node, TimerStep(n) \/ ClientStep(n) PROVE SessionInv'
  BY <1>5, MoveInv
<1>7. CASE UNCHANGED vars
  BY <1>7 DEF vars, SessionInv, EndpointsOK, HandshakeInv
<1> QED
  BY <1>1, <1>2, <1>3, <1>4, <1>5, <1>7 DEF Next

\* The invariant holds in every reachable state.
LEMMA InvAlways == Spec => []SessionInv
  BY InvInit, InvNext, PTL DEF Spec

-----------------------------------------------------------------------------
(* The theorems.                                                           *)

\* Every state is one that the code's types allow; in particular no message
\* is transmitted more than send-tries times, which handle_response and
\* check_for_retransmits together guarantee.
THEOREM TypeCorrect == Spec => []TypeOK
<1>1. SessionInv => TypeOK
  BY DEF SessionInv, EndpointsOK, TypeOK
<1> QED
  BY <1>1, InvAlways, PTL

\* In every queue of responses_pending only the head has been sent, whatever
\* is retransmitted, refused, lost or terminated.
THEOREM HeadSent == Spec => []OnlyHeadSent
<1>1. SessionInv => OnlyHeadSent
  BY DEF SessionInv, EndpointsOK, OnlyHeadSent, WellFormed, Disciplined,
         HeadOnly
<1> QED
  BY <1>1, InvAlways, PTL

\* The router is never in session with a modem that is still in the
\* handshake.
THEOREM Handshake == Spec => []HandshakeOrder
<1>1. SessionInv => HandshakeOrder
  BY DEF SessionInv, HandshakeInv, HandshakeOrder, Handshaking
<1> QED
  BY <1>1, InvAlways, PTL

-----------------------------------------------------------------------------
(* The streams of a handshake.                                             *)

Early(state) == state \in {"connecting", "connected"}

Starts(s, t) == s # <<>> /\ s[1].type = t

\* What can be on its way to a modem in state ms (sm) and to a router in
\* state rs (sr) over a connection that is up or down (up).
StreamsOK(ms, rs, sm, sr, up) ==
  /\ InitFirst(sm)
  /\ Starts(sm, "Session_Initialization") => Early(ms) /\ rs # "connecting"
  /\ Early(ms) /\ sm # <<>> => sm[1].type \in {"Session_Initialization", "EOF"}
  /\ ResponseFirst(sr)
  /\ Starts(sr, "Session_Initialization_Response") => rs = "connected"
  /\ Early(rs) /\ sr # <<>> =>
       sr[1].type \in {"Session_Initialization_Response", "EOF", "Session_Termination"}
  /\ rs = "connected" =>
       sr # <<>> \/ (Starts(sm, "Session_Initialization") /\ sm[1].dest = Session)
  /\ Early(rs) /\ ~up => sr # <<>>
  /\ up /\ rs = "connecting" => Early(ms) /\ sm = <<>>
  /\ up /\ Early(ms) => Early(rs) /\ sr = <<>>

\* What follows s when t has been written to the connection.
Written(s, t, up) == IF up THEN s \o t ELSE s

\* Writing to a stream and reading from it.
LEMMA WriteMore ==
  ASSUME NEW s \in Seq(Message), NEW t \in Seq(Message)
  PROVE  /\ s \o t \in Seq(Message)
         /\ InitFirst(s) /\ InitFree(t) => InitFirst(s \o t)
         /\ ResponseFirst(s) /\ NoInitResponse(t) => ResponseFirst(s \o t)
         /\ s # <<>> => s \o t # <<>> /\ (s \o t)[1] = s[1]
         /\ s = <<>> => s \o t = t
         /\ t = <<>> => s \o t = s
         /\ t # <<>> => s \o t # <<>>
         /\ InitFree(t) => ~Starts(t, "Session_Initialization")
         /\ NoInitResponse(t) => ~Starts(t, "Session_Initialization_Response")
<1>1. s \o t \in Seq(Message)
  OBVIOUS
<1>2. InitFirst(s) /\ InitFree(t) => InitFirst(s \o t)
  BY DEF InitFirst, InitFree
<1>3. ResponseFirst(s) /\ NoInitResponse(t) => ResponseFirst(s \o t)
  BY DEF ResponseFirst, NoInitResponse
<1>4. s # <<>> => s \o t # <<>> /\ (s \o t)[1] = s[1]
  OBVIOUS
<1>5. (s = <<>> => s \o t = t) /\ (t = <<>> => s \o t = s) /\ (t # <<>> => s \o t # <<>>)
  OBVIOUS
<1>6. InitFree(t) => ~Starts(t, "Session_Initialization")
  BY DEF InitFree, Starts
<1>7. NoInitResponse(t) => ~Starts(t, "Session_Initialization_Response")
  BY DEF NoInitResponse, Starts
<1> QED
  BY <1>1, <1>2, <1>3, <1>4, <1>5, <1>6, <1>7

LEMMA ReadFirst ==
  ASSUME NEW s \in Seq(Message), s # <<>>
  PROVE  /\ InitFirst(s) =>
              InitFirst(Tail(s)) /\ ~Starts(Tail(s), "Session_Initialization")
         /\ ResponseFirst(s) =>
              /\ ResponseFirst(Tail(s))
              /\ ~Starts(Tail(s), "Session_Initialization_Response")
<1>1. InitFirst(s) => InitFirst(Tail(s)) /\ ~Starts(Tail(s), "Session_Initialization")
  BY DEF InitFirst, Starts
<1>2. ResponseFirst(s) => /\ ResponseFirst(Tail(s))
                          /\ ~Starts(Tail(s), "Session_Initialization_Response")
  BY DEF ResponseFirst, Starts
<1> QED
  BY <1>1, <1>2

\* A modem that is not in the handshake reads at most one message and writes
\* none of the handshake.
LEMMA ModemGoesOn ==
  ASSUME NEW ms, NEW rs, NEW sm \in Seq(Message), NEW sr \in Seq(Message),
         NEW up \in BOOLEAN, StreamsOK(ms, rs, sm, sr, up), ~Early(ms),
         NEW ms2, ~Early(ms2), NEW rest,
         rest = sm \/ (sm # <<>> /\ rest = Tail(sm)),
         NEW out \in Seq(Message), NoInitResponse(out)
  PROVE  StreamsOK(ms2, rs, rest, Written(sr, out, up), up)
<1>1. InitFirst(rest) /\ ~Starts(rest, "Session_Initialization")
  BY ReadFirst DEF StreamsOK
<1> DEFINE s == Written(sr, out, up)
<1>2. /\ ResponseFirst(s)
      /\ sr # <<>> => s # <<>> /\ s[1] = sr[1]
      /\ sr = <<>> => ~Starts(s, "Session_Initialization_Response")
  BY WriteMore DEF StreamsOK, Written, Starts
<1>3. Early(rs) => sr # <<>>
  BY DEF StreamsOK, Early
<1> HIDE DEF s
<1> QED
  BY <1>1, <1>2, <1>3 DEF StreamsOK, Early, Starts, s

\* So does a router.
LEMMA RouterGoesOn ==
  ASSUME NEW ms, NEW rs, NEW sm \in Seq(Message), NEW sr \in Seq(Message),
         NEW up \in BOOLEAN, StreamsOK(ms, rs, sm, sr, up),
         NEW rs2, ~Early(rs2), NEW rest,
         ~Early(rs) \/ (rs = "connected" /\ sr # <<>> /\ rest = Tail(sr)),
         rest = sr \/ (sr # <<>> /\ rest = Tail(sr)),
         NEW out \in Seq(Message), InitFree(out)
  PROVE  StreamsOK(ms, rs2, Written(sm, out, up), rest, up)
<1>1. ResponseFirst(rest) /\ ~Starts(rest, "Session_Initialization_Response")
  BY ReadFirst DEF StreamsOK, Early
<1> DEFINE s == Written(sm, out, up)
<1>2. /\ InitFirst(s)
      /\ sm # <<>> => s # <<>> /\ s[1] = sm[1]
      /\ sm = <<>> => ~Starts(s, "Session_Initialization")
      /\ ~up => s = sm
  BY WriteMore DEF StreamsOK, Written, Starts
<1>3. ~(up /\ Early(ms))
  BY DEF StreamsOK, Early
<1> HIDE DEF s
<1> QED
  BY <1>1, <1>2, <1>3 DEF StreamsOK, Early, Starts, s

\* The modem's answer to Session_Initialization.
LEMMA ModemAnswers ==
  ASSUME NEW rs, NEW sm \in Seq(Message), NEW sr \in Seq(Message),
         NEW up \in BOOLEAN, StreamsOK("connected", rs, sm, sr, up), sm # <<>>,
         NEW ms2, ~Early(ms2),
         NEW out \in Seq(Message), ResponseFirst(out),
         sm[1].type = "Session_Initialization" =>
           /\ out # <<>>
           /\ out[1].type \in {"Session_Initialization_Response", "Session_Termination"},
         sm[1].type = "EOF" => out = <<>>
  PROVE  StreamsOK(ms2, rs, Tail(sm), Written(sr, out, up), up)
<1> DEFINE s == Written(sr, out, up)
<1>1. InitFirst(Tail(sm)) /\ ~Starts(Tail(sm), "Session_Initialization")
  BY ReadFirst DEF StreamsOK
<1>2. up => sr = <<>> /\ rs = "connected" /\ s = out
  BY WriteMore DEF StreamsOK, Early, Written
<1>3. ~up => s = sr
  BY DEF Written
<1>4. sm[1].type \in {"Session_Initialization", "EOF"}
  BY DEF StreamsOK, Early
<1>5. up => sm[1].type = "Session_Initialization"
  BY <1>2, <1>4 DEF StreamsOK, Starts
<1> HIDE DEF s
<1>6. CASE up
  BY <1>1, <1>2, <1>5, <1>6 DEF StreamsOK, Early, Starts, s
<1>7. CASE ~up
  BY <1>1, <1>3, <1>7 DEF StreamsOK, Early, Starts, s
<1> QED
  BY <1>6, <1>7

\* The router opens the handshake.
LEMMA RouterStarts ==
  ASSUME NEW ms, NEW sm \in Seq(Message), NEW sr \in Seq(Message),
         NEW up \in BOOLEAN, StreamsOK(ms, "connecting", sm, sr, up),
         NEW x \in Message, x.type = "Session_Initialization", x.dest = Session
  PROVE  StreamsOK(ms, "connected", Written(sm, <<x>>, up), sr, up)
<1> DEFINE s == Written(sm, <<x>>, up)
<1>1. InitFirst(<<x>>) /\ <<x>> # <<>> /\ <<x>>[1] = x /\ <<x>> \in Seq(Message)
  BY DEF InitFirst
<1>2. up => sm = <<>> /\ s = <<x>>
  BY <1>1, WriteMore DEF StreamsOK, Written
<1>3. ~up => s = sm
  BY DEF Written
<1> HIDE DEF s
<1>4. CASE up
  BY <1>1, <1>2, <1>4 DEF StreamsOK, Early, Starts, s
<1>5. CASE ~up
  BY <1>3, <1>5 DEF StreamsOK, Early, Starts, s
<1> QED
  BY <1>4, <1>5

\* The modem closes its socket, having written out; if data was unread, what
\* the router had not read may be lost.
LEMMA ModemCloses ==
  ASSUME NEW ms, NEW rs, NEW sm \in Seq(Message), NEW sr \in Seq(Message),
         NEW up \in BOOLEAN, StreamsOK(ms, rs, sm, sr, up),
         NEW out \in Seq(Message), NoInitResponse(out),
         Early(ms) /\ out # <<>> => out[1].type = "Session_Termination",
         NEW tail, ~up => tail = sr,
         up => \/ tail = <<EOF>> \/ tail = sr \o out \o <<EOF>>
               \/ ~Early(ms) /\ tail = sr
  PROVE  StreamsOK("nonexistent", rs, <<>>, tail, FALSE)
<1>1. /\ <<EOF>> \in Seq(Message) /\ <<EOF>> # <<>> /\ <<EOF>>[1].type = "EOF"
      /\ NoInitResponse(<<EOF>>)
  BY EofIsMessage DEF EOF, Msg
<1>2. InitFirst(<<>>) /\ ~Starts(<<>>, "Session_Initialization")
  BY DEF InitFirst, Starts
<1>3. CASE ~up
  BY <1>2, <1>3 DEF StreamsOK, Early, Starts
<1>4. CASE tail = <<EOF>>
  BY <1>1, <1>2, <1>4 DEF StreamsOK, Early, Starts, ResponseFirst
<1>5. CASE up /\ tail = sr \o out \o <<EOF>>
  <2> DEFINE s == sr \o out
  <2>1. /\ s \in Seq(Message) /\ ResponseFirst(s)
        /\ sr # <<>> => s # <<>> /\ s[1] = sr[1]
        /\ sr = <<>> => s = out
    BY WriteMore DEF StreamsOK
  <2> HIDE DEF s
  <2>2. /\ tail # <<>> /\ ResponseFirst(tail)
        /\ s # <<>> => tail[1] = s[1]
        /\ s = <<>> => tail[1].type = "EOF"
    <3>1. tail = s \o <<EOF>>
      BY <1>5 DEF s
    <3> QED
      BY <1>1, <2>1, <3>1, WriteMore
  <2>3. Early(rs) /\ sr = <<>> => Early(ms)
    BY <1>5 DEF StreamsOK, Early
  <2>4. NoInitResponse(out) /\ out # <<>> => out[1].type # "Session_Initialization_Response"
    BY DEF NoInitResponse
  <2> QED
    BY <1>2, <2>1, <2>2, <2>3, <2>4 DEF StreamsOK, Early, Starts
<1>6. CASE up /\ ~Early(ms) /\ tail = sr
  BY <1>2, <1>6 DEF StreamsOK, Early, Starts
<1> QED
  BY <1>3, <1>4, <1>5, <1>6

\* So does the router.
LEMMA RouterCloses ==
  ASSUME NEW ms, NEW rs, NEW sm \in Seq(Message), NEW sr \in Seq(Message),
         NEW up \in BOOLEAN, StreamsOK(ms, rs, sm, sr, up),
         NEW out \in Seq(Message), InitFree(out),
         rs = "connecting" => out = <<>>,
         NEW tail, ~up => tail = sm,
         up => \/ tail = <<EOF>> \/ tail = sm \o out \o <<EOF>>
               \/ ~Early(rs) /\ tail = sm
  PROVE  StreamsOK(ms, "nonexistent", tail, <<>>, FALSE)
<1>1. /\ <<EOF>> \in Seq(Message) /\ <<EOF>> # <<>> /\ <<EOF>>[1].type = "EOF"
      /\ InitFree(<<EOF>>) /\ InitFirst(<<EOF>>)
  BY EofIsMessage DEF EOF, Msg, InitFree, InitFirst
<1>2. ResponseFirst(<<>>) /\ ~Starts(<<>>, "Session_Initialization_Response")
  BY DEF ResponseFirst, Starts
<1>3. CASE ~up
  BY <1>2, <1>3 DEF StreamsOK, Early, Starts
<1>4. CASE tail = <<EOF>>
  BY <1>1, <1>2, <1>4 DEF StreamsOK, Early, Starts
<1>5. CASE up /\ tail = sm \o out \o <<EOF>>
  <2> DEFINE s == sm \o out
  <2>1. /\ s \in Seq(Message) /\ InitFirst(s)
        /\ sm # <<>> => s # <<>> /\ s[1] = sm[1]
        /\ sm = <<>> => s = out
        /\ ~Starts(out, "Session_Initialization")
    BY WriteMore DEF StreamsOK
  <2> HIDE DEF s
  <2>2. /\ tail # <<>> /\ InitFirst(tail)
        /\ s # <<>> => tail[1] = s[1]
        /\ s = <<>> => tail[1].type = "EOF"
    <3>1. tail = s \o <<EOF>>
      BY <1>5 DEF s
    <3> QED
      BY <1>1, <2>1, <3>1, WriteMore
  <2>3. Early(ms) /\ sm = <<>> => out = <<>>
    BY <1>5 DEF StreamsOK, Early, Starts
  <2> QED
    BY <1>2, <2>1, <2>2, <2>3 DEF StreamsOK, Early, Starts
<1>6. CASE up /\ ~Early(rs) /\ tail = sm
  BY <1>2, <1>6 DEF StreamsOK, Early, Starts
<1> QED
  BY <1>3, <1>4, <1>5, <1>6

\* A connection that is made, and one that breaks.
LEMMA StreamsEnd ==
  ASSUME NEW ms, NEW rs
  PROVE  /\ StreamsOK(ms, rs, <<EOF>>, <<EOF>>, FALSE)
         /\ StreamsOK("connecting", "connecting", <<>>, <<>>, TRUE)
         /\ StreamsOK("nonexistent", "nonexistent", <<>>, <<>>, FALSE)
<1>1. /\ <<EOF>> # <<>> /\ <<EOF>>[1].type = "EOF"
      /\ InitFirst(<<EOF>>) /\ ResponseFirst(<<EOF>>)
      /\ InitFirst(<<>>) /\ ResponseFirst(<<>>)
  BY DEF EOF, Msg, InitFirst, ResponseFirst
<1> QED
  BY <1>1 DEF StreamsOK, Early, Starts

-----------------------------------------------------------------------------
(* The handshake is taken once.                                            *)
(*                                                                         *)
(* A Session_Initialization, or its response, that is handled in a session *)
(* that is over brings it up again.  In an orderly environment that does   *)
(* not happen, because the invariant says where these two messages can     *)
(* be: Session_Initialization only as the first message on a queue or a    *)
(* stream, its response only as the first on the stream to a router that   *)
(* waits for it.                                                           *)

EndpointCalm(e) ==
  /\ InitAtHead(e) /\ TimersRight(e)
  /\ Handshaking(e) => Fresh(e)
  /\ e.modem \/ e.pstate = "in_session" => Opened(e)
  /\ e.pstate = "connecting" \/ (e.modem /\ Handshaking(e)) =>
       e.pending[Session] = <<>>

CalmInv ==
  /\ \A n \in Node : EndpointCalm(ep[n])
  /\ StreamsOK(ep["modem"].pstate, ep["router"].pstate,
               stream["modem"], stream["router"], link)

\* An environment without the faults that break the handshake: no response
\* is overdue while it is on its way or when the peer is stopped, none is
\* suppressed, both ends learn that the connection is gone, and the clients do
\* not call destination_* during the handshake.
Orderly ==
  Env \cap {"late", "overdue_at_stop", "suppress", "vanish", "early_calls"} = {}

\* A new peer, and one whose messages have been handed to the socket.
LEMMA CalmNew ==
  ASSUME NEW n, NEW s \in {"nonexistent", "connecting"}, NEW D
  PROVE  EndpointCalm(NewPeer(n = "modem", s, D))
<1> DEFINE b == (n = "modem")
<1> HIDE DEF b
<1>1. EndpointCalm(NewPeer(b, s, D))
  BY DEF NewPeer, EndpointCalm, InitAtHead, InitFirst, TimersRight, Handshaking,
         Fresh, Opened, InitFree, Queues
<1> QED
  BY <1>1 DEF b

LEMMA CalmFlushed ==
  ASSUME NEW e, WellFormed(e), EndpointCalm(e)
  PROVE  EndpointCalm([e EXCEPT !.out = <<>>])
<1> DEFINE f == [e EXCEPT !.out = <<>>]
<1>1. /\ f.pending = e.pending /\ f.pstate = e.pstate /\ f.modem = e.modem
      /\ f.acktivity = e.acktivity /\ f.heartbeat = e.heartbeat
      /\ f.peer_pdp = e.peer_pdp /\ f.asked = e.asked /\ f.heartbeats = e.heartbeats
  BY DEF WellFormed, Endpoint
<1> HIDE DEF f
<1>2. EndpointCalm(f)
  BY <1>1 DEF EndpointCalm, InitAtHead, TimersRight, Handshaking, Fresh, Opened
<1> QED
  BY <1>2 DEF f

\* A plain step outside the handshake.
LEMMA CalmPlain ==
  ASSUME NEW e, EndpointCalm(e), e.out = <<>>, NEW f, Plain(e, f),
         ~Handshaking(e) \/ f.pstate = "terminating"
  PROVE  /\ EndpointCalm(f) /\ ~Handshaking(f) /\ f.modem = e.modem
         /\ NoInitResponse(f.out) /\ InitFree(f.out)
<1>1. NoInitResponse(e.out) /\ InitFree(e.out)
  BY DEF NoInitResponse, InitFree
<1> QED
  BY <1>1 DEF EndpointCalm, Plain, Tame, Calm, Handshaking

\* An endpoint that has decided the handshake.
LEMMA CalmDecided ==
  ASSUME NEW f, Decided(f), f.modem \/ f.pstate = "in_session" => Opened(f)
  PROVE  EndpointCalm(f) /\ ~Handshaking(f)
  BY DEF Decided, EndpointCalm, Handshaking

\* The invariant after a step that ends with Commit.
LEMMA CalmCommit ==
  ASSUME EndpointsOK, CalmInv, NEW n \in Node, NEW e, WellFormed(e), EndpointCalm(e),
         NEW rest \in Seq(Message), Commit(n, e, rest),
         n = "modem" =>
           StreamsOK(e.pstate, ep["router"].pstate, rest,
                     Written(stream["router"], e.out, link), link),
         n = "router" =>
           StreamsOK(ep["modem"].pstate, e.pstate,
                     Written(stream["modem"], e.out, link), rest, link)
  PROVE  CalmInv'
<1> DEFINE f == [e EXCEPT !.out = <<>>]
<1>1. EndpointCalm(f) /\ f.pstate = e.pstate
  BY CalmFlushed, Flushed
<1>2. ep' = [ep EXCEPT ![n] = f]
  BY DEF Commit
<1> HIDE DEF f
<1>3. /\ ep'[n] = f /\ ep'[Other(n)] = ep[Other(n)]
      /\ \A k \in Node : EndpointCalm(ep'[k])
  BY <1>1, <1>2, NodeFacts DEF EndpointsOK, CalmInv
<1>4. /\ stream'[n] = rest /\ link' = link
      /\ stream'[Other(n)] = Written(stream[Other(n)], e.out, link)
  BY NodeFacts DEF Commit, EndpointsOK, Written
<1>5. CASE n = "modem"
  BY <1>1, <1>3, <1>4, <1>5, NodeFacts DEF CalmInv
<1>6. CASE n = "router"
  BY <1>1, <1>3, <1>4, <1>6, NodeFacts DEF CalmInv
<1> QED
  BY <1>5, <1>6 DEF Node

\* Facts about a node that the invariants give.
LEMMA NodeCalm ==
  ASSUME SessionInv, CalmInv, NEW n \in Node
  PROVE  /\ EndpointsOK /\ WellFormed(ep[n]) /\ ep[n].out = <<>>
         /\ ep[n].modem = (n = "modem") /\ EndpointCalm(ep[n])
         /\ stream["modem"] \in Seq(Message) /\ stream["router"] \in Seq(Message)
         /\ stream[n] \in Seq(Message) /\ link \in BOOLEAN
         /\ StreamsOK(ep["modem"].pstate, ep["router"].pstate,
                      stream["modem"], stream["router"], link)
  BY NodeFacts DEF SessionInv, EndpointsOK, CalmInv

\* A step outside the handshake that reads at most one message.
LEMMA CalmGoesOn ==
  ASSUME SessionInv, CalmInv, NEW n \in Node, ~Handshaking(ep[n]),
         NEW f, WellFormed(f), Plain(ep[n], f), NEW rest,
         rest = stream[n] \/ (stream[n] # <<>> /\ rest = Tail(stream[n])),
         Commit(n, f, rest)
  PROVE  CalmInv'
<1>1. /\ EndpointsOK /\ WellFormed(ep[n]) /\ ep[n].out = <<>>
      /\ EndpointCalm(ep[n])
      /\ stream["modem"] \in Seq(Message) /\ stream["router"] \in Seq(Message)
      /\ stream[n] \in Seq(Message) /\ link \in BOOLEAN
      /\ StreamsOK(ep["modem"].pstate, ep["router"].pstate,
                   stream["modem"], stream["router"], link)
  BY NodeCalm
<1>2. /\ EndpointCalm(f) /\ ~Handshaking(f)
      /\ NoInitResponse(f.out) /\ InitFree(f.out)
  BY <1>1, CalmPlain
<1>3. f.out \in Seq(Message) /\ rest \in Seq(Message)
  <2>1. \A s \in Seq(Message) : s # <<>> => Tail(s) \in Seq(Message)
    OBVIOUS
  <2>2. rest \in Seq(Message)
    BY <1>1, <2>1, Zenon
  <2> QED
    BY <2>2 DEF WellFormed, Endpoint
<1>4. ~Early(ep[n].pstate) /\ ~Early(f.pstate)
  BY <1>2 DEF Early, Handshaking
<1>5. n = "modem" =>
        StreamsOK(f.pstate, ep["router"].pstate, rest,
                  Written(stream["router"], f.out, link), link)
  BY <1>1, <1>2, <1>3, <1>4, ModemGoesOn
<1>6. n = "router" =>
        StreamsOK(ep["modem"].pstate, f.pstate,
                  Written(stream["modem"], f.out, link), rest, link)
  BY <1>1, <1>2, <1>3, <1>4, RouterGoesOn
<1> QED
  BY <1>1, <1>2, <1>3, <1>5, <1>6, CalmCommit

\* A step of a process that reads nothing.
LEMMA CalmMoved ==
  ASSUME SessionInv, CalmInv, Orderly, NEW n \in Node, NEW f, Moved(n, f)
  PROVE  CalmInv'
<1>1. /\ EndpointsOK /\ WellFormed(ep[n]) /\ ep[n].out = <<>>
      /\ EndpointCalm(ep[n])
      /\ stream["modem"] \in Seq(Message) /\ stream["router"] \in Seq(Message)
      /\ stream[n] \in Seq(Message) /\ link \in BOOLEAN
      /\ StreamsOK(ep["modem"].pstate, ep["router"].pstate,
                   stream["modem"], stream["router"], link)
  BY NodeCalm
<1>2. WellFormed(f) /\ Plain(ep[n], f) /\ Commit(n, f, stream[n])
  BY DEF Moved
<1>3. CASE ~Handshaking(ep[n])
  BY <1>2, <1>3, CalmGoesOn
<1>4. CASE Handshaking(ep[n])
  <2>1. Idle(ep[n], f)
    BY <1>1, <1>4 DEF EndpointCalm, Moved, Orderly
  <2>2. f.modem = ep[n].modem /\ TimersRight(f) /\ f.out = <<>>
    BY <1>1, <1>2, <2>1 DEF Plain, Tame, Calm, EndpointCalm, Idle
  <2>3. EndpointCalm(f)
    BY <1>1, <1>4, <2>1, <2>2 DEF EndpointCalm, InitAtHead, Handshaking, Fresh, Opened, Idle
  <2>4. \A s \in Seq(Message) : Written(s, f.out, link) = s
    BY <2>2 DEF Written
  <2>5. f.pstate = ep[n].pstate
    BY <2>1 DEF Idle
  <2> QED
    BY <1>1, <1>2, <2>3, <2>4, <2>5, CalmCommit
<1> QED
  BY <1>3, <1>4

\* The accept or connect completes.
LEMMA CalmMakePeer ==
  ASSUME SessionInv, CalmInv, NEW n \in Node, MakePeer(n) PROVE CalmInv'
<1> DEFINE e == ep[n]
           f == start_peer(e)
           x == Msg("Session_Initialization", Session, "none")
<1>1. /\ EndpointsOK /\ WellFormed(e) /\ e.out = <<>>
      /\ e.modem = (n = "modem") /\ EndpointCalm(e)
      /\ stream["modem"] \in Seq(Message) /\ stream["router"] \in Seq(Message)
      /\ stream[n] \in Seq(Message) /\ link \in BOOLEAN
      /\ StreamsOK(ep["modem"].pstate, ep["router"].pstate,
                   stream["modem"], stream["router"], link)
  BY NodeCalm
<1>2. e.pstate = "connecting" /\ Commit(n, f, stream[n])
  BY DEF MakePeer
<1> HIDE DEF e
<1>3. WellFormed(f)
  BY <1>1, <1>2, StartPeer
<1>4. /\ f.pstate = "connected" /\ f.modem = e.modem
      /\ TimersRight(f) /\ InitAtHead(f) /\ f.heartbeats = e.heartbeats
      /\ f.peer_pdp = e.peer_pdp /\ f.asked = e.asked
      /\ \A d \in Dests : f.pending[d] = e.pending[d]
      /\ e.modem => f.out = e.out /\ f.pending = e.pending
      /\ ~e.modem => f.out = Append(e.out, x)
  BY <1>1, <1>2, StartPeerEffect DEF EndpointCalm
<1> HIDE DEF f
<1>5. EndpointCalm(f)
  BY <1>1, <1>2, <1>4 DEF EndpointCalm, Handshaking, Fresh, Opened
<1>6. CASE n = "modem"
  <2>1. f.out = <<>>
    BY <1>1, <1>4, <1>6, Zenon
  <2>1a. Written(stream["router"], f.out, link) = stream["router"]
    BY <1>1, <2>1 DEF Written
  <2>2. StreamsOK("connected", ep["router"].pstate,
                  stream["modem"], stream["router"], link)
    BY <1>1, <1>2, <1>6 DEF StreamsOK, Early, e
  <2> QED
    BY <1>1, <1>2, <1>3, <1>4, <1>5, <1>6, <2>1a, <2>2, CalmCommit
<1>7. CASE n = "router"
  <2>1. x \in Message /\ x.type = "Session_Initialization" /\ x.dest = Session
    BY DestsAssumption
    DEF Msg, Message, MessageTypes, Requests, ResponseTo, DestinationTypes,
        Queues, Statuses
  <2> HIDE DEF x
  <2>1a. f.out = Append(e.out, x)
    <3>1. n # "modem"
      BY <1>7
    <3> QED
      BY <1>1, <1>4, <3>1, Zenon
  <2>2. f.out = <<x>>
    BY <1>1, <2>1a
  <2>3. StreamsOK(ep["modem"].pstate, "connected",
                  Written(stream["modem"], f.out, link), stream["router"], link)
    BY <1>1, <1>2, <1>7, <2>1, <2>2, RouterStarts DEF e
  <2> QED
    BY <1>1, <1>2, <1>3, <1>4, <1>5, <1>7, <2>3, CalmCommit
<1> QED
  BY <1>6, <1>7 DEF Node

\* A response is only overdue in a session.
LEMMA CalmOverdue ==
  ASSUME SessionInv, CalmInv, Orderly, NEW n \in Node, NEW q \in Queues,
         ResponseOverdue(n, q)
  PROVE  CalmInv'
<1>1. /\ WellFormed(ep[n]) /\ ep[n].modem = (n = "modem") /\ EndpointCalm(ep[n])
      /\ stream["modem"] \in Seq(Message)
      /\ StreamsOK(ep["modem"].pstate, ep["router"].pstate,
                   stream["modem"], stream["router"], link)
  BY NodeCalm
<1>2. /\ ep[n].acktivity /\ ep[n].pending[q] # <<>> /\ ~ResponseUnderway(n, q)
      /\ Commit(n, check_for_retransmits(ep[n], q), stream[n])
  BY DEF ResponseOverdue, Orderly
<1>3. ep[n].pstate \in {"connected", "in_session"}
  BY <1>1, <1>2 DEF EndpointCalm, TimersRight
<1>4. ep[n].pstate # "connected"
  <2> SUFFICES ASSUME ep[n].pstate = "connected" PROVE FALSE
    OBVIOUS
  <2>1. q = Session
    BY <1>1, <1>2 DEF EndpointCalm, Handshaking, Fresh, Queues
  <2>2. n = "router"
    BY <1>1, <1>2, <2>1 DEF EndpointCalm, Handshaking, Node
  <2>3. stream["router"] = <<>>
    BY <1>2, <2>2 DEF ResponseUnderway
  <2>4. /\ stream["modem"] # <<>> /\ stream["modem"][1].dest = Session
        /\ stream["modem"][1].type = "Session_Initialization"
    BY <1>1, <2>2, <2>3 DEF StreamsOK, Starts
  <2>5. 1 \in DOMAIN stream["modem"] /\ "Session_Initialization" \in Requests
    BY <1>1, <2>4 DEF Requests, ResponseTo
  <2> QED
    BY <1>2, <2>1, <2>2, <2>4, <2>5, NodeFacts DEF ResponseUnderway
<1>5. Head(ep[n].pending[q]).type # "Session_Initialization"
  <2>1. ep[n].pending[q] \in Seq(Entry) /\ InitFree(ep[n].pending[q])
    BY <1>1, <1>3, <1>4 DEF WellFormed, Endpoint, EndpointCalm, Opened
  <2> QED
    BY <1>2, <2>1 DEF InitFree
<1>6. LET f == check_for_retransmits(ep[n], q) IN WellFormed(f) /\ Plain(ep[n], f)
  BY <1>1, <1>2, <1>5, CheckForRetransmits
<1> QED
  BY <1>2, <1>3, <1>4, <1>6, CalmGoesOn DEF Handshaking

\* A message that is read outside the handshake does not bring a session up.
LEMMA ReceivePlain ==
  ASSUME SessionInv, CalmInv, NEW n \in Node, Receive(n), ~Handshaking(ep[n])
  PROVE  \E f : /\ WellFormed(f) /\ Plain(ep[n], f) /\ stream[n] # <<>>
                /\ Commit(n, f, Tail(stream[n]))
<1> DEFINE e == ep[n]
           m == Head(stream[n])
           rest == Tail(stream[n])
<1>1. /\ WellFormed(e) /\ e.modem = (n = "modem") /\ stream[n] \in Seq(Message)
      /\ StreamsOK(ep["modem"].pstate, ep["router"].pstate,
                   stream["modem"], stream["router"], link)
  BY NodeCalm
<1>2. stream[n] # <<>>
  BY DEF Receive
<1>3. m \in Message /\ m = stream[n][1]
  <2>1. \A s \in Seq(Message) : s # <<>> => Head(s) \in Message /\ Head(s) = s[1]
    OBVIOUS
  <2> QED
    BY <1>1, <1>2, <2>1, Zenon
<1>4. PICK c \in HandlerInputs :
        Commit(n, handle_session_receive(e, m, c), rest)
  BY DEF Receive
<1>5. c \in Inputs
  BY ClientAssumption DEF HandlerInputs, Inputs, FaultFree
<1> DEFINE f == handle_session_receive(e, m, c)
<1> HIDE DEF m, rest, e
<1>6. Handled(e, m, f)
  BY <1>1, <1>3, <1>5, HandleSessionReceive
<1>7. (n = "modem" => e.modem) /\ (n = "router" => ~e.modem)
  <2>1. n = "router" => n # "modem"
    OBVIOUS
  <2> QED
    BY <1>1, <2>1, Zenon
<1>8. /\ n = "modem" => m.type # "Session_Initialization"
      /\ n = "router" => m.type # "Session_Initialization_Response"
  BY <1>1, <1>2, <1>3 DEF StreamsOK, Starts, Early, Handshaking, e
<1>9. WellFormed(f) /\ Plain(e, f)
  BY <1>6, <1>7, <1>8 DEF Handled, Node
<1> HIDE DEF f
<1> QED
  BY <1>2, <1>4, <1>9 DEF f, e, rest

\* Reading the next message.
LEMMA CalmReceive ==
  ASSUME SessionInv, CalmInv, Orderly, NEW n \in Node, Receive(n)
  PROVE  CalmInv'
<1> DEFINE e == ep[n]
           m == Head(stream[n])
           rest == Tail(stream[n])
<1>1. /\ EndpointsOK /\ WellFormed(e) /\ e.out = <<>>
      /\ e.modem = (n = "modem") /\ EndpointCalm(e)
      /\ stream["modem"] \in Seq(Message) /\ stream["router"] \in Seq(Message)
      /\ stream[n] \in Seq(Message) /\ link \in BOOLEAN
      /\ StreamsOK(ep["modem"].pstate, ep["router"].pstate,
                   stream["modem"], stream["router"], link)
  BY NodeCalm
<1>2. stream[n] # <<>> /\ InMap(e)
  BY DEF Receive
<1>3. /\ m \in Message /\ rest \in Seq(Message)
      /\ m = stream[n][1] /\ stream[n] # <<>>
  <2>1. \A s \in Seq(Message) : s # <<>> =>
          Head(s) \in Message /\ Tail(s) \in Seq(Message) /\ Head(s) = s[1]
    OBVIOUS
  <2> QED
    BY <1>1, <1>2, <2>1, Zenon
<1>4. PICK c \in HandlerInputs :
        Commit(n, handle_session_receive(e, m, c), rest)
  BY DEF Receive
<1>5. c \in Inputs /\ c.send
  BY ClientAssumption DEF HandlerInputs, Inputs, FaultFree, Orderly
<1> DEFINE f == handle_session_receive(e, m, c)
<1> HIDE DEF m, rest, e
<1>6. Handled(e, m, f)
  BY <1>1, <1>3, <1>5, HandleSessionReceive
<1>7. m.type = "EOF" => f = stop_peer(e)
  BY DEF handle_session_receive
<1>8. WellFormed(f) /\ f.out \in Seq(Message)
  BY <1>6 DEF Handled, WellFormed, Endpoint
<1>9. (n = "modem" => e.modem) /\ (n = "router" => ~e.modem)
  <2>1. n = "router" => n # "modem"
    OBVIOUS
  <2> QED
    BY <1>1, <2>1, Zenon
<1>10. CASE ~Handshaking(e)
  BY <1>10, ReceivePlain, CalmGoesOn DEF e
<1>11. CASE Handshaking(e) /\ n = "modem"
  <2>1. e.pstate = "connected" /\ Early(e.pstate)
    BY <1>2, <1>11 DEF Handshaking, InMap, Early
  <2>2. m.type \in {"Session_Initialization", "EOF"}
    BY <1>1, <1>3, <1>11, <2>1 DEF StreamsOK, e
  <2>3. EndpointCalm(f) /\ ~Handshaking(f) /\ ResponseFirst(f.out)
    <3>1. CASE m.type = "Session_Initialization"
      <4>1. Decided(f) /\ Opened(f) /\ ResponseFirst(f.out)
        BY <1>1, <1>3, <1>5, <1>9, <1>11, <2>1, <3>1, ModemDecides DEF EndpointCalm
      <4> HIDE DEF f
      <4> QED
        BY <4>1, CalmDecided
    <3>2. CASE m.type = "EOF"
      <4>1. Plain(e, stop_peer(e)) /\ stop_peer(e).pstate = "terminating"
        BY <1>1, StopPeer DEF stop_peer, WellFormed, Endpoint
      <4>2. f = stop_peer(e)
        BY <1>7, <3>2
      <4> HIDE DEF f
      <4> QED
        BY <1>1, <4>1, <4>2, CalmPlain DEF NoInitResponse, ResponseFirst
    <3> QED
      BY <2>2, <3>1, <3>2
  <2>4. m.type = "Session_Initialization" =>
          /\ f.out # <<>>
          /\ f.out[1].type \in {"Session_Initialization_Response",
                                "Session_Termination"}
    BY <1>1, <1>3, <1>5, <1>9, <1>11, <2>1, ModemDecides DEF EndpointCalm
  <2>5. m.type = "EOF" => f.out = <<>>
    BY <1>1, <1>7 DEF stop_peer, WellFormed, Endpoint
  <2> HIDE DEF f
  <2>6. StreamsOK(f.pstate, ep["router"].pstate, rest,
                  Written(stream["router"], f.out, link), link)
    <3>1. ~Early(f.pstate)
      BY <2>3 DEF Early, Handshaking
    <3>2. StreamsOK("connected", ep["router"].pstate,
                    stream["modem"], stream["router"], link)
      BY <1>1, <1>11, <2>1 DEF e
    <3>3. rest = Tail(stream["modem"]) /\ m = stream["modem"][1] /\ stream["modem"] # <<>>
      BY <1>3, <1>11 DEF rest
    <3> QED
      BY <1>1, <1>8, <2>3, <2>4, <2>5, <3>1, <3>2, <3>3, ModemAnswers
  <2> QED
    BY <1>1, <1>3, <1>4, <1>8, <1>11, <2>3, <2>6, CalmCommit DEF f
<1>12. CASE Handshaking(e) /\ n = "router"
  <2>1. e.pstate = "connected" /\ Early(e.pstate)
    BY <1>2, <1>12 DEF Handshaking, InMap, Early
  <2>2. m.type \in {"Session_Initialization_Response", "EOF", "Session_Termination"}
    BY <1>1, <1>3, <1>12, <2>1 DEF StreamsOK, e
  <2>3. /\ Decided(f) /\ f.modem = e.modem
        /\ f.pstate = "in_session" => Opened(f)
    BY <1>1, <1>3, <1>5, <1>9, <1>12, <2>1, <2>2, RouterDecides
       DEF EndpointCalm, Fresh
  <2> HIDE DEF f
  <2>4. EndpointCalm(f) /\ ~Handshaking(f)
    BY <1>9, <1>12, <2>3, CalmDecided
  <2>5. StreamsOK(ep["modem"].pstate, f.pstate,
                  Written(stream["modem"], f.out, link), rest, link)
    <3>1. ~Early(f.pstate) /\ InitFree(f.out)
      BY <2>3, <2>4 DEF Early, Handshaking, Decided
    <3>2. ep["router"].pstate = "connected"
      BY <1>12, <2>1 DEF e
    <3>3. rest = Tail(stream["router"]) /\ stream["router"] # <<>>
      BY <1>3, <1>12 DEF rest
    <3> QED
      BY <1>1, <1>8, <3>1, <3>2, <3>3, RouterGoesOn
  <2> QED
    BY <1>1, <1>3, <1>4, <1>8, <1>12, <2>4, <2>5, CalmCommit DEF f
<1> QED
  BY <1>10, <1>11, <1>12 DEF Node

\* A peer that is removed.
LEMMA CalmLeft ==
  ASSUME SessionInv, CalmInv, NEW n \in Node, NEW e, NEW D, Left(n, e, D)
  PROVE  CalmInv'
<1> DEFINE g == NewPeer(n = "modem", "nonexistent", D)
<1>1. /\ EndpointsOK /\ WellFormed(ep[n]) /\ ep[n].out = <<>>
      /\ ep[n].modem = (n = "modem") /\ EndpointCalm(ep[n])
      /\ stream["modem"] \in Seq(Message) /\ stream["router"] \in Seq(Message)
      /\ stream[n] \in Seq(Message) /\ link \in BOOLEAN
      /\ StreamsOK(ep["modem"].pstate, ep["router"].pstate,
                   stream["modem"], stream["router"], link)
  BY NodeCalm
<1>2. /\ D \in SUBSET Dests /\ WellFormed(e)
      /\ e = ep[n] \/ (InMap(ep[n]) /\ e = terminate(ep[n], "Client"))
  BY ZenonT(60) DEF Left
<1>2a. PICK closed \in BOOLEAN :
         (closed \/ ep[n].pstate = "terminating") /\ Close(n, e, g, closed)
  BY ZenonT(60) DEF Left
<1>3. EndpointCalm(g) /\ g.pstate = "nonexistent"
  <2>1. "nonexistent" \in {"nonexistent", "connecting"} /\ "nonexistent" \in PeerStates
    BY DEF PeerStates
  <2>2. EndpointCalm(g)
    BY <2>1, CalmNew, ZenonT(60)
  <2>3. g.pstate = "nonexistent"
    BY <1>2, <2>1, NewPeerOfNode, ZenonT(60)
  <2> QED
    BY <2>2, <2>3
<1> HIDE DEF g
<1>4. e.out \in Seq(Message) /\ NoInitResponse(e.out) /\ InitFree(e.out)
  <2>1. NoInitResponse(ep[n].out) /\ InitFree(ep[n].out)
    BY <1>1 DEF NoInitResponse, InitFree
  <2>2. Plain(ep[n], e)
    BY <1>1, <1>2, PlainReflexive, Terminate DEF Causes
  <2> QED
    BY <1>1, <1>2, <2>1, <2>2 DEF WellFormed, Endpoint, Plain, Tame, Calm, EndpointCalm
<1>5. ep[n].pstate = "connecting" => e.out = <<>>
  BY <1>1, <1>2 DEF InMap
<1>6. n = "modem" /\ Early(ep[n].pstate) /\ e.out # <<>> =>
        e.out[1].type = "Session_Termination"
  <2> SUFFICES ASSUME n = "modem", Early(ep[n].pstate), e.out # <<>>
               PROVE  e.out[1].type = "Session_Termination"
    OBVIOUS
  <2>1. e = terminate(ep[n], "Client") /\ "Client" \in Causes
    BY <1>1, <1>2 DEF Causes
  <2>2. ep[n].pstate # "terminating" /\ ep[n].pending[Session] = <<>>
    <3>1. ep[n].modem
      BY <1>1, Zenon
    <3> QED
      BY <1>1, <3>1 DEF EndpointCalm, Early, Handshaking
  <2>3. e.out = Append(<<>>, Msg("Session_Termination", Session, "none"))
    BY <1>1, <2>1, <2>2, TerminateEnds
  <2> QED
    BY <2>3 DEF Msg
<1>7. ep' = [ep EXCEPT ![n] = g] /\ link' = FALSE
  BY <1>2a DEF Close
<1>8. /\ ep'[n] = g /\ ep'[Other(n)] = ep[Other(n)]
      /\ \A k \in Node : EndpointCalm(ep'[k])
  BY <1>1, <1>3, <1>7, NodeFacts DEF EndpointsOK, CalmInv
<1>9. PICK tail :
        /\ stream' = [stream EXCEPT ![n] = <<>>, ![Other(n)] = tail]
        /\ ~link => tail = stream[Other(n)]
        /\ link => \/ tail = <<EOF>>
                   \/ tail = stream[Other(n)] \o e.out \o <<EOF>>
                   \/ ~Early(ep[n].pstate) /\ tail = stream[Other(n)]
  <2>1. PICK reset \in BOOLEAN :
          stream' = [stream EXCEPT
            ![n] = <<>>,
            ![Other(n)] = CASE ~link \/ ~closed -> stream[Other(n)]
                            [] link /\ closed /\ reset -> <<EOF>>
                            [] OTHER -> stream[Other(n)] \o e.out \o <<EOF>>]
    BY <1>1, <1>2a, NodeFacts DEF Close, EndpointsOK
  <2>2. ~closed => ~Early(ep[n].pstate)
    BY <1>2a DEF Early
  <2> QED
    BY <1>1, <1>2a, <2>1, <2>2
<1>10. stream'[n] = <<>> /\ stream'[Other(n)] = tail
  BY <1>1, <1>9, NodeFacts DEF EndpointsOK
<1>11. CASE n = "modem"
  <2>1. StreamsOK("nonexistent", ep["router"].pstate, <<>>, tail, FALSE)
    <3>1. /\ ~link => tail = stream["router"]
          /\ link => \/ tail = <<EOF>> \/ tail = stream["router"] \o e.out \o <<EOF>>
                     \/ ~Early(ep["modem"].pstate) /\ tail = stream["router"]
          /\ Early(ep["modem"].pstate) /\ e.out # <<>> =>
               e.out[1].type = "Session_Termination"
      BY <1>6, <1>9, <1>11, NodeFacts
    <3> QED
      <4> DEFINE ms == ep["modem"].pstate
                 rs == ep["router"].pstate
                 sm == stream["modem"]
                 sr == stream["router"]
                 out == e.out
      <4>1. /\ sm \in Seq(Message) /\ sr \in Seq(Message) /\ link \in BOOLEAN
            /\ StreamsOK(ms, rs, sm, sr, link)
            /\ out \in Seq(Message) /\ NoInitResponse(out)
            /\ Early(ms) /\ out # <<>> => out[1].type = "Session_Termination"
            /\ ~link => tail = sr
            /\ link => \/ tail = <<EOF>> \/ tail = sr \o out \o <<EOF>>
                       \/ ~Early(ms) /\ tail = sr
        BY <1>1, <1>4, <3>1
      <4> HIDE DEF ms, rs, sm, sr, out
      <4>2. StreamsOK("nonexistent", rs, <<>>, tail, FALSE)
        BY <4>1, ModemCloses
      <4> QED
        BY <4>2 DEF rs
  <2> QED
    BY <1>3, <1>7, <1>8, <1>10, <1>11, <2>1, NodeFacts DEF CalmInv
<1>12. CASE n = "router"
  <2>1. StreamsOK(ep["modem"].pstate, "nonexistent", tail, <<>>, FALSE)
    <3>1. /\ ~link => tail = stream["modem"]
          /\ link => \/ tail = <<EOF>> \/ tail = stream["modem"] \o e.out \o <<EOF>>
                     \/ ~Early(ep["router"].pstate) /\ tail = stream["modem"]
          /\ ep["router"].pstate = "connecting" => e.out = <<>>
      BY <1>5, <1>9, <1>12, NodeFacts
    <3> QED
      <4> DEFINE ms == ep["modem"].pstate
                 rs == ep["router"].pstate
                 sm == stream["modem"]
                 sr == stream["router"]
                 out == e.out
      <4>1. /\ sm \in Seq(Message) /\ sr \in Seq(Message) /\ link \in BOOLEAN
            /\ StreamsOK(ms, rs, sm, sr, link)
            /\ out \in Seq(Message) /\ InitFree(out)
            /\ rs = "connecting" => out = <<>>
            /\ ~link => tail = sm
            /\ link => \/ tail = <<EOF>> \/ tail = sm \o out \o <<EOF>>
                       \/ ~Early(rs) /\ tail = sm
        BY <1>1, <1>4, <3>1
      <4> HIDE DEF ms, rs, sm, sr, out
      <4>2. StreamsOK(ms, "nonexistent", tail, <<>>, FALSE)
        BY <4>1, RouterCloses
      <4> QED
        BY <4>2 DEF ms
  <2> QED
    BY <1>3, <1>7, <1>8, <1>10, <1>12, <2>1, NodeFacts DEF CalmInv
<1> QED
  BY <1>11, <1>12 DEF Node

\* The initial states, a new connection and a connection that breaks.
LEMMA CalmInit == Init => CalmInv
<1> SUFFICES ASSUME Init PROVE CalmInv
  OBVIOUS
<1> DEFINE p(n) == NewPeer(n = "modem", "nonexistent", {})
<1>1. \A n \in Node : EndpointCalm(p(n)) /\ p(n).pstate = "nonexistent"
  <2>1. /\ "nonexistent" \in {"nonexistent", "connecting"}
        /\ "nonexistent" \in PeerStates /\ {} \in SUBSET Dests
    BY DEF PeerStates
  <2> TAKE n \in Node
  <2>2. EndpointCalm(NewPeer(n = "modem", "nonexistent", {}))
    BY <2>1, CalmNew, ZenonT(60)
  <2>3. NewPeer(n = "modem", "nonexistent", {}).pstate = "nonexistent"
    BY <2>1, NewPeerOfNode, ZenonT(60)
  <2> QED
    BY <2>2, <2>3, Zenon
<1>2. ep = [n \in Node |-> p(n)]
  BY DEF Init
<1> HIDE DEF p
<1> QED
  BY <1>1, <1>2, StreamsEnd, NodeFacts DEF Init, CalmInv

LEMMA CalmTcpConnect ==
  ASSUME SessionInv, TcpConnect PROVE CalmInv'
<1> DEFINE p(n) == NewPeer(n = "modem", "connecting", ep[n].local_pdp)
<1>1. \A n \in Node : EndpointCalm(p(n)) /\ p(n).pstate = "connecting"
  <2>1. /\ "connecting" \in {"nonexistent", "connecting"}
        /\ "connecting" \in PeerStates
    BY DEF PeerStates
  <2> TAKE n \in Node
  <2> DEFINE D == ep[n].local_pdp
  <2>2. D \in SUBSET Dests
    BY DEF SessionInv, EndpointsOK, WellFormed, Endpoint
  <2> HIDE DEF D
  <2>3. /\ EndpointCalm(NewPeer(n = "modem", "connecting", D))
        /\ NewPeer(n = "modem", "connecting", D).pstate = "connecting"
    <3>1. EndpointCalm(NewPeer(n = "modem", "connecting", D))
      BY <2>1, CalmNew, ZenonT(60)
    <3>2. NewPeer(n = "modem", "connecting", D).pstate = "connecting"
      BY <2>1, <2>2, NewPeerOfNode, ZenonT(60)
    <3> QED
      BY <3>1, <3>2, Zenon
  <2> QED
    BY <2>3, ZenonT(60) DEF D
<1>2. ep' = [n \in Node |-> p(n)]
  BY DEF TcpConnect
<1> HIDE DEF p
<1>3. /\ \A n \in Node : EndpointCalm(ep'[n])
      /\ ep'["modem"].pstate = "connecting" /\ ep'["router"].pstate = "connecting"
  BY <1>1, <1>2, NodeFacts
<1>4. stream'["modem"] = <<>> /\ stream'["router"] = <<>> /\ link' = TRUE
  BY NodeFacts DEF TcpConnect
<1>5. StreamsOK("connecting", "connecting", <<>>, <<>>, TRUE)
  BY StreamsEnd
<1> QED
  BY <1>3, <1>4, <1>5 DEF CalmInv

LEMMA CalmLinkLoss ==
  ASSUME CalmInv, Orderly, LinkLoss PROVE CalmInv'
<1>1. \A n \in Node : stream'[n] = <<EOF>>
  BY DEF LinkLoss, Orderly
<1> QED
  BY <1>1, StreamsEnd, NodeFacts DEF LinkLoss, CalmInv

\* In an orderly environment every step preserves the invariant.
LEMMA CalmNext ==
  ASSUME Orderly PROVE SessionInv /\ CalmInv /\ [Next]_vars => CalmInv'
<1> SUFFICES ASSUME SessionInv, CalmInv, [Next]_vars PROVE CalmInv'
  OBVIOUS
<1>1. CASE TcpConnect
  BY <1>1, CalmTcpConnect
<1>2. CASE LinkLoss
  BY <1>2, CalmLinkLoss
<1>3. ASSUME NEW n \in Node, MakePeer(n) PROVE CalmInv'
  BY <1>3, CalmMakePeer
<1>4. ASSUME NEW n \in Node, Receive(n) PROVE CalmInv'
  BY <1>4, CalmReceive
<1>5. ASSUME NEW n \in Node, TimerStep(n) PROVE CalmInv'
  BY <1>5, TimerMove, CalmOverdue, CalmMoved, CalmLeft
<1>6. ASSUME NEW n \in Node, ClientStep(n) PROVE CalmInv'
  BY <1>6, ClientMove, CalmMoved, CalmLeft
<1>7. CASE UNCHANGED vars
  BY <1>7 DEF vars, CalmInv
<1> QED
  BY <1>1, <1>2, <1>3, <1>4, <1>5, <1>6, <1>7 DEF Next

\* In an orderly environment the invariant holds in every reachable state.
LEMMA CalmAlways == ASSUME Orderly PROVE Spec => [](SessionInv /\ CalmInv)
<1>1. Init => SessionInv /\ CalmInv
  BY InvInit, CalmInit
<1>2. SessionInv /\ CalmInv /\ [Next]_vars => (SessionInv /\ CalmInv)'
  BY InvNext, CalmNext
<1> QED
  BY <1>1, <1>2, PTL DEF Spec

\* What a terminating peer may become.
Finality ==
  \A n \in Node : ep[n].pstate = "terminating" =>
    ep'[n].pstate \in {"terminating", "nonexistent"}

\* A step of one node leaves the other alone.
LEMMA FinalStep ==
  ASSUME NEW n \in Node, ep'[Other(n)] = ep[Other(n)],
         ep[n].pstate = "terminating" =>
           ep'[n].pstate \in {"terminating", "nonexistent"}
  PROVE  Finality
  BY DEF Finality, Node, Other

\* No step revives a terminating peer: after stop_peer its queues and its
\* stream hold no message that would complete a handshake.
LEMMA FinalNext ==
  ASSUME Orderly, SessionInv, CalmInv, [Next]_vars PROVE Finality
<1>1. CASE TcpConnect
  BY <1>1 DEF TcpConnect, Finality
<1>2. CASE LinkLoss
  BY <1>2 DEF LinkLoss, Finality
<1>3. ASSUME NEW n \in Node, NEW f, WellFormed(f), NEW rest \in Seq(Message),
             Commit(n, f, rest), ep[n].pstate # "terminating" \/ Plain(ep[n], f)
      PROVE  Finality
  <2>1. EndpointsOK /\ EndpointCalm(ep[n])
    BY NodeCalm
  <2>2. ep'[n].pstate = f.pstate /\ ep'[Other(n)] = ep[Other(n)]
    BY <1>3, <2>1, CommitEffect
  <2>3. ep[n].pstate = "terminating" => f.pstate = "terminating"
    BY <1>3, <2>1 DEF EndpointCalm, Plain, Calm
  <2> QED
    BY <2>2, <2>3, FinalStep
<1>4. ASSUME NEW n \in Node, MakePeer(n) PROVE Finality
  <2>1. /\ WellFormed(ep[n]) /\ stream[n] \in Seq(Message)
        /\ ep[n].pstate = "connecting"
        /\ Commit(n, start_peer(ep[n]), stream[n])
    BY <1>4, NodeCalm DEF MakePeer
  <2>2. WellFormed(start_peer(ep[n]))
    BY <2>1, StartPeer
  <2> QED
    BY <1>3, <2>1, <2>2
<1>5. ASSUME NEW n \in Node, Receive(n) PROVE Finality
  <2>1. stream[n] \in Seq(Message) /\ WellFormed(ep[n])
    BY NodeCalm
  <2>2. CASE ~Handshaking(ep[n])
    <3>1. PICK f : /\ WellFormed(f) /\ Plain(ep[n], f) /\ stream[n] # <<>>
                   /\ Commit(n, f, Tail(stream[n]))
      BY <1>5, <2>2, ReceivePlain
    <3>2. Tail(stream[n]) \in Seq(Message)
      BY <2>1, <3>1
    <3> QED
      BY <1>3, <3>1, <3>2
  <2>3. CASE Handshaking(ep[n])
    <3>1. ep[n].pstate # "terminating"
      BY <2>3 DEF Handshaking
    <3>2. ep' = [ep EXCEPT ![n] = ep'[n]]
      BY <1>5 DEF Receive, Commit, SessionInv, EndpointsOK
    <3>3. ep'[Other(n)] = ep[Other(n)]
      BY <3>2, NodeFacts DEF SessionInv, EndpointsOK
    <3> QED
      BY <3>1, <3>3, FinalStep
  <2> QED
    BY <2>2, <2>3
<1>6. ASSUME NEW n \in Node, NEW q \in Queues, ResponseOverdue(n, q) PROVE Finality
  <2>1. /\ WellFormed(ep[n]) /\ stream[n] \in Seq(Message) /\ EndpointCalm(ep[n])
        /\ ep[n].acktivity /\ ep[n].pending[q] # <<>>
        /\ Commit(n, check_for_retransmits(ep[n], q), stream[n])
    BY <1>6, NodeCalm DEF ResponseOverdue, Orderly
  <2>2. ep[n].pstate # "terminating"
    BY <2>1 DEF EndpointCalm, TimersRight
  <2>3. WellFormed(check_for_retransmits(ep[n], q))
    BY <2>1, CheckForRetransmits
  <2> QED
    BY <1>3, <2>1, <2>2, <2>3
<1>7. ASSUME NEW n \in Node, NEW f, Moved(n, f) PROVE Finality
  <2>1. stream[n] \in Seq(Message)
    BY NodeCalm
  <2> QED
    BY <1>3, <1>7, <2>1 DEF Moved
<1>8. ASSUME NEW n \in Node, NEW e, NEW D, Left(n, e, D) PROVE Finality
  <2> DEFINE g == NewPeer(n = "modem", "nonexistent", D)
  <2>1. g.pstate = "nonexistent" /\ ep' = [ep EXCEPT ![n] = g]
    <3>1. "nonexistent" \in PeerStates /\ D \in SUBSET Dests
      BY <1>8 DEF PeerStates, Left
    <3>2. g.pstate = "nonexistent"
      BY <3>1, NewPeerOfNode, ZenonT(60)
    <3> HIDE DEF g
    <3>3. ep' = [ep EXCEPT ![n] = g]
      BY <1>8, ZenonT(60) DEF Left, Close, g
    <3> QED
      BY <3>2, <3>3
  <2> HIDE DEF g
  <2> QED
    BY <2>1, FinalStep, NodeFacts DEF SessionInv, EndpointsOK
<1>9. ASSUME NEW n \in Node, TimerStep(n) \/ ClientStep(n) PROVE Finality
  BY <1>6, <1>7, <1>8, <1>9, TimerMove, ClientMove
<1>10. CASE UNCHANGED vars
  BY <1>10 DEF vars, Finality
<1> QED
  BY <1>1, <1>2, <1>4, <1>5, <1>9, <1>10 DEF Next

-----------------------------------------------------------------------------
(* The transaction model.  FlightInv places, for each queue of an          *)
(* endpoint, everything that exists of the transaction at its head: the    *)
(* request on its way, owed by the peer's client, or its response on the   *)
(* way back, never two of them.                                            *)

\* The responses that queue p waits for.
Awaited(p) == {ResponseTo[t] : t \in Expected(p)}

\* Queue p about q: what is in the stream to the peer (rq) and back (rs), and
\* what the peer's client owes (w).
FlightAt(p, rq, rs, w, q) ==
  /\ Only(rq, q, Requests, Expected(p))
  /\ Only(rs, q, Responses, Awaited(p))
  /\ w \subseteq Expected(p)
  /\ Quiet(rq, q, Requests) \/ (Quiet(rs, q, Responses) /\ w = {})
  /\ Quiet(rs, q, Responses) \/ w = {}

\* Queue q of node n.
Flight(n, q) ==
  FlightAt(ep[n].pending[q], stream[Other(n)], stream[n], Owed(ep[Other(n)], q), q)

FlightInv == link => \A n \in Node, q \in Queues : Flight(n, q)

\* Nothing is under way.
LEMMA FlightIdle ==
  ASSUME NEW p, NEW rq \in Seq(Message), NEW rs \in Seq(Message), NEW q,
         Quiet(rq, q, Requests), Quiet(rs, q, Responses)
  PROVE  FlightAt(p, rq, rs, {}, q)
  BY OnlyFacts DEF FlightAt

\* The peer reads a request, which it then has to answer; the endpoint reads
\* a response, after which nothing is under way.
LEMMA FlightRead ==
  ASSUME NEW p, NEW rq \in Seq(Message), NEW rs \in Seq(Message), NEW w, NEW q,
         FlightAt(p, rq, rs, w, q)
  PROVE  /\ rq # <<>> =>
              IF About(Head(rq), q, Requests)
              THEN w = {} /\ FlightAt(p, Tail(rq), rs, {Head(rq).type}, q)
              ELSE FlightAt(p, Tail(rq), rs, w, q)
         /\ rs # <<>> =>
              /\ FlightAt(p, rq, Tail(rs), w, q)
              /\ About(Head(rs), q, Responses) =>
                   Quiet(rq, q, Requests) /\ Quiet(Tail(rs), q, Responses) /\ w = {}
<1>1. \A s \in Seq(Message) : \A T : s # <<>> /\ About(Head(s), q, T) => ~Quiet(s, q, T)
  <2>1. \A s \in Seq(Message) : s # <<>> => 1 \in DOMAIN s /\ Head(s) = s[1]
    OBVIOUS
  <2> QED
    BY <2>1 DEF Quiet
<1>2. ASSUME rq # <<>>
      PROVE  IF About(Head(rq), q, Requests)
             THEN w = {} /\ FlightAt(p, Tail(rq), rs, {Head(rq).type}, q)
             ELSE FlightAt(p, Tail(rq), rs, w, q)
  <2>1. /\ Only(Tail(rq), q, Requests, Expected(p))
        /\ Quiet(rq, q, Requests) => Quiet(Tail(rq), q, Requests)
        /\ About(Head(rq), q, Requests) =>
             Head(rq).type \in Expected(p) /\ Quiet(Tail(rq), q, Requests)
    BY <1>2, OnlyTail DEF FlightAt
  <2> QED
    BY <1>1, <1>2, <2>1 DEF FlightAt
<1>3. ASSUME rs # <<>>
      PROVE  /\ FlightAt(p, rq, Tail(rs), w, q)
             /\ About(Head(rs), q, Responses) =>
                  Quiet(rq, q, Requests) /\ Quiet(Tail(rs), q, Responses) /\ w = {}
  <2>1. /\ Only(Tail(rs), q, Responses, Awaited(p))
        /\ Quiet(rs, q, Responses) => Quiet(Tail(rs), q, Responses)
        /\ About(Head(rs), q, Responses) => Quiet(Tail(rs), q, Responses)
    BY <1>3, OnlyTail DEF FlightAt
  <2> QED
    BY <1>1, <1>3, <2>1 DEF FlightAt
<1> QED
  BY <1>2, <1>3

\* The endpoint asks.
LEMMA FlightAsked ==
  ASSUME NEW e, NEW f, NEW q, NEW free, Asked(e, f, q, free), f.out \in Seq(Message),
         NEW rq \in Seq(Message), NEW rs \in Seq(Message), NEW w,
         FlightAt(e.pending[q], rq, rs, w, q),
         free => Quiet(rq, q, Requests) /\ Quiet(rs, q, Responses) /\ w = {}
  PROVE  FlightAt(f.pending[q], rq \o f.out, rs, w, q)
<1> DEFINE p == e.pending[q]
           r == f.pending[q]
<1>1. CASE Expected(r) = Expected(p) /\ Quiet(f.out, q, Requests)
  <2>1. /\ Only(rq \o f.out, q, Requests, Expected(r))
        /\ Quiet(rq, q, Requests) => Quiet(rq \o f.out, q, Requests)
    BY <1>1, OnlyFacts DEF FlightAt
  <2> QED
    BY <1>1, <2>1 DEF FlightAt, Awaited
<1>2. CASE /\ free \/ Expected(p) = {}
           /\ Only(f.out, q, Requests, Expected(r))
  <2>1. Quiet(rq, q, Requests) /\ Quiet(rs, q, Responses) /\ w = {}
    <3>1. CASE Expected(p) = {}
      <4>1. Awaited(p) = {}
        BY <3>1 DEF Awaited
      <4> QED
        BY <3>1, <4>1, OnlyFacts DEF FlightAt
    <3> QED
      BY <1>2, <3>1
  <2>2. Only(rq \o f.out, q, Requests, Expected(r)) /\ Only(rs, q, Responses, Awaited(r))
    BY <1>2, <2>1, OnlyFacts
  <2> QED
    BY <2>1, <2>2 DEF FlightAt
<1> QED
  BY <1>1, <1>2 DEF Asked

\* The peer answers.
LEMMA FlightAnswered ==
  ASSUME NEW f, NEW q, NEW w, Answered(f, q, w), f.out \in Seq(Message),
         NEW p, NEW rq \in Seq(Message), NEW rs \in Seq(Message),
         FlightAt(p, rq, rs, w, q)
  PROVE  FlightAt(p, rq, rs \o f.out, Owed(f, q), q)
<1>1. Owed(f, q) \subseteq w
  BY DEF Answered
<1>2. CASE Quiet(f.out, q, Responses)
  <2>1. /\ Only(rs \o f.out, q, Responses, Awaited(p))
        /\ Quiet(rs, q, Responses) => Quiet(rs \o f.out, q, Responses)
    BY <1>2, OnlyFacts DEF FlightAt
  <2> QED
    BY <1>1, <2>1 DEF FlightAt
<1>3. ASSUME NEW t \in w, t \notin Owed(f, q),
             Only(f.out, q, Responses, {ResponseTo[t]})
      PROVE  FlightAt(p, rq, rs \o f.out, Owed(f, q), q)
  <2>1. Quiet(rq, q, Requests) /\ Quiet(rs, q, Responses) /\ t \in Expected(p)
    BY <1>3 DEF FlightAt
  <2>2. Expected(p) = {t}
    BY <2>1 DEF Expected
  <2>3. Owed(f, q) = {}
    BY <1>1, <1>3, <2>2 DEF FlightAt
  <2>4. Awaited(p) = {ResponseTo[t]}
    BY <2>2 DEF Awaited
  <2>5. Only(rs \o f.out, q, Responses, Awaited(p))
    BY <1>3, <2>1, <2>4, OnlyFacts
  <2> QED
    BY <2>1, <2>3, <2>5 DEF FlightAt
<1> QED
  BY <1>2, <1>3 DEF Answered

\* Node n goes on as f, having read its stream up to rest: it asks only on
\* queues that are free and answers only what it has to (D).
LEMMA FlightStep ==
  ASSUME EndpointsOK, FlightInv, NEW n \in Node, NEW f, WellFormed(f),
         NEW rest \in Seq(Message), Commit(n, f, rest),
         NEW F, NEW D, Kept(ep[n], f, F, D, link),
         \A q \in Queues : link =>
           /\ FlightAt(ep[n].pending[q], stream[Other(n)], rest, Owed(ep[Other(n)], q), q)
           /\ q \in F => /\ Quiet(stream[Other(n)], q, Requests)
                         /\ Quiet(rest, q, Responses) /\ Owed(ep[Other(n)], q) = {},
         \A q \in Queues : link =>
           FlightAt(ep[Other(n)].pending[q], rest, stream[Other(n)], D[q], q)
  PROVE  FlightInv'
<1> DEFINE k == Other(n)
<1>1. /\ k \in Node /\ k # n /\ Other(k) = n /\ \A i \in Node : i = n \/ i = k
      /\ stream[n] \in Seq(Message) /\ stream[k] \in Seq(Message) /\ link \in BOOLEAN
      /\ f.out \in Seq(Message)
  BY NodeFacts DEF EndpointsOK, Node, Other, WellFormed, Endpoint
<1>2. /\ ep'[n].pending = f.pending /\ ep'[n].needs_response = f.needs_response
      /\ ep'[n].asked = f.asked
  <2> DEFINE g == [f EXCEPT !.out = <<>>]
  <2>1. g.pending = f.pending /\ g.needs_response = f.needs_response /\ g.asked = f.asked
    BY DEF WellFormed, Endpoint
  <2>2. ep' = [ep EXCEPT ![n] = g]
    BY DEF Commit
  <2> HIDE DEF g
  <2> QED
    BY <2>1, <2>2 DEF EndpointsOK
<1>3. ep'[k] = ep[k] /\ stream'[n] = rest /\ link' = link
  BY <1>1 DEF Commit, EndpointsOK
<1>4. link => stream'[k] = stream[k] \o f.out
  BY <1>1 DEF Commit, EndpointsOK
<1>5. \A q : Owed(ep'[n], q) = Owed(f, q) /\ Owed(ep'[k], q) = Owed(ep[k], q)
  BY <1>2, <1>3 DEF Owed
<1>6. ASSUME link', NEW q \in Queues PROVE Flight(n, q)'
  <2>1. FlightAt(f.pending[q], stream[k] \o f.out, rest, Owed(ep[k], q), q)
    <3> DEFINE free == q \in F
               e    == ep[n]
               rq   == stream[k]
               w    == Owed(ep[k], q)
    <3>1. Asked(e, f, q, free)
      BY DEF Kept
    <3>2. FlightAt(e.pending[q], rq, rest, w, q) /\ rq \in Seq(Message)
      BY <1>1, <1>3, <1>6
    <3>3. free => Quiet(rq, q, Requests) /\ Quiet(rest, q, Responses) /\ w = {}
      BY <1>3, <1>6
    <3> HIDE DEF free, e, rq, w
    <3>4. FlightAt(f.pending[q], rq \o f.out, rest, w, q)
      BY <1>1, <3>1, <3>2, <3>3, FlightAsked
    <3> QED
      BY <3>4 DEF rq, w
  <2> QED
    BY <1>2, <1>3, <1>4, <1>5, <1>6, <2>1 DEF Flight
<1>7. ASSUME link', NEW q \in Queues PROVE Flight(k, q)'
  <2>1. link
    BY <1>3, <1>7
  <2>2. FlightAt(ep[k].pending[q], rest, stream[k] \o f.out, Owed(f, q), q)
    <3>1. Answered(f, q, D[q])
      BY <2>1 DEF Kept
    <3> QED
      BY <1>1, <2>1, <3>1, FlightAnswered
  <2> QED
    BY <1>1, <1>3, <1>4, <1>5, <2>1, <2>2 DEF Flight
<1> HIDE DEF k
<1> QED
  BY <1>1, <1>6, <1>7 DEF FlightInv

\* A step that reads nothing.
LEMMA FlightStay ==
  ASSUME EndpointsOK, FlightInv, NEW n \in Node, NEW f, WellFormed(f),
         Commit(n, f, stream[n]), NEW F,
         Kept(ep[n], f, F, [q \in Queues |-> Owed(ep[n], q)], link),
         \A q \in F : /\ Quiet(stream[Other(n)], q, Requests)
                      /\ Quiet(stream[n], q, Responses) /\ Owed(ep[Other(n)], q) = {}
  PROVE  FlightInv'
<1> DEFINE k == Other(n)
           D == [q \in Queues |-> Owed(ep[n], q)]
<1>1. /\ k \in Node /\ Other(k) = n /\ stream[n] \in Seq(Message)
  BY NodeFacts DEF EndpointsOK, Node, Other
<1>2. \A q \in Queues : link =>
        FlightAt(ep[n].pending[q], stream[k], stream[n], Owed(ep[k], q), q)
  BY DEF FlightInv, Flight
<1>3. \A q \in Queues : link =>
        FlightAt(ep[k].pending[q], stream[n], stream[k], D[q], q)
  BY <1>1 DEF FlightInv, Flight
<1> HIDE DEF D
<1> QED
  BY <1>1, <1>2, <1>3, FlightStep DEF D

\* A step that asks nothing where a request is under way.
LEMMA FlightKeeps ==
  ASSUME EndpointsOK, FlightInv, NEW n \in Node, NEW f, WellFormed(f),
         Commit(n, f, stream[n]), Keeps(ep[n], f)
  PROVE  FlightInv'
<1>1. Kept(ep[n], f, {}, [q \in Queues |-> Owed(ep[n], q)], link)
  BY DEF Keeps, Kept
<1> QED
  BY <1>1, FlightStay

\* A retransmission, and the end after send-tries of them.
LEMMA FlightOverdue ==
  ASSUME EndpointsOK, FlightInv, "late" \notin Env, NEW n \in Node, NEW q \in Queues,
         ResponseOverdue(n, q)
  PROVE  FlightInv'
<1> DEFINE e  == ep[n]
           f  == check_for_retransmits(e, q)
           D  == [r \in Queues |-> Owed(e, r)]
           F  == {q}
           on == link
<1>1. /\ WellFormed(e) /\ e.out = <<>> /\ e.pending[q] # <<>>
      /\ ~ResponseUnderway(n, q) /\ Commit(n, f, stream[n])
  BY DEF ResponseOverdue, EndpointsOK
<1>2. /\ Quiet(stream[Other(n)], q, Requests) /\ Quiet(stream[n], q, Responses)
      /\ Owed(ep[Other(n)], q) = {}
  BY <1>1 DEF ResponseUnderway, Quiet, About, Owed
<1>3. WellFormed(f)
  BY <1>1, CheckForRetransmits
<1>4. q \in F /\ (on => \A r \in Queues : Owed(e, r) \subseteq D[r])
  OBVIOUS
<1> HIDE DEF e, D, F, on
<1>5. ASSUME Head(e.pending[q]).tries < SendTries
      PROVE  Kept(e, schedule_acktivity_timer(send_queued(e, q)), F, D, on)
  <2> DEFINE g == send_queued(e, q)
  <2>1. Kept(e, g, F, D, on) /\ WellFormed(g)
    BY <1>1, <1>4, <1>5, KeptQueued, SendQueued
  <2> HIDE DEF g
  <2>2. Kept(e, schedule_acktivity_timer(g), F, D, on)
    BY <2>1, ScheduleAcktivity, KeptSame
  <2> QED
    BY <2>2 DEF g
<1>6. Kept(e, timed_out(e), F, D, on)
  <2>1. Kept(e, e, F, D, on)
    BY <1>1, <1>4, KeptStart
  <2> QED
    BY <1>1, <2>1, KeptTimedOut
<1>7. Kept(e, f, F, D, on)
  BY <1>5, <1>6 DEF check_for_retransmits
<1> HIDE DEF f
<1> QED
  BY <1>1, <1>2, <1>3, <1>7, FlightStay DEF e, D, F, on

\* The router opens the handshake.
LEMMA FlightMakePeer ==
  ASSUME EndpointsOK, FlightInv, NEW n \in Node, MakePeer(n)
  PROVE  FlightInv'
<1>1. /\ WellFormed(ep[n]) /\ ep[n].out = <<>> /\ ep[n].pstate = "connecting"
      /\ Commit(n, start_peer(ep[n]), stream[n])
  BY DEF MakePeer, EndpointsOK
<1>2. WellFormed(start_peer(ep[n]))
  BY <1>1, StartPeer
<1>3. Keeps(ep[n], start_peer(ep[n]))
  BY <1>1, KeptStartPeer DEF Keeps
<1> QED
  BY <1>1, <1>2, <1>3, FlightKeeps

\* A message is read: a response frees its queue, a request has to be answered.
LEMMA FlightReceive ==
  ASSUME EndpointsOK, FlightInv, NEW n \in Node, Receive(n)
  PROVE  FlightInv'
<1> DEFINE e    == ep[n]
           k    == Other(n)
           s    == stream[n]
           m    == Head(s)
           rest == Tail(s)
           on   == link
           F    == IF m.type \in Responses THEN {m.dest} ELSE {}
           D    == [q \in Queues |->
                      IF About(m, q, Requests) THEN {m.type} ELSE Owed(e, q)]
<1>1. /\ WellFormed(e) /\ e.out = <<>> /\ s \in Seq(Message)
      /\ s # <<>> /\ k \in Node /\ Other(k) = n /\ stream[k] \in Seq(Message)
  BY NodeFacts DEF EndpointsOK, Receive, Node, Other
<1>2. m \in Message /\ rest \in Seq(Message) /\ m.dest \in Queues
  <2>1. m \in Message /\ rest \in Seq(Message)
    BY <1>1
  <2> QED
    BY <2>1 DEF Message
<1>3. PICK c \in HandlerInputs : Commit(n, handle_session_receive(e, m, c), rest)
  BY DEF Receive
<1>4. c \in Inputs
  BY ClientAssumption DEF HandlerInputs, Inputs, FaultFree
<1> DEFINE f == handle_session_receive(e, m, c)
<1>5. WellFormed(f)
  BY <1>1, <1>2, <1>4, HandleSessionReceive DEF Handled
<1>6. ASSUME NEW q \in Queues, link
      PROVE  /\ FlightAt(ep[n].pending[q], stream[k], rest, Owed(ep[k], q), q)
             /\ q \in F => /\ Quiet(stream[k], q, Requests)
                           /\ Quiet(rest, q, Responses) /\ Owed(ep[k], q) = {}
  <2>1. FlightAt(ep[n].pending[q], stream[k], s, Owed(ep[k], q), q)
    BY <1>6 DEF FlightInv, Flight
  <2>2. q \in F => About(m, q, Responses)
    BY DEF About
  <2> HIDE DEF F, m, s, rest, k
  <2>3. /\ FlightAt(ep[n].pending[q], stream[k], Tail(s), Owed(ep[k], q), q)
        /\ About(Head(s), q, Responses) =>
             /\ Quiet(stream[k], q, Requests)
             /\ Quiet(Tail(s), q, Responses) /\ Owed(ep[k], q) = {}
    BY <1>1, <2>1, FlightRead, ZenonT(30)
  <2> QED
    BY <2>2, <2>3, Zenon DEF m, rest
<1>7. ASSUME NEW q \in Queues, on
      PROVE  /\ FlightAt(ep[k].pending[q], rest, stream[k], D[q], q)
             /\ About(m, q, Requests) => Owed(e, q) = {}
  <2>1. FlightAt(ep[k].pending[q], s, stream[k], Owed(e, q), q)
    BY <1>1, <1>7 DEF FlightInv, Flight
  <2>2. D[q] = IF About(m, q, Requests) THEN {m.type} ELSE Owed(e, q)
    OBVIOUS
  <2> HIDE DEF D, s, k, e
  <2>3. IF About(m, q, Requests)
        THEN Owed(e, q) = {} /\ FlightAt(ep[k].pending[q], rest, stream[k], {m.type}, q)
        ELSE FlightAt(ep[k].pending[q], rest, stream[k], Owed(e, q), q)
    BY <1>1, <2>1, FlightRead
  <2> QED
    BY <2>2, <2>3
<1>8. Reads(e, m, F, D, on)
  <2>1. ASSUME on, NEW q \in Queues PROVE Owed(e, q) \subseteq D[q]
    BY <1>7, <2>1
  <2>2. ASSUME on, m.type \in Requests
        PROVE  m.type \in D[m.dest] /\ Owed(e, m.dest) = {}
    BY <1>2, <1>7, <2>2 DEF About
  <2> QED
    BY <2>1, <2>2 DEF Reads
<1> HIDE DEF F, D, m, rest, s
<1>9. Kept(e, f, F, D, on)
  BY <1>1, <1>2, <1>4, <1>8, KeptReceive
<1> HIDE DEF f
<1> QED
  BY <1>1, <1>2, <1>3, <1>5, <1>6, <1>7, <1>9, FlightStep DEF f

\* A new connection carries nothing, and a new peer owes nothing.
LEMMA FlightTcpConnect ==
  ASSUME TcpConnect PROVE FlightInv'
<1>1. \A n \in Node : stream'[n] = <<>>
  BY DEF TcpConnect
<1>2. \A n \in Node : \A q : Owed(ep'[n], q) = {}
  <2>1. \A n \in Node : ep'[n].needs_response = {} /\ ep'[n].asked = {}
    BY DEF TcpConnect, NewPeer
  <2> QED
    BY <2>1 DEF Owed
<1>3. \A q : Quiet(<<>>, q, Requests) /\ Quiet(<<>>, q, Responses)
  BY DEF Quiet
<1>4. \A p, q : FlightAt(p, <<>>, <<>>, {}, q)
  <2>1. <<>> \in Seq(Message)
    OBVIOUS
  <2> QED
    BY <1>3, <2>1, FlightIdle
<1> QED
  BY <1>1, <1>2, <1>4, NodeFacts DEF FlightInv, Flight

\* If no response is late, every step keeps the transactions apart.
LEMMA FlightNext ==
  ASSUME "late" \notin Env PROVE SessionInv /\ FlightInv /\ [Next]_vars => FlightInv'
<1> SUFFICES ASSUME SessionInv, FlightInv, [Next]_vars PROVE FlightInv'
  OBVIOUS
<1>0. EndpointsOK
  BY DEF SessionInv
<1>1. CASE TcpConnect
  BY <1>1, FlightTcpConnect
<1>2. CASE LinkLoss
  BY <1>2 DEF LinkLoss, FlightInv
<1>3. ASSUME NEW n \in Node, MakePeer(n) PROVE FlightInv'
  BY <1>0, <1>3, FlightMakePeer
<1>4. ASSUME NEW n \in Node, Receive(n) PROVE FlightInv'
  BY <1>0, <1>4, FlightReceive
<1>5. ASSUME NEW n \in Node, NEW e, NEW D, Left(n, e, D) PROVE FlightInv'
  <2>1. ~link'
    BY <1>5, ZenonT(60) DEF Left, Close
  <2> QED
    BY <2>1 DEF FlightInv
<1>6. ASSUME NEW n \in Node, TimerStep(n) \/ ClientStep(n) PROVE FlightInv'
  <2>1. ASSUME NEW f, Moved(n, f) PROVE FlightInv'
    BY <1>0, <2>1, FlightKeeps DEF Moved
  <2> QED
    BY <1>0, <1>5, <1>6, <2>1, TimerMove, ClientMove, FlightOverdue
<1>7. CASE UNCHANGED vars
  BY <1>7 DEF vars, FlightInv, Flight
<1> QED
  BY <1>1, <1>2, <1>3, <1>4, <1>6, <1>7 DEF Next

\* If no response is late, the invariant holds in every reachable state.
LEMMA FlightAlways == ASSUME "late" \notin Env PROVE Spec => [](SessionInv /\ FlightInv)
<1>1. Init => FlightInv
  BY DEF Init, FlightInv
<1>2. SessionInv /\ FlightInv /\ [Next]_vars => FlightInv'
  BY FlightNext
<1> QED
  BY <1>1, <1>2, InvAlways, PTL DEF Spec

\* One message at most is in a stream about q: the set of its places.
LEMMA OnlyOne ==
  ASSUME NEW s, NEW q, NEW T, NEW X, Only(s, q, T, X), NEW S,
         S = {i \in DOMAIN s : s[i].dest = q /\ s[i].type \in T}
  PROVE  /\ Quiet(s, q, T) => Cardinality(S) = 0
         /\ S = {} \/ Cardinality(S) = 1
         /\ \A i \in S : s[i].dest = q /\ s[i].type \in X
<1>1. /\ Quiet(s, q, T) => S = {}
      /\ \A i \in S : s[i].dest = q /\ s[i].type \in X
      /\ \A i \in S : S = {i}
  BY DEF Quiet, Only, About
<1>2. S = {} \/ Cardinality(S) = 1
  <2>1. CASE S # {}
    <3>1. PICK i : i \in S
      BY <2>1
    <3>2. S = {i}
      BY <1>1, <3>1
    <3> QED
      BY <3>2, FS_Singleton
  <2> QED
    BY <2>1
<1>3. Quiet(s, q, T) => Cardinality(S) = 0
  BY <1>1, FS_EmptySet
<1> QED
  BY <1>1, <1>2, <1>3

\* DLEP's transaction model holds between two of these implementations,
\* provided no response is taken for overdue while it is on its way: of each
\* queue of responses_pending at most one request is unanswered, and
\* handle_response only ever finds the response that it expects, whatever is
\* refused, suppressed, retransmitted or lost with the connection, and whatever
\* the clients call and when.
THEOREM Transactions ==
  ASSUME "late" \notin Env PROVE Spec => []TransactionModel
<1>1. FlightInv => TransactionModel
  <2> SUFFICES ASSUME FlightInv, NEW n \in Node, NEW q \in Queues, link
               PROVE  LET head == Head(ep[n].pending[q]).type
                      IN  /\ Cardinality(RequestsUnderway(n, q))
                               + Cardinality(ResponsesUnderway(n, q))
                               + Cardinality(Deferred(n, q)) <= 1
                          /\ RequestsUnderway(n, q) # {} =>
                               /\ ep[n].pending[q] # <<>>
                               /\ \A i \in RequestsUnderway(n, q) :
                                    stream[Other(n)][i].type = head
                          /\ \A i \in ResponsesUnderway(n, q) :
                               response_ok(ep[n], stream[n][i])
                          /\ Deferred(n, q) # {} =>
                               ep[n].pending[q] # <<>> /\ Deferred(n, q) = {head}
    BY DEF TransactionModel
  <2> DEFINE p  == ep[n].pending[q]
             rq == stream[Other(n)]
             rs == stream[n]
             w  == Owed(ep[Other(n)], q)
             R  == RequestsUnderway(n, q)
             S  == ResponsesUnderway(n, q)
  <2>1. FlightAt(p, rq, rs, w, q) /\ Deferred(n, q) = w
    BY DEF FlightInv, Flight, Deferred, Owed
  <2>2. /\ Quiet(rq, q, Requests) => Cardinality(R) = 0
        /\ R = {} \/ Cardinality(R) = 1
        /\ \A i \in R : rq[i].dest = q /\ rq[i].type \in Expected(p)
    <3>1. R = {i \in DOMAIN rq : rq[i].dest = q /\ rq[i].type \in Requests}
      BY DEF RequestsUnderway
    <3>2. Only(rq, q, Requests, Expected(p))
      BY <2>1 DEF FlightAt
    <3> HIDE DEF R, rq, p
    <3> QED
      BY <3>1, <3>2, OnlyOne
  <2>3. /\ Quiet(rs, q, Responses) => Cardinality(S) = 0
        /\ S = {} \/ Cardinality(S) = 1
        /\ \A i \in S : rs[i].dest = q /\ rs[i].type \in Awaited(p)
    <3>1. S = {i \in DOMAIN rs : rs[i].dest = q /\ rs[i].type \in Responses}
      BY DEF ResponsesUnderway
    <3> DEFINE X == Awaited(p)
    <3>2. Only(rs, q, Responses, X)
      BY <2>1 DEF FlightAt
    <3> HIDE DEF S, rs, X
    <3>3. /\ Quiet(rs, q, Responses) => Cardinality(S) = 0
          /\ S = {} \/ Cardinality(S) = 1
          /\ \A i \in S : rs[i].dest = q /\ rs[i].type \in X
      BY <3>1, <3>2, OnlyOne
    <3> QED
      BY <3>3 DEF X
  <2>4. /\ w = {} => Cardinality(w) = 0
        /\ w # {} => Cardinality(w) = 1 /\ p # <<>> /\ w = {Head(p).type}
    <3>1. w # {} => p # <<>> /\ w = {Head(p).type}
      BY <2>1 DEF FlightAt, Expected
    <3> HIDE DEF w, p
    <3> QED
      BY <3>1, FS_EmptySet, FS_Singleton
  <2>5. Cardinality(R) + Cardinality(S) + Cardinality(w) <= 1
    <3>1. \A T : T = {} => Cardinality(T) = 0
      BY FS_EmptySet
    <3>2. /\ Quiet(rq, q, Requests) \/ (Quiet(rs, q, Responses) /\ w = {})
          /\ Quiet(rs, q, Responses) \/ w = {}
      BY <2>1 DEF FlightAt
    <3> HIDE DEF R, S, w, rq, rs, p
    <3>3. /\ Cardinality(R) \in {0, 1} /\ Cardinality(S) \in {0, 1}
          /\ Cardinality(w) \in {0, 1}
      BY <2>2, <2>3, <2>4, <3>1
    <3>4. \/ Cardinality(R) = 0 /\ Cardinality(S) = 0
          \/ Cardinality(R) = 0 /\ Cardinality(w) = 0
          \/ Cardinality(S) = 0 /\ Cardinality(w) = 0
      BY <2>2, <2>3, <2>4, <3>2
    <3> QED
      BY <3>3, <3>4
  <2>6. R # {} => p # <<>> /\ \A i \in R : rq[i].type = Head(p).type
    BY <2>2 DEF Expected
  <2>7. \A i \in S : response_ok(ep[n], rs[i])
    <3> SUFFICES ASSUME NEW i \in S PROVE response_ok(ep[n], rs[i])
      OBVIOUS
    <3>1. rs[i].dest = q /\ rs[i].type \in Awaited(p)
      BY <2>3
    <3>2. p # <<>> /\ rs[i].type = ResponseTo[Head(p).type]
      BY <3>1 DEF Awaited, Expected
    <3> QED
      BY <3>1, <3>2 DEF response_ok
  <2> HIDE DEF R, S, w
  <2>8. /\ RequestsUnderway(n, q) = R /\ ResponsesUnderway(n, q) = S
        /\ Deferred(n, q) = w
    BY <2>1 DEF R, S
  <2> QED
    BY <2>4, <2>5, <2>6, <2>7, <2>8
<1> QED
  BY <1>1, FlightAlways, PTL

-----------------------------------------------------------------------------
(* Stable sessions.  In instances in which the modem's client brings       *)
(* destinations up and down, the router's client accepts or refuses them,  *)
(* and nothing is late, suppressed or invalid, StableInv relates what the  *)
(* two ends hold about each destination to what is on its way between      *)
(* them, so that no handler ever finds a reason to end the session.        *)

\* Clients and environment of these instances.  A client whose destinations
\* may be refused waits for the answer before it calls again (MaxQueue <= 1):
\* a Destination_Down that is queued behind a refused Destination_Up is sent
\* all the same, and the router terminates, since it has no such destination.
Benign ==
  /\ Env \subseteq {"heartbeats", "empty_request", "no_status", "link_loss"}
  /\ ClientOps["modem"] \subseteq
       {"destination_up", "destination_down", "peer_update", "terminate"}
  /\ ClientOps["router"] \subseteq {"peer_update", "terminate"}
  /\ ClientStatuses \subseteq {"Success", "Not_Interested"}
  /\ "Not_Interested" \in ClientStatuses => MaxQueue <= 1

Live(e) == e.pstate \in {"connecting", "connected", "in_session"}

Refusals == "Not_Interested" \in ClientStatuses

\* The messages that end a session, and those that a modem, or a router,
\* can be sent in it.
Final == {"Session_Termination", "EOF"}

Heard(modem) ==
  {"Session_Update", "Session_Update_Response", "Heartbeat"} \cup
    IF modem
    THEN {"Session_Initialization", "Destination_Up_Response",
          "Destination_Down_Response"}
    ELSE {"Session_Initialization_Response", "Destination_Up", "Destination_Down"}

\* An endpoint has no cause to end its session; the destinations of a session
\* are the modem's, no answer about them is left to a client, and nothing is
\* asked about those that were refused.
Tidy(e) ==
  /\ e.cause = "none"
  /\ ~e.modem => e.local_pdp = {}
  /\ Live(e) =>
       /\ e.needs_response = {} /\ e.asked = {}
       /\ Handshaking(e) \/ ~e.modem => e.not_interested = {}
       /\ e.modem => e.peer_pdp = {}
       /\ Refusals => \A d \in Dests : Len(e.pending[d]) <= 1
       /\ \A d \in e.not_interested : e.pending[d] = <<>>
       /\ \A q \in Queues : \A i \in DOMAIN e.pending[q] :
            e.pending[q][i].type \in Heard(~e.modem)

Proper(m, modem) ==
  /\ m.type \in Heard(modem) \cup Final
  /\ \/ m.status \in {"none", "Success"}
     \/ m.type = "Destination_Up_Response" /\ m.status = "Not_Interested" /\ Refusals

AllProper(s, modem) == \A i \in DOMAIN s : Proper(s[i], modem)

Ends(s) == \E i \in DOMAIN s : s[i].type \in Final

\* Every response in the stream of n answers the head of its queue; every
\* request about a destination suits what the router knows of it (V).
Matched(n) ==
  \A q \in Queues : Only(stream[n], q, Responses, Awaited(ep[n].pending[q]))

Suits(v) == IF v THEN {"Destination_Down"} ELSE {"Destination_Up"}

Sound(s, V) == \A d \in Dests : Only(s, d, Requests, Suits(d \in V))

\* The stream of an endpoint that will read it.  Without a connection it ends,
\* and the other stream holds nothing but its end.
StreamStable(n) ==
  Live(ep[n]) =>
    /\ AllProper(stream[n], ep[n].modem)
    /\ ~link => /\ \E i \in DOMAIN stream[n] : stream[n][i].type = "EOF"
                /\ Matched(n)
                /\ ~ep[n].modem => Sound(stream[n], ep[n].peer_pdp)
                /\ stream[Other(n)] \in {<<>>, <<EOF>>}

\* Of every non-empty queue, the request or its response is on its way.
Served(n, q) ==
  ep[n].pending[q] # <<>> =>
    ~Quiet(stream[Other(n)], q, Requests) \/ ~Quiet(stream[n], q, Responses)

\* The requests of a queue bring the destination up and down in turn.
Alternates(p) ==
  \A i \in DOMAIN p :
    /\ p[i].type \in {"Destination_Up", "Destination_Down"}
    /\ i > 1 => p[i].type # p[i - 1].type

\* The modem has queue p for destination d, which it has (L) or not and which
\* was refused (NI) or not; the router has it (V) or not; s is the modem's
\* stream.  With nothing pending, the two agree or the router has refused.
\* Otherwise the last request says what the modem has, and the first one what
\* the router does not have yet, or has, once the response is on its way.
MirrorAt(p, L, NI, V, s, d) ==
  /\ Alternates(p)
  /\ p = <<>> => IF NI THEN ~V ELSE V = L
  /\ p # <<>> =>
       /\ ~NI
       /\ p[Len(p)].type = "Destination_Up" <=> L
       /\ Quiet(s, d, Responses) => (V <=> p[1].type = "Destination_Down")
       /\ \A i \in DOMAIN s : About(s[i], d, Responses) =>
            IF s[i].status = "Not_Interested"
            THEN ~V /\ p[1].type = "Destination_Up" /\ Len(p) = 1
            ELSE V <=> p[1].type = "Destination_Up"

\* The modem is e, the router has the destinations in V.
MirrorOf(e, V, s, d) ==
  MirrorAt(e.pending[d], d \in e.local_pdp, d \in e.not_interested, d \in V, s, d)

Mirror(d) == MirrorOf(ep["modem"], ep["router"].peer_pdp, stream["modem"], d)

StableInv ==
  /\ \A n \in Node : Tidy(ep[n]) /\ StreamStable(n)
  /\ link =>
       /\ \A n \in Node : Live(ep[n]) /\ ~Ends(stream[n])
       /\ \A n \in Node, q \in Queues : Served(n, q)
       /\ ep["modem"].pstate = "in_session" => \A d \in Dests : Mirror(d)

\* What is in a stream after a write and after a read.
LEMMA StreamFacts ==
  ASSUME NEW q, NEW T, NEW s \in Seq(Message), NEW t \in Seq(Message)
  PROVE  /\ ~Quiet(s, q, T) \/ ~Quiet(t, q, T) => ~Quiet(s \o t, q, T)
         /\ s # <<>> /\ ~Quiet(s, q, T) /\ ~About(Head(s), q, T) =>
              ~Quiet(Tail(s), q, T)
         /\ \A P : (\A i \in DOMAIN s : s[i] \in P) /\ (\A i \in DOMAIN t : t[i] \in P) =>
              \A i \in DOMAIN (s \o t) : (s \o t)[i] \in P
         /\ \A P : s # <<>> /\ (\A i \in DOMAIN s : s[i] \in P) =>
              Head(s) \in P /\ \A i \in DOMAIN Tail(s) : Tail(s)[i] \in P
<1>1. /\ Len(s) \in Nat /\ Len(t) \in Nat
      /\ DOMAIN s = 1..Len(s) /\ DOMAIN t = 1..Len(t)
      /\ DOMAIN (s \o t) = 1..(Len(s) + Len(t))
      /\ \A i \in DOMAIN s : i \in DOMAIN (s \o t) /\ (s \o t)[i] = s[i]
      /\ \A i \in DOMAIN t : i + Len(s) \in DOMAIN (s \o t) /\ (s \o t)[i + Len(s)] = t[i]
      /\ \A i \in DOMAIN (s \o t) :
           \/ i \in DOMAIN s /\ (s \o t)[i] = s[i]
           \/ i - Len(s) \in DOMAIN t /\ (s \o t)[i] = t[i - Len(s)]
  OBVIOUS
<1>2. s # <<>> =>
        /\ 1 \in DOMAIN s /\ Head(s) = s[1]
        /\ \A i \in DOMAIN s : i = 1 \/ (i - 1 \in DOMAIN Tail(s) /\ Tail(s)[i - 1] = s[i])
        /\ \A i \in DOMAIN Tail(s) : i + 1 \in DOMAIN s /\ Tail(s)[i] = s[i + 1]
  OBVIOUS
<1>3. ~Quiet(s, q, T) \/ ~Quiet(t, q, T) => ~Quiet(s \o t, q, T)
  BY <1>1 DEF Quiet
<1>4. s # <<>> /\ ~Quiet(s, q, T) /\ ~About(Head(s), q, T) => ~Quiet(Tail(s), q, T)
  BY <1>2 DEF Quiet
<1> QED
  BY <1>1, <1>2, <1>3, <1>4

\* The router, or the modem, does something that is not about d.
LEMMA MirrorQuiet ==
  ASSUME NEW p, NEW L, NEW NI, NEW V, NEW s \in Seq(Message), NEW d,
         MirrorAt(p, L, NI, V, s, d)
  PROVE  /\ s # <<>> /\ ~About(Head(s), d, Responses) =>
              MirrorAt(p, L, NI, V, Tail(s), d)
         /\ \A t \in Seq(Message) : Quiet(t, d, Responses) =>
              MirrorAt(p, L, NI, V, s \o t, d)
<1>1. ASSUME s # <<>>, ~About(Head(s), d, Responses)
      PROVE  MirrorAt(p, L, NI, V, Tail(s), d)
  <2>1. \A i \in DOMAIN Tail(s) : i + 1 \in DOMAIN s /\ Tail(s)[i] = s[i + 1]
    BY <1>1
  <2>2. Quiet(Tail(s), d, Responses) => Quiet(s, d, Responses)
    BY <1>1, StreamFacts
  <2> QED
    BY <2>1, <2>2 DEF MirrorAt
<1>2. ASSUME NEW t \in Seq(Message), Quiet(t, d, Responses)
      PROVE  MirrorAt(p, L, NI, V, s \o t, d)
  <2>1. \A i \in DOMAIN (s \o t) :
           \/ i \in DOMAIN s /\ (s \o t)[i] = s[i]
           \/ i - Len(s) \in DOMAIN t /\ (s \o t)[i] = t[i - Len(s)]
    OBVIOUS
  <2>2. \A i \in DOMAIN (s \o t) : About((s \o t)[i], d, Responses) =>
           i \in DOMAIN s /\ (s \o t)[i] = s[i]
    BY <1>2, <2>1 DEF Quiet
  <2>3. Quiet(s \o t, d, Responses) => Quiet(s, d, Responses)
    BY StreamFacts
  <2> QED
    BY <2>2, <2>3 DEF MirrorAt
<1> QED
  BY <1>1, <1>2

\* A request joins the queue of d, whose last one brought it the other way.
LEMMA MirrorPush ==
  ASSUME NEW p \in Seq(Entry), NEW r \in Seq(Entry), NEW L, NEW K, NEW NI, NEW V,
         NEW s, NEW d, NEW t, MirrorAt(p, L, NI, V, s, d), ~NI,
         t = (IF L THEN "Destination_Down" ELSE "Destination_Up"), K <=> ~L,
         Grown(p, r, t), V \in BOOLEAN, L \in BOOLEAN,
         p = <<>> => Quiet(s, d, Responses),
         p # <<>> => \A i \in DOMAIN s : About(s[i], d, Responses) =>
                       s[i].status # "Not_Interested"
  PROVE  MirrorAt(r, K, NI, V, s, d)
<1>1. /\ Len(p) \in Nat /\ DOMAIN p = 1..Len(p) /\ DOMAIN r = 1..Len(r)
      /\ (p = <<>> <=> Len(p) = 0) /\ Len(r) = Len(p) + 1 /\ r # <<>>
  BY DEF Grown
<1>2. /\ r[Len(p) + 1].type = t
      /\ \A i \in 1..Len(p) : r[i].type = p[i].type
  BY <1>1 DEF Grown
<1>3. Alternates(r)
  <2> SUFFICES ASSUME NEW i \in 1..(Len(p) + 1)
               PROVE  /\ r[i].type \in {"Destination_Up", "Destination_Down"}
                      /\ i > 1 => r[i].type # r[i - 1].type
    BY <1>1 DEF Alternates
  <2>1. CASE i \in 1..Len(p)
    <3>1. i > 1 => i - 1 \in 1..Len(p)
      BY <1>1, <2>1
    <3>2. /\ p[i].type \in {"Destination_Up", "Destination_Down"}
          /\ i > 1 => p[i].type # p[i - 1].type
      BY <1>1, <2>1 DEF MirrorAt, Alternates
    <3> QED
      BY <1>2, <2>1, <3>1, <3>2
  <2>2. CASE i = Len(p) + 1
    <3>1. i > 1 => p # <<>> /\ i - 1 = Len(p) /\ Len(p) \in 1..Len(p)
      BY <1>1, <2>2
    <3>2. i > 1 => r[i - 1].type = p[Len(p)].type
      BY <1>2, <3>1
    <3> QED
      BY <1>2, <2>2, <3>1, <3>2 DEF MirrorAt
  <2> QED
    BY <1>1, <2>1, <2>2
<1>4. r[Len(r)].type = "Destination_Up" <=> K
  BY <1>1, <1>2
<1>5. CASE p = <<>>
  <2>1. r[1].type = t /\ (V <=> L)
    BY <1>1, <1>2, <1>5 DEF MirrorAt
  <2>2. \A i \in DOMAIN s : ~About(s[i], d, Responses)
    BY <1>5 DEF Quiet
  <2> QED
    BY <1>1, <1>3, <1>4, <2>1, <2>2 DEF MirrorAt
<1>6. CASE p # <<>>
  <2>1. r[1].type = p[1].type
    BY <1>1, <1>2, <1>6
  <2> QED
    BY <1>1, <1>3, <1>4, <1>6, <2>1 DEF MirrorAt
<1> QED
  BY <1>5, <1>6

\* A client's call about a destination that the router has refused.
LEMMA MirrorRefused ==
  ASSUME NEW p, NEW L, NEW K, NEW NI, NEW V, NEW s, NEW d,
         MirrorAt(p, L, NI, V, s, d), NI
  PROVE  MirrorAt(p, K, NI, V, s, d)
  BY DEF MirrorAt

\* The modem reads the response to the head of the queue.
LEMMA MirrorPop ==
  ASSUME NEW p \in Seq(Entry), NEW r \in Seq(Entry), NEW L, NEW NI, NEW J, NEW V,
         NEW s \in Seq(Message), NEW d, MirrorAt(p, L, NI, V, s, d),
         p # <<>>, Shrunk(p, r), s # <<>>, About(Head(s), d, Responses),
         Quiet(Tail(s), d, Responses), V \in BOOLEAN, L \in BOOLEAN,
         J <=> NI \/ Head(s).status = "Not_Interested"
  PROVE  MirrorAt(r, L, J, V, Tail(s), d)
<1>1. /\ Len(p) \in Nat /\ DOMAIN p = 1..Len(p) /\ DOMAIN r = 1..Len(r)
      /\ Len(p) > 0 /\ Len(r) = Len(p) - 1 /\ (r = <<>> <=> Len(r) = 0)
  <2>1. Len(p) \in Nat /\ DOMAIN p = 1..Len(p) /\ Len(p) > 0
    OBVIOUS
  <2>2. DOMAIN r = 1..Len(r) /\ (r = <<>> <=> Len(r) = 0)
    OBVIOUS
  <2>3. Len(r) = Len(p) - 1
    BY Zenon DEF Shrunk
  <2> QED
    BY <2>1, <2>2, <2>3
<1>2. 1 \in DOMAIN s /\ Head(s) = s[1]
  OBVIOUS
<1>3. \A i \in 1..Len(r) : r[i].type = p[i + 1].type
  BY DEF Shrunk
<1>4. Alternates(r)
  <2> SUFFICES ASSUME NEW i \in 1..Len(r)
               PROVE  /\ r[i].type \in {"Destination_Up", "Destination_Down"}
                      /\ i > 1 => r[i].type # r[i - 1].type
    BY <1>1 DEF Alternates
  <2>1. i + 1 \in 1..Len(p) /\ (i + 1) - 1 = i /\ i + 1 > 1
    BY <1>1
  <2>2. p[i + 1].type \in {"Destination_Up", "Destination_Down"} /\ p[i + 1].type # p[i].type
    BY <1>1, <2>1 DEF MirrorAt, Alternates
  <2>3. i > 1 => i - 1 \in 1..Len(r) /\ (i - 1) + 1 = i
    BY <1>1
  <2>4. i > 1 => r[i - 1].type = p[i].type
    BY <1>3, <2>3
  <2> QED
    BY <1>3, <2>2, <2>4
<1>5. \A i \in DOMAIN Tail(s) : ~About(Tail(s)[i], d, Responses)
  BY DEF Quiet
<1>6. ~NI /\ (p[Len(p)].type = "Destination_Up" <=> L)
  BY DEF MirrorAt
<1>7. IF Head(s).status = "Not_Interested"
      THEN ~V /\ p[1].type = "Destination_Up" /\ Len(p) = 1
      ELSE V <=> p[1].type = "Destination_Up"
  BY <1>2 DEF MirrorAt
<1>8. CASE Head(s).status = "Not_Interested"
  <2>1. r = <<>> /\ J /\ ~V
    BY <1>1, <1>7, <1>8
  <2> QED
    BY <1>4, <2>1 DEF MirrorAt
<1>9. CASE Head(s).status # "Not_Interested" /\ r = <<>>
  <2>1. ~J /\ Len(p) = 1
    BY <1>1, <1>6, <1>9
  <2>2. V <=> L
    BY <1>6, <1>7, <1>9, <2>1
  <2> QED
    BY <1>4, <1>9, <2>1, <2>2 DEF MirrorAt
<1>10. CASE Head(s).status # "Not_Interested" /\ r # <<>>
  <2>1. /\ ~J /\ 1 \in 1..Len(r) /\ Len(r) \in 1..Len(r) /\ 1 + 1 = 2 /\ Len(r) + 1 = Len(p)
        /\ 2 \in DOMAIN p /\ 2 > 1 /\ 2 - 1 = 1 /\ 1 \in DOMAIN p
    BY <1>1, <1>6, <1>10
  <2>2. r[1].type = p[2].type /\ r[Len(r)].type = p[Len(p)].type
    BY <1>3, <2>1
  <2>3. /\ p[2].type # p[1].type
        /\ p[1].type \in {"Destination_Up", "Destination_Down"}
        /\ p[2].type \in {"Destination_Up", "Destination_Down"}
    BY <2>1 DEF MirrorAt, Alternates
  <2>4. V <=> r[1].type = "Destination_Down"
    BY <1>7, <1>10, <2>2, <2>3
  <2> QED
    BY <1>4, <1>5, <1>6, <1>10, <2>1, <2>2, <2>4 DEF MirrorAt
<1> QED
  BY <1>8, <1>9, <1>10

\* The router handles the request at the head of the queue and answers it.
LEMMA MirrorAnswer ==
  ASSUME NEW p \in Seq(Entry), NEW L, NEW NI, NEW V, NEW W, NEW s \in Seq(Message), NEW d,
         MirrorAt(p, L, NI, V, s, d), p # <<>>, Quiet(s, d, Responses),
         NEW x \in Message, About(x, d, Responses),
         V \in BOOLEAN,
         IF x.status = "Not_Interested"
         THEN ~W /\ p[1].type = "Destination_Up" /\ Len(p) = 1
         ELSE W <=> p[1].type = "Destination_Up"
  PROVE  MirrorAt(p, L, NI, W, s \o <<x>>, d)
<1>1. <<x>> \in Seq(Message)
  OBVIOUS
<1>2. \A i \in DOMAIN (s \o <<x>>) : About((s \o <<x>>)[i], d, Responses) =>
        (s \o <<x>>)[i] = x
  <2>1. \A i \in DOMAIN (s \o <<x>>) :
           \/ i \in DOMAIN s /\ (s \o <<x>>)[i] = s[i]
           \/ (s \o <<x>>)[i] = x
    OBVIOUS
  <2> QED
    BY <2>1 DEF Quiet
<1>3. ~Quiet(s \o <<x>>, d, Responses)
  <2>1. ~Quiet(<<x>>, d, Responses)
    BY DEF Quiet
  <2> QED
    BY <1>1, <2>1, StreamFacts
<1> QED
  BY <1>2, <1>3 DEF MirrorAt

\* A step that leaves d alone.
LEMMA MirrorKeep ==
  ASSUME NEW e, NEW g, NEW V, NEW W, NEW s \in Seq(Message), NEW d,
         MirrorOf(e, V, s, d), g.pending[d] = e.pending[d],
         d \in g.local_pdp <=> d \in e.local_pdp,
         d \in g.not_interested <=> d \in e.not_interested, d \in W <=> d \in V
  PROVE  /\ MirrorOf(g, W, s, d)
         /\ s # <<>> /\ ~About(Head(s), d, Responses) => MirrorOf(g, W, Tail(s), d)
         /\ \A t \in Seq(Message) : Quiet(t, d, Responses) => MirrorOf(g, W, s \o t, d)
<1> DEFINE p == e.pending[d]
           L == d \in e.local_pdp
           I == d \in e.not_interested
           v == d \in V
<1>1. /\ L = (d \in g.local_pdp) /\ I = (d \in g.not_interested) /\ v = (d \in W)
      /\ p = g.pending[d]
  OBVIOUS
<1>2. MirrorAt(p, L, I, v, s, d)
  BY DEF MirrorOf
<1>3. \A r : MirrorAt(p, L, I, v, r, d) => MirrorOf(g, W, r, d)
  BY <1>1 DEF MirrorOf
<1> HIDE DEF p, L, I, v
<1>4. /\ s # <<>> /\ ~About(Head(s), d, Responses) => MirrorAt(p, L, I, v, Tail(s), d)
      /\ \A t \in Seq(Message) : Quiet(t, d, Responses) => MirrorAt(p, L, I, v, s \o t, d)
  BY <1>2, MirrorQuiet
<1> QED
  BY <1>2, <1>3, <1>4

\* What an endpoint keeps when its output has been written to the socket.
LEMMA SameEndpoint ==
  ASSUME NEW f, NEW g, SameData(f, g), g.pending = f.pending
  PROVE  /\ Tidy(f) => Tidy(g)
         /\ Live(f) <=> Live(g)
         /\ \A V, s, d : MirrorOf(f, V, s, d) => MirrorOf(g, V, s, d)
<1>1. Tidy(f) => Tidy(g)
  BY DEF SameData, Tidy, Live, Handshaking
<1>2. Live(f) <=> Live(g)
  BY DEF SameData, Live
<1>3. \A V, s, d : MirrorOf(f, V, s, d) => MirrorOf(g, V, s, d)
  BY DEF MirrorOf, SameData
<1> QED
  BY <1>1, <1>2, <1>3

\* The whole effect of Commit.
LEMMA CommitFrame ==
  ASSUME EndpointsOK, NEW n \in Node, NEW f, WellFormed(f),
         NEW rest \in Seq(Message), Commit(n, f, rest)
  PROVE  /\ SameData(f, ep'[n]) /\ ep'[n].pending = f.pending
         /\ ep'[Other(n)] = ep[Other(n)]
         /\ stream'[n] = rest
         /\ stream'[Other(n)] = Written(stream[Other(n)], f.out, link)
         /\ link' = link
<1> DEFINE g == [f EXCEPT !.out = <<>>]
<1>1. SameData(f, g) /\ g.pending = f.pending
  BY DEF WellFormed, Endpoint, SameData
<1>2. ep' = [ep EXCEPT ![n] = g] /\ link' = link
  BY DEF Commit
<1> HIDE DEF g
<1>3. ep'[n] = g /\ ep'[Other(n)] = ep[Other(n)]
  BY <1>2, NodeFacts DEF EndpointsOK
<1>4. stream'[n] = rest /\ stream'[Other(n)] = Written(stream[Other(n)], f.out, link)
  BY NodeFacts DEF Commit, EndpointsOK, Written
<1> QED
  BY <1>1, <1>2, <1>3, <1>4

\* What every step may rely on.
LEMMA StableNode ==
  ASSUME SessionInv, StableInv, NEW n \in Node
  PROVE  /\ EndpointsOK /\ WellFormed(ep[n]) /\ ep[n].out = <<>>
         /\ ep[n].modem \in BOOLEAN /\ ep[n].modem = (n = "modem")
         /\ ep[Other(n)].modem = ~ep[n].modem
         /\ stream[n] \in Seq(Message) /\ stream[Other(n)] \in Seq(Message)
         /\ link \in BOOLEAN /\ Tidy(ep[n]) /\ StreamStable(n)
         /\ link => Live(ep[n]) /\ ~Ends(stream[n])
         /\ Other(n) \in Node /\ Other(n) # n /\ Other(Other(n)) = n
         /\ Node = {n, Other(n)}
<1>1. EndpointsOK
  BY DEF SessionInv
<1>2. /\ Other(n) \in Node /\ Other(n) # n /\ Other(Other(n)) = n /\ Node = {n, Other(n)}
  BY DEF Node, Other
<1>3. ep[n].modem = (n = "modem") /\ ep[Other(n)].modem = (Other(n) = "modem")
  BY <1>1, <1>2 DEF EndpointsOK
<1>4. ep[Other(n)].modem = ~ep[n].modem /\ ep[n].modem \in BOOLEAN
  BY <1>3 DEF Node, Other
<1>5. /\ WellFormed(ep[n]) /\ ep[n].out = <<>>
      /\ stream[n] \in Seq(Message) /\ stream[Other(n)] \in Seq(Message) /\ link \in BOOLEAN
  BY <1>1, <1>2 DEF EndpointsOK
<1>6. Tidy(ep[n]) /\ StreamStable(n) /\ (link => Live(ep[n]) /\ ~Ends(stream[n]))
  BY DEF StableInv
<1> QED
  BY <1>1, <1>2, <1>3, <1>4, <1>5, <1>6

\* Writing to, and reading from, streams in which every message is proper.
LEMMA ProperStreams ==
  ASSUME NEW s \in Seq(Message), NEW t \in Seq(Message), NEW b
  PROVE  /\ AllProper(s, b) /\ AllProper(t, b) => AllProper(s \o t, b)
         /\ ~Ends(s) /\ ~Ends(t) => ~Ends(s \o t)
         /\ s # <<>> /\ AllProper(s, b) => Proper(Head(s), b) /\ AllProper(Tail(s), b)
         /\ s # <<>> /\ ~Ends(s) => Head(s).type \notin Final /\ ~Ends(Tail(s))
         /\ s # <<>> /\ Head(s).type # "EOF" /\ (\E i \in DOMAIN s : s[i].type = "EOF") =>
              \E i \in DOMAIN Tail(s) : Tail(s)[i].type = "EOF"
<1>1. /\ \A i \in DOMAIN (s \o t) :
           \/ i \in DOMAIN s /\ (s \o t)[i] = s[i]
           \/ i - Len(s) \in DOMAIN t /\ (s \o t)[i] = t[i - Len(s)]
  OBVIOUS
<1>2. s # <<>> =>
        /\ 1 \in DOMAIN s /\ Head(s) = s[1]
        /\ \A i \in DOMAIN s : i = 1 \/ (i - 1 \in DOMAIN Tail(s) /\ Tail(s)[i - 1] = s[i])
        /\ \A i \in DOMAIN Tail(s) : i + 1 \in DOMAIN s /\ Tail(s)[i] = s[i + 1]
  OBVIOUS
<1>3. AllProper(s, b) /\ AllProper(t, b) => AllProper(s \o t, b)
  BY <1>1 DEF AllProper
<1>4. ~Ends(s) /\ ~Ends(t) => ~Ends(s \o t)
  BY <1>1 DEF Ends
<1>5. s # <<>> /\ AllProper(s, b) => Proper(Head(s), b) /\ AllProper(Tail(s), b)
  BY <1>2 DEF AllProper
<1>6. s # <<>> /\ ~Ends(s) => Head(s).type \notin Final /\ ~Ends(Tail(s))
  BY <1>2 DEF Ends
<1>7. s # <<>> /\ Head(s).type # "EOF" /\ (\E i \in DOMAIN s : s[i].type = "EOF") =>
        \E i \in DOMAIN Tail(s) : Tail(s)[i].type = "EOF"
  BY <1>2
<1> QED
  BY <1>3, <1>4, <1>5, <1>6, <1>7

\* Node n reads up to rest.
Rest(n, rest) ==
  \/ rest = stream[n]
  \/ stream[n] # <<>> /\ rest = Tail(stream[n]) /\ Head(stream[n]).type # "EOF"

\* The transactions of n and of its peer go on when n becomes f.
ServesQueue(n, f, rest, q) ==
  /\ f.pending[q] # <<>> =>
       \/ ~Quiet(f.out, q, Requests)
       \/ /\ ep[n].pending[q] # <<>>
          /\ ~Quiet(stream[n], q, Responses) => ~Quiet(rest, q, Responses)
  /\ ~Quiet(stream[n], q, Requests) =>
       ~Quiet(rest, q, Requests) \/ ~Quiet(f.out, q, Responses)

Serves(n, f, rest) == \A q \in Queues : ServesQueue(n, f, rest, q)

\* A step that finds no reason to end the session preserves the invariant.
LEMMA StableCommit ==
  ASSUME SessionInv, StableInv, NEW n \in Node, NEW f, WellFormed(f),
         f.modem = ep[n].modem, Live(ep[n]), Live(f), Tidy(f),
         NEW rest \in Seq(Message), Rest(n, rest), Commit(n, f, rest),
         link => AllProper(f.out, ~f.modem) /\ ~Ends(f.out) /\ Serves(n, f, rest),
         ~link => \A q \in Queues : Only(rest, q, Responses, Awaited(f.pending[q])),
         ~link /\ ~f.modem => Sound(rest, f.peer_pdp),
         link /\ f.modem /\ f.pstate = "in_session" =>
           \A d \in Dests : MirrorOf(f, ep["router"].peer_pdp, rest, d),
         link /\ ~f.modem /\ ep["modem"].pstate = "in_session" =>
           \A d \in Dests : MirrorOf(ep["modem"], f.peer_pdp, stream["modem"] \o f.out, d)
  PROVE  StableInv'
<1> DEFINE k == Other(n)
           g == ep'[n]
<1>1. /\ EndpointsOK /\ WellFormed(ep[n]) /\ ep[n].modem \in BOOLEAN
      /\ ep[n].modem = (n = "modem") /\ ep[k].modem = ~ep[n].modem
      /\ stream[n] \in Seq(Message) /\ stream[k] \in Seq(Message) /\ link \in BOOLEAN
      /\ StreamStable(n) /\ k \in Node /\ k # n /\ Other(k) = n /\ Node = {n, k}
      /\ link => Live(ep[n]) /\ ~Ends(stream[n])
  BY StableNode
<1>2. /\ Tidy(ep[k]) /\ StreamStable(k) /\ (link => Live(ep[k]) /\ ~Ends(stream[k]))
  BY <1>1, StableNode
<1>3. /\ SameData(f, g) /\ g.pending = f.pending /\ ep'[k] = ep[k]
      /\ stream'[n] = rest /\ stream'[k] = Written(stream[k], f.out, link) /\ link' = link
  BY <1>1, CommitFrame
<1>4. f.out \in Seq(Message)
  BY DEF WellFormed, Endpoint
<1> HIDE DEF k, g
<1>5. Tidy(g) /\ Live(g) /\ g.modem = f.modem /\ g.peer_pdp = f.peer_pdp /\ g.pstate = f.pstate
  BY <1>3, SameEndpoint DEF SameData
<1>6. /\ AllProper(stream[n], ep[n].modem) => AllProper(rest, ep[n].modem)
      /\ (\E i \in DOMAIN stream[n] : stream[n][i].type = "EOF") =>
           \E i \in DOMAIN rest : rest[i].type = "EOF"
      /\ ~Ends(stream[n]) => ~Ends(rest)
  BY <1>1, ProperStreams DEF Rest
<1>7. StreamStable(n)'
  <2>1. AllProper(rest, g.modem)
    BY <1>1, <1>5, <1>6 DEF StreamStable
  <2>2. ASSUME ~link
        PROVE  /\ \E i \in DOMAIN rest : rest[i].type = "EOF"
               /\ stream'[k] \in {<<>>, <<EOF>>}
    BY <1>1, <1>3, <1>6, <2>2 DEF StreamStable, Written, k
  <2>3. ~link => Matched(n)'
    BY <1>3 DEF Matched, g
  <2>4. ~link /\ ~g.modem => Sound(rest, g.peer_pdp)
    BY <1>5
  <2> QED
    BY <1>3, <2>1, <2>2, <2>3, <2>4 DEF StreamStable, g, k
<1>8. StreamStable(k)'
  <2> SUFFICES ASSUME Live(ep[k]) PROVE StreamStable(k)'
    BY <1>3 DEF StreamStable
  <2>1. CASE link
    <3>1. AllProper(stream[k] \o f.out, ep[k].modem)
      BY <1>1, <1>2, <1>4, <2>1, ProperStreams DEF StreamStable
    <3> QED
      BY <1>3, <2>1, <3>1 DEF StreamStable, Written
  <2>2. CASE ~link
    <3>1. stream'[k] = stream[k] /\ stream[n] \in {<<>>, <<EOF>>}
      BY <1>1, <1>2, <1>3, <2>2 DEF StreamStable, Written
    <3>2. rest \in {<<>>, <<EOF>>}
      BY <3>1 DEF Rest
    <3>3. Matched(k) => Matched(k)'
      BY <1>3, <3>1 DEF Matched
    <3> QED
      BY <1>1, <1>2, <1>3, <2>2, <3>1, <3>2, <3>3 DEF StreamStable
  <2> QED
    BY <1>1, <2>1, <2>2
<1>9. ASSUME link
      PROVE  /\ \A x \in Node : Live(ep'[x]) /\ ~Ends(stream'[x])
             /\ \A x \in Node, q \in Queues : Served(x, q)'
             /\ ep'["modem"].pstate = "in_session" => \A d \in Dests : Mirror(d)'
  <2>0. stream'[k] = stream[k] \o f.out
    BY <1>3, <1>9 DEF Written
  <2>1. \A x \in Node : Live(ep'[x]) /\ ~Ends(stream'[x])
    <3>1. ~Ends(stream[k] \o f.out)
      BY <1>1, <1>2, <1>4, <1>9, ProperStreams
    <3> QED
      BY <1>1, <1>2, <1>3, <1>5, <1>6, <1>9, <2>0, <3>1 DEF g
  <2>2. ASSUME NEW q \in Queues PROVE Served(n, q)' /\ Served(k, q)'
    <3>1. Served(n, q) /\ Served(k, q)
      BY <1>1, <1>9 DEF StableInv
    <3>2. /\ f.pending[q] # <<>> =>
               \/ ~Quiet(f.out, q, Requests)
               \/ /\ ep[n].pending[q] # <<>>
                  /\ ~Quiet(stream[n], q, Responses) => ~Quiet(rest, q, Responses)
          /\ ~Quiet(stream[n], q, Requests) =>
               ~Quiet(rest, q, Requests) \/ ~Quiet(f.out, q, Responses)
      BY <1>9 DEF Serves, ServesQueue
    <3>3. /\ ~Quiet(stream[k], q, Requests) \/ ~Quiet(f.out, q, Requests) =>
               ~Quiet(stream[k] \o f.out, q, Requests)
          /\ ~Quiet(stream[k], q, Responses) \/ ~Quiet(f.out, q, Responses) =>
               ~Quiet(stream[k] \o f.out, q, Responses)
      BY <1>1, <1>4, StreamFacts
    <3>4. Served(n, q)'
      BY <1>3, <2>0, <3>1, <3>2, <3>3 DEF Served, g, k
    <3>5. Served(k, q)'
      BY <1>1, <1>3, <2>0, <3>1, <3>2, <3>3 DEF Served
    <3> QED
      BY <3>4, <3>5
  <2>3. ASSUME ep'["modem"].pstate = "in_session", NEW d \in Dests PROVE Mirror(d)'
    <3>1. CASE n = "modem"
      <4>1. f.modem /\ f.pstate = "in_session" /\ k = "router"
        BY <1>1, <1>5, <2>3, <3>1, NodeFacts DEF g, k
      <4>2. MirrorOf(f, ep["router"].peer_pdp, rest, d)
        BY <1>9, <4>1
      <4>3. MirrorOf(g, ep["router"].peer_pdp, rest, d)
        BY <1>3, <4>2, SameEndpoint
      <4> QED
        BY <1>3, <3>1, <4>1, <4>3 DEF Mirror, g
    <3>2. CASE n = "router"
      <4>1. ~f.modem /\ k = "modem" /\ ep["modem"].pstate = "in_session"
        BY <1>1, <1>3, <2>3, <3>2, NodeFacts DEF k
      <4>2. MirrorOf(ep["modem"], f.peer_pdp, stream["modem"] \o f.out, d)
        BY <1>9, <4>1
      <4> QED
        BY <1>3, <1>5, <2>0, <3>2, <4>1, <4>2 DEF Mirror, g
    <3> QED
      BY <3>1, <3>2 DEF Node
  <2> QED
    BY <1>1, <2>1, <2>2, <2>3
<1>10. \A x \in Node : Tidy(ep'[x]) /\ StreamStable(x)'
  BY <1>1, <1>2, <1>3, <1>5, <1>7, <1>8 DEF g
<1> QED
  BY <1>3, <1>9, <1>10 DEF StableInv

\* Every response that n can still read answers the head of its queue.
LEMMA MatchedNow ==
  ASSUME SessionInv, FlightInv, StableInv, NEW n \in Node, Live(ep[n])
  PROVE  Matched(n)
<1>1. CASE link
  BY <1>1 DEF FlightInv, Flight, FlightAt, Matched
<1>2. CASE ~link
  BY <1>2 DEF StableInv, StreamStable
<1> QED
  BY <1>1, <1>2

\* It still does so after a step that keeps to the transaction model.
LEMMA MatchedStep ==
  ASSUME NEW e, NEW f, NEW F, NEW D, NEW on, Kept(e, f, F, D, on),
         NEW s \in Seq(Message), NEW rest,
         \A q \in Queues : Only(s, q, Responses, Awaited(e.pending[q])),
         \/ rest = s /\ F = {}
         \/ s # <<>> /\ rest = Tail(s) /\ \A q \in F : About(Head(s), q, Responses)
  PROVE  \A q \in Queues : Only(rest, q, Responses, Awaited(f.pending[q]))
<1> SUFFICES ASSUME NEW q \in Queues
             PROVE  Only(rest, q, Responses, Awaited(f.pending[q]))
  OBVIOUS
<1> DEFINE X == Awaited(e.pending[q])
           Y == Awaited(f.pending[q])
<1>1. Only(s, q, Responses, X) /\ rest \in Seq(Message)
  OBVIOUS
<1>2. Expected(f.pending[q]) = Expected(e.pending[q]) => X = Y
  BY DEF Awaited
<1>3. Expected(e.pending[q]) = {} => X = {}
  BY DEF Awaited
<1>4. \/ Expected(f.pending[q]) = Expected(e.pending[q])
      \/ q \in F \/ Expected(e.pending[q]) = {}
  BY DEF Kept, Asked
<1> HIDE DEF X, Y
<1>5. /\ Only(rest, q, Responses, X)
      /\ q \in F => Quiet(rest, q, Responses)
  BY <1>1, OnlyTail
<1>6. X = {} => Quiet(rest, q, Responses)
  BY <1>1, <1>5, OnlyFacts
<1>7. Quiet(rest, q, Responses) => Only(rest, q, Responses, Y)
  BY <1>1, OnlyFacts
<1> QED
  BY <1>2, <1>3, <1>4, <1>5, <1>6, <1>7 DEF Y

\* Every request that the router can still read suits what it knows.
LEMMA SoundNow ==
  ASSUME SessionInv, CalmInv, FlightInv, StableInv, Live(ep["router"])
  PROVE  Sound(stream["router"], ep["router"].peer_pdp)
<1> DEFINE s == stream["router"]
           V == ep["router"].peer_pdp
<1>1. CASE ~link
  <2>1. ~ep["router"].modem
    BY NodeFacts DEF SessionInv, EndpointsOK
  <2> QED
    BY <1>1, <2>1, NodeFacts DEF StableInv, StreamStable
<1>2. CASE link /\ ep["modem"].pstate # "in_session"
  <2>1. Early(ep["modem"].pstate)
    BY <1>2, NodeFacts DEF StableInv, Live, Early
  <2>2. s = <<>>
    BY <1>2, <2>1 DEF CalmInv, StreamsOK
  <2> QED
    BY <2>2 DEF Sound, Only
<1>3. CASE link /\ ep["modem"].pstate = "in_session"
  <2> SUFFICES ASSUME NEW d \in Dests PROVE Only(s, d, Requests, Suits(d \in V))
    BY DEF Sound
  <2> DEFINE p == ep["modem"].pending[d]
             v == d \in V
  <2>1. /\ Only(s, d, Requests, Expected(p))
        /\ Quiet(s, d, Requests) \/ Quiet(stream["modem"], d, Responses)
    BY <1>3, NodeFacts DEF FlightInv, Flight, FlightAt, Queues
  <2>2. /\ Alternates(p)
        /\ p # <<>> /\ Quiet(stream["modem"], d, Responses) =>
             (v <=> p[1].type = "Destination_Down")
    BY <1>3 DEF StableInv, Mirror, MirrorOf, MirrorAt
  <2>3. p \in Seq(Entry)
    BY NodeFacts DEF SessionInv, EndpointsOK, Endpoint, Queues
  <2> HIDE DEF p, s
  <2>4. CASE Quiet(s, d, Requests)
    BY <2>4 DEF Quiet, Only
  <2>5. CASE ~Quiet(s, d, Requests)
    <3>1. p # <<>>
      BY <2>1, <2>5 DEF Quiet, Only, Expected
    <3>2. 1 \in DOMAIN p /\ Head(p) = p[1]
      BY <2>3, <3>1
    <3>3. p[1].type \in {"Destination_Up", "Destination_Down"}
      BY <2>2, <3>2 DEF Alternates
    <3>4. v <=> p[1].type = "Destination_Down"
      BY <2>1, <2>2, <2>5, <3>1
    <3>5. Expected(p) = {p[1].type}
      BY <3>1, <3>2 DEF Expected
    <3> HIDE DEF v
    <3>6. Expected(p) = Suits(v)
      BY <3>3, <3>4, <3>5 DEF Suits
    <3> QED
      BY <2>1, <3>6 DEF v
  <2> QED
    BY <2>4, <2>5
<1> QED
  BY <1>1, <1>2, <1>3

\* Reading a request about x, after which the router has W, leaves the others
\* as they were.
LEMMA SoundRead ==
  ASSUME NEW s \in Seq(Message), NEW V, NEW W, Sound(s, V), s # <<>>,
         \A d \in Dests : ~About(Head(s), d, Requests) => (d \in W <=> d \in V)
  PROVE  Sound(Tail(s), W)
<1> SUFFICES ASSUME NEW d \in Dests PROVE Only(Tail(s), d, Requests, Suits(d \in W))
  BY DEF Sound
<1> DEFINE X == Suits(d \in V)
           Y == Suits(d \in W)
<1>1. Only(s, d, Requests, X) /\ Tail(s) \in Seq(Message)
  BY DEF Sound
<1>2. ~About(Head(s), d, Requests) => X = Y
  BY DEF Suits
<1> HIDE DEF X, Y
<1>3. /\ Only(Tail(s), d, Requests, X)
      /\ About(Head(s), d, Requests) => Quiet(Tail(s), d, Requests)
  BY <1>1, OnlyTail
<1>4. Quiet(Tail(s), d, Requests) => Only(Tail(s), d, Requests, Y)
  BY <1>1, OnlyFacts
<1> QED
  BY <1>2, <1>3, <1>4 DEF Y

\* Streams of no and of one message.
LEMMA OneMessage ==
  ASSUME NEW m, NEW b
  PROVE  /\ AllProper(<<>>, b) /\ ~Ends(<<>>) /\ \A q, T : Quiet(<<>>, q, T)
         /\ AllProper(<<m>>, b) <=> Proper(m, b)
         /\ Ends(<<m>>) <=> m.type \in Final
         /\ \A q, T : Quiet(<<m>>, q, T) <=> ~About(m, q, T)
<1>1. DOMAIN <<m>> = {1} /\ <<m>>[1] = m
  OBVIOUS
<1>2. AllProper(<<>>, b) /\ ~Ends(<<>>) /\ \A q, T : Quiet(<<>>, q, T)
  BY DEF AllProper, Ends, Quiet
<1>3. AllProper(<<m>>, b) <=> Proper(m, b)
  BY <1>1 DEF AllProper
<1>4. Ends(<<m>>) <=> m.type \in Final
  BY <1>1 DEF Ends
<1>5. \A q, T : Quiet(<<m>>, q, T) <=> ~About(m, q, T)
  BY <1>1 DEF Quiet
<1> QED
  BY <1>2, <1>3, <1>4, <1>5

\* A queue that a step does not touch is served as before.
LEMMA ServesSame ==
  ASSUME NEW n, NEW f, NEW rest, NEW q, stream[n] \in Seq(Message),
         f.pending[q] = ep[n].pending[q],
         \/ rest = stream[n]
         \/ /\ stream[n] # <<>> /\ rest = Tail(stream[n])
            /\ ~About(Head(stream[n]), q, Responses)
            /\ About(Head(stream[n]), q, Requests) => ~Quiet(f.out, q, Responses)
  PROVE  ServesQueue(n, f, rest, q)
<1>1. ~Quiet(stream[n], q, Responses) => ~Quiet(rest, q, Responses)
  BY StreamFacts
<1>2. ~Quiet(stream[n], q, Requests) => ~Quiet(rest, q, Requests) \/ ~Quiet(f.out, q, Responses)
  BY StreamFacts
<1> QED
  BY <1>1, <1>2 DEF ServesQueue

\* A step about the session, and about no destination.
LEMMA StableChat ==
  ASSUME SessionInv, CalmInv, FlightInv, StableInv, NEW n \in Node, Live(ep[n]),
         NEW f, WellFormed(f), SameData(ep[n], f),
         \A d \in Dests : f.pending[d] = ep[n].pending[d],
         \A i \in DOMAIN f.pending[Session] : f.pending[Session][i].type \in Heard(~f.modem),
         NEW rest \in Seq(Message), Commit(n, f, rest),
         \/ rest = stream[n]
         \/ /\ stream[n] # <<>> /\ rest = Tail(stream[n])
            /\ Head(stream[n]).type # "EOF" /\ Head(stream[n]).dest = Session,
         AllProper(f.out, ~f.modem), ~Ends(f.out), \A d \in Dests : Quiet(f.out, d, Responses),
         ServesQueue(n, f, rest, Session),
         \A q \in Queues : Only(rest, q, Responses, Awaited(f.pending[q]))
  PROVE  StableInv'
<1>1. /\ stream[n] \in Seq(Message) /\ link \in BOOLEAN /\ Tidy(ep[n])
      /\ ep[n].modem \in BOOLEAN /\ ep[n].modem = (n = "modem")
  BY StableNode
<1>2. /\ f.modem = ep[n].modem /\ f.peer_pdp = ep[n].peer_pdp /\ f.pstate = ep[n].pstate
      /\ f.local_pdp = ep[n].local_pdp /\ f.not_interested = ep[n].not_interested
  BY DEF SameData
<1>3. Live(f) /\ Rest(n, rest)
  BY <1>2 DEF Live, Rest
<1>3a. f.not_interested \subseteq Dests /\ f.out \in Seq(Message)
  BY DEF WellFormed, Endpoint
<1>4. Tidy(f)
  <2>1. f.not_interested \subseteq Dests
    BY <1>3a
  <2>2. \A q \in Queues : \A i \in DOMAIN f.pending[q] : f.pending[q][i].type \in Heard(~f.modem)
    BY <1>1, <1>2 DEF Tidy, Queues
  <2>3. \A d \in f.not_interested : f.pending[d] = <<>>
    BY <1>1, <1>2, <2>1 DEF Tidy
  <2>4. Refusals => \A d \in Dests : Len(f.pending[d]) <= 1
    BY <1>1 DEF Tidy
  <2> QED
    BY <1>1, <2>2, <2>3, <2>4 DEF Tidy, SameData, Live, Handshaking
<1>5. Serves(n, f, rest)
  <2>1. ASSUME NEW d \in Dests PROVE ServesQueue(n, f, rest, d)
    <3>1. f.pending[d] = ep[n].pending[d] /\ d # Session
      BY DestsAssumption
    <3>2. Head(stream[n]).dest = Session =>
            /\ ~About(Head(stream[n]), d, Responses) /\ ~About(Head(stream[n]), d, Requests)
      BY <3>1 DEF About
    <3> QED
      BY <1>1, <3>1, <3>2, ServesSame
  <2> QED
    BY <2>1 DEF Serves, Queues
<1>6. ASSUME ~f.modem PROVE Sound(rest, f.peer_pdp)
  <2>1. n = "router"
    BY <1>1, <1>2, <1>6 DEF Node
  <2>2. Sound(stream[n], f.peer_pdp)
    BY <1>2, <2>1, SoundNow
  <2> QED
    BY <1>1, <2>2, SoundRead
<1>7. ASSUME link, ep["modem"].pstate = "in_session", NEW d \in Dests
      PROVE  /\ f.modem => MirrorOf(f, ep["router"].peer_pdp, rest, d)
             /\ ~f.modem => MirrorOf(ep["modem"], f.peer_pdp, stream["modem"] \o f.out, d)
  <2>1. MirrorOf(ep["modem"], ep["router"].peer_pdp, stream["modem"], d)
    BY <1>7 DEF StableInv, Mirror
  <2>2. stream["modem"] \in Seq(Message)
    BY NodeFacts DEF SessionInv, EndpointsOK
  <2>3. ASSUME f.modem PROVE MirrorOf(f, ep["router"].peer_pdp, rest, d)
    <3>1. n = "modem"
      BY <1>1, <1>2, <2>3
    <3>2. Head(stream[n]).dest = Session => ~About(Head(stream[n]), d, Responses)
      BY DestsAssumption DEF About
    <3> DEFINE M == ep["modem"]
               W == ep["router"].peer_pdp
               s == stream["modem"]
    <3>3. /\ f.pending[d] = M.pending[d] /\ f.local_pdp = M.local_pdp
          /\ f.not_interested = M.not_interested
          /\ rest = s \/ (s # <<>> /\ rest = Tail(s) /\ ~About(Head(s), d, Responses))
          /\ MirrorOf(M, W, s, d) /\ s \in Seq(Message)
      BY <1>2, <2>1, <2>2, <3>1, <3>2
    <3> HIDE DEF M, W, s
    <3>4. /\ MirrorOf(f, W, s, d)
          /\ s # <<>> /\ ~About(Head(s), d, Responses) => MirrorOf(f, W, Tail(s), d)
      BY <3>3, MirrorKeep
    <3> QED
      BY <3>3, <3>4 DEF W
  <2>4. ASSUME ~f.modem
        PROVE  MirrorOf(ep["modem"], f.peer_pdp, stream["modem"] \o f.out, d)
    <3>1. n = "router" /\ f.peer_pdp = ep["router"].peer_pdp
      BY <1>1, <1>2, <2>4 DEF Node
    <3>2. Quiet(f.out, d, Responses)
      OBVIOUS
    <3> QED
      BY <1>3a, <2>1, <2>2, <3>1, <3>2, MirrorKeep
  <2> QED
    BY <2>3, <2>4
<1>8. f.modem => f.pstate = ep["modem"].pstate
  BY <1>1, <1>2
<1> QED
  BY <1>1, <1>2, <1>3, <1>4, <1>5, <1>6, <1>7, <1>8, StableCommit

\* The types of the requests in a queue that has grown or shrunk.
LEMMA QueueTypes ==
  ASSUME NEW p \in Seq(Entry), NEW r \in Seq(Entry), NEW P,
         \A i \in DOMAIN p : p[i].type \in P
  PROVE  /\ \A t \in P : Grown(p, r, t) => r # <<>> /\ \A i \in DOMAIN r : r[i].type \in P
         /\ p # <<>> /\ Shrunk(p, r) =>
              /\ \A i \in DOMAIN r : r[i].type \in P
              /\ r = <<>> <=> Len(p) = 1
              /\ Len(p) # 1 => p[2].type \in P
<1>1. /\ DOMAIN p = 1..Len(p) /\ DOMAIN r = 1..Len(r) /\ Len(p) \in Nat /\ Len(r) \in Nat
      /\ (p = <<>> <=> Len(p) = 0) /\ (r = <<>> <=> Len(r) = 0)
  OBVIOUS
<1>2. ASSUME NEW t \in P, Grown(p, r, t)
      PROVE  r # <<>> /\ \A i \in DOMAIN r : r[i].type \in P
  BY <1>1, <1>2 DEF Grown
<1>3. ASSUME p # <<>>, Shrunk(p, r)
      PROVE  /\ \A i \in DOMAIN r : r[i].type \in P
             /\ r = <<>> <=> Len(p) = 1
             /\ Len(p) # 1 => p[2].type \in P
  <2>1. Len(r) = Len(p) - 1 /\ \A i \in 1..Len(r) : r[i].type = p[i + 1].type
    BY <1>3 DEF Shrunk
  <2>2. \A i \in 1..Len(r) : i + 1 \in DOMAIN p
    BY <1>1, <2>1
  <2> QED
    BY <1>1, <1>3, <2>1, <2>2
<1> QED
  BY <1>2, <1>3

\* The handler of a timer writes a heartbeat or nothing, in a session.
LEMMA StableBeat ==
  ASSUME SessionInv, CalmInv, FlightInv, StableInv, NEW n \in Node, Live(ep[n]),
         NEW f, WellFormed(f), SameData(ep[n], f), f.pending = ep[n].pending,
         f.out = <<>> \/ f.out = <<Msg("Heartbeat", Session, "none")>>,
         Commit(n, f, stream[n])
  PROVE  StableInv'
<1> DEFINE m == Msg("Heartbeat", Session, "none")
<1>1. /\ WellFormed(ep[n]) /\ ep[n].out = <<>> /\ stream[n] \in Seq(Message) /\ Tidy(ep[n])
  BY StableNode
<1>5. f.out = <<>> \/ f.out = <<m>>
  OBVIOUS
<1>6. Proper(m, ~f.modem) /\ m.type \notin Final /\ m.type \notin Responses
  BY DEF Proper, Heard, Final, Responses, Msg
<1> HIDE DEF m
<1>7. /\ AllProper(f.out, ~f.modem) /\ ~Ends(f.out)
      /\ \A d \in Dests : Quiet(f.out, d, Responses)
  <2> DEFINE b == ~f.modem
             s == f.out
  <2>1. Proper(m, b) /\ s \in {<<>>, <<m>>}
    BY <1>5, <1>6
  <2> HIDE DEF b, s
  <2>2. CASE s = <<>>
    BY <2>2, OneMessage DEF b, s
  <2>3. CASE s = <<m>>
    <3>1. /\ AllProper(<<m>>, b) /\ ~Ends(<<m>>)
          /\ \A d \in Dests : Quiet(<<m>>, d, Responses)
      BY <1>6, <2>1, OneMessage DEF About
    <3> QED
      BY <2>3, <3>1 DEF b, s
  <2> QED
    BY <2>1, <2>2, <2>3
<1>8. \A q \in Queues : Only(stream[n], q, Responses, Awaited(f.pending[q]))
  <2>1. \A q \in Queues : Only(stream[n], q, Responses, Awaited(ep[n].pending[q]))
    BY MatchedNow DEF Matched
  <2> QED
    BY <2>1
<1>9. ServesQueue(n, f, stream[n], Session)
  BY <1>1, ServesSame
<1>10. \A i \in DOMAIN f.pending[Session] : f.pending[Session][i].type \in Heard(~f.modem)
  BY <1>1 DEF Tidy, Queues, SameData
<1> QED
  BY <1>1, <1>7, <1>8, <1>9, <1>10, StableChat

\* The client updates the session.
LEMMA StablePeerUpdate ==
  ASSUME SessionInv, CalmInv, FlightInv, StableInv, NEW n \in Node, Live(ep[n]),
         ServicePeerUpdate(n)
  PROVE  StableInv'
<1> DEFINE f == peer_update(ep[n])
           t == "Session_Update"
           m == Msg(t, Session, "none")
           p == ep[n].pending[Session]
<1>1. /\ WellFormed(ep[n]) /\ ep[n].out = <<>> /\ stream[n] \in Seq(Message) /\ Tidy(ep[n])
      /\ ep[n].not_interested \subseteq Dests /\ p \in Seq(Entry)
  <2>1. /\ WellFormed(ep[n]) /\ ep[n].out = <<>> /\ stream[n] \in Seq(Message)
        /\ Tidy(ep[n])
    BY StableNode
  <2> QED
    BY <2>1 DEF WellFormed, Endpoint, Queues
<1>2. WellFormed(f)
  BY <1>1, PeerUpdate
<1>3. Commit(n, f, stream[n])
  BY DEF ServicePeerUpdate
<1>4. Keeps(ep[n], f)
  <2>1. Keeps(ep[n], ep[n])
    BY <1>1, KeepsSame
  <2> QED
    BY <1>1, <2>1, KeptPeerUpdate DEF Keeps
<1>5. /\ t \in Requests /\ Session \in Queues /\ Session \notin ep[n].not_interested
      /\ t \in Heard(~ep[n].modem)
      /\ \A i \in DOMAIN p : p[i].type \in Heard(~ep[n].modem)
  BY <1>1, RequestNames, DestsAssumption DEF Queues, Heard, Tidy
<1>6. /\ SameData(ep[n], f)
      /\ \A d \in Dests : f.pending[d] = ep[n].pending[d]
      /\ \/ f.pending[Session] = p /\ f.out = <<>>
         \/ /\ Grown(p, f.pending[Session], t)
            /\ f.out = IF p = <<>> THEN <<m>> ELSE <<>>
  <2>1. CASE ep[n].pstate = "in_session"
    <3>1. f = send_message_expecting_response(ep[n], Session, t)
      BY <2>1 DEF peer_update
    <3> HIDE DEF f, t, p
    <3>2. /\ SameData(ep[n], f) /\ Grown(p, f.pending[Session], t)
          /\ \A r \in Queues \ {Session} : f.pending[r] = ep[n].pending[r]
          /\ f.out = IF p = <<>> THEN Append(ep[n].out, m) ELSE ep[n].out
      BY <1>1, <1>5, <3>1, Pushes DEF p
    <3> QED
      BY <1>1, <3>2, DestsAssumption DEF Queues
  <2>2. CASE ep[n].pstate # "in_session"
    BY <1>1, <2>2 DEF peer_update, SameData
  <2> QED
    BY <2>1, <2>2
<1>7. /\ Proper(m, ~f.modem) /\ m.type \notin Final /\ m.type \notin Responses
      /\ About(m, Session, Requests)
  BY <1>5 DEF Proper, Heard, Final, Responses, Msg, About
<1>8. f.pending[Session] \in Seq(Entry) /\ f.modem = ep[n].modem
  BY <1>2, <1>6 DEF WellFormed, Endpoint, Queues, SameData
<1> HIDE DEF f, m, p, t
<1>9. /\ AllProper(f.out, ~f.modem) /\ ~Ends(f.out)
      /\ \A d \in Dests : Quiet(f.out, d, Responses)
  BY <1>6, <1>7, OneMessage DEF About
<1>10. \A q \in Queues : Only(stream[n], q, Responses, Awaited(f.pending[q]))
  <2>1. \A q \in Queues : Only(stream[n], q, Responses, Awaited(ep[n].pending[q]))
    BY MatchedNow DEF Matched
  <2> DEFINE D == [q \in Queues |-> Owed(ep[n], q)]
             s == stream[n]
             e == ep[n]
  <2>2. Kept(e, f, {}, D, TRUE)
    BY <1>4 DEF Keeps
  <2> HIDE DEF D, s, e
  <2> QED
    BY <1>1, <2>1, <2>2, MatchedStep DEF s, e
<1>11. ServesQueue(n, f, stream[n], Session)
  <2>1. f.pending[Session] # <<>> => ~Quiet(f.out, Session, Requests) \/ p # <<>>
    BY <1>6, <1>7, OneMessage
  <2> QED
    BY <2>1 DEF ServesQueue, p
<1>12. \A i \in DOMAIN f.pending[Session] : f.pending[Session][i].type \in Heard(~f.modem)
  BY <1>1, <1>5, <1>6, <1>8, QueueTypes
<1> QED
  BY <1>1, <1>2, <1>3, <1>6, <1>9, <1>10, <1>11, <1>12, StableChat

\* The end of a session whose connection is gone, and what is left of it.
LEMMA StableQuit ==
  ASSUME SessionInv, StableInv, NEW n \in Node, ~link, NEW f, WellFormed(f),
         f.modem = ep[n].modem, ~Live(f), f.cause = "none", ~f.modem => f.local_pdp = {},
         NEW rest \in Seq(Message), Commit(n, f, rest),
         rest = stream[n] \/ (stream[n] # <<>> /\ rest = Tail(stream[n]))
  PROVE  StableInv'
<1> DEFINE k == Other(n)
           g == ep'[n]
<1>1. /\ EndpointsOK /\ link \in BOOLEAN
      /\ k \in Node /\ k # n /\ Other(k) = n /\ Node = {n, k}
  BY StableNode
<1>2. Tidy(ep[k]) /\ StreamStable(k)
  BY <1>1, StableNode
<1>3. /\ SameData(f, g) /\ ep'[k] = ep[k]
      /\ stream'[n] = rest /\ stream'[k] = Written(stream[k], f.out, link) /\ link' = link
  BY <1>1, CommitFrame
<1> HIDE DEF k, g
<1>4. stream'[k] = stream[k]
  BY <1>3 DEF Written
<1>5. Tidy(g) /\ ~Live(g)
  BY <1>3 DEF Tidy, SameData, Live
<1>6. StreamStable(n)'
  BY <1>5 DEF StreamStable, g
<1>7. StreamStable(k)'
  <2>1. Live(ep[k]) => stream[n] \in {<<>>, <<EOF>>}
    BY <1>1, <1>2 DEF StreamStable
  <2>2. Live(ep[k]) => rest \in {<<>>, <<EOF>>}
    BY <2>1
  <2>3. Matched(k) => Matched(k)'
    BY <1>3, <1>4 DEF Matched
  <2> QED
    BY <1>1, <1>2, <1>3, <1>4, <2>2, <2>3 DEF StreamStable
<1>8. \A x \in Node : Tidy(ep'[x]) /\ StreamStable(x)'
  BY <1>1, <1>2, <1>3, <1>5, <1>6, <1>7 DEF g
<1> QED
  BY <1>3, <1>8 DEF StableInv

\* What a modem, and a router, can be sent.
LEMMA HeardNames ==
  /\ Heard(TRUE) = {"Session_Update", "Session_Update_Response", "Heartbeat",
                    "Session_Initialization", "Destination_Up_Response",
                    "Destination_Down_Response"}
  /\ Heard(FALSE) = {"Session_Update", "Session_Update_Response", "Heartbeat",
                     "Session_Initialization_Response", "Destination_Up",
                     "Destination_Down"}
  BY DEF Heard

\* A live endpoint reads message m with outcome f, and nothing is wrong with m.
Hears(n, m, c, f) ==
  /\ m = Head(stream[n]) /\ stream[n] # <<>> /\ m \in Message /\ Proper(m, ep[n].modem)
  /\ sender_ok(ep[n], m) /\ m.status # "Invalid_Data"
  /\ ep[n].pstate \in {"connected", "in_session"}
  /\ c \in Inputs /\ c.valid /\ c.ip_ok /\ c.metrics_known /\ c.send
  /\ c.status \in ClientStatuses
  /\ f = handle_session_receive(ep[n], m, c) /\ WellFormed(f)
  /\ Tail(stream[n]) \in Seq(Message) /\ Commit(n, f, Tail(stream[n]))
  /\ m.type \in Responses =>
       response_ok(ep[n], m) /\ Quiet(Tail(stream[n]), m.dest, Responses)
  /\ \A q \in Queues : Only(Tail(stream[n]), q, Responses, Awaited(f.pending[q]))

LEMMA HearsRead ==
  ASSUME Benign, SessionInv, FlightInv, StableInv, NEW n \in Node, Live(ep[n]), Receive(n)
  PROVE  \E m, c, f : Hears(n, m, c, f)
<1> DEFINE m == Head(stream[n])
           s == stream[n]
           e == ep[n]
<1>1. /\ WellFormed(e) /\ e.out = <<>> /\ e.modem \in BOOLEAN /\ s \in Seq(Message)
      /\ StreamStable(n) /\ Tidy(e)
  BY StableNode
<1>2. s # <<>> /\ InMap(e)
  BY DEF Receive
<1>3. m \in Message /\ Tail(s) \in Seq(Message) /\ m = s[1] /\ 1 \in DOMAIN s
  BY <1>1, <1>2
<1>4. PICK c \in HandlerInputs : Commit(n, handle_session_receive(e, m, c), Tail(s))
  BY DEF Receive
<1>5. /\ c \in Inputs /\ c.valid = TRUE /\ c.ip_ok = TRUE /\ c.metrics_known = TRUE
      /\ c.send = TRUE /\ c.status \in ClientStatuses
  <2>1. \A b \in {"invalid", "ip_conflict", "unknown_metric", "suppress"} :
          FaultFree(b) = {TRUE}
    BY DEF Benign, FaultFree
  <2>2. c \in Inputs
    BY ClientAssumption DEF HandlerInputs, Inputs, FaultFree
  <2> QED
    BY <2>1, <2>2 DEF HandlerInputs
<1>6. Proper(m, e.modem)
  BY <1>1, <1>3 DEF StreamStable, AllProper
<1>7. sender_ok(e, m) /\ m.status # "Invalid_Data"
  <2>1. m.status # "Invalid_Data"
    BY <1>6 DEF Proper
  <2>2. m.type \in Heard(e.modem) \cup Final
    BY <1>6 DEF Proper
  <2> HIDE DEF m, e
  <2>3. CASE e.modem = TRUE
    <3>1. m.type \in Heard(TRUE) \cup Final
      BY <2>2, <2>3, Zenon
    <3>2. m.type \notin ModemOnly
      BY <3>1, HeardNames DEF Final, ModemOnly
    <3> QED
      BY <2>1, <2>3, <3>2 DEF sender_ok
  <2>4. CASE e.modem = FALSE
    <3>1. m.type \in Heard(FALSE) \cup Final
      BY <2>2, <2>4, Zenon
    <3>2. m.type \notin RouterOnly
      BY <3>1, HeardNames DEF Final, RouterOnly
    <3> QED
      BY <2>1, <2>4, <3>2 DEF sender_ok
  <2> QED
    BY <1>1, <2>1, <2>3, <2>4
<1>8. e.pstate \in {"connected", "in_session"}
  BY <1>2 DEF InMap, Live
<1> DEFINE f == handle_session_receive(e, m, c)
<1>9. WellFormed(f)
  <2> HIDE DEF m, e
  <2> QED
    BY <1>1, <1>3, <1>5, HandleSessionReceive DEF Handled
<1>10. \A q \in Queues : Only(s, q, Responses, Awaited(e.pending[q]))
  BY MatchedNow DEF Matched
<1>11. ASSUME m.type \in Responses
       PROVE  response_ok(e, m) /\ Quiet(Tail(s), m.dest, Responses)
  <2> DEFINE q == m.dest
             X == Awaited(e.pending[q])
  <2>1. q \in Queues
    BY <1>3 DEF Message
  <2>2. Only(s, q, Responses, X) /\ About(Head(s), q, Responses)
    BY <1>10, <1>11, <2>1 DEF About
  <2> HIDE DEF q, X, s
  <2>3. Head(s).type \in X /\ Quiet(Tail(s), q, Responses)
    BY <1>1, <1>2, <2>2, OnlyTail
  <2>4. response_ok(e, m)
    BY <2>3 DEF X, Awaited, Expected, response_ok, q, s
  <2> QED
    BY <2>3, <2>4 DEF q
<1>12. \A q \in Queues : Only(Tail(s), q, Responses, Awaited(f.pending[q]))
  <2> DEFINE F == IF m.type \in Responses THEN {m.dest} ELSE {}
             D == [q \in Queues |-> {}]
  <2>1. Reads(e, m, F, D, FALSE)
    BY DEF Reads
  <2>2. \A q \in F : About(Head(s), q, Responses)
    BY DEF About
  <2> HIDE DEF F, D, m, e, f, s
  <2>3. Kept(e, f, F, D, FALSE)
    BY <1>1, <1>3, <1>5, <2>1, KeptReceive DEF f
  <2> QED
    BY <1>1, <1>2, <1>10, <2>2, <2>3, MatchedStep
<1>13. Hears(n, m, c, f)
  <2>1. Commit(n, f, Tail(s))
    BY <1>4
  <2> QED
    BY <1>2, <1>3, <1>5, <1>6, <1>7, <1>8, <1>9, <1>11, <1>12, <2>1 DEF Hears
<1> QED
  BY <1>13

\* What is left of a session that has ended.
LEMMA HearsFinal ==
  ASSUME SessionInv, StableInv, NEW n \in Node, NEW m, NEW c, NEW f, Hears(n, m, c, f),
         m.type \in Final
  PROVE  StableInv'
<1> DEFINE e == ep[n]
           s == stream[n]
<1>1. /\ WellFormed(e) /\ s \in Seq(Message) /\ Tidy(e) /\ link \in BOOLEAN
      /\ link => ~Ends(s)
  BY StableNode
<1>2. /\ m = Head(s) /\ s # <<>> /\ sender_ok(e, m) /\ m.status # "Invalid_Data"
      /\ c \in Inputs /\ c.valid /\ c.ip_ok /\ c.metrics_known /\ c.send
      /\ f = handle_session_receive(e, m, c) /\ WellFormed(f)
      /\ Tail(s) \in Seq(Message) /\ Commit(n, f, Tail(s))
  BY DEF Hears
<1> HIDE DEF e, s
<1>3. ~link
  BY <1>1, <1>2, ProperStreams
<1>4. f \in {stop_peer(e), handle_peer_termination(e, c)}
  BY <1>2, Dispatches DEF Final
<1>5. f.pstate = "terminating" /\ f.cause = e.cause /\ f.local_pdp = e.local_pdp /\ f.modem = e.modem
  BY <1>1, <1>2, <1>4, ReadsSession
<1>6. ~Live(f) /\ f.cause = "none" /\ (~f.modem => f.local_pdp = {})
  BY <1>1, <1>5 DEF Live, Tidy
<1> QED
  BY <1>2, <1>3, <1>5, <1>6, StableQuit DEF e, s

\* What an endpoint writes when it sends one message, or none.
LEMMA OneOut ==
  ASSUME NEW b, NEW t \in Heard(b), NEW q, NEW v \in {"none", "Success"}, NEW o,
         o = <<>> \/ o = <<Msg(t, q, v)>>
  PROVE  /\ AllProper(o, b) /\ ~Ends(o)
         /\ \A r, T : r # q \/ t \notin T => Quiet(o, r, T)
         /\ \A T : o # <<>> /\ t \in T => ~Quiet(o, q, T)
<1> DEFINE m == Msg(t, q, v)
<1>1. m.type = t /\ m.dest = q /\ m.status = v
  BY DEF Msg
<1>2. t \notin Final
  BY DEF Heard, Final
<1>3. Proper(m, b)
  BY <1>1 DEF Proper
<1>4. o = <<>> \/ o = <<m>>
  OBVIOUS
<1> HIDE DEF m
<1>5. CASE o = <<>>
  BY <1>5, OneMessage
<1>6. CASE o = <<m>>
  <2>1. /\ AllProper(<<m>>, b) /\ ~Ends(<<m>>)
        /\ \A r, T : Quiet(<<m>>, r, T) <=> ~About(m, r, T)
    BY <1>1, <1>2, <1>3, OneMessage
  <2>2. \A r, T : About(m, r, T) <=> r = q /\ t \in T
    BY <1>1 DEF About
  <2> QED
    BY <1>6, <2>1, <2>2
<1> QED
  BY <1>4, <1>5, <1>6

\* Messages about the session.
LEMMA HearsChat ==
  ASSUME SessionInv, CalmInv, FlightInv, StableInv, NEW n \in Node, NEW m, NEW c, NEW f,
         Hears(n, m, c, f),
         m.type \in {"Heartbeat", "Session_Update", "Session_Update_Response"}
  PROVE  StableInv'
<1> DEFINE e == ep[n]
           s == stream[n]
           rest == Tail(s)
           p == e.pending[Session]
<1>1. /\ WellFormed(e) /\ s \in Seq(Message) /\ Tidy(e) /\ e.out = <<>>
  BY StableNode
<1>1a. /\ e.not_interested \subseteq Dests /\ p \in Seq(Entry) /\ Session \in Queues
       /\ e.modem \in BOOLEAN
  BY <1>1 DEF WellFormed, Endpoint, Queues
<1>2. /\ m = Head(s) /\ s # <<>> /\ sender_ok(e, m) /\ m.status # "Invalid_Data"
      /\ m \in Message
      /\ c \in Inputs /\ c.valid /\ c.ip_ok /\ c.metrics_known /\ c.send
      /\ f = handle_session_receive(e, m, c) /\ WellFormed(f)
      /\ rest \in Seq(Message) /\ Commit(n, f, rest)
      /\ m.type \in Responses => response_ok(e, m)
      /\ \A q \in Queues : Only(rest, q, Responses, Awaited(f.pending[q]))
      /\ Live(e)
  BY DEF Hears, Live
<1>3. m.dest = Session
  BY <1>2 DEF Message, DestinationTypes, Queues
<1>4. \A i \in DOMAIN p : p[i].type \in Heard(~e.modem)
  BY <1>1, <1>1a, <1>2 DEF Tidy
<1> HIDE DEF e, s, rest, p
<1>5. /\ SameData(e, f) /\ \A d \in Dests : f.pending[d] = e.pending[d]
      /\ \A i \in DOMAIN f.pending[Session] : f.pending[Session][i].type \in Heard(~e.modem)
      /\ \/ f.out = <<>>
         \/ \E t \in Heard(~e.modem), v \in {"none", "Success"} :
              f.out = <<Msg(t, Session, v)>> /\ (t \in Responses => m.type = "Session_Update")
      /\ ServesQueue(n, f, rest, Session)
  <2>1. CASE m.type = "Heartbeat"
    <3>1. f = e
      BY <1>2, <2>1, Dispatches
    <3>2. ~About(m, Session, Responses) /\ ~About(m, Session, Requests)
      BY <2>1, RequestNames DEF About, Responses
    <3>3. ServesQueue(n, f, rest, Session)
      BY <1>1, <1>2, <3>1, <3>2, ServesSame DEF e, s, rest
    <3> QED
      BY <1>1, <1>4, <3>1, <3>3 DEF SameData, p
  <2>2. CASE m.type = "Session_Update"
    <3> DEFINE x == "Session_Update_Response"
    <3>1. f = handle_peer_update(e, c)
      BY <1>2, <2>2, Dispatches
    <3>2. SameData(e, f) /\ f.pending = e.pending /\ f.out = <<Msg(x, Session, "Success")>>
      BY <1>1, <1>2, <3>1, ReadsSession
    <3>3. x \in Heard(~e.modem) /\ x \in Responses
      BY DEF Heard, Responses
    <3>4. ~About(m, Session, Responses)
      BY <2>2 DEF About, Responses
    <3> HIDE DEF x
    <3>5. ~Quiet(f.out, Session, Responses)
      BY <3>2, <3>3, OneMessage DEF About, Msg
    <3>6. ServesQueue(n, f, rest, Session)
      BY <1>1, <1>2, <3>2, <3>4, <3>5, ServesSame DEF e, s, rest
    <3> QED
      BY <1>4, <2>2, <3>2, <3>3, <3>6 DEF p
  <2>3. CASE m.type = "Session_Update_Response"
    <3>1. f = handle_response(e, m) /\ response_ok(e, m)
      BY <1>2, <2>3, Dispatches DEF Responses
    <3>2. Session \notin e.not_interested
      BY <1>1a, DestsAssumption
    <3>3. /\ SameData(e, f) /\ Shrunk(p, f.pending[Session])
          /\ \A r \in Queues \ {Session} : f.pending[r] = e.pending[r]
          /\ f.out = IF Len(p) = 1 THEN <<>> ELSE Append(<<>>, Msg(p[2].type, Session, "none"))
      <4>1. m.dest \notin e.not_interested
        BY <1>3, <3>2
      <4>2. LET g == handle_response(e, m)
                r == e.pending[m.dest]
            IN  /\ SameData(e, g) /\ Shrunk(r, g.pending[m.dest])
                /\ \A x \in Queues \ {m.dest} : g.pending[x] = e.pending[x]
                /\ g.out = IF Len(r) = 1 THEN e.out
                           ELSE Append(e.out, Msg(r[2].type, m.dest, "none"))
        BY <1>1, <1>2, <3>1, <4>1, Pops, Zenon
      <4> QED
        BY <1>1, <1>3, <3>1, <4>2 DEF p
    <3>4. p # <<>>
      BY <1>3, <3>1 DEF response_ok, p
    <3>5. f.pending[Session] \in Seq(Entry)
      BY <1>2 DEF WellFormed, Endpoint, Queues
    <3>6. /\ \A i \in DOMAIN f.pending[Session] : f.pending[Session][i].type \in Heard(~e.modem)
          /\ f.pending[Session] = <<>> <=> Len(p) = 1
          /\ Len(p) # 1 => p[2].type \in Heard(~e.modem)
      BY <1>1a, <1>4, <3>3, <3>4, <3>5, QueueTypes
    <3>7. ASSUME Len(p) # 1
          PROVE  /\ p[2].type \in Requests /\ p[2].type \notin Responses
                 /\ f.out = <<Msg(p[2].type, Session, "none")>>
                 /\ ~Quiet(f.out, Session, Requests)
      <4>1. p[2] \in Entry
        <5>1. Len(p) \in Nat /\ Len(p) # 0 /\ DOMAIN p = 1..Len(p)
          BY <1>1a, <3>4
        <5>2. 2 \in DOMAIN p
          BY <3>7, <5>1
        <5> QED
          BY <1>1a, <5>2
      <4>2. p[2].type \in Requests
        BY <4>1 DEF Entry
      <4>3. f.out = <<Msg(p[2].type, Session, "none")>>
        BY <3>3, <3>7
      <4>4. About(Msg(p[2].type, Session, "none"), Session, Requests)
        BY <4>2 DEF About, Msg
      <4> QED
        BY <4>2, <4>3, <4>4, RequestNames, OneMessage DEF Responses
    <3>8. ServesQueue(n, f, rest, Session)
      <4>1. ~About(m, Session, Requests)
        BY <2>3, RequestNames DEF About
      <4>2. ~Quiet(s, Session, Requests) => ~Quiet(rest, Session, Requests)
        BY <1>1, <1>2, <4>1, StreamFacts DEF rest
      <4> QED
        BY <3>6, <3>7, <4>2 DEF ServesQueue, s
    <3>9. \A d \in Dests : f.pending[d] = e.pending[d]
      BY <3>3, DestsAssumption DEF Queues
    <3> QED
      BY <3>3, <3>6, <3>7, <3>8, <3>9
  <2> QED
    BY <2>1, <2>2, <2>3
<1>6. /\ AllProper(f.out, ~e.modem) /\ ~Ends(f.out)
      /\ \A d \in Dests : Quiet(f.out, d, Responses)
  <2> DEFINE b == ~e.modem
             o == f.out
  <2>1. o = <<>> \/ \E t \in Heard(b), v \in {"none", "Success"} : o = <<Msg(t, Session, v)>>
    BY <1>5
  <2> HIDE DEF b, o
  <2>2. CASE o = <<>>
    BY <2>2, OneMessage DEF b, o
  <2>3. CASE \E t \in Heard(b), v \in {"none", "Success"} : o = <<Msg(t, Session, v)>>
    <3>1. PICK t \in Heard(b), v \in {"none", "Success"} : o = <<Msg(t, Session, v)>>
      BY <2>3
    <3>2. /\ AllProper(o, b) /\ ~Ends(o) /\ \A r, T : r # Session => Quiet(o, r, T)
      BY <3>1, OneOut
    <3> QED
      BY <3>2, DestsAssumption DEF b, o
  <2> QED
    BY <2>1, <2>2, <2>3
<1>7. f.modem = e.modem
  BY <1>5 DEF SameData
<1> QED
  BY <1>2, <1>3, <1>5, <1>6, <1>7, StableChat DEF e, s, rest

\* What a modem writes when it brings the session up.
LEMMA InitOutput ==
  ASSUME NEW L \in SUBSET Dests, NEW t \in Seq(Message), NEW o,
         o = <<Msg("Session_Initialization_Response", Session, "Success")>> \o t,
         \A i \in DOMAIN t : /\ t[i].type = "Destination_Up"
                             /\ t[i].dest \in L /\ t[i].status = "none",
         \A d \in L : \E i \in DOMAIN t : t[i].type = "Destination_Up" /\ t[i].dest = d
  PROVE  /\ AllProper(o, FALSE) /\ ~Ends(o) /\ ~Quiet(o, Session, Responses)
         /\ \A d \in L : ~Quiet(o, d, Requests)
<1> DEFINE x == Msg("Session_Initialization_Response", Session, "Success")
           r == <<x>>
           b == FALSE
<1>1. /\ x \in Message /\ Proper(x, b) /\ x.type \notin Final
      /\ About(x, Session, Responses)
  BY HeardNames, DestsAssumption
  DEF Message, Msg, MessageTypes, Responses, Statuses, Queues, DestinationTypes, Proper,
      Final, About
<1>2. AllProper(t, b) /\ ~Ends(t)
  BY HeardNames DEF AllProper, Proper, Ends, Final
<1>3. \A d \in L : ~Quiet(t, d, Requests)
  BY RequestNames DEF Quiet, About
<1> HIDE DEF x, b
<1>4. r \in Seq(Message) /\ AllProper(r, b) /\ ~Ends(r) /\ ~Quiet(r, Session, Responses)
  BY <1>1, OneMessage
<1>5. o = r \o t
  BY DEF x
<1> HIDE DEF r
<1>6. AllProper(o, b) /\ ~Ends(o)
  BY <1>2, <1>4, <1>5, ProperStreams
<1>7. ~Quiet(o, Session, Responses) /\ \A d \in L : ~Quiet(o, d, Requests)
  <2>1. \A q, T : ~Quiet(r, q, T) \/ ~Quiet(t, q, T) => ~Quiet(r \o t, q, T)
    BY <1>4, StreamFacts, Zenon
  <2> QED
    BY <1>3, <1>4, <1>5, <2>1
<1> QED
  BY <1>6, <1>7 DEF b

\* The router's message that opens the handshake, at the modem.
LEMMA HearsInitialization ==
  ASSUME SessionInv, CalmInv, FlightInv, StableInv, NEW n \in Node, NEW m, NEW c, NEW f,
         Hears(n, m, c, f), m.type = "Session_Initialization"
  PROVE  StableInv'
<1> DEFINE e == ep[n]
           s == stream[n]
           rest == Tail(s)
<1>1. /\ WellFormed(e) /\ s \in Seq(Message) /\ Tidy(e) /\ e.out = <<>>
      /\ e.modem \in BOOLEAN /\ e.modem = (n = "modem") /\ link \in BOOLEAN
  BY StableNode
<1>2. /\ m = Head(s) /\ s # <<>> /\ sender_ok(e, m) /\ m.status # "Invalid_Data"
      /\ m \in Message /\ Proper(m, e.modem)
      /\ c \in Inputs /\ c.valid /\ c.ip_ok /\ c.send
      /\ f = handle_session_receive(e, m, c) /\ WellFormed(f)
      /\ rest \in Seq(Message) /\ Commit(n, f, rest)
      /\ \A q \in Queues : Only(rest, q, Responses, Awaited(f.pending[q]))
      /\ Live(e)
  BY DEF Hears, Live
<1>3. e.modem = TRUE /\ n = "modem"
  <2>1. m.type \notin Heard(FALSE) \cup Final
    BY HeardNames DEF Final
  <2>2. m.type \in Heard(e.modem) \cup Final
    BY <1>2 DEF Proper
  <2>3. e.modem # FALSE
    BY <2>1, <2>2, Zenon
  <2> QED
    BY <1>1, <2>3
<1>4. Early(e.pstate) /\ EndpointCalm(e)
  <2>1. Starts(s, "Session_Initialization")
    BY <1>1, <1>2 DEF Starts
  <2> QED
    BY <1>3, <2>1 DEF CalmInv, StreamsOK
<1>5. /\ \A d \in Dests : e.pending[d] = <<>>
      /\ e.pending[Session] = <<>> /\ e.needs_response = {} /\ e.not_interested = {}
      /\ e.asked = {} /\ e.peer_pdp = {} /\ e.cause = "none"
  BY <1>1, <1>2, <1>3, <1>4 DEF EndpointCalm, Early, Handshaking, Fresh, Tidy
<1>6. \A d \in Dests : Quiet(rest, d, Responses)
  <2>1. \A d \in Dests : Only(s, d, Responses, Awaited(e.pending[d]))
    BY <1>2, MatchedNow DEF Matched, Queues
  <2>2. Awaited(<<>>) = {}
    BY DEF Awaited, Expected
  <2>3. \A d \in Dests : Quiet(s, d, Responses)
    BY <1>1, <1>5, <2>1, <2>2, OnlyFacts
  <2> QED
    BY <1>1, <1>2, <2>3 DEF Quiet
<1>7. link => ep["router"].peer_pdp = {}
  <2>1. link => Early(ep["router"].pstate)
    BY <1>3, <1>4 DEF CalmInv, StreamsOK
  <2> QED
    BY <2>1, NodeFacts DEF CalmInv, EndpointCalm, Early, Handshaking, Fresh, Node
<1>8. m.dest = Session
  BY <1>2 DEF Message, DestinationTypes, Queues
<1> HIDE DEF e, s, rest
<1> DEFINE L == e.local_pdp
<1>9. L \in SUBSET Dests
  BY <1>1 DEF WellFormed, Endpoint
<1>10. f = handle_peer_initialization(e, c)
  BY <1>2, Dispatches
<1>10a. Initialized(e, f)
  <2>1. e.modem
    BY <1>3
  <2>2. Initialized(e, handle_peer_initialization(e, c))
    BY <1>1, <1>2, <1>5, <2>1, ReadsInitialization, Zenon
  <2> QED
    BY <1>10, <2>2, Zenon
<1>11. /\ f.cause = e.cause /\ f.pstate = "in_session" /\ f.modem = e.modem
       /\ f.local_pdp = e.local_pdp /\ f.peer_pdp = e.peer_pdp
       /\ f.needs_response = {} /\ f.asked = e.asked /\ f.not_interested = {}
       /\ f.pending[Session] = e.pending[Session]
       /\ \A d \in Dests :
            IF d \in L
            THEN Len(f.pending[d]) = 1 /\ f.pending[d][1].type = "Destination_Up"
            ELSE f.pending[d] = <<>>
       /\ \E t \in Seq(Message) :
            /\ f.out = <<Msg("Session_Initialization_Response", Session, "Success")>> \o t
            /\ \A i \in DOMAIN t : /\ t[i].type = "Destination_Up"
                                   /\ t[i].dest \in L /\ t[i].status = "none"
            /\ \A d \in L : \E i \in DOMAIN t :
                 t[i].type = "Destination_Up" /\ t[i].dest = d
  BY <1>10a, Zenon DEF Initialized
<1>12. /\ AllProper(f.out, FALSE) /\ ~Ends(f.out) /\ ~Quiet(f.out, Session, Responses)
       /\ \A d \in L : ~Quiet(f.out, d, Requests)
  BY <1>9, <1>11, InitOutput, Zenon
<1>13. \A d \in Dests : /\ Len(f.pending[d]) <= 1 /\ DOMAIN f.pending[d] = 1..Len(f.pending[d])
                        /\ f.pending[d] \in Seq(Entry)
                        /\ f.pending[d] # <<>> => d \in L /\ Len(f.pending[d]) = 1
                        /\ \A i \in DOMAIN f.pending[d] :
                             i = 1 /\ f.pending[d][i].type = "Destination_Up"
  <2>1. \A d \in Dests : f.pending[d] \in Seq(Entry)
    BY <1>2 DEF WellFormed, Endpoint, Queues
  <2>2. ASSUME NEW d \in Dests, d \in L
        PROVE  /\ f.pending[d] \in Seq(Entry) /\ Len(f.pending[d]) = 1
               /\ f.pending[d][1].type = "Destination_Up"
    BY <1>11, <2>1, <2>2
  <2>3. ASSUME NEW d \in Dests, d \notin L PROVE f.pending[d] = <<>>
    BY <1>11, <2>3
  <2>5. ASSUME NEW d \in Dests
        PROVE  /\ Len(f.pending[d]) <= 1 /\ DOMAIN f.pending[d] = 1..Len(f.pending[d])
               /\ f.pending[d] # <<>> => d \in L /\ Len(f.pending[d]) = 1
               /\ \A i \in DOMAIN f.pending[d] :
                    i = 1 /\ f.pending[d][i].type = "Destination_Up"
    <3> DEFINE p == f.pending[d]
    <3>1. p \in Seq(Entry)
      BY <2>1
    <3>2. CASE d \in L
      <4>1. Len(p) = 1 /\ p[1].type = "Destination_Up"
        BY <2>2, <3>2
      <4> HIDE DEF p
      <4> QED
        BY <3>1, <3>2, <4>1 DEF p
    <3>3. CASE d \notin L
      <4>1. p = <<>>
        BY <2>3, <3>3
      <4> HIDE DEF p
      <4> QED
        BY <3>1, <4>1 DEF p
    <3> QED
      BY <3>2, <3>3
  <2> QED
    BY <2>1, <2>5
<1>14. Live(f) /\ Tidy(f)
  <2>1. "Destination_Up" \in Heard(FALSE)
    BY HeardNames
  <2>2. \A q \in Queues : \A i \in DOMAIN f.pending[q] : f.pending[q][i].type \in Heard(FALSE)
    <3>1. \A d \in Dests : \A i \in DOMAIN f.pending[d] : f.pending[d][i].type \in Heard(FALSE)
      BY <1>13, <2>1
    <3>2. f.pending[Session] = <<>> /\ DOMAIN <<>> = {}
      BY <1>5, <1>11
    <3> QED
      BY <3>1, <3>2 DEF Queues
  <2>3. (~f.modem) = FALSE
    BY <1>3, <1>11
  <2> QED
    BY <1>3, <1>5, <1>11, <1>13, <2>2, <2>3 DEF Tidy, Live, Handshaking
<1>15. Serves(n, f, rest)
  <2>1. ServesQueue(n, f, rest, Session)
    BY <1>5, <1>11, <1>12 DEF ServesQueue
  <2>2. ASSUME NEW d \in Dests PROVE ServesQueue(n, f, rest, d)
    <3>1. ~About(m, d, Requests)
      BY <1>8, DestsAssumption DEF About
    <3>2. ~Quiet(s, d, Requests) => ~Quiet(rest, d, Requests)
      BY <1>1, <1>2, <3>1, StreamFacts DEF rest
    <3> QED
      BY <1>12, <1>13, <3>2 DEF ServesQueue, s
  <2> QED
    BY <2>1, <2>2 DEF Serves, Queues
<1>16. ASSUME link, NEW d \in Dests PROVE MirrorOf(f, ep["router"].peer_pdp, rest, d)
  <2> DEFINE p == f.pending[d]
  <2>1. Quiet(rest, d, Responses) /\ ep["router"].peer_pdp = {}
    BY <1>6, <1>7, <1>16
  <2>2. \A i \in DOMAIN rest : ~About(rest[i], d, Responses)
    BY <2>1 DEF Quiet
  <2>3. /\ \A i \in DOMAIN p : i = 1 /\ p[i].type = "Destination_Up"
        /\ p # <<>> => d \in L /\ Len(p) = 1 /\ p[1].type = "Destination_Up"
        /\ p = <<>> => d \notin L
    BY <1>11, <1>13
  <2> HIDE DEF p
  <2> QED
    BY <1>11, <2>1, <2>2, <2>3 DEF MirrorOf, MirrorAt, Alternates, p
<1>17. AllProper(f.out, ~f.modem)
  <2>1. (~f.modem) = FALSE
    BY <1>3, <1>11
  <2> QED
    BY <1>12, <2>1
<1>18. Rest(n, rest)
  BY <1>2 DEF Rest, rest, s
<1> QED
  BY <1>2, <1>3, <1>11, <1>12, <1>14, <1>15, <1>16, <1>17, <1>18, StableCommit DEF e

\* What a response leaves of its queue, and what is written then.
LEMMA PopOut ==
  ASSUME NEW q, NEW b, NEW p \in Seq(Entry), NEW r \in Seq(Entry), NEW o,
         p # <<>>, Shrunk(p, r), \A i \in DOMAIN p : p[i].type \in Heard(b),
         o = IF Len(p) = 1 THEN <<>> ELSE <<Msg(p[2].type, q, "none")>>
  PROVE  /\ \A i \in DOMAIN r : r[i].type \in Heard(b)
         /\ r = <<>> <=> Len(p) = 1
         /\ Len(p) <= 1 => Len(p) = 1
         /\ AllProper(o, b) /\ ~Ends(o)
         /\ \A x : Quiet(o, x, Responses)
         /\ r # <<>> => ~Quiet(o, q, Requests)
<1>1. /\ \A i \in DOMAIN r : r[i].type \in Heard(b)
      /\ r = <<>> <=> Len(p) = 1
      /\ Len(p) # 1 => p[2].type \in Heard(b)
  BY QueueTypes
<1>2. Len(p) \in Nat /\ Len(p) # 0 /\ DOMAIN p = 1..Len(p)
  OBVIOUS
<1>3. CASE Len(p) = 1
  <2>1. o = <<>> /\ r = <<>>
    BY <1>1, <1>3
  <2>2. AllProper(o, b) /\ ~Ends(o) /\ \A x : Quiet(o, x, Responses)
    BY <2>1, OneMessage
  <2> QED
    BY <1>1, <1>3, <2>1, <2>2
<1>4. CASE Len(p) # 1
  <2> DEFINE t == p[2].type
  <2>1. 2 \in DOMAIN p
    BY <1>2, <1>4
  <2>2. t \in Requests /\ t \in Heard(b) /\ t \notin Responses
    <3>1. p[2] \in Entry
      BY <2>1
    <3>2. t \in Requests
      BY <3>1 DEF Entry
    <3> QED
      BY <1>1, <1>4, <3>2, RequestNames
  <2>3. o = <<Msg(t, q, "none")>>
    BY <1>4
  <2> HIDE DEF t
  <2>4. /\ AllProper(o, b) /\ ~Ends(o)
        /\ \A x, T : x # q \/ t \notin T => Quiet(o, x, T)
        /\ \A T : o # <<>> /\ t \in T => ~Quiet(o, q, T)
    BY <2>2, <2>3, OneOut
  <2>5. o # <<>>
    BY <2>3
  <2> QED
    BY <1>1, <1>2, <1>4, <2>2, <2>4, <2>5
<1> QED
  BY <1>3, <1>4

\* The queue of a response that is read is served.
LEMMA ServesPop ==
  ASSUME NEW n, NEW f, NEW q, stream[n] \in Seq(Message), stream[n] # <<>>,
         Head(stream[n]).type \in Responses,
         f.pending[q] # <<>> => ~Quiet(f.out, q, Requests)
  PROVE  ServesQueue(n, f, Tail(stream[n]), q)
<1>1. ~About(Head(stream[n]), q, Requests)
  BY RequestNames DEF About
<1>2. ~Quiet(stream[n], q, Requests) => ~Quiet(Tail(stream[n]), q, Requests)
  BY <1>1, StreamFacts
<1> QED
  BY <1>2 DEF ServesQueue

\* The modem's answer that completes the handshake, at the router.
LEMMA HearsInitializationResponse ==
  ASSUME SessionInv, CalmInv, FlightInv, StableInv, NEW n \in Node, NEW m, NEW c, NEW f,
         Hears(n, m, c, f), m.type = "Session_Initialization_Response"
  PROVE  StableInv'
<1> DEFINE e == ep[n]
           s == stream[n]
           rest == Tail(s)
           p == e.pending[Session]
           r == f.pending[Session]
           o == f.out
           b == ~e.modem
<1>1. /\ WellFormed(e) /\ s \in Seq(Message) /\ Tidy(e) /\ e.out = <<>>
      /\ e.modem \in BOOLEAN /\ e.modem = (n = "modem") /\ link \in BOOLEAN
  BY StableNode
<1>2. /\ m = Head(s) /\ s # <<>> /\ sender_ok(e, m) /\ m.status # "Invalid_Data"
      /\ m \in Message /\ Proper(m, e.modem) /\ c.valid
      /\ f = handle_session_receive(e, m, c) /\ WellFormed(f)
      /\ rest \in Seq(Message) /\ Commit(n, f, rest)
      /\ \A q \in Queues : Only(rest, q, Responses, Awaited(f.pending[q]))
      /\ Live(e) /\ response_ok(e, m)
  BY DEF Hears, Live, Responses
<1>3. e.modem = FALSE /\ n = "router"
  <2>1. m.type \notin Heard(TRUE) \cup Final
    BY HeardNames DEF Final
  <2>2. m.type \in Heard(e.modem) \cup Final
    BY <1>2 DEF Proper
  <2>3. e.modem # TRUE
    BY <2>1, <2>2, Zenon
  <2> QED
    BY <1>1, <2>3 DEF Node
<1>4. e.pstate = "connected" /\ EndpointCalm(e)
  <2>1. Starts(s, "Session_Initialization_Response")
    BY <1>1, <1>2 DEF Starts
  <2> QED
    BY <1>3, <2>1 DEF CalmInv, StreamsOK
<1>5. /\ \A d \in Dests : e.pending[d] = <<>>
      /\ e.needs_response = {} /\ e.not_interested = {}
      /\ e.asked = {} /\ e.cause = "none" /\ e.local_pdp = {}
  BY <1>1, <1>2, <1>3, <1>4 DEF EndpointCalm, Handshaking, Fresh, Tidy
<1>6. m.dest = Session
  BY <1>2 DEF Message, DestinationTypes, Queues
<1>7. /\ p \in Seq(Entry) /\ r \in Seq(Entry) /\ Session \in Queues /\ o \in Seq(Message)
      /\ \A i \in DOMAIN p : p[i].type \in Heard(b)
  BY <1>1, <1>2 DEF Tidy, WellFormed, Endpoint, Queues
<1>7a. p # <<>>
  BY <1>2, <1>6 DEF response_ok
<1>8. f = handle_peer_initialization_response(e, m)
  BY <1>2, Dispatches
<1>9. Sound(s, e.peer_pdp)
  BY <1>2, <1>3, SoundNow
<1> HIDE DEF e, s, rest, b
<1>10. /\ f.cause = e.cause /\ f.pstate = "in_session" /\ f.modem = e.modem
       /\ f.local_pdp = {} /\ f.peer_pdp = e.peer_pdp
       /\ f.needs_response = {} /\ f.asked = e.asked /\ f.not_interested = {}
       /\ Shrunk(p, r)
       /\ \A d \in Dests : f.pending[d] = <<>>
       /\ o = IF Len(p) = 1 THEN e.out
              ELSE Append(e.out, Msg(p[2].type, Session, "none"))
  <2>1. LET g == handle_peer_initialization_response(e, m)
            u == e.pending[Session]
        IN  /\ g.cause = e.cause /\ g.pstate = "in_session" /\ g.modem = e.modem
            /\ g.local_pdp = {} /\ g.peer_pdp = e.peer_pdp
            /\ g.needs_response = {} /\ g.asked = e.asked /\ g.not_interested = {}
            /\ Shrunk(u, g.pending[Session])
            /\ \A d \in Dests : g.pending[d] = <<>>
            /\ g.out = IF Len(u) = 1 THEN e.out
                       ELSE Append(e.out, Msg(u[2].type, Session, "none"))
    BY <1>1, <1>2, <1>5, <1>6, ReadsInitializationResponse, Zenon
  <2> QED
    BY <1>8, <2>1
<1> HIDE DEF p, r, o
<1>11. o = IF Len(p) = 1 THEN <<>> ELSE <<Msg(p[2].type, Session, "none")>>
  BY <1>1, <1>10
<1>12. /\ \A i \in DOMAIN r : r[i].type \in Heard(b)
       /\ AllProper(o, b) /\ ~Ends(o)
       /\ \A x : Quiet(o, x, Responses)
       /\ r # <<>> => ~Quiet(o, Session, Requests)
  BY <1>7, <1>7a, <1>10, <1>11, PopOut
<1>13. b = ~f.modem
  BY <1>10 DEF b
<1>14. Live(f) /\ Tidy(f)
  <2>1. \A q \in Queues : \A i \in DOMAIN f.pending[q] : f.pending[q][i].type \in Heard(b)
    <3>1. \A d \in Dests : \A i \in DOMAIN f.pending[d] : f.pending[d][i].type \in Heard(b)
      <4>1. DOMAIN <<>> = {}
        OBVIOUS
      <4> QED
        BY <1>10, <4>1
    <3> QED
      BY <1>12, <3>1 DEF Queues, r
  <2>2. \A d \in Dests : Len(f.pending[d]) <= 1
    BY <1>10
  <2> QED
    BY <1>3, <1>5, <1>10, <1>13, <2>1, <2>2 DEF Tidy, Live, Handshaking
<1>15. Serves(n, f, rest)
  <2>1. ServesQueue(n, f, rest, Session)
    BY <1>1, <1>2, <1>12, ServesPop DEF Responses, rest, s, r, o
  <2>2. ASSUME NEW d \in Dests PROVE ServesQueue(n, f, rest, d)
    BY <1>1, <1>2, <1>10, ServesPop DEF Responses, rest, s
  <2> QED
    BY <2>1, <2>2 DEF Serves, Queues
<1>16. Sound(rest, f.peer_pdp)
  BY <1>1, <1>2, <1>9, <1>10, SoundRead DEF rest
<1>17. ASSUME link, ep["modem"].pstate = "in_session", NEW d \in Dests
       PROVE  MirrorOf(ep["modem"], f.peer_pdp, stream["modem"] \o o, d)
  <2> DEFINE M == ep["modem"]
             V == ep["router"].peer_pdp
             t == stream["modem"]
  <2>1. MirrorOf(M, V, t, d) /\ t \in Seq(Message) /\ f.peer_pdp = V
    BY <1>3, <1>10, <1>17, NodeFacts DEF StableInv, Mirror, SessionInv, EndpointsOK, e
  <2>2. Quiet(o, d, Responses)
    BY <1>12
  <2> HIDE DEF M, V, t
  <2>3. MirrorOf(M, V, t \o o, d)
    BY <1>7, <2>1, <2>2, MirrorKeep DEF o
  <2> QED
    BY <2>1, <2>3 DEF M, t
<1>18. Rest(n, rest) /\ Live(ep[n]) /\ f.modem = ep[n].modem
  BY <1>2, <1>10 DEF Rest, rest, s, e
<1>19. AllProper(f.out, ~f.modem) /\ ~Ends(f.out)
  BY <1>12, <1>13 DEF o
<1>20. f.modem = FALSE
  BY <1>3, <1>10
<1> QED
  BY <1>2, <1>14, <1>15, <1>16, <1>17, <1>18, <1>19, <1>20, StableCommit DEF o

\* The router's answer about a destination, at the modem.
LEMMA HearsResponse ==
  ASSUME SessionInv, CalmInv, FlightInv, StableInv, NEW n \in Node, NEW m, NEW c, NEW f,
         Hears(n, m, c, f),
         m.type \in {"Destination_Up_Response", "Destination_Down_Response"}
  PROVE  StableInv'
<1> DEFINE e == ep[n]
           s == stream[n]
           rest == Tail(s)
           d == m.dest
           p == e.pending[d]
           r == f.pending[d]
           o == f.out
           b == ~e.modem
<1>1. /\ WellFormed(e) /\ s \in Seq(Message) /\ Tidy(e) /\ e.out = <<>>
      /\ e.modem \in BOOLEAN /\ e.modem = (n = "modem") /\ link \in BOOLEAN
  BY StableNode
<1>2. /\ m = Head(s) /\ s # <<>> /\ sender_ok(e, m) /\ m.status # "Invalid_Data"
      /\ m \in Message /\ Proper(m, e.modem) /\ c.valid
      /\ f = handle_session_receive(e, m, c) /\ WellFormed(f)
      /\ rest \in Seq(Message) /\ Commit(n, f, rest)
      /\ \A q \in Queues : Only(rest, q, Responses, Awaited(f.pending[q]))
      /\ Live(e) /\ response_ok(e, m) /\ Quiet(rest, d, Responses)
      /\ m.type \in Responses
  BY DEF Hears, Live, Responses
<1>3. e.modem = TRUE /\ n = "modem"
  <2>1. m.type \notin Heard(FALSE) \cup Final
    BY HeardNames DEF Final
  <2>2. m.type \in Heard(e.modem) \cup Final
    BY <1>2 DEF Proper
  <2>3. e.modem # FALSE
    BY <2>1, <2>2, Zenon
  <2> QED
    BY <1>1, <2>3
<1>4. d \in Dests /\ d \in Queues
  BY <1>2 DEF Message, DestinationTypes, Queues
<1>5. p # <<>>
  BY <1>2 DEF response_ok
<1>6. e.pstate = "in_session"
  <2>1. EndpointCalm(e)
    BY DEF CalmInv
  <2> QED
    BY <1>2, <1>4, <1>5, <2>1 DEF EndpointCalm, Handshaking, Fresh, Live
<1>7. /\ d \notin e.not_interested /\ e.not_interested \subseteq Dests
      /\ p \in Seq(Entry) /\ r \in Seq(Entry) /\ o \in Seq(Message)
      /\ e.local_pdp \in SUBSET Dests
      /\ \A i \in DOMAIN p : p[i].type \in Heard(b)
      /\ Refusals => Len(p) <= 1
  BY <1>1, <1>2, <1>4, <1>5 DEF Tidy, WellFormed, Endpoint
<1>8. /\ m.status = "Not_Interested" =>
           m.type = "Destination_Up_Response" /\ Refusals
  BY <1>2 DEF Proper
<1>9. /\ m.type = "Destination_Down_Response" => f = handle_response(e, m)
      /\ m.type = "Destination_Up_Response" => f = handle_destination_up_response(e, m, c)
  BY <1>2, Dispatches
<1> HIDE DEF e, s, rest, d, b
<1> DEFINE J == IF m.status = "Not_Interested" THEN e.not_interested \cup {d}
                ELSE e.not_interested
           g == handle_response(e, m)
<1>10. /\ SameData(e, g) /\ Shrunk(p, g.pending[d])
       /\ \A q \in Queues \ {d} : g.pending[q] = e.pending[q]
       /\ g.out = IF Len(p) = 1 THEN e.out
                  ELSE Append(e.out, Msg(p[2].type, d, "none"))
  <2>1. LET h == handle_response(e, m)
            u == e.pending[m.dest]
        IN  /\ SameData(e, h) /\ Shrunk(u, h.pending[m.dest])
            /\ \A q \in Queues \ {m.dest} : h.pending[q] = e.pending[q]
            /\ h.out = IF Len(u) = 1 THEN e.out
                       ELSE Append(e.out, Msg(u[2].type, m.dest, "none"))
    BY <1>1, <1>2, <1>7, Pops, Zenon DEF d
  <2> QED
    BY <2>1 DEF d
<1>11. /\ f.cause = g.cause /\ f.pstate = g.pstate /\ f.modem = g.modem
       /\ f.local_pdp = g.local_pdp /\ f.needs_response = g.needs_response
       /\ f.asked = g.asked /\ f.peer_pdp = g.peer_pdp
       /\ f.pending = g.pending /\ f.out = g.out
       /\ f.not_interested = IF m.status = "Not_Interested"
                             THEN g.not_interested \cup {d} ELSE g.not_interested
  <2>1. CASE m.type = "Destination_Down_Response"
    BY <1>8, <1>9, <2>1
  <2>2. CASE m.type = "Destination_Up_Response"
    <3>1. e.modem
      BY <1>3
    <3>2. LET h == handle_destination_up_response(e, m, c)
              k == handle_response(e, m)
          IN  /\ h.cause = k.cause /\ h.pstate = k.pstate /\ h.modem = k.modem
              /\ h.local_pdp = k.local_pdp /\ h.needs_response = k.needs_response
              /\ h.asked = k.asked /\ h.peer_pdp = k.peer_pdp
              /\ h.pending = k.pending /\ h.out = k.out
              /\ h.not_interested = IF m.status = "Not_Interested"
                                    THEN k.not_interested \cup {m.dest}
                                    ELSE k.not_interested
      <4>1. WellFormed(e) /\ m \in Message /\ response_ok(e, m)
        BY <1>1, <1>2
      <4> QED
        BY <2>2, <3>1, <4>1, ReadsUpResponse, ZenonT(60)
    <3> QED
      BY <1>9, <2>2, <3>2 DEF d
  <2> QED
    BY <2>1, <2>2
<1> HIDE DEF g
<1>12. /\ f.cause = e.cause /\ f.pstate = e.pstate /\ f.modem = e.modem
       /\ f.local_pdp = e.local_pdp /\ f.needs_response = e.needs_response
       /\ f.asked = e.asked /\ f.peer_pdp = e.peer_pdp /\ f.not_interested = J
       /\ Shrunk(p, r) /\ \A q \in Queues \ {d} : f.pending[q] = e.pending[q]
       /\ o = IF Len(p) = 1 THEN <<>> ELSE <<Msg(p[2].type, d, "none")>>
  BY <1>1, <1>10, <1>11 DEF SameData
<1> HIDE DEF p, r, o
<1>13. /\ \A i \in DOMAIN r : r[i].type \in Heard(b)
       /\ r = <<>> <=> Len(p) = 1
       /\ Len(p) <= 1 => Len(p) = 1
       /\ AllProper(o, b) /\ ~Ends(o)
       /\ \A x : Quiet(o, x, Responses)
       /\ r # <<>> => ~Quiet(o, d, Requests)
  BY <1>5, <1>7, <1>12, PopOut
<1>14. b = ~f.modem /\ (Refusals => r = <<>>)
  BY <1>7, <1>12, <1>13 DEF b
<1>15. Live(f) /\ Tidy(f)
  <2>1. \A q \in Queues : \A i \in DOMAIN f.pending[q] : f.pending[q][i].type \in Heard(b)
    <3>1. \A q \in Queues \ {d} : \A i \in DOMAIN f.pending[q] :
            f.pending[q][i].type \in Heard(b)
      BY <1>1, <1>2, <1>12 DEF Tidy, b
    <3> QED
      BY <1>13, <3>1 DEF r
  <2>2. Refusals => \A x \in Dests : Len(f.pending[x]) <= 1
    <3>1. Refusals => \A x \in Dests \ {d} : Len(f.pending[x]) <= 1
      BY <1>1, <1>2, <1>12 DEF Tidy, Queues
    <3>2. Refusals => Len(f.pending[d]) = 0
      BY <1>14 DEF r
    <3> QED
      BY <3>1, <3>2
  <2>3. \A x \in f.not_interested : f.pending[x] = <<>>
    <3>1. \A x \in e.not_interested : f.pending[x] = <<>>
      BY <1>1, <1>2, <1>7, <1>12 DEF Tidy, Queues
    <3>2. m.status = "Not_Interested" => f.pending[d] = <<>>
      BY <1>8, <1>14 DEF r
    <3> QED
      BY <1>12, <3>1, <3>2
  <2> QED
    BY <1>1, <1>2, <1>3, <1>6, <1>12, <1>14, <2>1, <2>2, <2>3 DEF Tidy, Live, Handshaking
<1>16. Serves(n, f, rest)
  <2>1. ServesQueue(n, f, rest, d)
    BY <1>1, <1>2, <1>13, ServesPop DEF rest, s, r, o
  <2>2. ASSUME NEW q \in Queues \ {d} PROVE ServesQueue(n, f, rest, q)
    <3>1. ~About(m, q, Responses) /\ ~About(m, q, Requests) /\ f.pending[q] = e.pending[q]
      BY <1>12 DEF About, d
    <3> QED
      BY <1>1, <1>2, <3>1, ServesSame DEF rest, s, e
  <2> QED
    BY <2>1, <2>2 DEF Serves
<1>17. ASSUME link, NEW x \in Dests
       PROVE  MirrorOf(f, ep["router"].peer_pdp, rest, x)
  <2> DEFINE V == ep["router"].peer_pdp
  <2>1. MirrorOf(e, V, s, x)
    BY <1>3, <1>6, <1>17 DEF StableInv, Mirror, e, s
  <2> HIDE DEF V
  <2>2. CASE x = d
    <3> DEFINE L == d \in e.local_pdp
               NI == d \in e.not_interested
               K == d \in f.not_interested
               W == d \in V
    <3>1. MirrorAt(p, L, NI, W, s, d)
      BY <2>1, <2>2 DEF MirrorOf, p
    <3>2. K <=> NI \/ Head(s).status = "Not_Interested"
      BY <1>2, <1>12
    <3>3. About(Head(s), d, Responses) /\ Quiet(Tail(s), d, Responses)
      BY <1>2 DEF About, d, rest
    <3>4. W \in BOOLEAN /\ L \in BOOLEAN
      OBVIOUS
    <3> HIDE DEF L, NI, K, W
    <3>5. MirrorAt(r, L, K, W, Tail(s), d)
      BY <1>1, <1>2, <1>5, <1>7, <1>12, <3>1, <3>2, <3>3, <3>4, MirrorPop DEF p, r
    <3> QED
      BY <1>12, <2>2, <3>5 DEF MirrorOf, r, L, K, W, V, rest
  <2>3. CASE x # d
    <3>1. /\ f.pending[x] = e.pending[x] /\ (x \in f.local_pdp <=> x \in e.local_pdp)
          /\ x \in f.not_interested <=> x \in e.not_interested
      BY <1>12, <2>3 DEF Queues
    <3>2. s # <<>> /\ ~About(Head(s), x, Responses)
      BY <1>2, <2>3 DEF About, d
    <3>3. MirrorOf(f, V, Tail(s), x)
      BY <1>1, <2>1, <3>1, <3>2, MirrorKeep
    <3> QED
      BY <3>3 DEF rest, V
  <2> QED
    BY <2>2, <2>3
<1>18. Rest(n, rest) /\ Live(ep[n]) /\ f.modem = ep[n].modem
  BY <1>2, <1>12 DEF Rest, rest, s, e, Responses
<1>19. AllProper(f.out, ~f.modem) /\ ~Ends(f.out)
  BY <1>13, <1>14 DEF o
<1>20. f.modem = TRUE
  BY <1>3, <1>12
<1> QED
  BY <1>2, <1>15, <1>16, <1>17, <1>18, <1>19, <1>20, StableCommit

\* What the router has become when it has handled a request m about d and
\* answered it with x.
Answers(e, f, m, x) ==
  /\ f.cause = e.cause /\ f.pstate = e.pstate /\ f.modem = e.modem
  /\ f.local_pdp = e.local_pdp /\ f.needs_response = {} /\ f.asked = e.asked
  /\ f.not_interested = {} /\ f.pending = e.pending
  /\ f.out = <<x>> /\ x \in Message /\ x.dest = m.dest /\ x.type \in Responses
  /\ Proper(x, TRUE) /\ x.type \notin Final
  /\ \A d \in Dests \ {m.dest} : d \in f.peer_pdp <=> d \in e.peer_pdp
  /\ IF x.status = "Not_Interested"
     THEN m.dest \notin f.peer_pdp /\ m.type = "Destination_Up" /\ Refusals
     ELSE m.dest \in f.peer_pdp <=> m.type = "Destination_Up"

LEMMA HearsRequest ==
  ASSUME Benign, NEW e, WellFormed(e), e.out = <<>>, e.modem = FALSE, NEW m \in Message,
         e.needs_response = {}, e.not_interested = {},
         m.type \in {"Destination_Up", "Destination_Down"},
         m.type \in Suits(m.dest \in e.peer_pdp), sender_ok(e, m), m.status # "Invalid_Data",
         NEW c \in Inputs, c.valid, c.ip_ok, c.send, c.status \in ClientStatuses
  PROVE  \E x : Answers(e, handle_session_receive(e, m, c), m, x)
<1> DEFINE f == handle_session_receive(e, m, c)
           d == m.dest
<1>1. d \in Dests /\ d \in Queues
  BY DEF Message, DestinationTypes, Queues
<1>2. e.peer_pdp \in SUBSET Dests
  BY DEF WellFormed, Endpoint
<1>3. CASE m.type = "Destination_Up"
  <2> DEFINE x == Msg("Destination_Up_Response", d, c.status)
  <2>1. d \notin e.peer_pdp
    BY <1>3 DEF Suits
  <2>2. f = handle_destination_up(e, m, c)
    BY <1>3, Dispatches
  <2>3. /\ f.cause = e.cause /\ f.pstate = e.pstate /\ f.modem = e.modem
        /\ f.local_pdp = e.local_pdp /\ f.needs_response = e.needs_response
        /\ f.asked = e.asked /\ f.not_interested = e.not_interested \ {d}
        /\ f.peer_pdp = IF c.status = "Success" THEN e.peer_pdp \cup {d} ELSE e.peer_pdp
        /\ f.pending = e.pending /\ f.out = <<x>>
    <3>1. LET g == handle_destination_up(e, m, c)
              y == m.dest
          IN  /\ g.cause = e.cause /\ g.pstate = e.pstate /\ g.modem = e.modem
              /\ g.local_pdp = e.local_pdp /\ g.needs_response = e.needs_response
              /\ g.asked = e.asked /\ g.not_interested = e.not_interested \ {y}
              /\ g.peer_pdp = IF c.status = "Success" THEN e.peer_pdp \cup {y} ELSE e.peer_pdp
              /\ g.pending = e.pending
              /\ g.out = <<Msg("Destination_Up_Response", y, c.status)>>
      BY <1>3, <2>1, ReadsUp, ZenonT(60)
    <3> QED
      BY <2>2, <3>1
  <2>4. /\ x \in Message /\ x.dest = d /\ x.type \in Responses /\ x.type \notin Final
        /\ x.type = "Destination_Up_Response" /\ x.status = c.status
    BY <1>1 DEF Inputs, Msg, Message, MessageTypes, Responses, Final, Statuses, DestinationTypes
  <2>5. /\ c.status \in {"Success", "Not_Interested"}
        /\ c.status = "Not_Interested" => Refusals
    BY DEF Benign, Refusals
  <2>6. Proper(x, TRUE)
    BY <2>4, <2>5, HeardNames DEF Proper
  <2> HIDE DEF f, x, d
  <2>7. Answers(e, f, m, x)
    BY <1>1, <1>3, <2>1, <2>3, <2>4, <2>5, <2>6 DEF Answers, d
  <2> QED
    BY <2>7 DEF f
<1>4. CASE m.type = "Destination_Down"
  <2> DEFINE x == Msg("Destination_Down_Response", d, "Success")
  <2>1. d \in e.peer_pdp
    BY <1>4 DEF Suits
  <2>2. f = handle_destination_down(e, m, c)
    BY <1>4, Dispatches
  <2>3. /\ f.cause = e.cause /\ f.pstate = e.pstate /\ f.modem = e.modem
        /\ f.local_pdp = e.local_pdp /\ f.needs_response = e.needs_response \ {d}
        /\ f.asked = e.asked /\ f.not_interested = e.not_interested
        /\ f.peer_pdp = e.peer_pdp \ {d} /\ f.pending = e.pending /\ f.out = <<x>>
    <3>1. LET g == handle_destination_down(e, m, c)
              y == m.dest
          IN  /\ g.cause = e.cause /\ g.pstate = e.pstate /\ g.modem = e.modem
              /\ g.local_pdp = e.local_pdp /\ g.needs_response = e.needs_response \ {y}
              /\ g.asked = e.asked /\ g.not_interested = e.not_interested
              /\ g.peer_pdp = e.peer_pdp \ {y} /\ g.pending = e.pending
              /\ g.out = <<Msg("Destination_Down_Response", y, "Success")>>
      BY <1>4, <2>1, ReadsDown, ZenonT(60)
    <3> QED
      BY <2>2, <3>1
  <2>4. /\ x \in Message /\ x.dest = d /\ x.type \in Responses /\ x.type \notin Final
        /\ x.type = "Destination_Down_Response" /\ x.status = "Success"
    BY <1>1 DEF Msg, Message, MessageTypes, Responses, Final, Statuses, DestinationTypes
  <2>6. Proper(x, TRUE)
    BY <2>4, HeardNames DEF Proper
  <2> HIDE DEF f, x, d
  <2>7. Answers(e, f, m, x)
    BY <1>1, <1>4, <2>1, <2>3, <2>4, <2>6 DEF Answers, d
  <2> QED
    BY <2>7 DEF f
<1> QED
  BY <1>3, <1>4

\* The modem's request about a destination, at the router.
LEMMA HearsDestination ==
  ASSUME Benign, SessionInv, CalmInv, FlightInv, StableInv, NEW n \in Node, NEW m, NEW c,
         NEW f, Hears(n, m, c, f), m.type \in {"Destination_Up", "Destination_Down"}
  PROVE  StableInv'
<1> DEFINE e == ep[n]
           s == stream[n]
           rest == Tail(s)
           y == m.dest
           b == TRUE
<1>1. /\ WellFormed(e) /\ s \in Seq(Message) /\ Tidy(e) /\ e.out = <<>>
      /\ e.modem \in BOOLEAN /\ e.modem = (n = "modem") /\ link \in BOOLEAN
  BY StableNode
<1>2. /\ m = Head(s) /\ s # <<>> /\ sender_ok(e, m) /\ m.status # "Invalid_Data"
      /\ m \in Message /\ Proper(m, e.modem) /\ c.valid /\ c.ip_ok /\ c.send
      /\ c \in Inputs /\ c.status \in ClientStatuses
      /\ f = handle_session_receive(e, m, c) /\ WellFormed(f)
      /\ rest \in Seq(Message) /\ Commit(n, f, rest)
      /\ \A q \in Queues : Only(rest, q, Responses, Awaited(f.pending[q]))
      /\ Live(e)
  BY DEF Hears, Live
<1>3. e.modem = FALSE /\ n = "router"
  <2>1. m.type \notin Heard(TRUE) \cup Final
    BY HeardNames DEF Final
  <2>2. m.type \in Heard(e.modem) \cup Final
    BY <1>2 DEF Proper
  <2>3. e.modem # TRUE
    BY <2>1, <2>2, Zenon
  <2> QED
    BY <1>1, <2>3 DEF Node
<1>4. y \in Dests /\ y \in Queues
  BY <1>2 DEF Message, DestinationTypes, Queues
<1>5. e.needs_response = {} /\ e.not_interested = {} /\ e.cause = "none" /\ e.local_pdp = {}
  BY <1>1, <1>2, <1>3 DEF Tidy
<1>6. m.type \in Requests /\ m.type \notin Responses
  BY RequestNames
<1>7. Sound(s, e.peer_pdp)
  BY <1>2, <1>3, SoundNow
<1>8. m.type \in Suits(y \in e.peer_pdp)
  <2>1. Only(s, y, Requests, Suits(y \in e.peer_pdp))
    BY <1>4, <1>7 DEF Sound
  <2>2. 1 \in DOMAIN s /\ s[1] = m /\ About(s[1], y, Requests)
    BY <1>1, <1>2, <1>6 DEF About
  <2> QED
    BY <2>1, <2>2 DEF Only
<1> HIDE DEF e, s, rest, b
<1>9. PICK x : Answers(e, f, m, x)
  <2>1. \E x : Answers(e, handle_session_receive(e, m, c), m, x)
    BY <1>1, <1>2, <1>3, <1>5, <1>8, HearsRequest
  <2> QED
    BY <1>2, <2>1
<1> HIDE DEF y
<1>10. /\ f.cause = e.cause /\ f.pstate = e.pstate /\ f.modem = e.modem
       /\ f.local_pdp = e.local_pdp /\ f.needs_response = {} /\ f.asked = e.asked
       /\ f.not_interested = {} /\ f.pending = e.pending
       /\ f.out = <<x>> /\ x \in Message /\ x.dest = y /\ x.type \in Responses
       /\ Proper(x, b) /\ x.type \notin Final
       /\ \A d \in Dests \ {y} : d \in f.peer_pdp <=> d \in e.peer_pdp
       /\ IF x.status = "Not_Interested"
          THEN y \notin f.peer_pdp /\ m.type = "Destination_Up" /\ Refusals
          ELSE y \in f.peer_pdp <=> m.type = "Destination_Up"
  BY <1>9 DEF Answers, y, b
<1>11. /\ AllProper(f.out, b) /\ ~Ends(f.out) /\ ~Quiet(f.out, y, Responses)
       /\ \A d \in Dests \ {y} : Quiet(f.out, d, Responses)
  <2>1. /\ AllProper(<<x>>, b) /\ ~Ends(<<x>>)
        /\ \A q, T : Quiet(<<x>>, q, T) <=> ~About(x, q, T)
    BY <1>10, OneMessage
  <2>2. \A q : About(x, q, Responses) <=> q = y
    BY <1>10 DEF About
  <2> QED
    BY <1>10, <2>1, <2>2
<1>12. f.modem = FALSE /\ (~f.modem) = b
  BY <1>3, <1>10 DEF b
<1>13. Live(f) /\ Tidy(f)
  BY <1>1, <1>2, <1>3, <1>5, <1>10 DEF Tidy, Live, Handshaking
<1>14. Serves(n, f, rest)
  <2>1. ASSUME NEW q \in Queues PROVE ServesQueue(n, f, rest, q)
    <3>1. ~About(m, q, Responses) /\ f.pending[q] = e.pending[q]
      BY <1>6, <1>10 DEF About
    <3>2. About(m, q, Requests) => ~Quiet(f.out, q, Responses)
      BY <1>11 DEF About, y
    <3> QED
      BY <1>1, <1>2, <3>1, <3>2, ServesSame DEF rest, s, e
  <2> QED
    BY <2>1 DEF Serves
<1>15. Sound(rest, f.peer_pdp)
  <2>1. ~About(m, y, Requests) <=> FALSE
    BY <1>6 DEF About, y
  <2>2. \A d \in Dests : ~About(m, d, Requests) => (d \in f.peer_pdp <=> d \in e.peer_pdp)
    BY <1>10, <2>1
  <2> QED
    BY <1>1, <1>2, <1>7, <2>2, SoundRead DEF rest
<1>16. ASSUME link, ep["modem"].pstate = "in_session", NEW d \in Dests
       PROVE  MirrorOf(ep["modem"], f.peer_pdp, stream["modem"] \o f.out, d)
  <2> DEFINE M == ep["modem"]
             V == ep["router"].peer_pdp
             W == f.peer_pdp
             t == stream["modem"]
             o == f.out
  <2>1. MirrorOf(M, V, t, d) /\ t \in Seq(Message) /\ V = e.peer_pdp
    BY <1>3, <1>16, NodeFacts DEF StableInv, Mirror, SessionInv, EndpointsOK, e
  <2>2. o \in Seq(Message)
    BY <1>10
  <2>3. CASE d # y
    <3>1. (d \in W <=> d \in V) /\ Quiet(o, d, Responses)
      BY <1>10, <1>11, <2>1, <2>3
    <3> HIDE DEF M, V, W, t, o
    <3>2. MirrorOf(M, W, t \o o, d)
      BY <2>1, <2>2, <3>1, MirrorKeep
    <3> QED
      BY <3>2 DEF M, W, t, o
  <2>4. CASE d = y
    <3> DEFINE p == M.pending[d]
               L == d \in M.local_pdp
               NI == d \in M.not_interested
               A == d \in V
               B == d \in W
    <3>1. Flight("modem", d)
      BY <1>16 DEF FlightInv, Node, Queues
    <3>2. /\ Only(s, d, Requests, Expected(p))
          /\ Quiet(s, d, Requests) \/ Quiet(t, d, Responses)
      BY <1>3, <3>1 DEF Flight, FlightAt, Other, s
    <3>3. 1 \in DOMAIN s /\ s[1] = m /\ About(s[1], d, Requests)
      BY <1>1, <1>2, <1>6, <2>4 DEF About, y
    <3>4. m.type \in Expected(p) /\ Quiet(t, d, Responses)
      BY <3>2, <3>3 DEF Only, Quiet
    <3>5. p \in Seq(Entry) /\ p # <<>> /\ p[1].type = m.type
      <4>1. p \in Seq(Entry)
        BY NodeFacts DEF SessionInv, EndpointsOK, WellFormed, Endpoint, Queues, Node
      <4>2. p # <<>> /\ m.type = Head(p).type
        BY <3>4 DEF Expected
      <4> HIDE DEF p
      <4> QED
        BY <4>1, <4>2
    <3>6. Refusals => Len(p) = 1
      <4>1. Refusals => Len(p) <= 1
        BY <1>16 DEF StableInv, Node, Tidy, Live
      <4> HIDE DEF p
      <4>2. Len(p) \in Nat /\ Len(p) # 0
        BY <3>5
      <4>3. \A k \in Nat : k # 0 /\ k <= 1 => k = 1
        OBVIOUS
      <4> QED
        BY <4>1, <4>2, <4>3, Zenon
    <3>7. MirrorAt(p, L, NI, A, t, d) /\ A \in BOOLEAN /\ About(x, d, Responses)
      BY <1>10, <2>1, <2>4 DEF MirrorOf, About
    <3>8. IF x.status = "Not_Interested"
          THEN ~B /\ p[1].type = "Destination_Up" /\ Len(p) = 1
          ELSE B <=> p[1].type = "Destination_Up"
      BY <1>10, <2>4, <3>5, <3>6 DEF y
    <3> HIDE DEF p, L, NI, A, B, t
    <3>9. MirrorAt(p, L, NI, B, t \o <<x>>, d)
      BY <1>10, <2>1, <3>4, <3>5, <3>7, <3>8, MirrorAnswer
    <3> QED
      BY <1>10, <3>9 DEF MirrorOf, p, L, NI, B, t
  <2> QED
    BY <2>3, <2>4
<1>17. Rest(n, rest) /\ Live(ep[n]) /\ f.modem = ep[n].modem
  BY <1>2, <1>10 DEF Rest, rest, s, e
<1>18. AllProper(f.out, ~f.modem) /\ ~Ends(f.out)
  BY <1>11, <1>12
<1> QED
  BY <1>2, <1>12, <1>13, <1>14, <1>15, <1>16, <1>17, <1>18, StableCommit

\* Reading in a session.
LEMMA StableReceiveLive ==
  ASSUME Benign, SessionInv, CalmInv, FlightInv, StableInv, NEW n \in Node, Live(ep[n]),
         Receive(n)
  PROVE  StableInv'
<1>1. PICK m, c, f : Hears(n, m, c, f)
  BY HearsRead
<1>2. m.type \in Heard(ep[n].modem) \cup Final
  BY <1>1 DEF Hears, Proper
<1>3. m.type \in Final \cup {"Session_Update", "Session_Update_Response", "Heartbeat",
        "Session_Initialization", "Destination_Up_Response", "Destination_Down_Response",
        "Session_Initialization_Response", "Destination_Up", "Destination_Down"}
  BY <1>2 DEF Heard
<1> QED
  BY <1>1, <1>3, HearsFinal, HearsChat, HearsInitialization, HearsInitializationResponse,
     HearsResponse, HearsDestination

\* What a process that is benign does not do.
LEMMA BenignNames ==
  ASSUME Benign, NEW n \in Node
  PROVE  /\ "late" \notin Env /\ "silent" \notin Env /\ "suppress" \notin Env
         /\ "early_calls" \notin Env /\ "overdue_at_stop" \notin Env
         /\ "vanish" \notin Env /\ Orderly
         /\ "destination_update" \notin ClientOps[n]
         /\ "linkchar_request" \notin ClientOps[n]
         /\ "linkchar_reply" \notin ClientOps[n]
<1>1. /\ "late" \notin Env /\ "silent" \notin Env /\ "suppress" \notin Env
      /\ "early_calls" \notin Env /\ "overdue_at_stop" \notin Env
      /\ "vanish" \notin Env
  BY DEF Benign
<1>2. n = "modem" \/ n = "router"
  BY DEF Node
<1>3. /\ "destination_update" \notin ClientOps[n]
      /\ "linkchar_request" \notin ClientOps[n]
      /\ "linkchar_reply" \notin ClientOps[n]
  BY <1>2 DEF Benign
<1> QED
  BY <1>1, <1>3 DEF Orderly

\* A step of a node that is not in a session, and does not become so.
LEMMA StableOver ==
  ASSUME SessionInv, CalmInv, StableInv, NEW n \in Node, ~Live(ep[n]), [Next]_vars,
         Orderly,
         NEW f, WellFormed(f), NEW rest \in Seq(Message), Commit(n, f, rest),
         rest = stream[n] \/ (stream[n] # <<>> /\ rest = Tail(stream[n])),
         f.cause = ep[n].cause, ~ep[n].modem => f.local_pdp = ep[n].local_pdp,
         ep[n].pstate = "nonexistent" => f.pstate = "nonexistent"
  PROVE  StableInv'
<1>1. /\ EndpointsOK /\ WellFormed(ep[n]) /\ Tidy(ep[n]) /\ link \in BOOLEAN
      /\ link => Live(ep[n]) /\ ep[n].modem = (n = "modem")
      /\ ep[n].modem = (n = "modem")
  BY StableNode
<1>2. ep[n].pstate \in {"nonexistent", "terminating"}
  BY <1>1 DEF WellFormed, Endpoint, PeerStates, Live
<1>3. SameData(f, ep'[n])
  BY <1>1, CommitFrame
<1>4. f.modem = ep[n].modem
  <2>1. SessionInv'
    BY InvNext
  <2>2. ep'[n].modem = (n = "modem")
    BY <2>1 DEF SessionInv, EndpointsOK
  <2> QED
    BY <1>1, <1>3, <2>2 DEF SameData
<1>5. ~Live(f)
  <2>1. ep[n].pstate = "terminating" => f.pstate \in {"terminating", "nonexistent"}
    BY <1>3, FinalNext DEF Finality, SameData
  <2> QED
    BY <1>2, <2>1 DEF Live
<1>6. f.cause = "none" /\ (~f.modem => f.local_pdp = {})
  BY <1>1, <1>4 DEF Tidy
<1> QED
  BY <1>1, <1>4, <1>5, <1>6, StableQuit

\* The handler of a timer, in a session or not.
LEMMA StableStill ==
  ASSUME Benign, SessionInv, CalmInv, FlightInv, StableInv, NEW n \in Node, [Next]_vars,
         NEW f, WellFormed(f), SameData(ep[n], f), f.pending = ep[n].pending,
         f.out = <<>> \/ f.out = <<Msg("Heartbeat", Session, "none")>>,
         Commit(n, f, stream[n])
  PROVE  StableInv'
<1>1. CASE Live(ep[n])
  BY <1>1, StableBeat
<1>2. CASE ~Live(ep[n])
  <2>1. /\ f.cause = ep[n].cause /\ f.local_pdp = ep[n].local_pdp
        /\ f.pstate = ep[n].pstate
    BY DEF SameData
  <2>2. Orderly /\ stream[n] \in Seq(Message)
    BY BenignNames, StableNode
  <2> QED
    BY <1>2, <2>1, <2>2, StableOver
<1> QED
  BY <1>1, <1>2

\* A heartbeat, also of a peer that has been stopped.
LEMMA StableHeartbeat ==
  ASSUME Benign, SessionInv, CalmInv, FlightInv, StableInv, NEW n \in Node, [Next]_vars,
         Commit(n, handle_heartbeat_timeout(ep[n]), stream[n])
  PROVE  StableInv'
<1> DEFINE e == ep[n]
           f == handle_heartbeat_timeout(e)
           g == Armed(e)
           m == Msg("Heartbeat", Session, "none")
<1>1. WellFormed(e) /\ e.out = <<>>
  BY StableNode
<1>2. WellFormed(f)
  BY <1>1, HandleHeartbeatTimeout
<1>3. f \in {g, send_session_message(g, m)}
  BY ZenonT(60) DEF handle_heartbeat_timeout, Armed
<1>4. WellFormed(g) /\ SameData(e, g) /\ g.pending = e.pending /\ g.out = <<>>
  BY <1>1, ArmedSame DEF SameData
<1> HIDE DEF g, e, m
<1>5. LET h == send_session_message(g, m)
      IN  SameData(e, h) /\ h.pending = e.pending /\ (h.out = <<>> \/ h.out = <<m>>)
  BY <1>4 DEF send_session_message, SameData, WellFormed, Endpoint
<1>6. /\ SameData(e, f) /\ f.pending = e.pending /\ (f.out = <<>> \/ f.out = <<m>>)
  BY <1>3, <1>4, <1>5
<1> HIDE DEF f
<1> QED
  BY <1>2, <1>6, StableStill, ZenonT(60) DEF e, f, m

\* The handler of a cancelled timer that finds nothing to do.
LEMMA StableAfterStop ==
  ASSUME Benign, SessionInv, CalmInv, FlightInv, StableInv, NEW n \in Node, [Next]_vars,
         InMap(ep[n]), Commit(n, acktivity_after_stop(ep[n]), stream[n])
  PROVE  StableInv'
<1> DEFINE f == acktivity_after_stop(ep[n])
<1>1. WellFormed(ep[n]) /\ ep[n].out = <<>>
  BY StableNode
<1>2. /\ WellFormed(f) /\ f.pending = ep[n].pending /\ f.out = <<>>
      /\ SameData(ep[n], f)
  BY <1>1, AcktivityAfterStop DEF SameData, InMap
<1> HIDE DEF f
<1> QED
  BY <1>2, StableStill, ZenonT(60) DEF f

\* Reading what is left after a session.
LEMMA StableReceive ==
  ASSUME Benign, SessionInv, CalmInv, FlightInv, StableInv, NEW n \in Node, Receive(n)
  PROVE  StableInv'
<1>1. CASE Live(ep[n])
  BY <1>1, StableReceiveLive
<1>2. CASE ~Live(ep[n])
  <2> DEFINE e == ep[n]
             s == stream[n]
             m == Head(s)
  <2>1. /\ WellFormed(e) /\ s \in Seq(Message)
    BY StableNode
  <2>2. PICK c \in HandlerInputs : Commit(n, handle_session_receive(e, m, c), Tail(s))
    BY DEF Receive
  <2>3. s # <<>> /\ InMap(e)
    BY DEF Receive
  <2>4. e.pstate = "terminating"
    BY <1>2, <2>1, <2>3 DEF WellFormed, Endpoint, PeerStates, Live, InMap
  <2>5. m \in Message /\ Tail(s) \in Seq(Message)
    BY <2>1, <2>3
  <2>6. c \in Inputs
    BY ClientAssumption DEF HandlerInputs, Inputs, FaultFree
  <2> DEFINE f == handle_session_receive(e, m, c)
  <2> HIDE DEF e, s, m
  <2>7. WellFormed(f)
    BY <2>1, <2>5, <2>6, HandleSessionReceive DEF Handled
  <2>8. f.local_pdp = e.local_pdp /\ f.cause = e.cause
    BY <2>1, <2>4, <2>5, <2>6, StaysReceive
  <2>9. [Next]_vars
    BY DEF Next
  <2> HIDE DEF f
  <2>10. Commit(n, f, Tail(s))
    BY <2>2 DEF f
  <2> QED
    BY <1>2, <2>3, <2>4, <2>5, <2>7, <2>8, <2>9, <2>10, BenignNames, StableOver DEF e, s
<1> QED
  BY <1>1, <1>2

\* What start_peer does.
LEMMA StartsPeer ==
  ASSUME NEW e, WellFormed(e), e.out = <<>>, e.pstate = "connecting",
         e.pending[Session] = <<>>, e.modem \in BOOLEAN
  PROVE  LET f == start_peer(e)
             x == "Session_Initialization"
         IN  /\ WellFormed(f) /\ f.cause = e.cause /\ f.pstate = "connected"
             /\ f.modem = e.modem /\ f.local_pdp = e.local_pdp /\ f.peer_pdp = e.peer_pdp
             /\ f.needs_response = e.needs_response /\ f.asked = e.asked
             /\ f.not_interested = e.not_interested
             /\ \A d \in Dests : f.pending[d] = e.pending[d]
             /\ e.modem => f.out = <<>> /\ f.pending[Session] = <<>>
             /\ ~e.modem => /\ f.out = <<Msg(x, Session, "none")>>
                            /\ Grown(<<>>, f.pending[Session], x)
<1> DEFINE f == start_peer(e)
           x == "Session_Initialization"
           g == [e EXCEPT !.pstate = "connected", !.acktivity = TRUE]
<1>1. WellFormed(f)
  BY StartPeer
<1>2. /\ WellFormed(g) /\ g.pending = e.pending /\ g.out = e.out /\ g.cause = e.cause
      /\ g.modem = e.modem /\ g.local_pdp = e.local_pdp /\ g.peer_pdp = e.peer_pdp
      /\ g.needs_response = e.needs_response /\ g.asked = e.asked
      /\ g.not_interested = e.not_interested /\ g.pstate = "connected"
  BY DEF WellFormed, Endpoint, PeerStates
<1>3. Session \in Queues /\ Session \notin g.not_interested /\ x \in Requests
  BY <1>2, DestsAssumption, RequestNames DEF Queues, WellFormed, Endpoint
<1>4. IF e.modem THEN f = g ELSE f = send_message_expecting_response(g, Session, x)
  BY DEF start_peer
<1> HIDE DEF f, g, x
<1>5. CASE e.modem = TRUE
  <2>1. f = g
    BY <1>4, <1>5
  <2>2. /\ f.pending[Session] = <<>> /\ f.out = <<>>
        /\ \A d \in Dests : f.pending[d] = e.pending[d]
    BY <1>2, <2>1
  <2> QED
    BY <1>1, <1>2, <1>5, <2>1, <2>2 DEF f
<1>6. CASE e.modem = FALSE
  <2>1. f = send_message_expecting_response(g, Session, x)
    BY <1>4, <1>6
  <2>2. /\ SameData(g, f) /\ Grown(g.pending[Session], f.pending[Session], x)
        /\ \A q \in Queues \ {Session} : f.pending[q] = g.pending[q]
        /\ f.out = IF g.pending[Session] = <<>>
                   THEN Append(g.out, Msg(x, Session, "none")) ELSE g.out
    <3>1. LET h == send_message_expecting_response(g, Session, x)
          IN  /\ SameData(g, h) /\ Grown(g.pending[Session], h.pending[Session], x)
              /\ \A q \in Queues \ {Session} : h.pending[q] = g.pending[q]
              /\ h.out = IF g.pending[Session] = <<>>
                         THEN Append(g.out, Msg(x, Session, "none")) ELSE g.out
      BY <1>2, <1>3, Pushes, Zenon
    <3> QED
      BY <2>1, <3>1
  <2>3. f.out = <<Msg(x, Session, "none")>> /\ Grown(<<>>, f.pending[Session], x)
    BY <1>2, <2>2
  <2>4. \A d \in Dests : f.pending[d] = e.pending[d]
    BY <1>2, <2>2, DestsAssumption DEF Queues
  <2> QED
    BY <1>1, <1>2, <1>6, <2>2, <2>3, <2>4 DEF SameData, f, x
<1> QED
  BY <1>5, <1>6

\* The TCP connection completes on one side.
LEMMA StableMakePeer ==
  ASSUME SessionInv, CalmInv, FlightInv, StableInv, NEW n \in Node, MakePeer(n)
  PROVE  StableInv'
<1> DEFINE e == ep[n]
           s == stream[n]
           f == start_peer(e)
           t == "Session_Initialization"
           r == f.pending[Session]
           o == f.out
           b == ~e.modem
<1>1. /\ WellFormed(e) /\ s \in Seq(Message) /\ Tidy(e) /\ e.out = <<>>
      /\ e.modem \in BOOLEAN /\ e.modem = (n = "modem") /\ link \in BOOLEAN
  BY StableNode
<1>2. e.pstate = "connecting" /\ Commit(n, f, s) /\ Live(e)
  BY DEF MakePeer, Live
<1>3. e.pending[Session] = <<>>
  BY <1>2 DEF CalmInv, EndpointCalm
<1>4. Matched(n)
  BY <1>2, MatchedNow
<1>5. e.modem = FALSE => Sound(s, e.peer_pdp)
  <2>1. e.modem = FALSE => n = "router"
    BY <1>1 DEF Node
  <2> QED
    BY <1>2, <2>1, SoundNow
<1> HIDE DEF e, s, b
<1>6. /\ WellFormed(f) /\ f.cause = e.cause /\ f.pstate = "connected"
      /\ f.modem = e.modem /\ f.local_pdp = e.local_pdp /\ f.peer_pdp = e.peer_pdp
      /\ f.needs_response = e.needs_response /\ f.asked = e.asked
      /\ f.not_interested = e.not_interested
      /\ \A d \in Dests : f.pending[d] = e.pending[d]
      /\ e.modem => o = <<>> /\ r = <<>>
      /\ ~e.modem => o = <<Msg(t, Session, "none")>> /\ Grown(<<>>, r, t)
  BY <1>1, <1>2, <1>3, StartsPeer, ZenonT(60)
<1> HIDE DEF f, t, r, o
<1>7. r \in Seq(Entry) /\ o \in Seq(Message) /\ e.not_interested \subseteq Dests
  BY <1>1, <1>6 DEF WellFormed, Endpoint, Queues, r, o
<1>8. e.modem = FALSE => t \in Heard(b) /\ t \in Requests /\ t \notin Responses
  <2>1. t \in Heard(TRUE) /\ t \in Requests /\ t \notin Responses
    BY HeardNames, RequestNames DEF t
  <2> QED
    BY <2>1 DEF b
<1>9. /\ AllProper(o, b) /\ ~Ends(o) /\ \A x : Quiet(o, x, Responses)
      /\ \A i \in DOMAIN r : r[i].type \in Heard(b)
      /\ r # <<>> => ~Quiet(o, Session, Requests)
  <2>1. CASE e.modem = TRUE
    <3>1. o = <<>> /\ r = <<>>
      BY <1>6, <2>1
    <3>2. AllProper(<<>>, b) /\ ~Ends(<<>>) /\ \A x : Quiet(<<>>, x, Responses)
      BY OneMessage
    <3>3. DOMAIN <<>> = {}
      OBVIOUS
    <3> QED
      BY <3>1, <3>2, <3>3
  <2>2. CASE e.modem = FALSE
    <3>1. o = <<Msg(t, Session, "none")>> /\ Grown(<<>>, r, t) /\ t \in Heard(b)
      BY <1>6, <1>8, <2>2
    <3>2. /\ AllProper(o, b) /\ ~Ends(o)
          /\ \A x, T : x # Session \/ t \notin T => Quiet(o, x, T)
          /\ \A T : o # <<>> /\ t \in T => ~Quiet(o, Session, T)
      BY <3>1, OneOut
    <3>3. \A i \in DOMAIN r : r[i].type \in Heard(b)
      BY <1>7, <3>1 DEF Grown
    <3>4. o # <<>>
      BY <3>1
    <3> QED
      BY <1>8, <2>2, <3>2, <3>3, <3>4
  <2> QED
    BY <1>1, <2>1, <2>2
<1>10. b = ~f.modem /\ Live(f) /\ f.modem = ep[n].modem
  BY <1>6 DEF b, Live, e
<1>11. Tidy(f)
  <2>1. \A q \in Queues : \A i \in DOMAIN f.pending[q] : f.pending[q][i].type \in Heard(b)
    <3>1. \A d \in Dests : \A i \in DOMAIN f.pending[d] : f.pending[d][i].type \in Heard(b)
      BY <1>1, <1>2, <1>6 DEF Tidy, b, Queues
    <3> QED
      BY <1>9, <3>1 DEF Queues, r
  <2>2. \A d \in f.not_interested : f.pending[d] = <<>>
    BY <1>1, <1>2, <1>6, <1>7 DEF Tidy
  <2> QED
    BY <1>1, <1>2, <1>6, <1>10, <2>1, <2>2 DEF Tidy, Live, Handshaking
<1>12. Serves(n, f, s)
  <2>1. ServesQueue(n, f, s, Session)
    BY <1>9 DEF ServesQueue, s, r, o
  <2>2. ASSUME NEW d \in Dests PROVE ServesQueue(n, f, s, d)
    BY <1>1, <1>6, ServesSame DEF s, e
  <2> QED
    BY <2>1, <2>2 DEF Serves, Queues
<1>13. \A q \in Queues : Only(s, q, Responses, Awaited(f.pending[q]))
  <2>1. \A q \in Queues : Only(s, q, Responses, Awaited(e.pending[q]))
    BY <1>4 DEF Matched, s, e
  <2>2. Awaited(<<>>) = {}
    BY DEF Awaited, Expected
  <2>3. Only(s, Session, Responses, {})
    BY <1>3, <2>1, <2>2 DEF Queues
  <2>4. Quiet(s, Session, Responses)
    BY <1>1, <2>3, OnlyFacts
  <2>5. \A X : Only(s, Session, Responses, X)
    BY <2>4 DEF Only, Quiet
  <2> QED
    BY <1>6, <2>1, <2>5 DEF Queues
<1>14. f.modem = FALSE => Sound(s, f.peer_pdp)
  BY <1>5, <1>6
<1>15. ASSUME link, f.modem = FALSE, ep["modem"].pstate = "in_session", NEW d \in Dests
       PROVE  MirrorOf(ep["modem"], f.peer_pdp, stream["modem"] \o o, d)
  <2> DEFINE M == ep["modem"]
             V == ep["router"].peer_pdp
             u == stream["modem"]
  <2>0. n = "router"
    BY <1>1, <1>6, <1>15 DEF Node
  <2>1. MirrorOf(M, V, u, d) /\ u \in Seq(Message) /\ f.peer_pdp = V
    BY <1>6, <1>15, <2>0, NodeFacts DEF StableInv, Mirror, SessionInv, EndpointsOK, e
  <2>2. Quiet(o, d, Responses)
    BY <1>9
  <2> HIDE DEF M, V, u
  <2>3. MirrorOf(M, V, u \o o, d)
    BY <1>7, <2>1, <2>2, MirrorKeep
  <2> QED
    BY <2>1, <2>3 DEF M, u
<1>16. Rest(n, s) /\ Live(ep[n]) /\ f.modem \in BOOLEAN
  BY <1>1, <1>2, <1>6 DEF Rest, s, e
<1>17. AllProper(f.out, ~f.modem) /\ ~Ends(f.out)
  BY <1>9, <1>10 DEF o
<1>18. ~f.modem => f.modem = FALSE
  BY <1>16
<1> QED
  BY <1>1, <1>2, <1>6, <1>10, <1>11, <1>12, <1>13, <1>14, <1>15, <1>16, <1>17, <1>18,
     StableCommit DEF o

\* The modem e becomes g when its client brings d up, or takes it down, with a
\* request of type t.
Turned(e, g, d, t) ==
  /\ WellFormed(g) /\ g.cause = e.cause /\ g.pstate = e.pstate /\ g.modem = e.modem
  /\ g.peer_pdp = e.peer_pdp /\ g.needs_response = e.needs_response /\ g.asked = e.asked
  /\ g.not_interested = e.not_interested /\ g.pending = e.pending /\ g.out = e.out
  /\ \A x \in Dests \ {d} : x \in g.local_pdp <=> x \in e.local_pdp
  /\ t \in {"Destination_Up", "Destination_Down"}
  /\ d \in g.local_pdp <=> t = "Destination_Up"
  /\ d \in e.local_pdp <=> t = "Destination_Down"

\* The peer is told nothing: there is no session yet, or it has refused d.
LEMMA StableUntold ==
  ASSUME SessionInv, CalmInv, FlightInv, StableInv, NEW n \in Node, Live(ep[n]),
         ep[n].modem = TRUE, NEW d \in Dests, NEW t, NEW g, Turned(ep[n], g, d, t),
         Commit(n, g, stream[n]),
         ep[n].pstate = "connecting" \/ d \in ep[n].not_interested
  PROVE  StableInv'
<1> DEFINE e == ep[n]
           s == stream[n]
           o == g.out
           b == ~g.modem
<1>1. /\ WellFormed(e) /\ s \in Seq(Message) /\ Tidy(e) /\ e.out = <<>>
      /\ e.modem = (n = "modem") /\ link \in BOOLEAN
  BY StableNode
<1>2. Matched(n) /\ n = "modem"
  BY <1>1, MatchedNow
<1>3. /\ WellFormed(g) /\ g.cause = e.cause /\ g.pstate = e.pstate /\ g.modem = e.modem
      /\ g.peer_pdp = e.peer_pdp /\ g.needs_response = e.needs_response /\ g.asked = e.asked
      /\ g.not_interested = e.not_interested /\ g.pending = e.pending /\ g.out = e.out
      /\ \A x \in Dests \ {d} : x \in g.local_pdp <=> x \in e.local_pdp
  BY DEF Turned
<1>4. Live(g) /\ Tidy(g)
  BY <1>1, <1>3 DEF Tidy, Live, Handshaking
<1>5. AllProper(o, b) /\ ~Ends(o)
  <2> HIDE DEF b
  <2>1. o = <<>>
    BY <1>1, <1>3
  <2> QED
    BY <2>1, OneMessage
<1>6. Serves(n, g, s)
  BY <1>1, <1>3, ServesSame DEF Serves
<1>7. \A q \in Queues : Only(s, q, Responses, Awaited(g.pending[q]))
  BY <1>2, <1>3 DEF Matched
<1>8. ASSUME link, g.pstate = "in_session", NEW x \in Dests
      PROVE  MirrorOf(g, ep["router"].peer_pdp, s, x)
  <2> DEFINE V == ep["router"].peer_pdp
  <2>1. MirrorOf(e, V, s, x)
    BY <1>2, <1>3, <1>8 DEF StableInv, Mirror
  <2> HIDE DEF V, e, s
  <2>2. CASE x # d
    <3>1. /\ g.pending[x] = e.pending[x] /\ (x \in g.local_pdp <=> x \in e.local_pdp)
          /\ x \in g.not_interested <=> x \in e.not_interested
      BY <1>3, <2>2
    <3>2. MirrorOf(g, V, s, x)
      BY <1>1, <2>1, <3>1, MirrorKeep
    <3> QED
      BY <3>2 DEF V
  <2>3. CASE x = d
    <3> DEFINE p == e.pending[d]
               L == d \in e.local_pdp
               K == d \in g.local_pdp
               NI == d \in e.not_interested
               W == d \in V
    <3>1. MirrorAt(p, L, NI, W, s, d) /\ NI
      BY <1>3, <1>8, <2>1, <2>3 DEF MirrorOf, e
    <3> HIDE DEF p, L, K, NI, W
    <3>2. MirrorAt(p, K, NI, W, s, d)
      BY <3>1, MirrorRefused
    <3> QED
      BY <1>3, <2>3, <3>2 DEF MirrorOf, p, K, NI, W, V
  <2> QED
    BY <2>2, <2>3
<1>9. Rest(n, s) /\ g.modem = TRUE
  BY <1>3 DEF Rest
<1> QED
  BY <1>1, <1>3, <1>4, <1>5, <1>6, <1>7, <1>8, <1>9, StableCommit

\* The request joins the queue of d.
LEMMA StableTold ==
  ASSUME Benign, SessionInv, CalmInv, FlightInv, StableInv, NEW n \in Node,
         ep[n].pstate = "in_session", ep[n].modem = TRUE, NEW d \in Dests, NEW t,
         NEW g, Turned(ep[n], g, d, t), d \notin ep[n].not_interested,
         Len(ep[n].pending[d]) < MaxQueue, NEW f,
         f = send_message_expecting_response(g, d, t), Commit(n, f, stream[n])
  PROVE  StableInv'
<1> DEFINE e == ep[n]
           s == stream[n]
           o == f.out
           b == ~f.modem
           p == e.pending[d]
           r == f.pending[d]
           m == Msg(t, d, "none")
<1>1. /\ WellFormed(e) /\ s \in Seq(Message) /\ Tidy(e) /\ e.out = <<>>
      /\ e.modem = (n = "modem") /\ link \in BOOLEAN /\ StreamStable(n) /\ Live(e)
  <2>1. Live(e)
    BY DEF Live
  <2> QED
    BY <2>1, StableNode
<1>2. Matched(n) /\ n = "modem"
  BY <1>1, MatchedNow
<1>3. /\ WellFormed(g) /\ g.cause = e.cause /\ g.pstate = e.pstate /\ g.modem = e.modem
      /\ g.peer_pdp = e.peer_pdp /\ g.needs_response = e.needs_response /\ g.asked = e.asked
      /\ g.not_interested = e.not_interested /\ g.pending = e.pending /\ g.out = e.out
      /\ \A x \in Dests \ {d} : x \in g.local_pdp <=> x \in e.local_pdp
      /\ t \in {"Destination_Up", "Destination_Down"}
      /\ d \in g.local_pdp <=> t = "Destination_Up"
      /\ d \in e.local_pdp <=> t = "Destination_Down"
  BY DEF Turned
<1>4. /\ d \in Queues /\ d # Session /\ d \notin g.not_interested
      /\ t \in Requests /\ t \notin Responses /\ t \in DestinationTypes
      /\ t \in Heard(FALSE)
  BY <1>3, DestsAssumption, RequestNames, HeardNames DEF Queues, DestinationTypes
<1>5. WellFormed(f)
  BY <1>3, <1>4, SendExpectingResponse
<1>6. /\ SameData(g, f) /\ Grown(p, r, t)
      /\ \A q \in Queues \ {d} : f.pending[q] = e.pending[q]
      /\ o = IF p = <<>> THEN <<m>> ELSE <<>>
  <2>1. LET h == send_message_expecting_response(g, d, t)
        IN  /\ SameData(g, h) /\ Grown(g.pending[d], h.pending[d], t)
            /\ \A q \in Queues \ {d} : h.pending[q] = g.pending[q]
            /\ h.out = IF g.pending[d] = <<>>
                       THEN Append(g.out, Msg(t, d, "none")) ELSE g.out
    BY <1>3, <1>4, Pushes, Zenon
  <2> QED
    BY <1>1, <1>3, <2>1
<1>7. Keeps(e, f)
  <2>1. Keeps(e, g)
    BY <1>1, <1>3, KeepsSame
  <2> HIDE DEF e
  <2> QED
    BY <1>3, <1>4, <2>1, KeptRequest DEF Keeps
<1>8. /\ f.cause = e.cause /\ f.pstate = "in_session" /\ f.modem = TRUE
      /\ f.peer_pdp = e.peer_pdp /\ f.needs_response = e.needs_response /\ f.asked = e.asked
      /\ f.not_interested = e.not_interested /\ f.local_pdp = g.local_pdp
  BY <1>3, <1>6 DEF SameData
<1>9. /\ p \in Seq(Entry) /\ r \in Seq(Entry) /\ e.not_interested \subseteq Dests
      /\ \A i \in DOMAIN p : p[i].type \in Heard(~e.modem)
  BY <1>1, <1>4, <1>5 DEF WellFormed, Endpoint, Tidy
<1>10. b = FALSE /\ (~e.modem) = FALSE
  BY <1>8
<1>11. Refusals => p = <<>>
  <2>1. Refusals => MaxQueue <= 1
    BY DEF Benign, Refusals
  <2>2. Len(p) < MaxQueue /\ MaxQueue \in Nat
    BY BoundsAssumption
  <2> HIDE DEF p
  <2>3. ASSUME MaxQueue <= 1 PROVE p = <<>>
    BY <1>9, <2>2, <2>3
  <2> QED
    BY <2>1, <2>3
<1> HIDE DEF e, s, o, b, p, r, m
<1>12. r # <<>> /\ \A i \in DOMAIN r : r[i].type \in Heard(b)
  BY <1>4, <1>6, <1>9, <1>10, QueueTypes
<1>13. /\ AllProper(o, b) /\ ~Ends(o) /\ \A x : Quiet(o, x, Responses)
       /\ p = <<>> => ~Quiet(o, d, Requests)
  <2>1. CASE p = <<>>
    <3>1. o = <<Msg(t, d, "none")>> /\ t \in Heard(b)
      BY <1>4, <1>6, <1>10, <2>1 DEF m
    <3>2. /\ AllProper(o, b) /\ ~Ends(o)
          /\ \A x, T : x # d \/ t \notin T => Quiet(o, x, T)
          /\ \A T : o # <<>> /\ t \in T => ~Quiet(o, d, T)
      <4> DEFINE v == "none"
      <4>1. v \in {"none", "Success"} /\ o = <<Msg(t, d, v)>>
        BY <3>1
      <4> HIDE DEF v
      <4> QED
        BY <3>1, <4>1, OneOut, ZenonT(30)
    <3>3. o # <<>>
      BY <3>1
    <3> QED
      BY <1>4, <3>2, <3>3
  <2>2. CASE p # <<>>
    <3>1. o = <<>>
      BY <1>6, <2>2
    <3> QED
      BY <2>2, <3>1, OneMessage
  <2> QED
    BY <2>1, <2>2
<1>14. Live(f) /\ Tidy(f)
  <2>1. \A q \in Queues : \A i \in DOMAIN f.pending[q] : f.pending[q][i].type \in Heard(b)
    <3>1. \A q \in Queues \ {d} : \A i \in DOMAIN f.pending[q] :
            f.pending[q][i].type \in Heard(b)
      BY <1>1, <1>6, <1>10 DEF Tidy
    <3> QED
      BY <1>12, <3>1 DEF r
  <2>2. Refusals => \A x \in Dests : Len(f.pending[x]) <= 1
    <3>1. Refusals => \A x \in Dests \ {d} : Len(f.pending[x]) <= 1
      BY <1>1, <1>6 DEF Tidy, Queues
    <3>2. p = <<>> => Len(r) <= 1
      BY <1>6 DEF Grown
    <3>3. Refusals => Len(f.pending[d]) <= 1
      BY <1>11, <3>2 DEF r
    <3> QED
      BY <3>1, <3>3, Zenon
  <2>3. \A x \in f.not_interested : f.pending[x] = <<>>
    <3>1. \A x \in e.not_interested : x # d /\ x \in Queues /\ e.pending[x] = <<>>
      BY <1>1, <1>9 DEF Tidy, Queues, e
    <3> QED
      BY <1>6, <1>8, <3>1
  <2>4. b = ~f.modem /\ e.modem = TRUE /\ e.pstate = "in_session"
    BY DEF b, e
  <2> QED
    BY <1>1, <1>8, <2>1, <2>2, <2>3, <2>4 DEF Tidy, Live, Handshaking
<1>15. Serves(n, f, s)
  <2>1. ServesQueue(n, f, s, d)
    BY <1>13 DEF ServesQueue, s, o, p, e
  <2>2. ASSUME NEW q \in Queues \ {d} PROVE ServesQueue(n, f, s, q)
    BY <1>1, <1>6, ServesSame DEF s, e
  <2> QED
    BY <2>1, <2>2 DEF Serves
<1>16. \A q \in Queues : Only(s, q, Responses, Awaited(f.pending[q]))
  <2>1. \A q \in Queues : Only(s, q, Responses, Awaited(e.pending[q]))
    BY <1>2 DEF Matched, s, e
  <2> DEFINE D == [q \in Queues |-> Owed(e, q)]
  <2>2. Kept(e, f, {}, D, TRUE)
    BY <1>7 DEF Keeps
  <2> HIDE DEF D
  <2> QED
    BY <1>1, <2>1, <2>2, MatchedStep
<1>17. ASSUME link, NEW x \in Dests PROVE MirrorOf(f, ep["router"].peer_pdp, s, x)
  <2> DEFINE V == ep["router"].peer_pdp
  <2>1. MirrorOf(e, V, s, x)
    BY <1>2, <1>17 DEF StableInv, Mirror, e, s
  <2> HIDE DEF V
  <2>2. CASE x # d
    <3>1. /\ f.pending[x] = e.pending[x] /\ (x \in f.local_pdp <=> x \in e.local_pdp)
          /\ x \in f.not_interested <=> x \in e.not_interested
      BY <1>3, <1>6, <1>8, <2>2 DEF Queues
    <3>2. MirrorOf(f, V, s, x)
      BY <1>1, <2>1, <3>1, MirrorKeep
    <3> QED
      BY <3>2 DEF V
  <2>3. CASE x = d
    <3> DEFINE L == d \in e.local_pdp
               K == d \in f.local_pdp
               NI == d \in e.not_interested
               W == d \in V
    <3>1. MirrorAt(p, L, NI, W, s, d) /\ ~NI
      BY <1>8, <2>1, <2>3 DEF MirrorOf, e, p
    <3>2. t = (IF L THEN "Destination_Down" ELSE "Destination_Up") /\ (K <=> ~L)
      BY <1>3, <1>8
    <3>3. p = <<>> => Quiet(s, d, Responses)
      <4>1. Only(s, d, Responses, Awaited(p))
        BY <1>2, <1>4 DEF Matched, s, e, p
      <4>2. Awaited(<<>>) = {}
        BY DEF Awaited, Expected
      <4> QED
        BY <1>1, <4>1, <4>2, OnlyFacts
    <3>4. p # <<>> => \A i \in DOMAIN s : s[i].status # "Not_Interested"
      <4>1. \A i \in DOMAIN s : Proper(s[i], TRUE)
        BY <1>1 DEF StreamStable, AllProper, e, s
      <4> QED
        BY <1>11, <4>1 DEF Proper
    <3>5. W \in BOOLEAN /\ L \in BOOLEAN
      OBVIOUS
    <3> HIDE DEF L, K, NI, W
    <3>6. MirrorAt(r, K, NI, W, s, d)
      BY <1>6, <1>9, <3>1, <3>2, <3>3, <3>4, <3>5, MirrorPush
    <3> QED
      BY <1>8, <2>3, <3>6 DEF MirrorOf, r, K, NI, W, V
  <2> QED
    BY <2>2, <2>3
<1>18. Rest(n, s) /\ Live(ep[n]) /\ f.modem = ep[n].modem
  BY <1>1, <1>8 DEF Rest, s, e
<1>19. AllProper(f.out, ~f.modem) /\ ~Ends(f.out)
  BY <1>13 DEF o, b
<1>20. Commit(n, f, s)
  BY DEF s
<1> QED
  BY <1>1, <1>5, <1>8, <1>14, <1>15, <1>16, <1>17, <1>18, <1>19, <1>20, StableCommit

\* The calls about destinations do not end a session.
LEMMA CallsKeep ==
  ASSUME NEW e, WellFormed(e), NEW d \in Dests, e.pstate \in {"terminating", "nonexistent"}
  PROVE  /\ destination_up(e, d).cause = e.cause
         /\ destination_down(e, d).cause = e.cause /\ destination_down(e, d).pstate = e.pstate
<1> DEFINE h == [e EXCEPT !.needs_response = @ \ {d}]
           m == Msg("Destination_Announce_Response", d, "Success")
           t == DestinationUpType(e)
<1>1. d \in Queues /\ t \in Requests /\ "Destination_Down" \in Requests
  BY RequestNames DEF Queues, DestinationUpType
<1>2. \A q \in Requests : /\ send_message_expecting_response(e, d, q).cause = e.cause
                          /\ send_message_expecting_response(e, d, q).pstate = e.pstate
  <2> SUFFICES ASSUME NEW q \in Requests
               PROVE  LET f == send_message_expecting_response(e, d, q)
                      IN  f.cause = e.cause /\ f.pstate = e.pstate
    OBVIOUS
  <2>1. CASE d \in e.not_interested
    BY <2>1 DEF send_message_expecting_response
  <2>2. CASE d \notin e.not_interested
    <3>1. SameData(e, send_message_expecting_response(e, d, q))
      BY <1>1, <2>2, Pushes, Zenon
    <3> QED
      BY <3>1 DEF SameData
  <2> QED
    BY <2>1, <2>2
<1>3. send_session_message(h, m).cause = e.cause
  BY DEF send_session_message, WellFormed, Endpoint
<1>4. destination_up(e, d) \in {send_session_message(h, m), send_message_expecting_response(e, d, t)}
  BY ZenonT(60) DEF destination_up
<1>5. destination_up(e, d).cause = e.cause
  <2> HIDE DEF h, m, t
  <2> QED
    BY <1>1, <1>2, <1>3, <1>4
<1> QED
  BY <1>1, <1>2, <1>5 DEF destination_down

\* The modem's client brings a destination up.
LEMMA StableDestinationUp ==
  ASSUME Benign, SessionInv, CalmInv, FlightInv, StableInv, NEW n \in Node, NEW d \in Dests,
         ServiceDestinationUp(n, d)
  PROVE  StableInv'
<1> DEFINE e == ep[n]
           g == [e EXCEPT !.local_pdp = @ \cup {d}]
           t == "Destination_Up"
<1>1. /\ WellFormed(e) /\ Tidy(e) /\ e.modem = (n = "modem") /\ stream[n] \in Seq(Message)
  BY StableNode
<1>2. /\ "destination_up" \in ClientOps[n] /\ e.pstate # "connected"
      /\ d \notin e.local_pdp /\ Len(e.pending[d]) < MaxQueue
      /\ Commit(n, IF InMap(e) THEN destination_up(g, d) ELSE g, stream[n])
  <2>1. "early_calls" \notin Env
    BY DEF Benign
  <2>2. CallsDestination(n, "destination_up") /\ HasRoom(n, d)
    BY DEF ServiceDestinationUp
  <2>3. d \notin e.local_pdp /\ TellPeer(n, g, destination_up(g, d))
    BY DEF ServiceDestinationUp
  <2> QED
    BY <2>1, <2>2, <2>3 DEF CallsDestination, Calls, HasRoom, TellPeer
<1>3. n = "modem" /\ e.modem = TRUE
  <2>1. "destination_up" \notin ClientOps["router"]
    BY DEF Benign
  <2>2. n # "router"
    BY <1>2, <2>1
  <2>3. n = "modem"
    BY <2>2 DEF Node
  <2> QED
    BY <1>1, <2>3
<1>4. Turned(e, g, d, t)
  BY <1>1, <1>2 DEF Turned, WellFormed, Endpoint
<1>5. [Next]_vars
  BY DEF Next, ClientStep
<1> HIDE DEF g
<1>6. /\ WellFormed(g) /\ g.pstate = e.pstate /\ g.cause = e.cause /\ g.modem = e.modem
      /\ g.needs_response = e.needs_response /\ g.not_interested = e.not_interested
  BY <1>4 DEF Turned
<1>7. CASE e.pstate = "connecting"
  <2>1. Commit(n, g, stream[n]) /\ Live(e)
    BY <1>2, <1>7 DEF InMap, Live
  <2> QED
    BY <1>3, <1>4, <1>7, <2>1, StableUntold
<1>8. CASE e.pstate = "in_session"
  <2>1. Live(e) /\ e.needs_response = {}
    BY <1>1, <1>8 DEF Live, Tidy
  <2>2. destination_up(g, d) = send_message_expecting_response(g, d, t)
    BY <1>3, <1>6, <2>1 DEF destination_up, DestinationUpType
  <2>3. Commit(n, send_message_expecting_response(g, d, t), stream[n])
    BY <1>2, <1>8, <2>2 DEF InMap
  <2>4. CASE d \in e.not_interested
    <3>1. send_message_expecting_response(g, d, t) = g
      BY <1>6, <2>4 DEF send_message_expecting_response
    <3>2. Commit(n, g, stream[n])
      BY <2>3, <3>1
    <3> QED
      BY <1>3, <1>4, <2>1, <2>4, <3>2, StableUntold
  <2>5. CASE d \notin e.not_interested
    BY <1>2, <1>3, <1>4, <1>8, <2>3, <2>5, StableTold
  <2> QED
    BY <2>4, <2>5
<1>9. CASE e.pstate \in {"terminating", "nonexistent"}
  <2> DEFINE f == IF InMap(e) THEN destination_up(g, d) ELSE g
  <2>1. WellFormed(f) /\ f.cause = e.cause
    BY <1>6, <1>9, DestinationUp, CallsKeep
  <2>2. e.pstate = "nonexistent" => f.pstate = "nonexistent"
    BY <1>6 DEF InMap
  <2>3. ~Live(e) /\ Commit(n, f, stream[n])
    BY <1>2, <1>9 DEF Live
  <2> HIDE DEF f
  <2> QED
    BY <1>1, <1>3, <1>5, <2>1, <2>2, <2>3, BenignNames, StableOver
<1> QED
  BY <1>1, <1>2, <1>7, <1>8, <1>9 DEF WellFormed, Endpoint, PeerStates

\* The modem's client takes a destination down.
LEMMA StableDestinationDown ==
  ASSUME Benign, SessionInv, CalmInv, FlightInv, StableInv, NEW n \in Node, NEW d \in Dests,
         ServiceDestinationDown(n, d)
  PROVE  StableInv'
<1> DEFINE e == ep[n]
           g == [e EXCEPT !.local_pdp = @ \ {d}]
           h == RemovePeerDestination(e, d)
           t == "Destination_Down"
<1>1. /\ WellFormed(e) /\ Tidy(e) /\ e.modem = (n = "modem") /\ stream[n] \in Seq(Message)
  BY StableNode
<1>2. /\ "destination_down" \in ClientOps[n] /\ e.pstate # "connected"
      /\ Len(e.pending[d]) < MaxQueue
      /\ \/ /\ d \in e.local_pdp
            /\ Commit(n, IF InMap(e) THEN destination_down(g, d) ELSE g, stream[n])
         \/ d \in e.peer_pdp /\ Commit(n, destination_down(h, d), stream[n])
  <2>1. "early_calls" \notin Env
    BY DEF Benign
  <2>2. CallsDestination(n, "destination_down") /\ HasRoom(n, d)
    BY DEF ServiceDestinationDown
  <2>3. \/ d \in e.local_pdp /\ TellPeer(n, g, destination_down(g, d))
        \/ d \in e.peer_pdp /\ Commit(n, destination_down(h, d), stream[n])
    BY DEF ServiceDestinationDown
  <2> QED
    BY <2>1, <2>2, <2>3 DEF CallsDestination, Calls, HasRoom, TellPeer
<1>3. n = "modem" /\ e.modem = TRUE
  <2>1. "destination_down" \notin ClientOps["router"]
    BY DEF Benign
  <2>2. n # "router"
    BY <1>2, <2>1
  <2>3. n = "modem"
    BY <2>2 DEF Node
  <2> QED
    BY <1>1, <2>3
<1>4. d \in e.local_pdp => Turned(e, g, d, t)
  BY <1>1 DEF Turned, WellFormed, Endpoint
<1>5. [Next]_vars
  BY DEF Next, ClientStep
<1>6. /\ WellFormed(g) /\ g.pstate = e.pstate /\ g.cause = e.cause
      /\ g.not_interested = e.not_interested
      /\ WellFormed(h) /\ h.pstate = e.pstate /\ h.cause = e.cause
  BY <1>1 DEF WellFormed, Endpoint, RemovePeerDestination
<1> HIDE DEF g, h
<1>7. CASE Live(e)
  <2>1. e.peer_pdp = {}
    BY <1>1, <1>3, <1>7 DEF Tidy
  <2>2. /\ d \in e.local_pdp
        /\ Commit(n, IF InMap(e) THEN destination_down(g, d) ELSE g, stream[n])
    BY <1>2, <2>1
  <2>3. CASE e.pstate = "connecting"
    <3>1. Commit(n, g, stream[n])
      BY <2>2, <2>3 DEF InMap
    <3> QED
      BY <1>3, <1>4, <1>7, <2>2, <2>3, <3>1, StableUntold
  <2>4. CASE e.pstate = "in_session"
    <3>1. Commit(n, send_message_expecting_response(g, d, t), stream[n])
      BY <2>2, <2>4 DEF InMap, destination_down
    <3>2. CASE d \in e.not_interested
      <4>1. send_message_expecting_response(g, d, t) = g
        BY <1>6, <3>2 DEF send_message_expecting_response
      <4>2. Commit(n, g, stream[n])
        BY <3>1, <4>1
      <4> QED
        BY <1>3, <1>4, <1>7, <2>2, <3>2, <4>2, StableUntold
    <3>3. CASE d \notin e.not_interested
      BY <1>2, <1>3, <1>4, <2>2, <2>4, <3>1, <3>3, StableTold
    <3> QED
      BY <3>2, <3>3
  <2> QED
    BY <1>2, <1>7, <2>3, <2>4 DEF Live
<1>8. CASE ~Live(e)
  <2>1. e.pstate \in {"terminating", "nonexistent"}
    BY <1>1, <1>8 DEF WellFormed, Endpoint, PeerStates, Live
  <2>2. ASSUME NEW f, WellFormed(f), f.cause = e.cause, f.pstate = e.pstate,
               Commit(n, f, stream[n])
        PROVE  StableInv'
    BY <1>1, <1>3, <1>5, <1>8, <2>2, BenignNames, StableOver
  <2>3. \A x \in {g, h} : /\ WellFormed(destination_down(x, d))
                          /\ destination_down(x, d).cause = e.cause
                          /\ destination_down(x, d).pstate = e.pstate
    BY <1>6, <2>1, DestinationDown, CallsKeep
  <2>4. \/ Commit(n, g, stream[n]) \/ Commit(n, destination_down(g, d), stream[n])
        \/ Commit(n, destination_down(h, d), stream[n])
    BY <1>2
  <2> QED
    BY <1>6, <2>2, <2>3, <2>4
<1> QED
  BY <1>7, <1>8

\* No response is overdue: every request that waits is served.
LEMMA NeverOverdue ==
  ASSUME Benign, SessionInv, CalmInv, StableInv, NEW n \in Node, NEW q \in Queues,
         ResponseOverdue(n, q)
  PROVE  FALSE
<1>1. /\ ep[n].acktivity /\ ep[n].pending[q] # <<>> /\ ~ResponseUnderway(n, q)
  <2>1. "late" \notin Env /\ "overdue_at_stop" \notin Env
    BY DEF Benign
  <2> QED
    BY <2>1 DEF ResponseOverdue
<1>2. Live(ep[n])
  BY <1>1 DEF CalmInv, EndpointCalm, TimersRight, Live
<1>3. /\ stream[n] = <<>> /\ Quiet(stream[Other(n)], q, Requests)
  BY <1>1 DEF ResponseUnderway, Quiet, About
<1>4. Quiet(stream[n], q, Responses)
  BY <1>3, OneMessage
<1>5. ~link
  BY <1>1, <1>3, <1>4 DEF StableInv, Served
<1>6. StreamStable(n)
  BY StableNode
<1>7. \E i \in DOMAIN stream[n] : stream[n][i].type = "EOF"
  BY <1>2, <1>5, <1>6 DEF StreamStable
<1>8. DOMAIN <<>> = {}
  OBVIOUS
<1> QED
  BY <1>3, <1>7, <1>8

\* What terminate, called by the client, writes last.
LEMMA LastWords ==
  ASSUME NEW e, WellFormed(e), e.out = <<>>
  PROVE  LET o == terminate(e, "Client").out
         IN  o = <<>> \/ o = <<Msg("Session_Termination", Session, "none")>>
<1> DEFINE g == [stop_peer(e) EXCEPT !.cause = "Client"]
           t == "Session_Termination"
<1>1. CASE e.pstate = "terminating"
  BY <1>1 DEF terminate
<1>2. CASE e.pstate # "terminating"
  <2>1. terminate(e, "Client") = send_message_expecting_response(g, Session, t)
    BY <1>2 DEF terminate
  <2>2. /\ g.out = <<>> /\ WellFormed(g) /\ g.not_interested = e.not_interested
    BY DEF stop_peer, WellFormed, Endpoint, PeerStates, Causes
  <2>3. Session \in Queues /\ t \in Requests /\ Session \notin g.not_interested
    BY <2>2, RequestNames, DestsAssumption DEF Queues, WellFormed, Endpoint
  <2> HIDE DEF g, t
  <2>4. LET f == send_message_expecting_response(g, Session, t)
        IN  f.out = IF g.pending[Session] = <<>>
                    THEN Append(g.out, Msg(t, Session, "none")) ELSE g.out
    BY <2>2, <2>3, Pushes, Zenon
  <2> QED
    BY <2>1, <2>2, <2>4 DEF t
<1> QED
  BY <1>1, <1>2

HasEnd(s) == \E i \in DOMAIN s : s[i].type = "EOF"

\* What a node that closes its socket leaves in its peer's stream.
Farewell(v, b) ==
  /\ v \in Seq(Message) /\ AllProper(v, b) /\ HasEnd(v)
  /\ \A q : Quiet(v, q, Responses)
  /\ \A d \in Dests : Quiet(v, d, Requests)

\* The end of a stream, after no or one last message.
LEMMA EndOfStream ==
  ASSUME NEW o, o = <<>> \/ o = <<Msg("Session_Termination", Session, "none")>>, NEW b
  PROVE  Farewell(o \o <<EOF>>, b)
<1> DEFINE x == Msg("Session_Termination", Session, "none")
           z == o \o <<EOF>>
<1>1. /\ EOF \in Message /\ EOF.type = "EOF" /\ EOF.dest = Session /\ EOF.status = "none"
      /\ x \in Message /\ x.type = "Session_Termination" /\ x.dest = Session
      /\ x.status = "none"
  <2>1. Session \in Queues /\ Session \notin Dests
    BY DestsAssumption DEF Queues
  <2> QED
    BY <2>1, EofIsMessage, RequestNames
    DEF EOF, Msg, Message, MessageTypes, Statuses, DestinationTypes
<1> HIDE DEF x
<1>2. o \in Seq(Message) /\ \A i \in DOMAIN o : o[i] = x
  <2>1. CASE o = <<>>
    BY <2>1
  <2>2. CASE o = <<x>>
    BY <1>1, <2>2
  <2> QED
    BY <2>1, <2>2 DEF x
<1>3. \A m \in {EOF, x} : /\ Proper(m, b) /\ \A q : ~About(m, q, Responses)
                          /\ \A d \in Dests : ~About(m, d, Requests)
  BY <1>1, DestsAssumption DEF Proper, Final, About, Responses
<1>4. /\ \A i \in DOMAIN z : z[i] \in {EOF, x}
      /\ \E i \in DOMAIN z : z[i] = EOF
      /\ z \in Seq(Message)
  <2> DEFINE r == <<EOF>>
  <2>1. r \in Seq(Message) /\ DOMAIN r = {1} /\ r[1] = EOF
    BY <1>1
  <2> HIDE DEF r
  <2>2. o \o r \in Seq(Message) /\ \A i \in DOMAIN (o \o r) : (o \o r)[i] \in {EOF, x}
    <3> DEFINE P == {EOF, x}
    <3>1. /\ \A i \in DOMAIN o : o[i] \in P
          /\ \A i \in DOMAIN r : r[i] \in P
      BY <1>2, <2>1
    <3>2. o \o r \in Seq(Message)
      BY <1>2, <2>1
    <3> HIDE DEF P
    <3>3. \A i \in DOMAIN (o \o r) : (o \o r)[i] \in P
      BY <1>2, <2>1, <3>1, StreamFacts, ZenonT(30)
    <3> QED
      BY <3>2, <3>3 DEF P
  <2>3. 1 + Len(o) \in DOMAIN (o \o r) /\ (o \o r)[1 + Len(o)] = r[1]
    BY <1>2, <2>1
  <2> QED
    BY <2>1, <2>2, <2>3 DEF r
<1> HIDE DEF z
<1>5. /\ AllProper(z, b) /\ \A q : Quiet(z, q, Responses)
      /\ \A d \in Dests : Quiet(z, d, Requests)
      /\ HasEnd(z)
  BY <1>1, <1>3, <1>4 DEF AllProper, Quiet, HasEnd
<1> QED
  BY <1>4, <1>5 DEF z, Farewell

\* What has been written before the end of a stream is what it was.
LEMMA AfterEnd ==
  ASSUME NEW s \in Seq(Message), NEW v, NEW b, AllProper(s, b), Farewell(v, b)
  PROVE  /\ AllProper(s \o v, b) /\ HasEnd(s \o v)
         /\ \A q, X : Only(s, q, Responses, X) => Only(s \o v, q, Responses, X)
         /\ \A V : Sound(s, V) => Sound(s \o v, V)
<1>0. /\ v \in Seq(Message) /\ AllProper(v, b) /\ HasEnd(v)
      /\ \A q : Quiet(v, q, Responses)
      /\ \A d \in Dests : Quiet(v, d, Requests)
  BY DEF Farewell
<1>1. AllProper(s \o v, b)
  BY <1>0, ProperStreams
<1>2. HasEnd(s \o v)
  <2>1. PICK i \in DOMAIN v : v[i].type = "EOF"
    BY <1>0 DEF HasEnd
  <2>2. i + Len(s) \in DOMAIN (s \o v) /\ (s \o v)[i + Len(s)] = v[i]
    BY <1>0, <2>1
  <2> QED
    BY <2>1, <2>2 DEF HasEnd
<1>3. \A q, X : Only(s, q, Responses, X) => Only(s \o v, q, Responses, X)
  BY <1>0, OnlyFacts, Zenon
<1>4. \A d \in Dests : \A X : Only(s, d, Requests, X) => Only(s \o v, d, Requests, X)
  BY <1>0, OnlyFacts, Zenon
<1>5. \A V : Sound(s, V) => Sound(s \o v, V)
  BY <1>4, Zenon DEF Sound
<1> QED
  BY <1>1, <1>2, <1>3, <1>5

\* A node leaves, and its peer finds the end of the stream.
LEMMA StableLeft ==
  ASSUME SessionInv, CalmInv, FlightInv, StableInv, NEW n \in Node, NEW e, NEW D,
         Left(n, e, D)
  PROVE  StableInv'
<1> DEFINE k == Other(n)
           g == NewPeer(n = "modem", "nonexistent", D)
           s == stream[k]
           o == e.out
           z == o \o <<EOF>>
           b == ep[k].modem
<1>1. /\ EndpointsOK /\ WellFormed(ep[n]) /\ ep[n].out = <<>> /\ Tidy(ep[n])
      /\ ep[n].modem = (n = "modem") /\ link \in BOOLEAN
      /\ k \in Node /\ k # n /\ Other(k) = n /\ Node = {n, k}
  BY StableNode
<1>2. /\ Tidy(ep[k]) /\ StreamStable(k) /\ s \in Seq(Message)
      /\ b \in BOOLEAN /\ b = (k = "modem")
  BY <1>1, StableNode
<1>3. /\ D \in SUBSET Dests /\ D \subseteq ep[n].local_pdp
      /\ e = ep[n] \/ e = terminate(ep[n], "Client")
  BY Zenon DEF Left
<1>3a. PICK closed \in BOOLEAN :
         (closed \/ ep[n].pstate = "terminating") /\ Close(n, e, g, closed)
  BY ZenonT(60) DEF Left
<1>3b. link => closed
  <2>1. link => Live(ep[n])
    BY StableNode
  <2> QED
    BY <1>3a, <2>1 DEF Live
<1>4. /\ g.pstate = "nonexistent" /\ g.cause = "none" /\ g.local_pdp = D
      /\ g.modem = (n = "modem")
  BY DEF NewPeer
<1>5. o = <<>> \/ o = <<Msg("Session_Termination", Session, "none")>>
  BY <1>1, <1>3, LastWords
<1>6. o \in Seq(Message)
  BY DEF Left, WellFormed, Endpoint
<1> HIDE DEF g
<1>7. /\ ep' = [ep EXCEPT ![n] = g] /\ link' = FALSE
      /\ \E reset \in BOOLEAN :
           stream' = [stream EXCEPT ![n] = <<>>,
                        ![Other(n)] = CASE ~link \/ ~closed -> @
                                        [] link /\ closed /\ reset -> <<EOF>>
                                        [] OTHER -> @ \o o \o <<EOF>>]
  BY <1>3a DEF Close
<1>8. ep'[n] = g /\ ep'[k] = ep[k] /\ stream'[n] = <<>>
  BY <1>1, <1>7 DEF EndpointsOK
<1>9. \/ ~link /\ stream'[k] = s
      \/ link /\ (stream'[k] = <<EOF>> \/ stream'[k] = s \o z)
  <2>1. PICK reset \in BOOLEAN :
          stream' = [stream EXCEPT ![n] = <<>>,
                       ![Other(n)] = CASE ~link \/ ~closed -> @
                                       [] link /\ closed /\ reset -> <<EOF>>
                                       [] OTHER -> @ \o o \o <<EOF>>]
    BY <1>7
  <2>2. stream'[k] = CASE ~link \/ ~closed -> s
                       [] link /\ closed /\ reset -> <<EOF>>
                       [] OTHER -> s \o o \o <<EOF>>
    BY <1>1, <2>1 DEF EndpointsOK
  <2>3. s \o o \o <<EOF>> = s \o z
    <3>1. EOF \in Message
      BY EofIsMessage
    <3> HIDE DEF s, o
    <3> QED
      BY <1>2, <1>6, <3>1
  <2>4. CASE ~link
    BY <2>2, <2>4
  <2>5. CASE link /\ reset
    BY <1>3b, <2>2, <2>5
  <2>6. CASE link /\ ~reset
    BY <1>3b, <2>2, <2>3, <2>6
  <2> QED
    BY <2>4, <2>5, <2>6
<1>10. ~Live(g) /\ Tidy(g)
  BY <1>1, <1>3, <1>4 DEF Live, Tidy
<1>11. StreamStable(n)'
  BY <1>8, <1>10 DEF StreamStable
<1> HIDE DEF s, o, z, b
<1>12. ASSUME Live(ep[k])
       PROVE  /\ AllProper(stream'[k], b) /\ HasEnd(stream'[k])
              /\ \A q \in Queues : Only(stream'[k], q, Responses, Awaited(ep[k].pending[q]))
              /\ ~b => Sound(stream'[k], ep[k].peer_pdp)
  <2>1. AllProper(s, b) /\ Matched(k)
    BY <1>1, <1>2, <1>12, MatchedNow DEF StreamStable, s, b
  <2>1a. \A q \in Queues : Only(s, q, Responses, Awaited(ep[k].pending[q]))
    BY <2>1 DEF Matched, s
  <2>2. b = FALSE => Sound(s, ep[k].peer_pdp)
    <3>1. b = FALSE => k = "router"
      BY <1>1, <1>2 DEF Node
    <3> QED
      BY <1>12, <3>1, SoundNow DEF s
  <2>3. CASE ~link /\ stream'[k] = s
    <3>1. HasEnd(s)
      BY <1>2, <1>12, <2>3 DEF StreamStable, HasEnd, s
    <3> QED
      BY <1>2, <2>1, <2>1a, <2>2, <2>3, <3>1
  <2>5. Farewell(z, b)
    BY <1>5, EndOfStream, Zenon DEF z
  <2>6. CASE stream'[k] = s \o z
    <3>1. /\ AllProper(s \o z, b) /\ HasEnd(s \o z)
          /\ \A q, X : Only(s, q, Responses, X) => Only(s \o z, q, Responses, X)
          /\ \A V : Sound(s, V) => Sound(s \o z, V)
      <4>1. s \in Seq(Message) /\ AllProper(s, b)
        BY <1>2, <2>1
      <4> QED
        BY <4>1, <2>5, AfterEnd, ZenonT(60)
    <3>2. \A q \in Queues : Only(s \o z, q, Responses, Awaited(ep[k].pending[q]))
      BY <2>1a, <3>1, Zenon
    <3>3. b = FALSE => Sound(s \o z, ep[k].peer_pdp)
      BY <2>2, <3>1, Zenon
    <3> QED
      BY <1>2, <2>6, <3>1, <3>2, <3>3
  <2>7. CASE stream'[k] = <<EOF>>
    <3> DEFINE y == <<>> \o <<EOF>>
    <3>1. Farewell(y, b)
      BY EndOfStream, Zenon
    <3>2. y = <<EOF>>
      BY EofIsMessage
    <3> HIDE DEF y
    <3>3. /\ \A q \in Queues : Only(y, q, Responses, Awaited(ep[k].pending[q]))
          /\ Sound(y, ep[k].peer_pdp)
      BY <3>1 DEF Sound, Only, Quiet, Farewell
    <3>4. stream'[k] = y
      BY <2>7, <3>2
    <3> QED
      BY <3>1, <3>3, <3>4, Zenon DEF Farewell
  <2> QED
    BY <1>9, <2>3, <2>6, <2>7
<1>13. StreamStable(k)'
  BY <1>1, <1>7, <1>8, <1>12 DEF StreamStable, Matched, HasEnd, b
<1>14. \A x \in Node : Tidy(ep'[x]) /\ StreamStable(x)'
  BY <1>1, <1>2, <1>8, <1>10, <1>11, <1>13
<1> QED
  BY <1>7, <1>14 DEF StableInv

\* A new peer, for a session or for none.
LEMMA TidyNew ==
  ASSUME NEW b \in BOOLEAN, NEW st \in {"nonexistent", "connecting"}, NEW D,
         b = FALSE => D = {}
  PROVE  /\ Tidy(NewPeer(b, st, D)) /\ NewPeer(b, st, D).pstate = st
         /\ \A q \in Queues : NewPeer(b, st, D).pending[q] = <<>>
         /\ NewPeer(b, st, D).modem = b
<1> DEFINE f == NewPeer(b, st, D)
<1>1. /\ f.modem = b /\ f.pstate = st /\ f.cause = "none" /\ f.local_pdp = D
      /\ f.needs_response = {} /\ f.asked = {} /\ f.not_interested = {}
      /\ f.peer_pdp = {} /\ f.pending = [q \in Queues |-> <<>>]
  BY DEF NewPeer
<1> HIDE DEF f
<1>2. \A q \in Queues : f.pending[q] = <<>>
  BY <1>1
<1>3. DOMAIN <<>> = {} /\ Len(<<>>) = 0 /\ Dests \subseteq Queues
  BY DEF Queues
<1>4. /\ \A d \in Dests : Len(f.pending[d]) <= 1
      /\ \A q \in Queues : \A i \in DOMAIN f.pending[q] :
           f.pending[q][i].type \in Heard(~f.modem)
  BY <1>2, <1>3
<1>5. Tidy(f)
  BY <1>1, <1>4 DEF Tidy
<1> QED
  BY <1>1, <1>2, <1>5 DEF f

LEMMA StableInit == Init => StableInv
<1> SUFFICES ASSUME Init PROVE StableInv
  OBVIOUS
<1> DEFINE p(n) == NewPeer(n = "modem", "nonexistent", {})
<1>1. \A n \in Node : Tidy(p(n)) /\ p(n).pstate = "nonexistent"
  <2>1. TAKE n \in Node
  <2>2. (n = "modem") \in BOOLEAN
    OBVIOUS
  <2> DEFINE b == n = "modem"
             D == {}
  <2>3. b = FALSE => D = {}
    OBVIOUS
  <2> HIDE DEF b, D
  <2>4. Tidy(NewPeer(b, "nonexistent", D)) /\ NewPeer(b, "nonexistent", D).pstate = "nonexistent"
    BY <2>2, <2>3, TidyNew DEF b
  <2> QED
    BY <2>4, Zenon DEF b, D
<1>2. ep = [n \in Node |-> p(n)] /\ link = FALSE
  BY DEF Init
<1> HIDE DEF p
<1>3. \A n \in Node : Tidy(ep[n]) /\ ep[n].pstate = "nonexistent"
  BY <1>1, <1>2
<1> QED
  BY <1>2, <1>3 DEF StableInv, StreamStable, Live

LEMMA StableTcpConnect ==
  ASSUME SessionInv, StableInv, TcpConnect PROVE StableInv'
<1> DEFINE p(n) == NewPeer(n = "modem", "connecting", ep[n].local_pdp)
<1>1. ASSUME NEW n \in Node
      PROVE  /\ Tidy(p(n)) /\ p(n).pstate = "connecting"
             /\ \A q \in Queues : p(n).pending[q] = <<>>
  <2> DEFINE b == n = "modem"
             D == ep[n].local_pdp
  <2>1. b \in BOOLEAN
    OBVIOUS
  <2>2. b = FALSE => D = {}
    <3>1. Tidy(ep[n]) /\ ep[n].modem = (n = "modem")
      BY StableNode
    <3> QED
      BY <3>1 DEF Tidy
  <2> HIDE DEF b, D
  <2>3. /\ Tidy(NewPeer(b, "connecting", D)) /\ NewPeer(b, "connecting", D).pstate = "connecting"
        /\ \A q \in Queues : NewPeer(b, "connecting", D).pending[q] = <<>>
    BY <2>1, <2>2, TidyNew
  <2> QED
    BY <2>3, Zenon DEF b, D
<1>2. ep' = [n \in Node |-> p(n)] /\ link' = TRUE /\ stream' = [n \in Node |-> <<>>]
  BY DEF TcpConnect
<1> HIDE DEF p
<1>3. \A n \in Node : /\ Tidy(ep'[n]) /\ ep'[n].pstate = "connecting"
                      /\ \A q \in Queues : ep'[n].pending[q] = <<>>
                      /\ stream'[n] = <<>>
  BY <1>1, <1>2
<1>4. DOMAIN <<>> = {}
  OBVIOUS
<1>5. \A n \in Node : StreamStable(n)' /\ Live(ep'[n]) /\ ~Ends(stream'[n])
  BY <1>2, <1>3, <1>4 DEF StreamStable, Live, Ends, AllProper
<1>6. \A n \in Node, q \in Queues : Served(n, q)'
  BY <1>3 DEF Served
<1>7. ep'["modem"].pstate # "in_session"
  BY <1>3, NodeFacts
<1> QED
  BY <1>2, <1>3, <1>5, <1>6, <1>7 DEF StableInv

LEMMA StableLinkLoss ==
  ASSUME Benign, SessionInv, StableInv, LinkLoss PROVE StableInv'
<1> DEFINE y == <<>> \o <<EOF>>
<1>1. \A b : Farewell(y, b)
  BY EndOfStream, Zenon
<1>2. y = <<EOF>>
  BY EofIsMessage
<1> HIDE DEF y
<1>3. ep' = ep /\ link' = FALSE /\ \A n \in Node : stream'[n] = y
  <2>1. "vanish" \notin Env
    BY DEF Benign
  <2> QED
    BY <1>2, <2>1 DEF LinkLoss
<1>4. /\ \A q, X : Only(y, q, Responses, X)
      /\ \A V : Sound(y, V)
      /\ \A b : AllProper(y, b)
      /\ \E i \in DOMAIN y : y[i].type = "EOF"
  BY <1>1 DEF Sound, Only, Quiet, Farewell, HasEnd
<1>5. \A n \in Node : Other(n) \in Node /\ Tidy(ep'[n])
  BY <1>3 DEF StableInv, Node, Other
<1>6. \A n \in Node : StreamStable(n)'
  BY <1>2, <1>3, <1>4, <1>5 DEF StreamStable, Matched
<1> QED
  BY <1>3, <1>5, <1>6 DEF StableInv

\* What the timers of a process do to its sessions.
LEMMA StableTimer ==
  ASSUME Benign, SessionInv, CalmInv, FlightInv, StableInv, NEW n \in Node, TimerStep(n)
  PROVE  StableInv'
<1>0. [Next]_vars
  BY Zenon DEF Next
<1>1. ASSUME NEW q \in Queues, ResponseOverdue(n, q) PROVE StableInv'
  BY <1>1, NeverOverdue
<1>2. ASSUME InactivityTimeout(n) PROVE StableInv'
  BY <1>2, BenignNames DEF InactivityTimeout
<1>3. ASSUME HeartbeatTimeout(n) PROVE StableInv'
  BY <1>0, <1>3, StableHeartbeat DEF HeartbeatTimeout
<1>4. ASSUME CleanupExPeers(n) PROVE StableInv'
  <2>1. WellFormed(ep[n])
    BY StableNode
  <2> DEFINE closed == ~ep[n].heartbeat
  <2>2. ep[n].local_pdp \in SUBSET Dests /\ closed \in BOOLEAN
    BY <2>1 DEF WellFormed, Endpoint
  <2>3. /\ ep[n].pstate = "terminating"
        /\ Close(n, ep[n], NewPeer(n = "modem", "nonexistent", ep[n].local_pdp), closed)
    BY <1>4, ZenonT(60) DEF CleanupExPeers
  <2> HIDE DEF closed
  <2>4. Left(n, ep[n], ep[n].local_pdp)
    BY <2>1, <2>2, <2>3, ZenonT(60) DEF Left
  <2> QED
    BY <2>4, StableLeft
<1>5. ASSUME HandlerAfterStop(n) PROVE StableInv'
  BY <1>0, <1>5, StableHeartbeat, StableAfterStop DEF HandlerAfterStop
<1> QED
  BY <1>1, <1>2, <1>3, <1>4, <1>5, Zenon DEF TimerStep

\* What the calls of a client do to its sessions.
LEMMA StableClient ==
  ASSUME Benign, SessionInv, CalmInv, FlightInv, StableInv, NEW n \in Node, ClientStep(n)
  PROVE  StableInv'
<1>0. WellFormed(ep[n]) /\ ep[n].out = <<>> /\ stream[n] \in Seq(Message)
  BY StableNode
<1>1. ASSUME NEW d \in Dests, ServiceDestinationUp(n, d) PROVE StableInv'
  BY <1>1, StableDestinationUp
<1>2. ASSUME NEW d \in Dests, ServiceDestinationDown(n, d) PROVE StableInv'
  BY <1>2, StableDestinationDown
<1>3. ASSUME NEW d \in Dests, \/ ServiceDestinationUpdate(n, d)
                              \/ ServiceLinkcharRequest(n, d)
                              \/ ServiceLinkcharReply(n, d)
      PROVE StableInv'
  BY <1>3, BenignNames DEF ServiceDestinationUpdate, ServiceLinkcharRequest,
     ServiceLinkcharReply, CallsDestination, Calls
<1>4. ASSUME ServicePeerUpdate(n) PROVE StableInv'
  <2>1. CASE Live(ep[n])
    BY <1>4, <2>1, StablePeerUpdate
  <2>2. CASE ~Live(ep[n])
    <3>1. peer_update(ep[n]) = ep[n]
      BY <2>2 DEF peer_update, Live
    <3>2. Commit(n, ep[n], stream[n])
      BY <1>4, <3>1 DEF ServicePeerUpdate
    <3>3. [Next]_vars
      BY Zenon DEF Next
    <3> QED
      BY <1>0, <2>2, <3>2, <3>3, BenignNames, StableOver
  <2> QED
    BY <2>1, <2>2
<1>5. ASSUME ServiceTerminate(n) PROVE StableInv'
  <2> DEFINE e == IF InMap(ep[n]) THEN terminate(ep[n], "Client") ELSE ep[n]
  <2>1. WellFormed(e)
    BY <1>0, Terminate DEF Causes
  <2>2. Close(n, e, NewPeer(n = "modem", "nonexistent", {}), TRUE)
    BY <1>5, ZenonT(60) DEF ServiceTerminate
  <2>3. e = ep[n] \/ (InMap(ep[n]) /\ e = terminate(ep[n], "Client"))
    BY Zenon
  <2> HIDE DEF e
  <2>4. Left(n, e, {})
    BY <2>1, <2>2, <2>3, ZenonT(60) DEF Left
  <2> QED
    BY <2>4, StableLeft
<1> QED
  BY <1>1, <1>2, <1>3, <1>4, <1>5, Zenon DEF ClientStep

\* With benign processes every step preserves the invariant.
LEMMA StableNext ==
  ASSUME Benign
  PROVE  SessionInv /\ CalmInv /\ FlightInv /\ StableInv /\ [Next]_vars => StableInv'
<1> SUFFICES ASSUME SessionInv, CalmInv, FlightInv, StableInv, [Next]_vars
             PROVE  StableInv'
  OBVIOUS
<1>1. CASE TcpConnect
  BY <1>1, StableTcpConnect
<1>2. CASE LinkLoss
  BY <1>2, StableLinkLoss
<1>3. ASSUME NEW n \in Node, MakePeer(n) PROVE StableInv'
  BY <1>3, StableMakePeer
<1>4. ASSUME NEW n \in Node, Receive(n) PROVE StableInv'
  BY <1>4, StableReceive
<1>5. ASSUME NEW n \in Node, TimerStep(n) PROVE StableInv'
  BY <1>5, StableTimer
<1>6. ASSUME NEW n \in Node, ClientStep(n) PROVE StableInv'
  BY <1>6, StableClient
<1>7. CASE UNCHANGED vars
  BY <1>7 DEF vars, StableInv, StreamStable, Matched, Served, Mirror
<1> QED
  BY <1>1, <1>2, <1>3, <1>4, <1>5, <1>6, <1>7 DEF Next

\* With benign processes the invariants hold in every reachable state.
LEMMA StableAlways ==
  ASSUME Benign PROVE Spec => [](SessionInv /\ CalmInv /\ FlightInv /\ StableInv)
<1>1. Orderly /\ "late" \notin Env
  <2>1. "modem" \in Node
    BY DEF Node
  <2> QED
    BY <2>1, BenignNames
<1>2. Spec => [](SessionInv /\ CalmInv)
  BY <1>1, CalmAlways
<1>3. Spec => [](SessionInv /\ FlightInv)
  BY <1>1, FlightAlways
<1>4. Init => StableInv
  BY StableInit
<1>5. SessionInv /\ CalmInv /\ FlightInv /\ StableInv /\ [Next]_vars => StableInv'
  BY StableNext
<1> QED
  BY <1>2, <1>3, <1>4, <1>5, PTL DEF Spec

\* Under Benign the two ends never find a fault with each other, so that no
\* session ends for a protocol error, a timeout or bad data: not while
\* destinations come and go faster than they are acknowledged, nor when the
\* router's client refuses some and the modem's client waits for its answers,
\* nor when the connection breaks or a process ends in the middle of a
\* transaction.  Peer::handle_destination_up and
\* handle_destination_down, handle_response and check_for_retransmits have a
\* way to terminate for each of the messages that never comes.
THEOREM Stable == ASSUME Benign PROVE Spec => []SessionStable
<1>1. SessionInv /\ CalmInv /\ FlightInv /\ StableInv => SessionStable
  BY DEF StableInv, Tidy, SessionStable
<1> QED
  BY <1>1, StableAlways, PTL

\* In a session with nothing under way the router's peer_pdp holds what the
\* modem's local_pdp does, but for the refused destinations, which it lacks,
\* and the modem's peer_pdp is as empty as the router's local_pdp: no sequence
\* of calls, refusals, broken connections and new sessions makes the two
\* information bases drift apart.
THEOREM Views == ASSUME Benign PROVE Spec => []ViewsAgree
<1>1. SessionInv /\ CalmInv /\ FlightInv /\ StableInv => ViewsAgree
  <2> SUFFICES ASSUME SessionInv, StableInv, Quiescent PROVE ViewsAgree
    BY DEF ViewsAgree
  <2> DEFINE m == ep["modem"]
             r == ep["router"]
  <2>1. /\ "modem" \in Node /\ "router" \in Node
        /\ Other("modem") = "router" /\ Other("router") = "modem"
    BY DEF Node, Other
  <2>2. /\ m.pstate = "in_session" /\ stream["modem"] = <<>>
        /\ \A q \in Queues : m.pending[q] = <<>>
        /\ r.pstate = "in_session"
    BY <2>1 DEF Quiescent
  <2>3. Live(m) /\ Live(r)
    BY <2>2 DEF Live
  <2>4. /\ m.modem = TRUE /\ r.modem = FALSE /\ Tidy(m) /\ Tidy(r)
        /\ WellFormed(m) /\ WellFormed(r) /\ link \in BOOLEAN
    <3>1. \A n \in Node : /\ ep[n].modem = (n = "modem") /\ Tidy(ep[n])
                          /\ WellFormed(ep[n]) /\ link \in BOOLEAN
      BY StableNode
    <3> QED
      BY <2>1, <3>1
  <2>5. /\ m.peer_pdp = {} /\ r.local_pdp = {}
        /\ m.local_pdp \subseteq Dests /\ r.peer_pdp \subseteq Dests
    BY <2>3, <2>4 DEF Tidy, WellFormed, Endpoint
  <2>6. link
    <3>1. DOMAIN <<>> = {}
      OBVIOUS
    <3> QED
      BY <2>1, <2>2, <2>3, <2>4, <3>1 DEF StableInv, StreamStable
  <2>7. \A d \in Dests : Mirror(d)
    BY <2>2, <2>6 DEF StableInv
  <2>8. \A d \in Dests : IF d \in m.not_interested THEN d \notin r.peer_pdp
                         ELSE (d \in r.peer_pdp) = (d \in m.local_pdp)
    <3>1. Dests \subseteq Queues
      BY DEF Queues
    <3> QED
      BY <2>2, <2>7, <3>1 DEF Mirror, MirrorOf, MirrorAt
  <2>9. r.peer_pdp \subseteq m.local_pdp /\ m.local_pdp \ m.not_interested \subseteq r.peer_pdp
    BY <2>5, <2>8
  <2> QED
    BY <2>1, <2>5, <2>9 DEF ViewsAgree, Node
<1> QED
  BY <1>1, StableAlways, PTL

=============================================================================
