------------------------------ MODULE Discovery ------------------------------
(***************************************************************************)
(* How routers find modems and how sessions come and go: the discovery     *)
(* protocol (PeerDiscovery.cpp on top of PeriodicMcastSendRcv.cpp), the    *)
(* TCP connects and accepts, the map of peers and its cleanup (Dlep.cpp).  *)
(*                                                                         *)
(* A router multicasts Peer_Discovery; a modem without a peer answers with *)
(* Peer_Offer; the router connects to it.  What happens inside a session   *)
(* is module DlepSession; here a session is the states of its two Peer     *)
(* objects.  Each handler holds dlep->mutex of its process and is a step.  *)
(***************************************************************************)
EXTENDS Naturals, FiniteSets

CONSTANTS Routers, Modems,
          Ids,       \* names of TCP connections; bounds how many exist at once
          NoConn,    \* not a connection
          Failing,   \* the routers whose multicasts may fail
          Faults     \* what may happen in this instance

ASSUME IdsAssumption == IsFiniteSet(Ids) /\ NoConn \notin Ids
ASSUME DiscoveryFaultsAssumption ==
  Faults \subseteq
    {"loss",           \* UDP packets are lost
     "connect_error",  \* a connect fails
     "vanish"}         \* a router disappears without closing its connections

VARIABLES conns,  \* conns[c]: the two ends of connection c, a Conn
          peers,  \* peers[r][m]: the entry of router r's peers map for the
                  \* address and port of modem m, a connection or NoConn
          net,    \* discovery packets on their way, a set of Packets
          sending \* sending[r]: the send timer of router r is running

vars == <<conns, peers, net, sending>>

\* The states of a Peer object, which is in its process's map; and of a
\* connection that has none yet, or none any more.
PeerStates == {"connected", "in_session", "terminating"}
RouterStates == PeerStates \cup {"none", "connecting"}
ModemStates == PeerStates \cup {"none", "accepting"}

Packet == [type : {"Peer_Discovery", "Peer_Offer"}, router : Routers,
           modem : Modems]

\* lost: the router's host is gone, and no packet of it will ever come.
Conn == [router : Routers, modem : Modems, r : RouterStates, m : ModemStates,
         lost : BOOLEAN]

Free(c) == conns[c].r = "none" /\ conns[c].m = "none"

Init ==
  /\ \E r \in Routers, m \in Modems :
       conns = [c \in Ids |-> [router |-> r, modem |-> m, r |-> "none",
                               m |-> "none", lost |-> FALSE]]
  /\ peers = [r \in Routers |-> [m \in Modems |-> NoConn]]
  /\ net = {}
  /\ sending = [r \in Routers |-> TRUE]

-----------------------------------------------------------------------------
(* Discovery.                                                              *)

\* The modem's peers map; a modem tells its peers apart by the port they
\* connect from, so every Peer object has an entry of its own.
ModemPeers(m) ==
  {c \in Ids : conns[c].modem = m /\ conns[c].m \in PeerStates}

\* Dlep::peer_state # nonexistent.
ModemHasPeer(m) == ModemPeers(m) # {}
RouterHasPeer(r, m) == peers[r][m] # NoConn

\* The send timer of router r expires: start_send, and handle_send, which
\* arms the timer again unless the send failed.  Whatever came of the last
\* discovery may still be under way.
SendDiscovery(r) ==
  /\ sending[r]
  /\ \/ /\ net' = net \cup
                    [type : {"Peer_Discovery"}, router : {r}, modem : Modems]
        /\ UNCHANGED sending
     \/ /\ r \in Failing
        /\ sending' = [sending EXCEPT ![r] = FALSE]
        /\ UNCHANGED net
  /\ UNCHANGED <<conns, peers>>

Lose(p) ==
  /\ "loss" \in Faults
  /\ net' = net \ {p}
  /\ UNCHANGED <<conns, peers, sending>>

send_peer_offer(p) == [p EXCEPT !.type = "Peer_Offer"]

\* A modem that has a peer, of whatever router, ignores the packet.
handle_discovery(p) ==
  /\ p.type = "Peer_Discovery"
  /\ net' = (net \ {p}) \cup
              (IF ModemHasPeer(p.modem) THEN {} ELSE {send_peer_offer(p)})
  /\ UNCHANGED <<conns, peers, sending>>

start_async_connect(c, r, m) ==
  conns' = [conns EXCEPT ![c] = [router |-> r, modem |-> m,
                                 r |-> "connecting", m |-> "none",
                                 lost |-> FALSE]]

\* The router connects, on connection c, unless it has a peer at the address
\* of the offer.  A connect that is still under way is not a peer.
handle_peer_offer(p, c) ==
  /\ p.type = "Peer_Offer"
  /\ net' = net \ {p}
  /\ IF RouterHasPeer(p.router, p.modem) THEN UNCHANGED conns
     ELSE Free(c) /\ start_async_connect(c, p.router, p.modem)
  /\ UNCHANGED <<peers, sending>>

-----------------------------------------------------------------------------
(* Connections: Dlep::handle_async_make_peer on either side.               *)

\* The connect of the router completes.  The new Peer replaces what the map
\* holds for this modem.
ConnectDone(c) ==
  /\ conns[c].r = "connecting"
  /\ conns' = [conns EXCEPT ![c].r = "connected", ![c].m = "accepting"]
  /\ peers' = [peers EXCEPT ![conns[c].router][conns[c].modem] = c]
  /\ UNCHANGED <<net, sending>>

ConnectFailed(c) ==
  /\ "connect_error" \in Faults
  /\ conns[c].r = "connecting"
  /\ conns' = [conns EXCEPT ![c].r = "none"]
  /\ UNCHANGED <<peers, net, sending>>

\* The accept of the modem completes; the next accept is started at once.
AcceptDone(c) ==
  /\ conns[c].m = "accepting"
  /\ conns' = [conns EXCEPT ![c].m = "connected"]
  /\ UNCHANGED <<peers, net, sending>>

-----------------------------------------------------------------------------
(* The session, as far as it concerns the maps.                            *)

\* Session_Initialization at the modem, and its response at the router.
ModemSessionUp(c) ==
  /\ conns[c].m = "connected" /\ conns[c].r = "connected"
  /\ conns' = [conns EXCEPT ![c].m = "in_session"]
  /\ UNCHANGED <<peers, net, sending>>

RouterSessionUp(c) ==
  /\ conns[c].r = "connected" /\ conns[c].m = "in_session"
  /\ conns' = [conns EXCEPT ![c].r = "in_session"]
  /\ UNCHANGED <<peers, net, sending>>

\* One end terminates of its own accord: a timeout, an error, the client.
ModemTerminates(c) ==
  /\ conns[c].m \in {"connected", "in_session"}
  /\ conns' = [conns EXCEPT ![c].m = "terminating"]
  /\ UNCHANGED <<peers, net, sending>>

RouterTerminates(c) ==
  /\ conns[c].r \in {"connected", "in_session"}
  /\ conns' = [conns EXCEPT ![c].r = "terminating"]
  /\ UNCHANGED <<peers, net, sending>>

\* The other end has terminated or closed the connection: this end reads
\* Session_Termination or the end of the stream.
ModemReadsEnd(c) ==
  /\ conns[c].m \in {"connected", "in_session"}
  /\ conns[c].r \in {"terminating", "none"} /\ ~conns[c].lost
  /\ conns' = [conns EXCEPT ![c].m = "terminating"]
  /\ UNCHANGED <<peers, net, sending>>

RouterReadsEnd(c) ==
  /\ conns[c].r \in {"connected", "in_session"}
  /\ conns[c].m \in {"terminating", "none"}
  /\ conns' = [conns EXCEPT ![c].r = "terminating"]
  /\ UNCHANGED <<peers, net, sending>>

\* check_for_activity: only a peer that has told its heartbeat interval, in
\* the handshake, can be found inactive.
ModemFindsInactive(c) ==
  /\ conns[c].lost
  /\ conns[c].m = "in_session"
  /\ conns' = [conns EXCEPT ![c].m = "terminating"]
  /\ UNCHANGED <<peers, net, sending>>

\* Mutant of RouterCleanup: the entry stays in the map.
RouterCleanup_kept(c) ==
  /\ conns[c].r = "terminating"
  /\ peers[conns[c].router][conns[c].modem] = c
  /\ conns' = [conns EXCEPT ![c].r = "none"]
  /\ UNCHANGED <<peers, net, sending>>

\* cleanup_ex_peers removes the terminating peers of the map.
RouterCleanup(c) ==
  /\ conns[c].r = "terminating"
  /\ peers[conns[c].router][conns[c].modem] = c
  /\ conns' = [conns EXCEPT ![c].r = "none"]
  /\ peers' = [peers EXCEPT ![conns[c].router][conns[c].modem] = NoConn]
  /\ UNCHANGED <<net, sending>>

ModemCleanup(c) ==
  /\ conns[c].m = "terminating"
  /\ conns' = [conns EXCEPT ![c].m = "none"]
  /\ UNCHANGED <<peers, net, sending>>

\* A Peer object that was replaced in the map is no concern of
\* cleanup_ex_peers; its outstanding read keeps it until the modem closes
\* the connection.
UnmappedPeerDestroyed(c) ==
  /\ conns[c].r = "terminating" /\ conns[c].m = "none"
  /\ peers[conns[c].router][conns[c].modem] # c
  /\ conns' = [conns EXCEPT ![c].r = "none"]
  /\ UNCHANGED <<peers, net, sending>>

\* The host of a router goes down and comes up again, and the modems are
\* none the wiser.
Vanish(r) ==
  /\ "vanish" \in Faults
  /\ conns' = [c \in Ids |->
       IF conns[c].router = r
       THEN [conns[c] EXCEPT !.r = "none",
                             !.lost = conns[c].m \in ModemStates \ {"none"}]
       ELSE conns[c]]
  /\ peers' = [peers EXCEPT ![r] = [m \in Modems |-> NoConn]]
  /\ net' = {p \in net : p.router # r}
  /\ sending' = [sending EXCEPT ![r] = TRUE]

-----------------------------------------------------------------------------
ConnStep(c) ==
  \/ ConnectDone(c) \/ ConnectFailed(c) \/ AcceptDone(c)
  \/ ModemSessionUp(c) \/ RouterSessionUp(c)
  \/ ModemTerminates(c) \/ RouterTerminates(c)
  \/ ModemReadsEnd(c) \/ RouterReadsEnd(c) \/ ModemFindsInactive(c)
  \/ RouterCleanup(c) \/ ModemCleanup(c) \/ UnmappedPeerDestroyed(c)

PacketStep(p) ==
  \/ Lose(p)
  \/ handle_discovery(p)
  \/ \E c \in Ids : handle_peer_offer(p, c)

Next ==
  \/ \E r \in Routers : SendDiscovery(r) \/ Vanish(r)
  \/ \E p \in net : PacketStep(p)
  \/ \E c \in Ids : ConnStep(c)

Spec == Init /\ [][Next]_vars

Arrives(p) ==
  p \in net /\ (handle_discovery(p) \/ \E c \in Ids : handle_peer_offer(p, c))

\* Expired timers and completed operations are run by the io_service thread;
\* the network does not lose every packet, nor fail every connect.
FairSpec ==
  /\ Spec
  /\ \A r \in Routers : WF_vars(SendDiscovery(r))
  /\ \A p \in Packet : SF_vars(Arrives(p))
  /\ \A c \in Ids : /\ SF_vars(ConnectDone(c))
                    /\ WF_vars(AcceptDone(c))
                    /\ WF_vars(ModemReadsEnd(c))
                    /\ WF_vars(RouterReadsEnd(c))
                    /\ WF_vars(ModemFindsInactive(c))
                    /\ WF_vars(RouterCleanup(c))
                    /\ WF_vars(ModemCleanup(c))
                    /\ WF_vars(UnmappedPeerDestroyed(c))

-----------------------------------------------------------------------------
(* Properties.                                                             *)

\* No entry of a router's map outlives its Peer, which would make the router
\* ignore the offers of that modem for ever (cleanup_ex_peers in Dlep.cpp).
NoStaleEntry ==
  \A r \in Routers, m \in Modems :
    peers[r][m] # NoConn =>
      LET c == conns[peers[r][m]]
      IN  c.router = r /\ c.modem = m /\ c.r \in PeerStates

\* A modem without a peer gets one: as long as one router can send, discovery
\* finds the modem although packets are lost, connects fail, routers disappear,
\* discoveries overlap and old sessions are still being torn down.  A peer
\* whose router has disappeared is a peer (see DeadPeerRemoved).
ModemDiscovered == \A m \in Modems : ~ModemHasPeer(m) ~> ModemHasPeer(m)

-----------------------------------------------------------------------------
(* What the comments and documents of the code say, and the code does not  *)
(* do.                                                                     *)

\* Dlep.cpp on peer_state: "modems can only have 1 peer (router)".
ModemHasOnePeer == \A m \in Modems : Cardinality(ModemPeers(m)) <= 1

\* Peer.cpp on terminate: the state is terminating "and the cleanup timer in
\* Dlep.cpp will eventually remove it".  No Peer of a router is replaced in the
\* map while it lives, where cleanup_ex_peers would no longer find it.
PeersMapped ==
  \A c \in Ids :
    conns[c].r \in PeerStates => peers[conns[c].router][conns[c].modem] = c

\* UserGuide.md on heartbeat-threshold: "Number of Heartbeat intervals to
\* wait, during which no signals (Heartbeat or otherwise) were received from
\* the peer, before declaring the peer to be dead and terminating the peer
\* session."  A peer whose router is gone is removed.
DeadPeerRemoved ==
  \A c \in Ids : conns[c].lost /\ conns[c].m \in PeerStates
                   ~> conns[c].m = "none"

=============================================================================
