--------------------------- MODULE DiscoveryProofs ---------------------------
(***************************************************************************)
(* Proofs about Discovery, for any sets of routers, modems and connections  *)
(* and discoveries that overlap.  NoStaleEntry is inductive by itself,      *)
(* given the types.                                                         *)
(***************************************************************************)
EXTENDS Discovery, TLAPS

TypeOK ==
  /\ conns \in [Ids -> Conn]
  /\ peers \in [Routers -> [Modems -> Ids \cup {NoConn}]]
  /\ net \subseteq Packet
  /\ sending \in [Routers -> BOOLEAN]

\* What the steps of a session do to the Peer of one end.
ModemMoves(c) ==
  /\ conns[c].m \in PeerStates
  /\ \E s \in PeerStates : conns' = [conns EXCEPT ![c].m = s]
  /\ UNCHANGED <<peers, net, sending>>

RouterMoves(c) ==
  /\ conns[c].r \in PeerStates
  /\ \E s \in PeerStates : conns' = [conns EXCEPT ![c].r = s]
  /\ UNCHANGED <<peers, net, sending>>

LEMMA ConnMoves ==
  ASSUME NEW c \in Ids, ConnStep(c)
  PROVE  \/ ConnectDone(c) \/ ConnectFailed(c) \/ AcceptDone(c)
         \/ ModemMoves(c) \/ RouterMoves(c)
         \/ RouterCleanup(c) \/ ModemCleanup(c) \/ UnmappedPeerDestroyed(c)
<1> USE DEF PeerStates
<1>1. ASSUME ModemSessionUp(c) PROVE ModemMoves(c)
  BY <1>1 DEF ModemSessionUp, ModemMoves
<1>2. ASSUME RouterSessionUp(c) PROVE RouterMoves(c)
  BY <1>2 DEF RouterSessionUp, RouterMoves
<1>3. ASSUME ModemTerminates(c) PROVE ModemMoves(c)
  BY <1>3 DEF ModemTerminates, ModemMoves
<1>4. ASSUME RouterTerminates(c) PROVE RouterMoves(c)
  BY <1>4 DEF RouterTerminates, RouterMoves
<1>5. ASSUME ModemReadsEnd(c) PROVE ModemMoves(c)
  BY <1>5 DEF ModemReadsEnd, ModemMoves
<1>6. ASSUME RouterReadsEnd(c) PROVE RouterMoves(c)
  BY <1>6 DEF RouterReadsEnd, RouterMoves
<1>7. ASSUME ModemFindsInactive(c) PROVE ModemMoves(c)
  BY <1>7 DEF ModemFindsInactive, ModemMoves
<1> QED
  BY ConnStep(c), <1>1, <1>2, <1>3, <1>4, <1>5, <1>6, <1>7 DEF ConnStep

-----------------------------------------------------------------------------
(* Types *)

LEMMA TypeInit == Init => TypeOK
  BY DEF Init, TypeOK, Conn, RouterStates, ModemStates, PeerStates

LEMMA TypeNext == TypeOK /\ [Next]_vars => TypeOK'
<1> SUFFICES ASSUME TypeOK, [Next]_vars PROVE TypeOK'
  OBVIOUS
<1> USE DEF TypeOK, Conn, RouterStates, ModemStates, PeerStates
<1>1. ASSUME NEW r \in Routers, SendDiscovery(r) PROVE TypeOK'
  BY <1>1 DEF SendDiscovery, Packet
<1>2. ASSUME NEW r \in Routers, Vanish(r) PROVE TypeOK'
  <2>1. ASSUME NEW c \in Ids PROVE conns'[c] \in Conn
    <3> DEFINE gone == conns[c].m \in ModemStates \ {"none"}
    <3>1. gone \in BOOLEAN
      OBVIOUS
    <3> HIDE DEF gone
    <3>2. [conns[c] EXCEPT !.r = "none", !.lost = gone] \in Conn
      BY <3>1
    <3> QED
      BY <1>2, <3>2 DEF Vanish, gone
  <2>2. conns' \in [Ids -> Conn]
    <3> HIDE DEF Conn
    <3> QED
      BY <1>2, <2>1 DEF Vanish
  <2> QED
    BY <1>2, <2>2 DEF Vanish
<1>3. ASSUME NEW p \in net, PacketStep(p) PROVE TypeOK'
  <2>1. p \in Packet
    OBVIOUS
  <2>2. CASE Lose(p)
    BY <2>2 DEF Lose
  <2>3. CASE handle_discovery(p)
    <3>1. send_peer_offer(p) \in Packet
      BY <2>1 DEF send_peer_offer, Packet
    <3> QED
      BY <3>1, <2>3 DEF handle_discovery
  <2>4. ASSUME NEW c \in Ids, handle_peer_offer(p, c) PROVE TypeOK'
    <3>1. CASE UNCHANGED conns
      BY <2>4, <3>1 DEF handle_peer_offer
    <3>2. CASE start_async_connect(c, p.router, p.modem)
      BY <2>1, <2>4, <3>2 DEF handle_peer_offer, start_async_connect, Packet
    <3> QED
      BY <2>4, <3>1, <3>2 DEF handle_peer_offer
  <2> QED
    BY <1>3, <2>2, <2>3, <2>4 DEF PacketStep
<1>4. ASSUME NEW c \in Ids, ConnStep(c) PROVE TypeOK'
  <2>1. CASE ConnectDone(c)
    BY <2>1 DEF ConnectDone
  <2>2. CASE ConnectFailed(c)
    BY <2>2 DEF ConnectFailed
  <2>3. CASE AcceptDone(c)
    BY <2>3 DEF AcceptDone
  <2>4. CASE ModemMoves(c)
    BY <2>4 DEF ModemMoves
  <2>5. CASE RouterMoves(c)
    BY <2>5 DEF RouterMoves
  <2>6. CASE RouterCleanup(c)
    BY <2>6 DEF RouterCleanup
  <2>7. CASE ModemCleanup(c)
    BY <2>7 DEF ModemCleanup
  <2>8. CASE UnmappedPeerDestroyed(c)
    BY <2>8 DEF UnmappedPeerDestroyed
  <2> QED
    BY <1>4, ConnMoves, <2>1, <2>2, <2>3, <2>4, <2>5, <2>6, <2>7, <2>8
<1>5. CASE UNCHANGED vars
  BY <1>5 DEF vars
<1> QED
  BY <1>1, <1>2, <1>3, <1>4, <1>5 DEF Next

-----------------------------------------------------------------------------
(* The maps of the routers *)

LEMMA NoStaleInit == Init => NoStaleEntry
  BY DEF Init, NoStaleEntry

LEMMA NoStaleNext == TypeOK /\ NoStaleEntry /\ [Next]_vars => NoStaleEntry'
<1> SUFFICES ASSUME TypeOK, NoStaleEntry, [Next]_vars PROVE NoStaleEntry'
  OBVIOUS
<1> USE IdsAssumption DEF TypeOK, NoStaleEntry, Conn, PeerStates
<1>1. ASSUME NEW r \in Routers, SendDiscovery(r) PROVE NoStaleEntry'
  BY <1>1 DEF SendDiscovery
<1>2. ASSUME NEW r \in Routers, Vanish(r) PROVE NoStaleEntry'
  <2> SUFFICES ASSUME NEW s \in Routers, NEW m \in Modems, peers'[s][m] # NoConn
               PROVE  LET c == conns'[peers'[s][m]]
                      IN  c.router = s /\ c.modem = m /\ c.r \in PeerStates
    OBVIOUS
  <2>1. s # r /\ peers'[s] = peers[s]
    BY <1>2 DEF Vanish
  <2>2. peers[s][m] \in Ids /\ conns[peers[s][m]].router = s
    BY <2>1
  <2>3. conns'[peers[s][m]] = conns[peers[s][m]]
    BY <1>2, <2>1, <2>2 DEF Vanish
  <2> QED
    BY <2>1, <2>2, <2>3
<1>3. ASSUME NEW p \in net, PacketStep(p) PROVE NoStaleEntry'
  <2>1. CASE Lose(p)
    BY <2>1 DEF Lose
  <2>2. CASE handle_discovery(p)
    BY <2>2 DEF handle_discovery
  <2>3. ASSUME NEW c \in Ids, handle_peer_offer(p, c) PROVE NoStaleEntry'
    <3>1. CASE UNCHANGED conns
      BY <2>3, <3>1 DEF handle_peer_offer
    <3>2. CASE Free(c) /\ start_async_connect(c, p.router, p.modem)
      BY <2>3, <3>2 DEF handle_peer_offer, start_async_connect, Free
    <3> QED
      BY <2>3, <3>1, <3>2 DEF handle_peer_offer
  <2> QED
    BY <1>3, <2>1, <2>2, <2>3 DEF PacketStep
<1>4. ASSUME NEW c \in Ids, ConnStep(c) PROVE NoStaleEntry'
  <2>1. CASE ConnectDone(c)
    BY <2>1 DEF ConnectDone
  <2>2. CASE ConnectFailed(c)
    BY <2>2 DEF ConnectFailed
  <2>3. CASE AcceptDone(c)
    BY <2>3 DEF AcceptDone
  <2>4. CASE ModemMoves(c)
    BY <2>4 DEF ModemMoves
  <2>5. CASE RouterMoves(c)
    BY <2>5 DEF RouterMoves
  <2>6. CASE RouterCleanup(c)
    BY <2>6 DEF RouterCleanup
  <2>7. CASE ModemCleanup(c)
    BY <2>7 DEF ModemCleanup
  <2>8. CASE UnmappedPeerDestroyed(c)
    BY <2>8 DEF UnmappedPeerDestroyed
  <2> QED
    BY <1>4, ConnMoves, <2>1, <2>2, <2>3, <2>4, <2>5, <2>6, <2>7, <2>8
<1>5. CASE UNCHANGED vars
  BY <1>5 DEF vars
<1> QED
  BY <1>1, <1>2, <1>3, <1>4, <1>5 DEF Next

\* The entries of a router's map are live Peers of that modem, with any number
\* of routers and whatever packets, connects and hosts fail: a router does not
\* ignore the offers of a modem for a peer it no longer has
\* (cleanup_ex_peers, handle_async_make_peer).
THEOREM EntriesLive == Spec => []NoStaleEntry
<1>1. Init => TypeOK /\ NoStaleEntry
  BY TypeInit, NoStaleInit
<1>2. TypeOK /\ NoStaleEntry /\ [Next]_vars => (TypeOK /\ NoStaleEntry)'
  BY TypeNext, NoStaleNext
<1> QED
  BY <1>1, <1>2, PTL DEF Spec

=============================================================================
