----------------------------- MODULE DestAdvert -----------------------------
(***************************************************************************)
(* The Destination Advertisement protocol (DestAdvert.cpp on top of        *)
(* PeriodicMcastSendRcv.cpp).  Neighbour modems multicast the MAC          *)
(* addresses of their routers under their own RF ID; this modem keeps a    *)
(* table of the advertisements and translates what its client says about   *)
(* an RF ID (DlepService::destination_up, _update and _down, in            *)
(* DlepServiceImpl.cpp) into local destinations, which the session then    *)
(* reports to the router (module DlepSession).                             *)
(*                                                                         *)
(* Every operation on the table holds dest_advert_mutex and is one step.   *)
(* The multicast packets may be lost, delayed and reordered; the receiver  *)
(* never looks at their sequence number and uptime, which are left out.    *)
(* The data items of a call are a function from some metrics to values.    *)
(***************************************************************************)
EXTENDS Naturals, FiniteSets

CONSTANTS RFs,           \* RF IDs of the neighbour modems
          Dests,         \* MAC addresses of their routers
          HomeOf,        \* the modem each router is attached to
          Metrics,       \* the data items the client may give for an RF ID
          Absent,        \* no data items: the destination is not in the base
          HoldInterval,  \* destination-advert-hold-interval; 0: no limit
          ExpireCount,   \* destination-advert-expire-count; 0: never
          SendInterval,  \* destination-advert-send-interval of the neighbours
          MaxPeers,      \* bound: routers in session with one neighbour
          MaxAge,        \* bound: ages from here on are not told apart
          Faults         \* what may go wrong in this instance

ASSUME HomeAssumption == HomeOf \in [Dests -> RFs]

\* DestinationData::update: the metrics given replace those of before, the
\* others stay.
Merge(old, given) ==
  [i \in DOMAIN old \cup DOMAIN given |->
     IF i \in DOMAIN given THEN given[i] ELSE old[i]]

ASSUME MetricsAssumption ==
  /\ Absent \notin Metrics
  /\ \A m \in Metrics : m = [i \in DOMAIN m |-> m[i]]
  /\ \A old, given \in Metrics : Merge(old, given) \in Metrics
ASSUME IntervalAssumption ==
  /\ HoldInterval \in Nat /\ ExpireCount \in Nat
  /\ SendInterval \in Nat \ {0} /\ MaxPeers \in Nat /\ MaxAge \in Nat
ASSUME FaultsAssumption ==
  Faults \subseteq {"loss", "send_error", "restart", "repeat_up"}

VARIABLES sessions,      \* sessions[r]: routers in session with modem r
          destinations,  \* destinations[r]: what modem r advertises
          sending,       \* sending[r]: the send timer of modem r is running
          net,           \* advertisements on the air
          linked,        \* RF IDs that the client last declared up
          db,            \* dest_advert_db
          local_pdp      \* the local destinations and their metrics

neighbour == <<sessions, destinations, sending>>
vars == <<neighbour, net, linked, db, local_pdp>>

Home(r) == {d \in Dests : HomeOf[d] = r}

\* DestAdvertInfo, as build_destination_advert puts it into a packet.
Advert == [rfId : RFs, reportInterval : Nat, destinations : SUBSET Dests]

\* DestAdvertDBEntry; age is the time since its timestamp.  An entry that is
\* up has the metrics of the client.
Entry ==
  {e \in [known : BOOLEAN, up : BOOLEAN, placeholder : BOOLEAN, age : Nat,
          reportInterval : Nat, destinations : SUBSET Dests,
          data_items : Metrics \cup {Absent}] :
     e.up => e.known /\ e.data_items \in Metrics}

\* There is no entry: nothing of it matters.
NoEntry ==
  [known |-> FALSE, up |-> FALSE, placeholder |-> FALSE, age |-> 0,
   reportInterval |-> 0, destinations |-> {}, data_items |-> Absent]

TypeOK ==
  /\ sessions \in [RFs -> SUBSET Dests]
  /\ destinations \in [RFs -> SUBSET Dests]
  /\ sending \in [RFs -> BOOLEAN]
  /\ net \subseteq Advert
  /\ linked \subseteq RFs
  /\ db \in [RFs -> Entry]
  /\ local_pdp \in [Dests -> Metrics \cup {Absent}]

Init ==
  /\ sessions = [r \in RFs |-> {}]
  /\ destinations = [r \in RFs |-> {}]
  /\ sending = [r \in RFs |-> TRUE]
  /\ net = {}
  /\ linked = {}
  /\ db = [r \in RFs |-> NoEntry]
  /\ local_pdp = [d \in Dests |-> Absent]

-----------------------------------------------------------------------------
(* The information base: PeerData::addDestination, updateDestination and   *)
(* removeDestination for each destination of a set.                        *)

addDestinations(base, ds, m) ==
  [d \in Dests |-> IF d \in ds /\ base[d] = Absent THEN m ELSE base[d]]

updateDestinations(base, ds, m) ==
  [d \in Dests |-> IF d \in ds /\ base[d] # Absent THEN Merge(base[d], m) ELSE base[d]]

removeDestinations(base, ds) ==
  [d \in Dests |-> IF d \in ds THEN Absent ELSE base[d]]

-----------------------------------------------------------------------------
(* A neighbour modem.                                                      *)

\* The tail of Peer::handle_peer_initialization: the router is advertised.
add_destination(r, d) ==
  /\ d \in Home(r) \ sessions[r]
  /\ Cardinality(sessions[r]) < MaxPeers
  /\ sessions' = [sessions EXCEPT ![r] = @ \cup {d}]
  /\ destinations' = [destinations EXCEPT ![r] = @ \cup {d}]
  /\ UNCHANGED <<sending, net, linked, db, local_pdp>>

\* Peer::set_state_terminating clears the destinations.
clear_destinations(r, d) ==
  /\ d \in sessions[r]
  /\ sessions' = [sessions EXCEPT ![r] = @ \ {d}]
  /\ destinations' = [destinations EXCEPT ![r] = {}]
  /\ UNCHANGED <<sending, net, linked, db, local_pdp>>

\* The process of modem r ends and is started again.
Restart(r) ==
  /\ "restart" \in Faults
  /\ sessions' = [sessions EXCEPT ![r] = {}]
  /\ destinations' = [destinations EXCEPT ![r] = {}]
  /\ sending' = [sending EXCEPT ![r] = TRUE]
  /\ UNCHANGED <<net, linked, db, local_pdp>>

get_message_to_send(r) ==
  [rfId |-> r, reportInterval |-> SendInterval,
   destinations |-> destinations[r]]

\* The send timer expires: start_send, and handle_send, which arms the timer
\* again unless the send failed.
handle_send_timeout(r) ==
  /\ sending[r]
  /\ \/ net' = net \cup {get_message_to_send(r)} /\ UNCHANGED sending
     \/ /\ "send_error" \in Faults
        /\ sending' = [sending EXCEPT ![r] = FALSE]
        /\ UNCHANGED net
  /\ UNCHANGED <<sessions, destinations, linked, db, local_pdp>>

\* A packet is lost on the air.
Lose(a) ==
  /\ "loss" \in Faults
  /\ a \in net
  /\ net' = net \ {a}
  /\ UNCHANGED <<neighbour, linked, db, local_pdp>>

-----------------------------------------------------------------------------
(* This modem: the table.                                                  *)

\* Mutant of handle_message: an entry starts out up.
handle_message_starts_up(a) ==
  LET e == db[a.rfId]
      heard == [e EXCEPT !.known = TRUE, !.age = 0, !.up = @ \/ ~e.known,
                         !.reportInterval = a.reportInterval,
                         !.destinations = a.destinations]
  IN  /\ a \in net
      /\ net' = net \ {a}
      /\ db' = [db EXCEPT ![a.rfId] = heard]
      /\ UNCHANGED <<neighbour, linked, local_pdp>>

\* An advertisement arrives.  A new entry is down; an existing one keeps its
\* state, its metrics and its placeholder mark.
handle_message(a) ==
  LET e       == db[a.rfId]
      heard   == [e EXCEPT !.known = TRUE, !.age = 0,
                           !.reportInterval = a.reportInterval,
                           !.destinations = a.destinations]
      added   == a.destinations \ e.destinations
      deleted == e.destinations \ a.destinations
  IN  /\ a \in net
      /\ net' = net \ {a}
      /\ db' = [db EXCEPT ![a.rfId] = heard]
      /\ local_pdp' =
           IF e.up
           THEN removeDestinations(
                  addDestinations(local_pdp, added, e.data_items), deleted)
           ELSE local_pdp
      /\ UNCHANGED <<neighbour, linked>>

\* The conditions under which handle_purge_advert_timeout erases the entry:
\* the placeholder was held for too long, or the neighbour was not heard.
HeldTooLong(e) ==
  /\ e.known /\ HoldInterval > 0 /\ e.placeholder /\ e.up
  /\ e.age >= HoldInterval

Expired(e) ==
  /\ e.known /\ ~HeldTooLong(e) /\ ExpireCount > 0
  /\ e.age >= ExpireCount * e.reportInterval

\* Mutant of handle_purge_advert_timeout: destinations are left behind.
handle_purge_advert_timeout_leaves(erased) ==
  /\ erased = {r \in RFs : HeldTooLong(db[r]) \/ Expired(db[r])}
  /\ erased # {}
  /\ db' = [r \in RFs |-> IF r \in erased THEN NoEntry ELSE db[r]]
  /\ UNCHANGED <<neighbour, net, linked, local_pdp>>

\* A purge that erases the entries of erased; one that finds nothing to
\* erase changes nothing.  Only entries that expire take their destinations
\* down.
handle_purge_advert_timeout(erased) ==
  /\ erased = {r \in RFs : HeldTooLong(db[r]) \/ Expired(db[r])}
  /\ erased # {}
  /\ db' = [r \in RFs |-> IF r \in erased THEN NoEntry ELSE db[r]]
  /\ local_pdp' = removeDestinations(local_pdp,
       UNION {db[r].destinations : r \in {q \in RFs : Expired(db[q]) /\ db[q].up}})
  /\ UNCHANGED <<neighbour, net, linked>>

\* A second passes.
Tick ==
  /\ \E r \in RFs : db[r].known /\ db[r].age < MaxAge
  /\ db' = [r \in RFs |->
              IF db[r].known /\ db[r].age < MaxAge
              THEN [db[r] EXCEPT !.age = db[r].age + 1] ELSE db[r]]
  /\ UNCHANGED <<neighbour, net, linked, local_pdp>>

-----------------------------------------------------------------------------
(* This modem: the calls of its client.                                    *)

\* Mutant of destination_up: what was advertised before is not brought up.
destination_up_waits(r, m) ==
  /\ r \notin linked
  /\ linked' = linked \cup {r}
  /\ db' = [db EXCEPT ![r] = [@ EXCEPT !.known = TRUE, !.up = TRUE,
                                      !.data_items = m]]
  /\ UNCHANGED <<neighbour, net, local_pdp>>

\* An unknown RF ID becomes a placeholder; a known one brings up what it
\* advertises, unless it is up already, when only its metrics are replaced.
destination_up(r, m) ==
  /\ r \notin linked \/ "repeat_up" \in Faults
  /\ linked' = linked \cup {r}
  /\ db' = [db EXCEPT ![r] =
       [db[r] EXCEPT !.known = TRUE, !.up = TRUE, !.data_items = m,
                     !.placeholder = db[r].placeholder \/ ~db[r].known]]
  /\ local_pdp' = IF db[r].known /\ ~db[r].up
                  THEN addDestinations(local_pdp, db[r].destinations, m)
                  ELSE local_pdp
  /\ UNCHANGED <<neighbour, net>>

\* For an RF ID without an entry the call fails (no peer owns an RF ID).
destination_update(r, m) ==
  /\ r \in linked
  /\ db[r].known
  /\ db' = [db EXCEPT ![r].data_items = m]
  /\ local_pdp' = IF db[r].up
                  THEN updateDestinations(local_pdp, db[r].destinations, m)
                  ELSE local_pdp
  /\ UNCHANGED <<neighbour, net, linked>>

destination_down(r) ==
  /\ r \in linked
  /\ linked' = linked \ {r}
  /\ db' = [db EXCEPT ![r].up = FALSE]
  /\ local_pdp' = IF db[r].up
                  THEN removeDestinations(local_pdp, db[r].destinations)
                  ELSE local_pdp
  /\ UNCHANGED <<neighbour, net>>

-----------------------------------------------------------------------------
NeighbourStep(r) ==
  \/ \E d \in Dests : add_destination(r, d) \/ clear_destinations(r, d)
  \/ Restart(r)
  \/ handle_send_timeout(r)

ClientStep(r) ==
  \/ \E m \in Metrics : destination_up(r, m) \/ destination_update(r, m)
  \/ destination_down(r)

Next ==
  \/ \E r \in RFs : NeighbourStep(r) \/ ClientStep(r)
  \/ \E a \in net : handle_message(a) \/ Lose(a)
  \/ \E erased \in SUBSET RFs : handle_purge_advert_timeout(erased)
  \/ Tick

Spec == Init /\ [][Next]_vars

\* The io_service thread of each process runs expired timers and completed
\* reads; of the network, that it does not lose every copy of a packet.
FairSpec ==
  /\ Spec
  /\ \A r \in RFs : WF_vars(handle_send_timeout(r))
  /\ \A r \in RFs, ds \in SUBSET Dests :
       SF_vars(handle_message([rfId |-> r, reportInterval |-> SendInterval,
                               destinations |-> ds]))

-----------------------------------------------------------------------------
(* Properties.                                                             *)

\* The client has declared up the neighbour of d, which advertises d as far as
\* the table knows.
Declared(d) ==
  /\ HomeOf[d] \in linked
  /\ d \in db[HomeOf[d]].destinations

\* No local destination is left behind: each is one that the table has under an
\* RF ID which the client has declared up and not down since, whatever the
\* order of advertisements, restarts, expiries and client calls
\* (DestAdvert.cpp handle_message and handle_purge_advert_timeout,
\* DlepServiceImpl.cpp destination_up and _down).
NothingLeftBehind == \A d \in Dests : local_pdp[d] # Absent => Declared(d)

\* With the default of no expiry none is forgotten either: the local
\* destinations are exactly those that the RF IDs declared up advertise, as
\* Design.md says of an entry's state, "reflecting what the DlepClient has
\* declared for this RF_ID".  With an expiry this fails: an entry that is
\* erased and comes back with the next advertisement comes back down, although
\* its RF ID is still declared up (DestAdvert.cpp:133-138, 404).
DeclaredTranslated == \A d \in Dests : (local_pdp[d] # Absent) <=> Declared(d)

\* A modem advertises exactly the routers it is in session with: Peer.cpp
\* on clear_destinations: "clear all destinations associated with this peer".
AdvertisesItsRouters == \A r \in RFs : destinations[r] = sessions[r]

\* Nothing has been heard from r since its entry was made.
Unheard(r) == db[r].reportInterval = 0

\* UserGuide.md on destination-advert-hold-interval, the time to wait for an
\* advertisement after destination_up: "A value of 0 means wait forever."
\* No step drops an RF ID that is up and not yet heard from, but the client.
PendingKept ==
  [][\A r \in RFs : (HoldInterval = 0 /\ db[r].up /\ Unheard(r) /\ r \in linked')
       => db'[r].up]_vars

\* Design.md on the removal of placeholders: "This happens when the client
\* declares a destination to be up (LLDLEP::DlepService::destination_up) but
\* the corresponding Destination Advertisement does not arrive in time."
\* An RF ID that was heard from is only dropped by the client, or when it
\* expires.
HeardKept ==
  [][\A r \in RFs : (/\ db[r].up /\ ~Unheard(r) /\ r \in linked'
                    /\ ExpireCount = 0)
       => db'[r].up]_vars

\* Once a neighbour's routers and the link to it no longer change, the local
\* destinations become and stay the neighbour's, although packets are lost
\* and overtake each other.  As DeclaredTranslated, with the default of no
\* expiry.
Converges ==
  \A r \in RFs, ds \in SUBSET Dests :
    <>[](r \in linked /\ destinations[r] = ds) =>
      <>[](\A d \in Home(r) : (local_pdp[d] # Absent) <=> (d \in ds))

\* Design.md: "A periodic timer triggers Dlep to send a Destination
\* Advertisement."  Every neighbour sends again and again.
SendsForever == \A r \in RFs : []<>sending[r]

=============================================================================
