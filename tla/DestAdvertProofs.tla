-------------------------- MODULE DestAdvertProofs --------------------------
(***************************************************************************)
(* For any number of neighbours and routers and any faults: as long as     *)
(* placeholders are not held for a limited time, no local destination is   *)
(* left behind, with any expiry; and without expiry none is forgotten, so  *)
(* that the local destinations are what the client has declared up and the *)
(* neighbours advertise.                                                   *)
(***************************************************************************)
EXTENDS DestAdvert, TLAPS

\* Only a modem's own routers travel under its RF ID, so two entries never
\* speak of the same destination, and an unknown RF ID speaks of none.
HomesKept ==
  /\ \A r \in RFs : destinations[r] \subseteq Home(r)
  /\ \A a \in net : a.destinations \subseteq Home(a.rfId)
  /\ \A r \in RFs : db[r].destinations \subseteq Home(r)
  /\ \A r \in RFs : db[r].known \/ db[r].destinations = {}

\* The local destinations are the translation of the table.
TableUp(d) ==
  /\ db[HomeOf[d]].up
  /\ d \in db[HomeOf[d]].destinations

Translated == \A d \in Dests : (local_pdp[d] # Absent) <=> TableUp(d)

\* The inductive invariant.
AdvertInv == TypeOK /\ HomesKept /\ Translated

\* The initial state satisfies the invariant.
LEMMA InitAdvertInv == Init => AdvertInv
  BY HomeAssumption
  DEF Init, AdvertInv, TypeOK, HomesKept, Translated, TableUp, Entry,
      NoEntry, Home

\* Erasing entries that expired: with HoldInterval = 0 no entry is erased
\* without its destinations.
LEMMA PurgeAdvertInv ==
  ASSUME AdvertInv, HoldInterval = 0,
         NEW erased \in SUBSET RFs, handle_purge_advert_timeout(erased)
  PROVE  AdvertInv'
<1> DEFINE gone == {q \in RFs : Expired(db[q]) /\ db[q].up}
<1>1. erased = {r \in RFs : Expired(db[r])}
  BY DEF handle_purge_advert_timeout, HeldTooLong
<1>2. /\ db' = [r \in RFs |-> IF r \in erased THEN NoEntry ELSE db[r]]
      /\ local_pdp' = [d \in Dests |->
           IF d \in UNION {db[r].destinations : r \in gone}
           THEN Absent ELSE local_pdp[d]]
      /\ UNCHANGED <<sessions, destinations, sending, net, linked>>
  BY DEF handle_purge_advert_timeout, removeDestinations, neighbour
<1>3. TypeOK'
  <2>1. NoEntry \in Entry
    BY DEF NoEntry, Entry
  <2> QED
    BY <1>2, <2>1 DEF AdvertInv, TypeOK
<1>4. HomesKept'
  BY <1>2 DEF AdvertInv, HomesKept, NoEntry, Home
<1>5. Translated'
  <2> SUFFICES ASSUME NEW d \in Dests
               PROVE  (local_pdp'[d] # Absent) <=> TableUp(d)'
    BY DEF Translated
  <2>1. HomeOf[d] \in RFs
    BY HomeAssumption
  <2>2. (local_pdp[d] # Absent) <=> TableUp(d)
    BY DEF AdvertInv, Translated
  <2>3. ASSUME NEW r \in gone, d \in db[r].destinations
        PROVE  r = HomeOf[d]
    BY <2>3 DEF AdvertInv, HomesKept, Home
  <2>4. CASE HomeOf[d] \in erased
    <3>1. ~TableUp(d)'
      BY <2>1, <2>4, <1>2 DEF TableUp, NoEntry
    <3>2. local_pdp'[d] = Absent
      <4>1. CASE TableUp(d)
        <5>1. HomeOf[d] \in gone /\ d \in db[HomeOf[d]].destinations
          BY <4>1, <2>1, <2>4, <1>1 DEF TableUp
        <5> QED
          BY <5>1, <1>2
      <4>2. CASE ~TableUp(d)
        BY <4>2, <2>2, <1>2
      <4> QED
        BY <4>1, <4>2
    <3> QED
      BY <3>1, <3>2
  <2>5. CASE HomeOf[d] \notin erased
    <3>1. HomeOf[d] \notin gone
      BY <2>5, <1>1
    <3>2. d \notin UNION {db[r].destinations : r \in gone}
      BY <3>1, <2>3
    <3>3. local_pdp'[d] = local_pdp[d]
      BY <3>2, <1>2
    <3>4. TableUp(d)' <=> TableUp(d)
      BY <2>1, <2>5, <1>2 DEF TableUp
    <3> QED
      BY <3>3, <3>4, <2>2
  <2> QED
    BY <2>4, <2>5
<1> QED
  BY <1>3, <1>4, <1>5 DEF AdvertInv

\* An advertisement arrives: the difference of the old and the new
\* destinations is exactly what changes.
LEMMA MessageAdvertInv ==
  ASSUME AdvertInv, NEW a \in net, handle_message(a)
  PROVE  AdvertInv'
<1> DEFINE r == a.rfId
           e == db[a.rfId]
           heard == [e EXCEPT !.known = TRUE, !.age = 0,
                              !.reportInterval = a.reportInterval,
                              !.destinations = a.destinations]
<1>1. /\ a \in Advert /\ r \in RFs /\ e \in Entry
      /\ a.destinations \subseteq Dests /\ a.reportInterval \in Nat
  BY DEF AdvertInv, TypeOK, Advert
<1>2. /\ heard \in Entry
      /\ heard.known /\ heard.destinations = a.destinations
      /\ heard.up = e.up
  BY <1>1 DEF Entry
<1>3. /\ net' = net \ {a}
      /\ db' = [db EXCEPT ![r] = heard]
      /\ UNCHANGED <<sessions, destinations, sending, linked>>
      /\ local_pdp' =
           IF e.up
           THEN removeDestinations(
                  addDestinations(local_pdp, a.destinations \ e.destinations,
                                  e.data_items),
                  e.destinations \ a.destinations)
           ELSE local_pdp
  BY DEF handle_message, neighbour
<1> HIDE DEF heard
<1>4. local_pdp' \in [Dests -> Metrics \cup {Absent}]
  BY <1>1, <1>3
  DEF AdvertInv, TypeOK, Entry, addDestinations, removeDestinations
<1>5. TypeOK'
  BY <1>1, <1>2, <1>3, <1>4 DEF AdvertInv, TypeOK
<1>6. HomesKept'
  BY <1>1, <1>2, <1>3 DEF AdvertInv, HomesKept, TypeOK, Home
<1>7. Translated'
  <2> SUFFICES ASSUME NEW d \in Dests
               PROVE  (local_pdp'[d] # Absent) <=> TableUp(d)'
    BY DEF Translated
  <2>1. HomeOf[d] \in RFs
    BY HomeAssumption
  <2>2. (local_pdp[d] # Absent) <=> TableUp(d)
    BY DEF AdvertInv, Translated
  <2>3. CASE HomeOf[d] = r
    <3>1. TableUp(d)' <=> e.up /\ d \in a.destinations
      BY <2>3, <1>1, <1>2, <1>3 DEF TableUp, AdvertInv, TypeOK
    <3>2. TableUp(d) <=> e.up /\ d \in e.destinations
      BY <2>3 DEF TableUp
    <3>3. CASE e.up
      <4>1. e.data_items # Absent
        BY <3>3, <1>1, MetricsAssumption DEF Entry
      <4> QED
        BY <3>1, <3>2, <3>3, <4>1, <2>2, <1>3
        DEF addDestinations, removeDestinations
    <3>4. CASE ~e.up
      BY <3>1, <3>2, <3>4, <2>2, <1>3
    <3> QED
      BY <3>3, <3>4
  <2>4. CASE HomeOf[d] # r
    <3>1. d \notin a.destinations /\ d \notin e.destinations
      BY <2>4, <1>1 DEF AdvertInv, HomesKept, Home
    <3>2. local_pdp'[d] = local_pdp[d]
      BY <3>1, <1>3, <1>1 DEF addDestinations, removeDestinations
    <3>3. TableUp(d)' <=> TableUp(d)
      BY <2>1, <2>4, <1>3 DEF TableUp, AdvertInv, TypeOK
    <3> QED
      BY <3>2, <3>3, <2>2
  <2> QED
    BY <2>3, <2>4
<1> QED
  BY <1>5, <1>6, <1>7 DEF AdvertInv

\* The client calls about one RF ID change its entry, and with it the
\* destinations that are at home there.
LEMMA UpAdvertInv ==
  ASSUME AdvertInv, NEW r \in RFs, NEW m \in Metrics, destination_up(r, m)
  PROVE  AdvertInv'
<1> DEFINE e == db[r]
           up == [e EXCEPT !.known = TRUE, !.up = TRUE, !.data_items = m,
                           !.placeholder = e.placeholder \/ ~e.known]
<1>1. e \in Entry
  BY DEF AdvertInv, TypeOK
<1>2. /\ up \in Entry
      /\ up.known /\ up.up /\ up.destinations = e.destinations
  BY <1>1 DEF Entry
<1>3. /\ db' = [db EXCEPT ![r] = up]
      /\ UNCHANGED <<sessions, destinations, sending, net>>
      /\ linked' = linked \cup {r}
      /\ local_pdp' = IF e.known /\ ~e.up
                      THEN addDestinations(local_pdp, e.destinations, m)
                      ELSE local_pdp
  BY DEF destination_up, neighbour
<1> HIDE DEF up
<1>4. local_pdp' \in [Dests -> Metrics \cup {Absent}]
  BY <1>3 DEF AdvertInv, TypeOK, addDestinations
<1>5. TypeOK'
  BY <1>2, <1>3, <1>4 DEF AdvertInv, TypeOK
<1>6. HomesKept'
  BY <1>1, <1>2, <1>3 DEF AdvertInv, HomesKept, TypeOK, Home
<1>7. Translated'
  <2> SUFFICES ASSUME NEW d \in Dests
               PROVE  (local_pdp'[d] # Absent) <=> TableUp(d)'
    BY DEF Translated
  <2>1. HomeOf[d] \in RFs
    BY HomeAssumption
  <2>2. (local_pdp[d] # Absent) <=> TableUp(d)
    BY DEF AdvertInv, Translated
  <2>3. CASE HomeOf[d] = r
    <3>1. TableUp(d)' <=> d \in e.destinations
      BY <2>3, <1>2, <1>3 DEF TableUp, AdvertInv, TypeOK
    <3>2. TableUp(d) <=> e.up /\ d \in e.destinations
      BY <2>3 DEF TableUp
    <3>3. CASE e.known /\ ~e.up
      BY <3>1, <3>2, <3>3, <2>2, <1>3, MetricsAssumption DEF addDestinations
    <3>4. CASE ~e.known
      BY <3>1, <3>2, <3>4, <2>2, <1>3 DEF AdvertInv, HomesKept
    <3>5. CASE e.up
      BY <3>1, <3>2, <3>5, <2>2, <1>3
    <3> QED
      BY <3>3, <3>4, <3>5
  <2>4. CASE HomeOf[d] # r
    <3>1. d \notin e.destinations
      BY <2>4 DEF AdvertInv, HomesKept, Home
    <3>2. local_pdp'[d] = local_pdp[d]
      BY <3>1, <1>3 DEF addDestinations
    <3>3. TableUp(d)' <=> TableUp(d)
      BY <2>1, <2>4, <1>3 DEF TableUp, AdvertInv, TypeOK
    <3> QED
      BY <3>2, <3>3, <2>2
  <2> QED
    BY <2>3, <2>4
<1> QED
  BY <1>5, <1>6, <1>7 DEF AdvertInv

\* destination_update replaces metrics and brings nothing up or down.
LEMMA UpdateAdvertInv ==
  ASSUME AdvertInv, NEW r \in RFs, NEW m \in Metrics,
         destination_update(r, m)
  PROVE  AdvertInv'
<1> DEFINE e == db[r]
           updated == [e EXCEPT !.data_items = m]
<1>1. e \in Entry
  BY DEF AdvertInv, TypeOK
<1>2. /\ updated \in Entry
      /\ updated.known = e.known /\ updated.up = e.up
      /\ updated.destinations = e.destinations
  BY <1>1 DEF Entry
<1>3. /\ db' = [db EXCEPT ![r] = updated]
      /\ UNCHANGED <<sessions, destinations, sending, net, linked>>
      /\ local_pdp' = IF e.up
                      THEN updateDestinations(local_pdp, e.destinations, m)
                      ELSE local_pdp
  BY DEF destination_update, neighbour
<1> HIDE DEF updated
<1>4. local_pdp' \in [Dests -> Metrics \cup {Absent}]
  <2>1. \A d \in Dests : local_pdp[d] # Absent => Merge(local_pdp[d], m) \in Metrics
    BY MetricsAssumption DEF AdvertInv, TypeOK
  <2> QED
    BY <1>3, <2>1 DEF AdvertInv, TypeOK, updateDestinations
<1>5. TypeOK'
  BY <1>2, <1>3, <1>4 DEF AdvertInv, TypeOK
<1>6. HomesKept'
  BY <1>1, <1>2, <1>3 DEF AdvertInv, HomesKept, TypeOK, Home
<1>7. Translated'
  <2> SUFFICES ASSUME NEW d \in Dests
               PROVE  (local_pdp'[d] # Absent) <=> TableUp(d)'
    BY DEF Translated
  <2>1. HomeOf[d] \in RFs
    BY HomeAssumption
  <2>2. (local_pdp[d] # Absent) <=> TableUp(d)
    BY DEF AdvertInv, Translated
  <2>3. TableUp(d)' <=> TableUp(d)
    BY <2>1, <1>2, <1>3 DEF TableUp, AdvertInv, TypeOK
  <2>4. (local_pdp'[d] # Absent) <=> (local_pdp[d] # Absent)
    <3>1. local_pdp[d] # Absent => Merge(local_pdp[d], m) # Absent
      BY MetricsAssumption DEF AdvertInv, TypeOK
    <3> QED
      BY <1>3, <3>1 DEF updateDestinations
  <2> QED
    BY <2>2, <2>3, <2>4
<1> QED
  BY <1>5, <1>6, <1>7 DEF AdvertInv

\* destination_down takes down what the entry had brought up.
LEMMA DownAdvertInv ==
  ASSUME AdvertInv, NEW r \in RFs, destination_down(r)
  PROVE  AdvertInv'
<1> DEFINE e == db[r]
           down == [e EXCEPT !.up = FALSE]
<1>1. e \in Entry
  BY DEF AdvertInv, TypeOK
<1>2. /\ down \in Entry
      /\ down.known = e.known /\ ~down.up
      /\ down.destinations = e.destinations
  BY <1>1 DEF Entry
<1>3. /\ db' = [db EXCEPT ![r] = down]
      /\ UNCHANGED <<sessions, destinations, sending, net>>
      /\ linked' = linked \ {r}
      /\ local_pdp' = IF e.up
                      THEN removeDestinations(local_pdp, e.destinations)
                      ELSE local_pdp
  BY DEF destination_down, neighbour
<1> HIDE DEF down
<1>4. local_pdp' \in [Dests -> Metrics \cup {Absent}]
  BY <1>3 DEF AdvertInv, TypeOK, removeDestinations
<1>5. TypeOK'
  BY <1>2, <1>3, <1>4 DEF AdvertInv, TypeOK
<1>6. HomesKept'
  BY <1>1, <1>2, <1>3 DEF AdvertInv, HomesKept, TypeOK, Home
<1>7. Translated'
  <2> SUFFICES ASSUME NEW d \in Dests
               PROVE  (local_pdp'[d] # Absent) <=> TableUp(d)'
    BY DEF Translated
  <2>1. HomeOf[d] \in RFs
    BY HomeAssumption
  <2>2. (local_pdp[d] # Absent) <=> TableUp(d)
    BY DEF AdvertInv, Translated
  <2>3. CASE HomeOf[d] = r
    <3>1. ~TableUp(d)'
      BY <2>3, <1>2, <1>3 DEF TableUp, AdvertInv, TypeOK
    <3>2. local_pdp'[d] = Absent
      BY <2>2, <2>3, <1>3 DEF TableUp, removeDestinations
    <3> QED
      BY <3>1, <3>2
  <2>4. CASE HomeOf[d] # r
    <3>1. d \notin e.destinations
      BY <2>4 DEF AdvertInv, HomesKept, Home
    <3>2. local_pdp'[d] = local_pdp[d]
      BY <3>1, <1>3 DEF removeDestinations
    <3>3. TableUp(d)' <=> TableUp(d)
      BY <2>1, <2>4, <1>3 DEF TableUp, AdvertInv, TypeOK
    <3> QED
      BY <3>2, <3>3, <2>2
  <2> QED
    BY <2>3, <2>4
<1> QED
  BY <1>5, <1>6, <1>7 DEF AdvertInv

\* The steps of a neighbour and of the network leave this modem alone and put
\* nothing but a modem's own routers on the air.
LEMMA NeighbourAdvertInv ==
  ASSUME AdvertInv,
         \/ \E r \in RFs : NeighbourStep(r)
         \/ \E a \in net : Lose(a)
  PROVE  AdvertInv'
<1>1. UNCHANGED <<linked, db, local_pdp>>
  BY DEF NeighbourStep, add_destination, clear_destinations, Restart,
         handle_send_timeout, Lose
<1>2. Translated'
  BY <1>1 DEF AdvertInv, Translated, TableUp
<1>3. ASSUME NEW r \in RFs, handle_send_timeout(r)
      PROVE  TypeOK' /\ HomesKept'
  <2>1. get_message_to_send(r) \in Advert
    BY IntervalAssumption DEF AdvertInv, TypeOK, Advert, get_message_to_send
  <2>2. /\ get_message_to_send(r).rfId = r
        /\ get_message_to_send(r).destinations = destinations[r]
    BY DEF get_message_to_send
  <2>3. net' \in {net, net \cup {get_message_to_send(r)}}
    BY <1>3 DEF handle_send_timeout
  <2>4. sending' \in [RFs -> BOOLEAN]
    BY <1>3 DEF handle_send_timeout, AdvertInv, TypeOK
  <2>5. UNCHANGED <<sessions, destinations>>
    BY <1>3 DEF handle_send_timeout
  <2> HIDE DEF get_message_to_send
  <2>6. TypeOK'
    BY <1>1, <2>1, <2>3, <2>4, <2>5 DEF AdvertInv, TypeOK
  <2>7. HomesKept'
    BY <1>1, <2>2, <2>3, <2>5 DEF AdvertInv, HomesKept, Home
  <2> QED
    BY <2>6, <2>7
<1>4. ASSUME NEW r \in RFs, NEW d \in Dests,
             add_destination(r, d) \/ clear_destinations(r, d)
      PROVE  TypeOK' /\ HomesKept'
  <2>1. /\ sessions' \in [RFs -> SUBSET Dests]
        /\ destinations' \in [RFs -> SUBSET Dests]
    BY <1>4
    DEF add_destination, clear_destinations, Home, AdvertInv, TypeOK
  <2>2. \A q \in RFs : destinations'[q] \subseteq Home(q)
    BY <1>4
    DEF add_destination, clear_destinations, Home, AdvertInv, TypeOK,
        HomesKept
  <2>3. UNCHANGED <<sending, net>>
    BY <1>4 DEF add_destination, clear_destinations
  <2>4. TypeOK'
    BY <1>1, <2>1, <2>3 DEF AdvertInv, TypeOK
  <2>5. HomesKept'
    BY <1>1, <2>2, <2>3 DEF AdvertInv, HomesKept, Home
  <2> QED
    BY <2>4, <2>5
<1>5. ASSUME NEW r \in RFs, Restart(r)
      PROVE  TypeOK' /\ HomesKept'
  BY <1>1, <1>5 DEF AdvertInv, TypeOK, HomesKept, Home, Restart
<1>6. ASSUME NEW a \in net, Lose(a)
      PROVE  TypeOK' /\ HomesKept'
  BY <1>1, <1>6 DEF AdvertInv, TypeOK, HomesKept, Home, Lose, neighbour
<1> QED
  BY <1>2, <1>3, <1>4, <1>5, <1>6 DEF AdvertInv, NeighbourStep

\* Time changes ages only.
LEMMA TickAdvertInv ==
  ASSUME AdvertInv, Tick
  PROVE  AdvertInv'
<1>1. /\ UNCHANGED <<sessions, destinations, sending, net, linked, local_pdp>>
      /\ db' = [r \in RFs |->
                  IF db[r].known /\ db[r].age < MaxAge
                  THEN [db[r] EXCEPT !.age = db[r].age + 1] ELSE db[r]]
  BY DEF Tick, neighbour
<1>2. ASSUME NEW r \in RFs
      PROVE  /\ db'[r] \in Entry
             /\ db'[r].known = db[r].known /\ db'[r].up = db[r].up
             /\ db'[r].destinations = db[r].destinations
  <2>1. db[r] \in Entry
    BY DEF AdvertInv, TypeOK
  <2>2. db'[r] = db[r] \/ db'[r] = [db[r] EXCEPT !.age = db[r].age + 1]
    BY <1>1
  <2> QED
    BY <2>1, <2>2 DEF Entry
<1>3. TypeOK'
  BY <1>1, <1>2 DEF AdvertInv, TypeOK
<1>4. HomesKept'
  BY <1>1, <1>2 DEF AdvertInv, HomesKept, Home
<1>5. Translated'
  BY <1>1, <1>2, HomeAssumption DEF AdvertInv, Translated, TableUp
<1> QED
  BY <1>3, <1>4, <1>5 DEF AdvertInv

\* Every step preserves the invariant.
LEMMA NextAdvertInv ==
  ASSUME HoldInterval = 0, AdvertInv, [Next]_vars
  PROVE  AdvertInv'
<1>1. CASE UNCHANGED vars
  BY <1>1
  DEF vars, neighbour, AdvertInv, TypeOK, HomesKept, Translated, TableUp
<1>2. ASSUME NEW r \in RFs, ClientStep(r)
      PROVE  AdvertInv'
  BY <1>2, UpAdvertInv, UpdateAdvertInv, DownAdvertInv DEF ClientStep
<1>3. ASSUME NEW a \in net, handle_message(a)
      PROVE  AdvertInv'
  BY <1>3, MessageAdvertInv
<1>4. ASSUME NEW erased \in SUBSET RFs, handle_purge_advert_timeout(erased)
      PROVE  AdvertInv'
  BY <1>4, PurgeAdvertInv
<1> QED
  BY <1>1, <1>2, <1>3, <1>4, TickAdvertInv, NeighbourAdvertInv DEF Next

\* What is up in the table was declared up, and not down since; the reverse
\* is true of a table that nothing is erased from.
UpLinked == \A r \in RFs : db[r].up => r \in linked
LinkedUp == \A r \in linked : db[r].up

\* The state of an entry changes with the client's calls only, and when the
\* entry is erased.
LEMMA NextLinked ==
  ASSUME HoldInterval = 0, AdvertInv, [Next]_vars
  PROVE  /\ UpLinked => UpLinked'
         /\ ExpireCount = 0 /\ LinkedUp => LinkedUp'
<1> DEFINE Goal == (UpLinked => UpLinked') /\ (ExpireCount = 0 /\ LinkedUp => LinkedUp')
<1>1. db \in [RFs -> Entry] /\ linked \subseteq RFs /\ \A a \in net : a.rfId \in RFs
  BY DEF AdvertInv, TypeOK, Advert
<1>2. ASSUME UNCHANGED linked, \A r \in RFs : db'[r].up = db[r].up
      PROVE  Goal
  BY <1>1, <1>2 DEF UpLinked, LinkedUp
<1>3. ASSUME NEW r \in RFs, NEW m \in Metrics, destination_up(r, m) PROVE Goal
  <2> DEFINE up == [db[r] EXCEPT !.known = TRUE, !.up = TRUE, !.data_items = m,
                                 !.placeholder = db[r].placeholder \/ ~db[r].known]
  <2>1. up.up = TRUE
    BY <1>1 DEF Entry
  <2>2. db' = [db EXCEPT ![r] = up] /\ linked' = linked \cup {r}
    BY <1>3 DEF destination_up
  <2> HIDE DEF up
  <2> QED
    BY <1>1, <2>1, <2>2 DEF UpLinked, LinkedUp
<1>4. ASSUME NEW r \in RFs, NEW m \in Metrics, destination_update(r, m) PROVE Goal
  <2> DEFINE given == [db[r] EXCEPT !.data_items = m]
  <2>1. given.up = db[r].up
    BY <1>1 DEF Entry
  <2>2. db' = [db EXCEPT ![r] = given] /\ UNCHANGED linked
    BY <1>4 DEF destination_update
  <2> HIDE DEF given
  <2> QED
    BY <1>1, <1>2, <2>1, <2>2
<1>5. ASSUME NEW r \in RFs, destination_down(r) PROVE Goal
  <2> DEFINE down == [db[r] EXCEPT !.up = FALSE]
  <2>1. down.up = FALSE
    BY <1>1 DEF Entry
  <2>2. db' = [db EXCEPT ![r] = down] /\ linked' = linked \ {r}
    BY <1>5 DEF destination_down
  <2> HIDE DEF down
  <2> QED
    BY <1>1, <2>1, <2>2 DEF UpLinked, LinkedUp
<1>6. ASSUME NEW a \in net, handle_message(a) PROVE Goal
  <2> DEFINE e == db[a.rfId]
             heard == [e EXCEPT !.known = TRUE, !.age = 0,
                                !.reportInterval = a.reportInterval,
                                !.destinations = a.destinations]
  <2>1. heard.up = e.up
    BY <1>1 DEF Entry
  <2>2. db' = [db EXCEPT ![a.rfId] = heard] /\ UNCHANGED linked
    BY <1>6 DEF handle_message
  <2> HIDE DEF heard
  <2> QED
    BY <1>1, <1>2, <2>1, <2>2
<1>7. ASSUME NEW erased \in SUBSET RFs, handle_purge_advert_timeout(erased) PROVE Goal
  <2>1. db' = [r \in RFs |-> IF r \in erased THEN NoEntry ELSE db[r]] /\ UNCHANGED linked
    BY <1>7 DEF handle_purge_advert_timeout
  <2>2. UpLinked => UpLinked'
    BY <2>1 DEF UpLinked, NoEntry
  <2>3. ExpireCount # 0
    BY <1>7 DEF handle_purge_advert_timeout, HeldTooLong, Expired
  <2> QED
    BY <2>2, <2>3
<1>8. ASSUME NEW r \in RFs, NeighbourStep(r) PROVE Goal
  <2>1. UNCHANGED <<linked, db>>
    BY <1>8 DEF NeighbourStep, add_destination, clear_destinations, Restart, handle_send_timeout
  <2> QED
    BY <1>2, <2>1
<1>9. ASSUME NEW a \in net, Lose(a) PROVE Goal
  BY <1>2, <1>9 DEF Lose
<1>10. ASSUME Tick PROVE Goal
  <2>1. ASSUME NEW r \in RFs PROVE db'[r].up = db[r].up
    <3>1. db[r] \in Entry
      BY <1>1
    <3>2. db'[r] = db[r] \/ db'[r] = [db[r] EXCEPT !.age = db[r].age + 1]
      BY <1>10 DEF Tick
    <3> QED
      BY <3>1, <3>2 DEF Entry
  <2> QED
    BY <1>2, <1>10, <2>1 DEF Tick
<1>11. ASSUME UNCHANGED vars PROVE Goal
  BY <1>2, <1>11 DEF vars
<1> HIDE DEF Goal
<1>12. Goal
  BY <1>3, <1>4, <1>5, <1>6, <1>7, <1>8, <1>9, <1>10, <1>11 DEF Next, ClientStep
<1> QED
  BY <1>12 DEF Goal

\* With no limit on how long a placeholder is held, and any expiry, every local
\* destination is one that the table has under an RF ID declared up: neither
\* DestAdvert::handle_message nor handle_purge_advert_timeout leaves one behind.
THEOREM LeavesNothing ==
  ASSUME HoldInterval = 0
  PROVE  Spec => []NothingLeftBehind
<1>1. Init => AdvertInv /\ UpLinked
  BY InitAdvertInv DEF Init, UpLinked, NoEntry
<1>2. AdvertInv /\ UpLinked /\ [Next]_vars => (AdvertInv /\ UpLinked)'
  BY NextAdvertInv, NextLinked
<1>3. AdvertInv /\ UpLinked => NothingLeftBehind
  BY HomeAssumption
  DEF AdvertInv, UpLinked, Translated, TableUp, NothingLeftBehind, Declared
<1> QED
  BY <1>1, <1>2, <1>3, PTL DEF Spec

\* With the defaults, where nothing is erased from the table, the local
\* destinations are at all times exactly those that the RF IDs declared up
\* advertise.
THEOREM Translation ==
  ASSUME HoldInterval = 0, ExpireCount = 0
  PROVE  Spec => []DeclaredTranslated
<1>1. Init => AdvertInv /\ UpLinked /\ LinkedUp
  BY InitAdvertInv DEF Init, UpLinked, LinkedUp, NoEntry
<1>2. AdvertInv /\ UpLinked /\ LinkedUp /\ [Next]_vars
        => (AdvertInv /\ UpLinked /\ LinkedUp)'
  BY NextAdvertInv, NextLinked
<1>3. AdvertInv /\ UpLinked /\ LinkedUp => DeclaredTranslated
  BY HomeAssumption
  DEF AdvertInv, UpLinked, LinkedUp, Translated, TableUp, DeclaredTranslated, Declared
<1> QED
  BY <1>1, <1>2, <1>3, PTL DEF Spec

-----------------------------------------------------------------------------
(* Types, whatever the hold interval is.                                    *)

LEMMA TypeNext ==
  ASSUME TypeOK, [Next]_vars
  PROVE  TypeOK'
<1> USE DEF TypeOK, neighbour
<1>1. ASSUME NEW r \in RFs, NeighbourStep(r)
      PROVE  TypeOK'
  <2>1. ASSUME NEW d \in Dests, add_destination(r, d) PROVE TypeOK'
    BY <2>1 DEF add_destination
  <2>2. ASSUME NEW d \in Dests, clear_destinations(r, d) PROVE TypeOK'
    BY <2>2 DEF clear_destinations
  <2>3. CASE Restart(r)
    BY <2>3 DEF Restart
  <2>4. CASE handle_send_timeout(r)
    <3>1. get_message_to_send(r) \in Advert
      BY IntervalAssumption DEF get_message_to_send, Advert
    <3> QED
      BY <2>4, <3>1 DEF handle_send_timeout
  <2> QED
    BY <1>1, <2>1, <2>2, <2>3, <2>4 DEF NeighbourStep
<1>2. ASSUME NEW r \in RFs, NEW m \in Metrics, destination_up(r, m)
      PROVE  TypeOK'
  <2> DEFINE up == [db[r] EXCEPT !.known = TRUE, !.up = TRUE, !.data_items = m,
                                 !.placeholder = db[r].placeholder \/ ~db[r].known]
  <2>1. db[r] \in Entry
    OBVIOUS
  <2>2. up \in Entry
    BY <2>1 DEF Entry
  <2>3. local_pdp' \in [Dests -> Metrics \cup {Absent}]
    BY <1>2 DEF destination_up, addDestinations
  <2> HIDE DEF up
  <2>4. db' = [db EXCEPT ![r] = up] /\ linked' = linked \cup {r}
    BY <1>2 DEF destination_up, up
  <2> QED
    BY <1>2, <2>2, <2>3, <2>4 DEF destination_up
<1>3. ASSUME NEW r \in RFs, NEW m \in Metrics, destination_update(r, m)
      PROVE  TypeOK'
  <2>1. [db[r] EXCEPT !.data_items = m] \in Entry
    BY DEF Entry
  <2>2. local_pdp' \in [Dests -> Metrics \cup {Absent}]
    BY <1>3, MetricsAssumption DEF destination_update, updateDestinations
  <2>3. db' = [db EXCEPT ![r] = [db[r] EXCEPT !.data_items = m]]
    BY <1>3 DEF destination_update
  <2> QED
    BY <1>3, <2>1, <2>2, <2>3 DEF destination_update
<1>4. ASSUME NEW r \in RFs, destination_down(r)
      PROVE  TypeOK'
  <2>1. [db[r] EXCEPT !.up = FALSE] \in Entry
    BY DEF Entry
  <2>2. local_pdp' \in [Dests -> Metrics \cup {Absent}]
    BY <1>4 DEF destination_down, removeDestinations
  <2>3. db' = [db EXCEPT ![r] = [db[r] EXCEPT !.up = FALSE]] /\ linked' = linked \ {r}
    BY <1>4 DEF destination_down
  <2> QED
    BY <1>4, <2>1, <2>2, <2>3 DEF destination_down
<1>5. ASSUME NEW a \in net, handle_message(a)
      PROVE  TypeOK'
  <2> DEFINE e == db[a.rfId]
             heard == [e EXCEPT !.known = TRUE, !.age = 0,
                                !.reportInterval = a.reportInterval,
                                !.destinations = a.destinations]
  <2>1. a.rfId \in RFs /\ e \in Entry /\ a.destinations \subseteq Dests /\ a.reportInterval \in Nat
    BY DEF Advert
  <2>2. heard \in Entry /\ e.data_items \in Metrics \cup {Absent}
    BY <2>1 DEF Entry
  <2>3. local_pdp' \in [Dests -> Metrics \cup {Absent}]
    BY <1>5, <2>1, <2>2 DEF handle_message, addDestinations, removeDestinations
  <2>4. db' = [db EXCEPT ![a.rfId] = heard] /\ net' = net \ {a}
    BY <1>5 DEF handle_message
  <2>5. UNCHANGED <<sessions, destinations, sending, linked>>
    BY <1>5 DEF handle_message
  <2> HIDE DEF heard
  <2> QED
    BY <2>1, <2>2, <2>3, <2>4, <2>5
<1>6. ASSUME NEW a \in net, Lose(a)
      PROVE  TypeOK'
  BY <1>6 DEF Lose
<1>7. ASSUME NEW erased \in SUBSET RFs, handle_purge_advert_timeout(erased)
      PROVE  TypeOK'
  <2>1. NoEntry \in Entry
    BY DEF NoEntry, Entry
  <2>2. db' \in [RFs -> Entry]
    BY <1>7, <2>1 DEF handle_purge_advert_timeout
  <2>3. local_pdp' \in [Dests -> Metrics \cup {Absent}]
    BY <1>7 DEF handle_purge_advert_timeout, removeDestinations
  <2> QED
    BY <1>7, <2>2, <2>3 DEF handle_purge_advert_timeout
<1>8. CASE Tick
  <2>1. ASSUME NEW r \in RFs PROVE [db[r] EXCEPT !.age = db[r].age + 1] \in Entry
    BY DEF Entry
  <2>2. db' \in [RFs -> Entry]
    BY <1>8, <2>1 DEF Tick
  <2> QED
    BY <1>8, <2>2 DEF Tick
<1>9. CASE UNCHANGED vars
  BY <1>9 DEF vars
<1> QED
  BY <1>1, <1>2, <1>3, <1>4, <1>5, <1>6, <1>7, <1>8, <1>9 DEF Next, ClientStep

\* The table, the advertisements and the local destinations keep their types,
\* with every hold interval; in particular an entry that is up has metrics to
\* give to the destinations it advertises.
THEOREM TypeCorrect == Spec => []TypeOK
<1>1. Init => TypeOK
  BY InitAdvertInv DEF AdvertInv
<1>2. TypeOK /\ [Next]_vars => TypeOK'
  BY TypeNext
<1> QED
  BY <1>1, <1>2, PTL DEF Spec

=============================================================================
