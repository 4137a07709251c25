--------------------------- MODULE InfoBaseProofs ---------------------------
(***************************************************************************)
(* Proofs about InfoBase, for any number of modems, destinations, addresses *)
(* and metrics.                                                             *)
(*                                                                         *)
(* The inductive invariant InfoBaseInv has three parts.  Flight: of every   *)
(* queue of responses_pending at most one message is on its way, it is the  *)
(* head of the queue, and either it or the response to it is on its way but *)
(* not both.  NoMetricsKnown: the router never learns a metric of its peer, *)
(* so a Session_Update that carries one is refused and ends the session.    *)
(* Mirror: what the router will have of a destination when it has handled   *)
(* everything on its way is what the modem has, or will be when the last    *)
(* message of the queue has been handled.                                   *)
(***************************************************************************)
EXTENDS InfoBase, FiniteSetTheorems, SequenceTheorems, TLAPS

QueuedTypes  == {"Session_Update", "Destination_Up", "Destination_Down"}
SessionTypes == {"Session_Initialization_Response", "Session_Update"}

Addressed(msg) == msg.queue = Session <=> msg.type \in SessionTypes
Queued(msg)    == msg.type \in QueuedTypes
Clean(msg)     == MetricsOf(msg.items) = {}

\* The queues p of a modem, the messages c to the router and the responses r.
Queueing(p) ==
  /\ p \in [Queues -> Seq(Message)]
  /\ \A q \in Queues : \A i \in 1..Len(p[q]) :
       p[q][i].queue = q /\ Queued(p[q][i]) /\ Addressed(p[q][i])

Sent(p, c) ==
  /\ c \in Seq(Message)
  /\ \A i \in 1..Len(c) :
       /\ Addressed(c[i])
       /\ Queued(c[i]) => p[c[i].queue] # <<>> /\ c[i] = p[c[i].queue][1]
  /\ \A i, j \in 1..Len(c) : i # j /\ Queued(c[i]) /\ Queued(c[j]) => c[i].queue # c[j].queue

Answered(p, r) ==
  /\ r \in Seq(Response)
  /\ \A i \in 1..Len(r) :
       /\ p[r[i].queue] # <<>>
       /\ r[i].queue = Session /\ r[i].status = "Success" => Clean(p[Session][1])
  /\ \A i, j \in 1..Len(r) : i # j => r[i].queue # r[j].queue

Apart(c, r) ==
  \A i \in 1..Len(c), j \in 1..Len(r) : Queued(c[i]) => c[i].queue # r[j].queue

FlightOK(p, c, r) == Queueing(p) /\ Sent(p, c) /\ Answered(p, r) /\ Apart(c, r)

-----------------------------------------------------------------------------
(* What a queue keeps when messages are sent, handled and answered *)

LEMMA MessageParts ==
  ASSUME NEW msg \in Message
  PROVE  msg.queue \in Queues /\ msg.type \in Types /\ msg.items \in ItemSet
  BY DEF Message

LEMMA FlightTypes ==
  ASSUME NEW p, NEW c, NEW r, FlightOK(p, c, r)
  PROVE  /\ p \in [Queues -> Seq(Message)] /\ Session \in Queues
         /\ c \in Seq(Message) /\ Len(c) \in Nat
         /\ r \in Seq(Response) /\ Len(r) \in Nat
         /\ \A i \in 1..Len(c) : c[i] \in Message /\ c[i].queue \in Queues
         /\ \A i \in 1..Len(r) : r[i] \in Response /\ r[i].queue \in Queues
<1>1. p \in [Queues -> Seq(Message)] /\ c \in Seq(Message) /\ r \in Seq(Response)
  BY DEF FlightOK, Queueing, Sent, Answered
<1>2. Len(c) \in Nat /\ Len(r) \in Nat
  BY <1>1
<1>3. \A i \in 1..Len(c) : c[i] \in Message
  BY <1>1, <1>2
<1>4. \A i \in 1..Len(r) : r[i] \in Response
  BY <1>1, <1>2
<1>5. \A x \in Response : x.queue \in Queues
  BY DEF Response
<1> QED
  BY <1>1, <1>2, <1>3, <1>4, <1>5, MessageParts DEF Queues

LEMMA FlightEmpty == FlightOK([q \in Queues |-> <<>>], <<>>, <<>>)
  BY DEF FlightOK, Queueing, Sent, Answered, Apart

\* A message that expects a response and is not the first of its queue.
LEMMA FlightWaits ==
  ASSUME NEW p, NEW c, NEW r, FlightOK(p, c, r), NEW msg \in Message,
         Queued(msg), Addressed(msg), p[msg.queue] # <<>>
  PROVE  FlightOK([p EXCEPT ![msg.queue] = Append(p[msg.queue], msg)], c, r)
<1> DEFINE q  == msg.queue
           p2 == [p EXCEPT ![q] = Append(p[q], msg)]
<1>1. q \in Queues /\ p[q] \in Seq(Message) /\ p \in [Queues -> Seq(Message)]
  BY DEF Message, FlightOK, Queueing
<1>2. /\ Append(p[q], msg) \in Seq(Message) /\ Append(p[q], msg) # <<>>
      /\ Len(Append(p[q], msg)) = Len(p[q]) + 1
      /\ \A i \in 1..Len(p[q]) : Append(p[q], msg)[i] = p[q][i]
      /\ Append(p[q], msg)[Len(p[q]) + 1] = msg
  BY <1>1
<1>3. Append(p[q], msg)[1] = p[q][1]
  BY <1>1, <1>2
<1> HIDE DEF q
<1>4. Queueing(p2)
  <2>1. p2 \in [Queues -> Seq(Message)]
    BY <1>1, <1>2
  <2>2. ASSUME NEW k \in Queues, NEW i \in 1..Len(p2[k])
        PROVE  p2[k][i].queue = k /\ Queued(p2[k][i]) /\ Addressed(p2[k][i])
    <3>1. CASE k # q
      BY <1>1, <2>2, <3>1 DEF FlightOK, Queueing
    <3>2. CASE k = q /\ i <= Len(p[q])
      BY <1>1, <1>2, <2>2, <3>2 DEF FlightOK, Queueing
    <3>3. CASE k = q /\ i = Len(p[q]) + 1
      BY <1>1, <1>2, <2>2, <3>3 DEF q
    <3> QED
      BY <1>1, <1>2, <2>2, <3>1, <3>2, <3>3
  <2> QED
    BY <2>1, <2>2 DEF Queueing
<1>5. \A k \in Queues : (p[k] # <<>> => p2[k] # <<>>) /\ p2[k][1] = p[k][1]
  BY <1>1, <1>2, <1>3
<1>6. Sent(p2, c)
  BY <1>5, FlightTypes DEF FlightOK, Sent
<1>7. Answered(p2, r)
  BY <1>5, FlightTypes DEF FlightOK, Answered
<1> QED
  BY <1>4, <1>6, <1>7 DEF FlightOK, q

\* The first message of its queue is sent at once.
LEMMA FlightStarts ==
  ASSUME NEW p, NEW c, NEW r, FlightOK(p, c, r), NEW msg \in Message,
         Queued(msg), Addressed(msg), p[msg.queue] = <<>>
  PROVE  FlightOK([p EXCEPT ![msg.queue] = Append(p[msg.queue], msg)], Append(c, msg), r)
<1> DEFINE q  == msg.queue
           p2 == [p EXCEPT ![q] = Append(p[q], msg)]
           c2 == Append(c, msg)
<1>1. q \in Queues /\ p \in [Queues -> Seq(Message)] /\ c \in Seq(Message) /\ r \in Seq(Response)
  BY DEF Message, FlightOK, Queueing, Sent, Answered
<1>2. p2 = [p EXCEPT ![q] = <<msg>>]
  BY <1>1
<1>3. /\ c2 \in Seq(Message) /\ Len(c2) = Len(c) + 1
      /\ \A i \in 1..Len(c) : c2[i] = c[i]
      /\ c2[Len(c) + 1] = msg
  BY <1>1
<1>4. \A i \in 1..Len(c) : Queued(c[i]) => c[i].queue # q
  BY DEF FlightOK, Sent
<1>5. \A i \in 1..Len(r) : r[i].queue # q
  BY DEF FlightOK, Answered
<1>6. \A i \in 1..Len(c2) : i = Len(c) + 1 \/ i \in 1..Len(c)
  BY <1>1, <1>3
<1> HIDE DEF p2, c2
<1>7. Queueing(p2)
  BY <1>1, <1>2 DEF FlightOK, Queueing
<1>8. Sent(p2, c2)
  <2>1. ASSUME NEW i \in 1..Len(c2)
        PROVE  Addressed(c2[i]) /\ (Queued(c2[i]) =>
                 p2[c2[i].queue] # <<>> /\ c2[i] = p2[c2[i].queue][1])
    <3>1. CASE i = Len(c) + 1
      BY <1>1, <1>2, <1>3, <3>1
    <3>2. CASE i \in 1..Len(c)
      <4>1. c2[i] = c[i] /\ c[i].queue \in Queues
        BY <1>3, <3>2, FlightTypes
      <4>2. Queued(c[i]) => p2[c[i].queue] = p[c[i].queue]
        BY <1>1, <1>2, <1>4, <3>2, <4>1
      <4> QED
        BY <3>2, <4>1, <4>2 DEF FlightOK, Sent
    <3> QED
      BY <1>6, <3>1, <3>2
  <2>2. ASSUME NEW i \in 1..Len(c2), NEW j \in 1..Len(c2), i # j, Queued(c2[i]), Queued(c2[j])
        PROVE  c2[i].queue # c2[j].queue
    <3>1. CASE i \in 1..Len(c) /\ j \in 1..Len(c)
      BY <1>3, <2>2, <3>1 DEF FlightOK, Sent
    <3> QED
      BY <1>3, <1>4, <1>6, <2>2, <3>1
  <2> QED
    BY <1>3, <2>1, <2>2 DEF Sent
<1>9. Answered(p2, r)
  BY <1>1, <1>2, <1>5, FlightTypes DEF FlightOK, Answered
<1>10. Apart(c2, r)
  BY <1>3, <1>5, <1>6 DEF FlightOK, Apart
<1> QED
  BY <1>7, <1>8, <1>9, <1>10 DEF FlightOK, p2, c2

\* A message that expects no response.
LEMMA FlightPasses ==
  ASSUME NEW p, NEW c, NEW r, FlightOK(p, c, r), NEW msg \in Message,
         ~Queued(msg), Addressed(msg)
  PROVE  FlightOK(p, Append(c, msg), r)
<1> DEFINE c2 == Append(c, msg)
<1>1. c \in Seq(Message)
  BY DEF FlightOK, Sent
<1>2. /\ c2 \in Seq(Message) /\ Len(c2) = Len(c) + 1
      /\ \A i \in 1..Len(c) : c2[i] = c[i]
      /\ c2[Len(c) + 1] = msg
  BY <1>1
<1>a. \A i \in 1..Len(c2) : i = Len(c) + 1 \/ i \in 1..Len(c)
  BY <1>1, <1>2
<1> HIDE DEF c2
<1>3. Sent(p, c2)
  BY <1>2, <1>a DEF FlightOK, Sent
<1>4. Apart(c2, r)
  BY <1>2, <1>a DEF FlightOK, Apart
<1> QED
  BY <1>3, <1>4 DEF FlightOK, c2

\* The router handles a message without a response.
LEMMA FlightTaken ==
  ASSUME NEW p, NEW c, NEW r, FlightOK(p, c, r), c # <<>>
  PROVE  FlightOK(p, Tail(c), r)
<1> DEFINE c2 == Tail(c)
<1>1. c \in Seq(Message)
  BY DEF FlightOK, Sent
<1>2. c2 \in Seq(Message) /\ Len(c2) = Len(c) - 1 /\ \A i \in 1..Len(c2) : c2[i] = c[i + 1]
  BY <1>1
<1>a. Len(c) \in Nat /\ \A i \in 1..Len(c2) : i + 1 \in 1..Len(c)
  BY <1>1, <1>2
<1> HIDE DEF c2
<1>3. Sent(p, c2)
  <2>1. ASSUME NEW i \in 1..Len(c2)
        PROVE  Addressed(c2[i]) /\ (Queued(c2[i]) =>
                 p[c2[i].queue] # <<>> /\ c2[i] = p[c2[i].queue][1])
    BY <1>2, <1>a DEF FlightOK, Sent
  <2>2. ASSUME NEW i \in 1..Len(c2), NEW j \in 1..Len(c2), i # j, Queued(c2[i]), Queued(c2[j])
        PROVE  c2[i].queue # c2[j].queue
    <3>1. i + 1 # j + 1
      BY <2>2
    <3> QED
      BY <1>2, <1>a, <2>2, <3>1 DEF FlightOK, Sent
  <2> QED
    BY <1>2, <2>1, <2>2 DEF Sent
<1>4. Apart(c2, r)
  BY <1>2, <1>a DEF FlightOK, Apart
<1> QED
  BY <1>3, <1>4 DEF FlightOK, c2

\* The router handles a message and answers it.
LEMMA FlightAnswered ==
  ASSUME NEW p, NEW c, NEW r, FlightOK(p, c, r), c # <<>>, Queued(Head(c)),
         NEW status \in {"Success", "Invalid_Message"},
         Head(c).queue = Session /\ status = "Success" => Clean(Head(c))
  PROVE  FlightOK(p, Tail(c), Append(r, [queue |-> Head(c).queue, status |-> status]))
<1> DEFINE c2 == Tail(c)
           a  == [queue |-> Head(c).queue, status |-> status]
           r2 == Append(r, a)
<1>1. c \in Seq(Message) /\ r \in Seq(Response) /\ Head(c) = c[1] /\ 1 \in 1..Len(c)
  BY DEF FlightOK, Sent, Answered
<1>2. c2 \in Seq(Message) /\ Len(c2) = Len(c) - 1 /\ \A i \in 1..Len(c2) : c2[i] = c[i + 1]
  BY <1>1
<1>3. a \in Response
  BY <1>1, FlightTypes DEF Response
<1>4. /\ r2 \in Seq(Response) /\ Len(r2) = Len(r) + 1
      /\ \A i \in 1..Len(r) : r2[i] = r[i]
      /\ r2[Len(r) + 1] = a
  BY <1>1, <1>3
<1>5. p[a.queue] # <<>> /\ Head(c) = p[a.queue][1]
  BY <1>1 DEF FlightOK, Sent
<1>6. \A i \in 1..Len(r) : r[i].queue # a.queue
  BY <1>1 DEF FlightOK, Apart
<1>7. \A i \in 1..Len(c2) : Queued(c2[i]) => c2[i].queue # a.queue
  BY <1>1, <1>2 DEF FlightOK, Sent
<1>8. a.queue = Session /\ a.status = "Success" => Clean(p[Session][1])
  BY <1>5
<1> HIDE DEF c2, r2, a
<1>a. \A i \in 1..Len(r2) : i = Len(r) + 1 \/ i \in 1..Len(r)
  BY <1>1, <1>4
<1>b. \A i \in 1..Len(c2) : i + 1 \in 1..Len(c)
  BY <1>1, <1>2
<1>9. FlightOK(p, c2, r)
  BY FlightTaken DEF c2
<1>10. Answered(p, r2)
  <2>1. ASSUME NEW i \in 1..Len(r2)
        PROVE  p[r2[i].queue] # <<>> /\
               (r2[i].queue = Session /\ r2[i].status = "Success" => Clean(p[Session][1]))
    BY <1>4, <1>5, <1>8, <1>a DEF FlightOK, Answered
  <2>2. ASSUME NEW i \in 1..Len(r2), NEW j \in 1..Len(r2), i # j
        PROVE  r2[i].queue # r2[j].queue
    BY <1>4, <1>6, <1>a, <2>2 DEF FlightOK, Answered
  <2> QED
    BY <1>4, <2>1, <2>2 DEF Answered
<1>11. Apart(c2, r2)
  BY <1>4, <1>7, <1>9, <1>a DEF FlightOK, Apart
<1> QED
  BY <1>9, <1>10, <1>11 DEF FlightOK, c2, r2, a

\* The next message of a queue is sent.
LEMMA FlightHeadSent ==
  ASSUME NEW p, NEW c, NEW r, FlightOK(p, c, r), NEW q \in Queues, p[q] # <<>>,
         \A i \in 1..Len(c) : Queued(c[i]) => c[i].queue # q,
         \A i \in 1..Len(r) : r[i].queue # q
  PROVE  FlightOK(p, Append(c, p[q][1]), r)
<1> DEFINE msg == p[q][1]
           c2  == Append(c, msg)
<1>1. msg \in Message /\ msg.queue = q /\ Queued(msg) /\ Addressed(msg)
  <2>1. p[q] \in Seq(Message) /\ 1 \in 1..Len(p[q])
    BY FlightTypes
  <2> QED
    BY <2>1 DEF FlightOK, Queueing
<1>2. /\ c2 \in Seq(Message) /\ Len(c2) = Len(c) + 1
      /\ \A i \in 1..Len(c) : c2[i] = c[i]
      /\ c2[Len(c) + 1] = msg
  BY <1>1, FlightTypes
<1>3. \A i \in 1..Len(c2) : i = Len(c) + 1 \/ i \in 1..Len(c)
  BY <1>2, FlightTypes
<1> HIDE DEF c2
<1>4. Sent(p, c2)
  <2>1. ASSUME NEW i \in 1..Len(c2)
        PROVE  Addressed(c2[i]) /\ (Queued(c2[i]) =>
                 p[c2[i].queue] # <<>> /\ c2[i] = p[c2[i].queue][1])
    BY <1>1, <1>2, <1>3 DEF FlightOK, Sent
  <2>2. ASSUME NEW i \in 1..Len(c2), NEW j \in 1..Len(c2), i # j, Queued(c2[i]), Queued(c2[j])
        PROVE  c2[i].queue # c2[j].queue
    BY <1>1, <1>2, <1>3, <2>2 DEF FlightOK, Sent
  <2> QED
    BY <1>2, <2>1, <2>2 DEF Sent
<1>5. Apart(c2, r)
  BY <1>1, <1>2, <1>3 DEF FlightOK, Apart
<1> QED
  BY <1>4, <1>5 DEF FlightOK, c2

\* A response takes the head from its queue; nothing of the queue is left on
\* its way.
LEMMA FlightResponded ==
  ASSUME NEW p, NEW c, NEW r, FlightOK(p, c, r), r # <<>>, NEW q, q = Head(r).queue
  PROVE  /\ q \in Queues /\ p[q] # <<>>
         /\ q = Session /\ Head(r).status = "Success" => Clean(p[Session][1])
         /\ \A i \in 1..Len(c) : Queued(c[i]) => c[i].queue # q
         /\ \A i \in 1..Len(Tail(r)) : Tail(r)[i].queue # q
         /\ FlightOK([p EXCEPT ![q] = Tail(p[q])], c, Tail(r))
<1> DEFINE r2 == Tail(r)
           p2 == [p EXCEPT ![q] = Tail(p[q])]
<1>1. Head(r) = r[1] /\ 1 \in 1..Len(r)
  BY FlightTypes
<1>2. q \in Queues /\ p[q] # <<>>
  BY <1>1, FlightTypes DEF FlightOK, Answered
<1>3. r2 \in Seq(Response) /\ Len(r2) = Len(r) - 1 /\ \A i \in 1..Len(r2) : r2[i] = r[i + 1]
  BY FlightTypes
<1>4. \A i \in 1..Len(r2) : i + 1 \in 1..Len(r) /\ i + 1 # 1
  BY <1>3, FlightTypes
<1>5. \A i \in 1..Len(c) : Queued(c[i]) => c[i].queue # q
  BY <1>1 DEF FlightOK, Apart
<1> HIDE DEF r2
<1>6. \A i \in 1..Len(r2) : r2[i].queue # q
  BY <1>1, <1>3, <1>4 DEF FlightOK, Answered
<1>7. /\ Tail(p[q]) \in Seq(Message) /\ Len(Tail(p[q])) = Len(p[q]) - 1
      /\ \A i \in 1..Len(Tail(p[q])) : i + 1 \in 1..Len(p[q]) /\ Tail(p[q])[i] = p[q][i + 1]
  <2>1. p[q] \in Seq(Message)
    BY <1>2, FlightTypes
  <2> QED
    BY <1>2, <2>1
<1>8. p2 \in [Queues -> Seq(Message)] /\ p2[q] = Tail(p[q])
      /\ \A k \in Queues \ {q} : p2[k] = p[k]
  BY <1>2, <1>7, FlightTypes
<1> HIDE DEF p2
<1>9. Queueing(p2)
  <2>1. ASSUME NEW k \in Queues, NEW i \in 1..Len(p2[k])
        PROVE  p2[k][i].queue = k /\ Queued(p2[k][i]) /\ Addressed(p2[k][i])
    <3>1. CASE k = q
      <4>1. i + 1 \in 1..Len(p[q]) /\ p2[k][i] = p[q][i + 1]
        BY <1>7, <1>8, <3>1
      <4> QED
        BY <1>2, <3>1, <4>1 DEF FlightOK, Queueing
    <3>2. CASE k # q
      BY <1>8, <3>2 DEF FlightOK, Queueing
    <3> QED
      BY <3>1, <3>2
  <2> QED
    BY <1>8, <2>1 DEF Queueing
<1>10. Sent(p2, c)
  BY <1>5, <1>8, FlightTypes DEF FlightOK, Sent
<1>11. Answered(p2, r2)
  <2>1. ASSUME NEW i \in 1..Len(r2)
        PROVE  p2[r2[i].queue] # <<>> /\
               (r2[i].queue = Session /\ r2[i].status = "Success" => Clean(p2[Session][1]))
    <3>1. r2[i] = r[i + 1] /\ i + 1 \in 1..Len(r) /\ r2[i].queue # q
      BY <1>3, <1>4, <1>6
    <3>2. p2[r2[i].queue] = p[r2[i].queue]
      BY <1>8, <3>1, FlightTypes
    <3> QED
      BY <3>1, <3>2 DEF FlightOK, Answered
  <2>2. ASSUME NEW i \in 1..Len(r2), NEW j \in 1..Len(r2), i # j
        PROVE  r2[i].queue # r2[j].queue
    <3>1. i + 1 # j + 1
      BY <2>2
    <3> QED
      BY <1>3, <1>4, <3>1 DEF FlightOK, Answered
  <2> QED
    BY <1>3, <2>1, <2>2 DEF Answered
<1>12. Apart(c, r2)
  BY <1>3, <1>4 DEF FlightOK, Apart
<1>13. q = Session /\ Head(r).status = "Success" => Clean(p[Session][1])
  BY <1>1 DEF FlightOK, Answered
<1>14. FlightOK(p2, c, r2)
  BY <1>9, <1>10, <1>11, <1>12 DEF FlightOK
<1> QED
  BY <1>2, <1>5, <1>6, <1>13, <1>14 DEF p2, r2

-----------------------------------------------------------------------------
(* What the router will have of a destination *)

DestValue == DestData \cup {Absent}

\* What handling msg makes of v, the router's data of destination d.  (It ends
\* the session, or begins to, when a Destination_Up finds the destination and
\* when the others do not.)
Effect(msg, d, v) ==
  IF msg.queue # d THEN v
  ELSE CASE msg.type = "Destination_Up" -> Apply(EmptyDest, msg.items)
         [] msg.type = "Destination_Down" -> Absent
         [] OTHER -> IF v = Absent THEN Absent ELSE Apply(v, msg.items)

\* Handling the messages c one after the other makes e of v.
Reaches(c, d, v, e) ==
  \E V \in [0..Len(c) -> DestValue] :
    V[0] = v /\ V[Len(c)] = e /\ \A i \in 1..Len(c) : V[i] = Effect(c[i], d, V[i - 1])

LEMMA ApplyType ==
  ASSUME NEW x \in DestData, NEW items \in ItemSet
  PROVE  Apply(x, items) \in DestData /\ Apply(x, items) # Absent
<1>1. /\ x.metrics \in MetricMap /\ x.ips \subseteq Addrs
      /\ items.metrics \in MetricMap /\ items.adds \subseteq Addrs
  BY DEF DestData, ItemSet
<1>2. Merge(x.metrics, items.metrics) \in MetricMap
  BY <1>1 DEF Merge, MetricMap
<1>3. update_ip_data_items(x.ips, items) \subseteq Addrs
  BY <1>1 DEF update_ip_data_items
<1>4. Apply(x, items) \in DestData
  BY <1>2, <1>3 DEF Apply, DestData
<1> QED
  BY <1>4, AbsentAssumption

LEMMA EmptyDestType == EmptyDest \in DestData /\ EmptyDest # Absent
<1>1. EmptyDest \in DestData
  BY DEF EmptyDest, DestData, NoMetrics, MetricMap
<1> QED
  BY <1>1, AbsentAssumption

LEMMA EffectType ==
  ASSUME NEW msg \in Message, NEW d, NEW v \in DestValue
  PROVE  Effect(msg, d, v) \in DestValue
  BY MessageParts, ApplyType, EmptyDestType DEF Effect, DestValue

LEMMA ReachesEmpty ==
  ASSUME NEW d, NEW v \in DestValue PROVE Reaches(<<>>, d, v, v)
<1> DEFINE V == [i \in 0..0 |-> v]
<1>1. Len(<<>>) = 0 /\ V \in [0..0 -> DestValue] /\ V[0] = v
  OBVIOUS
<1>2. \A i \in 1..0 : V[i] = Effect(<<>>[i], d, V[i - 1])
  OBVIOUS
<1> HIDE DEF V
<1>3. V \in [0..Len(<<>>) -> DestValue] /\ V[Len(<<>>)] = v
      /\ \A i \in 1..Len(<<>>) : V[i] = Effect(<<>>[i], d, V[i - 1])
  BY <1>1, <1>2
<1> QED
  BY <1>1, <1>3 DEF Reaches

LEMMA ReachesAppend ==
  ASSUME NEW c \in Seq(Message), NEW d, NEW v, NEW e, Reaches(c, d, v, e), NEW msg \in Message
  PROVE  Reaches(Append(c, msg), d, v, Effect(msg, d, e)) /\ Effect(msg, d, e) \in DestValue
<1>1. PICK V \in [0..Len(c) -> DestValue] :
        V[0] = v /\ V[Len(c)] = e /\ \A i \in 1..Len(c) : V[i] = Effect(c[i], d, V[i - 1])
  BY DEF Reaches
<1> DEFINE n  == Len(c)
           c2 == Append(c, msg)
           f  == Effect(msg, d, e)
           W  == [i \in 0..n + 1 |-> IF i = n + 1 THEN f ELSE V[i]]
<1>2. n \in Nat /\ Len(c2) = n + 1 /\ c2[n + 1] = msg /\ \A i \in 1..n : c2[i] = c[i]
  OBVIOUS
<1>3. e \in DestValue
  BY <1>1, <1>2
<1>4. f \in DestValue
  BY <1>3, EffectType
<1> HIDE DEF f, n, c2
<1>5. W \in [0..n + 1 -> DestValue]
  BY <1>1, <1>2, <1>4 DEF n
<1>6. W[0] = v /\ W[n + 1] = f
  BY <1>1, <1>2
<1>7. ASSUME NEW i \in 1..n + 1 PROVE W[i] = Effect(c2[i], d, W[i - 1])
  <2>1. CASE i = n + 1
    <3>1. W[i - 1] = e /\ W[i] = f /\ c2[i] = msg
      BY <1>1, <1>2, <2>1 DEF n
    <3> QED
      BY <3>1 DEF f
  <2>2. CASE i \in 1..n
    <3>1. W[i - 1] = V[i - 1] /\ W[i] = V[i] /\ c2[i] = c[i]
      BY <1>2, <2>2
    <3> QED
      BY <1>1, <2>2, <3>1 DEF n
  <2> QED
    BY <1>2, <2>1, <2>2
<1> HIDE DEF W
<1>8. Reaches(c2, d, v, f)
  BY <1>2, <1>5, <1>6, <1>7 DEF Reaches
<1> QED
  BY <1>4, <1>8 DEF c2, f

LEMMA ReachesTail ==
  ASSUME NEW c \in Seq(Message), c # <<>>, NEW d, NEW v, NEW e, Reaches(c, d, v, e)
  PROVE  Reaches(Tail(c), d, Effect(Head(c), d, v), e)
<1>1. PICK V \in [0..Len(c) -> DestValue] :
        V[0] = v /\ V[Len(c)] = e /\ \A i \in 1..Len(c) : V[i] = Effect(c[i], d, V[i - 1])
  BY DEF Reaches
<1> DEFINE n  == Len(c)
           c2 == Tail(c)
           W  == [i \in 0..n - 1 |-> V[i + 1]]
<1>2. n \in Nat \ {0} /\ Len(c2) = n - 1 /\ Head(c) = c[1] /\ \A i \in 1..n - 1 : c2[i] = c[i + 1]
  OBVIOUS
<1> HIDE DEF n, c2
<1>3. W \in [0..n - 1 -> DestValue]
  BY <1>1, <1>2 DEF n
<1>4. W[0] = Effect(Head(c), d, v)
  <2>1. W[0] = V[1] /\ V[1 - 1] = v /\ 1 \in 1..n
    BY <1>1, <1>2
  <2> QED
    BY <1>1, <1>2, <2>1 DEF n
<1>5. W[n - 1] = e
  BY <1>1, <1>2 DEF n
<1>6. ASSUME NEW i \in 1..n - 1 PROVE W[i] = Effect(c2[i], d, W[i - 1])
  <2>1. W[i] = V[i + 1] /\ W[i - 1] = V[i] /\ (i + 1) - 1 = i /\ i + 1 \in 1..n
    BY <1>2
  <2>2. c2[i] = c[i + 1]
    BY <1>2
  <2> QED
    BY <1>1, <2>1, <2>2 DEF n
<1> HIDE DEF W
<1> QED
  BY <1>2, <1>3, <1>4, <1>5, <1>6 DEF Reaches, c2

\* A function of 0..n that never changes from one number to the next has one
\* value: else there is a least number at which it has another.
LEMMA NeverChanges ==
  ASSUME NEW n \in Nat, NEW V, \A i \in 1..n : V[i] = V[i - 1]
  PROVE  V[n] = V[0]
<1> DEFINE T == {i \in 0..n : V[i] # V[0]}
<1> SUFFICES ASSUME T # {} PROVE FALSE
  OBVIOUS
<1>1. T \subseteq Nat
  OBVIOUS
<1>2. PICK x \in T : \A y \in T : ~(<<y, x>> \in OpToRel(<, Nat))
  BY <1>1, NatLessThanWellFounded, WFMin
<1>3. \A y \in T : ~(y < x)
  BY <1>1, <1>2 DEF OpToRel
<1>4. x \in 1..n /\ x - 1 \in 0..n /\ x - 1 < x
  OBVIOUS
<1>5. x - 1 \in T
  BY <1>4
<1> QED
  BY <1>3, <1>4, <1>5

LEMMA ReachesQuiet ==
  ASSUME NEW c \in Seq(Message), NEW d, NEW v, NEW e, Reaches(c, d, v, e),
         \A i \in 1..Len(c) : c[i].queue # d
  PROVE  v = e
<1>1. PICK V \in [0..Len(c) -> DestValue] :
        V[0] = v /\ V[Len(c)] = e /\ \A i \in 1..Len(c) : V[i] = Effect(c[i], d, V[i - 1])
  BY DEF Reaches
<1>2. \A i \in 1..Len(c) : V[i] = V[i - 1]
  BY <1>1 DEF Effect
<1>3. Len(c) \in Nat
  OBVIOUS
<1> QED
  BY <1>1, <1>2, <1>3, NeverChanges

-----------------------------------------------------------------------------
(* What the operations store *)

LEMMA BaseParts ==
  ASSUME NEW b \in Base
  PROVE  /\ b.metrics \in MetricMap /\ b.ips \subseteq Addrs
         /\ b.dests \in [Dests -> DestValue]
         /\ b = [metrics |-> b.metrics, ips |-> b.ips, dests |-> b.dests]
  BY DEF Base, DestValue

LEMMA EmptyBases ==
  /\ EmptyBase \in Base /\ EmptyBase.metrics = NoMetrics
  /\ \A d \in Dests : EmptyBase.dests[d] = Absent
  /\ DefaultBase \in Base /\ \A d \in Dests : DefaultBase.dests[d] = Absent
<1>1. EmptyBase \in Base
  BY DEF EmptyBase, Base, NoMetrics, MetricMap
<1>2. [k \in Metrics |-> 0] \in MetricMap
  BY InfoBaseAssumption DEF MetricMap
<1>3. DefaultBase \in Base
  BY <1>2 DEF DefaultBase, EmptyBase, Base
<1> QED
  BY <1>1, <1>3 DEF EmptyBase, DefaultBase

LEMMA DestStored ==
  ASSUME NEW b \in Base, NEW d \in Dests, NEW v \in DestValue
  PROVE  /\ [b EXCEPT !.dests[d] = v] \in Base
         /\ [b EXCEPT !.dests[d] = v].metrics = b.metrics
         /\ [b EXCEPT !.dests[d] = v].ips = b.ips
         /\ [b EXCEPT !.dests[d] = v].dests = [b.dests EXCEPT ![d] = v]
  BY DEF Base, DestValue

\* An update without metrics changes no destination.
LEMMA NoMetricsApplied ==
  ASSUME NEW x \in DestData, NEW items \in ItemSet, MetricsOf(items) = {}
  PROVE  Apply(x, MetricsOnly(items)) = x
<1>1. MetricsOnly(items).metrics = items.metrics /\ MetricsOnly(items).adds = {}
      /\ MetricsOnly(items).drops = {}
  BY DEF MetricsOnly, ItemSet
<1>2. x.metrics \in MetricMap /\ x = [metrics |-> x.metrics, ips |-> x.ips]
  BY DEF DestData
<1>3. Merge(x.metrics, items.metrics) = x.metrics
  BY <1>2 DEF Merge, MetricsOf, MetricMap
<1>4. update_ip_data_items(x.ips, MetricsOnly(items)) = x.ips
  BY <1>1 DEF update_ip_data_items
<1> QED
  BY <1>1, <1>2, <1>3, <1>4 DEF Apply

LEMMA MetricsOnlyType ==
  ASSUME NEW items \in ItemSet
  PROVE  MetricsOnly(items) \in ItemSet /\ MetricsOnly(items).adds = {}
         /\ MetricsOnly(items).drops = {}
  BY DEF MetricsOnly, ItemSet

\* update_data_items leaves the addresses of destinations alone.
LEMMA UpdateStored ==
  ASSUME NEW b \in Base, NEW items \in ItemSet
  PROVE  /\ update_data_items(b, items) \in Base
         /\ \A d \in Dests :
              LET u == update_data_items(b, items).dests[d] IN
              /\ u = Absent <=> b.dests[d] = Absent
              /\ u # Absent => u.ips = b.dests[d].ips
<1> DEFINE D == [d \in Dests |-> IF Has(b, d) THEN Apply(b.dests[d], MetricsOnly(items))
                                ELSE Absent]
<1>1. CASE ~MetricsKnown(b, items)
  BY <1>1 DEF update_data_items
<1>2. CASE MetricsKnown(b, items)
  <2>1. b.metrics \in MetricMap /\ b.ips \subseteq Addrs /\ b.dests \in [Dests -> DestValue]
    BY BaseParts
  <2>2. ASSUME NEW d \in Dests, Has(b, d)
        PROVE  /\ D[d] \in DestData /\ D[d] # Absent
               /\ D[d].ips = b.dests[d].ips
    <3>1. b.dests[d] \in DestData
      BY <2>1, <2>2 DEF DestValue, Has
    <3>2. Apply(b.dests[d], MetricsOnly(items)).ips = b.dests[d].ips
      BY <3>1, MetricsOnlyType DEF Apply, update_ip_data_items, DestData
    <3> QED
      BY <2>2, <3>1, <3>2, MetricsOnlyType, ApplyType
  <2>3. \A d \in Dests : ~Has(b, d) => D[d] = Absent
    OBVIOUS
  <2>4. D \in [Dests -> DestValue]
    BY <2>2, <2>3 DEF DestValue
  <2>5. Merge(b.metrics, items.metrics) \in MetricMap
    BY <2>1 DEF Merge, MetricMap, ItemSet
  <2>6. update_ip_data_items(b.ips, items) \subseteq Addrs
    BY <2>1 DEF update_ip_data_items, ItemSet
  <2>7. update_data_items(b, items) = [Apply(b, items) EXCEPT !.dests = D]
    BY <1>2 DEF update_data_items, ApplyUpdate
  <2> HIDE DEF D
  <2>8. update_data_items(b, items) \in Base /\ update_data_items(b, items).dests = D
    BY <2>4, <2>5, <2>6, <2>7 DEF Apply, Base, DestValue
  <2> QED
    BY <2>2, <2>3, <2>8 DEF Has
<1> QED
  BY <1>1, <1>2

LEMMA UpdateWithoutMetrics ==
  ASSUME NEW b \in Base, NEW items \in ItemSet, MetricsOf(items) = {}
  PROVE  update_data_items(b, items).dests = b.dests /\ update_data_items(b, items).metrics = b.metrics
<1> DEFINE D == [d \in Dests |-> IF Has(b, d) THEN Apply(b.dests[d], MetricsOnly(items))
                                ELSE Absent]
<1>1. b.metrics \in MetricMap /\ b.dests \in [Dests -> DestValue]
  BY BaseParts
<1>2. MetricsKnown(b, items)
  BY DEF MetricsKnown
<1>3. ASSUME NEW d \in Dests PROVE D[d] = b.dests[d]
  BY <1>1, NoMetricsApplied DEF Has, DestValue
<1>4. D = b.dests
  BY <1>1, <1>3
<1>5. Merge(b.metrics, items.metrics) = b.metrics
  BY <1>1 DEF Merge, MetricsOf, MetricMap
<1>6. update_data_items(b, items) = [Apply(b, items) EXCEPT !.dests = D]
  BY <1>2 DEF update_data_items, ApplyUpdate
<1> HIDE DEF D
<1>7. Apply(b, items) \in [metrics : MetricMap, ips : {update_ip_data_items(b.ips, items)},
                           dests : [Dests -> DestValue]]
      /\ Apply(b, items).metrics = b.metrics
  BY <1>1, <1>5 DEF Apply, Base, DestValue
<1> QED
  BY <1>4, <1>6, <1>7

\* The router knows no metric, so an update it accepts carries none.
LEMMA UpdateAtRouter ==
  ASSUME NEW b \in Base, b.metrics = NoMetrics, NEW items \in ItemSet
  PROVE  /\ update_data_items(b, items) \in Base
         /\ update_data_items(b, items).metrics = NoMetrics
         /\ update_data_items(b, items).dests = b.dests
         /\ MetricsKnown(b, items) => MetricsOf(items) = {}
<1>1. MetricsKnown(b, items) => MetricsOf(items) = {}
  BY DEF MetricsKnown, NoMetrics, MetricsOf
<1>2. CASE MetricsOf(items) = {}
  BY <1>1, <1>2, UpdateStored, UpdateWithoutMetrics
<1>3. CASE ~MetricsKnown(b, items)
  BY <1>1, <1>3 DEF update_data_items
<1> QED
  BY <1>1, <1>2, <1>3

LEMMA RemoveStored ==
  ASSUME NEW b \in Base, NEW items \in ItemSet
  PROVE  remove_data_items(b, items) \in Base /\ remove_data_items(b, items).dests = b.dests
<1>1. [k \in Metrics |-> IF items.metrics[k] = b.metrics[k] THEN Absent ELSE b.metrics[k]] \in MetricMap
  BY BaseParts DEF MetricMap
<1> QED
  BY <1>1 DEF remove_data_items, Base

-----------------------------------------------------------------------------
(* The invariant of one modem: its base l, the router's peer x, its queues p, *)
(* the messages c and responses r on their way, the destinations o overtaken. *)

LiveState(x) == x.state \in {"connected", "in_session"}
NoQueue      == [q \in Queues |-> <<>>]

\* The session is going to end: the router has refused something, or will.
Doomed(p, r) ==
  \/ \E i \in 1..Len(p[Session]) : ~Clean(p[Session][i])
  \/ \E i \in 1..Len(r) : r[i].status # "Success"

\* What the router will have of d: e once it has handled the messages on their
\* way, and what the last message of the queue says when that one is not yet
\* among them.
Target(queue, d, e) == IF Len(queue) <= 1 THEN e ELSE Effect(queue[Len(queue)], d, Absent)

Matches(t, have, late) == (t = Absent <=> have = Absent) /\ (~late => t = have)

Mirrors(have, has, queue, c, d, late) ==
  \E e \in DestValue : Reaches(c, d, has, e) /\ Matches(Target(queue, d, e), have, late)

Mirrored(l, x, p, c, o) ==
  \A d \in Dests : Mirrors(l.dests[d], x.data.dests[d], p[d], c, d, d \in o)

ModemOK(l, x, p, c, r, o) ==
  /\ l \in Base /\ x \in Peers /\ FlightOK(p, c, r)
  /\ x.state = "none" => x.data = EmptyBase
  /\ ~LiveState(x) => p = NoQueue /\ c = <<>> /\ r = <<>>
  /\ x.data.metrics = NoMetrics
  /\ LiveState(x) /\ ~Doomed(p, r) => Mirrored(l, x, p, c, o)

LEMMA PeerParts ==
  ASSUME NEW x \in Peers
  PROVE  /\ x.data \in Base /\ x.data.dests \in [Dests -> DestValue]
         /\ x = [state |-> x.state, data |-> x.data]
         /\ \A b \in Base : [state |-> x.state, data |-> b] \in Peers
         /\ [state |-> "in_session", data |-> x.data] \in Peers
<1>1. x.data \in Base
  BY DEF Peers
<1> QED
  BY <1>1, BaseParts DEF Peers

\* A message about something else changes nothing.
LEMMA MirrorsOther ==
  ASSUME NEW have, NEW has, NEW queue, NEW c \in Seq(Message), NEW d, NEW late,
         Mirrors(have, has, queue, c, d, late), NEW msg \in Message, msg.queue # d
  PROVE  Mirrors(have, has, queue, Append(c, msg), d, late)
<1>1. PICK e \in DestValue : Reaches(c, d, has, e) /\ Matches(Target(queue, d, e), have, late)
  BY DEF Mirrors
<1>2. Effect(msg, d, e) = e
  BY DEF Effect
<1>3. Reaches(Append(c, msg), d, has, e)
  BY <1>1, <1>2, ReachesAppend
<1> QED
  BY <1>1, <1>3 DEF Mirrors

\* A message that expects a response decides what the router will have.
LEMMA MirrorsQueued ==
  ASSUME NEW p, NEW c, NEW r, FlightOK(p, c, r), NEW has, NEW e \in DestValue,
         NEW msg \in Message, msg.type \in {"Destination_Up", "Destination_Down"},
         Reaches(c, msg.queue, has, e), NEW have, NEW late,
         Matches(Effect(msg, msg.queue, Absent), have, late),
         NEW c2, c2 = IF p[msg.queue] = <<>> THEN Append(c, msg) ELSE c
  PROVE  Mirrors(have, has, Append(p[msg.queue], msg), c2, msg.queue, late)
<1> DEFINE d  == msg.queue
           p2 == Append(p[d], msg)
<1>1. p[d] \in Seq(Message) /\ c \in Seq(Message)
  BY FlightTypes, MessageParts
<1>2. Len(p2) = Len(p[d]) + 1 /\ p2[Len(p2)] = msg /\ Len(p[d]) \in Nat
  BY <1>1
<1>3. Effect(msg, d, e) = Effect(msg, d, Absent)
  BY DEF Effect
<1>4. CASE p[d] = <<>>
  <2>1. Reaches(c2, d, has, Effect(msg, d, e)) /\ Effect(msg, d, e) \in DestValue
    BY <1>1, <1>4, ReachesAppend
  <2>2. Len(p2) <= 1
    BY <1>2, <1>4
  <2>3. Target(p2, d, Effect(msg, d, e)) = Effect(msg, d, Absent)
    BY <1>3, <2>2 DEF Target
  <2> QED
    BY <2>1, <2>3 DEF Mirrors
<1>5. CASE p[d] # <<>>
  <2>1. ~(Len(p2) <= 1)
    BY <1>1, <1>2, <1>5
  <2>2. Target(p2, d, e) = Effect(msg, d, Absent)
    BY <1>2, <2>1 DEF Target
  <2> QED
    BY <1>5, <2>2 DEF Mirrors
<1> QED
  BY <1>4, <1>5

\* Nothing but destination d0 differs between the bases l and l2, and between
\* the sets o and o2.
OnlyDest(l, l2, o, o2, d0) ==
  \A d \in Dests : d # d0 => l2.dests[d] = l.dests[d] /\ (d \in o2 <=> d \in o)

\* SendQueued of a message about a destination.
LEMMA ModemSendsQueued ==
  ASSUME NEW l, NEW x, NEW p, NEW c, NEW r, NEW o, ModemOK(l, x, p, c, r, o), LiveState(x),
         NEW d0 \in Dests, NEW msg \in Message, msg.queue = d0,
         msg.type \in {"Destination_Up", "Destination_Down"},
         NEW l2 \in Base, NEW o2, OnlyDest(l, l2, o, o2, d0),
         Effect(msg, d0, Absent) = l2.dests[d0],
         NEW c2, c2 = IF p[d0] = <<>> THEN Append(c, msg) ELSE c,
         NEW p2, p2 = [p EXCEPT ![d0] = Append(p[d0], msg)]
  PROVE  ModemOK(l2, x, p2, c2, r, o2)
<1>1. Queued(msg) /\ Addressed(msg) /\ msg.queue \in Queues
  BY InfoBaseAssumption DEF Queued, QueuedTypes, Addressed, SessionTypes, Queues
<1>2. FlightOK(p, c, r) /\ p \in [Queues -> Seq(Message)] /\ c \in Seq(Message)
  BY FlightTypes DEF ModemOK
<1>3. FlightOK(p2, c2, r)
  <2>1. CASE p[msg.queue] = <<>>
    BY <1>1, <1>2, <2>1, FlightStarts
  <2>2. CASE p[msg.queue] # <<>>
    BY <1>1, <1>2, <2>2, FlightWaits
  <2> QED
    BY <2>1, <2>2
<1>4. p2[Session] = p[Session]
  BY <1>1, <1>2, FlightTypes, InfoBaseAssumption
<1>5. ASSUME ~Doomed(p2, r) PROVE Mirrored(l2, x, p2, c2, o2)
  <2>1. Mirrored(l, x, p, c, o)
    BY <1>4, <1>5 DEF ModemOK, Doomed
  <2>2. ASSUME NEW d \in Dests
        PROVE  Mirrors(l2.dests[d], x.data.dests[d], p2[d], c2, d, d \in o2)
    <3>1. CASE d = msg.queue
      <4>1. PICK e \in DestValue : Reaches(c, d, x.data.dests[d], e)
        BY <2>1 DEF Mirrored, Mirrors
      <4>2. Matches(Effect(msg, d, Absent), l2.dests[d], d \in o2)
        BY <3>1 DEF Matches
      <4>3. p2[d] = Append(p[d], msg)
        BY <1>1, <1>2, <3>1
      <4>4. Reaches(c, msg.queue, x.data.dests[d], e)
        BY <3>1, <4>1
      <4>5. Matches(Effect(msg, msg.queue, Absent), l2.dests[d], d \in o2)
        BY <3>1, <4>2
      <4>a. c2 = IF p[msg.queue] = <<>> THEN Append(c, msg) ELSE c
        OBVIOUS
      <4>6. Mirrors(l2.dests[d], x.data.dests[d], Append(p[msg.queue], msg), c2, msg.queue, d \in o2)
        BY <1>2, <4>4, <4>5, <4>a, MirrorsQueued
      <4> QED
        BY <3>1, <4>3, <4>6
    <3>2. CASE d # msg.queue
      <4>1. Mirrors(l2.dests[d], x.data.dests[d], p2[d], c, d, d \in o2)
        <5>1. p2[d] = p[d] /\ l2.dests[d] = l.dests[d] /\ (d \in o2) = (d \in o)
          BY <1>1, <1>2, <3>2 DEF OnlyDest
        <5> QED
          BY <2>1, <5>1 DEF Mirrored
      <4> QED
        BY <1>2, <3>2, <4>1, MirrorsOther
    <3> QED
      BY <3>1, <3>2
  <2> QED
    BY <2>2 DEF Mirrored
<1> QED
  BY <1>3, <1>5 DEF ModemOK

OnlyOvertaken(o, o2, d0) == \A d \in Dests : d # d0 => (d \in o2 <=> d \in o)

LEMMA ModemSendsUp ==
  ASSUME NEW l, NEW x, NEW p, NEW c, NEW r, NEW o, ModemOK(l, x, p, c, r, o), LiveState(x),
         NEW d \in Dests, NEW items \in ItemSet, NEW msg, msg = Msg("Destination_Up", d, items),
         NEW c2, c2 = IF p[d] = <<>> THEN Append(c, msg) ELSE c,
         NEW p2, p2 = [p EXCEPT ![d] = Append(p[d], msg)], NEW o2, OnlyOvertaken(o, o2, d)
  PROVE  ModemOK(addDestination(l, d, items), x, p2, c2, r, o2)
<1> DEFINE l2 == addDestination(l, d, items)
<1>1. msg \in Message /\ msg.queue = d /\ msg.type = "Destination_Up" /\ msg.items = items
  BY DEF Msg, Message, Types, Queues
<1>2. l \in Base /\ l.dests \in [Dests -> DestValue]
  BY BaseParts DEF ModemOK
<1>3. l2 \in Base /\ l2.dests = [l.dests EXCEPT ![d] = Apply(EmptyDest, items)]
  BY <1>2, ApplyType, EmptyDestType, DestStored DEF addDestination, DestValue
<1> HIDE DEF l2
<1>4. Effect(msg, d, Absent) = l2.dests[d]
  BY <1>1, <1>2, <1>3 DEF Effect
<1>5. OnlyDest(l, l2, o, o2, d)
  BY <1>2, <1>3 DEF OnlyDest, OnlyOvertaken
<1>7. msg.type \in {"Destination_Up", "Destination_Down"}
  BY <1>1
<1>8. ModemOK(l2, x, p2, c2, r, o2)
  BY <1>1, <1>3, <1>4, <1>5, <1>7, ModemSendsQueued
<1> QED
  BY <1>8 DEF l2

LEMMA ModemSendsDown ==
  ASSUME NEW l, NEW x, NEW p, NEW c, NEW r, NEW o, ModemOK(l, x, p, c, r, o), LiveState(x),
         NEW d \in Dests, NEW msg, msg = Msg("Destination_Down", d, NoItems),
         NEW c2, c2 = IF p[d] = <<>> THEN Append(c, msg) ELSE c,
         NEW p2, p2 = [p EXCEPT ![d] = Append(p[d], msg)]
  PROVE  ModemOK(removeDestination(l, d), x, p2, c2, r, o)
<1> DEFINE l2 == removeDestination(l, d)
<1>1. NoItems \in ItemSet
  BY DEF NoItems, NoMetrics, ItemSet, MetricMap
<1>2. msg \in Message /\ msg.queue = d /\ msg.type = "Destination_Down"
  BY <1>1 DEF Msg, Message, Types, Queues
<1>3. l \in Base /\ l.dests \in [Dests -> DestValue]
  BY BaseParts DEF ModemOK
<1>4. l2 \in Base /\ l2.dests = [l.dests EXCEPT ![d] = Absent]
  BY <1>3, DestStored DEF removeDestination, DestValue
<1> HIDE DEF l2
<1>5. Effect(msg, d, Absent) = l2.dests[d]
  BY <1>2, <1>3, <1>4 DEF Effect
<1>6. OnlyDest(l, l2, o, o, d)
  BY <1>3, <1>4 DEF OnlyDest
<1>7. msg.type \in {"Destination_Up", "Destination_Down"}
  BY <1>2
<1>8. ModemOK(l2, x, p2, c2, r, o)
  BY <1>2, <1>4, <1>5, <1>6, <1>7, ModemSendsQueued
<1> QED
  BY <1>8 DEF l2

\* SendNow of a Destination_Update.
LEMMA ModemSendsUpdate ==
  ASSUME NEW l, NEW x, NEW p, NEW c, NEW r, NEW o, ModemOK(l, x, p, c, r, o), LiveState(x),
         NEW d0 \in Dests, NEW items \in ItemSet, l.dests[d0] # Absent,
         NEW l2 \in Base, l2.dests = [l.dests EXCEPT ![d0] = Apply(l.dests[d0], items)],
         NEW o2, \A d \in Dests : d # d0 => (d \in o2 <=> d \in o),
         d0 \notin o2 => d0 \notin o /\ Len(p[d0]) <= 1
  PROVE  ModemOK(l2, x, p, Append(c, Msg("Destination_Update", d0, items)), r, o2)
<1> DEFINE msg == Msg("Destination_Update", d0, items)
           c2  == Append(c, msg)
<1>1. msg \in Message /\ msg.queue = d0 /\ msg.type = "Destination_Update" /\ msg.items = items
  BY DEF Msg, Message, Types, Queues
<1>2. ~Queued(msg) /\ Addressed(msg)
  BY <1>1, InfoBaseAssumption DEF Queued, QueuedTypes, Addressed, SessionTypes
<1>3. FlightOK(p, c, r) /\ c \in Seq(Message) /\ l.dests \in [Dests -> DestValue]
  BY FlightTypes, BaseParts DEF ModemOK
<1> HIDE DEF msg
<1>4. FlightOK(p, c2, r)
  BY <1>1, <1>2, <1>3, FlightPasses
<1>5. ASSUME ~Doomed(p, r) PROVE Mirrored(l2, x, p, c2, o2)
  <2>1. Mirrored(l, x, p, c, o)
    BY <1>5 DEF ModemOK
  <2>2. ASSUME NEW d \in Dests
        PROVE  Mirrors(l2.dests[d], x.data.dests[d], p[d], c2, d, d \in o2)
    <3>1. CASE d = d0
      <4>1. PICK e \in DestValue : /\ Reaches(c, d, x.data.dests[d], e)
                                   /\ Matches(Target(p[d], d, e), l.dests[d], d \in o)
        BY <2>1 DEF Mirrored, Mirrors
      <4> DEFINE f == Effect(msg, d, e)
      <4>2. Reaches(c2, d, x.data.dests[d], f) /\ f \in DestValue
        BY <1>1, <1>3, <4>1, ReachesAppend
      <4>3. f = IF e = Absent THEN Absent ELSE Apply(e, items)
        BY <1>1, <3>1 DEF Effect
      <4>4. f = Absent <=> e = Absent
        BY <4>3, ApplyType DEF DestValue
      <4>5. l2.dests[d] = Apply(l.dests[d], items) /\ l2.dests[d] # Absent
        BY <1>3, <3>1, ApplyType DEF DestValue
      <4> HIDE DEF f
      <4>6. CASE Len(p[d]) <= 1
        <5>1. Target(p[d], d, e) = e /\ Target(p[d], d, f) = f
          BY <4>6 DEF Target
        <5>2. d \notin o2 => f = l2.dests[d]
          BY <3>1, <4>1, <4>3, <4>5, <5>1 DEF Matches
        <5>3. Matches(f, l2.dests[d], d \in o2)
          BY <3>1, <4>1, <4>4, <4>5, <5>1, <5>2 DEF Matches
        <5> QED
          BY <4>2, <5>1, <5>3 DEF Mirrors
      <4>7. CASE ~(Len(p[d]) <= 1)
        <5>1. Target(p[d], d, e) = Target(p[d], d, f)
          BY <4>7 DEF Target
        <5>2. Matches(Target(p[d], d, f), l2.dests[d], d \in o2)
          BY <3>1, <4>1, <4>5, <4>7, <5>1 DEF Matches
        <5> QED
          BY <4>2, <5>2 DEF Mirrors
      <4> QED
        BY <4>6, <4>7
    <3>2. CASE d # d0
      <4>1. l2.dests[d] = l.dests[d] /\ (d \in o2) = (d \in o)
        BY <1>3, <3>2
      <4>2. Mirrors(l2.dests[d], x.data.dests[d], p[d], c, d, d \in o2)
        BY <2>1, <4>1 DEF Mirrored
      <4> QED
        BY <1>1, <1>3, <3>2, <4>2, MirrorsOther
    <3> QED
      BY <3>1, <3>2
  <2> QED
    BY <2>2 DEF Mirrored
<1> QED
  BY <1>4, <1>5 DEF ModemOK, msg

\* SendQueued of a Session_Update: one without metrics leaves the destinations
\* alone, and one with metrics dooms the session.
LEMMA ModemSendsSessionUpdate ==
  ASSUME NEW l, NEW x, NEW p, NEW c, NEW r, NEW o, ModemOK(l, x, p, c, r, o), LiveState(x),
         NEW items \in ItemSet,
         NEW msg, msg = Msg("Session_Update", Session, items),
         NEW c2, c2 = IF p[Session] = <<>> THEN Append(c, msg) ELSE c,
         NEW p2, p2 = [p EXCEPT ![Session] = Append(p[Session], msg)]
  PROVE  ModemOK(update_data_items(l, items), x, p2, c2, r, o)
<1>1. /\ msg \in Message /\ msg.queue = Session /\ msg.type = "Session_Update"
      /\ msg.items = items /\ Session \in Queues
  BY DEF Msg, Message, Types, Queues
<1>2. Queued(msg) /\ Addressed(msg)
  BY <1>1 DEF Queued, QueuedTypes, Addressed, SessionTypes
<1>3. FlightOK(p, c, r) /\ c \in Seq(Message) /\ p \in [Queues -> Seq(Message)] /\ l \in Base
  BY FlightTypes DEF ModemOK
<1>4. FlightOK(p2, c2, r)
  BY <1>1, <1>2, <1>3, FlightWaits, FlightStarts
<1>5. /\ Len(p[Session]) \in Nat /\ Len(p2[Session]) = Len(p[Session]) + 1
      /\ \A i \in 1..Len(p[Session]) : p2[Session][i] = p[Session][i]
      /\ p2[Session][Len(p[Session]) + 1] = msg
  <2>1. p[Session] \in Seq(Message) /\ p2[Session] = Append(p[Session], msg)
    BY <1>1, <1>3
  <2> QED
    BY <1>1, <2>1
<1>6. ASSUME ~Doomed(p2, r)
      PROVE  Mirrored(update_data_items(l, items), x, p2, c2, o)
  <2>1. ~Doomed(p, r) /\ Clean(msg)
    <3>1. Len(p[Session]) + 1 \in 1..Len(p2[Session])
          /\ \A i \in 1..Len(p[Session]) : i \in 1..Len(p2[Session])
      BY <1>5
    <3> QED
      BY <1>5, <1>6, <3>1 DEF Doomed
  <2>2. Mirrored(l, x, p, c, o)
    BY <2>1 DEF ModemOK
  <2>3. update_data_items(l, items).dests = l.dests
    BY <1>1, <1>3, <2>1, UpdateWithoutMetrics DEF Clean
  <2>4. ASSUME NEW d \in Dests
        PROVE  Mirrors(l.dests[d], x.data.dests[d], p2[d], c2, d, d \in o)
    <3>1. d # Session /\ d \in Queues /\ p2[d] = p[d]
      BY <1>1, <1>3, InfoBaseAssumption DEF Queues
    <3> QED
      BY <1>1, <1>3, <2>2, <3>1, MirrorsOther DEF Mirrored
  <2> QED
    BY <2>3, <2>4 DEF Mirrored
<1> QED
  BY <1>3, <1>4, <1>6, UpdateStored DEF ModemOK

\* A call while there is no session.
LEMMA ModemCallsOffline ==
  ASSUME NEW l, NEW x, NEW p, NEW c, NEW r, NEW o, ModemOK(l, x, p, c, r, o), ~LiveState(x),
         NEW l2 \in Base, NEW o2
  PROVE  ModemOK(l2, x, p, c, r, o2)
  BY DEF ModemOK

LEMMA ModemEnds ==
  ASSUME NEW l, NEW x, NEW p, NEW c, NEW r, NEW o, ModemOK(l, x, p, c, r, o)
  PROVE  ModemOK(l, [x EXCEPT !.state = "terminating"], NoQueue, <<>>, <<>>, o)
<1> DEFINE y == [x EXCEPT !.state = "terminating"]
<1>1. y \in Peers /\ y.data = x.data /\ y.state = "terminating"
  BY DEF ModemOK, Peers
<1>2. FlightOK(NoQueue, <<>>, <<>>)
  BY FlightEmpty DEF NoQueue
<1> HIDE DEF y
<1> QED
  BY <1>1, <1>2 DEF ModemOK, LiveState, y

LEMMA ModemCleaned ==
  ASSUME NEW l, NEW x, NEW p, NEW c, NEW r, NEW o, ModemOK(l, x, p, c, r, o), ~LiveState(x)
  PROVE  ModemOK(l, [state |-> "none", data |-> EmptyBase], p, c, r, o)
<1> DEFINE y == [state |-> "none", data |-> EmptyBase]
<1>1. y \in Peers /\ y.data = EmptyBase /\ y.state = "none"
  BY EmptyBases DEF Peers
<1> HIDE DEF y
<1> QED
  BY <1>1, EmptyBases DEF ModemOK, LiveState, y

\* The router handles the head of the channel: either that dooms the session, or
\* the router stores what Effect says.
LEMMA ModemHandled ==
  ASSUME NEW l, NEW x, NEW p, NEW c, NEW r, NEW o, ModemOK(l, x, p, c, r, o), c # <<>>,
         NEW y \in Peers, LiveState(y), y.data.metrics = NoMetrics,
         NEW r2, FlightOK(p, Tail(c), r2), Doomed(p, r) => Doomed(p, r2),
         \/ Doomed(p, r2)
         \/ \A d \in Dests : y.data.dests[d] = Effect(Head(c), d, x.data.dests[d])
  PROVE  ModemOK(l, y, p, Tail(c), r2, o)
<1>1. c \in Seq(Message) /\ LiveState(x)
  BY FlightTypes DEF ModemOK
<1>2. ASSUME ~Doomed(p, r2) PROVE Mirrored(l, y, p, Tail(c), o)
  <2>1. Mirrored(l, x, p, c, o)
    BY <1>1, <1>2 DEF ModemOK
  <2>2. ASSUME NEW d \in Dests
        PROVE  Mirrors(l.dests[d], y.data.dests[d], p[d], Tail(c), d, d \in o)
    <3>1. PICK e \in DestValue : /\ Reaches(c, d, x.data.dests[d], e)
                                 /\ Matches(Target(p[d], d, e), l.dests[d], d \in o)
      BY <2>1 DEF Mirrored, Mirrors
    <3>2. Reaches(Tail(c), d, y.data.dests[d], e)
      BY <1>1, <1>2, <3>1, ReachesTail
    <3> QED
      BY <3>1, <3>2 DEF Mirrors
  <2> QED
    BY <2>2 DEF Mirrored
<1>3. y.state # "none"
  BY DEF LiveState
<1> QED
  BY <1>2, <1>3 DEF ModemOK

LEMMA DoomedAppend ==
  ASSUME NEW p, NEW r \in Seq(Response), NEW a \in Response
  PROVE  /\ Doomed(p, r) => Doomed(p, Append(r, a))
         /\ a.status # "Success" => Doomed(p, Append(r, a))
<1>1. /\ Len(r) \in Nat /\ Len(Append(r, a)) = Len(r) + 1
      /\ \A i \in 1..Len(r) : i \in 1..Len(Append(r, a)) /\ Append(r, a)[i] = r[i]
      /\ Len(r) + 1 \in 1..Len(Append(r, a)) /\ Append(r, a)[Len(r) + 1] = a
  OBVIOUS
<1> QED
  BY <1>1 DEF Doomed

\* A response Success leaves a doomed session doomed.
LEMMA DoomedResponded ==
  ASSUME NEW p, NEW c, NEW r, FlightOK(p, c, r), r # <<>>, Head(r).status = "Success",
         NEW q, q = Head(r).queue, Doomed(p, r)
  PROVE  Doomed([p EXCEPT ![q] = Tail(p[q])], Tail(r))
<1> DEFINE p2 == [p EXCEPT ![q] = Tail(p[q])]
<1>1. q \in Queues /\ p[q] # <<>> /\ (q = Session => Clean(p[Session][1]))
  BY FlightResponded
<1>2. p \in [Queues -> Seq(Message)] /\ r \in Seq(Response) /\ Session \in Queues
  BY FlightTypes
<1>3. CASE \E i \in 1..Len(r) : r[i].status # "Success"
  <2>1. PICK i \in 1..Len(r) : r[i].status # "Success"
    BY <1>3
  <2>2. Head(r) = r[1] /\ Len(r) \in Nat
    BY <1>2
  <2>3. i - 1 \in 1..Len(Tail(r)) /\ Tail(r)[i - 1] = r[i]
    BY <1>2, <2>1, <2>2
  <2> QED
    BY <2>1, <2>3 DEF Doomed
<1>4. CASE \E i \in 1..Len(p[Session]) : ~Clean(p[Session][i])
  <2>1. PICK i \in 1..Len(p[Session]) : ~Clean(p[Session][i])
    BY <1>4
  <2>2. CASE q # Session
    <3>1. p2[Session] = p[Session]
      BY <1>1, <1>2, <2>2
    <3> QED
      BY <2>1, <3>1 DEF Doomed
  <2>3. CASE q = Session
    <3>1. p[Session] \in Seq(Message) /\ p[Session] # <<>> /\ i # 1
      BY <1>1, <1>2, <2>1, <2>3
    <3>2. i - 1 \in 1..Len(Tail(p[Session])) /\ Tail(p[Session])[i - 1] = p[Session][i]
      BY <2>1, <3>1
    <3>3. p2[Session] = Tail(p[Session])
      BY <1>1, <1>2, <2>3
    <3> QED
      BY <2>1, <3>2, <3>3 DEF Doomed
  <2> QED
    BY <2>2, <2>3
<1> QED
  BY <1>3, <1>4 DEF Doomed

\* The next message of a queue is handled as if it alone counted.
LEMMA TargetNext ==
  ASSUME NEW queue \in Seq(Message), ~(Len(queue) <= 1), NEW d, NEW e,
         NEW msg, msg = queue[2], msg.queue = d, msg.type \in {"Destination_Up", "Destination_Down"}
  PROVE  Target(Tail(queue), d, Effect(msg, d, e)) = Target(queue, d, e)
<1> DEFINE n == Len(queue)
           k == Len(Tail(queue))
<1>1. Effect(msg, d, e) = Effect(msg, d, Absent)
  BY DEF Effect
<1>2. n \in Nat /\ ~(n <= 1) /\ k = n - 1
  OBVIOUS
<1>3. \A i \in 1..n - 1 : Tail(queue)[i] = queue[i + 1]
  OBVIOUS
<1>4. Target(queue, d, e) = Effect(queue[n], d, Absent)
  BY <1>2 DEF Target
<1> HIDE DEF n, k
<1>5. CASE n = 2
  <2>1. k <= 1
    BY <1>2, <1>5
  <2>2. queue[n] = msg
    BY <1>5
  <2> QED
    BY <1>1, <1>4, <2>1, <2>2 DEF Target, k
<1>6. CASE n # 2
  <2>1. n - 1 \in 1..n - 1 /\ (n - 1) + 1 = n /\ ~(n - 1 <= 1)
    BY <1>2, <1>6
  <2>2. Tail(queue)[n - 1] = queue[n]
    BY <1>3, <2>1
  <2>3. Target(Tail(queue), d, Effect(msg, d, e)) = Effect(Tail(queue)[n - 1], d, Absent)
    BY <1>2, <2>1 DEF Target, k
  <2> QED
    BY <1>4, <2>2, <2>3
<1> QED
  BY <1>5, <1>6

\* The modem handles a response Success and sends the next message of the queue.
LEMMA ModemResponded ==
  ASSUME NEW l, NEW x, NEW p, NEW c, NEW r, NEW o, ModemOK(l, x, p, c, r, o),
         r # <<>>, Head(r).status = "Success", NEW q, q = Head(r).queue,
         NEW p2, p2 = [p EXCEPT ![q] = Tail(p[q])],
         NEW c2, c2 = IF Tail(p[q]) = <<>> THEN c ELSE Append(c, Head(Tail(p[q])))
  PROVE  ModemOK(l, x, p2, c2, Tail(r), o)
<1>1. FlightOK(p, c, r) /\ LiveState(x)
  BY DEF ModemOK
<1>2. p \in [Queues -> Seq(Message)] /\ c \in Seq(Message) /\ Session \in Queues
  BY <1>1, FlightTypes
<1>3. /\ q \in Queues /\ p[q] # <<>>
      /\ \A i \in 1..Len(c) : Queued(c[i]) => c[i].queue # q
      /\ \A i \in 1..Len(Tail(r)) : Tail(r)[i].queue # q
      /\ FlightOK(p2, c, Tail(r))
  BY <1>1, FlightResponded
<1> DEFINE rest == Tail(p[q])
           msg  == p[q][2]
<1>4. /\ p2[q] = rest /\ rest \in Seq(Message) /\ Len(rest) = Len(p[q]) - 1
      /\ \A k \in Queues : k # q => p2[k] = p[k]
      /\ Len(p[q]) \in Nat /\ \A i \in 1..Len(rest) : rest[i] = p[q][i + 1]
  BY <1>2, <1>3
<1>5. ASSUME rest # <<>>
      PROVE  /\ Head(rest) = msg /\ rest[1] = msg /\ ~(Len(p[q]) <= 1)
             /\ msg \in Message /\ msg.queue = q /\ Queued(msg) /\ Addressed(msg)
  <2>1. Len(rest) \in Nat /\ Len(rest) >= 1 /\ Head(rest) = rest[1]
    BY <1>4, <1>5
  <2>2. 2 \in 1..Len(p[q]) /\ rest[1] = p[q][2]
    BY <1>4, <2>1
  <2>3. p[q] \in Seq(Message)
    BY <1>2, <1>3
  <2> QED
    BY <1>1, <1>3, <2>1, <2>2, <2>3 DEF FlightOK, Queueing
<1>a. (rest = <<>> => c2 = c) /\ (rest # <<>> => c2 = Append(c, msg))
  BY <1>5
<1> HIDE DEF rest, msg
<1>6. FlightOK(p2, c2, Tail(r))
  <2>1. CASE rest = <<>>
    BY <1>3, <1>a, <2>1
  <2>2. CASE rest # <<>>
    <3>1. c2 = Append(c, p2[q][1]) /\ p2[q] # <<>>
      BY <1>4, <1>5, <1>a, <2>2
    <3> QED
      BY <1>3, <3>1, FlightHeadSent
  <2> QED
    BY <2>1, <2>2
<1>7. ASSUME ~Doomed(p2, Tail(r)) PROVE Mirrored(l, x, p2, c2, o)
  <2>1. Mirrored(l, x, p, c, o)
    BY <1>1, <1>7, DoomedResponded DEF ModemOK
  <2>2. ASSUME NEW d \in Dests
        PROVE  Mirrors(l.dests[d], x.data.dests[d], p2[d], c2, d, d \in o)
    <3>1. PICK e \in DestValue : /\ Reaches(c, d, x.data.dests[d], e)
                                 /\ Matches(Target(p[d], d, e), l.dests[d], d \in o)
      BY <2>1 DEF Mirrored, Mirrors
    <3>2. CASE d # q
      <4>1. p2[d] = p[d]
        BY <1>4, <3>2 DEF Queues
      <4>2. Mirrors(l.dests[d], x.data.dests[d], p2[d], c, d, d \in o)
        BY <2>1, <4>1 DEF Mirrored
      <4>3. CASE rest = <<>>
        BY <1>a, <4>2, <4>3
      <4>4. CASE rest # <<>>
        <5>1. c2 = Append(c, msg) /\ msg \in Message /\ msg.queue # d
          BY <1>5, <1>a, <3>2, <4>4
        <5> QED
          BY <1>2, <4>2, <5>1, MirrorsOther
      <4> QED
        BY <4>3, <4>4
    <3>3. CASE d = q /\ rest = <<>>
      <4>1. Len(p[d]) <= 1 /\ Len(p2[d]) <= 1
        BY <1>4, <3>3
      <4>2. Target(p2[d], d, e) = Target(p[d], d, e)
        BY <4>1 DEF Target
      <4> QED
        BY <1>a, <3>1, <3>3, <4>2 DEF Mirrors
    <3>4. CASE d = q /\ rest # <<>>
      <4> DEFINE f == Effect(msg, d, e)
      <4>1. Reaches(c2, d, x.data.dests[d], f) /\ f \in DestValue
        BY <1>2, <1>5, <1>a, <3>1, <3>4, ReachesAppend
      <4>2. msg.type \in {"Destination_Up", "Destination_Down"}
        BY <1>5, <3>4, InfoBaseAssumption DEF Queued, QueuedTypes, Addressed, SessionTypes
      <4>3. p[d] \in Seq(Message) /\ ~(Len(p[d]) <= 1) /\ p2[d] = Tail(p[d]) /\ msg = p[d][2]
        BY <1>2, <1>3, <1>4, <1>5, <3>4 DEF rest, msg
      <4>4. msg.queue = d
        BY <1>5, <3>4
      <4>5. Target(p2[d], d, f) = Target(p[d], d, e)
        <5>1. Target(Tail(p[d]), d, Effect(msg, d, e)) = Target(p[d], d, e)
          BY <4>2, <4>3, <4>4, TargetNext
        <5> QED
          BY <4>3, <5>1
      <4> HIDE DEF f
      <4> QED
        BY <3>1, <4>1, <4>5 DEF Mirrors
    <3> QED
      BY <3>2, <3>3, <3>4
  <2> QED
    BY <2>2 DEF Mirrored
<1> QED
  BY <1>1, <1>6, <1>7 DEF ModemOK

-----------------------------------------------------------------------------
(* The start of a session *)

HereOf(l)   == {d \in Dests : l.dests[d] # Absent}
UpOf(l, d)  == Msg("Destination_Up", d, AllItems(l.dests[d]))
FirstOf(l)  == Msg("Session_Initialization_Response", Session, AllItems(l))
UpsOf(l, order) == <<FirstOf(l)>> \o [i \in 1..Len(order) |-> UpOf(l, order[i])]
QueuesOf(l) == [q \in Queues |-> IF q \in HereOf(l) THEN <<UpOf(l, q)>> ELSE <<>>]

\* An order names every destination once.
LEMMA OrderNamesAll ==
  ASSUME NEW H \in SUBSET Dests, NEW order \in Orders(H)
  PROVE  /\ order \in Seq(H) /\ Len(order) \in Nat
         /\ \A i, j \in 1..Len(order) : order[i] = order[j] => i = j
         /\ \A d \in H : \E i \in 1..Len(order) : order[i] = d
<1> DEFINE n == Cardinality(H)
<1>1. IsFiniteSet(H) /\ n \in Nat
  BY InfoBaseAssumption, FS_Subset, FS_CardinalityType
<1> HIDE DEF n
<1>2. order \in [1..n -> H] /\ \A i, j \in 1..n : order[i] = order[j] => i = j
  BY DEF Orders, n
<1>3. order \in Seq(H) /\ Len(order) = n
  BY <1>1, <1>2
<1>4. order \in Injection(1..n, H)
  BY <1>2 DEF Injection, IsInjective
<1>5. Cardinality(1..n) = Cardinality(H)
  <2>1. 1 \in Int /\ n \in Int /\ n - 1 + 1 = n /\ (1 > n => n = 0)
    BY <1>1
  <2>2. Cardinality(1..n) = IF 1 > n THEN 0 ELSE n - 1 + 1
    BY <2>1, FS_Interval
  <2> QED
    BY <1>1, <2>1, <2>2 DEF n
<1>6. order \in Surjection(1..n, H)
  BY <1>1, <1>4, <1>5, FS_Injection
<1>7. \A d \in H : \E i \in 1..n : order[i] = d
  BY <1>6 DEF Surjection
<1> QED
  BY <1>1, <1>2, <1>3, <1>7

LEMMA AllItemsKept ==
  ASSUME NEW v \in DestData
  PROVE  AllItems(v) \in ItemSet /\ Apply(EmptyDest, AllItems(v)) = v
<1>1. v.metrics \in MetricMap /\ v.ips \subseteq Addrs /\ v = [metrics |-> v.metrics, ips |-> v.ips]
  BY DEF DestData
<1>2. Merge(NoMetrics, v.metrics) = v.metrics
  BY <1>1 DEF Merge, NoMetrics, MetricMap
<1>3. update_ip_data_items({}, AllItems(v)) = v.ips
  BY DEF update_ip_data_items, AllItems
<1>4. AllItems(v) \in ItemSet
  BY <1>1 DEF AllItems, ItemSet
<1> QED
  BY <1>1, <1>2, <1>3, <1>4 DEF Apply, EmptyDest, AllItems

LEMMA SessionStart ==
  ASSUME NEW l \in Base, NEW order \in Orders(HereOf(l))
  PROVE  /\ UpsOf(l, order) \in Seq(Message) /\ Len(UpsOf(l, order)) = Len(order) + 1
         /\ UpsOf(l, order)[1] = FirstOf(l) /\ FirstOf(l).queue = Session
         /\ FirstOf(l).type = "Session_Initialization_Response"
         /\ \A i \in 1..Len(order) : UpsOf(l, order)[i + 1] = UpOf(l, order[i])
         /\ \A d \in HereOf(l) :
              /\ UpOf(l, d) \in Message /\ UpOf(l, d).queue = d
              /\ UpOf(l, d).type = "Destination_Up" /\ UpOf(l, d).items = AllItems(l.dests[d])
<1> DEFINE ups == [i \in 1..Len(order) |-> UpOf(l, order[i])]
<1>1. ASSUME NEW d \in HereOf(l)
      PROVE  /\ UpOf(l, d) \in Message /\ UpOf(l, d).queue = d
             /\ UpOf(l, d).type = "Destination_Up" /\ UpOf(l, d).items = AllItems(l.dests[d])
  <2>1. d \in Queues /\ l.dests[d] \in DestData
    BY BaseParts DEF HereOf, Queues, DestValue
  <2> QED
    BY <2>1, AllItemsKept DEF UpOf, Msg, Message, Types
<1>2. /\ FirstOf(l) \in Message /\ FirstOf(l).queue = Session
      /\ FirstOf(l).type = "Session_Initialization_Response"
  <2>1. AllItems(l) \in ItemSet
    BY BaseParts DEF AllItems, ItemSet
  <2> QED
    BY <2>1 DEF FirstOf, Msg, Message, Types, Queues
<1>3. HereOf(l) \in SUBSET Dests
  BY DEF HereOf
<1>4. order \in Seq(HereOf(l)) /\ Len(order) \in Nat
  BY <1>3, OrderNamesAll
<1>5. ups \in Seq(Message) /\ Len(ups) = Len(order) /\ \A i \in 1..Len(order) : ups[i] = UpOf(l, order[i])
  <2>1. \A i \in 1..Len(order) : UpOf(l, order[i]) \in Message
    BY <1>1, <1>4
  <2> QED
    BY <1>4, <2>1
<1>6. UpsOf(l, order) = <<FirstOf(l)>> \o ups
  BY DEF UpsOf
<1> HIDE DEF ups
<1>7. <<FirstOf(l)>> \in Seq(Message) /\ Len(<<FirstOf(l)>>) = 1
  BY <1>2
<1>8. /\ UpsOf(l, order) \in Seq(Message) /\ Len(UpsOf(l, order)) = 1 + Len(ups)
      /\ \A i \in 1..1 + Len(ups) :
           UpsOf(l, order)[i] = IF i <= 1 THEN <<FirstOf(l)>>[i] ELSE ups[i - 1]
  BY <1>5, <1>6, <1>7, ConcatProperties
<1>9. UpsOf(l, order)[1] = FirstOf(l)
  BY <1>4, <1>5, <1>8
<1>10. ASSUME NEW i \in 1..Len(order) PROVE UpsOf(l, order)[i + 1] = UpOf(l, order[i])
  <2>1. i + 1 \in 1..1 + Len(ups) /\ ~(i + 1 <= 1) /\ (i + 1) - 1 = i
    BY <1>4, <1>5
  <2> QED
    BY <1>5, <1>8, <2>1
<1>11. Len(UpsOf(l, order)) = Len(order) + 1
  BY <1>4, <1>5, <1>8
<1> QED
  BY <1>1, <1>2, <1>8, <1>9, <1>10, <1>11

LEMMA FlightAtStart ==
  ASSUME NEW l \in Base, NEW order \in Orders(HereOf(l))
  PROVE  FlightOK(QueuesOf(l), UpsOf(l, order), <<>>)
<1> DEFINE c == UpsOf(l, order)
           p == QueuesOf(l)
           H == HereOf(l)
<1>1. H \in SUBSET Dests /\ \A d \in H : d \in Queues /\ d # Session
  BY InfoBaseAssumption DEF HereOf, Queues
<1>2. /\ order \in Seq(H) /\ Len(order) \in Nat
      /\ \A i, j \in 1..Len(order) : order[i] = order[j] => i = j
  BY <1>1, OrderNamesAll
<1>3. /\ c \in Seq(Message) /\ Len(c) = Len(order) + 1 /\ c[1] = FirstOf(l)
      /\ FirstOf(l).queue = Session /\ FirstOf(l).type = "Session_Initialization_Response"
      /\ \A i \in 1..Len(order) : c[i + 1] = UpOf(l, order[i])
      /\ \A d \in H : /\ UpOf(l, d) \in Message /\ UpOf(l, d).queue = d
                       /\ UpOf(l, d).type = "Destination_Up"
  BY SessionStart
<1>4. /\ \A d \in H : p[d] = <<UpOf(l, d)>>
      /\ \A q \in Queues : q \notin H => p[q] = <<>>
  BY <1>1 DEF QueuesOf
<1>5. p \in [Queues -> Seq(Message)]
  BY <1>1, <1>3 DEF QueuesOf
<1>6. \A d \in H : Queued(UpOf(l, d)) /\ Addressed(UpOf(l, d))
  BY <1>1, <1>3 DEF Queued, QueuedTypes, Addressed, SessionTypes
<1>7. ~Queued(FirstOf(l)) /\ Addressed(FirstOf(l))
  BY <1>3 DEF Queued, QueuedTypes, Addressed, SessionTypes
<1>8. \A i \in 1..Len(c) : i = 1 \/ (i - 1 \in 1..Len(order) /\ (i - 1) + 1 = i)
  BY <1>2, <1>3
<1>9. \A i \in 1..Len(order) : order[i] \in H
  BY <1>2
<1>10. \A i \in 1..Len(c) : i # 1 =>
        c[i] = UpOf(l, order[i - 1]) /\ c[i].queue = order[i - 1] /\ order[i - 1] \in H
  BY <1>3, <1>8, <1>9
<1> HIDE DEF c, p, H
<1>11. Queueing(p)
  <2>1. ASSUME NEW q \in Queues, NEW i \in 1..Len(p[q])
        PROVE  p[q][i].queue = q /\ Queued(p[q][i]) /\ Addressed(p[q][i])
    <3>1. CASE q \in H
      BY <1>3, <1>4, <1>6, <2>1, <3>1
    <3>2. CASE q \notin H
      BY <1>4, <2>1, <3>2
    <3> QED
      BY <3>1, <3>2
  <2> QED
    BY <1>5, <2>1 DEF Queueing
<1>12. Sent(p, c)
  <2>1. ASSUME NEW i \in 1..Len(c)
        PROVE  Addressed(c[i]) /\ (Queued(c[i]) =>
                 p[c[i].queue] # <<>> /\ c[i] = p[c[i].queue][1])
    <3>1. CASE i = 1
      BY <1>3, <1>7, <3>1
    <3>2. CASE i # 1
      BY <1>4, <1>6, <1>10, <3>2
    <3> QED
      BY <3>1, <3>2
  <2>2. ASSUME NEW i \in 1..Len(c), NEW j \in 1..Len(c), i # j, Queued(c[i]), Queued(c[j])
        PROVE  c[i].queue # c[j].queue
    <3>1. i # 1 /\ j # 1
      BY <1>3, <1>7, <2>2
    <3>2. i - 1 # j - 1 /\ i - 1 \in 1..Len(order) /\ j - 1 \in 1..Len(order)
      BY <1>8, <2>2, <3>1
    <3> QED
      BY <1>2, <1>10, <3>1, <3>2
  <2> QED
    BY <1>3, <2>1, <2>2 DEF Sent
<1>13. Answered(p, <<>>) /\ Apart(c, <<>>)
  BY DEF Answered, Apart
<1> QED
  BY <1>11, <1>12, <1>13 DEF FlightOK, p, c

LEMMA ReachesAtStart ==
  ASSUME NEW l \in Base, NEW order \in Orders(HereOf(l)), NEW d \in Dests
  PROVE  Reaches(UpsOf(l, order), d, Absent, l.dests[d])
<1> DEFINE c == UpsOf(l, order)
           H == HereOf(l)
           n == Len(order)
           a == l.dests[d]
           V == [i \in 0..n + 1 |-> IF \E j \in 1..i - 1 : order[j] = d THEN a ELSE Absent]
<1>1. H \in SUBSET Dests
  BY DEF HereOf
<1>2. /\ order \in Seq(H) /\ n \in Nat
      /\ \A e \in H : \E i \in 1..n : order[i] = e
  BY <1>1, OrderNamesAll
<1>3. /\ Len(c) = n + 1 /\ c[1] = FirstOf(l) /\ FirstOf(l).queue = Session
      /\ \A i \in 1..n : c[i + 1] = UpOf(l, order[i])
      /\ \A e \in H : /\ UpOf(l, e).queue = e /\ UpOf(l, e).type = "Destination_Up"
                       /\ UpOf(l, e).items = AllItems(l.dests[e])
  BY SessionStart
<1>4. a \in DestValue /\ Absent \in DestValue
  BY BaseParts DEF DestValue
<1>5. d \in H => a \in DestData
  BY <1>4 DEF DestValue, HereOf
<1>6. d \notin H => a = Absent
  BY DEF HereOf
<1>7. \A i \in 1..n : order[i] \in H
  BY <1>2
<1> HIDE DEF c, H, n, a
<1>8. V \in [0..n + 1 -> DestValue]
  BY <1>4
<1>9. V[0] = Absent
  BY <1>2
<1>10. V[n + 1] = a
  <2>1. V[n + 1] = IF \E j \in 1..n : order[j] = d THEN a ELSE Absent
    BY <1>2
  <2> QED
    BY <1>2, <1>6, <2>1
<1>11. ASSUME NEW i \in 1..n + 1 PROVE V[i] = Effect(c[i], d, V[i - 1])
  <2>1. CASE i = 1
    <3>1. V[i] = Absent /\ V[i - 1] = Absent
      BY <1>2, <2>1
    <3>2. c[i].queue # d
      BY <1>3, <2>1, InfoBaseAssumption
    <3> QED
      BY <3>1, <3>2 DEF Effect
  <2>2. CASE i # 1
    <3>1. i - 1 \in 1..n /\ (i - 1) + 1 = i
      BY <1>2, <2>2
    <3>2. c[i] = UpOf(l, order[i - 1]) /\ order[i - 1] \in H
      BY <1>3, <1>7, <3>1
    <3>3. CASE order[i - 1] = d
      <4>1. V[i] = a
        BY <1>2, <2>2, <3>1, <3>3
      <4>2. c[i].queue = d /\ c[i].type = "Destination_Up" /\ c[i].items = AllItems(a)
        BY <1>3, <3>2, <3>3 DEF a
      <4>3. Apply(EmptyDest, AllItems(a)) = a
        BY <1>5, <3>2, <3>3, AllItemsKept
      <4> QED
        BY <4>1, <4>2, <4>3 DEF Effect
    <3>4. CASE order[i - 1] # d
      <4>1. (\E j \in 1..i - 1 : order[j] = d) <=> (\E j \in 1..(i - 1) - 1 : order[j] = d)
        BY <1>2, <3>1, <3>4
      <4>2. V[i] = V[i - 1]
        BY <1>2, <3>1, <4>1
      <4>3. c[i].queue # d
        BY <1>3, <3>2, <3>4
      <4> QED
        BY <4>2, <4>3 DEF Effect
    <3> QED
      BY <3>3, <3>4
  <2> QED
    BY <2>1, <2>2
<1> HIDE DEF V
<1>12. Reaches(c, d, Absent, a)
  BY <1>3, <1>8, <1>9, <1>10, <1>11 DEF Reaches
<1> QED
  BY <1>12 DEF c, a

LEMMA ModemUp ==
  ASSUME NEW l, NEW x, NEW p, NEW c, NEW r, NEW o, ModemOK(l, x, p, c, r, o), ~LiveState(x),
         NEW order \in Orders(HereOf(l)), NEW o2, \A d \in Dests : d \notin o2
  PROVE  ModemOK(l, [state |-> "connected", data |-> EmptyBase], QueuesOf(l), UpsOf(l, order),
                 r, o2)
<1> DEFINE y == [state |-> "connected", data |-> EmptyBase]
<1>1. y \in Peers /\ y.data = EmptyBase /\ y.state = "connected"
  BY EmptyBases DEF Peers
<1>2. l \in Base /\ r = <<>>
  BY DEF ModemOK
<1> HIDE DEF y
<1>3. FlightOK(QueuesOf(l), UpsOf(l, order), r)
  BY <1>2, FlightAtStart
<1>4. ASSUME NEW d \in Dests
      PROVE  Mirrors(l.dests[d], y.data.dests[d], QueuesOf(l)[d], UpsOf(l, order), d, d \in o2)
  <2>1. y.data.dests[d] = Absent /\ l.dests[d] \in DestValue
    BY <1>1, <1>2, EmptyBases, BaseParts
  <2>2. Reaches(UpsOf(l, order), d, Absent, l.dests[d])
    BY <1>2, ReachesAtStart
  <2>3. Len(QueuesOf(l)[d]) <= 1
    BY DEF QueuesOf, Queues
  <2>4. Target(QueuesOf(l)[d], d, l.dests[d]) = l.dests[d]
    BY <2>3 DEF Target
  <2>5. Matches(l.dests[d], l.dests[d], d \in o2)
    BY DEF Matches
  <2> QED
    BY <2>1, <2>2, <2>4, <2>5 DEF Mirrors
<1>5. Mirrored(l, y, QueuesOf(l), UpsOf(l, order), o2)
  BY <1>4 DEF Mirrored
<1>6. LiveState(y)
  BY <1>1 DEF LiveState
<1> QED
  BY <1>1, <1>2, <1>3, <1>5, <1>6, EmptyBases DEF ModemOK, y

-----------------------------------------------------------------------------
(* The inductive invariant *)

OvertakenAt(m) == {d \in Dests : <<m, d>> \in overtaken}

ModemInv(m) == ModemOK(local_pdp[m], peer[m], pending[m], channel[m], responses[m],
                       OvertakenAt(m))

InfoBaseInv == TypeOK /\ \A m \in Modems : ModemInv(m)

\* A step changes the state of one modem.
LEMMA OneModem ==
  ASSUME InfoBaseInv, NEW m \in Modems, NEW l, NEW x, NEW p, NEW c, NEW r, NEW o,
         ModemOK(l, x, p, c, r, o),
         local_pdp' = [local_pdp EXCEPT ![m] = l], peer' = [peer EXCEPT ![m] = x],
         pending' = [pending EXCEPT ![m] = p], channel' = [channel EXCEPT ![m] = c],
         responses' = [responses EXCEPT ![m] = r],
         overtaken' \subseteq Modems \X Dests,
         \A d \in Dests : <<m, d>> \in overtaken' <=> d \in o, o \subseteq Dests,
         \A n \in Modems \ {m}, d \in Dests : <<n, d>> \in overtaken' <=> <<n, d>> \in overtaken,
         router_ips' \subseteq Addrs, calls' \in 0..MaxCalls
  PROVE  InfoBaseInv'
<1>1. /\ l \in Base /\ x \in Peers /\ p \in [Queues -> Seq(Message)] /\ c \in Seq(Message)
      /\ r \in Seq(Response) /\ (x.state = "none" => x.data = EmptyBase)
  BY FlightTypes DEF ModemOK
<1>2. TypeOK
  BY DEF InfoBaseInv
<1>3. TypeOK'
  BY <1>1, <1>2 DEF TypeOK
<1>4. ModemInv(m)'
  <2>1. OvertakenAt(m)' = o
    BY DEF OvertakenAt
  <2>2. local_pdp'[m] = l /\ peer'[m] = x /\ pending'[m] = p /\ channel'[m] = c /\ responses'[m] = r
    BY <1>2 DEF TypeOK
  <2> QED
    BY <2>1, <2>2 DEF ModemInv
<1>5. ASSUME NEW n \in Modems \ {m} PROVE ModemInv(n)'
  <2>1. OvertakenAt(n)' = OvertakenAt(n)
    BY DEF OvertakenAt
  <2>2. /\ local_pdp'[n] = local_pdp[n] /\ peer'[n] = peer[n] /\ pending'[n] = pending[n]
        /\ channel'[n] = channel[n] /\ responses'[n] = responses[n]
    BY <1>2 DEF TypeOK
  <2> QED
    BY <2>1, <2>2 DEF ModemInv, InfoBaseInv
<1> QED
  BY <1>3, <1>4, <1>5 DEF InfoBaseInv

\* The same when the destinations overtaken stay the same.
LEMMA OneModemSame ==
  ASSUME InfoBaseInv, NEW m \in Modems, NEW l, NEW x, NEW p, NEW c, NEW r,
         ModemOK(l, x, p, c, r, OvertakenAt(m)),
         local_pdp' = [local_pdp EXCEPT ![m] = l], peer' = [peer EXCEPT ![m] = x],
         pending' = [pending EXCEPT ![m] = p], channel' = [channel EXCEPT ![m] = c],
         responses' = [responses EXCEPT ![m] = r],
         UNCHANGED overtaken, router_ips' \subseteq Addrs, calls' \in 0..MaxCalls
  PROVE  InfoBaseInv'
<1>1. /\ overtaken' \subseteq Modems \X Dests /\ OvertakenAt(m) \subseteq Dests
      /\ \A d \in Dests : <<m, d>> \in overtaken' <=> d \in OvertakenAt(m)
      /\ \A n \in Modems \ {m}, d \in Dests : <<n, d>> \in overtaken' <=> <<n, d>> \in overtaken
  BY DEF InfoBaseInv, TypeOK, OvertakenAt
<1> QED
  BY <1>1, OneModem

LEMMA ModemTypes ==
  ASSUME InfoBaseInv, NEW m \in Modems
  PROVE  /\ ModemInv(m) /\ local_pdp[m] \in Base /\ peer[m] \in Peers /\ peer[m].data \in Base
         /\ FlightOK(pending[m], channel[m], responses[m])
         /\ pending[m] \in [Queues -> Seq(Message)] /\ channel[m] \in Seq(Message)
         /\ responses[m] \in Seq(Response)
         /\ local_pdp = [local_pdp EXCEPT ![m] = local_pdp[m]]
         /\ peer = [peer EXCEPT ![m] = peer[m]]
         /\ pending = [pending EXCEPT ![m] = pending[m]]
         /\ channel = [channel EXCEPT ![m] = channel[m]]
         /\ responses = [responses EXCEPT ![m] = responses[m]]
         /\ router_ips \subseteq Addrs /\ calls \in 0..MaxCalls
<1>1. ModemInv(m) /\ TypeOK
  BY DEF InfoBaseInv
<1>2. peer[m] \in Peers
  BY <1>1 DEF TypeOK
<1>3. peer[m].data \in Base
  BY <1>2, PeerParts
<1> QED
  BY <1>1, <1>2, <1>3 DEF ModemInv, ModemOK, TypeOK

\* A call that is not told to the router.
LEMMA OneModemSilent ==
  ASSUME InfoBaseInv, NEW m \in Modems, NEW l, NEW o,
         ModemOK(l, peer[m], pending[m], channel[m], responses[m], o),
         local_pdp' = [local_pdp EXCEPT ![m] = l],
         UNCHANGED <<peer, pending, channel, responses, router_ips>>,
         overtaken' \subseteq Modems \X Dests,
         \A d \in Dests : <<m, d>> \in overtaken' <=> d \in o, o \subseteq Dests,
         \A n \in Modems \ {m}, d \in Dests : <<n, d>> \in overtaken' <=> <<n, d>> \in overtaken,
         calls' \in 0..MaxCalls
  PROVE  InfoBaseInv'
<1>1. /\ peer' = [peer EXCEPT ![m] = peer[m]] /\ pending' = [pending EXCEPT ![m] = pending[m]]
      /\ channel' = [channel EXCEPT ![m] = channel[m]]
      /\ responses' = [responses EXCEPT ![m] = responses[m]] /\ router_ips' \subseteq Addrs
  BY ModemTypes
<1> QED
  BY <1>1, OneModem

-----------------------------------------------------------------------------
(* Client calls *)

LEMMA CallTypes ==
  ASSUME InfoBaseInv, NEW m \in Modems, NEW b, Call(m, b)
  PROVE  /\ calls' \in 0..MaxCalls /\ local_pdp' = [local_pdp EXCEPT ![m] = b]
         /\ UNCHANGED <<peer, router_ips, responses>>
  BY InfoBaseAssumption DEF Call, InfoBaseInv, TypeOK

LEMMA DestinationUpInv ==
  ASSUME InfoBaseInv, NEW m \in Modems, NEW d \in Dests, NEW items \in Updates,
         destination_up(m, d, items)
  PROVE  InfoBaseInv'
<1> DEFINE l   == local_pdp[m]
           l2  == addDestination(l, d, items)
           msg == Msg("Destination_Up", d, items)
           o   == OvertakenAt(m)
           o2  == o \ {d}
<1>1. items \in ItemSet
  BY UpdatesAssumption
<1>2. msg.queue = d
  BY DEF Msg
<1>3. l2 \in Base
  BY <1>1, ModemTypes, ApplyType, EmptyDestType, DestStored DEF addDestination, DestValue
<1>4. /\ calls' \in 0..MaxCalls /\ local_pdp' = [local_pdp EXCEPT ![m] = l2]
      /\ UNCHANGED <<peer, router_ips, responses>>
  BY CallTypes DEF destination_up
<1>5. /\ overtaken' \subseteq Modems \X Dests /\ o2 \subseteq Dests
      /\ \A e \in Dests : <<m, e>> \in overtaken' <=> e \in o2
      /\ \A n \in Modems \ {m}, e \in Dests : <<n, e>> \in overtaken' <=> <<n, e>> \in overtaken
  BY DEF destination_up, InfoBaseInv, TypeOK, OvertakenAt
<1>6. TellPeers(m, SendQueued(m, msg))
  BY DEF destination_up
<1>7. ModemOK(l, peer[m], pending[m], channel[m], responses[m], o)
  BY ModemTypes DEF ModemInv
<1>8. CASE LiveState(peer[m])
  <2> DEFINE p2 == [pending[m] EXCEPT ![d] = Append(pending[m][d], msg)]
             c2 == IF pending[m][d] = <<>> THEN Append(channel[m], msg) ELSE channel[m]
  <2>1. msg = Msg("Destination_Up", d, items) /\ OnlyOvertaken(o, o2, d)
    BY DEF OnlyOvertaken
  <2> HIDE DEF l2, msg, o2, o
  <2>2. SendQueued(m, msg)
    BY <1>6, <1>8 DEF TellPeers, LiveState
  <2>3. pending' = [pending EXCEPT ![m] = p2]
    BY <1>2, <2>2, ModemTypes DEF SendQueued
  <2>4. channel' = [channel EXCEPT ![m] = c2]
    BY <1>2, <2>2, ModemTypes DEF SendQueued
  <2>5. /\ p2 = [pending[m] EXCEPT ![d] = Append(pending[m][d], msg)]
        /\ c2 = IF pending[m][d] = <<>> THEN Append(channel[m], msg) ELSE channel[m]
    OBVIOUS
  <2> HIDE DEF p2, c2
  <2>6. ModemOK(addDestination(l, d, items), peer[m], p2, c2, responses[m], o2)
    BY <1>1, <1>7, <1>8, <2>1, <2>5, ModemSendsUp
  <2>7. ModemOK(l2, peer[m], p2, c2, responses[m], o2)
    BY <2>6 DEF l2, o2
  <2> QED
    BY <1>4, <1>5, <2>3, <2>4, <2>7, ModemTypes, OneModem
<1>9. CASE ~LiveState(peer[m])
  <2>1. UNCHANGED <<pending, channel>>
    BY <1>6, <1>9 DEF TellPeers, LiveState, SendNothing
  <2> HIDE DEF l2, o2, o
  <2>2. ModemOK(l2, peer[m], pending[m], channel[m], responses[m], o2)
    BY <1>3, <1>7, <1>9, ModemCallsOffline
  <2> QED
    BY <1>4, <1>5, <2>1, <2>2, OneModemSilent
<1> QED
  BY <1>8, <1>9

LEMMA DestinationUpdateInv ==
  ASSUME InfoBaseInv, NEW m \in Modems, NEW d \in Dests, NEW items \in Updates,
         destination_update(m, d, items)
  PROVE  InfoBaseInv'
<1> DEFINE l   == local_pdp[m]
           l2  == updateDestination(l, d, items)
           msg == Msg("Destination_Update", d, items)
           o   == OvertakenAt(m)
           o2  == IF Len(pending[m][d]) > 1 THEN o \cup {d} ELSE o
<1>1. items \in ItemSet
  BY UpdatesAssumption
<1>2. l.dests \in [Dests -> DestValue] /\ l.dests[d] # Absent
  BY ModemTypes, BaseParts DEF destination_update, Has
<1>3. Apply(l.dests[d], items) \in DestValue
  BY <1>1, <1>2, ApplyType DEF DestValue
<1>4. l2 \in Base /\ l2.dests = [l.dests EXCEPT ![d] = Apply(l.dests[d], items)]
  BY <1>3, ModemTypes, DestStored DEF updateDestination
<1>5. /\ calls' \in 0..MaxCalls /\ local_pdp' = [local_pdp EXCEPT ![m] = l2]
      /\ UNCHANGED <<peer, router_ips, responses>>
  BY CallTypes DEF destination_update
<1>6. /\ overtaken' \subseteq Modems \X Dests /\ o2 \subseteq Dests
      /\ \A e \in Dests : <<m, e>> \in overtaken' <=> e \in o2
      /\ \A n \in Modems \ {m}, e \in Dests : <<n, e>> \in overtaken' <=> <<n, e>> \in overtaken
  <2>1. CASE Len(pending[m][d]) > 1
    BY <2>1 DEF destination_update, InfoBaseInv, TypeOK, OvertakenAt
  <2>2. CASE ~(Len(pending[m][d]) > 1)
    BY <2>2 DEF destination_update, InfoBaseInv, TypeOK, OvertakenAt
  <2> QED
    BY <2>1, <2>2
<1>7. TellPeers(m, SendNow(m, msg))
  BY DEF destination_update
<1>8. ModemOK(l, peer[m], pending[m], channel[m], responses[m], o)
  BY ModemTypes DEF ModemInv
<1>9. /\ \A e \in Dests : e # d => (e \in o2 <=> e \in o)
      /\ d \notin o2 => d \notin o /\ ~(Len(pending[m][d]) > 1)
  OBVIOUS
<1>10. Len(pending[m][d]) \in Nat
  BY ModemTypes DEF Queues
<1> HIDE DEF l2, o2, o
<1>11. CASE LiveState(peer[m])
  <2>1. channel' = [channel EXCEPT ![m] = Append(channel[m], msg)] /\ UNCHANGED pending
    BY <1>7, <1>11 DEF TellPeers, LiveState, SendNow
  <2>2. d \notin o2 => d \notin o /\ Len(pending[m][d]) <= 1
    BY <1>9, <1>10
  <2>3. ModemOK(l2, peer[m], pending[m], Append(channel[m], msg), responses[m], o2)
    BY <1>1, <1>2, <1>4, <1>8, <1>9, <1>11, <2>2, ModemSendsUpdate
  <2> QED
    BY <1>5, <1>6, <2>1, <2>3, ModemTypes, OneModem
<1>12. CASE ~LiveState(peer[m])
  <2>1. UNCHANGED <<pending, channel>>
    BY <1>7, <1>12 DEF TellPeers, LiveState, SendNothing
  <2>2. ModemOK(l2, peer[m], pending[m], channel[m], responses[m], o2)
    BY <1>4, <1>8, <1>12, ModemCallsOffline
  <2> QED
    BY <1>5, <1>6, <2>1, <2>2, OneModemSilent
<1> QED
  BY <1>11, <1>12

LEMMA DestinationDownInv ==
  ASSUME InfoBaseInv, NEW m \in Modems, NEW d \in Dests, destination_down(m, d)
  PROVE  InfoBaseInv'
<1> DEFINE l   == local_pdp[m]
           l2  == removeDestination(l, d)
           msg == Msg("Destination_Down", d, NoItems)
           o   == OvertakenAt(m)
           o2  == o
<1>2. msg.queue = d
  BY DEF Msg
<1>3. l2 \in Base
  BY ModemTypes, DestStored DEF removeDestination, DestValue
<1>4. /\ calls' \in 0..MaxCalls /\ local_pdp' = [local_pdp EXCEPT ![m] = l2]
      /\ UNCHANGED <<peer, router_ips, responses>>
  BY CallTypes DEF destination_down
<1>5. /\ overtaken' \subseteq Modems \X Dests /\ o2 \subseteq Dests
      /\ \A e \in Dests : <<m, e>> \in overtaken' <=> e \in o2
      /\ \A n \in Modems \ {m}, e \in Dests : <<n, e>> \in overtaken' <=> <<n, e>> \in overtaken
  BY DEF destination_down, InfoBaseInv, TypeOK, OvertakenAt
<1>6. TellPeers(m, SendQueued(m, msg))
  BY DEF destination_down
<1>7. ModemOK(l, peer[m], pending[m], channel[m], responses[m], o)
  BY ModemTypes DEF ModemInv
<1>8. CASE LiveState(peer[m])
  <2> DEFINE p2 == [pending[m] EXCEPT ![d] = Append(pending[m][d], msg)]
             c2 == IF pending[m][d] = <<>> THEN Append(channel[m], msg) ELSE channel[m]
  <2>1. msg = Msg("Destination_Down", d, NoItems)
    OBVIOUS
  <2> HIDE DEF l2, msg, o2, o
  <2>2. SendQueued(m, msg)
    BY <1>6, <1>8 DEF TellPeers, LiveState
  <2>3. pending' = [pending EXCEPT ![m] = p2]
    BY <1>2, <2>2, ModemTypes DEF SendQueued
  <2>4. channel' = [channel EXCEPT ![m] = c2]
    BY <1>2, <2>2, ModemTypes DEF SendQueued
  <2>5. /\ p2 = [pending[m] EXCEPT ![d] = Append(pending[m][d], msg)]
        /\ c2 = IF pending[m][d] = <<>> THEN Append(channel[m], msg) ELSE channel[m]
    OBVIOUS
  <2> HIDE DEF p2, c2
  <2>6. ModemOK(removeDestination(l, d), peer[m], p2, c2, responses[m], o)
    BY <1>7, <1>8, <2>1, <2>5, ModemSendsDown
  <2>7. ModemOK(l2, peer[m], p2, c2, responses[m], o2)
    BY <2>6 DEF l2, o2
  <2> QED
    BY <1>4, <1>5, <2>3, <2>4, <2>7, ModemTypes, OneModem
<1>9. CASE ~LiveState(peer[m])
  <2>1. UNCHANGED <<pending, channel>>
    BY <1>6, <1>9 DEF TellPeers, LiveState, SendNothing
  <2> HIDE DEF l2, o2, o
  <2>2. ModemOK(l2, peer[m], pending[m], channel[m], responses[m], o2)
    BY <1>3, <1>7, <1>9, ModemCallsOffline
  <2> QED
    BY <1>4, <1>5, <2>1, <2>2, OneModemSilent
<1> QED
  BY <1>8, <1>9

LEMMA PeerUpdateInv ==
  ASSUME InfoBaseInv, NEW m \in Modems, NEW items \in Updates, peer_update(m, items)
  PROVE  InfoBaseInv'
<1> DEFINE l   == local_pdp[m]
           l2  == update_data_items(l, items)
           msg == Msg("Session_Update", Session, items)
           o   == OvertakenAt(m)
<1>1. items \in ItemSet
  BY UpdatesAssumption
<1>2. l2 \in Base
  BY <1>1, ModemTypes, UpdateStored
<1>3. /\ calls' \in 0..MaxCalls /\ local_pdp' = [local_pdp EXCEPT ![m] = l2]
      /\ UNCHANGED <<peer, router_ips, responses>>
  BY CallTypes DEF peer_update
<1>4. TellPeers(m, SendQueued(m, msg)) /\ UNCHANGED overtaken
  BY DEF peer_update
<1>5. /\ overtaken' \subseteq Modems \X Dests /\ o \subseteq Dests
      /\ \A e \in Dests : <<m, e>> \in overtaken' <=> e \in o
      /\ \A n \in Modems \ {m}, e \in Dests : <<n, e>> \in overtaken' <=> <<n, e>> \in overtaken
  BY <1>4 DEF InfoBaseInv, TypeOK, OvertakenAt
<1>6. ModemOK(l, peer[m], pending[m], channel[m], responses[m], o)
  BY ModemTypes DEF ModemInv
<1>7. msg.queue = Session
  BY DEF Msg
<1>8. CASE LiveState(peer[m])
  <2> DEFINE p2 == [pending[m] EXCEPT ![Session] = Append(pending[m][Session], msg)]
             c2 == IF pending[m][Session] = <<>> THEN Append(channel[m], msg) ELSE channel[m]
  <2> HIDE DEF msg, l2, o
  <2>1. SendQueued(m, msg)
    BY <1>4, <1>8 DEF TellPeers, LiveState
  <2>2. pending' = [pending EXCEPT ![m] = p2]
    BY <1>7, <2>1, ModemTypes DEF SendQueued
  <2>3. channel' = [channel EXCEPT ![m] = c2]
    BY <1>7, <2>1, ModemTypes DEF SendQueued
  <2>4. /\ p2 = [pending[m] EXCEPT ![Session] = Append(pending[m][Session], msg)]
        /\ c2 = IF pending[m][Session] = <<>> THEN Append(channel[m], msg) ELSE channel[m]
    OBVIOUS
  <2>5. msg = Msg("Session_Update", Session, items)
    BY DEF msg
  <2> HIDE DEF p2, c2
  <2>6. ModemOK(update_data_items(l, items), peer[m], p2, c2, responses[m], o)
    BY <1>1, <1>6, <1>8, <2>4, <2>5, ModemSendsSessionUpdate
  <2>7. ModemOK(l2, peer[m], p2, c2, responses[m], o)
    BY <2>6 DEF l2
  <2> QED
    BY <1>3, <1>5, <2>2, <2>3, <2>7, ModemTypes, OneModem
<1>9. CASE ~LiveState(peer[m])
  <2>1. UNCHANGED <<pending, channel>>
    BY <1>4, <1>9 DEF TellPeers, LiveState, SendNothing
  <2> HIDE DEF l2, o
  <2>2. ModemOK(l2, peer[m], pending[m], channel[m], responses[m], o)
    BY <1>2, <1>6, <1>9, ModemCallsOffline
  <2> QED
    BY <1>3, <1>5, <2>1, <2>2, OneModemSilent
<1> QED
  BY <1>8, <1>9

LEMMA PeerRemoveInv ==
  ASSUME InfoBaseInv, NEW m \in Modems, NEW items \in Updates, peer_remove_data_items(m, items)
  PROVE  InfoBaseInv'
<1> DEFINE l   == local_pdp[m]
           l2  == remove_data_items(l, items)
           o   == OvertakenAt(m)
<1>1. items \in ItemSet
  BY UpdatesAssumption
<1>2. l2 \in Base /\ l2.dests = l.dests
  BY <1>1, ModemTypes, RemoveStored
<1>3. /\ calls' \in 0..MaxCalls /\ local_pdp' = [local_pdp EXCEPT ![m] = l2]
      /\ UNCHANGED <<peer, router_ips, responses>>
  BY CallTypes DEF peer_remove_data_items
<1>4. UNCHANGED <<pending, channel, overtaken>>
  BY DEF peer_remove_data_items, SendNothing
<1>5. /\ overtaken' \subseteq Modems \X Dests /\ o \subseteq Dests
      /\ \A e \in Dests : <<m, e>> \in overtaken' <=> e \in o
      /\ \A n \in Modems \ {m}, e \in Dests : <<n, e>> \in overtaken' <=> <<n, e>> \in overtaken
  BY <1>4 DEF InfoBaseInv, TypeOK, OvertakenAt
<1>6. ModemOK(l, peer[m], pending[m], channel[m], responses[m], o)
  BY ModemTypes DEF ModemInv
<1> HIDE DEF l2, o
<1>7. ModemOK(l2, peer[m], pending[m], channel[m], responses[m], o)
  BY <1>2, <1>6 DEF ModemOK, Mirrored
<1> QED
  BY <1>3, <1>4, <1>5, <1>7, OneModemSilent

LEMMA RouterUpdatesInv ==
  ASSUME InfoBaseInv, NEW items \in Updates, RouterUpdates(items)
  PROVE  InfoBaseInv'
<1>1. items.adds \subseteq Addrs
  BY UpdatesAssumption DEF ItemSet
<1>2. TypeOK'
  BY <1>1, InfoBaseAssumption DEF InfoBaseInv, TypeOK, RouterUpdates, update_ip_data_items
<1>3. ASSUME NEW m \in Modems PROVE ModemInv(m)'
  BY DEF RouterUpdates, InfoBaseInv, ModemInv, OvertakenAt
<1> QED
  BY <1>2, <1>3 DEF InfoBaseInv

-----------------------------------------------------------------------------
(* The life of a session *)

LEMMA EndedInv ==
  ASSUME InfoBaseInv, NEW m \in Modems, Ended(m)
  PROVE  InfoBaseInv'
<1> DEFINE x == [peer[m] EXCEPT !.state = "terminating"]
<1>1. ModemOK(local_pdp[m], peer[m], pending[m], channel[m], responses[m], OvertakenAt(m))
  BY ModemTypes DEF ModemInv
<1>2. ModemOK(local_pdp[m], x, NoQueue, <<>>, <<>>, OvertakenAt(m))
  BY <1>1, ModemEnds
<1>3. /\ peer' = [peer EXCEPT ![m] = x] /\ pending' = [pending EXCEPT ![m] = NoQueue]
      /\ channel' = [channel EXCEPT ![m] = <<>>] /\ responses' = [responses EXCEPT ![m] = <<>>]
  BY ModemTypes DEF Ended, NoQueue, Peers
<1>4. /\ local_pdp' = [local_pdp EXCEPT ![m] = local_pdp[m]] /\ UNCHANGED overtaken
      /\ router_ips' \subseteq Addrs /\ calls' \in 0..MaxCalls
  BY ModemTypes DEF Ended
<1> HIDE DEF x
<1> QED
  BY <1>2, <1>3, <1>4, OneModemSame

LEMMA CleanupInv ==
  ASSUME InfoBaseInv, NEW m \in Modems, cleanup_ex_peers(m)
  PROVE  InfoBaseInv'
<1> DEFINE x == [state |-> "none", data |-> EmptyBase]
<1>1. ModemOK(local_pdp[m], peer[m], pending[m], channel[m], responses[m], OvertakenAt(m))
  BY ModemTypes DEF ModemInv
<1>2. ~LiveState(peer[m])
  BY DEF cleanup_ex_peers, LiveState
<1>3. ModemOK(local_pdp[m], x, pending[m], channel[m], responses[m], OvertakenAt(m))
  BY <1>1, <1>2, ModemCleaned
<1>4. /\ peer' = [peer EXCEPT ![m] = x] /\ pending' = [pending EXCEPT ![m] = pending[m]]
      /\ channel' = [channel EXCEPT ![m] = channel[m]]
      /\ responses' = [responses EXCEPT ![m] = responses[m]]
      /\ local_pdp' = [local_pdp EXCEPT ![m] = local_pdp[m]] /\ UNCHANGED overtaken
      /\ router_ips' \subseteq Addrs /\ calls' \in 0..MaxCalls
  BY ModemTypes DEF cleanup_ex_peers
<1> HIDE DEF x
<1> QED
  BY <1>3, <1>4, OneModemSame

LEMMA SessionUpInv ==
  ASSUME InfoBaseInv, NEW m \in Modems, session_up(m)
  PROVE  InfoBaseInv'
<1> DEFINE l == local_pdp[m]
           x == [state |-> "connected", data |-> EmptyBase]
           o == {}
<1>1. ModemOK(l, peer[m], pending[m], channel[m], responses[m], OvertakenAt(m))
  BY ModemTypes DEF ModemInv
<1>2. ~LiveState(peer[m])
  BY DEF session_up, LiveState
<1>3. Here(m) = HereOf(l) /\ \A d : UpFor(m, d) = UpOf(l, d)
  BY DEF Here, HereOf, Has, UpFor, UpOf
<1>a. PICK order \in Orders(Here(m)) :
        channel' = [channel EXCEPT ![m] =
          <<Msg("Session_Initialization_Response", Session, AllItems(local_pdp[m]))>>
          \o [i \in 1..Len(order) |-> UpFor(m, order[i])]]
  BY DEF session_up
<1>b. [i \in 1..Len(order) |-> UpFor(m, order[i])] = [i \in 1..Len(order) |-> UpOf(l, order[i])]
  BY <1>3
<1>4. order \in Orders(HereOf(l)) /\ channel' = [channel EXCEPT ![m] = UpsOf(l, order)]
  BY <1>3, <1>a, <1>b DEF UpsOf, FirstOf
<1>5. pending' = [pending EXCEPT ![m] = QueuesOf(l)]
  BY <1>3 DEF session_up, QueuesOf
<1>6. \A d \in Dests : d \notin o
  OBVIOUS
<1>7. ModemOK(l, x, QueuesOf(l), UpsOf(l, order), responses[m], o)
  BY <1>1, <1>2, <1>4, <1>6, ModemUp
<1>8. /\ overtaken' \subseteq Modems \X Dests /\ o \subseteq Dests
      /\ \A e \in Dests : <<m, e>> \in overtaken' <=> e \in o
      /\ \A n \in Modems \ {m}, e \in Dests : <<n, e>> \in overtaken' <=> <<n, e>> \in overtaken
  BY DEF session_up, InfoBaseInv, TypeOK
<1>9. /\ peer' = [peer EXCEPT ![m] = x] /\ local_pdp' = [local_pdp EXCEPT ![m] = l]
      /\ responses' = [responses EXCEPT ![m] = responses[m]]
      /\ router_ips' \subseteq Addrs /\ calls' \in 0..MaxCalls
  BY ModemTypes DEF session_up
<1> HIDE DEF x, o
<1> QED
  BY <1>4, <1>5, <1>7, <1>8, <1>9, OneModem

-----------------------------------------------------------------------------
(* Message handlers *)

\* The router's data b is what handling msg makes of a.
Follows(msg, a, b) == \A d \in Dests : b.dests[d] = Effect(msg, d, a.dests[d])

LEMMA HeadArrived ==
  ASSUME InfoBaseInv, NEW m \in Modems, channel[m] # <<>>
  PROVE  /\ Head(channel[m]) \in Message /\ Addressed(Head(channel[m])) /\ LiveState(peer[m])
         /\ Head(channel[m]).items \in ItemSet /\ Head(channel[m]).queue \in Queues
         /\ peer[m].data.metrics = NoMetrics
<1>1. ModemOK(local_pdp[m], peer[m], pending[m], channel[m], responses[m], OvertakenAt(m))
  BY ModemTypes DEF ModemInv
<1>2. channel[m] \in Seq(Message) /\ FlightOK(pending[m], channel[m], responses[m])
  BY ModemTypes
<1>3. Head(channel[m]) = channel[m][1] /\ 1 \in 1..Len(channel[m])
  BY <1>2
<1>4. Head(channel[m]) \in Message /\ Addressed(Head(channel[m]))
  BY <1>2, <1>3, FlightTypes DEF FlightOK, Sent
<1> QED
  BY <1>1, <1>4, MessageParts DEF ModemOK

\* A message that is handled without a response.
TakenSilently(m) ==
  Taken(m) /\ UNCHANGED <<local_pdp, router_ips, pending, responses, overtaken, calls>>

LEMMA HandledSilently ==
  ASSUME InfoBaseInv, NEW m \in Modems, channel[m] # <<>>,
         NEW y \in Peers, LiveState(y), y.data.metrics = NoMetrics,
         Follows(Head(channel[m]), peer[m].data, y.data), peer' = [peer EXCEPT ![m] = y],
         TakenSilently(m)
  PROVE  InfoBaseInv'
<1> DEFINE c2 == Tail(channel[m])
<1>1. ModemOK(local_pdp[m], peer[m], pending[m], channel[m], responses[m], OvertakenAt(m))
  BY ModemTypes DEF ModemInv
<1>2. FlightOK(pending[m], c2, responses[m])
  BY ModemTypes, FlightTaken
<1>a. Doomed(pending[m], responses[m]) => Doomed(pending[m], responses[m])
  OBVIOUS
<1>b. \/ Doomed(pending[m], responses[m])
      \/ \A d \in Dests : y.data.dests[d] = Effect(Head(channel[m]), d, peer[m].data.dests[d])
  BY DEF Follows
<1>3. ModemOK(local_pdp[m], y, pending[m], c2, responses[m], OvertakenAt(m))
  BY <1>1, <1>2, <1>a, <1>b, ModemHandled
<1>4. /\ local_pdp' = [local_pdp EXCEPT ![m] = local_pdp[m]]
      /\ pending' = [pending EXCEPT ![m] = pending[m]]
      /\ channel' = [channel EXCEPT ![m] = c2]
      /\ responses' = [responses EXCEPT ![m] = responses[m]] /\ UNCHANGED overtaken
      /\ router_ips' \subseteq Addrs /\ calls' \in 0..MaxCalls
  BY ModemTypes DEF Taken, TakenSilently
<1> HIDE DEF c2
<1> QED
  BY <1>3, <1>4, OneModemSame

\* A message that is handled with a response.
LEMMA HandledAnswered ==
  ASSUME InfoBaseInv, NEW m \in Modems, channel[m] # <<>>,
         NEW y \in Peers, LiveState(y), y.data.metrics = NoMetrics,
         NEW msg, msg = Head(channel[m]), Queued(msg), NEW status \in {"Success", "Invalid_Message"},
         msg.queue = Session /\ status = "Success" => Clean(msg),
         status = "Success" => Follows(msg, peer[m].data, y.data),
         peer' = [peer EXCEPT ![m] = y], Respond(m, msg.queue, status), Taken(m),
         UNCHANGED <<local_pdp, router_ips, pending, overtaken, calls>>
  PROVE  InfoBaseInv'
<1> DEFINE a  == [queue |-> msg.queue, status |-> status]
           r2 == Append(responses[m], a)
<1>1. ModemOK(local_pdp[m], peer[m], pending[m], channel[m], responses[m], OvertakenAt(m))
  BY ModemTypes DEF ModemInv
<1>2. FlightOK(pending[m], Tail(channel[m]), r2)
  BY ModemTypes, FlightAnswered
<1>3. a \in Response /\ responses[m] \in Seq(Response)
  BY HeadArrived, ModemTypes DEF Response
<1>4. /\ Doomed(pending[m], responses[m]) => Doomed(pending[m], r2)
      /\ status # "Success" => Doomed(pending[m], r2)
  BY <1>3, DoomedAppend
<1>5. /\ local_pdp' = [local_pdp EXCEPT ![m] = local_pdp[m]]
      /\ pending' = [pending EXCEPT ![m] = pending[m]]
      /\ channel' = [channel EXCEPT ![m] = Tail(channel[m])]
      /\ responses' = [responses EXCEPT ![m] = r2] /\ UNCHANGED overtaken
      /\ router_ips' \subseteq Addrs /\ calls' \in 0..MaxCalls
  BY ModemTypes DEF Taken, Respond
<1> HIDE DEF a, r2
<1>6. \/ Doomed(pending[m], r2)
      \/ \A d \in Dests : y.data.dests[d] = Effect(Head(channel[m]), d, peer[m].data.dests[d])
  BY <1>4 DEF Follows
<1>7. ModemOK(local_pdp[m], y, pending[m], Tail(channel[m]), r2, OvertakenAt(m))
  BY <1>1, <1>2, <1>4, <1>6, ModemHandled
<1> QED
  BY <1>5, <1>7, OneModemSame

\* What Stored does to the router's peer.
WithData(x, b) == [state |-> x.state, data |-> b]

LEMMA StoredPeer ==
  ASSUME InfoBaseInv, NEW m \in Modems, NEW b \in Base
  PROVE  /\ WithData(peer[m], b) \in Peers /\ WithData(peer[m], b).data = b
         /\ LiveState(peer[m]) => LiveState(WithData(peer[m], b))
         /\ Stored(m, b) => peer' = [peer EXCEPT ![m] = WithData(peer[m], b)]
<1>1. peer[m] \in Peers
  BY ModemTypes
<1>2. peer[m] = [state |-> peer[m].state, data |-> peer[m].data]
  BY <1>1, PeerParts
<1>3. [peer[m] EXCEPT !.data = b] = WithData(peer[m], b)
  BY <1>2 DEF WithData
<1>4. Stored(m, b) => peer' = [peer EXCEPT ![m] = WithData(peer[m], b)]
  BY <1>3 DEF Stored
<1> QED
  BY <1>1, <1>4, PeerParts DEF WithData, LiveState

LEMMA HandleInitializationInv ==
  ASSUME InfoBaseInv, NEW m \in Modems, handle_peer_initialization_response(m)
  PROVE  InfoBaseInv'
<1> DEFINE msg == Head(channel[m])
           b   == update_data_items(peer[m].data, msg.items)
           y   == [state |-> "in_session", data |-> b]
<1>1. channel[m] # <<>> /\ msg.type = "Session_Initialization_Response"
  BY DEF handle_peer_initialization_response, Arrived
<1>2. /\ msg.items \in ItemSet /\ msg.queue = Session /\ peer[m].data \in Base
      /\ peer[m].data.metrics = NoMetrics
  BY <1>1, HeadArrived, ModemTypes DEF Addressed, SessionTypes
<1>3. b \in Base /\ b.metrics = NoMetrics /\ b.dests = peer[m].data.dests
  BY <1>2, UpdateAtRouter
<1>4. peer' = [peer EXCEPT ![m] = y] /\ TakenSilently(m)
  BY DEF handle_peer_initialization_response, TakenSilently
<1> HIDE DEF msg, b
<1>5. y \in Peers /\ y.data = b /\ LiveState(y)
  BY <1>3 DEF Peers, LiveState
<1>6. Follows(msg, peer[m].data, y.data)
  BY <1>2, <1>3, <1>5, InfoBaseAssumption DEF Follows, Effect
<1> HIDE DEF y
<1> QED
  BY <1>1, <1>3, <1>4, <1>5, <1>6, HandledSilently DEF msg

LEMMA HandlePeerUpdateInv ==
  ASSUME InfoBaseInv, NEW m \in Modems, handle_peer_update(m)
  PROVE  InfoBaseInv'
<1> DEFINE msg    == Head(channel[m])
           data   == peer[m].data
           b      == update_data_items(data, msg.items)
           y      == WithData(peer[m], b)
           status == IF MetricsKnown(data, msg.items) THEN "Success" ELSE "Invalid_Message"
<1>1. channel[m] # <<>> /\ msg.type = "Session_Update"
  BY DEF handle_peer_update, Arrived
<1>2. /\ msg.items \in ItemSet /\ msg.queue = Session /\ data \in Base
      /\ data.metrics = NoMetrics /\ LiveState(peer[m])
  BY <1>1, HeadArrived, ModemTypes DEF Addressed, SessionTypes
<1>3. /\ b \in Base /\ b.metrics = NoMetrics /\ b.dests = data.dests
      /\ MetricsKnown(data, msg.items) => MetricsOf(msg.items) = {}
  BY <1>2, UpdateAtRouter
<1>4. CASE Ended(m)
  BY <1>4, EndedInv
<1>5. CASE /\ Stored(m, b) /\ Respond(m, Session, status) /\ Taken(m)
           /\ UNCHANGED <<local_pdp, router_ips, pending, overtaken, calls>>
  <2>1. status \in {"Success", "Invalid_Message"} /\ (status = "Success" => Clean(msg))
    BY <1>3 DEF Clean
  <2>2. Queued(msg)
    BY <1>1 DEF Queued, QueuedTypes
  <2> HIDE DEF msg, b, status
  <2>3. y \in Peers /\ y.data = b /\ LiveState(y) /\ peer' = [peer EXCEPT ![m] = y]
    BY <1>2, <1>3, <1>5, StoredPeer
  <2> HIDE DEF y
  <2>4. Follows(msg, data, y.data)
    BY <1>2, <1>3, <2>3, InfoBaseAssumption DEF Follows, Effect
  <2>5. Respond(m, msg.queue, status) /\ Taken(m)
    BY <1>2, <1>5
  <2>6. msg = Head(channel[m]) /\ y.data.metrics = NoMetrics
    BY <1>3, <2>3 DEF msg
  <2> QED
    BY <1>1, <1>5, <2>1, <2>2, <2>3, <2>4, <2>5, <2>6, HandledAnswered
<1> QED
  BY <1>4, <1>5 DEF handle_peer_update

LEMMA HandleDestinationUpInv ==
  ASSUME InfoBaseInv, NEW m \in Modems, handle_destination_up(m)
  PROVE  InfoBaseInv'
<1> DEFINE msg  == Head(channel[m])
           d    == msg.queue
           data == peer[m].data
           b    == addDestination(data, d, msg.items)
           y    == WithData(peer[m], b)
<1>1. channel[m] # <<>> /\ msg.type = "Destination_Up"
  BY DEF handle_destination_up, Arrived
<1>2. /\ msg.items \in ItemSet /\ d \in Dests /\ d # Session /\ data \in Base
      /\ data.metrics = NoMetrics /\ LiveState(peer[m]) /\ peer[m] \in Peers
  BY <1>1, HeadArrived, ModemTypes, InfoBaseAssumption DEF Addressed, SessionTypes, Queues
<1>3. /\ b \in Base /\ b.metrics = NoMetrics
      /\ b.dests = [data.dests EXCEPT ![d] = Apply(EmptyDest, msg.items)]
  BY <1>2, DestStored, ApplyType, EmptyDestType DEF addDestination, DestValue
<1>4. Queued(msg) /\ msg = Head(channel[m])
  BY <1>1 DEF Queued, QueuedTypes
<1>5. CASE Ended(m)
  BY <1>5, EndedInv
<1>6. CASE /\ Respond(m, d, "Invalid_Message") /\ Taken(m)
           /\ UNCHANGED <<local_pdp, peer, router_ips, pending, overtaken, calls>>
  <2> HIDE DEF msg
  <2>1. peer' = [peer EXCEPT ![m] = peer[m]]
    BY <1>6, ModemTypes
  <2>2. "Invalid_Message" \in {"Success", "Invalid_Message"} /\ "Invalid_Message" # "Success"
    OBVIOUS
  <2>3. /\ Respond(m, d, "Invalid_Message") /\ Taken(m)
        /\ UNCHANGED <<local_pdp, router_ips, pending, overtaken, calls>>
    BY <1>6
  <2> QED
    BY <1>1, <1>2, <1>4, <2>1, <2>2, <2>3, HandledAnswered
<1>7. CASE /\ Stored(m, b) /\ Respond(m, d, "Success") /\ Taken(m)
           /\ UNCHANGED <<local_pdp, router_ips, pending, overtaken, calls>>
  <2> HIDE DEF msg, b
  <2>1. y \in Peers /\ y.data = b /\ LiveState(y) /\ peer' = [peer EXCEPT ![m] = y]
    BY <1>2, <1>3, <1>7, StoredPeer
  <2> HIDE DEF y
  <2>2. data.dests \in [Dests -> DestValue]
    BY <1>2, BaseParts
  <2>3. Follows(msg, data, y.data)
    BY <1>1, <1>2, <1>3, <2>1, <2>2 DEF Follows, Effect
  <2>4. "Success" \in {"Success", "Invalid_Message"} /\ y.data.metrics = NoMetrics
    BY <1>3, <2>1
  <2> QED
    BY <1>1, <1>2, <1>4, <1>7, <2>1, <2>3, <2>4, HandledAnswered
<1> QED
  BY <1>5, <1>6, <1>7 DEF handle_destination_up

LEMMA HandleDestinationUpdateInv ==
  ASSUME InfoBaseInv, NEW m \in Modems, handle_destination_update(m)
  PROVE  InfoBaseInv'
<1> DEFINE msg  == Head(channel[m])
           d    == msg.queue
           data == peer[m].data
           b    == updateDestination(data, d, msg.items)
           y    == WithData(peer[m], b)
<1>1. channel[m] # <<>> /\ msg.type = "Destination_Update"
  BY DEF handle_destination_update, Arrived
<1>2. /\ msg.items \in ItemSet /\ d \in Dests /\ d # Session /\ data \in Base
      /\ data.metrics = NoMetrics /\ LiveState(peer[m])
      /\ data.dests \in [Dests -> DestValue]
  BY <1>1, HeadArrived, ModemTypes, BaseParts, InfoBaseAssumption DEF Addressed, SessionTypes, Queues
<1>3. CASE Ended(m)
  BY <1>3, EndedInv
<1>4. CASE Has(data, d) /\ Stored(m, b) /\ TakenSilently(m)
  <2>1. data.dests[d] # Absent /\ Apply(data.dests[d], msg.items) \in DestValue
    BY <1>2, <1>4, ApplyType DEF Has, DestValue
  <2>2. /\ b \in Base /\ b.metrics = NoMetrics
        /\ b.dests = [data.dests EXCEPT ![d] = Apply(data.dests[d], msg.items)]
    BY <1>2, <2>1, DestStored DEF updateDestination
  <2> HIDE DEF msg, b
  <2>3. y \in Peers /\ y.data = b /\ LiveState(y) /\ peer' = [peer EXCEPT ![m] = y]
    BY <1>2, <1>4, <2>2, StoredPeer
  <2> HIDE DEF y
  <2>4. Follows(msg, data, y.data)
    BY <1>1, <1>2, <2>1, <2>2, <2>3 DEF Follows, Effect
  <2>5. y.data.metrics = NoMetrics
    BY <2>2, <2>3
  <2> QED
    BY <1>1, <1>4, <2>3, <2>4, <2>5, HandledSilently DEF msg
<1> QED
  BY <1>3, <1>4 DEF handle_destination_update, TakenSilently

LEMMA HandleDestinationDownInv ==
  ASSUME InfoBaseInv, NEW m \in Modems, handle_destination_down(m)
  PROVE  InfoBaseInv'
<1> DEFINE msg  == Head(channel[m])
           d    == msg.queue
           data == peer[m].data
           b    == removeDestination(data, d)
           y    == WithData(peer[m], b)
<1>1. channel[m] # <<>> /\ msg.type = "Destination_Down"
  BY DEF handle_destination_down, Arrived
<1>2. /\ d \in Dests /\ d # Session /\ data \in Base
      /\ data.metrics = NoMetrics /\ LiveState(peer[m])
      /\ data.dests \in [Dests -> DestValue]
  BY <1>1, HeadArrived, ModemTypes, BaseParts, InfoBaseAssumption DEF Addressed, SessionTypes, Queues
<1>a. Absent \in DestValue
  BY DEF DestValue
<1>3. /\ b \in Base /\ b.metrics = NoMetrics
      /\ b.dests = [data.dests EXCEPT ![d] = Absent]
  BY <1>2, <1>a, DestStored DEF removeDestination
<1>4. Queued(msg) /\ msg = Head(channel[m])
  BY <1>1 DEF Queued, QueuedTypes
<1>5. CASE Ended(m)
  BY <1>5, EndedInv
<1>6. CASE /\ Stored(m, b) /\ Respond(m, d, "Success") /\ Taken(m)
           /\ UNCHANGED <<local_pdp, router_ips, pending, overtaken, calls>>
  <2> HIDE DEF msg, b
  <2>1. y \in Peers /\ y.data = b /\ LiveState(y) /\ peer' = [peer EXCEPT ![m] = y]
    BY <1>2, <1>3, <1>6, StoredPeer
  <2> HIDE DEF y
  <2>2. Follows(msg, data, y.data)
    BY <1>1, <1>2, <1>3, <2>1 DEF Follows, Effect
  <2>3. "Success" \in {"Success", "Invalid_Message"} /\ y.data.metrics = NoMetrics
    BY <1>3, <2>1
  <2> QED
    BY <1>1, <1>2, <1>4, <1>6, <2>1, <2>2, <2>3, HandledAnswered
<1> QED
  BY <1>5, <1>6 DEF handle_destination_down

LEMMA HandleResponseInv ==
  ASSUME InfoBaseInv, NEW m \in Modems, handle_response(m)
  PROVE  InfoBaseInv'
<1> DEFINE r    == responses[m]
           q    == Head(r).queue
           p2   == [pending[m] EXCEPT ![q] = Tail(pending[m][q])]
           c2   == IF Tail(pending[m][q]) = <<>> THEN channel[m]
                   ELSE Append(channel[m], Head(Tail(pending[m][q])))
           r2   == Tail(r)
<1>1. r # <<>>
  BY DEF handle_response
<1>2. CASE Ended(m)
  BY <1>2, EndedInv
<1>3. CASE ~Ended(m)
  <2>1. /\ Head(r).status = "Success" /\ responses' = [responses EXCEPT ![m] = r2]
        /\ UNCHANGED overtaken
    BY <1>3 DEF handle_response
  <2>2. pending' = [pending EXCEPT ![m] = p2]
    BY <1>3, ModemTypes DEF handle_response
  <2>3. channel' = [channel EXCEPT ![m] = c2]
    BY <1>3, ModemTypes DEF handle_response
  <2>4. /\ local_pdp' = [local_pdp EXCEPT ![m] = local_pdp[m]]
        /\ peer' = [peer EXCEPT ![m] = peer[m]]
        /\ router_ips' \subseteq Addrs /\ calls' \in 0..MaxCalls
    BY <1>3, ModemTypes DEF handle_response
  <2>5. ModemOK(local_pdp[m], peer[m], pending[m], channel[m], r, OvertakenAt(m))
    BY ModemTypes DEF ModemInv
  <2>6. /\ q = Head(r).queue /\ p2 = [pending[m] EXCEPT ![q] = Tail(pending[m][q])]
        /\ c2 = IF Tail(pending[m][q]) = <<>> THEN channel[m]
                ELSE Append(channel[m], Head(Tail(pending[m][q])))
    OBVIOUS
  <2> HIDE DEF q, p2, c2
  <2>7. ModemOK(local_pdp[m], peer[m], p2, c2, Tail(r), OvertakenAt(m))
    BY <1>1, <2>1, <2>5, <2>6, ModemResponded
  <2>8. ModemOK(local_pdp[m], peer[m], p2, c2, r2, OvertakenAt(m))
    BY <2>7
  <2> HIDE DEF r2
  <2> QED
    BY <2>1, <2>2, <2>3, <2>4, <2>8, OneModemSame
<1> QED
  BY <1>2, <1>3

-----------------------------------------------------------------------------
(* The invariant of the specification *)

LEMMA InitInv == Init => InfoBaseInv
<1> SUFFICES ASSUME Init PROVE InfoBaseInv
  OBVIOUS
<1> DEFINE x == [state |-> "none", data |-> EmptyBase]
<1>1. x \in Peers /\ x.data = EmptyBase /\ x.state = "none"
  BY EmptyBases DEF Peers
<1>2. \A m \in Modems : /\ local_pdp[m] = DefaultBase /\ peer[m] = x /\ pending[m] = NoQueue
                        /\ channel[m] = <<>> /\ responses[m] = <<>>
  BY DEF Init, NoQueue
<1>3. NoQueue \in [Queues -> Seq(Message)] /\ <<>> \in Seq(Message) /\ <<>> \in Seq(Response)
  BY DEF NoQueue
<1>4. TypeOK
  <2>1. local_pdp \in [Modems -> Base]
    BY EmptyBases DEF Init
  <2>2. peer \in [Modems -> Peers]
    BY <1>1 DEF Init
  <2>3. pending \in [Modems -> [Queues -> Seq(Message)]]
    BY <1>3 DEF Init, NoQueue
  <2>4. channel \in [Modems -> Seq(Message)] /\ responses \in [Modems -> Seq(Response)]
    BY <1>3 DEF Init
  <2>5. router_ips \subseteq Addrs /\ overtaken \subseteq Modems \X Dests /\ calls \in 0..MaxCalls
    BY InfoBaseAssumption DEF Init
  <2>6. \A m \in Modems : peer[m].state = "none" => peer[m].data = EmptyBase
    BY <1>1, <1>2
  <2> QED
    BY <2>1, <2>2, <2>3, <2>4, <2>5, <2>6 DEF TypeOK
<1>5. FlightOK(NoQueue, <<>>, <<>>)
  BY FlightEmpty DEF NoQueue
<1> HIDE DEF x
<1>6. \A o : ModemOK(DefaultBase, x, NoQueue, <<>>, <<>>, o)
  BY <1>1, <1>5, EmptyBases DEF ModemOK, LiveState
<1>7. \A m \in Modems : ModemInv(m)
  BY <1>2, <1>6 DEF ModemInv
<1> QED
  BY <1>4, <1>7 DEF InfoBaseInv

LEMMA NextInv == InfoBaseInv /\ [Next]_vars => InfoBaseInv'
<1> SUFFICES ASSUME InfoBaseInv, [Next]_vars PROVE InfoBaseInv'
  OBVIOUS
<1>1. ASSUME NEW m \in Modems, Client(m) PROVE InfoBaseInv'
  BY <1>1, DestinationUpInv, DestinationUpdateInv, DestinationDownInv, PeerUpdateInv,
     PeerRemoveInv DEF Client
<1>2. ASSUME NEW m \in Modems, Handler(m) PROVE InfoBaseInv'
  BY <1>2, HandleInitializationInv, HandlePeerUpdateInv, HandleDestinationUpInv,
     HandleDestinationUpdateInv, HandleDestinationDownInv, HandleResponseInv DEF Handler
<1>3. ASSUME NEW m \in Modems, Lifecycle(m) PROVE InfoBaseInv'
  BY <1>3, SessionUpInv, EndedInv, CleanupInv DEF Lifecycle, terminate
<1>4. ASSUME NEW items \in Updates, RouterUpdates(items) PROVE InfoBaseInv'
  BY <1>4, RouterUpdatesInv
<1>5. CASE UNCHANGED vars
  BY <1>5 DEF vars, InfoBaseInv, TypeOK, ModemInv, OvertakenAt
<1> QED
  BY <1>1, <1>2, <1>3, <1>4, <1>5 DEF Next

\* InfoBaseInv is an invariant: in every reachable state of any number of
\* modems, at most the head of each queue of responses_pending is on its way,
\* the router knows no metric of a peer, and a session that is not about to be
\* refused is on its way to the modem's destinations.
THEOREM Invariant == Spec => []InfoBaseInv
<1>1. Init => InfoBaseInv
  BY InitInv
<1>2. InfoBaseInv /\ [Next]_vars => InfoBaseInv'
  BY NextInv
<1> QED
  BY <1>1, <1>2, PTL DEF Spec

\* The variables keep their types, and a peer that was cleaned up (cleanup_ex_peers)
\* leaves nothing in the information base.
THEOREM TypeCorrect == Spec => []TypeOK
<1>1. InfoBaseInv => TypeOK
  BY DEF InfoBaseInv
<1> QED
  BY <1>1, Invariant, PTL

LEMMA QuietMirrored == InfoBaseInv => DestinationsMirrored
<1> SUFFICES ASSUME InfoBaseInv, NEW m \in Modems, NEW d \in Dests, InSession(m), Quiet(m, d)
             PROVE  /\ Has(peer[m].data, d) <=> Has(local_pdp[m], d)
                    /\ <<m, d>> \notin overtaken => peer[m].data.dests[d] = local_pdp[m].dests[d]
  BY DEF DestinationsMirrored
<1> DEFINE l == local_pdp[m]
           x == peer[m]
           p == pending[m]
           c == channel[m]
           o == OvertakenAt(m)
<1>1. ModemOK(l, x, p, c, responses[m], o)
  BY ModemTypes DEF ModemInv
<1>2. LiveState(x)
  BY DEF InSession, LiveState
<1>3. /\ p[d] = <<>> /\ p[Session] = <<>> /\ responses[m] = <<>>
      /\ \A i \in DOMAIN c : c[i].queue # d
  BY DEF Quiet
<1>4. c \in Seq(Message)
  BY ModemTypes
<1>5. \A i \in 1..Len(c) : c[i].queue # d
  BY <1>3, <1>4
<1>6. ~Doomed(p, responses[m])
  BY <1>3 DEF Doomed
<1> HIDE DEF l, x, p, c, o
<1>7. Mirrors(l.dests[d], x.data.dests[d], p[d], c, d, d \in o)
  BY <1>1, <1>2, <1>6 DEF ModemOK, Mirrored
<1>8. PICK e \in DestValue : /\ Reaches(c, d, x.data.dests[d], e)
                             /\ Matches(Target(p[d], d, e), l.dests[d], d \in o)
  BY <1>7 DEF Mirrors
<1>9. x.data.dests[d] = e
  BY <1>4, <1>5, <1>8, ReachesQuiet
<1>10. Target(p[d], d, e) = e
  BY <1>3 DEF Target
<1>11. d \in o <=> <<m, d>> \in overtaken
  BY DEF o, OvertakenAt
<1>12. /\ x.data.dests[d] = Absent <=> l.dests[d] = Absent
       /\ d \notin o => x.data.dests[d] = l.dests[d]
  BY <1>8, <1>9, <1>10 DEF Matches
<1> QED
  BY <1>11, <1>12 DEF Has, x, l

\* Once nothing about a destination is on its way, the router's peer_pdp has it
\* exactly when the modem's local_pdp does, with the same metrics and addresses
\* unless its Destination_Update was sent before its Destination_Up.
THEOREM RouterMirrorsModem == Spec => []DestinationsMirrored
  BY Invariant, QuietMirrored, PTL

-----------------------------------------------------------------------------
(* What a step does to the router's data: it stores a message that it accepts, *)
(* with addresses that nobody owned, or nothing.                               *)

Ips(b, d) == IF b.dests[d] = Absent THEN {} ELSE b.dests[d].ips

\* The destinations of modem m have lost addresses, but for d0, which may have
\* got the addresses A.
Gains(m, d0, A) ==
  /\ A \cap Owned = {}
  /\ \A d \in Dests :
       Ips(peer'[m].data, d) \subseteq Ips(peer[m].data, d) \cup (IF d = d0 THEN A ELSE {})

Accepts(m) ==
  /\ peer'[m].state # "terminating"
  /\ \/ responses'[m] = responses[m]
     \/ \E a \in Response : a.status = "Success" /\ responses'[m] = Append(responses[m], a)

PeerStep(m) ==
  /\ \A n \in Modems \ {m} : peer'[n] = peer[n] /\ responses'[n] = responses[n]
  /\ \E d0, A : Gains(m, d0, A)
  /\ peer'[m].data = peer[m].data \/ Accepts(m)

LEMMA KeptStep ==
  ASSUME NEW m \in Modems, peer'[m].data = peer[m].data,
         \A n \in Modems \ {m} : peer'[n] = peer[n] /\ responses'[n] = responses[n]
  PROVE  PeerStep(m)
<1>1. Gains(m, Session, {})
  BY DEF Gains
<1> QED
  BY <1>1 DEF PeerStep

\* The data of a peer that is started or cleaned up.
LEMMA EmptiedStep ==
  ASSUME InfoBaseInv, NEW m \in Modems, NEW y, y.data = EmptyBase, y.state # "terminating",
         peer' = [peer EXCEPT ![m] = y], UNCHANGED responses
  PROVE  PeerStep(m)
<1>1. peer'[m] = y /\ \A n \in Modems \ {m} : peer'[n] = peer[n]
  BY DEF InfoBaseInv, TypeOK
<1>2. \A d \in Dests : Ips(peer'[m].data, d) = {}
  BY <1>1, EmptyBases DEF Ips
<1>3. Gains(m, Session, {})
  BY <1>2 DEF Gains
<1>4. Accepts(m)
  BY <1>1 DEF Accepts
<1> QED
  BY <1>1, <1>3, <1>4 DEF PeerStep

\* A message that the router accepts.
LEMMA StoredStep ==
  ASSUME InfoBaseInv, NEW m \in Modems, NEW y, LiveState(y), peer' = [peer EXCEPT ![m] = y],
         \/ UNCHANGED responses
         \/ \E q \in Queues : Respond(m, q, "Success"),
         NEW d0, NEW A, A \cap Owned = {},
         \A d \in Dests : Ips(y.data, d) \subseteq Ips(peer[m].data, d) \cup (IF d = d0 THEN A ELSE {})
  PROVE  PeerStep(m)
<1>1. peer'[m] = y /\ \A n \in Modems \ {m} : peer'[n] = peer[n] /\ responses'[n] = responses[n]
  BY DEF InfoBaseInv, TypeOK, Respond
<1>2. Gains(m, d0, A)
  BY <1>1 DEF Gains
<1>3. \/ responses'[m] = responses[m]
      \/ \E a \in Response : a.status = "Success" /\ responses'[m] = Append(responses[m], a)
  <2>1. ASSUME NEW q \in Queues, Respond(m, q, "Success")
        PROVE  \E a \in Response : a.status = "Success" /\ responses'[m] = Append(responses[m], a)
    <3> DEFINE a == [queue |-> q, status |-> "Success"]
    <3>1. a \in Response /\ a.status = "Success"
      BY DEF Response
    <3>2. responses'[m] = Append(responses[m], a)
      BY <2>1 DEF Respond, InfoBaseInv, TypeOK
    <3> QED
      BY <3>1, <3>2
  <2> QED
    BY <2>1
<1>4. Accepts(m)
  BY <1>1, <1>3 DEF Accepts, LiveState
<1> QED
  BY <1>1, <1>2, <1>4 DEF PeerStep

LEMMA EndedStep ==
  ASSUME InfoBaseInv, NEW m \in Modems, Ended(m)
  PROVE  PeerStep(m)
<1>1. peer'[m].data = peer[m].data
  BY DEF Ended, InfoBaseInv, TypeOK, Peers
<1>2. \A n \in Modems \ {m} : peer'[n] = peer[n] /\ responses'[n] = responses[n]
  BY DEF Ended, InfoBaseInv, TypeOK
<1> QED
  BY <1>1, <1>2, KeptStep

LEMMA InitializationStep ==
  ASSUME InfoBaseInv, NEW m \in Modems, handle_peer_initialization_response(m)
  PROVE  PeerStep(m)
<1> DEFINE msg == Head(channel[m])
           b   == update_data_items(peer[m].data, msg.items)
           y   == [state |-> "in_session", data |-> b]
<1>1. channel[m] # <<>>
  BY DEF handle_peer_initialization_response, Arrived
<1>2. msg.items \in ItemSet /\ peer[m].data \in Base /\ peer[m].data.metrics = NoMetrics
  BY <1>1, HeadArrived, ModemTypes
<1>3. b.dests = peer[m].data.dests
  BY <1>2, UpdateAtRouter
<1>4. peer' = [peer EXCEPT ![m] = y] /\ UNCHANGED responses
  BY DEF handle_peer_initialization_response
<1> HIDE DEF msg, b
<1>5. LiveState(y) /\ y.data = b
  BY DEF LiveState
<1> HIDE DEF y
<1>6. \A d \in Dests : Ips(y.data, d) \subseteq Ips(peer[m].data, d) \cup (IF d = Session THEN {} ELSE {})
  BY <1>3, <1>5 DEF Ips
<1>7. {} \cap Owned = {}
  OBVIOUS
<1> QED
  BY <1>4, <1>5, <1>6, <1>7, StoredStep

LEMMA PeerUpdateStep ==
  ASSUME InfoBaseInv, NEW m \in Modems, handle_peer_update(m)
  PROVE  PeerStep(m)
<1> DEFINE msg  == Head(channel[m])
           data == peer[m].data
           b    == update_data_items(data, msg.items)
           y    == WithData(peer[m], b)
<1>1. channel[m] # <<>>
  BY DEF handle_peer_update, Arrived
<1>2. msg.items \in ItemSet /\ data \in Base /\ data.metrics = NoMetrics /\ LiveState(peer[m])
  BY <1>1, HeadArrived, ModemTypes
<1>3. b \in Base /\ b.dests = data.dests
  BY <1>2, UpdateAtRouter
<1>4. CASE Ended(m)
  BY <1>4, EndedStep
<1>5. CASE ~Ended(m)
  <2>1. /\ Stored(m, b)
        /\ Respond(m, Session, IF MetricsKnown(data, msg.items) THEN "Success" ELSE "Invalid_Message")
    BY <1>5 DEF handle_peer_update
  <2>2. LiveState(y) /\ y.data = b /\ peer' = [peer EXCEPT ![m] = y]
    BY <1>2, <1>3, <2>1, StoredPeer
  <2>3. CASE MetricsKnown(data, msg.items)
    <3>1. \E q \in Queues : Respond(m, q, "Success")
      BY <2>1, <2>3 DEF Queues
    <3> HIDE DEF msg, b, y
    <3>2. \A d \in Dests : Ips(y.data, d) \subseteq Ips(peer[m].data, d) \cup (IF d = Session THEN {} ELSE {})
      BY <1>3, <2>2 DEF Ips
    <3>3. {} \cap Owned = {}
      OBVIOUS
    <3> QED
      BY <2>2, <3>1, <3>2, <3>3, StoredStep
  <2>4. CASE ~MetricsKnown(data, msg.items)
    <3>1. b = data
      BY <2>4 DEF update_data_items
    <3> HIDE DEF msg, b, y
    <3>2. peer'[m].data = data /\ \A n \in Modems \ {m} : peer'[n] = peer[n]
      BY <2>2, <3>1 DEF InfoBaseInv, TypeOK
    <3>3. \A n \in Modems \ {m} : responses'[n] = responses[n]
      BY <2>1 DEF InfoBaseInv, TypeOK, Respond
    <3> QED
      BY <3>2, <3>3, KeptStep
  <2> QED
    BY <2>3, <2>4
<1> QED
  BY <1>4, <1>5

LEMMA DestinationUpStep ==
  ASSUME InfoBaseInv, NEW m \in Modems, handle_destination_up(m)
  PROVE  PeerStep(m)
<1> DEFINE msg  == Head(channel[m])
           d0   == msg.queue
           data == peer[m].data
           b    == addDestination(data, d0, msg.items)
           y    == WithData(peer[m], b)
<1>1. channel[m] # <<>> /\ msg.type = "Destination_Up"
  BY DEF handle_destination_up, Arrived
<1>2. /\ msg.items \in ItemSet /\ d0 \in Dests /\ d0 \in Queues /\ data \in Base
      /\ LiveState(peer[m]) /\ data.dests \in [Dests -> DestValue]
  BY <1>1, HeadArrived, ModemTypes, BaseParts, InfoBaseAssumption DEF Addressed, SessionTypes, Queues
<1>3. b \in Base /\ b.dests = [data.dests EXCEPT ![d0] = Apply(EmptyDest, msg.items)]
  BY <1>2, DestStored, ApplyType, EmptyDestType DEF addDestination, DestValue
<1>4. CASE Ended(m)
  BY <1>4, EndedStep
<1>5. CASE UNCHANGED peer /\ Respond(m, d0, "Invalid_Message")
  <2>1. \A n \in Modems \ {m} : peer'[n] = peer[n] /\ responses'[n] = responses[n]
    BY <1>5 DEF Respond, InfoBaseInv, TypeOK
  <2> QED
    BY <1>5, <2>1, KeptStep
<1>6. CASE validate_ip_data_items(msg.items, {}) /\ Stored(m, b) /\ Respond(m, d0, "Success")
  <2> DEFINE A == msg.items.adds
  <2>1. A \cap Owned = {}
    BY <1>6 DEF validate_ip_data_items
  <2>2. LiveState(y) /\ y.data = b /\ peer' = [peer EXCEPT ![m] = y]
    BY <1>2, <1>3, <1>6, StoredPeer
  <2>3. \E q \in Queues : Respond(m, q, "Success")
    BY <1>2, <1>6
  <2>4. Apply(EmptyDest, msg.items).ips \subseteq A
    BY DEF Apply, EmptyDest, update_ip_data_items
  <2> HIDE DEF msg, b, y, A
  <2>5. \A d \in Dests : Ips(y.data, d) \subseteq Ips(peer[m].data, d) \cup (IF d = d0 THEN A ELSE {})
    BY <1>2, <1>3, <2>2, <2>4 DEF Ips
  <2> QED
    BY <2>1, <2>2, <2>3, <2>5, StoredStep
<1> QED
  BY <1>4, <1>5, <1>6 DEF handle_destination_up

LEMMA DestinationUpdateStep ==
  ASSUME InfoBaseInv, NEW m \in Modems, handle_destination_update(m)
  PROVE  PeerStep(m)
<1> DEFINE msg  == Head(channel[m])
           d0   == msg.queue
           data == peer[m].data
           b    == updateDestination(data, d0, msg.items)
           y    == WithData(peer[m], b)
<1>1. channel[m] # <<>> /\ msg.type = "Destination_Update"
  BY DEF handle_destination_update, Arrived
<1>2. /\ msg.items \in ItemSet /\ d0 \in Dests /\ data \in Base
      /\ LiveState(peer[m]) /\ data.dests \in [Dests -> DestValue]
  BY <1>1, HeadArrived, ModemTypes, BaseParts, InfoBaseAssumption DEF Addressed, SessionTypes, Queues
<1>3. CASE Ended(m)
  BY <1>3, EndedStep
<1>4. CASE /\ Has(data, d0) /\ validate_ip_data_items(msg.items, data.dests[d0].ips)
           /\ Stored(m, b) /\ UNCHANGED responses
  <2> DEFINE A == msg.items.adds
             v == data.dests[d0]
  <2>1. A \cap Owned = {}
    BY <1>4 DEF validate_ip_data_items
  <2>2. v \in DestData /\ v # Absent /\ Apply(v, msg.items) \in DestValue
    BY <1>2, <1>4, ApplyType DEF Has, DestValue
  <2>3. b \in Base /\ b.dests = [data.dests EXCEPT ![d0] = Apply(v, msg.items)]
    BY <1>2, <2>2, DestStored DEF updateDestination
  <2>4. LiveState(y) /\ y.data = b /\ peer' = [peer EXCEPT ![m] = y]
    BY <1>2, <1>4, <2>3, StoredPeer
  <2>5. Apply(v, msg.items).ips \subseteq v.ips \cup A
    BY <2>2 DEF Apply, update_ip_data_items, DestData
  <2> HIDE DEF msg, b, y, A
  <2>6. \A d \in Dests : Ips(y.data, d) \subseteq Ips(peer[m].data, d) \cup (IF d = d0 THEN A ELSE {})
    BY <1>2, <2>2, <2>3, <2>4, <2>5 DEF Ips
  <2> QED
    BY <1>4, <2>1, <2>4, <2>6, StoredStep
<1> QED
  BY <1>3, <1>4 DEF handle_destination_update

LEMMA DestinationDownStep ==
  ASSUME InfoBaseInv, NEW m \in Modems, handle_destination_down(m)
  PROVE  PeerStep(m)
<1> DEFINE msg  == Head(channel[m])
           d0   == msg.queue
           data == peer[m].data
           b    == removeDestination(data, d0)
           y    == WithData(peer[m], b)
<1>1. channel[m] # <<>> /\ msg.type = "Destination_Down"
  BY DEF handle_destination_down, Arrived
<1>2. /\ d0 \in Dests /\ d0 \in Queues /\ data \in Base
      /\ LiveState(peer[m]) /\ data.dests \in [Dests -> DestValue] /\ Absent \in DestValue
  BY <1>1, HeadArrived, ModemTypes, BaseParts, InfoBaseAssumption
     DEF Addressed, SessionTypes, Queues, DestValue
<1>3. b \in Base /\ b.dests = [data.dests EXCEPT ![d0] = Absent]
  BY <1>2, DestStored DEF removeDestination
<1>4. CASE Ended(m)
  BY <1>4, EndedStep
<1>5. CASE Stored(m, b) /\ Respond(m, d0, "Success")
  <2>1. LiveState(y) /\ y.data = b /\ peer' = [peer EXCEPT ![m] = y]
    BY <1>2, <1>3, <1>5, StoredPeer
  <2>2. \E q \in Queues : Respond(m, q, "Success")
    BY <1>2, <1>5
  <2> HIDE DEF msg, b, y
  <2>3. \A d \in Dests : Ips(y.data, d) \subseteq Ips(peer[m].data, d) \cup (IF d = d0 THEN {} ELSE {})
    BY <1>2, <1>3, <2>1 DEF Ips
  <2>4. {} \cap Owned = {}
    OBVIOUS
  <2> QED
    BY <2>1, <2>2, <2>3, <2>4, StoredStep
<1> QED
  BY <1>4, <1>5 DEF handle_destination_down

LEMMA ResponseStep ==
  ASSUME InfoBaseInv, NEW m \in Modems, handle_response(m)
  PROVE  PeerStep(m)
<1>1. CASE Ended(m)
  BY <1>1, EndedStep
<1>2. CASE ~Ended(m)
  <2>1. UNCHANGED peer /\ responses' = [responses EXCEPT ![m] = Tail(responses[m])]
    BY <1>2 DEF handle_response
  <2>2. \A n \in Modems \ {m} : peer'[n] = peer[n] /\ responses'[n] = responses[n]
    BY <2>1 DEF InfoBaseInv, TypeOK
  <2> QED
    BY <2>1, <2>2, KeptStep
<1> QED
  BY <1>1, <1>2

LEMMA StepOfOnePeer ==
  ASSUME InfoBaseInv, [Next]_vars
  PROVE  UNCHANGED <<peer, responses>> \/ \E m \in Modems : PeerStep(m)
<1>1. ASSUME NEW m \in Modems, Client(m) PROVE UNCHANGED <<peer, responses>>
  BY <1>1 DEF Client, destination_up, destination_update, destination_down, peer_update,
     peer_remove_data_items, Call
<1>2. ASSUME NEW m \in Modems, Handler(m) PROVE PeerStep(m)
  BY <1>2, InitializationStep, PeerUpdateStep, DestinationUpStep, DestinationUpdateStep,
     DestinationDownStep, ResponseStep DEF Handler
<1>3. ASSUME NEW m \in Modems, Lifecycle(m) PROVE PeerStep(m)
  <2>1. CASE session_up(m)
    <3> DEFINE y == [state |-> "connected", data |-> EmptyBase]
    <3>1. y.data = EmptyBase /\ y.state # "terminating"
      OBVIOUS
    <3>2. peer' = [peer EXCEPT ![m] = y] /\ UNCHANGED responses
      BY <2>1 DEF session_up
    <3> HIDE DEF y
    <3> QED
      BY <3>1, <3>2, EmptiedStep
  <2>2. CASE terminate(m)
    BY <2>2, EndedStep DEF terminate
  <2>3. CASE cleanup_ex_peers(m)
    <3> DEFINE y == [state |-> "none", data |-> EmptyBase]
    <3>1. y.data = EmptyBase /\ y.state # "terminating"
      OBVIOUS
    <3>2. peer' = [peer EXCEPT ![m] = y] /\ UNCHANGED responses
      BY <2>3 DEF cleanup_ex_peers
    <3> HIDE DEF y
    <3> QED
      BY <3>1, <3>2, EmptiedStep
  <2> QED
    BY <1>3, <2>1, <2>2, <2>3 DEF Lifecycle
<1>4. ASSUME NEW items \in Updates, RouterUpdates(items) PROVE UNCHANGED <<peer, responses>>
  BY <1>4 DEF RouterUpdates
<1>5. CASE UNCHANGED vars
  BY <1>5 DEF vars
<1> QED
  BY <1>1, <1>2, <1>3, <1>4, <1>5 DEF Next

\* The addresses of destination d of modem m belong to somebody.
LEMMA IpsOwned ==
  ASSUME NEW m \in Modems, NEW d \in Dests
  PROVE  Ips(peer[m].data, d) \subseteq Owned
<1>1. CASE peer[m].data.dests[d] = Absent
  BY <1>1 DEF Ips
<1>2. CASE peer[m].data.dests[d] # Absent
  <2>1. Ips(peer[m].data, d) = peer[m].data.dests[d].ips
    BY <1>2 DEF Ips
  <2>2. peer[m].data.dests[d].ips \subseteq DestIps(m)
    BY <1>2 DEF DestIps, Has
  <2>3. DestIps(m) \subseteq Owned
    BY DEF Owned
  <2> QED
    BY <2>1, <2>2, <2>3
<1> QED
  BY <1>1, <1>2

\* AddressesDisjoint in terms of Ips.
Disjoint ==
  \A m, n \in Modems : \A d, e \in Dests :
    <<m, d>> # <<n, e>> => Ips(peer[m].data, d) \cap Ips(peer[n].data, e) = {}

LEMMA DisjointMeans == AddressesDisjoint <=> Disjoint
  BY DEF AddressesDisjoint, Disjoint, Ips, Has

LEMMA DisjointStep ==
  ASSUME Disjoint, InfoBaseInv, [Next]_vars
  PROVE  Disjoint'
<1>1. CASE UNCHANGED <<peer, responses>>
  BY <1>1 DEF Disjoint, Ips
<1>2. ASSUME NEW k \in Modems, PeerStep(k) PROVE Disjoint'
  <2>1. PICK d0, A : Gains(k, d0, A)
    BY <1>2 DEF PeerStep
  <2>2. ASSUME NEW d \in Dests
        PROVE  Ips(peer'[k].data, d) \subseteq Ips(peer[k].data, d) \cup (IF d = d0 THEN A ELSE {})
    BY <2>1 DEF Gains
  <2>3. A \cap Owned = {}
    BY <2>1 DEF Gains
  <2>4. \A n \in Modems \ {k} : peer'[n] = peer[n]
    BY <1>2 DEF PeerStep
  \* Destination d of modem k shares nothing with another one.
  <2>5. ASSUME NEW d \in Dests, NEW n \in Modems, NEW e \in Dests, <<k, d>> # <<n, e>>
        PROVE  Ips(peer'[k].data, d) \cap Ips(peer'[n].data, e) = {}
    <3>1. Ips(peer[k].data, d) \cap Ips(peer[n].data, e) = {}
      BY <2>5 DEF Disjoint
    <3>2. /\ Ips(peer[k].data, d) \subseteq Owned /\ Ips(peer[n].data, e) \subseteq Owned
      BY <2>5, IpsOwned
    <3>3. CASE n # k
      <4>1. peer'[n] = peer[n]
        BY <2>4, <3>3
      <4> QED
        BY <2>2, <2>3, <3>1, <3>2, <4>1
    <3>4. CASE n = k
      <4>1. d # e
        BY <2>5, <3>4
      <4>2. Ips(peer'[n].data, e) \subseteq Ips(peer[n].data, e) \cup (IF e = d0 THEN A ELSE {})
        BY <2>2, <3>4
      <4>3. CASE d = d0
        BY <2>2, <2>3, <3>1, <3>2, <4>1, <4>2, <4>3
      <4>4. CASE d # d0
        BY <2>2, <2>3, <3>1, <3>2, <4>1, <4>2, <4>4
      <4> QED
        BY <4>3, <4>4
    <3> QED
      BY <3>3, <3>4
  <2>6. ASSUME NEW m \in Modems, NEW n \in Modems, NEW d \in Dests, NEW e \in Dests,
               <<m, d>> # <<n, e>>
        PROVE  Ips(peer'[m].data, d) \cap Ips(peer'[n].data, e) = {}
    <3>1. CASE m = k
      BY <2>5, <2>6, <3>1
    <3>2. CASE n = k
      <4>1. <<k, e>> # <<m, d>>
        BY <2>6, <3>2
      <4>2. Ips(peer'[k].data, e) \cap Ips(peer'[m].data, d) = {}
        BY <2>5, <4>1
      <4> QED
        BY <3>2, <4>2
    <3>3. CASE m # k /\ n # k
      BY <2>4, <2>6, <3>3 DEF Disjoint
    <3> QED
      BY <3>1, <3>2, <3>3
  <2> QED
    BY <2>6 DEF Disjoint, Ips
<1> QED
  BY <1>1, <1>2, StepOfOnePeer

\* Whatever the clients of any number of modems claim, and in whatever order the
\* messages of different modems arrive, no address belongs to two destinations in
\* the router's information base (Peer::validate_ip_data_items).
THEOREM AddressesStayDisjoint == Spec => []AddressesDisjoint
<1>1. Init => Disjoint
  BY EmptyBases DEF Init, Disjoint, Ips
<1>2. Disjoint /\ InfoBaseInv /\ [Next]_vars => Disjoint'
  BY DisjointStep
<1>3. Disjoint => AddressesDisjoint
  BY DisjointMeans
<1> QED
  BY <1>1, <1>2, <1>3, Invariant, PTL DEF Spec

LEMMA RefusalStep ==
  ASSUME InfoBaseInv, [Next]_vars, NEW m \in Modems,
         \/ InSession(m) /\ peer'[m].state = "terminating"
         \/ /\ Len(responses'[m]) > Len(responses[m])
            /\ responses'[m][Len(responses'[m])].status # "Success"
  PROVE  peer'[m].data = peer[m].data
<1>1. responses[m] \in Seq(Response)
  BY ModemTypes
<1>2. Len(responses[m]) \in Nat
  BY <1>1
<1>3. CASE UNCHANGED <<peer, responses>>
  BY <1>3
<1>4. ASSUME NEW k \in Modems, PeerStep(k) PROVE peer'[m].data = peer[m].data
  <2>1. CASE k # m
    BY <1>4, <2>1 DEF PeerStep
  <2>2. CASE k = m
    <3>1. SUFFICES ASSUME Accepts(m) PROVE FALSE
      BY <1>4, <2>2 DEF PeerStep
    <3>2. CASE responses'[m] = responses[m]
      BY <1>2, <3>1, <3>2 DEF Accepts
    <3>3. ASSUME NEW a \in Response, a.status = "Success",
                 responses'[m] = Append(responses[m], a)
          PROVE  FALSE
      <4>1. responses'[m][Len(responses'[m])] = a
        BY <1>1, <3>3
      <4> QED
        BY <3>1, <3>3, <4>1 DEF Accepts
    <3> QED
      BY <3>1, <3>2, <3>3 DEF Accepts
  <2> QED
    BY <2>1, <2>2
<1> QED
  BY <1>3, <1>4, StepOfOnePeer

\* A message that the router refuses, by ending the session or with a status, has
\* changed nothing of what it stores of the peer that sent it: no update is
\* applied in part (PeerData::update_data_items).
THEOREM RefusalChangesNothing == Spec => RefusedChangesNothing
<1> DEFINE Kept ==
      \A m \in Modems :
        \/ InSession(m) /\ peer'[m].state = "terminating"
        \/ Len(responses'[m]) > Len(responses[m])
           /\ responses'[m][Len(responses'[m])].status # "Success"
        => peer'[m].data = peer[m].data
<1>1. InfoBaseInv /\ [Next]_vars => Kept
  BY RefusalStep
<1> HIDE DEF Kept
<1>2. Spec => [][Kept]_vars
  BY <1>1, Invariant, PTL DEF Spec
<1> QED
  BY <1>2 DEF RefusedChangesNothing, Kept
=============================================================================
