----------------------------- MODULE PeerProofs -----------------------------
(***************************************************************************)
(* What the operations of one endpoint (module Peer) preserve.             *)
(*                                                                         *)
(* WellFormed is the part of the inductive invariant that concerns one     *)
(* endpoint: its type, and that only the head of a queue has been sent.    *)
(* The second is needed for the first: handle_response transmits the next  *)
(* message of a queue without looking at its send_tries, which stays       *)
(* within send-tries only because that message was never sent before.      *)
(*                                                                         *)
(* Tame(e, f) says what a step from e to f that is not the completion of a *)
(* handshake leaves alone: it does not bring the session up, does not fall *)
(* back to the handshake and does not send the message that completes it.  *)
(* Plain(e, f) adds what keeps Session_Initialization at the head of its   *)
(* queue and the timers with the state of the session.                     *)
(*                                                                         *)
(* Kept(e, f, F, D, on) says what the transaction model asks of one end: a *)
(* request is sent only where none is under way, and a response only to a  *)
(* request that has not been answered.                                     *)
(***************************************************************************)
EXTENDS Peer, FiniteSetTheorems, TLAPS

HeadOnly(s) == \A i \in DOMAIN s : i > 1 => s[i].tries = 0

\* A message about a destination is on the queue of a destination.
RightQueue(s, q) ==
  \A i \in DOMAIN s : s[i].type \in DestinationTypes <=> q \in Dests

Disciplined(s, q) == HeadOnly(s) /\ RightQueue(s, q)

WellFormed(e) ==
  e \in Endpoint /\ \A q \in Queues : Disciplined(e.pending[q], q)

Handshaking(e) == e.pstate \in {"connecting", "connected"}

NoInitResponse(s) ==
  \A i \in DOMAIN s : s[i].type # "Session_Initialization_Response"

Tame(e, f) ==
  /\ f.modem = e.modem
  /\ f.pstate = "in_session" => e.pstate = "in_session"
  /\ Handshaking(f) => Handshaking(e)
  /\ NoInitResponse(e.out) => NoInitResponse(f.out)

InitFree(s) ==
  \A i \in DOMAIN s : s[i].type # "Session_Initialization"

InitFirst(s) ==
  \A i \in DOMAIN s : i > 1 => s[i].type # "Session_Initialization"

\* Session_Initialization is nowhere behind the head of a queue; it is on none.
InitAtHead(e) == \A q \in Queues : InitFirst(e.pending[q])
Opened(e)     == \A q \in Queues : InitFree(e.pending[q])

\* A peer is watched only in the handshake and in the session.
TimersRight(e) == e.acktivity => e.pstate \in {"connected", "in_session"}

Calm(e, f) ==
  InitAtHead(e) =>
    /\ InitAtHead(f)
    /\ Opened(e) => Opened(f)
    /\ InitFree(e.out) => InitFree(f.out)
    /\ TimersRight(e) => TimersRight(f)
    /\ f.pstate \in {e.pstate, "terminating"}

Plain(e, f) == Tame(e, f) /\ Calm(e, f)

\* f has written messages that are not of the handshake.
WritesMore(e, f) ==
  \E t \in Seq(Message) :
    f.out = e.out \o t /\ NoInitResponse(t) /\ InitFree(t)

-----------------------------------------------------------------------------
(* Sequences.                                                              *)

\* Appending an entry that was not sent keeps the discipline of a queue;
\* if the queue was empty, the new head may have any number of tries.
LEMMA AppendDisciplined ==
  ASSUME NEW s \in Seq(Entry), NEW q, Disciplined(s, q), NEW x \in Entry,
         s # <<>> => x.tries = 0, x.type \in DestinationTypes <=> q \in Dests
  PROVE  /\ Append(s, x) \in Seq(Entry)
         /\ Disciplined(Append(s, x), q)
         /\ Append(s, x) # <<>>
         /\ s = <<>> => Head(Append(s, x)) = x
<1>1. Len(s) # 0 => s # <<>>
  OBVIOUS
<1>2. ASSUME NEW i \in DOMAIN Append(s, x)
      PROVE  /\ i > 1 => Append(s, x)[i].tries = 0
             /\ Append(s, x)[i].type \in DestinationTypes <=> q \in Dests
  <2>1. CASE i \in DOMAIN s
    BY <2>1, <1>2 DEF Disciplined, HeadOnly, RightQueue
  <2>2. CASE i = Len(s) + 1
    BY <2>2, <1>1, <1>2
  <2> QED
    BY <2>1, <2>2
<1>3. Append(s, x) \in Seq(Entry) /\ Append(s, x) # <<>>
  OBVIOUS
<1>4. s = <<>> => Head(Append(s, x)) = x
  OBVIOUS
<1> QED
  BY <1>2, <1>3, <1>4 DEF Disciplined, HeadOnly, RightQueue

\* Dropping the head of a queue leaves one in which nothing was sent.
LEMMA TailDisciplined ==
  ASSUME NEW s \in Seq(Entry), NEW q, Disciplined(s, q), s # <<>>
  PROVE  /\ Tail(s) \in Seq(Entry)
         /\ Disciplined(Tail(s), q)
         /\ Tail(s) # <<>> => Head(Tail(s)).tries = 0
  BY DEF Disciplined, HeadOnly, RightQueue

\* Replacing the head of a queue keeps its discipline.
LEMMA ReplaceHead ==
  ASSUME NEW s \in Seq(Entry), NEW q, Disciplined(s, q), s # <<>>,
         NEW x \in Entry, x.type \in DestinationTypes <=> q \in Dests
  PROVE  /\ <<x>> \o Tail(s) \in Seq(Entry)
         /\ Disciplined(<<x>> \o Tail(s), q)
  BY DEF Disciplined, HeadOnly, RightQueue

\* The messages of a concatenation are those of its parts.
LEMMA ConcatNoInitResponse ==
  ASSUME NEW s \in Seq(Message), NEW t \in Seq(Message)
  PROVE  /\ s \o t \in Seq(Message)
         /\ NoInitResponse(s) /\ NoInitResponse(t) => NoInitResponse(s \o t)
         /\ InitFree(s) /\ InitFree(t) => InitFree(s \o t)
  BY DEF NoInitResponse, InitFree

\* Session_Initialization on a queue that grows, loses its head or is sent.
LEMMA QueueInit ==
  ASSUME NEW s \in Seq(Entry), InitFirst(s), NEW x \in Entry
  PROVE  /\ x.type # "Session_Initialization" =>
              /\ InitFirst(Append(s, x))
              /\ InitFree(s) => InitFree(Append(s, x))
         /\ s # <<>> =>
              /\ InitFree(Tail(s)) /\ InitFirst(Tail(s))
              /\ Tail(s) # <<>> => Head(Tail(s)).type # "Session_Initialization"
              /\ InitFirst(<<x>> \o Tail(s))
              /\ x.type # "Session_Initialization" /\ InitFree(s) =>
                   InitFree(<<x>> \o Tail(s))
<1>1. x.type # "Session_Initialization" =>
        /\ InitFirst(Append(s, x))
        /\ InitFree(s) => InitFree(Append(s, x))
  BY DEF InitFirst, InitFree
<1>2. s # <<>> =>
        /\ InitFree(Tail(s)) /\ InitFirst(Tail(s))
        /\ Tail(s) # <<>> => Head(Tail(s)).type # "Session_Initialization"
  BY DEF InitFirst, InitFree
<1>3. s # <<>> =>
        /\ InitFirst(<<x>> \o Tail(s))
        /\ x.type # "Session_Initialization" /\ InitFree(s) =>
             InitFree(<<x>> \o Tail(s))
  BY DEF InitFirst, InitFree
<1> QED
  BY <1>1, <1>2, <1>3

\* SetToSeq of a finite set is a sequence of its elements, each once.
LEMMA SetToSeqType ==
  ASSUME NEW S, IsFiniteSet(S)
  PROVE  /\ SetToSeq(S) \in Seq(S)
         /\ \A i \in DOMAIN SetToSeq(S) : SetToSeq(S)[i] \in S
         /\ \A i, j \in DOMAIN SetToSeq(S) : SetToSeq(S)[i] = SetToSeq(S)[j] => i = j
<1>1. PICK n \in Nat : ExistsBijection(1..n, S)
  BY FS_NatBijection
<1>2. Cardinality(S) = n
  BY <1>1, FS_CountingElements
<1>3. \E f \in [1..Cardinality(S) -> S] : IsInjective(f)
  BY <1>1, <1>2 DEF ExistsBijection, Bijection, Injection
<1>4. SetToSeq(S) \in [1..Cardinality(S) -> S] /\ IsInjective(SetToSeq(S))
  BY <1>3 DEF SetToSeq
<1>5. \A i, j \in DOMAIN SetToSeq(S) : SetToSeq(S)[i] = SetToSeq(S)[j] => i = j
  BY <1>4 DEF IsInjective
<1> QED
  BY <1>2, <1>4, <1>5

-----------------------------------------------------------------------------
(* Sending.                                                                *)

\* A field that the invariant does not look into may be given any value of
\* its type.
LEMMA StatusType ==
  ASSUME NEW s \in Statuses \cup {"Invalid_Message"}
  PROVE  add_status(s) \in Statuses
  BY DEF add_status, Statuses

\* Doing nothing is plain (what that rules out is said at the definitions).
LEMMA PlainReflexive ==
  ASSUME NEW e PROVE Plain(e, e)
  BY DEF Plain, Tame, Calm

\* Two plain changes in a row are plain, and two tame ones tame.
LEMMA PlainTransitive ==
  ASSUME NEW e, NEW f, NEW g
  PROVE  /\ Plain(e, f) /\ Plain(f, g) => Plain(e, g)
         /\ Tame(e, f) /\ Tame(f, g) => Tame(e, g)
<1>1. Tame(e, f) /\ Tame(f, g) => Tame(e, g)
  BY DEF Tame
<1>2. Calm(e, f) /\ Calm(f, g) => Calm(e, g)
  BY DEF Calm
<1> QED
  BY <1>1, <1>2 DEF Plain

\* A step that changes neither the queues nor what Plain looks at.
LEMMA SameQueues ==
  ASSUME NEW e, WellFormed(e), NEW f \in Endpoint,
         f.pending = e.pending, f.modem = e.modem, f.pstate = e.pstate,
         f.out = e.out,
         f.acktivity => e.acktivity \/ e.pstate \in {"connected", "in_session"}
  PROVE  WellFormed(f) /\ Plain(e, f)
  BY DEF WellFormed, Plain, Tame, Calm, Handshaking, InitAtHead, Opened, TimersRight

\* send_session_message keeps an endpoint well formed; a message that is not
\* of the handshake is plain.
LEMMA SendMessage ==
  ASSUME NEW e, WellFormed(e), NEW m \in Message
  PROVE  /\ WellFormed(send_session_message(e, m))
         /\ m.type # "Session_Initialization_Response" =>
              Tame(e, send_session_message(e, m))
         /\ Calm(e, send_session_message(e, m))
              \/ m.type = "Session_Initialization"
<1> DEFINE f == send_session_message(e, m)
<1>1. e.out \in Seq(Message) /\ f.out = Append(e.out, m)
  BY DEF WellFormed, Endpoint, send_session_message
<1>2. f.out \in Seq(Message)
  BY <1>1
<1>3. f \in Endpoint
  BY <1>2 DEF WellFormed, Endpoint, send_session_message
<1>4. /\ f.pending = e.pending
      /\ f.modem = e.modem
      /\ f.pstate = e.pstate
      /\ f.acktivity = e.acktivity
      /\ f.heartbeat = e.heartbeat
  BY DEF WellFormed, Endpoint, send_session_message
<1>5. m.type # "Session_Initialization_Response" /\ NoInitResponse(e.out)
        => NoInitResponse(f.out)
  BY <1>1 DEF NoInitResponse
<1>6. m.type # "Session_Initialization" /\ InitFree(e.out) => InitFree(f.out)
  BY <1>1 DEF InitFree
<1> HIDE DEF f
<1>7. m.type # "Session_Initialization" => Calm(e, f)
  BY <1>4, <1>6 DEF Calm, InitAtHead, Opened, TimersRight
<1>8. WellFormed(f)
  BY <1>3, <1>4 DEF WellFormed
<1>9. m.type # "Session_Initialization_Response" => Tame(e, f)
  BY <1>4, <1>5 DEF Tame, Handshaking
<1> QED
  BY <1>7, <1>8, <1>9 DEF f

\* send_simple_response writes one response of the right queue, or none.
LEMMA SendSimpleResponse ==
  ASSUME NEW e, WellFormed(e), NEW t \in Responses, NEW q \in Queues,
         NEW s \in Statuses \cup {"Invalid_Message"}, NEW send \in BOOLEAN,
         t \in DestinationTypes <=> q \in Dests
  PROVE  /\ WellFormed(send_simple_response(e, t, s, q, send))
         /\ Calm(e, send_simple_response(e, t, s, q, send))
         /\ t # "Session_Initialization_Response" =>
              Plain(e, send_simple_response(e, t, s, q, send))
<1>1. /\ Msg(t, q, add_status(s)) \in Message
      /\ Msg(t, q, add_status(s)).type = t
  BY StatusType DEF Msg, Message, MessageTypes
<1>2. t # "Session_Initialization"
  BY DEF Responses
<1> QED
  BY <1>1, <1>2, SendMessage, PlainReflexive DEF send_simple_response, Plain

\* Transmitting the head counts a try and marks no other entry as sent.
LEMMA TransmitHead ==
  ASSUME NEW e, WellFormed(e), NEW q \in Queues,
         e.pending[q] # <<>>, Head(e.pending[q]).tries < SendTries
  PROVE  /\ WellFormed(transmit_head(e, q))
         /\ Tame(e, transmit_head(e, q))
         /\ Head(e.pending[q]).type # "Session_Initialization" =>
              Plain(e, transmit_head(e, q))
<1> DEFINE h == Head(e.pending[q])
           m == Msg(h.type, q, "none")
           g == send_session_message(e, m)
           x == [h EXCEPT !.tries = @ + 1]
           p == [e.pending EXCEPT ![q] = <<x>> \o Tail(@)]
           f == [g EXCEPT !.pending = p]
<1>1. e.pending \in [Queues -> Seq(Entry)] /\ Disciplined(e.pending[q], q)
  BY DEF WellFormed, Endpoint
<1>2. h \in Entry
  BY <1>1
<1>3. /\ h.type \in Requests
      /\ h.type \in MessageTypes
      /\ h.type # "Session_Initialization_Response"
  BY <1>2 DEF Entry, Requests, ResponseTo, MessageTypes
<1>3a. h.type \in DestinationTypes <=> q \in Dests
  BY <1>1 DEF Disciplined, RightQueue
<1>4. m \in Message /\ m.type = h.type
  BY <1>3, <1>3a DEF Msg, Message, Statuses
<1>5. /\ WellFormed(g) /\ Tame(e, g)
      /\ h.type # "Session_Initialization" => Calm(e, g)
  BY <1>3, <1>4, SendMessage
<1>6. x \in Entry /\ x.type = h.type
  BY <1>2, SendTriesAssumption DEF Entry
<1>7. /\ <<x>> \o Tail(e.pending[q]) \in Seq(Entry)
      /\ Disciplined(<<x>> \o Tail(e.pending[q]), q)
  BY <1>1, <1>3a, <1>6, ReplaceHead
<1>8. g.pending = e.pending
  BY DEF send_session_message, WellFormed, Endpoint
<1>9. transmit_head(e, q) = f
  BY <1>8, <1>5 DEF transmit_head, WellFormed, Endpoint
<1>10. p \in [Queues -> Seq(Entry)] /\ \A r \in Queues : Disciplined(p[r], r)
  BY <1>1, <1>7 DEF WellFormed
<1>11. ASSUME InitAtHead(e), h.type # "Session_Initialization"
       PROVE  /\ \A r \in Queues : InitFirst(p[r])
              /\ Opened(e) => \A r \in Queues : InitFree(p[r])
  <2>1. /\ InitFirst(<<x>> \o Tail(e.pending[q]))
        /\ InitFree(e.pending[q]) => InitFree(<<x>> \o Tail(e.pending[q]))
    <3> HIDE DEF x, h
    <3> QED
      BY <1>1, <1>6, <1>11, QueueInit DEF InitAtHead
  <2> HIDE DEF x
  <2> QED
    BY <1>1, <1>11, <2>1 DEF InitAtHead, Opened
<1> HIDE DEF g, p, h
<1>12. /\ f.pending = p /\ f.modem = g.modem /\ f.pstate = g.pstate /\ f.out = g.out
       /\ f.acktivity = g.acktivity /\ f.heartbeat = g.heartbeat /\ f \in Endpoint
  BY <1>5, <1>10 DEF WellFormed, Endpoint
<1> HIDE DEF f
<1>13. WellFormed(f)
  BY <1>10, <1>12 DEF WellFormed
<1>14. Tame(e, f)
  BY <1>5, <1>12 DEF Tame, Handshaking
<1>15. h.type # "Session_Initialization" => Calm(e, f)
  BY <1>5, <1>11, <1>12 DEF Calm, InitAtHead, Opened, TimersRight
<1> QED
  BY <1>9, <1>13, <1>14, <1>15 DEF Plain, h

\* Serving a queue whose head has tries left sends at most that head.
LEMMA SendQueued ==
  ASSUME NEW e, WellFormed(e), NEW q \in Queues,
         e.pending[q] # <<>>, Head(e.pending[q]).tries < SendTries
  PROVE  /\ WellFormed(send_queued(e, q))
         /\ Tame(e, send_queued(e, q))
         /\ Head(e.pending[q]).type # "Session_Initialization" =>
              Plain(e, send_queued(e, q))
  BY TransmitHead, PlainReflexive DEF send_queued, Plain

\* send_message_expecting_response appends a request that is sent only
\* when it is the head.
LEMMA SendExpectingResponse ==
  ASSUME NEW e, WellFormed(e), NEW q \in Queues, NEW t \in Requests,
         t \in DestinationTypes <=> q \in Dests
  PROVE  /\ WellFormed(send_message_expecting_response(e, q, t))
         /\ Tame(e, send_message_expecting_response(e, q, t))
         /\ t # "Session_Initialization" =>
              Plain(e, send_message_expecting_response(e, q, t))
<1> DEFINE x == [type |-> t, tries |-> 0]
           p == [e.pending EXCEPT ![q] = Append(@, x)]
           f == [e EXCEPT !.pending[q] = Append(@, x)]
<1>1. e.pending \in [Queues -> Seq(Entry)] /\ Disciplined(e.pending[q], q)
  BY DEF WellFormed, Endpoint
<1>2. x \in Entry /\ x.type = t /\ x.tries = 0 /\ x.tries < SendTries
  BY SendTriesAssumption DEF Entry
<1>3. /\ Append(e.pending[q], x) \in Seq(Entry)
      /\ Disciplined(Append(e.pending[q], x), q)
      /\ Append(e.pending[q], x) # <<>>
      /\ e.pending[q] = <<>> => Head(Append(e.pending[q], x)) = x
  <2> HIDE DEF x
  <2> QED
    BY <1>1, <1>2, AppendDisciplined
<1>4. p \in [Queues -> Seq(Entry)] /\ \A r \in Queues : Disciplined(p[r], r)
  BY <1>1, <1>3 DEF WellFormed
<1>4a. ASSUME InitAtHead(e), t # "Session_Initialization"
       PROVE  /\ \A r \in Queues : InitFirst(p[r])
              /\ Opened(e) => \A r \in Queues : InitFree(p[r])
  <2>1. /\ InitFirst(Append(e.pending[q], x))
        /\ InitFree(e.pending[q]) => InitFree(Append(e.pending[q], x))
    <3> HIDE DEF x
    <3> QED
      BY <1>1, <1>2, <1>4a, QueueInit DEF InitAtHead
  <2> HIDE DEF x
  <2> QED
    BY <1>1, <1>4a, <2>1 DEF InitAtHead, Opened
<1>5. /\ f \in Endpoint
      /\ f.pending = p
      /\ f.modem = e.modem
      /\ f.pstate = e.pstate
      /\ f.out = e.out
      /\ f.acktivity = e.acktivity
      /\ f.heartbeat = e.heartbeat
  BY <1>4 DEF WellFormed, Endpoint
<1>6. /\ WellFormed(f) /\ Tame(e, f)
      /\ t # "Session_Initialization" => Plain(e, f)
  <2> HIDE DEF f, p
  <2>1. WellFormed(f)
    BY <1>4, <1>5 DEF WellFormed
  <2>2. Tame(e, f)
    BY <1>5 DEF Tame, Handshaking
  <2>3. t # "Session_Initialization" => Calm(e, f)
    BY <1>4a, <1>5 DEF Calm, InitAtHead, Opened, TimersRight
  <2> QED
    BY <2>1, <2>2, <2>3 DEF Plain
<1>7. f.pending[q] = Append(e.pending[q], x)
  BY <1>1, <1>5
<1>8. e.pending[q] = <<>> =>
        /\ WellFormed(transmit_head(f, q)) /\ Tame(f, transmit_head(f, q))
        /\ t # "Session_Initialization" => Plain(f, transmit_head(f, q))
  <2> HIDE DEF f, x
  <2> QED
    BY <1>2, <1>3, <1>6, <1>7, TransmitHead
<1>9. send_message_expecting_response(e, q, t) \in
        {e, f} \cup (IF e.pending[q] = <<>> THEN {transmit_head(f, q)} ELSE {})
  BY ZenonT(60) DEF send_message_expecting_response
<1> HIDE DEF f
<1>10. /\ Plain(e, e) /\ Tame(e, e)
       /\ e.pending[q] = <<>> =>
            /\ Tame(e, transmit_head(f, q))
            /\ t # "Session_Initialization" => Plain(e, transmit_head(f, q))
  BY <1>6, <1>8, PlainReflexive, PlainTransitive DEF Plain
<1> QED
  BY <1>6, <1>8, <1>9, <1>10

-----------------------------------------------------------------------------
(* Stopping and responses.                                                 *)

\* stop_peer leaves the queues alone.
LEMMA StopPeer ==
  ASSUME NEW e, WellFormed(e)
  PROVE  /\ WellFormed(stop_peer(e))
         /\ Plain(e, stop_peer(e))
  BY DEF stop_peer, WellFormed, Endpoint, PeerStates, Plain, Tame, Calm, Handshaking, InitAtHead, Opened, TimersRight

\* terminate stops the peer and queues Session_Termination.
LEMMA Terminate ==
  ASSUME NEW e, WellFormed(e), NEW why \in Causes
  PROVE  WellFormed(terminate(e, why)) /\ Plain(e, terminate(e, why))
<1> DEFINE f == [stop_peer(e) EXCEPT !.cause = why]
<1>1. WellFormed(stop_peer(e)) /\ Plain(e, stop_peer(e))
  BY StopPeer
<1>2. WellFormed(f) /\ Plain(stop_peer(e), f)
  BY <1>1, SameQueues DEF WellFormed, Endpoint
<1>3. /\ Session \in Queues /\ Session \notin Dests
      /\ "Session_Termination" \in Requests
      /\ "Session_Termination" \notin DestinationTypes
  BY DestsAssumption DEF Queues, Requests, ResponseTo, DestinationTypes
<1> HIDE DEF f
<1>4. LET g == send_message_expecting_response(f, Session,
                                               "Session_Termination")
      IN  WellFormed(g) /\ Plain(f, g)
  BY <1>2, <1>3, SendExpectingResponse
<1>5. terminate(e, why) \in
        {e, send_message_expecting_response(f, Session,
                                            "Session_Termination")}
  BY ZenonT(60) DEF terminate, f
<1> QED
  BY <1>1, <1>2, <1>4, <1>5, PlainReflexive, PlainTransitive

\* handle_response removes the head and serves the rest of its queue.
LEMMA HandleResponse ==
  ASSUME NEW e, WellFormed(e), NEW m \in Message
  PROVE  WellFormed(handle_response(e, m)) /\ Plain(e, handle_response(e, m))
<1> DEFINE q == m.dest
           f == [e EXCEPT !.pending[m.dest] = Tail(@)]
           p == [e.pending EXCEPT ![q] = Tail(@)]
<1>1. q \in Queues
  BY DEF Message
<1>2. e.pending \in [Queues -> Seq(Entry)] /\ Disciplined(e.pending[q], q)
  BY <1>1 DEF WellFormed, Endpoint
<1>3. CASE response_ok(e, m)
  <2>1. e.pending[q] # <<>>
    BY <1>3 DEF response_ok
  <2>2. /\ Tail(e.pending[q]) \in Seq(Entry)
        /\ Disciplined(Tail(e.pending[q]), q)
        /\ Tail(e.pending[q]) # <<>> => Head(Tail(e.pending[q])).tries = 0
    <3> HIDE DEF q
    <3> QED
      BY <1>1, <1>2, <2>1, TailDisciplined
  <2>3. p \in [Queues -> Seq(Entry)] /\ \A r \in Queues : Disciplined(p[r], r)
    BY <1>2, <2>2 DEF WellFormed
  <2>4. /\ f \in Endpoint
        /\ f.pending = p
        /\ f.modem = e.modem
        /\ f.pstate = e.pstate
        /\ f.out = e.out
        /\ f.acktivity = e.acktivity
        /\ f.heartbeat = e.heartbeat
    BY <1>1, <2>3 DEF WellFormed, Endpoint
  <2>4a. ASSUME InitAtHead(e)
         PROVE  /\ InitFirst(Tail(e.pending[q])) /\ InitFree(Tail(e.pending[q]))
                /\ Tail(e.pending[q]) # <<>> =>
                     Head(Tail(e.pending[q])).type # "Session_Initialization"
    <3>1. PICK x : x \in Entry
      <4>1. Head(e.pending[q]) \in Entry
        BY <1>1, <1>2, <2>1
      <4> QED
        BY <4>1
    <3> HIDE DEF q
    <3> QED
      BY <1>1, <1>2, <2>1, <2>4a, <3>1, QueueInit DEF InitAtHead
  <2>4b. ASSUME InitAtHead(e)
         PROVE  /\ \A r \in Queues : InitFirst(p[r])
                /\ Opened(e) => \A r \in Queues : InitFree(p[r])
    BY <1>2, <2>4a, <2>4b DEF InitAtHead, Opened
  <2>5. WellFormed(f) /\ Plain(e, f)
    <3> HIDE DEF f, p
    <3>1. WellFormed(f)
      BY <2>3, <2>4 DEF WellFormed
    <3>2. Tame(e, f)
      BY <2>4 DEF Tame, Handshaking
    <3>3. Calm(e, f)
      BY <2>4, <2>4b DEF Calm, InitAtHead, Opened, TimersRight
    <3> QED
      BY <3>1, <3>2, <3>3 DEF Plain
  <2>6. f.pending[q] = Tail(e.pending[q])
    BY <1>1, <1>2, <2>4
  <2> HIDE DEF f, q
  <2>7. f.pending[q] # <<>> =>
          /\ WellFormed(send_queued(f, q)) /\ Tame(f, send_queued(f, q))
          /\ InitAtHead(e) => Plain(f, send_queued(f, q))
    <3>1. ASSUME f.pending[q] # <<>>
          PROVE  Head(f.pending[q]).tries < SendTries
      BY <2>2, <2>6, <3>1, SendTriesAssumption
    <3> QED
      BY <1>1, <2>4a, <2>5, <2>6, <3>1, SendQueued
  <2>8. handle_response(e, m) =
          IF f.pending[q] = <<>> THEN f ELSE send_queued(f, q)
    BY <1>3, ZenonT(60) DEF handle_response, f, q
  <2> QED
    <3>1. CASE InitAtHead(e)
      BY <2>5, <2>7, <2>8, <3>1, PlainTransitive
    <3>2. CASE ~InitAtHead(e)
      <4>1. WellFormed(handle_response(e, m)) /\ Tame(e, handle_response(e, m))
        BY <2>5, <2>7, <2>8, PlainTransitive DEF Plain
      <4> QED
        BY <3>2, <4>1 DEF Plain, Calm
    <3> QED
      BY <3>1, <3>2
<1>4. CASE ~response_ok(e, m)
  BY <1>4, Terminate DEF handle_response, Causes
<1> QED
  BY <1>3, <1>4

-----------------------------------------------------------------------------
(* Calls of the service and the info base.                                 *)

\* The requests by name; none of them is the response to another.
LEMMA RequestNames ==
  /\ Requests = {"Session_Initialization", "Session_Update",
                 "Session_Termination", "Destination_Up",
                 "Destination_Announce", "Destination_Down",
                 "Link_Characteristics_Request"}
  /\ \A t \in Requests : /\ ResponseTo[t] \in Responses
                         /\ t \notin Responses
                         /\ t # "EOF"
                         /\ t # "Session_Initialization"
                              => ResponseTo[t] #
                                   "Session_Initialization_Response"
  BY DEF Requests, ResponseTo, Responses

\* Msg makes a message of the type it is given.
LEMMA Announcement ==
  ASSUME NEW d \in Dests, NEW s \in Statuses, NEW t \in MessageTypes \cap DestinationTypes
  PROVE  Msg(t, d, s) \in Message /\ Msg(t, d, s).type = t
  BY DEF Msg, Message, Queues

\* Peer::destination_up: a request on the queue, or the response owed.
LEMMA DestinationUp ==
  ASSUME NEW e, WellFormed(e), NEW d \in Dests
  PROVE  WellFormed(destination_up(e, d)) /\ Plain(e, destination_up(e, d))
<1> DEFINE f == [e EXCEPT !.needs_response = @ \ {d}]
           m == Msg("Destination_Announce_Response", d, "Success")
<1>1. d \in Queues
  BY DEF Queues
<1>2. f \in Endpoint /\ f.pending = e.pending /\ f.modem = e.modem
        /\ f.pstate = e.pstate /\ f.out = e.out
        /\ f.acktivity = e.acktivity /\ f.heartbeat = e.heartbeat
  BY DEF WellFormed, Endpoint
<1>3. WellFormed(f) /\ Plain(e, f)
  BY <1>2, SameQueues
<1>4. m \in Message /\ m.type = "Destination_Announce_Response"
  BY <1>1, Announcement DEF Statuses, MessageTypes, Responses, DestinationTypes
<1>5. DestinationUpType(e) \in (Requests \cap DestinationTypes) \ {"Session_Initialization"}
  BY RequestNames DEF DestinationUpType, DestinationTypes
<1> HIDE DEF f, m
<1>6. WellFormed(send_session_message(f, m))
        /\ Plain(f, send_session_message(f, m))
  BY <1>3, <1>4, SendMessage DEF Plain
<1>7. destination_up(e, d) \in
        {send_session_message(f, m),
         send_message_expecting_response(e, d, DestinationUpType(e))}
  BY ZenonT(60) DEF destination_up, f, m
<1> QED
  BY <1>1, <1>3, <1>5, <1>6, <1>7, SendExpectingResponse, PlainTransitive

\* Peer::destination_down queues a request.
LEMMA DestinationDown ==
  ASSUME NEW e, WellFormed(e), NEW d \in Dests
  PROVE  WellFormed(destination_down(e, d)) /\ Plain(e, destination_down(e, d))
  BY SendExpectingResponse, RequestNames DEF destination_down, Queues, DestinationTypes

\* Peer::destination_update writes past the queue.
LEMMA DestinationUpdate ==
  ASSUME NEW e, WellFormed(e), NEW d \in Dests
  PROVE  /\ WellFormed(destination_update(e, d))
         /\ Plain(e, destination_update(e, d))
<1>1. LET m == Msg("Destination_Update", d, "none")
      IN  m \in Message /\ m.type = "Destination_Update"
  BY Announcement DEF Queues, Statuses, MessageTypes, Unacknowledged, DestinationTypes
<1> QED
  BY <1>1, SendMessage, PlainReflexive DEF destination_update, Plain

\* Peer::peer_update queues a session request.
LEMMA PeerUpdate ==
  ASSUME NEW e, WellFormed(e)
  PROVE  WellFormed(peer_update(e)) /\ Plain(e, peer_update(e))
  BY SendExpectingResponse, PlainReflexive, RequestNames, DestsAssumption
  DEF peer_update, Queues, DestinationTypes

\* Peer::link_characteristics_request queues a request.
LEMMA LinkCharacteristicsRequest ==
  ASSUME NEW e, WellFormed(e), NEW d \in Dests
  PROVE  /\ WellFormed(link_characteristics_request(e, d))
         /\ Plain(e, link_characteristics_request(e, d))
  BY SendExpectingResponse, RequestNames
  DEF link_characteristics_request, Queues, DestinationTypes

\* Peer::link_characteristics_response writes the response owed.
LEMMA LinkCharacteristicsResponse ==
  ASSUME NEW e, WellFormed(e), NEW q \in Dests, NEW s \in Statuses,
         NEW send \in BOOLEAN
  PROVE  /\ WellFormed(link_characteristics_response(e, q, s, send))
         /\ Plain(e, link_characteristics_response(e, q, s, send))
  BY SendSimpleResponse
  DEF link_characteristics_response, MessageTypes, Responses, Statuses, Queues,
      DestinationTypes

\* The messages and the queues of sendAllDestinations.
LEMMA SendAllDestinations ==
  ASSUME NEW e, WellFormed(e)
  PROVE  /\ WellFormed(sendAllDestinations(e))
         /\ Plain(e, sendAllDestinations(e))
         /\ WritesMore(e, sendAllDestinations(e))
         /\ sendAllDestinations(e).acktivity = e.acktivity
<1> DEFINE answered == e.local_pdp \cap e.needs_response
           pushed   == (e.local_pdp \ e.needs_response) \ e.not_interested
           first    == {d \in pushed : e.pending[d] = <<>>}
           type     == DestinationUpType(e)
           ans(d)   == Msg("Destination_Announce_Response", d, "Success")
           up(d)    == Msg(type, d, "none")
           A        == {ans(d) : d \in answered}
           U        == {up(d) : d \in first}
           x(d)     == [type |-> type, tries |-> IF d \in first THEN 1 ELSE 0]
           p        == [q \in Queues |-> IF q \in pushed
                                         THEN Append(e.pending[q], x(q))
                                         ELSE e.pending[q]]
           out      == e.out \o SetToSeq(A \cup U)
           f        == [e EXCEPT !.needs_response = @ \ answered,
                                 !.pending = p, !.out = out]
<1>1. /\ e \in Endpoint
      /\ e.local_pdp \subseteq Dests
      /\ e.out \in Seq(Message)
      /\ e.pending \in [Queues -> Seq(Entry)]
      /\ \A q \in Queues : Disciplined(e.pending[q], q)
  BY DEF WellFormed, Endpoint
<1>2. /\ type \in Requests
      /\ type \in MessageTypes \cap DestinationTypes
      /\ type \notin {"Session_Initialization", "Session_Initialization_Response"}
  BY RequestNames DEF DestinationUpType, MessageTypes, Responses, DestinationTypes
<1>3. A \cup U \subseteq
        {m \in Message : m.type \notin {"Session_Initialization",
                                       "Session_Initialization_Response"}}
  <2> HIDE DEF type
  <2>1. \A d \in Dests : ans(d) \in Message
                           /\ ans(d).type = "Destination_Announce_Response"
    BY Announcement DEF Queues, Statuses, MessageTypes, Responses, DestinationTypes
  <2>2. \A d \in Dests : up(d) \in Message /\ up(d).type = type
    BY <1>2, Announcement DEF Queues, Statuses
  <2> HIDE DEF ans, up
  <2> QED
    BY <1>1, <1>2, <2>1, <2>2
<1>4. IsFiniteSet(A \cup U)
  <2>1. IsFiniteSet(answered) /\ IsFiniteSet(first)
    BY <1>1, DestsAssumption, FS_Subset
  <2>2. IsFiniteSet(A) /\ IsFiniteSet(U)
    <3> HIDE DEF answered, first, ans, up
    <3>1. [d \in answered |-> ans(d)] \in Surjection(answered, A)
      BY DEF Surjection
    <3>2. [d \in first |-> up(d)] \in Surjection(first, U)
      BY DEF Surjection
    <3> HIDE DEF A, U
    <3> QED
      BY <2>1, <3>1, <3>2, FS_Surjection
  <2> QED
    BY <2>2, FS_Union
<1>5. /\ SetToSeq(A \cup U) \in Seq(Message)
      /\ NoInitResponse(SetToSeq(A \cup U))
      /\ InitFree(SetToSeq(A \cup U))
  <2> DEFINE s == SetToSeq(A \cup U)
  <2>1. s \in Seq(A \cup U) /\ \A i \in DOMAIN s : s[i] \in A \cup U
    BY <1>4, SetToSeqType
  <2> HIDE DEF A, U, s
  <2>2. s \in Seq(Message)
    BY <1>3, <2>1
  <2>3. NoInitResponse(s) /\ InitFree(s)
    BY <1>3, <2>1 DEF NoInitResponse, InitFree
  <2> QED
    BY <2>2, <2>3 DEF s
<1>6. /\ out \in Seq(Message)
      /\ NoInitResponse(e.out) => NoInitResponse(out)
      /\ InitFree(e.out) => InitFree(out)
  <2> HIDE DEF A, U
  <2> QED
    BY <1>1, <1>5, ConcatNoInitResponse
<1>7. p \in [Queues -> Seq(Entry)] /\ \A q \in Queues : Disciplined(p[q], q)
  <2>1. ASSUME NEW q \in Queues, q \in pushed
        PROVE  /\ Append(e.pending[q], x(q)) \in Seq(Entry)
               /\ Disciplined(Append(e.pending[q], x(q)), q)
    <3>1. /\ x(q) \in Entry
          /\ e.pending[q] # <<>> => x(q).tries = 0
          /\ q \in Dests /\ x(q).type \in DestinationTypes
      <4> HIDE DEF type
      <4> QED
        BY <1>1, <1>2, <2>1, SendTriesAssumption DEF Entry
    <3> HIDE DEF x
    <3> QED
      BY <1>1, <3>1, AppendDisciplined
  <2> HIDE DEF x, pushed
  <2> QED
    BY <1>1, <2>1
<1>7a. ASSUME InitAtHead(e)
       PROVE  /\ \A q \in Queues : InitFirst(p[q])
              /\ Opened(e) => \A q \in Queues : InitFree(p[q])
  <2>1. ASSUME NEW q \in Queues
        PROVE  /\ InitFirst(Append(e.pending[q], x(q)))
               /\ InitFree(e.pending[q]) => InitFree(Append(e.pending[q], x(q)))
    <3>1. x(q) \in Entry /\ x(q).type = type
      <4> HIDE DEF type
      <4> QED
        BY <1>1, <1>2, SendTriesAssumption DEF Entry
    <3> HIDE DEF x, type
    <3> QED
      BY <1>1, <1>2, <1>7a, <3>1, QueueInit DEF InitAtHead
  <2> HIDE DEF x, pushed
  <2> QED
    BY <1>1, <1>7a, <2>1 DEF InitAtHead, Opened
<1>8. sendAllDestinations(e) = f
  BY ZenonT(60) DEF sendAllDestinations
<1>8a. \E t \in Seq(Message) : out = e.out \o t /\ NoInitResponse(t) /\ InitFree(t)
  <2> HIDE DEF A, U
  <2> QED
    BY <1>5
<1> HIDE DEF p, out, answered
<1>9. /\ f \in Endpoint /\ f.pending = p /\ f.out = out /\ f.modem = e.modem
      /\ f.pstate = e.pstate /\ f.acktivity = e.acktivity /\ f.heartbeat = e.heartbeat
  BY <1>1, <1>6, <1>7 DEF Endpoint
<1> HIDE DEF f
<1>10. WellFormed(f) /\ Tame(e, f)
  BY <1>6, <1>7, <1>9 DEF WellFormed, Tame, Handshaking
<1>11. Calm(e, f)
  BY <1>6, <1>7a, <1>9 DEF Calm, InitAtHead, Opened, TimersRight
<1> QED
  BY <1>8, <1>8a, <1>9, <1>10, <1>11 DEF Plain, WritesMore

\* Removing a destination of the peer leaves the queues alone.
LEMMA RemoveDestination ==
  ASSUME NEW e, WellFormed(e), NEW d \in Dests
  PROVE  /\ WellFormed(RemovePeerDestination(e, d))
         /\ Plain(e, RemovePeerDestination(e, d))
  BY SameQueues DEF RemovePeerDestination, WellFormed, Endpoint

-----------------------------------------------------------------------------
(* Message handlers.                                                       *)

\* A router that starts sends Session_Initialization, a modem waits.
LEMMA StartPeer ==
  ASSUME NEW e, WellFormed(e), e.pstate = "connecting"
  PROVE  WellFormed(start_peer(e)) /\ Tame(e, start_peer(e))
<1> DEFINE f == [e EXCEPT !.pstate = "connected", !.acktivity = TRUE]
<1>1. WellFormed(f) /\ Tame(e, f)
  BY DEF WellFormed, Endpoint, PeerStates, Tame, Handshaking
<1>2. /\ Session \in Queues /\ Session \notin Dests
      /\ "Session_Initialization" \in Requests
      /\ "Session_Initialization" \notin DestinationTypes
  BY RequestNames, DestsAssumption DEF Queues, DestinationTypes
<1> HIDE DEF f
<1>3. start_peer(e) \in
        {f, send_message_expecting_response(f, Session,
                                            "Session_Initialization")}
  BY ZenonT(60) DEF start_peer, f
<1>4. LET g == send_message_expecting_response(f, Session, "Session_Initialization")
      IN  WellFormed(g) /\ Tame(e, g)
  BY <1>1, <1>2, SendExpectingResponse, PlainTransitive
<1> QED
  BY <1>1, <1>3, <1>4

\* f is an endpoint whose session has just come up.
Completed(e, f) == f.modem = e.modem /\ f.pstate = "in_session"

\* The start of the session announces every local destination.
LEMMA SessionUp ==
  ASSUME NEW e, WellFormed(e)
  PROVE  LET f == session_up(e)
         IN  /\ WellFormed(f) /\ Completed(e, f)
             /\ InitAtHead(e) => InitAtHead(f) /\ (Opened(e) => Opened(f))
             /\ TimersRight(f)
             /\ WritesMore(e, f)
<1> DEFINE x == Heartbeats[~e.modem]
           y == Heartbeats[e.modem]
           f == [e EXCEPT !.heartbeats = x, !.pstate = "in_session"]
           g == sendAllDestinations(f)
           h == [g EXCEPT !.heartbeat = y]
<1>0. x \in BOOLEAN /\ y \in BOOLEAN
  BY HeartbeatsAssumption DEF WellFormed, Endpoint
<1> HIDE DEF x, y
<1>1. /\ WellFormed(f) /\ f.modem = e.modem /\ f.pstate = "in_session"
      /\ f.pending = e.pending /\ f.out = e.out /\ f.acktivity = e.acktivity
  BY <1>0 DEF WellFormed, Endpoint, PeerStates
<1> HIDE DEF f
<1>2. /\ WellFormed(g) /\ g.modem = e.modem /\ Calm(f, g) /\ WritesMore(f, g)
      /\ g.acktivity = e.acktivity
  BY <1>1, SendAllDestinations DEF Plain, Tame
<1>3. g.pstate = "in_session"
  BY <1>1 DEF sendAllDestinations, WellFormed, Endpoint
<1>4. session_up(e) = h
  BY ZenonT(60) DEF session_up, f, x, y
<1> HIDE DEF g
<1>5. /\ h \in Endpoint /\ h.modem = g.modem /\ h.pstate = g.pstate /\ h.pending = g.pending
      /\ h.out = g.out /\ h.acktivity = g.acktivity
  BY <1>0, <1>2 DEF WellFormed, Endpoint
<1> HIDE DEF h
<1>6. WellFormed(h) /\ Completed(e, h)
  BY <1>2, <1>3, <1>5 DEF WellFormed, Completed
<1>7. InitAtHead(e) => InitAtHead(h) /\ (Opened(e) => Opened(h))
  BY <1>1, <1>2, <1>5 DEF Calm, InitAtHead, Opened
<1>8. TimersRight(h)
  BY <1>3, <1>5 DEF TimersRight
<1>9. WritesMore(e, h)
  BY <1>1, <1>2, <1>5 DEF WritesMore
<1> QED
  BY <1>4, <1>6, <1>7, <1>8, <1>9

\* The modem's end of the handshake: the only handler that sends
\* Session_Initialization_Response.
LEMMA HandlePeerInitialization ==
  ASSUME NEW e, WellFormed(e), NEW c \in Inputs
  PROVE  LET f == handle_peer_initialization(e, c)
         IN  WellFormed(f) /\ (Plain(e, f) \/ Completed(e, f))
<1> DEFINE g == send_simple_response(e, "Session_Initialization_Response",
                                     "Success", Session, c.send)
<1>1. WellFormed(g)
  BY SendSimpleResponse, DestsAssumption
  DEF MessageTypes, Responses, Statuses, Queues, DestinationTypes, Inputs
<1>2. g.modem = e.modem
  BY DEF send_simple_response, send_session_message, WellFormed, Endpoint
<1>3. handle_peer_initialization(e, c) \in
        {terminate(e, "Inconsistent_Data"), session_up(g)}
  BY ZenonT(60) DEF handle_peer_initialization
<1> HIDE DEF g
<1> QED
  BY <1>1, <1>2, <1>3, SessionUp, Terminate DEF Completed, Causes

\* The router's end of the handshake.
LEMMA HandlePeerInitializationResponse ==
  ASSUME NEW e, WellFormed(e), NEW m \in Message
  PROVE  LET f == handle_peer_initialization_response(e, m)
         IN  WellFormed(f) /\ (Plain(e, f) \/ Completed(e, f))
  BY HandleResponse, SessionUp
  DEF handle_peer_initialization_response, Completed, Plain, Tame

\* A session update is answered, or ends the session.
LEMMA HandlePeerUpdate ==
  ASSUME NEW e, WellFormed(e), NEW c \in Inputs
  PROVE  WellFormed(handle_peer_update(e, c))
           /\ Plain(e, handle_peer_update(e, c))
  BY Terminate, SendSimpleResponse, DestsAssumption
  DEF handle_peer_update, Causes, MessageTypes, Responses, Statuses, Queues,
      DestinationTypes, Inputs

\* Session_Termination is answered and stops the peer.
LEMMA HandlePeerTermination ==
  ASSUME NEW e, WellFormed(e), NEW c \in Inputs
  PROVE  WellFormed(handle_peer_termination(e, c))
           /\ Plain(e, handle_peer_termination(e, c))
<1> DEFINE g == send_simple_response(e, "Session_Termination_Response",
                                     "none", Session, c.send)
<1>1. WellFormed(g) /\ Plain(e, g)
  BY SendSimpleResponse, DestsAssumption
  DEF MessageTypes, Responses, Statuses, Queues, DestinationTypes, Inputs
<1> HIDE DEF g
<1>2. handle_peer_termination(e, c) = stop_peer(g)
  BY ZenonT(60) DEF handle_peer_termination, g
<1> QED
  BY <1>1, <1>2, StopPeer, PlainTransitive

\* The answer to Session_Termination stops a terminating peer.
LEMMA HandlePeerTerminationResponse ==
  ASSUME NEW e, WellFormed(e), NEW m \in Message
  PROVE  WellFormed(handle_peer_termination_response(e, m))
           /\ Plain(e, handle_peer_termination_response(e, m))
  BY HandleResponse, StopPeer, PlainReflexive, PlainTransitive
  DEF handle_peer_termination_response

\* Destination_Up is answered at once; a refused destination is dropped.
LEMMA HandleDestinationUp ==
  ASSUME NEW e, WellFormed(e), NEW m \in Message, m.dest \in Dests,
         NEW c \in Inputs, m.type \in Requests => m.type = "Destination_Up"
  PROVE  WellFormed(handle_destination_up(e, m, c))
           /\ Plain(e, handle_destination_up(e, m, c))
<1> DEFINE g == [e EXCEPT
                   !.not_interested = @ \ {m.dest},
                   !.peer_pdp = IF c.status = "Success"
                                THEN @ \cup {m.dest} ELSE @]
           s == IF m.dest \in e.peer_pdp THEN "Invalid_Message" ELSE c.status
           h == IF m.dest \in e.peer_pdp THEN e ELSE g
<1>1. WellFormed(g) /\ Plain(e, g)
  BY SameQueues DEF WellFormed, Endpoint
<1>2. WellFormed(h) /\ Plain(e, h)
  <2> HIDE DEF g
  <2> QED
    BY <1>1, PlainReflexive
<1>3. s \in Statuses \cup {"Invalid_Message"} /\ c.send \in BOOLEAN
  BY DEF Inputs, Statuses
<1> HIDE DEF h, s
<1>4. m.type \in Requests =>
        LET r == send_simple_response(h, ResponseTo[m.type], s, m.dest, c.send)
        IN  WellFormed(r) /\ Plain(h, r)
  <2>1. m.type \in Requests => ResponseTo[m.type] = "Destination_Up_Response"
    BY DEF ResponseTo
  <2>2. /\ "Destination_Up_Response" \in Responses \cap DestinationTypes
        /\ m.dest \in Queues
    BY DEF Responses, Queues, DestinationTypes
  <2> QED
    BY <1>2, <1>3, <2>1, <2>2, SendSimpleResponse
<1>5. handle_destination_up(e, m, c) \in
        {terminate(e, "Inconsistent_Data"), h}
          \cup IF m.type \in Requests
               THEN {send_simple_response(h, ResponseTo[m.type], s, m.dest,
                                          c.send)}
               ELSE {}
  BY ZenonT(60) DEF handle_destination_up, h, s
<1> QED
  BY <1>2, <1>4, <1>5, Terminate, PlainTransitive DEF Causes

\* The response serves its queue and may mark the destination.
LEMMA HandleDestinationUpResponse ==
  ASSUME NEW e, WellFormed(e), NEW m \in Message, m.dest \in Dests,
         NEW c \in Inputs, m.type \notin Requests
  PROVE  WellFormed(handle_destination_up_response(e, m, c))
           /\ Plain(e, handle_destination_up_response(e, m, c))
<1> DEFINE f == handle_response(e, m)
           g == [f EXCEPT !.not_interested = @ \cup {m.dest}]
           h == IF m.status = "Not_Interested" THEN g ELSE f
<1>1. WellFormed(f) /\ Plain(e, f)
  BY HandleResponse
<1> HIDE DEF f
<1>2. WellFormed(g) /\ Plain(f, g)
  BY <1>1, SameQueues DEF WellFormed, Endpoint
<1> HIDE DEF g
<1>3. WellFormed(h) /\ Plain(e, h)
  BY <1>1, <1>2, PlainTransitive
<1> HIDE DEF h
<1>4. WellFormed(handle_destination_up(h, m, c))
        /\ Plain(h, handle_destination_up(h, m, c))
  BY <1>3, HandleDestinationUp
<1>5. handle_destination_up_response(e, m, c) \in
        {f, h, handle_destination_up(h, m, c)}
  BY ZenonT(60) DEF handle_destination_up_response, f, g, h
<1> QED
  BY <1>1, <1>3, <1>4, <1>5, PlainTransitive

\* Destination_Announce is answered at once or by the client later.
LEMMA HandleDestinationAnnounce ==
  ASSUME NEW e, WellFormed(e), NEW m \in Message, m.dest \in Dests,
         NEW c \in Inputs
  PROVE  WellFormed(handle_destination_announce(e, m, c))
           /\ Plain(e, handle_destination_announce(e, m, c))
<1> DEFINE t == "Destination_Announce_Response"
           f == [e EXCEPT !.not_interested = @ \ {m.dest},
                          !.peer_pdp = @ \cup {m.dest}]
           g == [f EXCEPT !.needs_response = @ \cup {m.dest}]
<1>1. WellFormed(f) /\ Plain(e, f)
  BY SameQueues DEF WellFormed, Endpoint
<1>2. /\ c.send \in BOOLEAN
      /\ c.status \in Statuses \cup {"Invalid_Message"}
      /\ t \in Responses \cap DestinationTypes
      /\ m.dest \in Queues
  BY DEF Inputs, Statuses, Responses, Queues, DestinationTypes
<1>3. handle_destination_announce(e, m, c) \in
        {send_simple_response(e, t, "Invalid_Message", m.dest, c.send),
         destination_up(g, m.dest), g,
         send_simple_response(f, t, c.status, m.dest, c.send)}
  BY ZenonT(60) DEF handle_destination_announce
<1> HIDE DEF f
<1>4. WellFormed(g) /\ Plain(f, g)
  BY <1>1, SameQueues DEF WellFormed, Endpoint
<1> HIDE DEF g
<1>5. LET r == send_simple_response(e, t, "Invalid_Message", m.dest, c.send)
      IN  WellFormed(r) /\ Plain(e, r)
  BY <1>2, SendSimpleResponse
<1>6. LET r == send_simple_response(f, t, c.status, m.dest, c.send)
      IN  WellFormed(r) /\ Plain(f, r)
  BY <1>1, <1>2, SendSimpleResponse
<1>7. WellFormed(destination_up(g, m.dest))
        /\ Plain(g, destination_up(g, m.dest))
  BY <1>4, DestinationUp
<1> QED
  BY <1>1, <1>3, <1>4, <1>5, <1>6, <1>7, PlainTransitive

\* Destination_Update has no answer.
LEMMA HandleDestinationUpdate ==
  ASSUME NEW e, WellFormed(e), NEW m \in Message, NEW c \in Inputs
  PROVE  WellFormed(handle_destination_update(e, m, c))
           /\ Plain(e, handle_destination_update(e, m, c))
  BY Terminate, PlainReflexive DEF handle_destination_update, Causes

\* Destination_Down removes the destination and is answered.
LEMMA HandleDestinationDown ==
  ASSUME NEW e, WellFormed(e), NEW m \in Message, m.dest \in Dests,
         NEW c \in Inputs
  PROVE  WellFormed(handle_destination_down(e, m, c))
           /\ Plain(e, handle_destination_down(e, m, c))
<1> DEFINE g == [e EXCEPT !.not_interested = @ \cup {m.dest}]
           h == IF m.dest \in e.peer_pdp THEN RemovePeerDestination(e, m.dest)
                ELSE g
           r == send_simple_response(h, "Destination_Down_Response",
                                     "Success", m.dest, c.send)
<1>1. WellFormed(g) /\ Plain(e, g)
  BY SameQueues DEF WellFormed, Endpoint
<1> HIDE DEF g
<1>2. WellFormed(h) /\ Plain(e, h)
  BY <1>1, RemoveDestination
<1> HIDE DEF h
<1>3. WellFormed(r) /\ Plain(h, r)
  BY <1>2, SendSimpleResponse
  DEF Inputs, Statuses, MessageTypes, Responses, Queues, DestinationTypes
<1> HIDE DEF r
<1>4. handle_destination_down(e, m, c) \in
        {terminate(e, "Invalid_Destination"), r}
  BY ZenonT(60) DEF handle_destination_down, r, h, g
<1> QED
  BY <1>2, <1>3, <1>4, Terminate, PlainTransitive DEF Causes

\* The request is answered at once or by the client later.
LEMMA HandleLinkCharacteristicsRequest ==
  ASSUME NEW e, WellFormed(e), NEW m \in Message, m.dest \in Dests,
         NEW c \in Inputs
  PROVE  WellFormed(handle_link_characteristics_request(e, m, c))
           /\ Plain(e, handle_link_characteristics_request(e, m, c))
<1> DEFINE g == [e EXCEPT !.asked = @ \cup {m.dest}]
<1>1. WellFormed(g) /\ Plain(e, g)
  BY SameQueues DEF WellFormed, Endpoint
<1>2. handle_link_characteristics_request(e, m, c) \in
        {terminate(e, "Invalid_Destination"), g,
         link_characteristics_response(e, m.dest, "none", c.send)}
  BY ZenonT(60) DEF handle_link_characteristics_request
<1> HIDE DEF g
<1>3. c.send \in BOOLEAN /\ "Invalid_Destination" \in Causes /\ "none" \in Statuses
  BY DEF Inputs, Causes, Statuses
<1> QED
  BY <1>1, <1>2, <1>3, Terminate, LinkCharacteristicsResponse

\* The response serves its queue.
LEMMA HandleLinkCharacteristicsResponse ==
  ASSUME NEW e, WellFormed(e), NEW m \in Message
  PROVE  WellFormed(handle_link_characteristics_response(e, m))
           /\ Plain(e, handle_link_characteristics_response(e, m))
  BY HandleResponse, Terminate, PlainTransitive
  DEF handle_link_characteristics_response, Causes

\* A message either leaves the handshake alone or completes it, and it only
\* completes the router's when it is a Session_Initialization_Response.
Handled(e, m, f) ==
  /\ WellFormed(f)
  /\ \/ Plain(e, f)
     \/ /\ Completed(e, f)
        /\ m.type = IF e.modem THEN "Session_Initialization"
                    ELSE "Session_Initialization_Response"

\* Every message, handled in any state, keeps the endpoint well formed;
\* all but Session_Initialization and its response are tame.
LEMMA HandlePeerSignal ==
  ASSUME NEW e, WellFormed(e), NEW m \in Message, m.type # "EOF",
         NEW c \in Inputs
  PROVE  Handled(e, m, handle_peer_signal(e, m, c))
<1> DEFINE f == handle_peer_signal(e, m, c)
<1>1. CASE ~c.valid \/ ~sender_ok(e, m) \/ ~status_ok(m)
  BY <1>1, Terminate DEF handle_peer_signal, Handled, Causes
<1>2. CASE c.valid /\ sender_ok(e, m) /\ status_ok(m) /\ status_code_failure(m)
  BY <1>2, Terminate
  DEF handle_peer_signal, Handled, status_code_failure, TerminateStatuses,
      Causes
<1>3. CASE c.valid /\ sender_ok(e, m) /\ status_ok(m) /\ ~status_code_failure(m)
  <2>1. m.type \in DestinationTypes <=> m.dest \in Dests
    BY DEF Message
  <2>2. CASE m.type = "Heartbeat"
    BY <1>3, <2>2, PlainReflexive DEF handle_peer_signal, Handled
  <2>3. CASE m.type = "Destination_Update"
    BY <1>3, <2>3, HandleDestinationUpdate DEF handle_peer_signal, Handled
  <2>4. CASE m.type = "Destination_Up" /\ e.modem
    <3>1. f = handle_destination_announce(e, m, c)
      BY <1>3, <2>4 DEF handle_peer_signal
    <3> QED
      BY <2>1, <2>4, <3>1, HandleDestinationAnnounce
      DEF Handled, DestinationTypes
  <2>5. CASE m.type = "Destination_Up" /\ ~e.modem
    <3>1. f = handle_destination_up(e, m, c)
      BY <1>3, <2>5 DEF handle_peer_signal
    <3> QED
      BY <2>1, <2>5, <3>1, HandleDestinationUp DEF Handled, DestinationTypes
  <2>6. CASE m.type \in {"Destination_Up_Response",
                         "Destination_Announce_Response"}
    <3>1. f = handle_destination_up_response(e, m, c)
      BY <1>3, <2>6 DEF handle_peer_signal
    <3>2. m.type \notin Requests /\ m.type \in DestinationTypes
      BY <2>6, RequestNames DEF DestinationTypes
    <3> QED
      BY <2>1, <3>1, <3>2, HandleDestinationUpResponse DEF Handled
  <2>7. CASE m.type = "Destination_Announce"
    <3>1. f = handle_destination_announce(e, m, c)
      BY <1>3, <2>7 DEF handle_peer_signal
    <3> QED
      BY <2>1, <2>7, <3>1, HandleDestinationAnnounce
      DEF Handled, DestinationTypes
  <2>8. CASE m.type = "Destination_Down"
    <3>1. f = handle_destination_down(e, m, c)
      BY <1>3, <2>8 DEF handle_peer_signal
    <3> QED
      BY <2>1, <2>8, <3>1, HandleDestinationDown DEF Handled, DestinationTypes
  <2>9. CASE m.type \in {"Destination_Down_Response",
                         "Session_Update_Response"}
    <3>1. f = handle_response(e, m)
      BY <1>3, <2>9 DEF handle_peer_signal
    <3> QED
      BY <3>1, HandleResponse DEF Handled
  <2>10. CASE m.type = "Link_Characteristics_Request"
    <3>1. f = handle_link_characteristics_request(e, m, c)
      BY <1>3, <2>10 DEF handle_peer_signal
    <3> QED
      BY <2>1, <2>10, <3>1, HandleLinkCharacteristicsRequest
      DEF Handled, DestinationTypes
  <2>11. CASE m.type = "Link_Characteristics_Response"
    <3>1. f = handle_link_characteristics_response(e, m)
      BY <1>3, <2>11 DEF handle_peer_signal
    <3> QED
      BY <3>1, HandleLinkCharacteristicsResponse DEF Handled
  <2>12. CASE m.type = "Session_Update"
    <3>1. f = handle_peer_update(e, c)
      BY <1>3, <2>12 DEF handle_peer_signal
    <3> QED
      BY <3>1, HandlePeerUpdate DEF Handled
  <2>13. CASE m.type = "Session_Initialization"
    <3>1. f = handle_peer_initialization(e, c)
      BY <1>3, <2>13 DEF handle_peer_signal
    <3>2. e.modem
      BY <1>3, <2>13 DEF sender_ok, RouterOnly
    <3> QED
      BY <2>13, <3>1, <3>2, HandlePeerInitialization DEF Handled
  <2>14. CASE m.type = "Session_Initialization_Response"
    <3>1. f = handle_peer_initialization_response(e, m)
      BY <1>3, <2>14 DEF handle_peer_signal
    <3>2. ~e.modem
      BY <1>3, <2>14 DEF sender_ok, ModemOnly
    <3> QED
      BY <2>14, <3>1, <3>2, HandlePeerInitializationResponse DEF Handled
  <2>15. CASE m.type = "Session_Termination"
    <3>1. f = handle_peer_termination(e, c)
      BY <1>3, <2>15 DEF handle_peer_signal
    <3> QED
      BY <3>1, HandlePeerTermination DEF Handled
  <2>16. CASE m.type = "Session_Termination_Response"
    <3>1. f = handle_peer_termination_response(e, m)
      BY <1>3, <2>16 DEF handle_peer_signal
    <3> QED
      BY <3>1, HandlePeerTerminationResponse DEF Handled
  <2>17. m.type \in Requests \cup Responses
                      \cup {"Heartbeat", "Destination_Update"}
    BY DEF Message, MessageTypes, Unacknowledged
  <2> QED
    BY <2>2, <2>3, <2>4, <2>5, <2>6, <2>7, <2>8, <2>9, <2>10, <2>11, <2>12,
       <2>13, <2>14, <2>15, <2>16, <2>17, RequestNames DEF Responses
<1> QED
  BY <1>1, <1>2, <1>3

\* So does the end of the stream.
LEMMA HandleSessionReceive ==
  ASSUME NEW e, WellFormed(e), NEW m \in Message, NEW c \in Inputs
  PROVE  Handled(e, m, handle_session_receive(e, m, c))
  BY HandlePeerSignal, StopPeer DEF handle_session_receive, Handled

-----------------------------------------------------------------------------
(* Timers.                                                                 *)

\* The timer that has expired is not cancelled by its own handler, and is
\* scheduled again for a peer that is not stopped.
LEMMA TimedOut ==
  ASSUME NEW e, WellFormed(e)
  PROVE  WellFormed(timed_out(e)) /\ Plain(e, timed_out(e))
<1> DEFINE g == [e EXCEPT !.acktivity = FALSE]
<1>1. /\ g \in Endpoint /\ g.pending = e.pending /\ g.modem = e.modem
      /\ g.pstate = e.pstate /\ g.out = e.out /\ g.acktivity = FALSE
  BY DEF WellFormed, Endpoint
<1>2. timed_out(e) = terminate(g, "Timed_Out")
  BY DEF timed_out
<1> HIDE DEF g
<1>3. WellFormed(g) /\ Plain(e, g)
  BY <1>1, SameQueues
<1> QED
  BY <1>2, <1>3, Terminate, PlainTransitive DEF Causes

LEMMA ScheduleAcktivity ==
  ASSUME NEW e, WellFormed(e)
  PROVE  LET f == schedule_acktivity_timer(e)
         IN  /\ WellFormed(f) /\ Tame(e, f)
             /\ e.acktivity \/ e.pstate \notin {"nonexistent", "connecting"} => Plain(e, f)
             /\ f.pending = e.pending /\ f.out = e.out /\ f.pstate = e.pstate
             /\ f.needs_response = e.needs_response /\ f.asked = e.asked
<1> DEFINE g == [e EXCEPT !.acktivity = TRUE]
<1>1. /\ g \in Endpoint /\ g.pending = e.pending /\ g.modem = e.modem
      /\ g.pstate = e.pstate /\ g.out = e.out
      /\ g.needs_response = e.needs_response /\ g.asked = e.asked
  BY DEF WellFormed, Endpoint
<1>2. schedule_acktivity_timer(e) = IF e.pstate = "terminating" THEN e ELSE g
  BY DEF schedule_acktivity_timer
<1>3. e.pstate \in PeerStates
  BY DEF WellFormed, Endpoint
<1> HIDE DEF g
<1>4. WellFormed(g) /\ Tame(e, g)
  BY <1>1 DEF WellFormed, Tame, Handshaking
<1>5. ASSUME e.acktivity \/ e.pstate \notin {"nonexistent", "connecting"},
             e.pstate # "terminating"
      PROVE  Plain(e, g)
  <2>1. e.acktivity \/ e.pstate \in {"connected", "in_session"}
    BY <1>3, <1>5 DEF PeerStates
  <2> QED
    BY <1>1, <2>1, SameQueues
<1> QED
  BY <1>1, <1>2, <1>4, <1>5, PlainReflexive DEF Plain

\* A retransmission counts a try, and the last one gives up.
LEMMA CheckForRetransmits ==
  ASSUME NEW e, WellFormed(e), NEW q \in Queues, e.pending[q] # <<>>
  PROVE  /\ WellFormed(check_for_retransmits(e, q))
         /\ Tame(e, check_for_retransmits(e, q))
         /\ e.acktivity /\ Head(e.pending[q]).type # "Session_Initialization" =>
              Plain(e, check_for_retransmits(e, q))
<1> DEFINE g == send_queued(e, q)
           h == schedule_acktivity_timer(g)
<1>1. CASE Head(e.pending[q]).tries < SendTries
  <2>1. /\ WellFormed(g) /\ Tame(e, g)
        /\ Head(e.pending[q]).type # "Session_Initialization" => Plain(e, g)
    BY <1>1, SendQueued DEF Plain
  <2>2. g.acktivity = e.acktivity
    BY DEF send_queued, transmit_head, send_session_message, WellFormed, Endpoint
  <2> HIDE DEF g
  <2>3. WellFormed(h) /\ Tame(g, h) /\ (e.acktivity => Plain(g, h))
    BY <2>1, <2>2, ScheduleAcktivity
  <2>4. check_for_retransmits(e, q) = h
    BY <1>1 DEF check_for_retransmits, g
  <2> HIDE DEF h
  <2> QED
    BY <2>1, <2>3, <2>4, PlainTransitive
<1>2. CASE ~(Head(e.pending[q]).tries < SendTries)
  BY <1>2, TimedOut DEF check_for_retransmits, Plain
<1> QED
  BY <1>1, <1>2

\* The handler of a cancelled acktivity timer writes nothing.
LEMMA AcktivityAfterStop ==
  ASSUME NEW e, WellFormed(e), e.pstate \notin {"nonexistent", "connecting"}
  PROVE  LET f == acktivity_after_stop(e)
         IN  /\ WellFormed(f) /\ Plain(e, f)
             /\ f.pending = e.pending /\ f.out = e.out /\ f.pstate = e.pstate
             /\ f.needs_response = e.needs_response /\ f.asked = e.asked
             /\ f.modem = e.modem /\ f.cause = e.cause /\ f.heartbeats = e.heartbeats
             /\ f.local_pdp = e.local_pdp /\ f.peer_pdp = e.peer_pdp
             /\ f.not_interested = e.not_interested
<1> DEFINE g == [e EXCEPT !.cancelled = @ \ {"acktivity"}]
           f == acktivity_after_stop(e)
<1>1. /\ g \in Endpoint /\ g.pending = e.pending /\ g.modem = e.modem
      /\ g.pstate = e.pstate /\ g.out = e.out /\ g.acktivity = e.acktivity
      /\ g.needs_response = e.needs_response /\ g.asked = e.asked
  BY DEF WellFormed, Endpoint
<1>2. f = schedule_acktivity_timer(g)
  BY DEF acktivity_after_stop
<1>3. /\ f.modem = e.modem /\ f.cause = e.cause /\ f.heartbeats = e.heartbeats
      /\ f.local_pdp = e.local_pdp /\ f.peer_pdp = e.peer_pdp
      /\ f.not_interested = e.not_interested
  BY DEF acktivity_after_stop, schedule_acktivity_timer, WellFormed, Endpoint
<1> HIDE DEF f, g
<1>4. WellFormed(g) /\ Plain(e, g)
  BY <1>1, SameQueues
<1>5. WellFormed(f) /\ Plain(e, f)
  BY <1>1, <1>2, <1>4, ScheduleAcktivity, PlainTransitive
<1>6. /\ f.pending = e.pending /\ f.out = e.out /\ f.pstate = e.pstate
      /\ f.needs_response = e.needs_response /\ f.asked = e.asked
  BY <1>1, <1>2, <1>4, ScheduleAcktivity
<1> QED
  BY <1>3, <1>5, <1>6 DEF f

\* The heartbeat timer is scheduled again, whatever the state of the peer.
Armed(e) ==
  [e EXCEPT !.heartbeat = Heartbeats[e.modem], !.cancelled = @ \ {"heartbeat"}]

LEMMA ArmedSame ==
  ASSUME NEW e, WellFormed(e)
  PROVE  LET f == Armed(e)
         IN  /\ WellFormed(f) /\ Plain(e, f) /\ f.out = e.out /\ f.pending = e.pending
             /\ f.needs_response = e.needs_response /\ f.asked = e.asked
             /\ f.pstate = e.pstate /\ f.modem = e.modem /\ f.cause = e.cause
             /\ f.local_pdp = e.local_pdp /\ f.peer_pdp = e.peer_pdp
             /\ f.not_interested = e.not_interested /\ f.heartbeats = e.heartbeats
<1> DEFINE y == Heartbeats[e.modem]
           f == [e EXCEPT !.heartbeat = y, !.cancelled = @ \ {"heartbeat"}]
<1>1. y \in BOOLEAN
  BY HeartbeatsAssumption DEF WellFormed, Endpoint
<1>2. Armed(e) = f
  BY Zenon DEF Armed
<1> HIDE DEF y
<1>3. /\ f \in Endpoint /\ f.acktivity = e.acktivity
      /\ f.out = e.out /\ f.pending = e.pending
      /\ f.needs_response = e.needs_response /\ f.asked = e.asked
      /\ f.pstate = e.pstate /\ f.modem = e.modem /\ f.cause = e.cause
      /\ f.local_pdp = e.local_pdp /\ f.peer_pdp = e.peer_pdp
      /\ f.not_interested = e.not_interested /\ f.heartbeats = e.heartbeats
  BY <1>1 DEF WellFormed, Endpoint
<1> HIDE DEF f
<1>4. WellFormed(f) /\ Plain(e, f)
  BY <1>3, SameQueues
<1> QED
  BY <1>2, <1>3, <1>4

\* A heartbeat is written past the queues.
LEMMA HandleHeartbeatTimeout ==
  ASSUME NEW e, WellFormed(e)
  PROVE  WellFormed(handle_heartbeat_timeout(e))
           /\ Plain(e, handle_heartbeat_timeout(e))
<1>1. LET m == Msg("Heartbeat", Session, "none")
      IN  m \in Message /\ m.type = "Heartbeat"
  BY DestsAssumption
  DEF Msg, Message, Queues, Statuses, MessageTypes, Unacknowledged, DestinationTypes
<1>2. WellFormed(Armed(e)) /\ Plain(e, Armed(e))
  BY ArmedSame
<1>3. handle_heartbeat_timeout(e) \in
        {Armed(e), send_session_message(Armed(e), Msg("Heartbeat", Session, "none"))}
  BY ZenonT(60) DEF handle_heartbeat_timeout, Armed
<1>4. LET f == send_session_message(Armed(e), Msg("Heartbeat", Session, "none"))
      IN  WellFormed(f) /\ Plain(Armed(e), f)
  BY <1>1, <1>2, SendMessage DEF Plain
<1> QED
  BY <1>2, <1>3, <1>4, PlainTransitive

-----------------------------------------------------------------------------
(* The handshake, message by message.                                      *)

\* The first request of an empty queue is written at once.
LEMMA SendFirst ==
  ASSUME NEW e, WellFormed(e), NEW q \in Queues, q \notin e.not_interested,
         e.pending[q] = <<>>, NEW t \in Requests
  PROVE  LET f == send_message_expecting_response(e, q, t)
         IN  /\ f.out = Append(e.out, Msg(t, q, "none"))
             /\ f.pending = [e.pending EXCEPT ![q] = <<[type |-> t, tries |-> 1]>>]
             /\ f.pstate = e.pstate /\ f.modem = e.modem
             /\ f.acktivity = e.acktivity /\ f.heartbeat = e.heartbeat
             /\ f.heartbeats = e.heartbeats
             /\ f.peer_pdp = e.peer_pdp /\ f.asked = e.asked
             /\ f.needs_response = e.needs_response
<1> DEFINE x == [type |-> t, tries |-> 0]
           g == [e EXCEPT !.pending[q] = Append(@, x)]
           f == send_message_expecting_response(e, q, t)
<1>1. e \in Endpoint /\ e.pending \in [Queues -> Seq(Entry)] /\ e.out \in Seq(Message)
  BY DEF WellFormed, Endpoint
<1>2. g.pending = [e.pending EXCEPT ![q] = <<x>>]
  BY <1>1 DEF Endpoint
<1>3. /\ g.out = e.out /\ g.pstate = e.pstate /\ g.modem = e.modem
      /\ g.acktivity = e.acktivity /\ g.heartbeat = e.heartbeat
      /\ g.heartbeats = e.heartbeats
      /\ g.peer_pdp = e.peer_pdp /\ g.asked = e.asked
      /\ g.needs_response = e.needs_response
  BY <1>1 DEF Endpoint
<1>3a. g \in Endpoint
  <2>1. x \in Entry
    BY SendTriesAssumption DEF Entry
  <2> HIDE DEF x
  <2>2. [e.pending EXCEPT ![q] = Append(@, x)] \in [Queues -> Seq(Entry)]
    BY <1>1, <2>1
  <2> QED
    BY <1>1, <2>2 DEF Endpoint
<1>4. f = transmit_head(g, q)
  BY ZenonT(60) DEF send_message_expecting_response
<1>5. Head(g.pending[q]) = x /\ Tail(g.pending[q]) = <<>>
  BY <1>1, <1>2
<1> DEFINE y == [type |-> t, tries |-> 1]
<1>6. [x EXCEPT !.tries = x.tries + 1] = y /\ x.type = t
  OBVIOUS
<1> HIDE DEF x, y
<1>7. transmit_head(g, q) =
        [[g EXCEPT !.out = Append(@, Msg(t, q, "none"))] EXCEPT
           !.pending[q] = <<y>> \o <<>>]
  BY <1>1, <1>2, <1>5, <1>6 DEF transmit_head, send_session_message, Endpoint
<1>8. <<y>> \o <<>> = <<y>>
  OBVIOUS
<1> DEFINE h == [g EXCEPT !.out = Append(@, Msg(t, q, "none"))]
           k == [h EXCEPT !.pending[q] = <<y>>]
<1>9. f = k
  BY <1>4, <1>7, <1>8
<1> HIDE DEF g
<1>10. /\ h.pending = g.pending /\ h.out = Append(g.out, Msg(t, q, "none"))
       /\ h.pstate = g.pstate /\ h.modem = g.modem
       /\ h.acktivity = g.acktivity /\ h.heartbeat = g.heartbeat
       /\ h.heartbeats = g.heartbeats
       /\ h.peer_pdp = g.peer_pdp /\ h.asked = g.asked
       /\ h.needs_response = g.needs_response /\ k.needs_response = h.needs_response
       /\ k.pending = [h.pending EXCEPT ![q] = <<y>>] /\ k.out = h.out
       /\ k.pstate = h.pstate /\ k.modem = h.modem
       /\ k.acktivity = h.acktivity /\ k.heartbeat = h.heartbeat
       /\ k.heartbeats = h.heartbeats
       /\ k.peer_pdp = h.peer_pdp /\ k.asked = h.asked
  BY <1>3a DEF Endpoint
<1> HIDE DEF h, k, f
<1>11. [h.pending EXCEPT ![q] = <<y>>] = [e.pending EXCEPT ![q] = <<y>>]
  BY <1>1, <1>2, <1>10
<1> QED
  BY <1>3, <1>9, <1>10, <1>11 DEF f, y

\* terminate ends in terminating, and writes Session_Termination at once if
\* nothing of the session is pending.
LEMMA TerminateEnds ==
  ASSUME NEW e, WellFormed(e), NEW why \in Causes
  PROVE  /\ terminate(e, why).pstate = "terminating"
         /\ e.pstate # "terminating" /\ e.pending[Session] = <<>> =>
              terminate(e, why).out =
                Append(e.out, Msg("Session_Termination", Session, "none"))
<1> DEFINE f == [stop_peer(e) EXCEPT !.cause = why]
           g == send_message_expecting_response(f, Session, "Session_Termination")
<1>1. /\ WellFormed(f) /\ f.pstate = "terminating" /\ f.pending = e.pending
      /\ f.out = e.out /\ f.not_interested = e.not_interested
  BY DEF stop_peer, WellFormed, Endpoint, PeerStates
<1> HIDE DEF f
<1>2. /\ Session \in Queues /\ Session \notin f.not_interested
      /\ "Session_Termination" \in Requests
      /\ "Session_Termination" \notin DestinationTypes
  BY <1>1, DestsAssumption, RequestNames
  DEF Queues, WellFormed, Endpoint, DestinationTypes
<1>3. e.pstate # "terminating" => terminate(e, why) = g
  BY ZenonT(60) DEF terminate, f
<1>4. e.pstate = "terminating" => terminate(e, why) = e
  BY ZenonT(60) DEF terminate
<1>5. ASSUME f.pending[Session] = <<>>
      PROVE  /\ g.out = Append(f.out, Msg("Session_Termination", Session, "none"))
             /\ g.pending = [f.pending EXCEPT ![Session] =
                               <<[type |-> "Session_Termination", tries |-> 1]>>]
             /\ g.pstate = f.pstate
  BY <1>1, <1>2, <1>5, SendFirst
<1>6. g.pstate = "terminating"
  <2>2. g \in {f, [f EXCEPT !.pending[Session] =
                           Append(@, [type |-> "Session_Termination", tries |-> 0])]}
          \/ f.pending[Session] = <<>>
    BY ZenonT(60) DEF send_message_expecting_response
  <2>3. CASE f.pending[Session] = <<>>
    BY <1>1, <1>5, <2>3
  <2>4. CASE f.pending[Session] # <<>>
    BY <1>1, <2>2, <2>4 DEF WellFormed, Endpoint
  <2> QED
    BY <2>3, <2>4
<1> QED
  BY <1>1, <1>3, <1>4, <1>5, <1>6

\* What Peer::start_peer does to a new peer.
LEMMA StartPeerEffect ==
  ASSUME NEW e, WellFormed(e), e.pstate = "connecting", TimersRight(e),
         InitAtHead(e), e.pending[Session] = <<>>
  PROVE  LET f == start_peer(e)
         IN  /\ f.pstate = "connected" /\ f.modem = e.modem
             /\ TimersRight(f) /\ InitAtHead(f)
             /\ f.heartbeats = e.heartbeats
             /\ f.peer_pdp = e.peer_pdp /\ f.asked = e.asked
             /\ \A d \in Dests : f.pending[d] = e.pending[d]
             /\ e.modem => f.out = e.out /\ f.pending = e.pending
             /\ ~e.modem =>
                  f.out = Append(e.out, Msg("Session_Initialization", Session, "none"))
<1> DEFINE g == [e EXCEPT !.pstate = "connected", !.acktivity = TRUE]
           h == send_message_expecting_response(g, Session, "Session_Initialization")
<1>1. /\ WellFormed(g) /\ g.pstate = "connected" /\ g.modem = e.modem
      /\ g.acktivity = TRUE /\ g.heartbeat = e.heartbeat /\ g.heartbeats = e.heartbeats
      /\ g.peer_pdp = e.peer_pdp /\ g.asked = e.asked /\ g.pending = e.pending
      /\ g.out = e.out /\ g.not_interested = e.not_interested
  BY DEF WellFormed, Endpoint, PeerStates
<1>2. start_peer(e) = IF e.modem THEN g ELSE h
  BY ZenonT(60) DEF start_peer
<1> HIDE DEF g
<1>3. /\ Session \in Queues /\ Session \notin g.not_interested
      /\ "Session_Initialization" \in Requests
      /\ Dests \subseteq Queues /\ Session \notin Dests
      /\ e.pending \in [Queues -> Seq(Entry)]
  BY <1>1, DestsAssumption, RequestNames DEF Queues, WellFormed, Endpoint
<1> DEFINE x == [type |-> "Session_Initialization", tries |-> 1]
<1>4. /\ h.out = Append(e.out, Msg("Session_Initialization", Session, "none"))
      /\ h.pending = [e.pending EXCEPT ![Session] = <<x>>]
      /\ h.pstate = "connected" /\ h.modem = e.modem
      /\ h.acktivity = TRUE /\ h.heartbeat = e.heartbeat
      /\ h.heartbeats = e.heartbeats
      /\ h.peer_pdp = e.peer_pdp /\ h.asked = e.asked
  BY <1>1, <1>3, SendFirst
<1> HIDE DEF h
<1>5. TimersRight(g) /\ TimersRight(h)
  BY <1>1, <1>4 DEF TimersRight
<1>6. InitAtHead(g)
  BY <1>1 DEF InitAtHead
<1>7. InitAtHead(h)
  <2>1. InitFirst(<<x>>)
    BY DEF InitFirst
  <2> HIDE DEF x
  <2> QED
    BY <1>3, <1>4, <2>1 DEF InitAtHead
<1>8. \A d \in Dests : h.pending[d] = e.pending[d]
  BY <1>3, <1>4
<1> QED
  BY <1>1, <1>2, <1>4, <1>5, <1>6, <1>7, <1>8

\* Only the first message is Session_Initialization_Response.
ResponseFirst(s) ==
  \A i \in DOMAIN s : i > 1 => s[i].type # "Session_Initialization_Response"

\* The session came up or was given up, with the timers that go with it.
Decided(f) ==
  /\ f.pstate \in {"in_session", "terminating"}
  /\ TimersRight(f) /\ InitAtHead(f) /\ InitFree(f.out)

\* Giving up a handshake.
LEMMA GivesUp ==
  ASSUME NEW e, WellFormed(e), InitAtHead(e), TimersRight(e), e.out = <<>>,
         NEW f, Plain(e, f), f.pstate = "terminating"
  PROVE  /\ Decided(f) /\ f.modem = e.modem /\ NoInitResponse(f.out)
         /\ Opened(e) => Opened(f)
<1>1. InitFree(e.out) /\ NoInitResponse(e.out)
  BY DEF InitFree, NoInitResponse
<1> QED
  BY <1>1 DEF Plain, Tame, Calm, Decided

\* A modem in the handshake answers Session_Initialization, unless it
\* suppresses responses: with the response, first of all it writes, or with
\* Session_Termination.
LEMMA ModemDecides ==
  ASSUME NEW e, WellFormed(e), e.modem, e.pstate = "connected", InitAtHead(e),
         Opened(e), TimersRight(e), e.out = <<>>, e.pending[Session] = <<>>,
         NEW m \in Message, m.type = "Session_Initialization",
         NEW c \in Inputs, c.send
  PROVE  LET f == handle_session_receive(e, m, c)
         IN  /\ WellFormed(f) /\ Decided(f) /\ f.modem = e.modem /\ Opened(f)
             /\ f.out # <<>> /\ ResponseFirst(f.out)
             /\ f.out[1].type \in {"Session_Initialization_Response",
                                   "Session_Termination"}
<1> DEFINE f == handle_session_receive(e, m, c)
           r == Msg("Session_Initialization_Response", Session, add_status("Success"))
           g == send_simple_response(e, "Session_Initialization_Response",
                                     "Success", Session, c.send)
<1>1. f = handle_peer_signal(e, m, c)
  BY DEF handle_session_receive
<1>2. \/ \E why \in Causes : f = terminate(e, why)
      \/ f = session_up(g)
  <2>1. CASE ~c.valid \/ ~sender_ok(e, m) \/ ~status_ok(m)
    BY <1>1, <2>1 DEF handle_peer_signal, Causes
  <2>2. CASE c.valid /\ sender_ok(e, m) /\ status_ok(m) /\ status_code_failure(m)
    BY <1>1, <2>2 DEF handle_peer_signal, status_code_failure, TerminateStatuses, Causes
  <2>3. CASE c.valid /\ sender_ok(e, m) /\ status_ok(m) /\ ~status_code_failure(m)
    <3>1. f = handle_peer_initialization(e, c)
      BY <1>1, <2>3 DEF handle_peer_signal
    <3>2. handle_peer_initialization(e, c) \in
            {terminate(e, "Inconsistent_Data"), session_up(g)}
      BY ZenonT(60) DEF handle_peer_initialization
    <3> QED
      BY <3>1, <3>2 DEF Causes
  <2> QED
    BY <2>1, <2>2, <2>3
<1>3. ASSUME NEW why \in Causes, f = terminate(e, why)
      PROVE  /\ WellFormed(f) /\ Decided(f) /\ f.modem = e.modem /\ Opened(f)
             /\ f.out # <<>> /\ ResponseFirst(f.out)
             /\ f.out[1].type = "Session_Termination"
  <2> HIDE DEF f
  <2>1. /\ WellFormed(f) /\ Plain(e, f) /\ f.pstate = "terminating"
        /\ f.out = Append(e.out, Msg("Session_Termination", Session, "none"))
    BY <1>3, Terminate, TerminateEnds
  <2>2. f.out = <<Msg("Session_Termination", Session, "none")>>
    BY <2>1
  <2>3. Decided(f) /\ f.modem = e.modem /\ Opened(f)
    BY <2>1, GivesUp
  <2>4. /\ f.out # <<>> /\ ResponseFirst(f.out)
        /\ f.out[1].type = "Session_Termination"
    BY <2>2 DEF ResponseFirst, Msg
  <2> QED
    BY <2>1, <2>3, <2>4
<1>4. ASSUME f = session_up(g)
      PROVE  /\ WellFormed(f) /\ Decided(f) /\ f.modem = e.modem /\ Opened(f)
             /\ f.out # <<>> /\ ResponseFirst(f.out)
             /\ f.out[1].type = "Session_Initialization_Response"
  <2>1. /\ WellFormed(g) /\ Calm(e, g)
    BY SendSimpleResponse, DestsAssumption
    DEF Responses, Statuses, Queues, DestinationTypes, Inputs
  <2>2. g = send_session_message(e, r)
    BY DEF send_simple_response
  <2>3. /\ g.modem = e.modem /\ g.out = Append(e.out, r) /\ g.acktivity = e.acktivity
        /\ g.pending = e.pending
    BY <2>2 DEF send_session_message, WellFormed, Endpoint
  <2>4. g.out = <<r>> /\ r.type = "Session_Initialization_Response"
    <3>1. r.type = "Session_Initialization_Response"
      BY DEF Msg
    <3> HIDE DEF g, r
    <3> QED
      BY <2>3, <3>1
  <2>5. InitAtHead(g) /\ Opened(g)
    BY <2>3 DEF InitAtHead, Opened
  <2> HIDE DEF f, g, r
  <2>6. /\ WellFormed(f) /\ Completed(g, f) /\ InitAtHead(f) /\ Opened(f)
        /\ TimersRight(f) /\ WritesMore(g, f)
    BY <1>4, <2>1, <2>5, SessionUp
  <2>7. PICK t \in Seq(Message) : f.out = <<r>> \o t /\ NoInitResponse(t) /\ InitFree(t)
    BY <2>4, <2>6 DEF WritesMore
  <2>8. /\ f.out # <<>> /\ ResponseFirst(f.out) /\ InitFree(f.out)
        /\ f.out[1].type = "Session_Initialization_Response"
    BY <2>4, <2>7 DEF ResponseFirst, InitFree, NoInitResponse
  <2> QED
    BY <2>3, <2>6, <2>8 DEF Completed, Decided
<1> QED
  BY <1>2, <1>3, <1>4

\* A response that answers the head takes it off its queue and stops nothing.
LEMMA ResponseTaken ==
  ASSUME NEW e, WellFormed(e), InitAtHead(e), NEW m \in Message, response_ok(e, m)
  PROVE  LET f == handle_response(e, m)
         IN  /\ f.acktivity = e.acktivity
             /\ (\A q \in Queues \ {m.dest} : e.pending[q] = <<>>) => Opened(f)
<1> DEFINE q == m.dest
           p == [e.pending EXCEPT ![q] = Tail(@)]
           g == [e EXCEPT !.pending[m.dest] = Tail(@)]
           f == handle_response(e, m)
<1>1. q \in Queues /\ e.pending \in [Queues -> Seq(Entry)] /\ e.pending[q] # <<>>
  BY DEF Message, WellFormed, Endpoint, response_ok
<1>2. Disciplined(e.pending[q], q) /\ InitFirst(e.pending[q])
  BY <1>1 DEF WellFormed, InitAtHead
<1>3. Head(e.pending[q]) \in Entry
  BY <1>1
<1>4. /\ Tail(e.pending[q]) \in Seq(Entry) /\ InitFree(Tail(e.pending[q]))
      /\ InitFirst(Tail(e.pending[q])) /\ Disciplined(Tail(e.pending[q]), q)
      /\ Tail(e.pending[q]) # <<>> =>
           /\ Head(Tail(e.pending[q])).tries = 0
           /\ Head(Tail(e.pending[q])).type # "Session_Initialization"
  <2> HIDE DEF q
  <2> QED
    BY <1>1, <1>2, <1>3, TailDisciplined, QueueInit
<1>5. /\ p \in [Queues -> Seq(Entry)] /\ p[q] = Tail(e.pending[q])
      /\ \A r \in Queues : Disciplined(p[r], r) /\ InitFirst(p[r])
      /\ \A r \in Queues \ {q} : p[r] = e.pending[r]
  BY <1>1, <1>4 DEF WellFormed, InitAtHead
<1>6. g \in Endpoint /\ g.pending = p /\ g.acktivity = e.acktivity
  BY <1>1, <1>5 DEF WellFormed, Endpoint
<1>7. f = IF g.pending[q] = <<>> THEN g ELSE send_queued(g, q)
  BY ZenonT(60) DEF handle_response
<1> HIDE DEF g, p, q, f
<1>8. WellFormed(g) /\ InitAtHead(g)
  BY <1>5, <1>6 DEF WellFormed, InitAtHead
<1>9. g.pending[q] # <<>> =>
        /\ Plain(g, send_queued(g, q))
        /\ send_queued(g, q).acktivity = g.acktivity
  <2>1. g.pending[q] # <<>> => Plain(g, send_queued(g, q))
    <3>1. g.pending[q] # <<>> =>
            /\ Head(g.pending[q]).tries < SendTries
            /\ Head(g.pending[q]).type # "Session_Initialization"
      <4>1. g.pending[q] = Tail(e.pending[q])
        BY <1>5, <1>6
      <4>2. 0 < SendTries
        BY SendTriesAssumption
      <4> QED
        BY <1>4, <4>1, <4>2
    <3> QED
      BY <1>1, <1>8, <3>1, SendQueued
  <2>2. send_queued(g, q).acktivity = g.acktivity
    <3>1. transmit_head(g, q).acktivity = g.acktivity
      BY <1>6 DEF transmit_head, send_session_message, Endpoint
    <3> QED
      BY <3>1 DEF send_queued
  <2> QED
    BY <2>1, <2>2
<1>10. (\A r \in Queues \ {q} : e.pending[r] = <<>>) => Opened(g)
  <2>1. InitFree(<<>>)
    BY DEF InitFree
  <2> QED
    BY <1>4, <1>5, <1>6, <2>1 DEF Opened
<1> QED
  BY <1>6, <1>7, <1>8, <1>9, <1>10 DEF Plain, Calm, f, q

\* A router in the handshake leaves it with the first message it reads, and
\* once in session has no Session_Initialization to repeat.
LEMMA RouterDecides ==
  ASSUME NEW e, WellFormed(e), ~e.modem, e.pstate = "connected", InitAtHead(e),
         TimersRight(e), e.out = <<>>, \A d \in Dests : e.pending[d] = <<>>,
         NEW m \in Message, NEW c \in Inputs,
         m.type \in {"Session_Initialization_Response", "EOF", "Session_Termination"}
  PROVE  LET f == handle_session_receive(e, m, c)
         IN  /\ WellFormed(f) /\ Decided(f) /\ f.modem = e.modem
             /\ NoInitResponse(f.out)
             /\ f.pstate = "in_session" => Opened(f)
<1> DEFINE f == handle_session_receive(e, m, c)
           g == handle_response(e, m)
           Claim(x) == /\ WellFormed(x) /\ Decided(x) /\ x.modem = e.modem
                       /\ NoInitResponse(x.out)
                       /\ x.pstate = "in_session" => Opened(x)
<1> SUFFICES Claim(f)
  OBVIOUS
<1>1. \/ \E why \in Causes : f = terminate(e, why)
      \/ f = stop_peer(e)
      \/ f = handle_peer_termination(e, c)
      \/ response_ok(e, m) /\ f = session_up(g)
  <2>1. CASE m.type = "EOF"
    BY <2>1 DEF handle_session_receive
  <2>2. CASE m.type # "EOF" /\ (~c.valid \/ ~sender_ok(e, m) \/ ~status_ok(m))
    BY <2>2 DEF handle_session_receive, handle_peer_signal, Causes
  <2>3. CASE m.type # "EOF" /\ c.valid /\ sender_ok(e, m) /\ status_ok(m) /\ status_code_failure(m)
    BY <2>3 DEF handle_session_receive, handle_peer_signal, status_code_failure,
                TerminateStatuses, Causes
  <2>4. CASE /\ m.type = "Session_Termination"
             /\ c.valid /\ sender_ok(e, m) /\ status_ok(m) /\ ~status_code_failure(m)
    BY <2>4 DEF handle_session_receive, handle_peer_signal
  <2>5. CASE /\ m.type = "Session_Initialization_Response"
             /\ c.valid /\ sender_ok(e, m) /\ status_ok(m) /\ ~status_code_failure(m)
    <3>1. f = handle_peer_initialization_response(e, m)
      BY <2>5 DEF handle_session_receive, handle_peer_signal
    <3>2. CASE response_ok(e, m)
      BY <3>1, <3>2 DEF handle_peer_initialization_response
    <3>3. CASE ~response_ok(e, m)
      BY <3>1, <3>3 DEF handle_peer_initialization_response, handle_response, Causes
    <3> QED
      BY <3>2, <3>3
  <2> QED
    BY <2>1, <2>2, <2>3, <2>4, <2>5
<1> HIDE DEF f
<1>2. ASSUME WellFormed(f), Plain(e, f), f.pstate = "terminating"
      PROVE  Claim(f)
  BY <1>2, GivesUp
<1>3. CASE \E why \in Causes : f = terminate(e, why)
  BY <1>2, <1>3, Terminate, TerminateEnds
<1>4. CASE f = stop_peer(e)
  <2>1. f.pstate = "terminating"
    BY <1>4 DEF stop_peer, WellFormed, Endpoint
  <2> QED
    BY <1>2, <1>4, <2>1, StopPeer
<1>5. CASE f = handle_peer_termination(e, c)
  <2> DEFINE h == send_simple_response(e, "Session_Termination_Response",
                                       "none", Session, c.send)
  <2>1. WellFormed(h)
    BY SendSimpleResponse, DestsAssumption
    DEF Responses, Statuses, Queues, DestinationTypes, Inputs
  <2>2. handle_peer_termination(e, c) = stop_peer(h)
    BY ZenonT(60) DEF handle_peer_termination
  <2> HIDE DEF h
  <2>3. f.pstate = "terminating"
    BY <1>5, <2>1, <2>2 DEF stop_peer, WellFormed, Endpoint
  <2> QED
    BY <1>2, <1>5, <2>3, HandlePeerTermination
<1>6. CASE response_ok(e, m) /\ f = session_up(g)
  <2>1. WellFormed(g) /\ Plain(e, g)
    BY HandleResponse
  <2>2. m.dest = Session
    BY <1>6 DEF response_ok, Message, Queues
  <2>3. \A q \in Queues \ {m.dest} : e.pending[q] = <<>>
    BY <2>2 DEF Queues
  <2>4. g.acktivity = e.acktivity /\ Opened(g)
    BY <1>6, <2>3, ResponseTaken
  <2>5. InitFree(e.out) /\ NoInitResponse(e.out)
    BY DEF InitFree, NoInitResponse
  <2> HIDE DEF g
  <2>6. /\ InitAtHead(g) /\ InitFree(g.out) /\ NoInitResponse(g.out)
        /\ g.modem = e.modem
    BY <2>1, <2>5 DEF Plain, Tame, Calm
  <2>7. /\ WellFormed(f) /\ Completed(g, f) /\ InitAtHead(f) /\ Opened(f)
        /\ TimersRight(f) /\ WritesMore(g, f)
    BY <1>6, <2>1, <2>4, <2>6, SessionUp
  <2>8. g.out \in Seq(Message)
    BY <2>1 DEF WellFormed, Endpoint
  <2>9. InitFree(f.out) /\ NoInitResponse(f.out)
    BY <2>6, <2>7, <2>8, ConcatNoInitResponse DEF WritesMore
  <2> QED
    BY <2>6, <2>7, <2>9 DEF Completed, Decided
<1> QED
  BY <1>1, <1>3, <1>4, <1>5, <1>6

-----------------------------------------------------------------------------
(* Transactions.  A request is on its way on the stream of the peer, owed  *)
(* by the peer's client, or answered by a response on the way back.        *)

About(m, q, T) == m.dest = q /\ m.type \in T

\* No message of a type in T about q is in s; at most one is, of a type in X.
Quiet(s, q, T) == \A i \in DOMAIN s : ~About(s[i], q, T)

Only(s, q, T, X) ==
  \A i \in DOMAIN s : About(s[i], q, T) =>
    s[i].type \in X /\ \A j \in DOMAIN s : About(s[j], q, T) => j = i

\* The type of the request that queue p waits for.
Expected(p) == IF p = <<>> THEN {} ELSE {Head(p).type}

\* The requests about q that the client of e has still to answer.
Owed(e, q) ==
  {t \in {"Destination_Announce", "Link_Characteristics_Request"} :
     \/ t = "Destination_Announce" /\ q \in e.needs_response
     \/ t = "Link_Characteristics_Request" /\ q \in e.asked}

\* From e to f, queue q still waits for the same request and nothing about it
\* is written; or, where nothing is on its way any more (free), what is
\* written is the request that the queue waits for now.
Asked(e, f, q, free) ==
  \/ /\ Expected(f.pending[q]) = Expected(e.pending[q])
     /\ Quiet(f.out, q, Requests)
  \/ /\ free \/ Expected(e.pending[q]) = {}
     /\ Only(f.out, q, Requests, Expected(f.pending[q]))

\* Of the requests in D about q, f has answered one, or still owes them.
Answered(f, q, D) ==
  /\ Owed(f, q) \subseteq D
  /\ \/ Quiet(f.out, q, Responses)
     \/ \E t \in D : t \notin Owed(f, q) /\ Only(f.out, q, Responses, {ResponseTo[t]})

\* From e to f an endpoint keeps to the transaction model on every queue: the
\* queues in F are free, and while the connection is up (on), D holds the
\* requests that e has to answer.
Kept(e, f, F, D, on) ==
  \A q \in Queues : /\ Asked(e, f, q, q \in F)
                    /\ on => Answered(f, q, D[q])

\* What the messages of a stream are about, when it grows and is read.
LEMMA OnlyFacts ==
  ASSUME NEW q, NEW T, NEW X, NEW s \in Seq(Message), NEW t \in Seq(Message)
  PROVE  /\ Quiet(<<>>, q, T)
         /\ Quiet(s, q, T) => Only(s, q, T, X)
         /\ Only(s, q, T, {}) => Quiet(s, q, T)
         /\ Quiet(s, q, T) /\ Quiet(t, q, T) => Quiet(s \o t, q, T)
         /\ Quiet(s, q, T) /\ Only(t, q, T, X) => Only(s \o t, q, T, X)
         /\ Only(s, q, T, X) /\ Quiet(t, q, T) => Only(s \o t, q, T, X)
<1>1. Quiet(<<>>, q, T) /\ (Quiet(s, q, T) => Only(s, q, T, X))
  BY DEF Quiet, Only
<1>2. Only(s, q, T, {}) => Quiet(s, q, T)
  BY DEF Quiet, Only
<1>3. /\ s \o t \in Seq(Message) /\ Len(s) \in Nat /\ Len(t) \in Nat
      /\ DOMAIN s = 1..Len(s) /\ DOMAIN t = 1..Len(t)
      /\ DOMAIN (s \o t) = 1..(Len(s) + Len(t))
      /\ \A i \in DOMAIN (s \o t) :
           \/ i \in DOMAIN s /\ (s \o t)[i] = s[i]
           \/ i > Len(s) /\ i - Len(s) \in DOMAIN t /\ (s \o t)[i] = t[i - Len(s)]
  OBVIOUS
<1>4. Quiet(s, q, T) /\ Quiet(t, q, T) => Quiet(s \o t, q, T)
  BY <1>3 DEF Quiet
<1>5. ASSUME Quiet(s, q, T), Only(t, q, T, X) PROVE Only(s \o t, q, T, X)
  <2> SUFFICES ASSUME NEW i \in DOMAIN (s \o t), About((s \o t)[i], q, T)
               PROVE  /\ (s \o t)[i].type \in X
                      /\ \A j \in DOMAIN (s \o t) : About((s \o t)[j], q, T) => j = i
    BY DEF Only
  <2>1. \A j \in DOMAIN (s \o t) : About((s \o t)[j], q, T) =>
          j \in Nat /\ j - Len(s) \in DOMAIN t /\ (s \o t)[j] = t[j - Len(s)]
    BY <1>3, <1>5 DEF Quiet
  <2>2. \A j \in DOMAIN (s \o t) : About((s \o t)[j], q, T) => j - Len(s) = i - Len(s)
    BY <1>5, <2>1 DEF Only
  <2> QED
    BY <1>3, <1>5, <2>1, <2>2 DEF Only
<1>6. ASSUME Only(s, q, T, X), Quiet(t, q, T) PROVE Only(s \o t, q, T, X)
  <2>1. \A j \in DOMAIN (s \o t) : About((s \o t)[j], q, T) =>
          j \in DOMAIN s /\ (s \o t)[j] = s[j]
    BY <1>3, <1>6 DEF Quiet
  <2> QED
    BY <1>6, <2>1 DEF Only
<1> QED
  BY <1>1, <1>2, <1>4, <1>5, <1>6

\* Reading the first message of a stream.
LEMMA OnlyTail ==
  ASSUME NEW q, NEW T, NEW X, NEW s \in Seq(Message), s # <<>>
  PROVE  /\ Quiet(s, q, T) => Quiet(Tail(s), q, T)
         /\ Only(s, q, T, X) =>
              /\ Only(Tail(s), q, T, X)
              /\ About(Head(s), q, T) => Head(s).type \in X /\ Quiet(Tail(s), q, T)
<1>1. /\ 1 \in DOMAIN s /\ Head(s) = s[1]
      /\ \A i \in DOMAIN Tail(s) : /\ i \in Nat /\ i >= 1
                                   /\ i + 1 \in DOMAIN s /\ Tail(s)[i] = s[i + 1]
  OBVIOUS
<1>2. Quiet(s, q, T) => Quiet(Tail(s), q, T)
  BY <1>1 DEF Quiet
<1>3. ASSUME Only(s, q, T, X) PROVE Only(Tail(s), q, T, X)
  BY <1>1, <1>3 DEF Only
<1>4. ASSUME Only(s, q, T, X), About(Head(s), q, T)
      PROVE  Head(s).type \in X /\ Quiet(Tail(s), q, T)
  BY <1>1, <1>4 DEF Only, Quiet
<1> QED
  BY <1>2, <1>3, <1>4

\* Writing one message.
LEMMA OnlyAppend ==
  ASSUME NEW q, NEW T, NEW X, NEW s \in Seq(Message), NEW m \in Message
  PROVE  /\ ~About(m, q, T) =>
              /\ Quiet(s, q, T) => Quiet(Append(s, m), q, T)
              /\ Only(s, q, T, X) => Only(Append(s, m), q, T, X)
         /\ Quiet(s, q, T) /\ m.type \in X => Only(Append(s, m), q, T, X)
<1>1. <<m>> \in Seq(Message) /\ Append(s, m) = s \o <<m>>
  OBVIOUS
<1>2. ~About(m, q, T) => Quiet(<<m>>, q, T)
  BY DEF Quiet
<1>3. m.type \in X => Only(<<m>>, q, T, X)
  BY DEF Only
<1> QED
  BY <1>1, <1>2, <1>3, OnlyFacts

\* An endpoint that has written nothing and changed no queue.
LEMMA KeptStart ==
  ASSUME NEW e, NEW f, f.out = <<>>, f.pending = e.pending, NEW F, NEW D, NEW on,
         on => \A q \in Queues : Owed(f, q) \subseteq D[q]
  PROVE  Kept(e, f, F, D, on)
  BY DEF Kept, Asked, Answered, Quiet

\* A change that touches neither the queues nor the output, and adds nothing
\* to what is owed.
LEMMA KeptSame ==
  ASSUME NEW e, NEW f, NEW g, NEW F, NEW D, NEW on, Kept(e, f, F, D, on),
         g.pending = f.pending, g.out = f.out,
         g.needs_response \subseteq f.needs_response, g.asked \subseteq f.asked
  PROVE  Kept(e, g, F, D, on)
<1>1. \A q : Owed(g, q) \subseteq Owed(f, q)
  BY DEF Owed
<1>2. \A q \in Queues : Asked(e, f, q, q \in F) => Asked(e, g, q, q \in F)
  BY DEF Asked
<1>3. \A q \in Queues : Answered(f, q, D[q]) => Answered(g, q, D[q])
  BY <1>1 DEF Answered
<1> QED
  BY <1>2, <1>3 DEF Kept

\* Writing what is not about queue q.
LEMMA AskedMore ==
  ASSUME NEW e, NEW f, NEW g, NEW q, NEW free, NEW t \in Seq(Message),
         f.out \in Seq(Message), g.out = f.out \o t, Quiet(t, q, Requests),
         Expected(g.pending[q]) = Expected(f.pending[q]), Asked(e, f, q, free)
  PROVE  Asked(e, g, q, free)
<1> DEFINE X == Expected(f.pending[q])
<1> HIDE DEF X
<1>1. /\ Quiet(f.out, q, Requests) => Quiet(g.out, q, Requests)
      /\ Only(f.out, q, Requests, X) => Only(g.out, q, Requests, X)
  BY OnlyFacts
<1> QED
  BY <1>1 DEF Asked, X

LEMMA AnsweredMore ==
  ASSUME NEW f, NEW g, NEW q, NEW D, NEW t \in Seq(Message),
         f.out \in Seq(Message), g.out = f.out \o t, Quiet(t, q, Responses),
         g.needs_response \subseteq f.needs_response, g.asked \subseteq f.asked,
         Answered(f, q, D)
  PROVE  Answered(g, q, D)
<1>1. Owed(g, q) \subseteq Owed(f, q)
  BY DEF Owed
<1>2. ASSUME Quiet(f.out, q, Responses) PROVE Answered(g, q, D)
  <2>1. Quiet(g.out, q, Responses)
    BY <1>2, OnlyFacts
  <2> QED
    BY <1>1, <2>1 DEF Answered
<1>3. ASSUME NEW r \in D, r \notin Owed(f, q), Only(f.out, q, Responses, {ResponseTo[r]})
      PROVE  Answered(g, q, D)
  <2>1. Only(g.out, q, Responses, {ResponseTo[r]})
    BY <1>3, OnlyFacts
  <2> QED
    BY <1>1, <1>3, <2>1 DEF Answered
<1> QED
  BY <1>2, <1>3 DEF Answered

\* The output after send_session_message.
LEMMA Sends ==
  ASSUME NEW f, WellFormed(f), NEW m \in Message
  PROVE  LET g == send_session_message(f, m)
         IN  /\ g.pending = f.pending /\ g.out = f.out \o <<m>>
             /\ f.out \in Seq(Message) /\ <<m>> \in Seq(Message)
             /\ g.needs_response = f.needs_response /\ g.asked = f.asked
             /\ \A q, T : ~About(m, q, T) => Quiet(<<m>>, q, T)
<1> DEFINE g == send_session_message(f, m)
<1>1. /\ g.pending = f.pending /\ g.out = Append(f.out, m) /\ f.out \in Seq(Message)
      /\ g.needs_response = f.needs_response /\ g.asked = f.asked
  BY DEF send_session_message, WellFormed, Endpoint
<1>2. \A q, T : ~About(m, q, T) => Quiet(<<m>>, q, T)
  BY DEF Quiet
<1> HIDE DEF g
<1>3. <<m>> \in Seq(Message)
  OBVIOUS
<1>4. \A s \in Seq(Message) : Append(s, m) = s \o <<m>>
  OBVIOUS
<1> QED
  BY <1>1, <1>2, <1>3, <1>4, Zenon DEF g

\* A message that is neither a request nor a response.
LEMMA KeptOther ==
  ASSUME NEW e, NEW f, WellFormed(f), NEW m \in Message, m.type \in Unacknowledged,
         NEW F, NEW D, NEW on, Kept(e, f, F, D, on)
  PROVE  Kept(e, send_session_message(f, m), F, D, on)
<1> DEFINE g == send_session_message(f, m)
<1>1. \A q : ~About(m, q, Requests) /\ ~About(m, q, Responses)
  BY RequestNames DEF About, Unacknowledged, Responses
<1>2. /\ g.pending = f.pending /\ g.out = f.out \o <<m>>
      /\ f.out \in Seq(Message) /\ <<m>> \in Seq(Message)
      /\ g.needs_response = f.needs_response /\ g.asked = f.asked
      /\ \A q : Quiet(<<m>>, q, Requests) /\ Quiet(<<m>>, q, Responses)
  BY <1>1, Sends
<1> HIDE DEF g
<1>3. ASSUME NEW q \in Queues
      PROVE  Asked(e, g, q, q \in F) /\ (on => Answered(g, q, D[q]))
  BY <1>2, AskedMore, AnsweredMore DEF Kept
<1>4. Kept(e, g, F, D, on)
  BY <1>3 DEF Kept
<1> QED
  BY <1>4 DEF g

\* A response to the request t about d, which is in D and no longer owed.
LEMMA KeptResponse ==
  ASSUME NEW e, NEW f, WellFormed(f), f.out = <<>>, NEW d \in Queues,
         NEW t \in Requests, NEW m \in Message, m.type = ResponseTo[t], m.dest = d,
         NEW F, NEW D, NEW on, Kept(e, f, F, D, on),
         on => t \in D[d] /\ t \notin Owed(f, d)
  PROVE  Kept(e, send_session_message(f, m), F, D, on)
<1> DEFINE g == send_session_message(f, m)
<1>1. (\A q : ~About(m, q, Requests)) /\ \A q : About(m, q, Responses) => q = d
  BY RequestNames DEF About
<1>2. /\ g.pending = f.pending /\ g.out = f.out \o <<m>>
      /\ f.out \in Seq(Message) /\ <<m>> \in Seq(Message)
      /\ g.needs_response = f.needs_response /\ g.asked = f.asked
      /\ \A q : Quiet(<<m>>, q, Requests)
      /\ \A q : q # d => Quiet(<<m>>, q, Responses)
  BY <1>1, Sends
<1> HIDE DEF g
<1>3. ASSUME on PROVE Answered(g, d, D[d])
  <2>1. Only(g.out, d, Responses, {ResponseTo[t]})
    <3>1. Quiet(f.out, d, Responses) /\ Only(<<m>>, d, Responses, {ResponseTo[t]})
      BY DEF Quiet, Only
    <3> QED
      BY <1>2, <3>1, OnlyFacts
  <2>2. Owed(g, d) = Owed(f, d) /\ Owed(f, d) \subseteq D[d]
    BY <1>2, <1>3 DEF Owed, Kept, Answered
  <2> QED
    BY <1>3, <2>1, <2>2 DEF Answered
<1>4. ASSUME NEW q \in Queues
      PROVE  Asked(e, g, q, q \in F) /\ (on => Answered(g, q, D[q]))
  BY <1>2, <1>3, AskedMore, AnsweredMore DEF Kept
<1>5. Kept(e, g, F, D, on)
  BY <1>4 DEF Kept
<1> QED
  BY <1>5 DEF g

\* send_simple_response sends the response, or suppresses it.
LEMMA KeptSimpleResponse ==
  ASSUME NEW e, NEW f, WellFormed(f), f.out = <<>>, NEW d \in Queues,
         NEW t \in Requests, NEW r, r = ResponseTo[t], r \in DestinationTypes <=> d \in Dests,
         NEW s \in Statuses \cup {"Invalid_Message"}, NEW send \in BOOLEAN,
         NEW F, NEW D, NEW on, Kept(e, f, F, D, on),
         on => t \in D[d] /\ t \notin Owed(f, d)
  PROVE  Kept(e, send_simple_response(f, r, s, d, send), F, D, on)
<1> DEFINE m == Msg(r, d, add_status(s))
<1>1. m \in Message /\ m.type = r /\ m.dest = d
  BY StatusType, RequestNames DEF Msg, Message, MessageTypes
<1> HIDE DEF m
<1>2. Kept(e, send_session_message(f, m), F, D, on)
  BY <1>1, KeptResponse
<1> QED
  BY <1>2 DEF send_simple_response, m

\* send_message_expecting_response: the request waits behind another, or is
\* the one its queue waits for.
LEMMA KeptRequest ==
  ASSUME NEW e, NEW f, WellFormed(f), NEW q \in Queues, NEW t \in Requests,
         t \in DestinationTypes <=> q \in Dests,
         NEW F, NEW D, NEW on, Kept(e, f, F, D, on)
  PROVE  Kept(e, send_message_expecting_response(f, q, t), F, D, on)
<1> DEFINE g == send_message_expecting_response(f, q, t)
           x == [type |-> t, tries |-> 0]
           h == [f EXCEPT !.pending[q] = Append(@, x)]
           m == Msg(t, q, "none")
<1>1. f.pending \in [Queues -> Seq(Entry)] /\ f.out \in Seq(Message)
  BY DEF WellFormed, Endpoint
<1>2. CASE q \in f.not_interested
  BY <1>2 DEF send_message_expecting_response
<1>3. CASE q \notin f.not_interested /\ f.pending[q] # <<>>
  <2>1. g = h
    BY <1>3, ZenonT(60) DEF send_message_expecting_response
  <2>2. /\ h.out = f.out /\ h.asked = f.asked /\ h.needs_response = f.needs_response
        /\ h.pending = [f.pending EXCEPT ![q] = Append(@, x)]
    BY DEF WellFormed, Endpoint
  <2> HIDE DEF h
  <2>3. \A r \in Queues : Expected(h.pending[r]) = Expected(f.pending[r])
    <3>1. x \in Entry
      BY SendTriesAssumption DEF Entry
    <3> HIDE DEF x
    <3>2. Append(f.pending[q], x) # <<>> /\ Head(Append(f.pending[q], x)) = Head(f.pending[q])
      BY <1>1, <1>3, <3>1
    <3> QED
      BY <1>1, <1>3, <2>2, <3>2 DEF Expected
  <2>4. \A r \in Queues : Owed(h, r) = Owed(f, r)
    BY <2>2 DEF Owed
  <2>5. Kept(e, h, F, D, on)
    BY <2>2, <2>3, <2>4 DEF Kept, Asked, Answered
  <2> HIDE DEF g
  <2> QED
    BY <2>1, <2>5 DEF g
<1>4. CASE q \notin f.not_interested /\ f.pending[q] = <<>>
  <2>1. /\ g.out = Append(f.out, m)
        /\ g.pending = [f.pending EXCEPT ![q] = <<[type |-> t, tries |-> 1]>>]
        /\ g.asked = f.asked /\ g.needs_response = f.needs_response
    BY <1>4, SendFirst
  <2>2. m \in Message /\ m.type = t /\ m.dest = q
    BY DEF Msg, Message, MessageTypes, Statuses
  <2> HIDE DEF g, m
  <2>3. /\ <<m>> \in Seq(Message) /\ g.out = f.out \o <<m>>
        /\ Only(<<m>>, q, Requests, {t})
        /\ \A r, T : ~About(m, r, T) => Quiet(<<m>>, r, T)
    BY <1>1, <2>1, <2>2 DEF Only, Quiet
  <2>4. /\ \A r : ~About(m, r, Responses)
        /\ \A r : r # q => ~About(m, r, Requests)
    BY <2>2, RequestNames DEF About
  <2>5. /\ Expected(f.pending[q]) = {} /\ Expected(g.pending[q]) = {t}
        /\ \A r \in Queues : r # q => Expected(g.pending[r]) = Expected(f.pending[r])
    <3>1. LET s == <<[type |-> t, tries |-> 1]>> IN s # <<>> /\ Head(s).type = t
      OBVIOUS
    <3>2. \A r \in Queues : r # q => g.pending[r] = f.pending[r]
      BY <1>1, <2>1
    <3>3. g.pending[q] = <<[type |-> t, tries |-> 1]>>
      BY <1>1, <2>1
    <3> QED
      BY <1>4, <3>1, <3>2, <3>3 DEF Expected
  <2>6. Asked(e, g, q, q \in F)
    <3>1. Asked(e, f, q, q \in F)
      BY DEF Kept
    <3>2. /\ Quiet(f.out, q, Requests)
          /\ (q \in F) \/ Expected(e.pending[q]) = {}
      BY <1>1, <2>5, <3>1, OnlyFacts DEF Asked
    <3>3. Only(g.out, q, Requests, {t})
      BY <1>1, <2>3, <3>2, OnlyFacts
    <3> QED
      BY <2>5, <3>2, <3>3 DEF Asked
  <2>7. ASSUME NEW r \in Queues
        PROVE  Asked(e, g, r, r \in F) /\ (on => Answered(g, r, D[r]))
    <3>1. on => Answered(g, r, D[r])
      BY <1>1, <2>1, <2>3, <2>4, AnsweredMore DEF Kept
    <3>2. r # q => Asked(e, g, r, r \in F)
      BY <1>1, <2>1, <2>3, <2>4, <2>5, AskedMore DEF Kept
    <3> QED
      BY <2>6, <3>1, <3>2
  <2>8. Kept(e, g, F, D, on)
    BY <2>7 DEF Kept
  <2> QED
    BY <2>8 DEF g
<1> QED
  BY <1>2, <1>3, <1>4

\* terminate queues Session_Termination.
LEMMA KeptTerminate ==
  ASSUME NEW e, NEW f, WellFormed(f), NEW why \in Causes,
         NEW F, NEW D, NEW on, Kept(e, f, F, D, on)
  PROVE  Kept(e, terminate(f, why), F, D, on)
<1> DEFINE g == [stop_peer(f) EXCEPT !.cause = why]
<1>1. /\ WellFormed(g) /\ g.pending = f.pending /\ g.out = f.out
      /\ g.needs_response = f.needs_response /\ g.asked = f.asked
  BY DEF stop_peer, WellFormed, Endpoint, PeerStates
<1> HIDE DEF g
<1>2. Kept(e, g, F, D, on)
  BY <1>1, KeptSame
<1>3. /\ Session \in Queues /\ Session \notin Dests
      /\ "Session_Termination" \in Requests \ DestinationTypes
  BY DestsAssumption, RequestNames DEF Queues, DestinationTypes
<1>4. Kept(e, send_message_expecting_response(g, Session, "Session_Termination"), F, D, on)
  BY <1>1, <1>2, <1>3, KeptRequest
<1>5. terminate(f, why) \in
        {f, send_message_expecting_response(g, Session, "Session_Termination")}
  BY ZenonT(60) DEF terminate, g
<1> QED
  BY <1>4, <1>5

\* Giving up on a peer that does not answer.
LEMMA KeptTimedOut ==
  ASSUME NEW e, NEW f, WellFormed(f), NEW F, NEW D, NEW on, Kept(e, f, F, D, on)
  PROVE  Kept(e, timed_out(f), F, D, on)
<1> DEFINE g == [f EXCEPT !.acktivity = FALSE]
<1>1. /\ g \in Endpoint /\ g.pending = f.pending /\ g.out = f.out
      /\ g.needs_response = f.needs_response /\ g.asked = f.asked
  BY DEF WellFormed, Endpoint
<1>2. timed_out(f) = terminate(g, "Timed_Out")
  BY DEF timed_out
<1> HIDE DEF g
<1>3. WellFormed(g)
  BY <1>1 DEF WellFormed
<1>4. Kept(e, g, F, D, on)
  BY <1>1, KeptSame
<1> QED
  BY <1>2, <1>3, <1>4, KeptTerminate DEF Causes

\* Serving a queue on which nothing is under way.
LEMMA KeptQueued ==
  ASSUME NEW e, NEW f, WellFormed(f), f.out = <<>>, NEW q \in Queues,
         f.pending[q] # <<>>,
         \A r \in Queues : r # q => f.pending[r] = e.pending[r],
         NEW F, NEW D, NEW on, q \in F,
         on => \A r \in Queues : Owed(f, r) \subseteq D[r]
  PROVE  Kept(e, send_queued(f, q), F, D, on)
<1> DEFINE h == Head(f.pending[q])
           m == Msg(h.type, q, "none")
           y == [h EXCEPT !.tries = h.tries + 1]
           g == transmit_head(f, q)
           s == send_session_message(f, m)
<1>1. /\ f.pending \in [Queues -> Seq(Entry)] /\ h \in Entry
      /\ h.type \in Requests /\ Disciplined(f.pending[q], q)
  <2>1. f.pending \in [Queues -> Seq(Entry)] /\ Disciplined(f.pending[q], q)
    BY DEF WellFormed, Endpoint
  <2>2. h \in Entry
    BY <2>1
  <2> QED
    BY <2>1, <2>2 DEF Entry
<1>2. h.type \in DestinationTypes <=> q \in Dests
  BY <1>1 DEF Disciplined, RightQueue
<1>3. m \in Message /\ m.type = h.type /\ m.dest = q
  BY <1>1, <1>2 DEF Msg, Message, MessageTypes, Statuses
<1>4. y.type = h.type
  BY <1>1 DEF Entry
<1>5. /\ s.pending = f.pending /\ s.out = <<>> \o <<m>> /\ s \in Endpoint
      /\ s.needs_response = f.needs_response /\ s.asked = f.asked
  <2>1. /\ s.pending = f.pending /\ s.out = f.out \o <<m>>
        /\ s.needs_response = f.needs_response /\ s.asked = f.asked
    <3> HIDE DEF m
    <3> QED
      BY <1>3, Sends
  <2>2. WellFormed(s)
    <3> HIDE DEF m
    <3> QED
      BY <1>3, SendMessage
  <2> QED
    BY <2>1, <2>2 DEF WellFormed
<1>6. g = [s EXCEPT !.pending[q] = <<y>> \o Tail(@)]
  BY DEF transmit_head
<1> HIDE DEF s, y, m
<1>7. /\ g.pending = [f.pending EXCEPT ![q] = <<y>> \o Tail(@)] /\ g.out = <<m>>
      /\ g.needs_response = f.needs_response /\ g.asked = f.asked
  BY <1>5, <1>6 DEF Endpoint
<1> HIDE DEF g
<1>8. /\ Expected(g.pending[q]) = {h.type}
      /\ Expected(f.pending[q]) = {h.type}
      /\ \A r \in Queues : r # q => g.pending[r] = e.pending[r]
  BY <1>1, <1>4, <1>7 DEF Expected
<1>9. /\ Only(<<m>>, q, Requests, {h.type})
      /\ \A r \in Queues : r # q => Quiet(<<m>>, r, Requests)
      /\ \A r \in Queues : Quiet(<<m>>, r, Responses)
  BY <1>1, <1>3, RequestNames DEF Only, Quiet, About
<1>10. \A r \in Queues : Owed(g, r) = Owed(f, r)
  BY <1>7 DEF Owed
<1>11. Kept(e, g, F, D, on)
  BY <1>7, <1>8, <1>9, <1>10 DEF Kept, Asked, Answered
<1>12. Kept(e, f, F, D, on)
  <2>1. \A r \in Queues : Quiet(f.out, r, Requests) /\ Quiet(f.out, r, Responses)
    BY DEF Quiet
  <2>2. Only(f.out, q, Requests, Expected(f.pending[q]))
    BY DEF Only
  <2> QED
    BY <2>1, <2>2 DEF Kept, Asked, Answered
<1> QED
  BY <1>11, <1>12 DEF send_queued, g

\* What sendAllDestinations writes about one queue, and what it leaves owed.
LEMMA AllAbout ==
  ASSUME NEW e, WellFormed(e)
  PROVE  LET f        == sendAllDestinations(e)
             answered == e.local_pdp \cap e.needs_response
             pushed   == (e.local_pdp \ e.needs_response) \ e.not_interested
         IN  /\ f.needs_response = e.needs_response \ answered /\ f.asked = e.asked
             /\ \E s \in Seq(Message) :
                  /\ f.out = e.out \o s
                  /\ \A q \in Queues :
                       /\ q \notin answered => Quiet(s, q, Responses)
                       /\ Only(s, q, Responses, {"Destination_Announce_Response"})
                       /\ q \notin pushed \/ e.pending[q] # <<>> =>
                            /\ Quiet(s, q, Requests)
                            /\ Expected(f.pending[q]) = Expected(e.pending[q])
                       /\ q \in pushed /\ e.pending[q] = <<>> =>
                            Only(s, q, Requests, Expected(f.pending[q]))
<1> DEFINE answered == e.local_pdp \cap e.needs_response
           pushed   == (e.local_pdp \ e.needs_response) \ e.not_interested
           first    == {d \in pushed : e.pending[d] = <<>>}
           type     == DestinationUpType(e)
           ans(d)   == Msg("Destination_Announce_Response", d, "Success")
           up(d)    == Msg(type, d, "none")
           A        == {ans(d) : d \in answered}
           U        == {up(d) : d \in first}
           x(d)     == [type |-> type, tries |-> IF d \in first THEN 1 ELSE 0]
           p        == [q \in Queues |-> IF q \in pushed
                                         THEN Append(e.pending[q], x(q))
                                         ELSE e.pending[q]]
           s        == SetToSeq(A \cup U)
           f        == [e EXCEPT !.needs_response = @ \ answered,
                                 !.pending = p, !.out = @ \o s]
<1>1. /\ e \in Endpoint /\ e.local_pdp \subseteq Dests
      /\ e.pending \in [Queues -> Seq(Entry)]
  BY DEF WellFormed, Endpoint
<1>2. type \in Requests /\ type \in MessageTypes \cap DestinationTypes
  BY RequestNames DEF DestinationUpType, MessageTypes, Responses, DestinationTypes
<1>3. /\ \A d \in Dests : ans(d) \in Message /\ ans(d).dest = d
                            /\ ans(d).type = "Destination_Announce_Response"
      /\ \A d \in Dests : up(d) \in Message /\ up(d).type = type /\ up(d).dest = d
  <2> HIDE DEF type
  <2>1. \A d \in Dests : ans(d) \in Message /\ up(d) \in Message
    BY <1>2, Announcement DEF Queues, Statuses, MessageTypes, Responses, DestinationTypes
  <2> QED
    BY <2>1 DEF Msg
<1>4. IsFiniteSet(A \cup U)
  <2>1. IsFiniteSet(answered) /\ IsFiniteSet(first)
    BY <1>1, DestsAssumption, FS_Subset
  <2>2. IsFiniteSet(A) /\ IsFiniteSet(U)
    <3> HIDE DEF answered, first, ans, up
    <3>1. [d \in answered |-> ans(d)] \in Surjection(answered, A)
      BY DEF Surjection
    <3>2. [d \in first |-> up(d)] \in Surjection(first, U)
      BY DEF Surjection
    <3> HIDE DEF A, U
    <3> QED
      BY <2>1, <3>1, <3>2, FS_Surjection
  <2> QED
    BY <2>2, FS_Union
<1>5. /\ s \in Seq(A \cup U) /\ \A i \in DOMAIN s : s[i] \in A \cup U
      /\ \A i, j \in DOMAIN s : s[i] = s[j] => i = j
  BY <1>4, SetToSeqType
<1>6. sendAllDestinations(e) = f
  BY ZenonT(60) DEF sendAllDestinations
<1>7. /\ f.needs_response = e.needs_response \ answered /\ f.asked = e.asked
      /\ f.out = e.out \o s /\ f.pending = p
  <2> HIDE DEF p, s, answered
  <2> QED
    BY <1>1 DEF Endpoint
<1> HIDE DEF f, s
<1>8. s \in Seq(Message)
  <2>1. A \cup U \subseteq Message
    <3> HIDE DEF ans, up
    <3> QED
      BY <1>1, <1>3
  <2> HIDE DEF A, U
  <2> QED
    BY <1>5, <2>1
<1>9. /\ type \notin Responses /\ "Destination_Announce_Response" \notin Requests
      /\ "Destination_Announce_Response" \in Responses
  BY <1>2, RequestNames DEF Responses
<1>10. ASSUME NEW q, NEW i \in DOMAIN s
       PROVE  /\ About(s[i], q, Responses) => q \in answered /\ s[i] = ans(q)
              /\ About(s[i], q, Requests) => q \in first /\ s[i] = up(q)
              /\ About(s[i], q, Responses) => s[i].type = "Destination_Announce_Response"
              /\ About(s[i], q, Requests) => s[i].type = type
  <2>1. answered \subseteq Dests /\ first \subseteq Dests
    BY <1>1
  <2>2. s[i] \in A \cup U
    BY <1>5
  <2> HIDE DEF answered, first, ans, up, type
  <2> QED
    BY <1>2, <1>3, <1>9, <2>1, <2>2 DEF About
<1>11. ASSUME NEW q \in Queues
       PROVE  /\ q \notin answered => Quiet(s, q, Responses)
              /\ Only(s, q, Responses, {"Destination_Announce_Response"})
              /\ q \notin first => Quiet(s, q, Requests)
              /\ Only(s, q, Requests, {type})
  <2> HIDE DEF answered, first, ans, up, type
  <2>1. q \notin answered => Quiet(s, q, Responses)
    BY <1>10 DEF Quiet
  <2>2. q \notin first => Quiet(s, q, Requests)
    BY <1>10 DEF Quiet
  <2>3. Only(s, q, Responses, {"Destination_Announce_Response"})
    BY <1>5, <1>10 DEF Only
  <2>4. Only(s, q, Requests, {type})
    BY <1>5, <1>10 DEF Only
  <2> QED
    BY <2>1, <2>2, <2>3, <2>4
<1>12. ASSUME NEW q \in Queues
       PROVE  /\ q \notin pushed \/ e.pending[q] # <<>> =>
                   Expected(f.pending[q]) = Expected(e.pending[q])
              /\ q \in pushed /\ e.pending[q] = <<>> => Expected(f.pending[q]) = {type}
  <2>1. x(q) \in Entry /\ x(q).type = type
    <3> HIDE DEF type
    <3> QED
      BY <1>2, SendTriesAssumption DEF Entry
  <2>2. f.pending[q] = IF q \in pushed THEN Append(e.pending[q], x(q)) ELSE e.pending[q]
    BY <1>7
  <2> HIDE DEF x, pushed, type
  <2>3. /\ Append(e.pending[q], x(q)) # <<>>
        /\ Head(Append(e.pending[q], x(q))) =
             IF e.pending[q] = <<>> THEN x(q) ELSE Head(e.pending[q])
    <3>1. \A w \in Seq(Entry), y \in Entry :
            /\ Append(w, y) # <<>>
            /\ w = <<>> => Head(Append(w, y)) = y
            /\ w # <<>> => Head(Append(w, y)) = Head(w)
      OBVIOUS
    <3>2. e.pending[q] \in Seq(Entry)
      BY <1>1
    <3> QED
      BY <2>1, <3>1, <3>2
  <2> QED
    BY <2>1, <2>2, <2>3 DEF Expected
<1> HIDE DEF answered, type
<1>13. \A q \in Queues : q \in first <=> q \in pushed /\ e.pending[q] = <<>>
  BY DEF first
<1> HIDE DEF pushed, first
<1>14. \A q \in Queues :
         /\ q \notin answered => Quiet(s, q, Responses)
         /\ Only(s, q, Responses, {"Destination_Announce_Response"})
         /\ q \notin pushed \/ e.pending[q] # <<>> =>
              /\ Quiet(s, q, Requests)
              /\ Expected(f.pending[q]) = Expected(e.pending[q])
         /\ q \in pushed /\ e.pending[q] = <<>> =>
              Only(s, q, Requests, Expected(f.pending[q]))
  BY <1>11, <1>12, <1>13
<1> QED
  BY <1>6, <1>7, <1>8, <1>14 DEF answered, pushed

\* sendAllDestinations, by an endpoint that has not answered anything about
\* a destination.
LEMMA KeptAll ==
  ASSUME NEW e, NEW f, WellFormed(f), NEW F, NEW D, NEW on, Kept(e, f, F, D, on),
         \A d \in Dests : Quiet(f.out, d, Responses)
  PROVE  Kept(e, sendAllDestinations(f), F, D, on)
<1> DEFINE g        == sendAllDestinations(f)
           answered == f.local_pdp \cap f.needs_response
           pushed   == (f.local_pdp \ f.needs_response) \ f.not_interested
<1>1. f.out \in Seq(Message) /\ answered \subseteq Dests
  BY DEF WellFormed, Endpoint
<1>2. /\ g.needs_response = f.needs_response \ answered /\ g.asked = f.asked
      /\ \E s \in Seq(Message) :
           /\ g.out = f.out \o s
           /\ \A q \in Queues :
                /\ q \notin answered => Quiet(s, q, Responses)
                /\ Only(s, q, Responses, {"Destination_Announce_Response"})
                /\ q \notin pushed \/ f.pending[q] # <<>> =>
                     /\ Quiet(s, q, Requests)
                     /\ Expected(g.pending[q]) = Expected(f.pending[q])
                /\ q \in pushed /\ f.pending[q] = <<>> =>
                     Only(s, q, Requests, Expected(g.pending[q]))
  BY AllAbout
<1>3. \A q \in answered : q \in f.needs_response
  OBVIOUS
<1> HIDE DEF g, answered, pushed
<1>4. PICK s \in Seq(Message) :
        /\ g.out = f.out \o s
        /\ \A q \in Queues :
             /\ q \notin answered => Quiet(s, q, Responses)
             /\ Only(s, q, Responses, {"Destination_Announce_Response"})
             /\ q \notin pushed \/ f.pending[q] # <<>> =>
                  /\ Quiet(s, q, Requests)
                  /\ Expected(g.pending[q]) = Expected(f.pending[q])
             /\ q \in pushed /\ f.pending[q] = <<>> =>
                  Only(s, q, Requests, Expected(g.pending[q]))
  BY <1>2
<1>5. ASSUME NEW q \in Queues PROVE Asked(e, g, q, q \in F)
  <2>1. Asked(e, f, q, q \in F)
    BY DEF Kept
  <2>2. CASE q \notin pushed \/ f.pending[q] # <<>>
    BY <1>1, <1>4, <2>1, <2>2, AskedMore
  <2>3. CASE q \in pushed /\ f.pending[q] = <<>>
    <3>1. Expected(f.pending[q]) = {}
      BY <2>3 DEF Expected
    <3>2. Quiet(f.out, q, Requests) /\ (q \in F \/ Expected(e.pending[q]) = {})
      BY <1>1, <2>1, <3>1, OnlyFacts DEF Asked
    <3> DEFINE X == Expected(g.pending[q])
    <3> HIDE DEF X
    <3>3. Only(s, q, Requests, X)
      BY <1>4, <2>3 DEF X
    <3>4. Only(g.out, q, Requests, X)
      BY <1>1, <1>4, <3>2, <3>3, OnlyFacts
    <3> QED
      BY <3>2, <3>4 DEF Asked, X
  <2> QED
    BY <2>2, <2>3
<1>6. ASSUME NEW q \in Queues, on PROVE Answered(g, q, D[q])
  <2>1. Answered(f, q, D[q])
    BY <1>6 DEF Kept
  <2>2. CASE q \notin answered
    <3>1. /\ g.needs_response \subseteq f.needs_response /\ g.asked \subseteq f.asked
          /\ g.out = f.out \o s /\ Quiet(s, q, Responses)
      BY <1>2, <1>4, <2>2
    <3> QED
      BY <1>1, <2>1, <3>1, AnsweredMore
  <2>3. CASE q \in answered
    <3>1. Quiet(f.out, q, Responses)
      BY <1>1, <2>3
    <3>2. Only(g.out, q, Responses, {"Destination_Announce_Response"})
      BY <1>1, <1>4, <3>1, OnlyFacts
    <3>3. /\ "Destination_Announce" \in Owed(f, q) /\ Owed(f, q) \subseteq D[q]
          /\ "Destination_Announce" \notin Owed(g, q) /\ Owed(g, q) \subseteq Owed(f, q)
      BY <1>2, <1>3, <2>1, <2>3 DEF Owed, Answered
    <3>4. ResponseTo["Destination_Announce"] = "Destination_Announce_Response"
      BY DEF ResponseTo
    <3> QED
      BY <3>2, <3>3, <3>4 DEF Answered
  <2> QED
    BY <2>2, <2>3
<1>7. Kept(e, g, F, D, on)
  BY <1>5, <1>6 DEF Kept
<1> QED
  BY <1>7 DEF g

\* A response is read: its queue is free, and the next request goes out.
LEMMA KeptTaken ==
  ASSUME NEW e, WellFormed(e), e.out = <<>>, NEW m \in Message,
         NEW F, NEW D, NEW on, m.type \in Responses => m.dest \in F,
         on => \A q \in Queues : Owed(e, q) \subseteq D[q]
  PROVE  Kept(e, handle_response(e, m), F, D, on)
<1> DEFINE q == m.dest
           f == [e EXCEPT !.pending[m.dest] = Tail(@)]
           p == [e.pending EXCEPT ![q] = Tail(@)]
<1>1. CASE response_ok(e, m)
  <2>1. /\ q \in Queues /\ e.pending \in [Queues -> Seq(Entry)] /\ e.pending[q] # <<>>
        /\ \A r \in Queues : Disciplined(e.pending[r], r)
    BY <1>1 DEF Message, WellFormed, Endpoint, response_ok
  <2>2. q \in F
    <3>1. Head(e.pending[q]) \in Entry
      BY <2>1
    <3>2. m.type \in Responses
      BY <1>1, <3>1, RequestNames DEF response_ok, Entry
    <3> QED
      BY <3>2
  <2>3. Tail(e.pending[q]) \in Seq(Entry) /\ Disciplined(Tail(e.pending[q]), q)
    <3> HIDE DEF q
    <3> QED
      BY <2>1, TailDisciplined
  <2>4. /\ p \in [Queues -> Seq(Entry)] /\ \A r \in Queues : Disciplined(p[r], r)
        /\ \A r \in Queues : r # q => p[r] = e.pending[r]
    BY <2>1, <2>3
  <2>5. /\ f \in Endpoint /\ f.pending = p /\ f.out = <<>>
        /\ f.needs_response = e.needs_response /\ f.asked = e.asked
    BY <2>1, <2>4 DEF WellFormed, Endpoint
  <2>6. handle_response(e, m) = IF f.pending[q] = <<>> THEN f ELSE send_queued(f, q)
    BY <1>1, ZenonT(60) DEF handle_response
  <2> HIDE DEF f, p, q
  <2>7. WellFormed(f) /\ \A r : Owed(f, r) = Owed(e, r)
    BY <2>4, <2>5 DEF WellFormed, Owed
  <2>8. f.pending[q] # <<>> => Kept(e, send_queued(f, q), F, D, on)
    BY <2>1, <2>2, <2>4, <2>5, <2>7, KeptQueued
  <2>9. Kept(e, f, F, D, on)
    <3>1. /\ \A r \in Queues : Quiet(f.out, r, Requests) /\ Quiet(f.out, r, Responses)
          /\ Only(f.out, q, Requests, Expected(f.pending[q]))
      BY <2>5 DEF Quiet, Only
    <3> QED
      BY <2>2, <2>4, <2>5, <2>7, <3>1 DEF Kept, Asked, Answered
  <2> QED
    BY <2>6, <2>8, <2>9
<1>2. CASE ~response_ok(e, m)
  BY <1>2, KeptStart, KeptTerminate DEF handle_response, Causes
<1> QED
  BY <1>1, <1>2

\* Peer::destination_up: the response that is owed, or a request.
LEMMA KeptDestinationUp ==
  ASSUME NEW e, NEW f, WellFormed(f), f.out = <<>>, NEW d \in Dests,
         NEW F, NEW D, NEW on, Kept(e, f, F, D, on)
  PROVE  Kept(e, destination_up(f, d), F, D, on)
<1> DEFINE g == [f EXCEPT !.needs_response = @ \ {d}]
           m == Msg("Destination_Announce_Response", d, "Success")
<1>1. /\ g \in Endpoint /\ g.pending = f.pending /\ g.out = f.out
      /\ g.needs_response = f.needs_response \ {d} /\ g.asked = f.asked
      /\ d \in Queues
  BY DEF WellFormed, Endpoint, Queues
<1>2. /\ m \in Message /\ m.type = ResponseTo["Destination_Announce"] /\ m.dest = d
      /\ "Destination_Announce" \in Requests
  BY Announcement, RequestNames
  DEF Statuses, MessageTypes, Responses, DestinationTypes, ResponseTo, Msg
<1>3. d \in f.needs_response => destination_up(f, d) = send_session_message(g, m)
  BY ZenonT(60) DEF destination_up
<1>4. d \notin f.needs_response =>
        destination_up(f, d) = send_message_expecting_response(f, d, DestinationUpType(f))
  BY ZenonT(60) DEF destination_up
<1> HIDE DEF g, m
<1>5. WellFormed(g) /\ Kept(e, g, F, D, on)
  <2>1. WellFormed(g)
    BY <1>1 DEF WellFormed
  <2> QED
    BY <1>1, <2>1, KeptSame
<1>6. ASSUME d \in f.needs_response, on
      PROVE  "Destination_Announce" \in D[d] /\ "Destination_Announce" \notin Owed(g, d)
  BY <1>1, <1>6 DEF Kept, Answered, Owed
<1>7. d \in f.needs_response => Kept(e, send_session_message(g, m), F, D, on)
  BY <1>1, <1>2, <1>5, <1>6, KeptResponse
<1>8. DestinationUpType(f) \in Requests \cap DestinationTypes
  BY RequestNames DEF DestinationUpType, DestinationTypes
<1>9. Kept(e, send_message_expecting_response(f, d, DestinationUpType(f)), F, D, on)
  BY <1>1, <1>8, KeptRequest
<1> QED
  BY <1>3, <1>4, <1>7, <1>9

\* Requests and messages of the client.
LEMMA KeptClient ==
  ASSUME NEW e, NEW f, WellFormed(f), NEW d \in Dests,
         NEW F, NEW D, NEW on, Kept(e, f, F, D, on)
  PROVE  /\ Kept(e, destination_down(f, d), F, D, on)
         /\ Kept(e, destination_update(f, d), F, D, on)
         /\ Kept(e, link_characteristics_request(f, d), F, D, on)
<1>1. /\ d \in Queues
      /\ {"Destination_Down", "Link_Characteristics_Request"} \subseteq
           Requests \cap DestinationTypes
  BY RequestNames DEF Queues, DestinationTypes
<1>2. LET m == Msg("Destination_Update", d, "none")
      IN  m \in Message /\ m.type \in Unacknowledged
  BY Announcement DEF Queues, Statuses, MessageTypes, Unacknowledged, DestinationTypes
<1> QED
  BY <1>1, <1>2, KeptRequest, KeptOther
  DEF destination_down, destination_update, link_characteristics_request

LEMMA KeptPeerUpdate ==
  ASSUME NEW e, NEW f, WellFormed(f), NEW F, NEW D, NEW on, Kept(e, f, F, D, on)
  PROVE  /\ Kept(e, peer_update(f), F, D, on)
         /\ Kept(e, handle_heartbeat_timeout(f), F, D, on)
<1>1. /\ Session \in Queues \ Dests
      /\ "Session_Update" \in Requests \ DestinationTypes
  BY DestsAssumption, RequestNames DEF Queues, DestinationTypes
<1>2. LET m == Msg("Heartbeat", Session, "none")
      IN  m \in Message /\ m.type \in Unacknowledged
  BY DestsAssumption
  DEF Msg, Message, Queues, Statuses, MessageTypes, Unacknowledged, DestinationTypes
<1>3. WellFormed(Armed(f)) /\ Kept(e, Armed(f), F, D, on)
  BY ArmedSame, KeptSame
<1>4. handle_heartbeat_timeout(f) \in
        {Armed(f), send_session_message(Armed(f), Msg("Heartbeat", Session, "none"))}
  BY ZenonT(60) DEF handle_heartbeat_timeout, Armed
<1>5. Kept(e, handle_heartbeat_timeout(f), F, D, on)
  BY <1>2, <1>3, <1>4, KeptOther
<1> QED
  BY <1>1, <1>5, KeptRequest DEF peer_update

\* The start of the session.
LEMMA KeptSessionUp ==
  ASSUME NEW e, NEW f, WellFormed(f), NEW F, NEW D, NEW on, Kept(e, f, F, D, on),
         \A d \in Dests : Quiet(f.out, d, Responses)
  PROVE  Kept(e, session_up(f), F, D, on)
<1> DEFINE x == Heartbeats[~f.modem]
           y == Heartbeats[f.modem]
           g == [f EXCEPT !.heartbeats = x, !.pstate = "in_session"]
           h == sendAllDestinations(g)
           k == [h EXCEPT !.heartbeat = y]
<1>0. x \in BOOLEAN /\ y \in BOOLEAN
  BY HeartbeatsAssumption DEF WellFormed, Endpoint
<1>2. session_up(f) = k
  BY ZenonT(60) DEF session_up
<1> HIDE DEF x, y
<1>1. /\ WellFormed(g) /\ g.pending = f.pending /\ g.out = f.out
      /\ g.needs_response = f.needs_response /\ g.asked = f.asked
  BY <1>0 DEF WellFormed, Endpoint, PeerStates
<1> HIDE DEF g
<1>3. Kept(e, g, F, D, on)
  BY <1>1, KeptSame
<1>4. Kept(e, h, F, D, on) /\ WellFormed(h)
  BY <1>1, <1>3, KeptAll, SendAllDestinations
<1> HIDE DEF h
<1>5. /\ k.pending = h.pending /\ k.out = h.out
      /\ k.needs_response = h.needs_response /\ k.asked = h.asked
  BY <1>4 DEF WellFormed, Endpoint
<1> HIDE DEF k
<1> QED
  BY <1>2, <1>4, <1>5, KeptSame

\* start_peer: the router's first request.
LEMMA KeptStartPeer ==
  ASSUME NEW e, WellFormed(e), e.out = <<>>, NEW F, NEW D, NEW on,
         on => \A q \in Queues : Owed(e, q) \subseteq D[q]
  PROVE  Kept(e, start_peer(e), F, D, on)
<1> DEFINE f == [e EXCEPT !.pstate = "connected", !.acktivity = TRUE]
<1>1. /\ WellFormed(f) /\ f.pending = e.pending /\ f.out = <<>>
      /\ f.needs_response = e.needs_response /\ f.asked = e.asked
  BY DEF WellFormed, Endpoint, PeerStates
<1> HIDE DEF f
<1>2. Kept(e, f, F, D, on)
  BY <1>1, KeptStart DEF Owed
<1>3. /\ Session \in Queues \ Dests
      /\ "Session_Initialization" \in Requests \ DestinationTypes
  BY DestsAssumption, RequestNames DEF Queues, DestinationTypes
<1>4. Kept(e, send_message_expecting_response(f, Session, "Session_Initialization"), F, D, on)
  BY <1>1, <1>2, <1>3, KeptRequest
<1>5. start_peer(e) \in
        {f, send_message_expecting_response(f, Session, "Session_Initialization")}
  BY ZenonT(60) DEF start_peer, f
<1> QED
  BY <1>2, <1>4, <1>5

\* stop_peer touches neither the queues nor what is owed.
LEMMA KeptStop ==
  ASSUME NEW e, NEW f, WellFormed(f), NEW F, NEW D, NEW on, Kept(e, f, F, D, on)
  PROVE  Kept(e, stop_peer(f), F, D, on)
<1> DEFINE g == stop_peer(f)
<1>1. /\ g.pending = f.pending /\ g.out = f.out
      /\ g.needs_response = f.needs_response /\ g.asked = f.asked
  BY DEF stop_peer, WellFormed, Endpoint
<1> HIDE DEF g
<1>2. Kept(e, g, F, D, on)
  BY <1>1, KeptSame
<1> QED
  BY <1>2 DEF g

\* Taking a response writes requests only.
LEMMA TakenWrites ==
  ASSUME NEW e, WellFormed(e), e.out = <<>>, NEW m \in Message, response_ok(e, m)
  PROVE  \A q : Quiet(handle_response(e, m).out, q, Responses)
<1> DEFINE q == m.dest
           f == [e EXCEPT !.pending[m.dest] = Tail(@)]
           h == Head(f.pending[q])
           x == Msg(h.type, q, "none")
<1>1. q \in Queues /\ e.pending \in [Queues -> Seq(Entry)] /\ e.pending[q] # <<>>
  BY DEF Message, WellFormed, Endpoint, response_ok
<1>2. /\ f.pending = [e.pending EXCEPT ![q] = Tail(@)] /\ f.out = <<>>
      /\ transmit_head(f, q).out = Append(f.out, x)
  BY DEF WellFormed, Endpoint, transmit_head, send_session_message
<1>3. handle_response(e, m) = IF f.pending[q] = <<>> THEN f ELSE send_queued(f, q)
  BY ZenonT(60) DEF handle_response
<1> HIDE DEF f, q
<1>4. ASSUME f.pending[q] # <<>> PROVE x.type \notin Responses
  <2>1. f.pending[q] \in Seq(Entry)
    <3>1. Tail(e.pending[q]) \in Seq(Entry)
      BY <1>1
    <3> QED
      BY <1>1, <1>2, <3>1
  <2>2. h \in Entry
    BY <1>4, <2>1
  <2> QED
    BY <2>2, RequestNames DEF Entry, Msg
<1> HIDE DEF x
<1>5. transmit_head(f, q).out = <<x>>
  BY <1>2
<1>6. handle_response(e, m).out = <<>> \/
        (f.pending[q] # <<>> /\ handle_response(e, m).out = <<x>>)
  BY <1>2, <1>3, <1>5 DEF send_queued
<1> QED
  BY <1>4, <1>6 DEF Quiet, About

\* Message m is the one that e reads, F and D are what goes with it: a
\* response frees its queue, a request joins what is to be answered.
Reads(e, m, F, D, on) ==
  /\ m.type \in Responses => m.dest \in F
  /\ on => /\ \A q \in Queues : Owed(e, q) \subseteq D[q]
           /\ m.type \in Requests => m.type \in D[m.dest] /\ Owed(e, m.dest) = {}

\* The handlers of the session's messages.
LEMMA KeptSessionHandlers ==
  ASSUME NEW e, WellFormed(e), e.out = <<>>, NEW m \in Message, NEW c \in Inputs,
         NEW F, NEW D, NEW on, Reads(e, m, F, D, on)
  PROVE  /\ m.type = "Session_Initialization" =>
              Kept(e, handle_peer_initialization(e, c), F, D, on)
         /\ Kept(e, handle_peer_initialization_response(e, m), F, D, on)
         /\ m.type = "Session_Update" => Kept(e, handle_peer_update(e, c), F, D, on)
         /\ m.type = "Session_Termination" =>
              Kept(e, handle_peer_termination(e, c), F, D, on)
         /\ Kept(e, handle_peer_termination_response(e, m), F, D, on)
<1>1. Kept(e, e, F, D, on)
  BY KeptStart DEF Reads
<1>2. WellFormed(handle_response(e, m)) /\ Kept(e, handle_response(e, m), F, D, on)
  BY KeptTaken, HandleResponse DEF Reads
<1>3. \A why \in Causes : Kept(e, terminate(e, why), F, D, on)
  BY <1>1, KeptTerminate
<1>4. /\ c.send \in BOOLEAN /\ Session \in Queues /\ Session \notin Dests
      /\ m.type \in DestinationTypes <=> m.dest \in Dests
      /\ m.dest \in Queues
  BY DestsAssumption DEF Inputs, Queues, Message
<1>5. ASSUME NEW t \in {"Session_Initialization", "Session_Update", "Session_Termination"},
             m.type = t, NEW s \in Statuses \cup {"Invalid_Message"}
      PROVE  Kept(e, send_simple_response(e, ResponseTo[t], s, Session, c.send), F, D, on)
  <2>1. /\ t \in Requests /\ t \notin DestinationTypes
        /\ ResponseTo[t] \notin DestinationTypes
    BY RequestNames DEF DestinationTypes, ResponseTo
  <2>2. m.dest = Session
    BY <1>4, <1>5, <2>1 DEF Queues
  <2>3. on => t \in D[Session] /\ t \notin Owed(e, Session)
    BY <1>5, <2>1, <2>2 DEF Reads
  <2> QED
    BY <1>1, <1>4, <2>1, <2>3, KeptSimpleResponse
<1>6. ASSUME m.type = "Session_Initialization"
      PROVE  Kept(e, handle_peer_initialization(e, c), F, D, on)
  <2> DEFINE r == "Session_Initialization_Response"
             g == send_simple_response(e, r, "Success", Session, c.send)
  <2>1. Kept(e, g, F, D, on)
    BY <1>5, <1>6 DEF ResponseTo, Statuses
  <2>2. WellFormed(g)
    BY <1>4, SendSimpleResponse DEF Responses, Statuses, DestinationTypes
  <2>3. \A d \in Dests : Quiet(g.out, d, Responses)
    <3> DEFINE x == Msg(r, Session, add_status("Success"))
    <3>1. g.out = IF c.send THEN <<x>> ELSE <<>>
      BY DEF send_simple_response, send_session_message, WellFormed, Endpoint
    <3>2. x.dest = Session
      BY DEF Msg
    <3> HIDE DEF g, x
    <3> QED
      BY <1>4, <3>1, <3>2 DEF Quiet, About
  <2>4. handle_peer_initialization(e, c) \in
          {terminate(e, "Inconsistent_Data"), session_up(g)}
    BY ZenonT(60) DEF handle_peer_initialization
  <2> HIDE DEF g
  <2> QED
    BY <1>3, <2>1, <2>2, <2>3, <2>4, KeptSessionUp DEF Causes
<1>7. Kept(e, handle_peer_initialization_response(e, m), F, D, on)
  <2>1. ASSUME response_ok(e, m)
        PROVE  \A d \in Dests : Quiet(handle_response(e, m).out, d, Responses)
    BY <2>1, TakenWrites
  <2> QED
    BY <1>2, <2>1, KeptSessionUp DEF handle_peer_initialization_response
<1>8. ASSUME m.type = "Session_Update" PROVE Kept(e, handle_peer_update(e, c), F, D, on)
  <2>1. ResponseTo["Session_Update"] = "Session_Update_Response"
    BY DEF ResponseTo
  <2> QED
    BY <1>3, <1>5, <1>8, <2>1 DEF handle_peer_update, Causes, Statuses
<1>9. ASSUME m.type = "Session_Termination"
      PROVE  Kept(e, handle_peer_termination(e, c), F, D, on)
  <2> DEFINE g == send_simple_response(e, "Session_Termination_Response", "none",
                                       Session, c.send)
  <2>1. Kept(e, g, F, D, on)
    BY <1>5, <1>9 DEF ResponseTo, Statuses
  <2>2. WellFormed(g)
    BY <1>4, SendSimpleResponse DEF Responses, Statuses, DestinationTypes
  <2>3. handle_peer_termination(e, c) = stop_peer(g)
    BY ZenonT(60) DEF handle_peer_termination
  <2> HIDE DEF g
  <2> QED
    BY <2>1, <2>2, <2>3, KeptStop
<1>10. Kept(e, handle_peer_termination_response(e, m), F, D, on)
  BY <1>1, <1>2, KeptStop DEF handle_peer_termination_response
<1> QED
  BY <1>6, <1>7, <1>8, <1>9, <1>10

\* Destination_Up is answered at once; what handles a response answers nothing.
LEMMA KeptHandleUp ==
  ASSUME NEW e, NEW f, WellFormed(f), NEW m \in Message, m.dest \in Dests, NEW c \in Inputs,
         NEW F, NEW D, NEW on, Kept(e, f, F, D, on),
         m.type \in Requests =>
           /\ m.type = "Destination_Up" /\ f.out = <<>>
           /\ on => m.type \in D[m.dest] /\ m.type \notin Owed(f, m.dest)
  PROVE  Kept(e, handle_destination_up(f, m, c), F, D, on)
<1> DEFINE g == [f EXCEPT
                   !.not_interested = @ \ {m.dest},
                   !.peer_pdp = IF c.status = "Success"
                                THEN @ \cup {m.dest} ELSE @]
           s == IF m.dest \in f.peer_pdp THEN "Invalid_Message" ELSE c.status
           h == IF m.dest \in f.peer_pdp THEN f ELSE g
<1>1. /\ WellFormed(g) /\ g.pending = f.pending /\ g.out = f.out
      /\ g.needs_response = f.needs_response /\ g.asked = f.asked
  BY DEF WellFormed, Endpoint
<1>2. s \in Statuses \cup {"Invalid_Message"} /\ c.send \in BOOLEAN
  BY DEF Inputs, Statuses
<1>3. handle_destination_up(f, m, c) \in
        {terminate(f, "Inconsistent_Data"), h}
          \cup IF m.type \in Requests
               THEN {send_simple_response(h, ResponseTo[m.type], s, m.dest, c.send)}
               ELSE {}
  BY ZenonT(60) DEF handle_destination_up
<1> HIDE DEF g, s
<1>4. /\ WellFormed(h) /\ h.out = f.out /\ Owed(h, m.dest) = Owed(f, m.dest)
      /\ Kept(e, h, F, D, on)
  BY <1>1, KeptSame DEF Owed
<1> HIDE DEF h
<1>5. m.type \in Requests =>
        Kept(e, send_simple_response(h, ResponseTo[m.type], s, m.dest, c.send), F, D, on)
  <2>1. m.dest \in Queues /\ "Destination_Up" \in Requests
        /\ ResponseTo["Destination_Up"] \in DestinationTypes
    BY RequestNames DEF Queues, ResponseTo, DestinationTypes
  <2> QED
    BY <1>2, <1>4, <2>1, KeptSimpleResponse
<1>6. Kept(e, terminate(f, "Inconsistent_Data"), F, D, on)
  BY KeptTerminate DEF Causes
<1> QED
  BY <1>3, <1>4, <1>5, <1>6

\* The response serves its queue, and may make the destination known.
LEMMA KeptHandleUpResponse ==
  ASSUME NEW e, WellFormed(e), e.out = <<>>, NEW m \in Message, m.dest \in Dests,
         m.type \notin Requests, NEW c \in Inputs,
         NEW F, NEW D, NEW on, Reads(e, m, F, D, on)
  PROVE  Kept(e, handle_destination_up_response(e, m, c), F, D, on)
<1> DEFINE f == handle_response(e, m)
           g == [f EXCEPT !.not_interested = @ \cup {m.dest}]
           h == IF m.status = "Not_Interested" THEN g ELSE f
<1>1. WellFormed(f) /\ Kept(e, f, F, D, on)
  BY HandleResponse, KeptTaken DEF Reads
<1>2. handle_destination_up_response(e, m, c) \in
        {f, h, handle_destination_up(h, m, c)}
  BY ZenonT(60) DEF handle_destination_up_response
<1> HIDE DEF f
<1>3. /\ WellFormed(g) /\ g.pending = f.pending /\ g.out = f.out
      /\ g.needs_response = f.needs_response /\ g.asked = f.asked
  BY <1>1 DEF WellFormed, Endpoint
<1> HIDE DEF g
<1>4. WellFormed(h) /\ Kept(e, h, F, D, on)
  BY <1>1, <1>3, KeptSame
<1> HIDE DEF h
<1>5. Kept(e, handle_destination_up(h, m, c), F, D, on)
  BY <1>4, KeptHandleUp
<1> QED
  BY <1>1, <1>2, <1>4, <1>5

\* Destination_Announce is answered at once, or owed by the client.
LEMMA KeptHandleAnnounce ==
  ASSUME NEW e, WellFormed(e), e.out = <<>>, NEW m \in Message, m.dest \in Dests,
         m.type = "Destination_Announce", NEW c \in Inputs,
         NEW F, NEW D, NEW on, Reads(e, m, F, D, on)
  PROVE  Kept(e, handle_destination_announce(e, m, c), F, D, on)
<1> DEFINE t == "Destination_Announce"
           r == "Destination_Announce_Response"
           f == [e EXCEPT !.not_interested = @ \ {m.dest},
                          !.peer_pdp = @ \cup {m.dest}]
           g == [f EXCEPT !.needs_response = @ \cup {m.dest}]
<1>1. /\ WellFormed(f) /\ f.pending = e.pending /\ f.out = <<>>
      /\ f.needs_response = e.needs_response /\ f.asked = e.asked
  BY DEF WellFormed, Endpoint
<1>2. /\ c.send \in BOOLEAN /\ c.status \in Statuses
      /\ t \in Requests /\ r = ResponseTo[t] /\ r \in DestinationTypes
      /\ m.dest \in Queues
  BY RequestNames DEF Inputs, Statuses, Queues, DestinationTypes, ResponseTo
<1>3. handle_destination_announce(e, m, c) \in
        {send_simple_response(e, r, "Invalid_Message", m.dest, c.send),
         destination_up(g, m.dest), g,
         send_simple_response(f, r, c.status, m.dest, c.send)}
  BY ZenonT(60) DEF handle_destination_announce
<1> HIDE DEF f
<1>4. /\ WellFormed(g) /\ g.pending = e.pending /\ g.out = <<>>
      /\ g.needs_response = e.needs_response \cup {m.dest} /\ g.asked = e.asked
  BY <1>1 DEF WellFormed, Endpoint
<1> HIDE DEF g
<1>5. on => /\ t \in D[m.dest] /\ Owed(e, m.dest) = {}
            /\ \A q \in Queues : Owed(e, q) \subseteq D[q]
  BY <1>2 DEF Reads
<1>6. (\A q : Owed(f, q) = Owed(e, q)) /\ \A q : Owed(g, q) \subseteq
        Owed(e, q) \cup IF q = m.dest THEN {t} ELSE {}
  BY <1>1, <1>4 DEF Owed
<1>7. Kept(e, e, F, D, on) /\ Kept(e, f, F, D, on) /\ Kept(e, g, F, D, on)
  <2>1. on => \A q \in Queues : Owed(g, q) \subseteq D[q]
    BY <1>5, <1>6
  <2> QED
    BY <1>1, <1>4, <1>5, <1>6, <2>1, KeptStart
<1>8. \A s \in Statuses \cup {"Invalid_Message"} :
        /\ Kept(e, send_simple_response(e, r, s, m.dest, c.send), F, D, on)
        /\ Kept(e, send_simple_response(f, r, s, m.dest, c.send), F, D, on)
  BY <1>1, <1>2, <1>5, <1>6, <1>7, KeptSimpleResponse
<1>9. Kept(e, destination_up(g, m.dest), F, D, on)
  BY <1>4, <1>7, KeptDestinationUp
<1> QED
  BY <1>2, <1>3, <1>7, <1>8, <1>9

\* Destination_Down is answered, and cancels what is owed.
LEMMA KeptHandleDown ==
  ASSUME NEW e, WellFormed(e), e.out = <<>>, NEW m \in Message, m.dest \in Dests,
         m.type = "Destination_Down", NEW c \in Inputs,
         NEW F, NEW D, NEW on, Reads(e, m, F, D, on)
  PROVE  Kept(e, handle_destination_down(e, m, c), F, D, on)
<1> DEFINE g == [e EXCEPT !.not_interested = @ \cup {m.dest}]
           k == RemovePeerDestination(e, m.dest)
           h == IF m.dest \in e.peer_pdp THEN k ELSE g
           r == send_simple_response(h, "Destination_Down_Response",
                                     "Success", m.dest, c.send)
<1>1. /\ WellFormed(g) /\ g.pending = e.pending /\ g.out = <<>>
      /\ g.needs_response = e.needs_response /\ g.asked = e.asked
  BY DEF WellFormed, Endpoint
<1>2. /\ WellFormed(k) /\ k.pending = e.pending /\ k.out = <<>>
      /\ k.needs_response \subseteq e.needs_response /\ k.asked = e.asked
  BY RemoveDestination DEF RemovePeerDestination, WellFormed, Endpoint
<1>3. handle_destination_down(e, m, c) \in
        {terminate(e, "Invalid_Destination"), r}
  BY ZenonT(60) DEF handle_destination_down
<1>4. Kept(e, e, F, D, on)
  BY KeptStart DEF Reads
<1> HIDE DEF g, k
<1>5. WellFormed(h) /\ h.out = <<>> /\ Kept(e, h, F, D, on)
  BY <1>1, <1>2, <1>4, KeptSame
<1>6. Owed(h, m.dest) \subseteq Owed(e, m.dest)
  BY <1>1, <1>2 DEF Owed
<1> HIDE DEF h
<1>7. /\ c.send \in BOOLEAN /\ m.dest \in Queues /\ m.type \in Requests
      /\ ResponseTo[m.type] = "Destination_Down_Response"
      /\ "Destination_Down_Response" \in DestinationTypes /\ "Success" \in Statuses
  BY RequestNames DEF Inputs, Statuses, Queues, DestinationTypes, ResponseTo
<1>8. on => m.type \in D[m.dest] /\ m.type \notin Owed(h, m.dest)
  BY <1>6, <1>7 DEF Reads
<1>9. Kept(e, r, F, D, on)
  BY <1>5, <1>7, <1>8, KeptSimpleResponse
<1> QED
  BY <1>3, <1>4, <1>9, KeptTerminate DEF Causes

\* Link_Characteristics_Request is answered at once, or owed by the client;
\* Destination_Update has no answer.
LEMMA KeptHandleLinkchar ==
  ASSUME NEW e, WellFormed(e), e.out = <<>>, NEW m \in Message, m.dest \in Dests,
         NEW c \in Inputs, NEW F, NEW D, NEW on, Reads(e, m, F, D, on)
  PROVE  /\ m.type = "Link_Characteristics_Request" =>
              Kept(e, handle_link_characteristics_request(e, m, c), F, D, on)
         /\ Kept(e, handle_link_characteristics_response(e, m), F, D, on)
         /\ Kept(e, handle_destination_update(e, m, c), F, D, on)
<1>1. Kept(e, e, F, D, on)
  BY KeptStart DEF Reads
<1>2. \A why \in Causes : Kept(e, terminate(e, why), F, D, on)
  BY <1>1, KeptTerminate
<1>3. ASSUME m.type = "Link_Characteristics_Request"
      PROVE  Kept(e, handle_link_characteristics_request(e, m, c), F, D, on)
  <2> DEFINE g == [e EXCEPT !.asked = @ \cup {m.dest}]
  <2>1. handle_link_characteristics_request(e, m, c) \in
          {terminate(e, "Invalid_Destination"), g,
           link_characteristics_response(e, m.dest, "none", c.send)}
    BY ZenonT(60) DEF handle_link_characteristics_request
  <2>2. /\ g.pending = e.pending /\ g.out = <<>>
        /\ g.needs_response = e.needs_response /\ g.asked = e.asked \cup {m.dest}
    BY DEF WellFormed, Endpoint
  <2> HIDE DEF g
  <2>3. /\ c.send \in BOOLEAN /\ m.dest \in Queues /\ m.type \in Requests
        /\ ResponseTo[m.type] = "Link_Characteristics_Response"
        /\ "Link_Characteristics_Response" \in DestinationTypes /\ "none" \in Statuses
    BY <1>3, RequestNames DEF Inputs, Statuses, Queues, DestinationTypes, ResponseTo
  <2>4. on => /\ m.type \in D[m.dest] /\ m.type \notin Owed(e, m.dest)
              /\ \A q \in Queues : Owed(e, q) \subseteq D[q]
    BY <2>3 DEF Reads
  <2>5. \A q : Owed(g, q) \subseteq Owed(e, q) \cup IF q = m.dest THEN {m.type} ELSE {}
    BY <1>3, <2>2 DEF Owed
  <2>6. Kept(e, g, F, D, on)
    <3>1. on => \A q \in Queues : Owed(g, q) \subseteq D[q]
      BY <2>4, <2>5
    <3> QED
      BY <2>2, <3>1, KeptStart
  <2>7. Kept(e, link_characteristics_response(e, m.dest, "none", c.send), F, D, on)
    BY <1>1, <2>3, <2>4, KeptSimpleResponse DEF link_characteristics_response
  <2> QED
    BY <1>2, <2>1, <2>6, <2>7 DEF Causes
<1>4. WellFormed(handle_response(e, m)) /\ Kept(e, handle_response(e, m), F, D, on)
  BY HandleResponse, KeptTaken DEF Reads
<1>5. Kept(e, handle_link_characteristics_response(e, m), F, D, on)
  BY <1>4, KeptTerminate DEF handle_link_characteristics_response, Causes
<1>6. Kept(e, handle_destination_update(e, m, c), F, D, on)
  BY <1>1, <1>2 DEF handle_destination_update, Causes
<1> QED
  BY <1>3, <1>5, <1>6

\* Every message, handled in any state, keeps to the transaction model.
LEMMA KeptReceive ==
  ASSUME NEW e, WellFormed(e), e.out = <<>>, NEW m \in Message, NEW c \in Inputs,
         NEW F, NEW D, NEW on, Reads(e, m, F, D, on)
  PROVE  Kept(e, handle_session_receive(e, m, c), F, D, on)
<1> DEFINE f == handle_session_receive(e, m, c)
<1> SUFFICES Kept(e, f, F, D, on)
  OBVIOUS
<1>0. Kept(e, e, F, D, on)
  BY KeptStart DEF Reads
<1>1. CASE m.type = "EOF"
  BY <1>0, <1>1, KeptStop DEF handle_session_receive
<1>2. CASE m.type # "EOF" /\ (~c.valid \/ ~sender_ok(e, m) \/ ~status_ok(m))
  BY <1>0, <1>2, KeptTerminate DEF handle_session_receive, handle_peer_signal, Causes
<1>3. CASE m.type # "EOF" /\ c.valid /\ sender_ok(e, m) /\ status_ok(m) /\ status_code_failure(m)
  BY <1>0, <1>3, KeptTerminate
  DEF handle_session_receive, handle_peer_signal, status_code_failure,
      TerminateStatuses, Causes
<1>4. CASE m.type # "EOF" /\ c.valid /\ sender_ok(e, m) /\ status_ok(m) /\ ~status_code_failure(m)
  <2>1. f = handle_peer_signal(e, m, c)
    BY <1>4 DEF handle_session_receive
  <2> HIDE DEF f
  <2>2. m.type \in DestinationTypes => m.dest \in Dests
    BY DEF Message
  <2>3. CASE m.type = "Heartbeat"
    BY <1>0, <1>4, <2>1, <2>3 DEF handle_peer_signal
  <2>4. CASE m.type = "Destination_Update"
    <3>1. f = handle_destination_update(e, m, c)
      BY <1>4, <2>1, <2>4 DEF handle_peer_signal
    <3> QED
      BY <2>2, <2>4, <3>1, KeptHandleLinkchar DEF DestinationTypes
  <2>5. CASE m.type = "Destination_Up"
    <3>1. f = handle_destination_up(e, m, c)
      BY <1>4, <2>1, <2>5 DEF handle_peer_signal, sender_ok, ModemOnly
    <3>2. m.type \in Requests
      BY <2>5, RequestNames
    <3> QED
      BY <1>0, <2>2, <2>5, <3>1, <3>2, KeptHandleUp DEF DestinationTypes, Reads
  <2>6. CASE m.type \in {"Destination_Up_Response", "Destination_Announce_Response"}
    <3>1. f = handle_destination_up_response(e, m, c)
      BY <1>4, <2>1, <2>6 DEF handle_peer_signal
    <3>2. m.type \notin Requests /\ m.type \in DestinationTypes
      BY <2>6, RequestNames DEF DestinationTypes
    <3> QED
      BY <2>2, <3>1, <3>2, KeptHandleUpResponse
  <2>7. CASE m.type = "Destination_Announce"
    <3>1. f = handle_destination_announce(e, m, c)
      BY <1>4, <2>1, <2>7 DEF handle_peer_signal
    <3> QED
      BY <2>2, <2>7, <3>1, KeptHandleAnnounce DEF DestinationTypes
  <2>8. CASE m.type = "Destination_Down"
    <3>1. f = handle_destination_down(e, m, c)
      BY <1>4, <2>1, <2>8 DEF handle_peer_signal
    <3> QED
      BY <2>2, <2>8, <3>1, KeptHandleDown DEF DestinationTypes
  <2>9. CASE m.type \in {"Destination_Down_Response", "Session_Update_Response"}
    <3>1. f = handle_response(e, m)
      BY <1>4, <2>1, <2>9 DEF handle_peer_signal
    <3> QED
      BY <3>1, KeptTaken DEF Reads
  <2>10. CASE m.type \in {"Link_Characteristics_Request", "Link_Characteristics_Response"}
    <3>1. /\ m.type = "Link_Characteristics_Request" =>
               f = handle_link_characteristics_request(e, m, c)
          /\ m.type = "Link_Characteristics_Response" =>
               f = handle_link_characteristics_response(e, m)
      BY <1>4, <2>1, <2>10 DEF handle_peer_signal
    <3> QED
      BY <2>2, <2>10, <3>1, KeptHandleLinkchar DEF DestinationTypes
  <2>11. CASE m.type = "Session_Update"
    <3>1. f = handle_peer_update(e, c)
      BY <1>4, <2>1, <2>11 DEF handle_peer_signal
    <3> QED
      BY <2>11, <3>1, KeptSessionHandlers
  <2>12. CASE m.type = "Session_Initialization"
    <3>1. f = handle_peer_initialization(e, c)
      BY <1>4, <2>1, <2>12 DEF handle_peer_signal
    <3> QED
      BY <2>12, <3>1, KeptSessionHandlers
  <2>13. CASE m.type = "Session_Initialization_Response"
    <3>1. f = handle_peer_initialization_response(e, m)
      BY <1>4, <2>1, <2>13 DEF handle_peer_signal
    <3> QED
      BY <3>1, KeptSessionHandlers
  <2>14. CASE m.type = "Session_Termination"
    <3>1. f = handle_peer_termination(e, c)
      BY <1>4, <2>1, <2>14 DEF handle_peer_signal
    <3> QED
      BY <2>14, <3>1, KeptSessionHandlers
  <2>15. CASE m.type = "Session_Termination_Response"
    <3>1. f = handle_peer_termination_response(e, m)
      BY <1>4, <2>1, <2>15 DEF handle_peer_signal
    <3> QED
      BY <3>1, KeptSessionHandlers
  <2>16. m.type \in Requests \cup Responses \cup {"Heartbeat", "Destination_Update"}
    BY <1>4 DEF Message, MessageTypes, Unacknowledged
  <2> QED
    BY <2>3, <2>4, <2>5, <2>6, <2>7, <2>8, <2>9, <2>10, <2>11, <2>12, <2>13,
       <2>14, <2>15, <2>16, RequestNames DEF Responses
<1> QED
  BY <1>1, <1>2, <1>3, <1>4

-----------------------------------------------------------------------------
(* What the operations do exactly, where nothing goes wrong.               *)

\* From e to f only the queues and the output change.
SameData(e, f) ==
  /\ f.cause = e.cause /\ f.pstate = e.pstate /\ f.modem = e.modem
  /\ f.local_pdp = e.local_pdp /\ f.peer_pdp = e.peer_pdp
  /\ f.needs_response = e.needs_response /\ f.asked = e.asked
  /\ f.not_interested = e.not_interested

\* The requests of queue r are those of p and t behind them; those of p
\* without the first.
Grown(p, r, t) ==
  /\ Len(r) = Len(p) + 1 /\ r[Len(r)].type = t
  /\ \A i \in DOMAIN p : r[i].type = p[i].type

Shrunk(p, r) ==
  /\ Len(r) = Len(p) - 1
  /\ \A i \in 1..Len(r) : r[i].type = p[i + 1].type

\* Handing the head of a queue to the socket.
LEMMA TransmitEffect ==
  ASSUME NEW e, e \in Endpoint, NEW q \in Queues, e.pending[q] # <<>>
  PROVE  LET f == transmit_head(e, q)
         IN  /\ SameData(e, f)
             /\ f.out = Append(e.out, Msg(e.pending[q][1].type, q, "none"))
             /\ \A r \in Queues \ {q} : f.pending[r] = e.pending[r]
             /\ Len(f.pending[q]) = Len(e.pending[q])
             /\ \A i \in DOMAIN e.pending[q] : f.pending[q][i].type = e.pending[q][i].type
<1> DEFINE p == e.pending[q]
           h == Head(p)
           x == [h EXCEPT !.tries = h.tries + 1]
           g == send_session_message(e, Msg(h.type, q, "none"))
           f == [g EXCEPT !.pending[q] = <<x>> \o Tail(@)]
<1>1. e.pending \in [Queues -> Seq(Entry)] /\ p \in Seq(Entry) /\ p # <<>>
  BY DEF Endpoint
<1>2. h \in Entry /\ h = p[1] /\ Tail(p) \in Seq(Entry)
  BY <1>1
<1>3. x.type = h.type
  BY <1>2 DEF Entry
<1>4. transmit_head(e, q) = f
  BY DEF transmit_head
<1>5. /\ g.pending = e.pending /\ g.out = Append(e.out, Msg(h.type, q, "none"))
      /\ SameData(e, g) /\ DOMAIN g = DOMAIN e
  BY DEF send_session_message, Endpoint, SameData
<1> DEFINE r == <<x>> \o Tail(p)
<1>6. /\ f.pending = [e.pending EXCEPT ![q] = r] /\ f.out = g.out /\ SameData(g, f)
  <2>1. g.pending[q] = p /\ "pending" \in DOMAIN g
    BY <1>5 DEF Endpoint
  <2>2. f = [g EXCEPT !.pending = [g.pending EXCEPT ![q] = <<x>> \o Tail(g.pending[q])]]
    BY <1>1, <1>5 DEF Endpoint
  <2> DEFINE pp == [g.pending EXCEPT ![q] = <<x>> \o Tail(g.pending[q])]
  <2>3. g \in [DOMAIN e -> {g[i] : i \in DOMAIN e}]
    BY <1>5 DEF send_session_message, Endpoint
  <2> HIDE DEF g, x
  <2>4. pp = [e.pending EXCEPT ![q] = r]
    BY <1>5, <2>1
  <2> HIDE DEF pp, f
  <2> QED
    BY <1>5, <2>2, <2>3, <2>4 DEF Endpoint, SameData
<1>7. /\ Len(r) = Len(p) /\ r[1] = x
      /\ \A i \in DOMAIN p : i > 1 => r[i] = p[i]
  <2> HIDE DEF x, p
  <2> QED
    BY <1>1, <1>2
<1>8. f.pending[q] = r /\ \A k \in Queues \ {q} : f.pending[k] = e.pending[k]
  <2> HIDE DEF f, r
  <2> QED
    BY <1>1, <1>6
<1>9. \A i \in DOMAIN p : r[i].type = p[i].type
  <2> HIDE DEF x, r
  <2>1. \A i \in DOMAIN p : i = 1 \/ i > 1
    BY <1>1
  <2> QED
    BY <1>2, <1>3, <1>7, <2>1
<1> HIDE DEF f, g, r
<1> QED
  BY <1>2, <1>4, <1>5, <1>6, <1>7, <1>8, <1>9 DEF SameData

\* A new request goes to the end of its queue, and at once to the socket if
\* it is the only one there.
LEMMA Pushes ==
  ASSUME NEW e, WellFormed(e), NEW q \in Queues, q \notin e.not_interested,
         NEW t \in Requests
  PROVE  LET f == send_message_expecting_response(e, q, t)
         IN  /\ SameData(e, f) /\ Grown(e.pending[q], f.pending[q], t)
             /\ \A r \in Queues \ {q} : f.pending[r] = e.pending[r]
             /\ f.out = IF e.pending[q] = <<>>
                        THEN Append(e.out, Msg(t, q, "none")) ELSE e.out
<1> DEFINE x == [type |-> t, tries |-> 0]
           g == [e EXCEPT !.pending[q] = Append(@, x)]
           p == e.pending[q]
<1>1. e \in Endpoint /\ e.pending \in [Queues -> Seq(Entry)] /\ p \in Seq(Entry)
  BY DEF WellFormed, Endpoint
<1>2. x \in Entry /\ x.type = t
  BY SendTriesAssumption DEF Entry
<1> HIDE DEF x
<1>3. /\ g.pending = [e.pending EXCEPT ![q] = Append(p, x)] /\ g.out = e.out
      /\ SameData(e, g)
  BY <1>1 DEF Endpoint, SameData
<1>3a. g \in Endpoint
  <2>1. [e.pending EXCEPT ![q] = Append(@, x)] \in [Queues -> Seq(Entry)]
    BY <1>1, <1>2
  <2> QED
    BY <1>1, <2>1 DEF Endpoint
<1>4. /\ Append(p, x) \in Seq(Entry) /\ Append(p, x) # <<>>
      /\ Len(Append(p, x)) = Len(p) + 1 /\ Append(p, x)[Len(p) + 1] = x
      /\ \A i \in DOMAIN p : Append(p, x)[i] = p[i] /\ i \in DOMAIN Append(p, x)
      /\ Len(p) + 1 \in DOMAIN Append(p, x)
      /\ p = <<>> => Append(p, x)[1] = x
  <2>1. \A w \in Seq(Entry) : \A y \in Entry :
          /\ Append(w, y) \in Seq(Entry) /\ Append(w, y) # <<>>
          /\ Len(Append(w, y)) = Len(w) + 1 /\ Append(w, y)[Len(w) + 1] = y
          /\ \A i \in DOMAIN w : Append(w, y)[i] = w[i] /\ i \in DOMAIN Append(w, y)
          /\ Len(w) + 1 \in DOMAIN Append(w, y)
    OBVIOUS
  <2>2. \A y \in Entry : Append(<<>>, y)[1] = y
    OBVIOUS
  <2> HIDE DEF p
  <2> QED
    BY <1>1, <1>2, <2>1, <2>2
<1>5. g.pending[q] = Append(p, x) /\ \A r \in Queues \ {q} : g.pending[r] = e.pending[r]
  BY <1>1, <1>3
<1>6. send_message_expecting_response(e, q, t) =
        IF p = <<>> THEN transmit_head(g, q) ELSE g
  BY ZenonT(60) DEF send_message_expecting_response, x
<1> HIDE DEF g, p
<1>7. CASE p = <<>>
  <2> DEFINE f == transmit_head(g, q)
  <2>1. /\ SameData(g, f)
        /\ f.out = Append(g.out, Msg(g.pending[q][1].type, q, "none"))
        /\ \A r \in Queues \ {q} : f.pending[r] = g.pending[r]
        /\ Len(f.pending[q]) = Len(g.pending[q])
        /\ \A i \in DOMAIN g.pending[q] : f.pending[q][i].type = g.pending[q][i].type
    BY <1>3a, <1>4, <1>5, TransmitEffect
  <2> HIDE DEF f
  <2>2. f.out = Append(e.out, Msg(t, q, "none"))
    BY <1>2, <1>3, <1>4, <1>5, <1>7, <2>1
  <2>3. Grown(p, f.pending[q], t)
    BY <1>1, <1>2, <1>4, <1>5, <2>1 DEF Grown
  <2>4. SameData(e, f)
    BY <1>3, <2>1 DEF SameData
  <2> QED
    BY <1>5, <1>6, <1>7, <2>1, <2>2, <2>3, <2>4 DEF f, p
<1>8. CASE p # <<>>
  <2>1. Grown(p, g.pending[q], t)
    BY <1>1, <1>2, <1>4, <1>5 DEF Grown
  <2> QED
    BY <1>3, <1>5, <1>6, <1>8, <2>1 DEF p
<1> QED
  BY <1>7, <1>8

\* The expected response takes the head off its queue, and the next request
\* of the queue goes to the socket.
LEMMA Pops ==
  ASSUME NEW e, WellFormed(e), NEW m \in Message, response_ok(e, m),
         m.dest \notin e.not_interested
  PROVE  LET f == handle_response(e, m)
             p == e.pending[m.dest]
         IN  /\ SameData(e, f) /\ Shrunk(p, f.pending[m.dest])
             /\ \A r \in Queues \ {m.dest} : f.pending[r] = e.pending[r]
             /\ f.out = IF Len(p) = 1 THEN e.out
                        ELSE Append(e.out, Msg(p[2].type, m.dest, "none"))
<1> DEFINE q == m.dest
           g == [e EXCEPT !.pending[m.dest] = Tail(@)]
           p == e.pending[q]
<1>1. /\ e \in Endpoint /\ q \in Queues /\ e.pending \in [Queues -> Seq(Entry)]
      /\ p # <<>> /\ p \in Seq(Entry)
  BY DEF Message, WellFormed, Endpoint, response_ok
<1>2. /\ g.pending = [e.pending EXCEPT ![q] = Tail(p)] /\ g.out = e.out
      /\ SameData(e, g)
  BY <1>1 DEF Endpoint, SameData
<1>3. /\ Tail(p) \in Seq(Entry) /\ Len(Tail(p)) = Len(p) - 1 /\ Len(p) \in Nat
      /\ (Tail(p) = <<>> <=> Len(p) = 1)
      /\ \A i \in DOMAIN Tail(p) : Tail(p)[i] = p[i + 1]
      /\ Tail(p) # <<>> => 1 \in DOMAIN Tail(p) /\ Tail(p)[1] = p[2]
      /\ DOMAIN Tail(p) = 1..Len(Tail(p))
  <2>1. \A w \in Seq(Entry) : w # <<>> =>
          /\ Tail(w) \in Seq(Entry) /\ Len(Tail(w)) = Len(w) - 1 /\ Len(w) \in Nat
          /\ DOMAIN Tail(w) = 1..Len(Tail(w))
          /\ \A i \in DOMAIN Tail(w) : Tail(w)[i] = w[i + 1]
    OBVIOUS
  <2>2. \A w \in Seq(Entry) : (w = <<>> <=> Len(w) = 0) /\ (w # <<>> => 1 \in DOMAIN w)
    OBVIOUS
  <2> HIDE DEF p
  <2>3. Tail(p) \in Seq(Entry) /\ Len(Tail(p)) = Len(p) - 1 /\ Len(p) \in Nat
    BY <1>1, <2>1
  <2> DEFINE r == Tail(p)
  <2> HIDE DEF r
  <2>4. r = <<>> <=> Len(p) = 1
    <3>1. r \in Seq(Entry) /\ Len(r) = Len(p) - 1
      BY <2>3 DEF r
    <3> QED
      BY <2>2, <2>3, <3>1
  <2>5. Tail(p) # <<>> => 1 \in DOMAIN Tail(p) /\ Tail(p)[1] = p[1 + 1]
    BY <1>1, <2>1, <2>2, <2>3
  <2>6. 1 + 1 = 2
    OBVIOUS
  <2> QED
    BY <1>1, <2>1, <2>3, <2>4, <2>5, <2>6 DEF r
<1>4. g \in Endpoint
  <2>1. [e.pending EXCEPT ![q] = Tail(@)] \in [Queues -> Seq(Entry)]
    BY <1>1, <1>3
  <2> QED
    BY <1>1, <2>1 DEF Endpoint
<1>5. g.pending[q] = Tail(p) /\ \A r \in Queues \ {q} : g.pending[r] = e.pending[r]
  BY <1>1, <1>2
<1>6. handle_response(e, m) = IF g.pending[q] = <<>> THEN g ELSE send_queued(g, q)
  BY ZenonT(60) DEF handle_response
<1>7. g.not_interested = e.not_interested
  BY <1>2 DEF SameData
<1> HIDE DEF g, p, q
<1>8. send_queued(g, q) = transmit_head(g, q)
  BY <1>7 DEF send_queued, q
<1>9. CASE Tail(p) = <<>>
  <2>1. Shrunk(p, g.pending[q])
    BY <1>3, <1>5 DEF Shrunk
  <2> QED
    BY <1>2, <1>3, <1>5, <1>6, <1>9, <2>1 DEF p, q
<1>10. CASE Tail(p) # <<>>
  <2> DEFINE f == transmit_head(g, q)
  <2>1. /\ SameData(g, f)
        /\ f.out = Append(g.out, Msg(g.pending[q][1].type, q, "none"))
        /\ \A r \in Queues \ {q} : f.pending[r] = g.pending[r]
        /\ Len(f.pending[q]) = Len(g.pending[q])
        /\ \A i \in DOMAIN g.pending[q] : f.pending[q][i].type = g.pending[q][i].type
    BY <1>1, <1>4, <1>5, <1>10, TransmitEffect
  <2> HIDE DEF f
  <2>2. f.out = Append(e.out, Msg(p[2].type, q, "none"))
    BY <1>2, <1>3, <1>5, <1>10, <2>1
  <2>3. Shrunk(p, f.pending[q])
    BY <1>3, <1>5, <2>1 DEF Shrunk
  <2>4. SameData(e, f)
    BY <1>2, <2>1 DEF SameData
  <2> QED
    BY <1>3, <1>5, <1>6, <1>8, <1>10, <2>1, <2>2, <2>3, <2>4 DEF f, p, q
<1> QED
  BY <1>9, <1>10

\* SetToSeq of a finite set has every element of the set.
LEMMA SetToSeqAll ==
  ASSUME NEW S, IsFiniteSet(S)
  PROVE  \A x \in S : \E i \in DOMAIN SetToSeq(S) : SetToSeq(S)[i] = x
<1> DEFINE n == Cardinality(S)
<1>1. n \in Nat /\ ExistsBijection(1..n, S)
  BY FS_CardinalityType
<1>2. \E f \in [1..n -> S] : IsInjective(f)
  BY <1>1 DEF ExistsBijection, Bijection, Injection
<1>3. SetToSeq(S) \in [1..n -> S] /\ IsInjective(SetToSeq(S))
  BY <1>2 DEF SetToSeq
<1> DEFINE g == SetToSeq(S)
<1> HIDE DEF g, n
<1>4. g \in Injection(1..n, S)
  BY <1>3 DEF g, Injection, IsInjective
<1>5. Cardinality(1..n) = n
  BY <1>1, FS_Interval
<1>6. g \in Surjection(1..n, S)
  BY <1>4, <1>5, FS_Injection DEF n
<1> QED
  BY <1>3, <1>6 DEF Surjection, g

\* The start of a session of a peer that has had nothing to do with a
\* destination: every local destination is announced, once.
LEMMA Announces ==
  ASSUME NEW e, WellFormed(e), e.needs_response = {}, e.not_interested = {},
         \A d \in Dests : e.pending[d] = <<>>
  PROVE  LET f == session_up(e)
             t == DestinationUpType(e)
         IN  /\ f.cause = e.cause /\ f.pstate = "in_session" /\ f.modem = e.modem
             /\ f.local_pdp = e.local_pdp /\ f.peer_pdp = e.peer_pdp
             /\ f.needs_response = {} /\ f.asked = e.asked /\ f.not_interested = {}
             /\ f.pending[Session] = e.pending[Session]
             /\ \A d \in Dests : IF d \in e.local_pdp
                                 THEN Len(f.pending[d]) = 1 /\ f.pending[d][1].type = t
                                 ELSE f.pending[d] = <<>>
             /\ \E s \in Seq(Message) :
                  /\ f.out = e.out \o s
                  /\ \A i \in DOMAIN s :
                       s[i].type = t /\ s[i].dest \in e.local_pdp /\ s[i].status = "none"
                  /\ \A d \in e.local_pdp : \E i \in DOMAIN s :
                       s[i].type = t /\ s[i].dest = d
<1> DEFINE hx    == Heartbeats[~e.modem]
           hy    == Heartbeats[e.modem]
           g     == [e EXCEPT !.heartbeats = hx, !.pstate = "in_session"]
           f     == session_up(e)
           t     == DestinationUpType(e)
           L     == e.local_pdp
           up(d) == Msg(t, d, "none")
           U     == {up(d) : d \in L}
           x     == [type |-> t, tries |-> 1]
           p     == [q \in Queues |-> IF q \in L THEN <<x>> ELSE e.pending[q]]
           s     == SetToSeq(U)
<1>1. /\ e \in Endpoint /\ L \subseteq Dests /\ IsFiniteSet(L) /\ Session \notin L
      /\ e.pending \in [Queues -> Seq(Entry)]
  BY DestsAssumption, FS_Subset DEF WellFormed, Endpoint
<1>2. /\ g \in Endpoint /\ g.pending = e.pending /\ g.out = e.out /\ g.modem = e.modem
      /\ g.cause = e.cause /\ g.pstate = "in_session" /\ g.local_pdp = L
      /\ g.peer_pdp = e.peer_pdp /\ g.needs_response = {} /\ g.asked = e.asked
      /\ g.not_interested = {} /\ DestinationUpType(g) = t
  <2>1. hx \in BOOLEAN
    BY <1>1, HeartbeatsAssumption DEF Endpoint
  <2> HIDE DEF hx
  <2> QED
    BY <1>1, <2>1 DEF Endpoint, PeerStates, DestinationUpType
<1> HIDE DEF g
<1> DEFINE h == sendAllDestinations(g)
<1>3. f = [h EXCEPT !.heartbeat = hy]
  BY ZenonT(60) DEF session_up, g
<1> HIDE DEF hx, hy
<1>4. /\ g.local_pdp \cap g.needs_response = {}
      /\ (g.local_pdp \ g.needs_response) \ g.not_interested = L
      /\ {d \in L : g.pending[d] = <<>>} = L
  BY <1>1, <1>2
<1>5. h = [g EXCEPT !.needs_response = {}, !.pending = p, !.out = @ \o s]
  <2> DEFINE answered == g.local_pdp \cap g.needs_response
             pushed   == (g.local_pdp \ g.needs_response) \ g.not_interested
             first    == {d \in pushed : g.pending[d] = <<>>}
             type     == DestinationUpType(g)
             ans(d)   == Msg("Destination_Announce_Response", d, "Success")
             sent     == {ans(d) : d \in answered} \cup {Msg(type, d, "none") : d \in first}
             pp       == [q \in Queues |->
                            IF q \in pushed
                            THEN Append(g.pending[q],
                                   [type |-> type, tries |-> IF q \in first THEN 1 ELSE 0])
                            ELSE g.pending[q]]
  <2>1. h = [g EXCEPT !.needs_response = @ \ answered, !.pending = pp,
                      !.out = @ \o SetToSeq(sent)]
    BY ZenonT(60) DEF sendAllDestinations
  <2>2. answered = {} /\ pushed = L /\ first = L /\ type = t
    BY <1>2, <1>4
  <2>3. sent = U
    BY <2>2
  <2>4. pp = p
    <3>1. \A q \in L : g.pending[q] = <<>>
      BY <1>1, <1>2
    <3> DEFINE y(q) == [type |-> type, tries |-> IF q \in first THEN 1 ELSE 0]
    <3>2. \A q \in L : y(q) = x
      BY <2>2
    <3>3. \A z : Append(<<>>, z) = <<z>>
      OBVIOUS
    <3> HIDE DEF x, y
    <3>4. \A q \in L : Append(g.pending[q], y(q)) = <<x>>
      BY <3>1, <3>2, <3>3
    <3>5. pp = [q \in Queues |-> IF q \in pushed THEN Append(g.pending[q], y(q))
                                 ELSE g.pending[q]]
      BY DEF y
    <3> HIDE DEF answered, first, type, pushed, pp
    <3> QED
      BY <1>2, <2>2, <3>4, <3>5
  <2>5. g.needs_response \ answered = {}
    BY <1>2
  <2> HIDE DEF answered, pp, sent, p, s
  <2>6. h = [g EXCEPT !.needs_response = {}, !.pending = p, !.out = @ \o SetToSeq(sent)]
    BY <1>2, <2>1, <2>4, <2>5 DEF Endpoint
  <2> QED
    BY <2>3, <2>6 DEF s
<1> HIDE DEF p, s, f, h
<1>6. /\ f.pending = p /\ f.out = g.out \o s /\ f.modem = g.modem
      /\ f.cause = g.cause /\ f.pstate = g.pstate /\ f.local_pdp = g.local_pdp
      /\ f.peer_pdp = g.peer_pdp /\ f.needs_response = {} /\ f.asked = g.asked
      /\ f.not_interested = g.not_interested
  <2>1. f = [g EXCEPT !.needs_response = {}, !.pending = p, !.out = @ \o s, !.heartbeat = hy]
    BY <1>2, <1>3, <1>5 DEF Endpoint
  <2> QED
    BY <1>2, <2>1 DEF Endpoint
<1>7. /\ t \in MessageTypes \cap DestinationTypes
  BY RequestNames DEF DestinationUpType, MessageTypes, Responses, DestinationTypes
<1>8. \A d \in L : up(d) \in Message /\ up(d).type = t /\ up(d).dest = d /\ up(d).status = "none"
  <2> HIDE DEF t
  <2>1. \A d \in L : up(d) \in Message
    BY <1>1, <1>7, Announcement DEF Statuses
  <2> QED
    BY <2>1 DEF Msg
<1>9. IsFiniteSet(U)
  <2> HIDE DEF L, up
  <2>1. [d \in L |-> up(d)] \in Surjection(L, U)
    BY DEF Surjection
  <2> HIDE DEF U
  <2> QED
    BY <1>1, <2>1, FS_Surjection
<1> HIDE DEF L, t, up
<1>10. /\ s \in Seq(U) /\ \A i \in DOMAIN s : s[i] \in U
       /\ \A y \in U : \E i \in DOMAIN s : s[i] = y
  <2> HIDE DEF U
  <2> QED
    BY <1>9, SetToSeqType, SetToSeqAll DEF s
<1>11. U \subseteq Message
  BY <1>8
<1>12. s \in Seq(Message)
  <2> HIDE DEF U
  <2> QED
    BY <1>10, <1>11
<1>13. /\ \A i \in DOMAIN s : s[i].type = t /\ s[i].dest \in L /\ s[i].status = "none"
       /\ \A d \in L : \E i \in DOMAIN s : s[i].type = t /\ s[i].dest = d
  <2>1. \A y \in U : y.type = t /\ y.dest \in L /\ y.status = "none"
    BY <1>8
  <2>2. \A d \in L : \E y \in U : y.type = t /\ y.dest = d
    BY <1>8
  <2> HIDE DEF U
  <2> QED
    BY <1>10, <2>1, <2>2
<1>14. \A d \in Dests : IF d \in L THEN Len(p[d]) = 1 /\ p[d][1].type = t ELSE p[d] = <<>>
  <2>1. \A d \in Dests : p[d] = IF d \in L THEN <<x>> ELSE <<>>
    BY DEF p, Queues
  <2>2. Len(<<x>>) = 1 /\ <<x>>[1] = x /\ x.type = t
    OBVIOUS
  <2> HIDE DEF x
  <2> QED
    BY <2>1, <2>2
<1>15. p[Session] = e.pending[Session]
  BY <1>1 DEF p, Queues
<1> QED
  BY <1>2, <1>6, <1>12, <1>13, <1>14, <1>15 DEF f, t, L

\* A handler does not touch the local destinations; a peer that is already
\* terminating keeps its cause.
Stays(e, f) ==
  /\ f.local_pdp = e.local_pdp
  /\ e.pstate = "terminating" => f.cause = e.cause /\ f.pstate = "terminating"

LEMMA StaysSending ==
  ASSUME NEW e, WellFormed(e)
  PROVE  /\ \A m : Stays(e, send_session_message(e, m))
         /\ \A t, s, q, send : Stays(e, send_simple_response(e, t, s, q, send))
         /\ \A q \in Queues, t \in Requests :
              Stays(e, send_message_expecting_response(e, q, t))
         /\ Stays(e, stop_peer(e))
<1>1. \A m : Stays(e, send_session_message(e, m))
  BY DEF WellFormed, Endpoint, send_session_message, Stays
<1>2. \A t, s, q, send : Stays(e, send_simple_response(e, t, s, q, send))
  BY <1>1 DEF send_simple_response, Stays
<1>3. ASSUME NEW q \in Queues, NEW t \in Requests
      PROVE  Stays(e, send_message_expecting_response(e, q, t))
  <2>1. CASE q \in e.not_interested
    BY <2>1 DEF send_message_expecting_response, Stays
  <2>2. CASE q \notin e.not_interested
    BY <2>2, Pushes DEF SameData, Stays
  <2> QED
    BY <2>1, <2>2
<1>4. Stays(e, stop_peer(e))
  BY DEF WellFormed, Endpoint, stop_peer, Stays
<1> QED
  BY <1>1, <1>2, <1>3, <1>4

LEMMA StaysTerminate ==
  ASSUME NEW e, WellFormed(e), NEW why \in Causes
  PROVE  Stays(e, terminate(e, why))
<1> DEFINE f == [stop_peer(e) EXCEPT !.cause = why]
<1>1. WellFormed(f) /\ f.local_pdp = e.local_pdp
  <2>1. WellFormed(stop_peer(e)) /\ stop_peer(e).local_pdp = e.local_pdp
    BY StopPeer, StaysSending DEF Stays
  <2> QED
    BY <2>1, SameQueues DEF WellFormed, Endpoint
<1> HIDE DEF f
<1>2. Session \in Queues /\ "Session_Termination" \in Requests
  BY RequestNames DEF Queues
<1>3. Stays(f, send_message_expecting_response(f, Session, "Session_Termination"))
  BY <1>1, <1>2, StaysSending
<1>4. terminate(e, why) = IF e.pstate = "terminating" THEN e
        ELSE send_message_expecting_response(f, Session, "Session_Termination")
  BY ZenonT(60) DEF terminate, f
<1> QED
  BY <1>1, <1>3, <1>4 DEF Stays

LEMMA StaysResponse ==
  ASSUME NEW e, WellFormed(e), NEW m \in Message
  PROVE  Stays(e, handle_response(e, m))
<1> DEFINE g == [e EXCEPT !.pending[m.dest] = Tail(@)]
           q == m.dest
<1>1. CASE response_ok(e, m)
  <2>1. /\ e \in Endpoint /\ q \in Queues /\ e.pending \in [Queues -> Seq(Entry)]
        /\ e.pending[q] # <<>>
    BY <1>1 DEF Message, WellFormed, Endpoint, response_ok
  <2>2. Tail(e.pending[q]) \in Seq(Entry)
    BY <2>1
  <2>3. g \in Endpoint /\ SameData(e, g)
    <3>1. [e.pending EXCEPT ![q] = Tail(@)] \in [Queues -> Seq(Entry)]
      BY <2>1, <2>2
    <3> QED
      BY <2>1, <3>1 DEF Endpoint, SameData
  <2>4. handle_response(e, m) = IF g.pending[q] = <<>> THEN g ELSE send_queued(g, q)
    BY <1>1, ZenonT(60) DEF handle_response
  <2> HIDE DEF g, q
  <2>5. ASSUME g.pending[q] # <<>> PROVE SameData(g, send_queued(g, q))
    <3>1. SameData(g, transmit_head(g, q))
      BY <2>1, <2>3, <2>5, TransmitEffect
    <3> QED
      BY <3>1 DEF send_queued, SameData
  <2> QED
    BY <2>3, <2>4, <2>5 DEF SameData, Stays
<1>2. CASE ~response_ok(e, m)
  BY <1>2, StaysTerminate DEF handle_response, Causes
<1> QED
  BY <1>1, <1>2

\* Every message, read in any state.
LEMMA StaysReceive ==
  ASSUME NEW e, WellFormed(e), NEW m \in Message, NEW c \in Inputs
  PROVE  LET f == handle_session_receive(e, m, c)
         IN  /\ f.local_pdp = e.local_pdp
             /\ e.pstate = "terminating" => f.cause = e.cause
<1> DEFINE f == handle_session_receive(e, m, c)
           d == m.dest
           Claim(x) == /\ x.local_pdp = e.local_pdp
                       /\ e.pstate = "terminating" => x.cause = e.cause
<1> SUFFICES Claim(f)
  OBVIOUS
<1>0. Stays(e, e) /\ (\A x : Stays(e, x) => Claim(x))
  BY DEF Stays
<1>0a. m.type \in DestinationTypes => d \in Dests
  BY DEF Message
<1>1. \A why \in Causes : Stays(e, terminate(e, why))
  BY StaysTerminate
<1>2. Stays(e, handle_response(e, m)) /\ WellFormed(handle_response(e, m))
  BY StaysResponse, HandleResponse
<1>3. \A x, y : Stays(e, x) /\ Stays(x, y) => Stays(e, y)
  BY DEF Stays
<1>4. \A x : WellFormed(x) /\ Stays(e, x) =>
        /\ Stays(e, stop_peer(x))
        /\ \A t, s, q, send : Stays(e, send_simple_response(x, t, s, q, send))
        /\ \A why \in Causes : Stays(e, terminate(x, why))
        /\ \A k : Stays(e, send_session_message(x, k))
  BY <1>3, StaysSending, StaysTerminate
<1>5. ASSUME m.type = "Session_Initialization" PROVE Claim(handle_peer_initialization(e, c))
  <2>1. CASE ~c.ip_ok
    BY <1>0, <1>1, <2>1 DEF handle_peer_initialization, Causes
  <2>2. CASE c.ip_ok
    <3> DEFINE r == send_simple_response(e, "Session_Initialization_Response",
                                         "Success", Session, c.send)
    <3>1. WellFormed(r) /\ Stays(e, r)
      BY <1>0, <1>4, SendSimpleResponse, DestsAssumption
      DEF Queues, Statuses, Inputs, MessageTypes, Responses, DestinationTypes
    <3>2. handle_peer_initialization(e, c) = session_up(r)
      BY <2>2 DEF handle_peer_initialization
    <3> HIDE DEF r
    <3>3. session_up(r).local_pdp = r.local_pdp /\ session_up(r).cause = r.cause
      BY <3>1 DEF session_up, sendAllDestinations, WellFormed, Endpoint
    <3> QED
      BY <3>1, <3>2, <3>3 DEF Stays
  <2> QED
    BY <2>1, <2>2
<1>6. Claim(handle_peer_initialization_response(e, m))
  <2> DEFINE r == handle_response(e, m)
  <2> HIDE DEF r
  <2>1. session_up(r).local_pdp = r.local_pdp /\ session_up(r).cause = r.cause
    BY <1>2 DEF session_up, sendAllDestinations, WellFormed, Endpoint, r
  <2> QED
    BY <1>2, <2>1 DEF handle_peer_initialization_response, Stays, r
<1>7. Stays(e, handle_peer_update(e, c)) /\ Stays(e, handle_peer_termination(e, c))
  <2> DEFINE r == send_simple_response(e, "Session_Termination_Response", "none",
                                       Session, c.send)
  <2>1. WellFormed(r) /\ Stays(e, r)
    BY <1>0, <1>4, SendSimpleResponse, DestsAssumption
    DEF Queues, Statuses, Inputs, MessageTypes, Responses, DestinationTypes
  <2>2. Stays(e, stop_peer(r))
    BY <1>4, <2>1
  <2> QED
    BY <1>0, <1>1, <1>4, <2>2 DEF handle_peer_update, handle_peer_termination, Causes
<1>8. Stays(e, handle_peer_termination_response(e, m))
  BY <1>0, <1>2, <1>4 DEF handle_peer_termination_response
<1>9. ASSUME NEW x, WellFormed(x), Stays(e, x), d \in Dests
      PROVE  Stays(e, handle_destination_up(x, m, c))
  <2> DEFINE seen == IF d \in x.peer_pdp THEN x
                     ELSE [x EXCEPT !.not_interested = @ \ {d},
                                    !.peer_pdp = IF c.status = "Success"
                                                 THEN @ \cup {d} ELSE @]
  <2>1. WellFormed(seen) /\ Stays(e, seen)
    <3>1. CASE d \in x.peer_pdp
      BY <1>9, <3>1
    <3>2. CASE d \notin x.peer_pdp
      <4> DEFINE P == IF c.status = "Success" THEN x.peer_pdp \cup {d} ELSE x.peer_pdp
                 N == x.not_interested \ {d}
                 y == [x EXCEPT !.not_interested = N, !.peer_pdp = P]
      <4>1. seen = y
        BY <3>2, <1>9 DEF WellFormed, Endpoint
      <4>2. P \in SUBSET Dests /\ N \in SUBSET Dests
        BY <1>9 DEF WellFormed, Endpoint
      <4> HIDE DEF P, N, seen
      <4>3. y \in Endpoint /\ y.pending = x.pending /\ Stays(x, y)
        BY <1>9, <4>2 DEF WellFormed, Endpoint, Stays
      <4> HIDE DEF y
      <4> QED
        BY <1>3, <1>9, <4>1, <4>3 DEF WellFormed
    <3> QED
      BY <3>1, <3>2
  <2>2. \/ handle_destination_up(x, m, c) \in {terminate(x, "Inconsistent_Data"), seen}
        \/ \E t, s, q, send : handle_destination_up(x, m, c) =
             send_simple_response(seen, t, s, q, send)
    BY ZenonT(60) DEF handle_destination_up
  <2> HIDE DEF seen
  <2> QED
    BY <1>4, <1>9, <2>1, <2>2 DEF Causes
<1>10. ASSUME d \in Dests PROVE Stays(e, handle_destination_up_response(e, m, c))
  <2> DEFINE served == handle_response(e, m)
             marked == IF m.status = "Not_Interested"
                       THEN [served EXCEPT !.not_interested = @ \cup {m.dest}]
                       ELSE served
  <2> HIDE DEF served
  <2>0. WellFormed(served) /\ Stays(e, served)
    BY <1>2 DEF served
  <2>1. WellFormed(marked) /\ Stays(e, marked)
    <3> DEFINE y == [served EXCEPT !.not_interested = @ \cup {m.dest}]
    <3>1. y \in Endpoint /\ y.pending = served.pending /\ Stays(served, y)
      BY <1>10, <2>0 DEF WellFormed, Endpoint, Stays
    <3> HIDE DEF y
    <3>2. WellFormed(y) /\ Stays(e, y)
      BY <1>3, <2>0, <3>1 DEF WellFormed
    <3>3. marked \in {y, served}
      BY Zenon DEF y
    <3> QED
      BY <2>0, <3>2, <3>3
  <2>2. handle_destination_up_response(e, m, c) \in
          {served, marked, handle_destination_up(marked, m, c)}
    BY ZenonT(60) DEF handle_destination_up_response, served
  <2> HIDE DEF marked
  <2> QED
    BY <1>9, <1>10, <2>0, <2>1, <2>2
<1>11. ASSUME d \in Dests PROVE Stays(e, handle_destination_announce(e, m, c))
  <2> DEFINE added == [e EXCEPT !.not_interested = @ \ {d}, !.peer_pdp = @ \cup {d}]
             await == [added EXCEPT !.needs_response = @ \cup {d}]
             calm  == [await EXCEPT !.needs_response = @ \ {d}]
  <2>1. /\ added \in Endpoint /\ added.pending = e.pending /\ Stays(e, added)
        /\ await \in Endpoint /\ await.pending = e.pending /\ Stays(e, await)
        /\ calm \in Endpoint /\ calm.pending = e.pending /\ Stays(e, calm)
    BY <1>11 DEF WellFormed, Endpoint, Stays
  <2>2. \/ handle_destination_announce(e, m, c) \in {await, destination_up(await, d)}
        \/ \E x \in {e, added} : \E t, s, q, send :
             handle_destination_announce(e, m, c) = send_simple_response(x, t, s, q, send)
    BY ZenonT(60) DEF handle_destination_announce
  <2>3. \/ destination_up(await, d) =
             send_message_expecting_response(await, d, DestinationUpType(await))
        \/ \E k : destination_up(await, d) = send_session_message(calm, k)
    BY ZenonT(60) DEF destination_up
  <2> HIDE DEF added, await, calm
  <2>4. WellFormed(added) /\ WellFormed(await) /\ WellFormed(calm)
    BY <2>1 DEF WellFormed
  <2>5. Stays(await, send_message_expecting_response(await, d, DestinationUpType(await)))
    BY <1>11, <2>4, StaysSending, RequestNames DEF DestinationUpType, Queues
  <2> QED
    BY <1>0, <1>3, <1>4, <2>1, <2>2, <2>3, <2>4, <2>5
<1>12. Stays(e, handle_destination_update(e, m, c))
  BY <1>0, <1>1 DEF handle_destination_update, Causes
<1>13. ASSUME d \in Dests PROVE Stays(e, handle_destination_down(e, m, c))
  <2> DEFINE gone  == RemovePeerDestination(e, d)
             known == [e EXCEPT !.not_interested = @ \cup {d}]
  <2>1. /\ gone \in Endpoint /\ gone.pending = e.pending /\ Stays(e, gone)
        /\ known \in Endpoint /\ known.pending = e.pending /\ Stays(e, known)
    BY <1>13 DEF WellFormed, Endpoint, Stays, RemovePeerDestination
  <2>2. \/ handle_destination_down(e, m, c) = terminate(e, "Invalid_Destination")
        \/ \E x \in {gone, known} : \E t, s, q, send :
             handle_destination_down(e, m, c) = send_simple_response(x, t, s, q, send)
    BY ZenonT(60) DEF handle_destination_down
  <2> HIDE DEF gone, known
  <2>3. WellFormed(gone) /\ WellFormed(known)
    BY <2>1 DEF WellFormed
  <2> QED
    BY <1>1, <1>4, <2>1, <2>2, <2>3 DEF Causes
<1>14. ASSUME d \in Dests PROVE Stays(e, handle_link_characteristics_request(e, m, c))
  <2>1. Stays(e, [e EXCEPT !.asked = @ \cup {d}])
    BY <1>14 DEF WellFormed, Endpoint, Stays
  <2> QED
    BY <1>0, <1>1, <1>4, <2>1
    DEF handle_link_characteristics_request, link_characteristics_response, Causes
<1>15. Stays(e, handle_link_characteristics_response(e, m))
  BY <1>2, <1>4 DEF handle_link_characteristics_response, Causes
<1>16. CASE m.type = "EOF"
  BY <1>0, <1>4, <1>16 DEF handle_session_receive
<1>17. CASE /\ m.type # "EOF"
            /\ \/ ~c.valid \/ ~sender_ok(e, m)
               \/ ~status_ok(m) \/ status_code_failure(m)
  BY <1>0, <1>1, <1>17
  DEF handle_session_receive, handle_peer_signal, status_code_failure,
      TerminateStatuses, Causes
<1>18. CASE m.type # "EOF" /\ c.valid /\ sender_ok(e, m) /\ status_ok(m) /\ ~status_code_failure(m)
  <2>1. f = handle_peer_signal(e, m, c)
    BY <1>18 DEF handle_session_receive
  <2>2. m.type \in Requests \cup Responses \cup {"Heartbeat", "Destination_Update"}
    BY <1>18 DEF Message, MessageTypes, Unacknowledged
  <2>3. m.type = "Destination_Up" => ~e.modem
    BY <1>18 DEF sender_ok, ModemOnly
  <2> HIDE DEF f, Claim, d
  <2>4. \/ f = e
        \/ d \in Dests /\ f \in {handle_destination_up(e, m, c),
                                 handle_destination_up_response(e, m, c),
                                 handle_destination_announce(e, m, c),
                                 handle_destination_down(e, m, c),
                                 handle_link_characteristics_request(e, m, c)}
        \/ f \in {handle_destination_update(e, m, c), handle_response(e, m),
                  handle_link_characteristics_response(e, m),
                  handle_peer_update(e, c), handle_peer_termination(e, c),
                  handle_peer_initialization_response(e, m),
                  handle_peer_termination_response(e, m)}
        \/ m.type = "Session_Initialization" /\ f = handle_peer_initialization(e, c)
    BY <1>0a, <1>18, <2>1, <2>2, <2>3, RequestNames
    DEF handle_peer_signal, Responses, DestinationTypes
  <2> QED
    BY <1>0, <1>2, <1>5, <1>6, <1>7, <1>8, <1>9, <1>10, <1>11, <1>12, <1>13, <1>14,
       <1>15, <2>4
<1> QED
  BY <1>16, <1>17, <1>18

-----------------------------------------------------------------------------
(* What a message that has nothing wrong with it does when it is read.     *)

\* The handler of each message.
LEMMA Dispatches ==
  ASSUME NEW e, NEW m, NEW c, c.valid, sender_ok(e, m), m.status # "Invalid_Data"
  PROVE  LET f == handle_session_receive(e, m, c)
         IN  /\ m.type = "EOF" => f = stop_peer(e)
             /\ m.type = "Heartbeat" => f = e
             /\ m.type = "Session_Update" => f = handle_peer_update(e, c)
             /\ m.type = "Session_Termination" => f = handle_peer_termination(e, c)
             /\ m.type \in {"Session_Update_Response", "Destination_Down_Response"} =>
                  f = handle_response(e, m)
             /\ m.type = "Session_Initialization" =>
                  f = handle_peer_initialization(e, c)
             /\ m.type = "Session_Initialization_Response" =>
                  f = handle_peer_initialization_response(e, m)
             /\ m.type = "Destination_Up" /\ ~e.modem => f = handle_destination_up(e, m, c)
             /\ m.type = "Destination_Up_Response" =>
                  f = handle_destination_up_response(e, m, c)
             /\ m.type = "Destination_Down" => f = handle_destination_down(e, m, c)
<1> DEFINE f == handle_session_receive(e, m, c)
<1>1. ~status_code_failure(m)
  BY DEF status_code_failure, TerminateStatuses
<1>2. m.type = "EOF" => f = stop_peer(e)
  BY DEF handle_session_receive
<1>3. m.type # "EOF" => f = handle_peer_signal(e, m, c)
  BY DEF handle_session_receive
<1> HIDE DEF f
<1>4. m.type = "Heartbeat" => f = e
  BY <1>1, <1>3 DEF handle_peer_signal, status_ok
<1>5. m.type = "Session_Update" => f = handle_peer_update(e, c)
  BY <1>1, <1>3 DEF handle_peer_signal, status_ok
<1>6. m.type = "Session_Termination" => f = handle_peer_termination(e, c)
  BY <1>1, <1>3 DEF handle_peer_signal, status_ok
<1>7. m.type \in {"Session_Update_Response", "Destination_Down_Response"} =>
        f = handle_response(e, m)
  BY <1>1, <1>3 DEF handle_peer_signal, status_ok
<1>8. m.type = "Session_Initialization" => f = handle_peer_initialization(e, c)
  BY <1>1, <1>3 DEF handle_peer_signal, status_ok
<1>9. m.type = "Session_Initialization_Response" =>
        f = handle_peer_initialization_response(e, m)
  BY <1>1, <1>3 DEF handle_peer_signal, status_ok
<1>10. m.type = "Destination_Up" /\ ~e.modem => f = handle_destination_up(e, m, c)
  BY <1>1, <1>3 DEF handle_peer_signal, status_ok
<1>11. m.type = "Destination_Up_Response" => f = handle_destination_up_response(e, m, c)
  BY <1>1, <1>3 DEF handle_peer_signal, status_ok
<1>12. m.type = "Destination_Down" => f = handle_destination_down(e, m, c)
  BY <1>1, <1>3 DEF handle_peer_signal, status_ok
<1> QED
  BY <1>2, <1>4, <1>5, <1>6, <1>7, <1>8, <1>9, <1>10, <1>11, <1>12 DEF f

\* A response that should_send_response lets through.
LEMMA Responds ==
  ASSUME NEW e, WellFormed(e), NEW t, NEW q, NEW s \in Statuses
  PROVE  LET f == send_simple_response(e, t, s, q, TRUE)
         IN  /\ SameData(e, f) /\ f.pending = e.pending
             /\ f.out = Append(e.out, Msg(t, q, s))
<1>1. add_status(s) = s
  BY DEF add_status, Statuses
<1> QED
  BY <1>1 DEF send_simple_response, send_session_message, SameData, WellFormed, Endpoint

\* Session_Update, and the messages that end the session.
LEMMA ReadsSession ==
  ASSUME NEW e, WellFormed(e), NEW c \in Inputs, c.ip_ok, c.metrics_known, c.send
  PROVE  /\ LET f == handle_peer_update(e, c)
            IN  /\ SameData(e, f) /\ f.pending = e.pending
                /\ f.out = Append(e.out, Msg("Session_Update_Response", Session, "Success"))
         /\ \A f \in {stop_peer(e), handle_peer_termination(e, c)} :
              /\ f.pstate = "terminating" /\ f.cause = e.cause
              /\ f.local_pdp = e.local_pdp /\ f.modem = e.modem
<1>1. c.send = TRUE /\ "Success" \in Statuses /\ "none" \in Statuses
  BY DEF Inputs, Statuses
<1>2. handle_peer_update(e, c) =
        send_simple_response(e, "Session_Update_Response", "Success", Session, TRUE)
  BY <1>1 DEF handle_peer_update
<1>3. \A g : g \in Endpoint =>
        LET f == stop_peer(g)
        IN  /\ f.pstate = "terminating" /\ f.cause = g.cause
            /\ f.local_pdp = g.local_pdp /\ f.modem = g.modem
  BY DEF stop_peer, Endpoint
<1> DEFINE g == send_simple_response(e, "Session_Termination_Response", "none", Session, TRUE)
<1>4. SameData(e, g)
  BY <1>1, Responds
<1>5. WellFormed(g)
  BY <1>1, SendSimpleResponse, DestsAssumption
  DEF Queues, Statuses, Responses, DestinationTypes
<1>6. handle_peer_termination(e, c) = stop_peer(g)
  BY <1>1 DEF handle_peer_termination
<1> HIDE DEF g
<1>7. \A f \in {stop_peer(e), stop_peer(g)} :
        /\ f.pstate = "terminating" /\ f.cause = e.cause
        /\ f.local_pdp = e.local_pdp /\ f.modem = e.modem
  BY <1>3, <1>4, <1>5 DEF WellFormed, SameData
<1>8. LET f == send_simple_response(e, "Session_Update_Response", "Success", Session, TRUE)
      IN  /\ SameData(e, f) /\ f.pending = e.pending
          /\ f.out = Append(e.out, Msg("Session_Update_Response", Session, "Success"))
  BY <1>1, Responds
<1> QED
  BY <1>2, <1>6, <1>7, <1>8

\* Destination_Up about a destination that the router does not have.
LEMMA ReadsUp ==
  ASSUME NEW e, WellFormed(e), e.out = <<>>, NEW m \in Message, m.type = "Destination_Up",
         m.dest \notin e.peer_pdp, NEW c \in Inputs, c.ip_ok, c.send
  PROVE  LET f == handle_destination_up(e, m, c)
             d == m.dest
         IN  /\ f.cause = e.cause /\ f.pstate = e.pstate /\ f.modem = e.modem
             /\ f.local_pdp = e.local_pdp /\ f.needs_response = e.needs_response
             /\ f.asked = e.asked /\ f.not_interested = e.not_interested \ {d}
             /\ f.peer_pdp = IF c.status = "Success" THEN e.peer_pdp \cup {d} ELSE e.peer_pdp
             /\ f.pending = e.pending
             /\ f.out = <<Msg("Destination_Up_Response", d, c.status)>>
<1> DEFINE d == m.dest
           N == e.not_interested \ {d}
           P == IF c.status = "Success" THEN e.peer_pdp \cup {d} ELSE e.peer_pdp
           g == [e EXCEPT !.not_interested = N, !.peer_pdp = P]
           f == handle_destination_up(e, m, c)
<1>1. d \in Dests
  BY DEF Message, DestinationTypes
<1>2. /\ c.send = TRUE /\ c.status \in Statuses /\ m.type \in Requests
      /\ ResponseTo[m.type] = "Destination_Up_Response"
  BY RequestNames DEF Inputs, Statuses, ResponseTo
<1>3. g = [e EXCEPT !.not_interested = @ \ {d},
                    !.peer_pdp = IF c.status = "Success" THEN @ \cup {d} ELSE @]
  BY DEF WellFormed, Endpoint
<1>4. f = send_simple_response(g, "Destination_Up_Response", c.status, d, TRUE)
  BY <1>2, <1>3 DEF handle_destination_up
<1>5. N \in SUBSET Dests /\ P \in SUBSET Dests
  BY <1>1 DEF WellFormed, Endpoint
<1> HIDE DEF N, P, d, f
<1>6. /\ g \in Endpoint /\ g.pending = e.pending /\ g.out = e.out
      /\ g.cause = e.cause /\ g.pstate = e.pstate /\ g.modem = e.modem
      /\ g.local_pdp = e.local_pdp /\ g.needs_response = e.needs_response
      /\ g.asked = e.asked /\ g.not_interested = N /\ g.peer_pdp = P
  BY <1>5 DEF WellFormed, Endpoint
<1> HIDE DEF g
<1>7. WellFormed(g)
  BY <1>6 DEF WellFormed
<1>8. /\ SameData(g, f) /\ f.pending = g.pending
      /\ f.out = Append(g.out, Msg("Destination_Up_Response", d, c.status))
  <2> DEFINE s == c.status
             t == "Destination_Up_Response"
  <2>1. s \in Statuses /\ f = send_simple_response(g, t, s, d, TRUE)
    BY <1>2, <1>4
  <2> HIDE DEF s, t
  <2>2. /\ SameData(g, f) /\ f.pending = g.pending
        /\ f.out = Append(g.out, Msg(t, d, s))
    BY <1>7, <2>1, Responds
  <2> QED
    BY <2>2 DEF s, t
<1>9. f.out = <<Msg("Destination_Up_Response", d, c.status)>>
  BY <1>6, <1>8
<1> QED
  BY <1>6, <1>8, <1>9 DEF SameData, N, P, d, f

\* Destination_Down about a destination that the router has.
LEMMA ReadsDown ==
  ASSUME NEW e, WellFormed(e), e.out = <<>>, NEW m \in Message, m.type = "Destination_Down",
         m.dest \in e.peer_pdp, NEW c \in Inputs, c.send
  PROVE  LET f == handle_destination_down(e, m, c)
             d == m.dest
         IN  /\ f.cause = e.cause /\ f.pstate = e.pstate /\ f.modem = e.modem
             /\ f.local_pdp = e.local_pdp /\ f.needs_response = e.needs_response \ {d}
             /\ f.asked = e.asked /\ f.not_interested = e.not_interested
             /\ f.peer_pdp = e.peer_pdp \ {d} /\ f.pending = e.pending
             /\ f.out = <<Msg("Destination_Down_Response", d, "Success")>>
<1> DEFINE d == m.dest
           g == RemovePeerDestination(e, d)
           f == handle_destination_down(e, m, c)
<1>1. d \in Dests
  BY DEF WellFormed, Endpoint
<1>2. c.send = TRUE /\ "Success" \in Statuses
  BY DEF Inputs, Statuses
<1>3. f = send_simple_response(g, "Destination_Down_Response", "Success", d, TRUE)
  BY <1>2 DEF handle_destination_down
<1>4. WellFormed(g)
  BY <1>1, RemoveDestination
<1> HIDE DEF d, f
<1>5. /\ g.pending = e.pending /\ g.out = e.out
      /\ g.cause = e.cause /\ g.pstate = e.pstate /\ g.modem = e.modem
      /\ g.local_pdp = e.local_pdp /\ g.needs_response = e.needs_response \ {d}
      /\ g.asked = e.asked /\ g.not_interested = e.not_interested
      /\ g.peer_pdp = e.peer_pdp \ {d}
  BY DEF WellFormed, Endpoint, RemovePeerDestination
<1> HIDE DEF g
<1>6. /\ SameData(g, f) /\ f.pending = g.pending
      /\ f.out = Append(g.out, Msg("Destination_Down_Response", d, "Success"))
  BY <1>2, <1>3, <1>4, Responds
<1>7. f.out = <<Msg("Destination_Down_Response", d, "Success")>>
  BY <1>5, <1>6
<1> QED
  BY <1>5, <1>6, <1>7 DEF SameData, d, f

\* The response to Destination_Up at the modem: the queue goes on, and a
\* refusal is noted.
LEMMA ReadsUpResponse ==
  ASSUME NEW e, WellFormed(e), e.modem, NEW m \in Message,
         m.type = "Destination_Up_Response", response_ok(e, m), NEW c
  PROVE  LET f == handle_destination_up_response(e, m, c)
             g == handle_response(e, m)
         IN  /\ f.cause = g.cause /\ f.pstate = g.pstate /\ f.modem = g.modem
             /\ f.local_pdp = g.local_pdp /\ f.needs_response = g.needs_response
             /\ f.asked = g.asked /\ f.peer_pdp = g.peer_pdp
             /\ f.pending = g.pending /\ f.out = g.out
             /\ f.not_interested = IF m.status = "Not_Interested"
                                   THEN g.not_interested \cup {m.dest}
                                   ELSE g.not_interested
<1> DEFINE g == handle_response(e, m)
           h == [g EXCEPT !.not_interested = @ \cup {m.dest}]
<1>1. WellFormed(g)
  BY HandleResponse
<1>2. handle_destination_up_response(e, m, c) =
        IF m.status = "Not_Interested" THEN h ELSE g
  BY DEF handle_destination_up_response
<1> HIDE DEF g
<1>3. /\ h.pending = g.pending /\ h.out = g.out
      /\ h.cause = g.cause /\ h.pstate = g.pstate /\ h.modem = g.modem
      /\ h.local_pdp = g.local_pdp /\ h.needs_response = g.needs_response
      /\ h.asked = g.asked /\ h.not_interested = g.not_interested \cup {m.dest}
      /\ h.peer_pdp = g.peer_pdp
  BY <1>1 DEF WellFormed, Endpoint
<1> HIDE DEF h
<1> QED
  BY <1>2, <1>3 DEF g

\* A modem has answered Session_Initialization, and announces every local
\* destination.
Initialized(e, f) ==
  /\ f.cause = e.cause /\ f.pstate = "in_session" /\ f.modem = e.modem
  /\ f.local_pdp = e.local_pdp /\ f.peer_pdp = e.peer_pdp
  /\ f.needs_response = {} /\ f.asked = e.asked /\ f.not_interested = {}
  /\ f.pending[Session] = e.pending[Session]
  /\ \A d \in Dests :
       IF d \in e.local_pdp
       THEN Len(f.pending[d]) = 1 /\ f.pending[d][1].type = "Destination_Up"
       ELSE f.pending[d] = <<>>
  /\ \E s \in Seq(Message) :
       /\ f.out = <<Msg("Session_Initialization_Response", Session, "Success")>> \o s
       /\ \A i \in DOMAIN s : /\ s[i].type = "Destination_Up"
                              /\ s[i].dest \in e.local_pdp /\ s[i].status = "none"
       /\ \A d \in e.local_pdp : \E i \in DOMAIN s :
            s[i].type = "Destination_Up" /\ s[i].dest = d

\* Session_Initialization at a modem.
LEMMA ReadsInitialization ==
  ASSUME NEW e, WellFormed(e), e.out = <<>>, e.modem, e.needs_response = {},
         e.not_interested = {}, \A d \in Dests : e.pending[d] = <<>>,
         NEW c \in Inputs, c.ip_ok, c.send
  PROVE  Initialized(e, handle_peer_initialization(e, c))
<1> DEFINE t == "Session_Initialization_Response"
           r == send_simple_response(e, t, "Success", Session, TRUE)
           f == handle_peer_initialization(e, c)
<1>1. c.send = TRUE /\ "Success" \in Statuses
  BY DEF Inputs, Statuses
<1>2. f = session_up(r)
  BY <1>1 DEF handle_peer_initialization
<1>3. WellFormed(r)
  BY <1>1, SendSimpleResponse, DestsAssumption
  DEF Queues, Statuses, Responses, DestinationTypes
<1> DEFINE ok == "Success"
<1> HIDE DEF t, f, ok
<1>4. SameData(e, r) /\ r.pending = e.pending /\ r.out = Append(e.out, Msg(t, Session, ok))
  <2>1. ok \in Statuses /\ r = send_simple_response(e, t, ok, Session, TRUE)
    BY <1>1 DEF ok
  <2> HIDE DEF r
  <2>2. LET g == send_simple_response(e, t, ok, Session, TRUE)
        IN  /\ SameData(e, g) /\ g.pending = e.pending
            /\ g.out = Append(e.out, Msg(t, Session, ok))
    BY <2>1, Responds, Zenon
  <2> QED
    BY <2>1, <2>2, Zenon
<1> HIDE DEF r
<1>5. r.out = <<Msg(t, Session, ok)>>
  BY <1>4
<1>6. DestinationUpType(r) = "Destination_Up"
  BY <1>4 DEF SameData, DestinationUpType
<1>7. /\ r.needs_response = {} /\ r.not_interested = {} /\ r.local_pdp = e.local_pdp
      /\ \A d \in Dests : r.pending[d] = <<>>
  BY <1>4 DEF SameData
<1> DEFINE U == DestinationUpType(r)
<1> HIDE DEF U
<1>8. /\ f.cause = r.cause /\ f.pstate = "in_session" /\ f.modem = r.modem
      /\ f.local_pdp = r.local_pdp /\ f.peer_pdp = r.peer_pdp
      /\ f.needs_response = {} /\ f.asked = r.asked /\ f.not_interested = {}
      /\ f.pending[Session] = r.pending[Session]
      /\ \A d \in Dests : IF d \in r.local_pdp
                          THEN Len(f.pending[d]) = 1 /\ f.pending[d][1].type = U
                          ELSE f.pending[d] = <<>>
      /\ \E s \in Seq(Message) :
           /\ f.out = r.out \o s
           /\ \A i \in DOMAIN s :
                s[i].type = U /\ s[i].dest \in r.local_pdp /\ s[i].status = "none"
           /\ \A d \in r.local_pdp : \E i \in DOMAIN s :
                s[i].type = U /\ s[i].dest = d
  BY <1>2, <1>3, <1>7, Announces DEF U
<1>9. PICK s \in Seq(Message) :
        /\ f.out = r.out \o s
        /\ \A i \in DOMAIN s :
             s[i].type = U /\ s[i].dest \in r.local_pdp /\ s[i].status = "none"
        /\ \A d \in r.local_pdp : \E i \in DOMAIN s : s[i].type = U /\ s[i].dest = d
  BY <1>8
<1>10. /\ f.out = <<Msg(t, Session, ok)>> \o s
       /\ \A i \in DOMAIN s : /\ s[i].type = "Destination_Up"
                              /\ s[i].dest \in e.local_pdp /\ s[i].status = "none"
       /\ \A d \in e.local_pdp : \E i \in DOMAIN s :
            s[i].type = "Destination_Up" /\ s[i].dest = d
  BY <1>5, <1>6, <1>7, <1>9 DEF U
<1>11. \A d \in Dests :
         IF d \in e.local_pdp
         THEN Len(f.pending[d]) = 1 /\ f.pending[d][1].type = "Destination_Up"
         ELSE f.pending[d] = <<>>
  BY <1>6, <1>7, <1>8 DEF U
<1>12. /\ f.cause = e.cause /\ f.pstate = "in_session" /\ f.modem = e.modem
       /\ f.local_pdp = e.local_pdp /\ f.peer_pdp = e.peer_pdp
       /\ f.needs_response = {} /\ f.asked = e.asked /\ f.not_interested = {}
       /\ f.pending[Session] = e.pending[Session]
  BY <1>4, <1>8 DEF SameData
<1> QED
  BY <1>10, <1>11, <1>12 DEF f, t, ok, Initialized

\* Session_Initialization_Response at a router that has no destinations.
LEMMA ReadsInitializationResponse ==
  ASSUME NEW e, WellFormed(e), e.needs_response = {}, e.not_interested = {},
         e.local_pdp = {}, \A d \in Dests : e.pending[d] = <<>>,
         NEW m \in Message, m.dest = Session, response_ok(e, m)
  PROVE  LET f == handle_peer_initialization_response(e, m)
             p == e.pending[Session]
         IN  /\ f.cause = e.cause /\ f.pstate = "in_session" /\ f.modem = e.modem
             /\ f.local_pdp = {} /\ f.peer_pdp = e.peer_pdp
             /\ f.needs_response = {} /\ f.asked = e.asked /\ f.not_interested = {}
             /\ Shrunk(p, f.pending[Session])
             /\ \A d \in Dests : f.pending[d] = <<>>
             /\ f.out = IF Len(p) = 1 THEN e.out
                        ELSE Append(e.out, Msg(p[2].type, Session, "none"))
<1> DEFINE r == handle_response(e, m)
           f == handle_peer_initialization_response(e, m)
           p == e.pending[Session]
<1>1. f = session_up(r)
  BY DEF handle_peer_initialization_response
<1>2. WellFormed(r)
  BY HandleResponse
<1>3. /\ SameData(e, r) /\ Shrunk(p, r.pending[Session])
      /\ \A q \in Queues \ {Session} : r.pending[q] = e.pending[q]
      /\ r.out = IF Len(p) = 1 THEN e.out
                 ELSE Append(e.out, Msg(p[2].type, Session, "none"))
  BY Pops
<1> HIDE DEF r, f, p
<1>4. \A d \in Dests : r.pending[d] = <<>>
  BY <1>3, DestsAssumption DEF Queues
<1>5. r.needs_response = {} /\ r.not_interested = {} /\ r.local_pdp = {}
  BY <1>3 DEF SameData
<1>6. /\ f.cause = r.cause /\ f.pstate = "in_session" /\ f.modem = r.modem
      /\ f.local_pdp = r.local_pdp /\ f.peer_pdp = r.peer_pdp
      /\ f.needs_response = {} /\ f.asked = r.asked /\ f.not_interested = {}
      /\ f.pending[Session] = r.pending[Session]
      /\ \A d \in Dests : IF d \in r.local_pdp
                          THEN Len(f.pending[d]) = 1 /\ f.pending[d][1].type = DestinationUpType(r)
                          ELSE f.pending[d] = <<>>
      /\ \E s \in Seq(Message) :
           /\ f.out = r.out \o s
           /\ \A i \in DOMAIN s : s[i].dest \in r.local_pdp
  BY <1>1, <1>2, <1>4, <1>5, Announces
<1>7. f.out = r.out
  <2>1. PICK s \in Seq(Message) : f.out = r.out \o s /\ \A i \in DOMAIN s : s[i].dest \in r.local_pdp
    BY <1>6
  <2>2. s = <<>>
    BY <1>5, <2>1
  <2>3. r.out \in Seq(Message)
    BY <1>2 DEF WellFormed, Endpoint
  <2> QED
    BY <2>1, <2>2, <2>3
<1>8. \A d \in Dests : f.pending[d] = <<>>
  BY <1>5, <1>6
<1> QED
  BY <1>3, <1>5, <1>6, <1>7, <1>8 DEF SameData, f, p

=============================================================================
