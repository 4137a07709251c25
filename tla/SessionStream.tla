---------------------------- MODULE SessionStream ----------------------------
(***************************************************************************)
(* One direction of a session's TCP connection: Peer::send_session_message  *)
(* on one side, Peer::handle_session_receive on the other.  TCP keeps the   *)
(* bytes in order and delivers them in pieces of any size.                  *)
(*                                                                         *)
(* Sending.  send_session_message starts a boost::asio::async_write and     *)
(* does not wait.  The write first tries the socket; bytes that do not fit  *)
(* are written later, from the memory the message was in.  A write with     *)
(* nothing accepted waits in the reactor's queue for room; one accepted in  *)
(* part is continued by a completion handler, and until that handler runs   *)
(* another write may start.  Only a message awaiting a response is kept     *)
(* (ResponsePending::msg_buffer); the others are local variables of the     *)
(* function that sent them, so a continued write reads freed memory.        *)
(*                                                                         *)
(* Receiving.  The handler reads into what is left of signal_recv_buffer,   *)
(* hands on every complete message, moves the rest to the front and reads   *)
(* again.  It runs with the library mutex held, but the other end keeps     *)
(* sending meanwhile, so each pass of its loop is a step.                   *)
(***************************************************************************)
EXTENDS Integers, Sequences

CONSTANTS
  HeaderSize,    \* bytes of the message id and the message length
  BodyLength(_), \* the length field of a header
  SocketSize,    \* bytes the connection holds between write and read
  BufferSize,    \* sizeof(signal_recv_buffer), MAX_SIGNAL_SIZE
  Freed,         \* the bytes that freed memory may hold
  MaxSent        \* bound: messages sent in a behaviour

ASSUME StreamAssumption ==
  /\ HeaderSize \in Nat \ {0} /\ SocketSize \in Nat \ {0}
  /\ BufferSize \in Nat /\ MaxSent \in Nat

VARIABLES
  sent,       \* messages given to send_session_message so far
  posted,     \* writes accepted in part, each waiting for its handler to run
  waiting,    \* writes waiting in the reactor for room in the socket
  wire,       \* bytes in the connection
  buffer,     \* the first signal_recv_len bytes of signal_recv_buffer
  receiving,  \* FALSE while handle_session_receive runs
  handled,    \* messages given to handle_peer_signal so far
  spoiled     \* history: writes have overlapped, or freed memory was written

sendVars    == <<sent, posted, waiting, spoiled>>
receiveVars == <<buffer, receiving, handled>>
streamVars  == <<sent, posted, waiting, wire, buffer, receiving, handled, spoiled>>

StreamInit ==
  /\ sent = <<>> /\ posted = <<>> /\ waiting = <<>> /\ wire = <<>>
  /\ buffer = <<>> /\ receiving = TRUE /\ handled = <<>> /\ spoiled = FALSE

-----------------------------------------------------------------------------
(* Sending *)

Drop1(s, n)  == SubSeq(s, n + 1, Len(s))
SocketRoom   == SocketSize - Len(wire)
Accepted(m)  == IF Len(m) <= SocketRoom THEN Len(m) ELSE SocketRoom

\* The socket takes what it has room for of write w; `others` are the writes
\* waiting for room without w, `later` the handlers still to run.
WriteSome(w, others, later) ==
  LET n    == Accepted(w.bytes)
      left == [bytes |-> Drop1(w.bytes, n), kept |-> w.kept]
  IN  /\ wire' = wire \o SubSeq(w.bytes, 1, n)
      /\ IF n = 0 THEN waiting' = Append(others, w) /\ posted' = later
         ELSE /\ waiting' = others
              /\ posted' = IF left.bytes = <<>> THEN later ELSE Append(later, left)

\* A write joins the reactor's queue untried when the queue is not empty.
async_write(w, later) ==
  IF waiting = <<>> THEN WriteSome(w, <<>>, later)
  ELSE waiting' = Append(waiting, w) /\ posted' = later /\ UNCHANGED wire

send_session_message(m, kept) ==
  /\ Len(sent) < MaxSent
  /\ sent' = Append(sent, m)
  /\ async_write([bytes |-> m, kept |-> kept], posted)
  /\ spoiled' = (spoiled \/ posted # <<>>)
  /\ UNCHANGED receiveVars

\* What a later attempt finds in the memory of a write.
MemoryOf(w) == IF w.kept THEN {w.bytes}
               ELSE {w.bytes} \cup [DOMAIN w.bytes -> Freed]

\* The completion handler of a partial write goes on with the rest.
ContinueWrite ==
  /\ posted # <<>>
  /\ \E b \in MemoryOf(Head(posted)) :
       async_write([bytes |-> b, kept |-> Head(posted).kept], Tail(posted))
  /\ spoiled' = (spoiled \/ ~Head(posted).kept \/ waiting # <<>>)
  /\ UNCHANGED <<sent, receiveVars>>

\* The socket has room again: the reactor resumes the first waiting write.
SocketReady ==
  /\ waiting # <<>> /\ SocketRoom > 0
  /\ \E b \in MemoryOf(Head(waiting)) :
       WriteSome([bytes |-> b, kept |-> Head(waiting).kept], Tail(waiting), posted)
  /\ spoiled' = (spoiled \/ ~Head(waiting).kept \/ posted # <<>>)
  /\ UNCHANGED <<sent, receiveVars>>

SenderNext == ContinueWrite \/ SocketReady

-----------------------------------------------------------------------------
(* Receiving *)

\* Mutant: the bytes already buffered are not counted.
Room_uncounted == BufferSize

Room == BufferSize - Len(buffer)

\* async_read_some completes with some of the bytes that have arrived.
Receive(n) ==
  /\ receiving
  /\ n \in 1..Len(wire) /\ n <= Room
  /\ buffer' = buffer \o SubSeq(wire, 1, n)
  /\ wire' = Drop1(wire, n)
  /\ receiving' = FALSE
  /\ UNCHANGED <<sendVars, handled>>

\* A read into a full buffer has length 0 and completes at once.
ReceiveNothing ==
  /\ receiving /\ Room = 0
  /\ receiving' = FALSE
  /\ UNCHANGED <<sendVars, wire, buffer, handled>>

MessageSize(b) == HeaderSize + BodyLength(SubSeq(b, 1, HeaderSize))

\* Mutant: a message that ends exactly where the data ends is not complete.
is_complete_message_strict(b) == Len(b) >= HeaderSize /\ Len(b) > MessageSize(b)

is_complete_message(b) == Len(b) >= HeaderSize /\ Len(b) >= MessageSize(b)

\* Mutant: what was received after the message is thrown away.
HandleMessage_drops_rest ==
  /\ ~receiving /\ is_complete_message(buffer)
  /\ handled' = Append(handled, SubSeq(buffer, 1, MessageSize(buffer)))
  /\ buffer' = <<>>
  /\ UNCHANGED <<sendVars, wire, receiving>>

\* One pass of the loop: hand on the message, move the rest to the front.
HandleMessage ==
  /\ ~receiving /\ is_complete_message(buffer)
  /\ handled' = Append(handled, SubSeq(buffer, 1, MessageSize(buffer)))
  /\ buffer' = Drop1(buffer, MessageSize(buffer))
  /\ UNCHANGED <<sendVars, wire, receiving>>

\* No complete message is left: read again.
ReceiveMore ==
  /\ ~receiving /\ ~is_complete_message(buffer)
  /\ receiving' = TRUE
  /\ UNCHANGED <<sendVars, wire, buffer, handled>>

ReceiverNext ==
  \/ \E n \in 1..Len(wire) : Receive(n)
  \/ ReceiveNothing
  \/ HandleMessage
  \/ ReceiveMore

-----------------------------------------------------------------------------
(* Properties *)

Stream == INSTANCE MessageStream
            WITH sent <- sent, handled <- handled, spoiled <- spoiled

\* The handlers of a session are given the messages that were sent, whole and
\* in order, for as long as the sender does not spoil the stream
\* (handle_session_receive implements MessageStream).
DeliversMessages == Stream!Spec

\* PeriodicMcastSendRcv.cpp binds the buffer of a packet to its completion
\* handler: "we ensure that the buffer remains allocated until it is
\* transmitted".  send_session_message does not: the sender spoils the stream.
NeverSpoiled == ~spoiled
==============================================================================
