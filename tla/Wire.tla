-------------------------------- MODULE Wire --------------------------------
(***************************************************************************)
(* Messages from the code that builds them to the code that reads them:     *)
(* a ProtocolMessage is built, its bytes travel through the session's       *)
(* stream, and the receiver parses what the stream hands it.                *)
(***************************************************************************)
EXTENDS ProtocolMessage, SessionStream

CONSTANTS
  Sender,        \* "modem" or "router": who builds the messages
  Streamed       \* bound: the messages that are sent, as [name, items]

vars == <<pm, streamVars>>

Init == MessageInit /\ StreamInit

\* A function of Peer builds a message and sends it, kept or not: only a
\* message that expects a response, and the heartbeat, are kept.
SendMessage(m, kept) ==
  /\ send_session_message(add_data_items(add_header(m.name), m.items).buf, kept)
  /\ UNCHANGED pm

\* Bound: messages are built step by step only before any is sent.
Build == /\ sent = <<>>
         /\ BuildNext(DOMAIN Signals, Offered) \/ EditNext
         /\ UNCHANGED streamVars

OutOfScope == Discard /\ UNCHANGED streamVars

\* Bound: a spoiled stream is not followed, because nothing is promised of it.
Write    == ~spoiled /\ SenderNext /\ UNCHANGED pm
ReadLoop == ~spoiled /\ ReceiverNext /\ UNCHANGED pm

Next ==
  \/ Build \/ OutOfScope
  \/ /\ InState("none") /\ ~spoiled
     /\ \E m \in Streamed, kept \in BOOLEAN : SendMessage(m, kept)
  \/ Write
  \/ ReadLoop

\* Each end's io thread keeps running handlers.
Spec == Init /\ [][Next]_vars /\ WF_vars(Write) /\ WF_vars(ReadLoop)

-----------------------------------------------------------------------------
(* Type invariant *)

TypeOK ==
  /\ pm.state \in {"none", "building", "checked", "rebuilt", "threw"}
  /\ pm.state # "none" => pm.name \in DOMAIN Signals /\ pm.buf \in Seq(Byte)
  /\ wire \in Seq(Byte) /\ buffer \in Seq(Byte)
  /\ Len(wire) <= SocketSize /\ Len(buffer) <= BufferSize
  /\ \A i \in DOMAIN posted \cup DOMAIN waiting : i <= MaxSent
  /\ receiving \in BOOLEAN /\ spoiled \in BOOLEAN

-----------------------------------------------------------------------------
(* Building and parsing *)

\* The data item has the type its name is configured with, at every level.
RECURSIVE Typed(_, _)
Typed(di, parent) ==
  LET name == get_data_item_name(di.id, parent)
  IN  /\ name # None /\ di.type = Items[name].type
      /\ \A i \in DOMAIN di.fields :
           Layout[di.type][i] \in Nested =>
             \A j \in DOMAIN di.fields[i] : Typed(di.fields[i][j], name)

AllTyped(items) == \A i \in DOMAIN items : Typed(items[i], None)

\* A built message before any is sent: building does not depend on the stream,
\* so the properties of one message are evaluated only here.
Checked == InState("checked") /\ sent = <<>>

Complete == pm.state \in {"building", "checked", "rebuilt"}

\* m was parsed, as a message of this name with these data items.
Says(m, name, items) == m.ok /\ m.name = name /\ m.data_items = items

\* However a message is built or rebuilt, its length field says what the
\* receiver needs to frame it, and reading it gives back the data items it was
\* asked to carry, in order (add_data_item, rebuild_from_data_items, parse).
ReadsBack ==
  Complete /\ AllTyped(pm.items) =>
    /\ pm.buf = Header(pm.name, Len(pm.buf) - HeaderLength(pm.name))
                  \o Drop(pm.buf, HeaderLength(pm.name))
    /\ Says(parse(pm.buf, IsSignal(pm.name)), pm.name, pm.items)

\* A message with one byte changed, or cut short.
Damaged(buf) ==
  {ReplaceAt(buf, i, (buf[i] + 1) % Radix) : i \in DOMAIN buf} \cup
  {SubSeq(buf, 1, n) : n \in 0..(Len(buf) - 1)}

\* Positions of the bytes that parse reads and does not use: the length.
LengthField(name) ==
  (HeaderLength(name) - SignalLengthSize + 1)..HeaderLength(name)

\* A receiver never takes a damaged message for the original: every byte but
\* the length field, which framing has already used, decides what is read
\* (DataItem::deserialize).
NoByteIgnored ==
  Checked /\ AllTyped(pm.items) =>
    \A d \in Damaged(pm.buf) :
      \/ ~Says(parse(d, IsSignal(pm.name)), pm.name, pm.items)
      \/ \E i \in LengthField(pm.name) : Len(d) = Len(pm.buf) /\ d[i] # pm.buf[i]

\* The getters that handlers call without a guard do not throw.
GettersWork(m) ==
  \A i \in DOMAIN Signals[m.name].data_items :
    LET e == Signals[m.name].data_items[i]
    IN  e.occurs \in {"1", "1+"} \/ get_data_item_exists(m, e.name) =>
          get_data_item_value(m, e.name, Items[e.name].type).ok

\* A message that passes parse_and_validate, damaged or not, holds every data
\* item its handler reads, with the type the handler asks for: no handler
\* throws DataItemNotPresent or DataItemWrongType.
HandlersCanRead ==
  Checked =>
    \A d \in {pm.buf} \cup Damaged(pm.buf) :
      parse_and_validate(d, IsSignal(pm.name), Sender) =>
        GettersWork(parse(d, IsSignal(pm.name)))

-----------------------------------------------------------------------------
(* Text *)

\* The strings of a data item, top level and nested.
RECURSIVE StringsOf(_)
StringsOf(di) ==
  UNION {LET k == Layout[di.type][i] IN
         IF k = "string" THEN {di.fields[i]}
         ELSE IF k \in Nested
              THEN UNION {StringsOf(di.fields[i][j]) : j \in DOMAIN di.fields[i]}
         ELSE {} : i \in DOMAIN di.fields}

RECURSIVE HasEmptyMac(_)
HasEmptyMac(di) ==
  \E i \in DOMAIN di.fields :
    \/ Layout[di.type][i] = "mac" /\ di.fields[i] = <<>>
    \/ /\ Layout[di.type][i] \in Nested
       /\ \E j \in DOMAIN di.fields[i] : HasEmptyMac(di.fields[i][j])

\* Text can carry the items: strings are single words, no MAC is empty.
Printable(items) ==
  \A i \in DOMAIN items :
    /\ ~HasEmptyMac(items[i])
    /\ \A str \in StringsOf(items[i]) : str # <<>> /\ ~Contains(str, Space)

Line(items) ==
  FlattenSeq([i \in DOMAIN items |-> Append(to_string(items[i], None), Chr(Space))])

\* Data items printed with to_string and typed back at the example client's
\* prompt are the same data items, if their strings are single words.
TextReadsBack ==
  Checked /\ AllTyped(pm.items) /\ Printable(pm.items) =>
    parse_data_items(Line(pm.items)) = Read(pm.items, <<>>)

-----------------------------------------------------------------------------
(* Streaming *)

\* Every message sent is handled in the end, if it and those before it fit in
\* the receive buffer and the stream is not spoiled (handle_session_receive
\* always reads again).
Delivered ==
  \A i \in 1..MaxSent :
    Len(sent) >= i /\ (\A j \in 1..i : Len(sent[j]) <= BufferSize)
      ~> Len(handled) >= i \/ spoiled
=============================================================================
