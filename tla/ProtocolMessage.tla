--------------------------- MODULE ProtocolMessage ---------------------------
(***************************************************************************)
(* One ProtocolMessage object (ProtocolMessage.cpp): how a message is built *)
(* data item by data item, checked, offered to the client for changes and   *)
(* rebuilt, and how a received one is parsed, validated and read.           *)
(*                                                                         *)
(* Its use by Peer: add_header, then data items, then parse_and_validate;   *)
(* for the two session initialization messages the client may edit the data *)
(* items (DlepClient::peer_init) and the message is rebuilt from them.      *)
(***************************************************************************)
EXTENDS DataItem

CONSTANTS
  SignalIdSize,      \* bytes of a message id,     field_sizes/signal_id
  SignalLengthSize,  \* bytes of a message length, field_sizes/signal_length
  SignalPrefix,      \* the bytes every signal starts with, "DLEP"
  Signals,           \* signal_info_map and message_info_map:
                     \*   name -> [id, message, senders, data_items]
  Offered,           \* the data items that clients and the library add
  Defaults,          \* data items of the local information base: sequences
  Intervals,         \* heartbeat-interval: seconds the client may configure
  Units,             \* fractions of a second in Heartbeat_Interval's units
  MaxItems           \* bound: data items of one message

VARIABLES pm         \* the ProtocolMessage object

-----------------------------------------------------------------------------
(* Names and ids of signals and messages *)

get_message_id(name)  == Signals[name].id
IsSignal(name)        == ~Signals[name].message
NameOf(id, is_signal) ==
  LET names == {n \in DOMAIN Signals : Signals[n].id = id /\ IsSignal(n) = is_signal}
  IN  IF names = {} THEN None ELSE CHOOSE n \in names : TRUE

-----------------------------------------------------------------------------
(* Building *)

Prefix(name) == IF IsSignal(name) THEN SignalPrefix ELSE <<>>

Header(name, length) ==
  Prefix(name) \o UInt(get_message_id(name), SignalIdSize)
               \o UInt(length, SignalLengthSize)

HeaderLength(name) == Len(Prefix(name)) + SignalIdSize + SignalLengthSize

LengthFits(n) == n < Radix^SignalLengthSize

\* Overwrites the length field with the number of bytes after the header.
update_message_length(name, buf) ==
  Header(name, Len(buf) - HeaderLength(name)) \o Drop(buf, HeaderLength(name))

\* The bytes of a message; `threw` when an exception stopped the building.
Built(name, buf)   == [name |-> name, buf |-> buf, threw |-> FALSE]
add_header(name)   == Built(name, Header(name, 0))

add_data_item(b, di) ==
  LET buf == b.buf \o serialize(di)
  IN  IF b.threw \/ ~Serializable(di) THEN [b EXCEPT !.threw = TRUE]
      ELSE IF ~LengthFits(Len(buf) - HeaderLength(b.name))
           THEN [b EXCEPT !.buf = buf, !.threw = TRUE]
           ELSE Built(b.name, update_message_length(b.name, buf))

add_data_items(b, items) == FoldLeft(add_data_item, b, items)

\* Mutant: the length field still counts the data items that are gone.
clear_data_items_stale(b) == Built(b.name, SubSeq(b.buf, 1, HeaderLength(b.name)))

clear_data_items(b) ==
  Built(b.name, update_message_length(b.name, SubSeq(b.buf, 1, HeaderLength(b.name))))

AllowedIn(name, di) ==
  \E i \in DOMAIN Signals[name].data_items : Signals[name].data_items[i].id = di.id

add_allowed_data_items(b, items) ==
  add_data_items(b, SelectSeq(items, LAMBDA di : AllowedIn(b.name, di)))

\* The configured seconds in the units of the data item, cut to its type.
Heartbeat(seconds) ==
  LET type == Items["Heartbeat_Interval"].type
  IN  NewItem("Heartbeat_Interval", type,
              <<(seconds * Units) % Radix^(Width[type])>>, None)

-----------------------------------------------------------------------------
(* Parsing and validation *)

\* What parse has put in data_items when it stops, at the end or at an item
\* it cannot read.
RECURSIVE ItemsRead(_)
ItemsReadFrom(first) ==
  IF first.ok THEN <<first.val>> \o ItemsRead(first.rest) ELSE <<>>

ItemsRead(b) == IF b = <<>> THEN <<>> ELSE ItemsReadFrom(deserialize(b, None))

Parsed(name, items) ==
  IF name = None \/ ~items.ok THEN Failed
  ELSE [ok |-> TRUE, name |-> name, data_items |-> items.val]

\* parse: the header's length is read and not used.
parse(buf, is_signal) ==
  LET prefix == IF is_signal THEN SignalPrefix ELSE <<>>
      rest   == Drop(buf, Len(prefix))
      header == SignalIdSize + SignalLengthSize
  IN  IF is_signal /\ (Len(buf) <= Len(prefix) \/ SubSeq(buf, 1, Len(prefix)) # prefix)
      THEN Failed
      ELSE IF Len(rest) < header THEN Failed
      ELSE Parsed(NameOf(Value(SubSeq(rest, 1, SignalIdSize)), is_signal),
                  DeserializeItems(Drop(rest, header), None))

validate_message(m, sender) ==
  /\ m.ok
  /\ sender \in Signals[m.name].senders
  /\ validate_occurrences(m.data_items, Signals[m.name].data_items)
  /\ \A i \in DOMAIN m.data_items : validate(m.data_items[i], None)

parse_and_validate(buf, is_signal, sender) ==
  validate_message(parse(buf, is_signal), sender)

\* The first data item with the name: Failed when there is none
\* (DataItemNotPresent) or it has another type (DataItemWrongType).
get_data_item_value(m, name, type) ==
  LET i == SelectInSeq(m.data_items, LAMBDA di : di.id = Items[name].id)
  IN  IF i = 0 THEN Failed
      ELSE IF m.data_items[i].type # type THEN Failed
      ELSE Read(m.data_items[i].fields, <<>>)

get_data_item_exists(m, name) ==
  \E i \in DOMAIN m.data_items : m.data_items[i].id = Items[name].id

-----------------------------------------------------------------------------
(* The life of a message at its sender.  pm.items is history: the data      *)
(* items the message was asked to carry, in order.                          *)

NoMessage == [state |-> "none"]
Object(state, b, items) ==
  [state |-> IF b.threw THEN "threw" ELSE state, name |-> b.name, buf |-> b.buf,
   items |-> items]

Message == Built(pm.name, pm.buf)
InState(s) == pm.state = s

Start(name) ==
  /\ InState("none")
  /\ pm' = Object("building", add_header(name), <<>>)

Add(di) ==
  /\ Len(pm.items) < MaxItems
  /\ pm' = Object("building", add_data_item(Message, di), Append(pm.items, di))

AddAllowed(items) ==
  LET allowed == SelectSeq(items, LAMBDA di : AllowedIn(pm.name, di))
  IN  /\ InState("building") /\ Len(pm.items) + Len(allowed) <= MaxItems
      /\ pm' = Object("building", add_allowed_data_items(Message, items),
                      pm.items \o allowed)

\* A freshly built message is parsed; the client sees the data items read.
Check ==
  /\ InState("building")
  /\ pm' = [pm EXCEPT !.state = "checked"]

\* DlepClient::peer_init changes the data items; the message is rebuilt.
rebuild_from_data_items(items) ==
  /\ InState("checked")
  /\ pm' = Object("rebuilt", add_data_items(clear_data_items(Message), items), items)

\* What a client may do to the data items it is shown: drop or add one.
Edits(items) ==
  {RemoveAt(items, i) : i \in DOMAIN items} \cup
  {Append(items, di) : di \in {x \in Offered : Len(items) < MaxItems}}

ClientEdits ==
  /\ InState("checked")
  /\ \E items \in Edits(ItemsRead(Drop(pm.buf, HeaderLength(pm.name)))) :
       rebuild_from_data_items(items)

\* The object goes out of scope; an exception leaves the function that built it.
Discard ==
  /\ pm.state \in {"checked", "rebuilt", "threw"}
  /\ pm' = NoMessage

MessageInit == pm = NoMessage

\* One step of building a message with a name of `names` from `items`.
BuildNext(names, items) ==
  \/ \E name \in names : Start(name)
  \/ InState("building") /\ \E di \in items : Add(di)
  \/ Check

EditNext ==
  \/ \E items \in Defaults : AddAllowed(items)
  \/ ClientEdits
=============================================================================
