------------------------------ MODULE DataItem ------------------------------
(***************************************************************************)
(* The values that DLEP messages carry (DataItem.cpp, Serialize.h): their   *)
(* wire form, their text form, their validation against the protocol        *)
(* configuration, and the comparison of the addresses they hold.            *)
(*                                                                         *)
(* A data item is [id, type, fields].  The code has one case per value type *)
(* in every visitor and switch; here a type is its Layout, a sequence of    *)
(* field kinds, and each visitor is one operator on field kinds.  A byte    *)
(* has Radix values (256 in the code), integers keep their width in bytes,  *)
(* and the limits of validation scale with Radix.                           *)
(*                                                                         *)
(* A C++ exception is a result with ok = FALSE.                             *)
(***************************************************************************)
EXTENDS Integers, SequencesExt

CONSTANTS
  Radix,            \* number of values of a byte
  IdSize,           \* bytes of a data item id,     field_sizes/data_item_id
  LengthSize,       \* bytes of a data item length, field_sizes/data_item_length
  ExtIdSize,        \* bytes of an extension id,    field_sizes/extension_id
  Items,            \* data_item_info_map: name -> [id, type, units, subs]
  StatusIds,        \* the ids of status_code_map
  MaxPercentage,    \* 100 in the code
  MaxPrefix4,       \* 32 in the code
  MaxPrefix6,       \* 128 in the code
  Space,            \* the character that separates words of text
  Brace             \* the character }

ASSUME ByteAssumption ==
  /\ Radix \in Nat \ {0, 1}
  /\ {IdSize, LengthSize, ExtIdSize} \subseteq 1..8
  /\ {Space, Brace} \subseteq 0..(Radix - 1) /\ Space # Brace

Byte == 0..(Radix - 1)
NoId == -1                        \* IdUndefined
None == "none"                    \* a null parent_di_info

-----------------------------------------------------------------------------
(* Value types *)

\* The fields of each DataItemValueType, in the order they are written.
Layout ==
  [blank       |-> <<>>,               u8          |-> <<"u8">>,
   u16         |-> <<"u16">>,          u32         |-> <<"u32">>,
   u64         |-> <<"u64">>,          v_u8        |-> <<"v_u8">>,
   v_u32       |-> <<"v_u32">>,        a2_u16      |-> <<"u16", "u16">>,
   string      |-> <<"string">>,       dlepmac     |-> <<"mac">>,
   u8_string   |-> <<"u8", "string">>, u8_ipv4     |-> <<"u8", "ipv4">>,
   u8_ipv6     |-> <<"u8", "ipv6">>,   u16_vu8     |-> <<"u16", "counted">>,
   v_extid     |-> <<"v_extid">>,
   u8_ipv4_u16 |-> <<"u8", "ipv4", "port">>,
   u8_ipv6_u16 |-> <<"u8", "ipv6", "port">>,
   u8_ipv4_u8  |-> <<"u8", "ipv4", "u8">>,
   u8_ipv6_u8  |-> <<"u8", "ipv6", "u8">>,
   u8_u8       |-> <<"u8", "u8">>,     u64_u64     |-> <<"u64", "u64">>,
   sub_data_items     |-> <<"items">>,
   u16_sub_data_items |-> <<"u16", "counted_items">>]

ValueTypes == DOMAIN Layout

Width == [u8 |-> 1, u16 |-> 2, u32 |-> 4, u64 |-> 8, port |-> 2,
          ipv4 |-> 4, ipv6 |-> 16, v_u8 |-> 1, v_u32 |-> 4,
          v_extid |-> ExtIdSize]
Integer == {"u8", "u16", "u32", "u64", "port"}
Address == {"ipv4", "ipv6"}
Vector  == {"v_u8", "v_u32", "v_extid"}
Nested  == {"items", "counted_items"}

DefaultField(k) == IF k \in Integer THEN 0
                   ELSE IF k \in Address THEN [i \in 1..Width[k] |-> 0]
                   ELSE <<>>

set_default_value(t) == [i \in DOMAIN Layout[t] |-> DefaultField(Layout[t][i])]

-----------------------------------------------------------------------------
(* Names and ids: a sub data item's id is scoped by its parent and falls    *)
(* back on the top-level ids.                                               *)

Subs(parent) == IF parent = None THEN <<>> ELSE Items[parent].subs

get_data_item_id(name, parent) ==
  LET own == SelectInSeq(Subs(parent), LAMBDA s : s.name = name /\ s.id # NoId)
  IN  IF own # 0 THEN Subs(parent)[own].id
      ELSE IF name \in DOMAIN Items THEN Items[name].id ELSE NoId

\* data_item_map: the name of each top-level id.
data_item_map ==
  [id \in {Items[n].id : n \in DOMAIN Items} \ {NoId} |->
     CHOOSE n \in DOMAIN Items : Items[n].id = id]

\* The name of an id, None when the id is unknown (BadDataItemId).
get_data_item_name(id, parent) ==
  LET own == {i \in DOMAIN Subs(parent) : Subs(parent)[i].id = id}
  IN  IF own # {} THEN Subs(parent)[CHOOSE i \in own : \A j \in own : i <= j].name
      ELSE IF id \in DOMAIN data_item_map THEN data_item_map[id] ELSE None

\* The constructor that takes a value does not look at its type.
NewItem(name, type, fields, parent) ==
  [id |-> get_data_item_id(name, parent), type |-> type, fields |-> fields]

\* The constructor that takes none stores the default of the configured type.
NewDefaultItem(name, parent) ==
  NewItem(name, Items[name].type, set_default_value(Items[name].type), parent)

-----------------------------------------------------------------------------
(* Wire form: serialize *)

UInt(v, n) == [i \in 1..n |-> (v \div Radix^(n - i)) % Radix]
Value(b)   == LET v[i \in 0..Len(b)] == IF i = 0 THEN 0 ELSE v[i - 1] * Radix + b[i]
              IN  v[Len(b)]

RECURSIVE serialize(_)
SerializeField(k, v) ==
  LET Each(Op(_)) == FlattenSeq([i \in DOMAIN v |-> Op(v[i])])
  IN  CASE k = "port"          -> IF v = 0 THEN <<>> ELSE UInt(v, 2)
        [] k \in Integer \ {"port"} -> UInt(v, Width[k])
        [] k \in Vector        -> Each(LAMBDA x : UInt(x, Width[k]))
        [] k = "counted"       -> <<Len(v)>> \o v
        [] k = "items"         -> Each(serialize)
        [] k = "counted_items" -> <<Len(v), 0>> \o Each(serialize)
        [] OTHER               -> v

SerializeValue(di) ==
  FlattenSeq([i \in DOMAIN di.fields |->
                SerializeField(Layout[di.type][i], di.fields[i])])

serialize(di) ==
  LET body == SerializeValue(di)
  IN  UInt(di.id, IdSize) \o UInt(Len(body), LengthSize) \o body

\* serialize throws when an id, a length or a count exceeds its field.
RECURSIVE Serializable(_)
FieldFits(k, v) ==
  CASE k = "counted" -> Len(v) < Radix
    [] k = "v_extid" -> \A i \in DOMAIN v : v[i] < Radix^ExtIdSize
    [] k = "items"   -> \A i \in DOMAIN v : Serializable(v[i])
    [] k = "counted_items" -> /\ Len(v) < Radix
                              /\ \A i \in DOMAIN v : Serializable(v[i])
    [] OTHER -> TRUE

Serializable(di) ==
  /\ \A i \in DOMAIN di.fields : FieldFits(Layout[di.type][i], di.fields[i])
  /\ di.id \in 0..(Radix^IdSize - 1)
  /\ Len(SerializeValue(di)) < Radix^LengthSize

-----------------------------------------------------------------------------
(* Wire form: deserialize.  A reader takes the bytes up to di_end and gives *)
(* the value and the bytes it left.                                         *)

Failed           == [ok |-> FALSE]
Read(val, rest)  == [ok |-> TRUE, val |-> val, rest |-> rest]
Drop(s, n)       == SubSeq(s, n + 1, Len(s))

\* One value more, read after those of acc; and one before those of others.
ReadNext(acc, r) == IF r.ok THEN Read(Append(acc.val, r.val), r.rest) ELSE Failed
ReadFirst(val, others) ==
  IF others.ok THEN Read(<<val>> \o others.val, others.rest) ELSE Failed

DeserializeUInt(b, n) ==
  IF Len(b) < n THEN Failed ELSE Read(Value(SubSeq(b, 1, n)), Drop(b, n))

DeserializeAddress(b, n) ==
  IF Len(b) < n THEN Failed ELSE Read(SubSeq(b, 1, n), Drop(b, n))

DeserializeVector(b, n) ==
  IF Len(b) % n # 0 THEN Failed
  ELSE Read([i \in 1..(Len(b) \div n) |->
               Value(SubSeq(b, (i - 1) * n + 1, i * n))], <<>>)

\* Mutant: the count is not compared with the length.
DeserializeCounted_unchecked(b) == IF b = <<>> THEN Failed ELSE Read(Tail(b), <<>>)

DeserializeCounted(b) ==
  IF b = <<>> THEN Failed
  ELSE IF Len(b) - 1 # Head(b) THEN Failed ELSE Read(Tail(b), <<>>)

Counted(r, count) == IF r.ok /\ Len(r.val) = count THEN r ELSE Failed

RECURSIVE DeserializeItems(_, _)
DeserializeCountedItems(b, info) ==
  IF Len(b) < 2 THEN Failed
  ELSE IF b[2] # 0 THEN Failed
  ELSE Counted(DeserializeItems(Drop(b, 2), info), b[1])

DeserializeField(k, b, info) ==
  CASE k = "port" -> IF b = <<>> THEN Read(0, b) ELSE DeserializeUInt(b, 2)
    [] k \in Integer \ {"port"} -> DeserializeUInt(b, Width[k])
    [] k \in Address       -> DeserializeAddress(b, Width[k])
    [] k \in Vector        -> DeserializeVector(b, Width[k])
    [] k = "counted"       -> DeserializeCounted(b)
    [] k = "items"         -> DeserializeItems(b, info)
    [] k = "counted_items" -> DeserializeCountedItems(b, info)
    [] OTHER               -> Read(b, <<>>)             \* string, mac

FieldAfter(acc, k, info) ==
  IF acc.ok THEN ReadNext(acc, DeserializeField(k, acc.rest, info)) ELSE Failed

DeserializeFields(ks, b, info) ==
  LET read[i \in 0..Len(ks)] ==
        IF i = 0 THEN Read(<<>>, b) ELSE FieldAfter(read[i - 1], ks[i], info)
  IN  read[Len(ks)]

\* The item of the fields read, if they are all there is; `rest` follows it.
ItemOf(id, type, fields, rest) ==
  IF fields.ok /\ fields.rest = <<>>
  THEN Read([id |-> id, type |-> type, fields |-> fields.val], rest) ELSE Failed

DeserializeValue(id, info, value, rest) ==
  IF info = None THEN Failed
  ELSE ItemOf(id, Items[info].type,
              DeserializeFields(Layout[Items[info].type], value, info), rest)

deserialize(b, parent) ==
  LET header == IdSize + LengthSize
      id     == Value(SubSeq(b, 1, IdSize))
      end    == header + Value(SubSeq(b, IdSize + 1, header))
  IN  IF Len(b) < header THEN Failed
      ELSE IF end > Len(b) THEN Failed
      ELSE DeserializeValue(id, get_data_item_name(id, parent),
                            SubSeq(b, header + 1, end), Drop(b, end))

ItemsFrom(first, parent) ==
  IF first.ok THEN ReadFirst(first.val, DeserializeItems(first.rest, parent)) ELSE Failed

DeserializeItems(b, parent) ==
  IF b = <<>> THEN Read(<<>>, b) ELSE ItemsFrom(deserialize(b, parent), parent)

-----------------------------------------------------------------------------
(* Validation against the protocol configuration *)

Occurs == {"1", "0-1", "1+", "0+"}

\* Mutant: a data item that must be present may be missing.
OccursOK_no_minimum(occurs, n) == occurs \in {"1", "0-1"} => n <= 1

OccursOK(occurs, n) ==
  /\ occurs \in {"1", "1+"}  => n >= 1
  /\ occurs \in {"1", "0-1"} => n <= 1

\* An allowed id is erased from the counts once it has been checked, so a
\* second entry for the same id finds none; ids left over are unexpected.
validate_occurrences(items, allowed) ==
  LET Count(id)  == Len(SelectSeq(items, LAMBDA di : di.id = id))
      Checked(i) == \E j \in 1..(i - 1) : allowed[j].id = allowed[i].id
  IN  /\ \A i \in DOMAIN allowed :
           OccursOK(allowed[i].occurs,
                    IF Checked(i) THEN 0 ELSE Count(allowed[i].id))
      /\ \A i \in DOMAIN items : \E j \in DOMAIN allowed : allowed[j].id = items[i].id

RECURSIVE validate(_, _)
ValidateAs(di, name) ==
  LET f == di.fields
      StatusOK == name = "Status" => f[1] \in StatusIds
      SubsOK(items) == /\ \A i \in DOMAIN items : validate(items[i], name)
                       /\ validate_occurrences(items, Items[name].subs)
  IN  /\ di.type = Items[name].type
      /\ CASE di.type \in {"u8_ipv4", "u8_ipv6"} -> f[1] <= 1
           [] di.type = "u8_ipv4_u8" -> f[1] <= 1 /\ f[3] <= MaxPrefix4
           [] di.type = "u8_ipv6_u8" -> f[1] <= 1 /\ f[3] <= MaxPrefix6
           [] di.type = "u8" -> IF Items[name].units = "percentage"
                                THEN f[1] <= MaxPercentage ELSE StatusOK
           [] di.type = "u8_string" -> StatusOK
           [] di.type = "sub_data_items" -> SubsOK(f[1])
           [] di.type = "u16_sub_data_items" -> SubsOK(f[2])
           [] OTHER -> TRUE

validate(di, parent) == ValidateAs(di, get_data_item_name(di.id, parent))

-----------------------------------------------------------------------------
(* Text form.  A text is a sequence of tokens: numbers, addresses, names,   *)
(* punctuation, and the characters of strings.  A string holds plain        *)
(* characters, spaces and closing braces.                                   *)

Num(n)  == <<"num", n>>
Sym(c)  == <<"sym", c>>
Chr(c)  == <<"chr", c>>
Name(n) == <<"name", n>>
Ip(a)   == <<"ip", a>>

Join(texts, sep) ==
  FlattenSeq([i \in DOMAIN texts |-> IF i = 1 THEN texts[i]
                                     ELSE <<Sym(sep)>> \o texts[i]])

RECURSIVE to_string(_, _)
FieldToString(k, v, parent) ==
  LET Numbers == [i \in DOMAIN v |-> <<Num(v[i])>>]
  IN  CASE k \in Integer -> <<Num(v)>>
        [] k \in Address -> <<Ip(v)>>
        [] k \in Vector \cup {"counted"} -> Join(Numbers, ",")
        [] k = "mac"     -> Join(Numbers, ":")
        [] k = "string"  -> [i \in DOMAIN v |-> Chr(v[i])]
        [] k \in Nested  ->
             <<Sym("{"), Chr(Space)>>
             \o FlattenSeq([i \in DOMAIN v |-> Append(to_string(v[i], parent),
                                                     Chr(Space))])
             \o <<Chr(Brace), Chr(Space)>>

value_to_string(di, parent) ==
  Join([i \in DOMAIN di.fields |->
          FieldToString(Layout[di.type][i], di.fields[i], parent)],
       IF di.type = "a2_u16" THEN "," ELSE ";")

to_string(di, parent) ==
  LET name == get_data_item_name(di.id, parent)
  IN  <<Name(name), Chr(Space)>>
      \o value_to_string(di, IF Items[name].subs # <<>> THEN name ELSE parent)

-----------------------------------------------------------------------------
(* Text form: from_string *)

RECURSIVE skip_whitespace(_)
skip_whitespace(s) ==
  IF s # <<>> /\ s[1] = Chr(Space) THEN skip_whitespace(Tail(s)) ELSE s

\* Stream extraction of a string: the next word, possibly none at the end.
ReadWord(s) ==
  LET t   == skip_whitespace(s)
      gap == SelectInSeq(t, LAMBDA x : x = Chr(Space))
  IN  IF gap = 0 THEN Read(t, <<>>) ELSE Read(SubSeq(t, 1, gap - 1), Drop(t, gap - 1))

NextIs(s, token) == s # <<>> /\ s[1] = token
\* Mutant: a separator is left in the stream.
SkipOver_nothing(s, token) == s

SkipOver(s, token) == IF NextIs(s, token) THEN Tail(s) ELSE s

parse_uint(s, n) ==
  LET t == skip_whitespace(s)
  IN  IF t = <<>> THEN Failed
      ELSE IF t[1][1] # "num" THEN Failed
      ELSE IF t[1][2] >= Radix^n THEN Failed ELSE Read(t[1][2], Tail(t))

\* Numbers up to the first thing that is not one; commas are optional.
RECURSIVE parse_vector(_, _)
VectorFrom(first, n) ==
  IF first.ok THEN ReadFirst(first.val, parse_vector(SkipOver(first.rest, Sym(",")), n))
  ELSE Failed

parse_vector(s, n) ==
  LET t == skip_whitespace(s)
  IN  IF t = <<>> THEN Read(<<>>, s)
      ELSE IF t[1][1] # "num" THEN Read(<<>>, t)
      ELSE VectorFrom(parse_uint(t, n), n)

\* At least one byte, and one more after each colon.
RECURSIVE parse_mac(_)
MacFrom(first) ==
  IF ~first.ok THEN Failed
  ELSE IF NextIs(first.rest, Sym(":"))
       THEN ReadFirst(first.val, parse_mac(Tail(first.rest)))
       ELSE Read(<<first.val>>, first.rest)

parse_mac(s) == MacFrom(parse_uint(s, 1))

parse_ip_addr(s, n) ==
  LET t == skip_whitespace(s)
  IN  IF t = <<>> THEN Failed
      ELSE IF t[1][1] # "ip" THEN Failed
      ELSE IF Len(t[1][2]) # n THEN Failed ELSE Read(t[1][2], Tail(t))

\* A word that was not printed as a string is some other string.
parse_string(s) ==
  LET w == ReadWord(s)
  IN  Read([i \in DOMAIN w.val |-> IF w.val[i][1] = "chr" THEN w.val[i][2] ELSE -1],
           w.rest)

RECURSIVE sub_data_items_from(_, _)
sub_data_items_from_istringstream(s, info) ==
  LET open == ReadWord(s)
  IN  IF open.val = <<Sym("{")>> THEN sub_data_items_from(open.rest, info)
      ELSE Failed

FieldFromString(k, s, info) ==
  CASE k \in Integer  -> parse_uint(s, Width[k])
    [] k \in Address  -> parse_ip_addr(s, Width[k])
    [] k \in Vector   -> parse_vector(s, Width[k])
    [] k = "counted"  -> parse_vector(s, 1)
    [] k = "mac"      -> parse_mac(s)
    [] k = "string"   -> parse_string(s)
    [] k \in Nested   -> sub_data_items_from_istringstream(s, info)

\* check_field_separator between fields; an array only skips a comma.
value_from_istringstream(s, type, info) ==
  LET Step(acc, i) ==
        IF ~acc.ok THEN acc
        ELSE IF i > 1 /\ type # "a2_u16" /\ ~NextIs(acc.rest, Sym(";")) THEN Failed
        ELSE LET from == IF i = 1 THEN acc.rest
                         ELSE IF type = "a2_u16" THEN SkipOver(acc.rest, Sym(","))
                         ELSE Tail(acc.rest)
             IN  ReadNext(acc, FieldFromString(Layout[type][i], from, info))
  IN  FoldLeft(Step, Read(<<>>, s), [i \in DOMAIN Layout[type] |-> i])

NamedItem(id, type, r) ==
  IF id = NoId \/ ~r.ok THEN Failed
  ELSE Read([id |-> id, type |-> type, fields |-> r.val], r.rest)

ItemAfter(word, parent) ==
  LET name == word.val[1][2]
  IN  IF Len(word.val) # 1 THEN Failed
      ELSE IF word.val[1][1] # "name" THEN Failed
      ELSE NamedItem(get_data_item_id(name, parent), Items[name].type,
                     value_from_istringstream(word.rest, Items[name].type, name))

from_istringstream(s, parent) == ItemAfter(ReadWord(s), parent)

SubItemsFrom(first, info) ==
  IF first.ok THEN ReadFirst(first.val, sub_data_items_from(first.rest, info)) ELSE Failed

sub_data_items_from(s, info) ==
  LET t == skip_whitespace(s)
  IN  IF NextIs(t, Chr(Brace)) THEN Read(<<>>, Tail(t))
      ELSE SubItemsFrom(from_istringstream(t, info), info)

\* The example client reads the data items of a command line one by one.
RECURSIVE parse_data_items(_)
LineFrom(first) ==
  IF first.ok THEN ReadFirst(first.val, parse_data_items(first.rest)) ELSE Failed

parse_data_items(s) ==
  LET t == skip_whitespace(s)
  IN  IF t = <<>> THEN Read(<<>>, <<>>) ELSE LineFrom(from_istringstream(t, None))
=============================================================================
