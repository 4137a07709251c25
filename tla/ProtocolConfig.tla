--------------------------- MODULE ProtocolConfig ---------------------------
(***************************************************************************)
(* Loading the protocol configuration (ProtocolConfigImpl.cpp): the modules *)
(* of the XML document are read in order; each defines data items, signals, *)
(* messages and status codes, and may refer to or extend what was defined   *)
(* before.  Anything wrong throws BadProtocolConfig out of the constructor, *)
(* so nobody sees a configuration that was only partly loaded.              *)
(*                                                                         *)
(* A name, an id and a value type are opaque.  What one element of the      *)
(* document says is a record; None stands for a field that is not there.    *)
(* The data items of a signal are a set: how often each occurs is left out. *)
(***************************************************************************)
EXTENDS Naturals

CONSTANTS
  Ids, Names, ModuleNames,
  None,           \* a field that is absent, an entry that is not in a map
  SignalElements, ItemElements, StatusElements,  \* elements of documents
  MaxElements     \* bound: elements of one document

SignalKinds == {"signal", "message"}
Kinds       == SignalKinds \cup {"data_item", "status_code"}
Reference   == [name : Names, id : Ids \cup {None}]
Resolved    == [name : Names, id : Ids]

SignalElement ==
  [name : Names, id : Ids \cup {None}, message : {"yes", "no", None},
   sender : {"modem", "router", "both", None}, items : SUBSET Names,
   response : Names \cup {None}]
ItemElement   == [name : Names, id : Ids \cup {None}, subs : SUBSET Reference]
StatusElement == [name : Names, id : Ids]

ASSUME ProtocolConfigAssumption ==
  /\ None \notin Ids \cup Names \cup ModuleNames
  /\ None \notin {"yes", "no", "modem", "router", "both"}
  /\ MaxElements \in Nat
  /\ SignalElements \subseteq SignalElement
  /\ ItemElements \subseteq ItemElement
  /\ StatusElements \subseteq StatusElement

VARIABLES
  id_name_map,    \* signal_map, message_map, data_item_map, status_code_map
  signal_info,    \* signal_info_map and message_info_map
  item_info,      \* data_item_info_map
  status_info,    \* status_code_info_map
  module_info,    \* module_info_map
  modinfo,        \* the module that is being read
  elements,       \* elements read so far
  load            \* how far load_protocol_config is

config == <<id_name_map, signal_info, item_info, status_info, module_info>>
load_vars == <<id_name_map, signal_info, item_info, status_info, module_info,
               modinfo, elements, load>>

SignalInfo ==
  [name : Names, message : {"yes", "no"}, sender : {"modem", "router", "both"},
   items : SUBSET Resolved, response : Ids \cup {None}, module : ModuleNames]
ItemInfo   == [name : Names, id : Ids \cup {None}, subs : SUBSET Resolved,
               module : ModuleNames]
StatusInfo == [name : Names, module : ModuleNames]
ModuleInfo == [name : ModuleNames, signals : SUBSET Ids, messages : SUBSET Ids,
               items : SUBSET Names, codes : SUBSET Ids]

\* None is not a description of anything.
ASSUME NoneAssumption ==
  None \notin SignalInfo \cup ItemInfo \cup StatusInfo \cup ModuleInfo

-----------------------------------------------------------------------------
(* Looking things up *)

HasName(kind, name) == \E i \in Ids : <<i, name>> \in id_name_map[kind]
IdFor(kind, name)   == CHOOSE i \in Ids : <<i, name>> \in id_name_map[kind]

\* get_signal_id: the signals are searched before the messages.
IsSignalName(name) == \E kind \in SignalKinds : HasName(kind, name)
SignalKind(name)   == IF HasName("signal", name) THEN "signal" ELSE "message"
get_signal_id(name) == IdFor(SignalKind(name), name)

Defined(info, key) == info[key] # None

\* Mutant: a reference to an item that is defined nowhere is not refused.
CanResolve_undefined(ref) == ref.id # None \/ HasName("data_item", ref.name)

\* extract_module_data_item_ref: the item is defined already, and has an id
\* here or at the top level.
CanResolve(ref) ==
  /\ Defined(item_info, ref.name)
  /\ ref.id # None \/ HasName("data_item", ref.name)

Resolve(ref) ==
  [name |-> ref.name,
   id   |-> IF ref.id # None THEN ref.id ELSE IdFor("data_item", ref.name)]

\* Mutant: only the name is looked up, so an id may get a second name.
insertable_by_name(kind, id, name) ==
  \A p \in id_name_map[kind] : p[2] = name => p[1] = id

\* insert_id_name_mapping: an id has one name and a name one id.
insertable(kind, id, name) ==
  \A p \in id_name_map[kind] : p[1] = id <=> p[2] = name

Inserted(kind, id, name) ==
  [id_name_map EXCEPT ![kind] = id_name_map[kind] \cup {<<id, name>>}]

-----------------------------------------------------------------------------
(* Reading the document *)

InModule == load = "loading" /\ modinfo # None

Read == elements < MaxElements /\ elements' = elements + 1

\* Any error leaves the constructor with an exception.
BadProtocolConfig ==
  /\ load' = "bad"
  /\ UNCHANGED <<config, modinfo>>

ItemRefs(e) == {[name |-> n, id |-> None] : n \in e.items}

\* A signal with an id is a definition, one without is a reference.
DefinedKind(e) == IF e.message = "yes" THEN "message" ELSE "signal"

SignalOk(e) ==
  /\ \A ref \in ItemRefs(e) : CanResolve(ref)
  /\ e.response # None => IsSignalName(e.response)
  /\ \/ /\ e.id # None
        /\ e.message # None /\ e.sender # None
        /\ insertable(DefinedKind(e), e.id, e.name)
     \/ e.id = None /\ IsSignalName(e.name)

NewSignal(e) ==
  [name |-> e.name, message |-> e.message, sender |-> e.sender,
   items |-> {Resolve(ref) : ref \in ItemRefs(e)},
   response |-> IF e.response # None THEN get_signal_id(e.response) ELSE None,
   module |-> modinfo.name]

\* An extension of an existing signal: the flags it gives replace the old ones,
\* its data items are added, its response is not looked at.
ExtendedSignal(old, e) ==
  [old EXCEPT
     !.message = IF e.message # None THEN e.message ELSE old.message,
     !.sender  = IF e.sender # None THEN e.sender ELSE old.sender,
     !.items   = old.items \cup {Resolve(ref) : ref \in ItemRefs(e)}]

StoreSignal(kind, id, e) ==
  IF Defined(signal_info[kind], id)
  THEN /\ signal_info' = [signal_info EXCEPT ![kind][id] =
                            ExtendedSignal(signal_info[kind][id], e)]
       /\ UNCHANGED modinfo
  ELSE /\ signal_info' = [signal_info EXCEPT ![kind][id] = NewSignal(e)]
       /\ modinfo' = IF kind = "message"
                     THEN [modinfo EXCEPT !.messages = modinfo.messages \cup {id}]
                     ELSE [modinfo EXCEPT !.signals = modinfo.signals \cup {id}]

extract_module_signal(e) ==
  LET kind == IF e.id # None THEN DefinedKind(e) ELSE SignalKind(e.name)
      id   == IF e.id # None THEN e.id ELSE get_signal_id(e.name)
  IN
  /\ InModule /\ Read
  /\ \/ ~SignalOk(e) /\ BadProtocolConfig
     \/ /\ SignalOk(e)
        /\ id_name_map' = Inserted(kind, id, e.name)
        /\ StoreSignal(kind, id, e)
        /\ UNCHANGED <<item_info, status_info, module_info, load>>

ItemOk(e) ==
  /\ \A ref \in e.subs : CanResolve(ref)
  /\ e.id # None => insertable("data_item", e.id, e.name)
  /\ ~Defined(item_info, e.name)

extract_module_data_item(e) ==
  /\ InModule /\ Read
  /\ \/ ~ItemOk(e) /\ BadProtocolConfig
     \/ /\ ItemOk(e)
        /\ id_name_map' = IF e.id # None THEN Inserted("data_item", e.id, e.name)
                          ELSE id_name_map
        /\ item_info' = [item_info EXCEPT ![e.name] =
             [name |-> e.name, id |-> e.id, module |-> modinfo.name,
              subs |-> {Resolve(ref) : ref \in e.subs}]]
        /\ modinfo' = [modinfo EXCEPT !.items = modinfo.items \cup {e.name}]
        /\ UNCHANGED <<signal_info, status_info, module_info, load>>

StatusOk(e) ==
  insertable("status_code", e.id, e.name) /\ ~Defined(status_info, e.id)

extract_module_status_code(e) ==
  /\ InModule /\ Read
  /\ \/ ~StatusOk(e) /\ BadProtocolConfig
     \/ /\ StatusOk(e)
        /\ id_name_map' = Inserted("status_code", e.id, e.name)
        /\ status_info' = [status_info EXCEPT ![e.id] =
                             [name |-> e.name, module |-> modinfo.name]]
        /\ modinfo' = [modinfo EXCEPT !.codes = modinfo.codes \cup {e.id}]
        /\ UNCHANGED <<signal_info, item_info, module_info, load>>

\* extract_module, up to its first element.
begin_module(name) ==
  /\ load = "loading" /\ modinfo = None /\ Read
  /\ modinfo' = [name |-> name, signals |-> {}, messages |-> {}, items |-> {}, codes |-> {}]
  /\ UNCHANGED <<config, load>>

\* The end of extract_module: only now is the module's name looked up.
end_module ==
  /\ InModule /\ UNCHANGED elements
  /\ \/ Defined(module_info, modinfo.name) /\ BadProtocolConfig
     \/ /\ ~Defined(module_info, modinfo.name)
        /\ module_info' = [module_info EXCEPT ![modinfo.name] = modinfo]
        /\ modinfo' = None
        /\ UNCHANGED <<id_name_map, signal_info, item_info, status_info, load>>

\* The parser, XInclude or the schema rejects the file; nothing is extracted.
reject_document ==
  /\ load = "loading" /\ elements = 0
  /\ BadProtocolConfig /\ UNCHANGED elements

end_document ==
  /\ load = "loading" /\ modinfo = None
  /\ load' = "loaded"
  /\ UNCHANGED <<config, modinfo, elements>>

LoadInit ==
  /\ id_name_map = [k \in Kinds |-> {}]
  /\ signal_info = [k \in SignalKinds |-> [i \in Ids |-> None]]
  /\ item_info = [n \in Names |-> None]
  /\ status_info = [i \in Ids |-> None]
  /\ module_info = [n \in ModuleNames |-> None]
  /\ modinfo = None /\ elements = 0 /\ load = "unread"

LoadStep ==
  \/ reject_document \/ end_document \/ end_module
  \/ \E n \in ModuleNames : begin_module(n)
  \/ \E e \in SignalElements : extract_module_signal(e)
  \/ \E e \in ItemElements : extract_module_data_item(e)
  \/ \E e \in StatusElements : extract_module_status_code(e)

-----------------------------------------------------------------------------
(* Properties *)

LoadTypeOK ==
  /\ id_name_map \in [Kinds -> SUBSET (Ids \X Names)]
  /\ signal_info \in [SignalKinds -> [Ids -> SignalInfo \cup {None}]]
  /\ item_info \in [Names -> ItemInfo \cup {None}]
  /\ status_info \in [Ids -> StatusInfo \cup {None}]
  /\ module_info \in [ModuleNames -> ModuleInfo \cup {None}]
  /\ modinfo \in ModuleInfo \cup {None}
  /\ elements \in 0..MaxElements /\ load \in {"unread", "loading", "loaded", "bad"}

\* A map from ids to names is one-to-one.
Bijective(map) == \A p, q \in map : p[1] = q[1] <=> p[2] = q[2]

\* A module owns what it defined: every loaded definition is listed by exactly
\* one module, the one it names, when the document has been read.
ModulesOwn ==
  load = "loaded" =>
    /\ \A m \in ModuleNames, n \in Names : Defined(item_info, n) =>
         (item_info[n].module = m <=> Defined(module_info, m) /\ n \in module_info[m].items)
    /\ \A m \in ModuleNames, i \in Ids : Defined(status_info, i) =>
         (status_info[i].module = m <=> Defined(module_info, m) /\ i \in module_info[m].codes)
    /\ \A m \in ModuleNames, i \in Ids : Defined(signal_info["message"], i) =>
         (signal_info["message"][i].module = m
            <=> Defined(module_info, m) /\ i \in module_info[m].messages)
    /\ \A m \in ModuleNames, i \in Ids : Defined(signal_info["signal"], i) =>
         (signal_info["signal"][i].module = m
            <=> Defined(module_info, m) /\ i \in module_info[m].signals)

\* In every state of loading each id has one name and each name one id, and
\* the maps from ids to names and to descriptions tell the same story: what one
\* knows the other knows, under the same name, whether it was defined once,
\* referred to or extended by a later module; in the end each definition
\* belongs to the module that lists it.
MapsAgree ==
  /\ ModulesOwn
  /\ \A kind \in Kinds : Bijective(id_name_map[kind])
  /\ \A kind \in SignalKinds, i \in Ids, n \in Names :
       <<i, n>> \in id_name_map[kind] <=>
         Defined(signal_info[kind], i) /\ signal_info[kind][i].name = n
  /\ \A i \in Ids, n \in Names :
       <<i, n>> \in id_name_map["data_item"] <=>
         Defined(item_info, n) /\ item_info[n].id = i
  /\ \A i \in Ids, n \in Names :
       <<i, n>> \in id_name_map["status_code"] <=>
         Defined(status_info, i) /\ status_info[i].name = n

\* Data item n refers to data item m as one of its sub data items.
Contains(n, m) == Defined(item_info, n) /\ \E s \in item_info[n].subs : s.name = m

\* Every data item that a signal or another item refers to is defined, and
\* every response has an id that is known.
ReferencesDefined ==
  /\ \A kind \in SignalKinds, i \in Ids : Defined(signal_info[kind], i) =>
       LET info == signal_info[kind][i] IN
       /\ \A r \in info.items : Defined(item_info, r.name)
       /\ info.response # None =>
            \E k \in SignalKinds : Defined(signal_info[k], info.response)
  /\ \A n, m \in Names : Contains(n, m) => Defined(item_info, m)

\* References are defined, and no data item contains itself at any depth (every
\* set of data items has one that contains none of them): encoding, parsing and
\* validation, which recurse into sub data items, terminate.
ReferencesResolve ==
  /\ ReferencesDefined
  /\ \A S \in (SUBSET Names) \ {{}} : \E n \in S : \A m \in S : ~Contains(n, m)
=============================================================================
