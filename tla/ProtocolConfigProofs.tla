------------------------ MODULE ProtocolConfigProofs ------------------------
(***************************************************************************)
(* Every step of loading a document keeps the maps of ProtocolConfig        *)
(* consistent, whatever the document holds.  The inductive invariant LoadInv *)
(* adds to MapsAgree and ReferencesResolve what holds while a module is     *)
(* being read: its definitions are listed by modinfo and not yet by         *)
(* module_info (Owned).                                                     *)
(***************************************************************************)
EXTENDS ProtocolConfig, TLAPS

\* What is listed as defined by the module being read, and by each earlier one.
OwnItems    == IF modinfo = None THEN {} ELSE modinfo.items
OwnCodes    == IF modinfo = None THEN {} ELSE modinfo.codes
OwnMessages == IF modinfo = None THEN {} ELSE modinfo.messages
OwnSignals  == IF modinfo = None THEN {} ELSE modinfo.signals
OwnName     == IF modinfo = None THEN None ELSE modinfo.name

ItemsOf    == [m \in ModuleNames |->
                 IF Defined(module_info, m) THEN module_info[m].items ELSE {}]
CodesOf    == [m \in ModuleNames |->
                 IF Defined(module_info, m) THEN module_info[m].codes ELSE {}]
MessagesOf == [m \in ModuleNames |->
                 IF Defined(module_info, m) THEN module_info[m].messages ELSE {}]
SignalsOf  == [m \in ModuleNames |->
                 IF Defined(module_info, m) THEN module_info[m].signals ELSE {}]

\* The definitions of `info` are those that module `name`, being read, lists in
\* `own` and the others in `lists`, each under the module it names.
Owned(info, keys, own, name, lists) ==
  /\ \A k \in keys : Defined(info, k) =>
       (k \in own /\ info[k].module = name) \/ k \in lists[info[k].module]
  /\ \A k \in own : Defined(info, k) /\ info[k].module = name
  /\ \A m \in ModuleNames : \A k \in lists[m] : Defined(info, k) /\ info[k].module = m

AllOwned ==
  /\ Owned(item_info, Names, OwnItems, OwnName, ItemsOf)
  /\ Owned(status_info, Ids, OwnCodes, OwnName, CodesOf)
  /\ Owned(signal_info["message"], Ids, OwnMessages, OwnName, MessagesOf)
  /\ Owned(signal_info["signal"], Ids, OwnSignals, OwnName, SignalsOf)

\* The map of a kind is one-to-one and names what `info` describes by id.
NamedById(map, info) ==
  \A i \in Ids, n \in Names : <<i, n>> \in map <=> Defined(info, i) /\ info[i].name = n

AllNamed ==
  /\ \A kind \in Kinds : Bijective(id_name_map[kind])
  /\ \A kind \in SignalKinds : NamedById(id_name_map[kind], signal_info[kind])
  /\ \A i \in Ids, n \in Names :
       <<i, n>> \in id_name_map["data_item"] <=> Defined(item_info, n) /\ item_info[n].id = i
  /\ NamedById(id_name_map["status_code"], status_info)

\* No data item contains itself, at any depth.
WellFounded == \A S \in (SUBSET Names) \ {{}} : \E n \in S : \A m \in S : ~Contains(n, m)

LoadInv ==
  /\ LoadTypeOK
  /\ load = "loaded" => modinfo = None
  /\ AllOwned /\ AllNamed /\ ReferencesDefined /\ WellFounded

-----------------------------------------------------------------------------
(* Adding to the lists and to the maps *)

\* A new definition is listed by the module being read.
LEMMA OwnedNew ==
  ASSUME NEW info, NEW keys, NEW own, NEW name, NEW lists, NEW k \in keys, NEW v,
         DOMAIN info = keys, Owned(info, keys, own, name, lists),
         ~Defined(info, k), v # None, v.module = name
  PROVE  Owned([info EXCEPT ![k] = v], keys, own \cup {k}, name, lists)
  BY DEF Owned, Defined

\* A definition that is extended stays with its module.
LEMMA OwnedExtended ==
  ASSUME NEW info, NEW keys, NEW own, NEW name, NEW lists, NEW k \in keys, NEW v,
         DOMAIN info = keys, Owned(info, keys, own, name, lists),
         Defined(info, k), v # None, v.module = info[k].module
  PROVE  Owned([info EXCEPT ![k] = v], keys, own, name, lists)
  BY DEF Owned, Defined

\* When the module has been read its list joins the others.
LEMMA OwnedEnd ==
  ASSUME NEW info, NEW keys, NEW own, NEW name \in ModuleNames, NEW lists, NEW new, NEW next,
         own \subseteq keys,
         Owned(info, keys, own, name, lists), lists[name] = {},
         new[name] = own, \A m \in ModuleNames \ {name} : new[m] = lists[m],
         \A k \in keys : Defined(info, k) => info[k].module \in ModuleNames
  PROVE  Owned(info, keys, {}, next, new)
  BY DEF Owned

\* Before its first definition it has nothing to list.
LEMMA OwnedBegin ==
  ASSUME NEW info, NEW keys, NEW name, NEW next, NEW lists,
         Owned(info, keys, {}, name, lists)
  PROVE  Owned(info, keys, {}, next, lists)
  BY DEF Owned

\* insert_id_name_mapping keeps a map one-to-one.
LEMMA InsertedBijective ==
  ASSUME NEW map \in SUBSET (Ids \X Names), NEW id \in Ids, NEW name \in Names,
         Bijective(map), \A p \in map : p[1] = id <=> p[2] = name
  PROVE  Bijective(map \cup {<<id, name>>})
  BY DEF Bijective

LEMMA InsertedNamed ==
  ASSUME NEW map \in SUBSET (Ids \X Names), NEW id \in Ids, NEW name \in Names,
         NEW info, NEW v, DOMAIN info = Ids, NamedById(map, info),
         \A p \in map : p[1] = id <=> p[2] = name, v # None, v.name = name
  PROVE  NamedById(map \cup {<<id, name>>}, [info EXCEPT ![id] = v])
  BY DEF NamedById, Defined

LEMMA LookedUp ==
  ASSUME NEW kind, NEW name, HasName(kind, name)
  PROVE  IdFor(kind, name) \in Ids /\ <<IdFor(kind, name), name>> \in id_name_map[kind]
  BY DEF HasName, IdFor

LEMMA SignalLookedUp ==
  ASSUME NEW name, IsSignalName(name)
  PROVE  /\ SignalKind(name) \in SignalKinds /\ get_signal_id(name) \in Ids
         /\ <<get_signal_id(name), name>> \in id_name_map[SignalKind(name)]
  BY LookedUp DEF IsSignalName, SignalKind, get_signal_id, SignalKinds

LEMMA ResolvedRef ==
  ASSUME NEW ref \in Reference, CanResolve(ref)
  PROVE  /\ Resolve(ref) \in Resolved /\ Resolve(ref).name = ref.name
         /\ Defined(item_info, ref.name)
  BY LookedUp DEF CanResolve, Resolve, Resolved, Reference

-----------------------------------------------------------------------------
(* The steps of loading *)

LEMMA LoadInvInit == LoadInit => LoadInv
<1> SUFFICES ASSUME LoadInit PROVE LoadInv
  OBVIOUS
<1> USE DEF LoadInit, Defined
<1>1. LoadTypeOK
  <2>1. elements \in 0..MaxElements
    BY ProtocolConfigAssumption
  <2>2. id_name_map \in [Kinds -> SUBSET (Ids \X Names)]
    OBVIOUS
  <2>3. signal_info \in [SignalKinds -> [Ids -> SignalInfo \cup {None}]]
    OBVIOUS
  <2> QED
    BY <2>1, <2>2, <2>3 DEF LoadTypeOK
<1>2. AllOwned
  BY DEF AllOwned, Owned, OwnItems, OwnCodes, OwnMessages, OwnSignals,
         ItemsOf, CodesOf, MessagesOf, SignalsOf, SignalKinds
<1>3. AllNamed
  BY DEF AllNamed, Bijective, NamedById, Kinds, SignalKinds
<1>4. \A n \in Names : \A m : ~Contains(n, m)
  BY DEF Contains
<1>5. ReferencesDefined
  BY <1>4 DEF ReferencesDefined
<1>6. WellFounded
  <2> SUFFICES ASSUME NEW S \in (SUBSET Names) \ {{}}
               PROVE  \E n \in S : \A m \in S : ~Contains(n, m)
    BY DEF WellFounded
  <2>1. S \subseteq Names /\ S # {}
    OBVIOUS
  <2>2. PICK n : n \in S
    BY <2>1
  <2> QED
    BY <1>4, <2>1, <2>2
<1> QED
  BY <1>1, <1>2, <1>3, <1>5, <1>6 DEF LoadInv

\* Nothing but the progress of loading changes: an error, the end of the
\* document, or what happens elsewhere.
LEMMA ConfigKept ==
  ASSUME LoadInv, UNCHANGED <<config, modinfo>>, elements' \in 0..MaxElements,
         load' \in {"unread", "loading", "loaded", "bad"},
         load' = "loaded" => modinfo = None
  PROVE  LoadInv'
<1> USE DEF config, LoadInv, Defined
<1>1. LoadTypeOK'
  BY DEF LoadTypeOK
<1>2. AllOwned'
  BY DEF AllOwned, Owned, OwnItems, OwnCodes, OwnMessages, OwnSignals, OwnName,
         ItemsOf, CodesOf, MessagesOf, SignalsOf
<1>3. AllNamed'
  BY DEF AllNamed, Bijective, NamedById
<1>4. ReferencesDefined' /\ WellFounded'
  BY DEF ReferencesDefined, WellFounded, Contains
<1> QED
  BY <1>1, <1>2, <1>3, <1>4

LEMMA ReadElements ==
  ASSUME LoadTypeOK, Read PROVE elements' \in 0..MaxElements
  BY ProtocolConfigAssumption DEF LoadTypeOK, Read

LEMMA BadKept ==
  ASSUME LoadInv, BadProtocolConfig, elements' \in 0..MaxElements PROVE LoadInv'
  BY ConfigKept DEF BadProtocolConfig

LEMMA BeginModule ==
  ASSUME LoadInv, NEW name \in ModuleNames, begin_module(name) PROVE LoadInv'
<1> USE DEF LoadInv, begin_module, config, Defined
<1>1. modinfo' \in ModuleInfo /\ modinfo' # None /\ modinfo = None
  BY NoneAssumption DEF ModuleInfo
<1>2. LoadTypeOK'
  BY <1>1, ReadElements DEF LoadTypeOK
<1>3. AllOwned'
  <2>1. /\ OwnItems = {} /\ OwnCodes = {} /\ OwnMessages = {} /\ OwnSignals = {}
        /\ OwnItems' = {} /\ OwnCodes' = {} /\ OwnMessages' = {} /\ OwnSignals' = {}
    BY <1>1 DEF OwnItems, OwnCodes, OwnMessages, OwnSignals
  <2>2. UNCHANGED <<ItemsOf, CodesOf, MessagesOf, SignalsOf, item_info, status_info,
                    signal_info>>
    BY DEF ItemsOf, CodesOf, MessagesOf, SignalsOf
  <2> QED
    BY <2>1, <2>2, OwnedBegin DEF AllOwned
<1>4. AllNamed'
  BY DEF AllNamed, Bijective, NamedById
<1>5. ReferencesDefined' /\ WellFounded'
  BY DEF ReferencesDefined, WellFounded, Contains
<1> QED
  BY <1>2, <1>3, <1>4, <1>5

LEMMA EndModule ==
  ASSUME LoadInv, end_module PROVE LoadInv'
<1> USE DEF LoadInv
<1>0. modinfo \in ModuleInfo /\ modinfo # None /\ modinfo.name \in ModuleNames
  BY DEF end_module, InModule, LoadTypeOK, ModuleInfo
<1>1. CASE Defined(module_info, modinfo.name) /\ BadProtocolConfig
  BY <1>1, BadKept DEF end_module, LoadTypeOK
<1>2. CASE ~(Defined(module_info, modinfo.name) /\ BadProtocolConfig)
  <2>1. /\ ~Defined(module_info, modinfo.name)
        /\ module_info' = [module_info EXCEPT ![modinfo.name] = modinfo]
        /\ modinfo' = None /\ UNCHANGED elements
        /\ UNCHANGED <<id_name_map, signal_info, item_info, status_info, load>>
    BY <1>2 DEF end_module
  <2>2. LoadTypeOK'
    BY <1>0, <2>1 DEF LoadTypeOK
  <2>3. AllOwned'
    <3>1. /\ OwnItems \subseteq Names /\ OwnCodes \subseteq Ids
          /\ OwnMessages \subseteq Ids /\ OwnSignals \subseteq Ids
          /\ OwnName = modinfo.name
      BY <1>0 DEF OwnItems, OwnCodes, OwnMessages, OwnSignals, OwnName, ModuleInfo
    <3>2. /\ OwnItems' = {} /\ OwnCodes' = {} /\ OwnMessages' = {} /\ OwnSignals' = {}
      BY <2>1 DEF OwnItems, OwnCodes, OwnMessages, OwnSignals
    <3>3. /\ \A k \in Names : Defined(item_info, k) => item_info[k].module \in ModuleNames
          /\ \A k \in Ids : Defined(status_info, k) => status_info[k].module \in ModuleNames
          /\ \A kind \in SignalKinds, k \in Ids : Defined(signal_info[kind], k) =>
               signal_info[kind][k].module \in ModuleNames
      BY DEF LoadTypeOK, Defined, ItemInfo, StatusInfo, SignalInfo
    <3>4. Owned(item_info, Names, {}, OwnName', ItemsOf')
      <4>1. /\ ItemsOf[modinfo.name] = {} /\ ItemsOf'[modinfo.name] = OwnItems
            /\ \A m \in ModuleNames \ {modinfo.name} : ItemsOf'[m] = ItemsOf[m]
        BY <1>0, <2>1 DEF ItemsOf, OwnItems, Defined, LoadTypeOK
      <4> QED
        BY <1>0, <3>1, <3>3, <4>1, OwnedEnd DEF AllOwned
    <3>5. Owned(status_info, Ids, {}, OwnName', CodesOf')
      <4>1. /\ CodesOf[modinfo.name] = {} /\ CodesOf'[modinfo.name] = OwnCodes
            /\ \A m \in ModuleNames \ {modinfo.name} : CodesOf'[m] = CodesOf[m]
        BY <1>0, <2>1 DEF CodesOf, OwnCodes, Defined, LoadTypeOK
      <4> QED
        BY <1>0, <3>1, <3>3, <4>1, OwnedEnd DEF AllOwned
    <3>6. Owned(signal_info["message"], Ids, {}, OwnName', MessagesOf')
      <4>1. /\ MessagesOf[modinfo.name] = {} /\ MessagesOf'[modinfo.name] = OwnMessages
            /\ \A m \in ModuleNames \ {modinfo.name} : MessagesOf'[m] = MessagesOf[m]
        BY <1>0, <2>1 DEF MessagesOf, OwnMessages, Defined, LoadTypeOK
      <4> QED
        BY <1>0, <3>1, <3>3, <4>1, OwnedEnd DEF AllOwned, SignalKinds
    <3>7. Owned(signal_info["signal"], Ids, {}, OwnName', SignalsOf')
      <4>1. /\ SignalsOf[modinfo.name] = {} /\ SignalsOf'[modinfo.name] = OwnSignals
            /\ \A m \in ModuleNames \ {modinfo.name} : SignalsOf'[m] = SignalsOf[m]
        BY <1>0, <2>1 DEF SignalsOf, OwnSignals, Defined, LoadTypeOK
      <4> QED
        BY <1>0, <3>1, <3>3, <4>1, OwnedEnd DEF AllOwned, SignalKinds
    <3> QED
      BY <2>1, <3>2, <3>4, <3>5, <3>6, <3>7 DEF AllOwned
  <2>4. AllNamed'
    BY <2>1 DEF AllNamed, Bijective, NamedById, Defined
  <2>5. ReferencesDefined' /\ WellFounded'
    BY <2>1 DEF ReferencesDefined, WellFounded, Contains, Defined
  <2> QED
    BY <2>1, <2>2, <2>3, <2>4, <2>5
<1> QED
  BY <1>1, <1>2

\* A new data item contains only items that were defined before it, and none of
\* those contains it.
LEMMA NewItemWellFounded ==
  ASSUME WellFounded, ReferencesDefined, NEW name \in Names, NEW info,
         DOMAIN item_info = Names, ~Defined(item_info, name),
         \A s \in info.subs : Defined(item_info, s.name), info # None,
         item_info' = [item_info EXCEPT ![name] = info]
  PROVE  WellFounded' /\ (\A n, m \in Names : Contains(n, m)' => Defined(item_info, m))
<1>1. ASSUME NEW n \in Names, NEW m \in Names, Contains(n, m)'
      PROVE  Defined(item_info, m) /\ (n # name => Contains(n, m))
  BY <1>1 DEF Contains, Defined, ReferencesDefined
<1>2. ASSUME NEW S \in (SUBSET Names) \ {{}}
      PROVE  \E n \in S : \A m \in S : ~Contains(n, m)'
  <2>1. CASE S \ {name} = {}
    <3>1. S # {}
      BY <1>2
    <3>2. name \in S /\ \A m \in S : m = name
      BY <2>1, <3>1
    <3> QED
      BY <1>1, <3>2
  <2>2. CASE S \ {name} # {}
    <3>1. PICK n \in S \ {name} : \A m \in S \ {name} : ~Contains(n, m)
      BY <1>2, <2>2 DEF WellFounded
    <3> QED
      BY <1>1, <1>2, <3>1
  <2> QED
    BY <2>1, <2>2
<1>3. WellFounded'
  BY <1>2 DEF WellFounded
<1> QED
  BY <1>1, <1>3

LEMMA ExtractItem ==
  ASSUME LoadInv, NEW e \in ItemElements, extract_module_data_item(e) PROVE LoadInv'
<1> USE DEF LoadInv
<1>0. /\ modinfo \in ModuleInfo /\ modinfo # None /\ modinfo.name \in ModuleNames
      /\ load = "loading" /\ elements' \in 0..MaxElements
  BY ReadElements DEF extract_module_data_item, InModule, LoadTypeOK, ModuleInfo
<1>1. CASE BadProtocolConfig
  BY <1>0, <1>1, BadKept
<1>2. CASE ~BadProtocolConfig
  <2> DEFINE info == [name |-> e.name, id |-> e.id, module |-> modinfo.name,
                      subs |-> {Resolve(ref) : ref \in e.subs}]
  <2>0. e \in ItemElement /\ e.name \in Names /\ e.id \in Ids \cup {None}
        /\ e.subs \subseteq Reference
    BY ProtocolConfigAssumption DEF ItemElement
  <2>1. /\ ItemOk(e)
        /\ id_name_map' = IF e.id # None THEN Inserted("data_item", e.id, e.name)
                          ELSE id_name_map
        /\ item_info' = [item_info EXCEPT ![e.name] = info]
        /\ modinfo' = [modinfo EXCEPT !.items = modinfo.items \cup {e.name}]
        /\ UNCHANGED <<signal_info, status_info, module_info, load>>
    BY <1>2 DEF extract_module_data_item
  <2>2. /\ info.subs \subseteq Resolved
        /\ \A s \in info.subs : Defined(item_info, s.name)
    BY <2>0, <2>1, ResolvedRef DEF ItemOk
  <2>3. info \in ItemInfo /\ info # None
    BY <1>0, <2>0, <2>2, NoneAssumption DEF ItemInfo
  <2>4. modinfo' \in ModuleInfo /\ modinfo' # None
    BY <1>0, <2>0, <2>1, NoneAssumption DEF ModuleInfo
  <2> HIDE DEF info
  <2>5. ~Defined(item_info, e.name) /\ DOMAIN item_info = Names
    BY <2>1 DEF ItemOk, LoadTypeOK
  <2>6. LoadTypeOK'
    <3>1. id_name_map' \in [Kinds -> SUBSET (Ids \X Names)]
      BY <2>0, <2>1 DEF LoadTypeOK, Inserted, Kinds
    <3> QED
      BY <1>0, <2>0, <2>1, <2>3, <2>4, <3>1 DEF LoadTypeOK
  <2>7. AllOwned'
    <3>1. /\ OwnItems' = OwnItems \cup {e.name} /\ OwnName' = OwnName
          /\ OwnCodes' = OwnCodes /\ OwnMessages' = OwnMessages /\ OwnSignals' = OwnSignals
      BY <1>0, <2>1, <2>4
      DEF OwnItems, OwnCodes, OwnMessages, OwnSignals, OwnName, ModuleInfo
    <3>2. UNCHANGED <<ItemsOf, CodesOf, MessagesOf, SignalsOf>>
      BY <2>1 DEF ItemsOf, CodesOf, MessagesOf, SignalsOf, Defined
    <3>3. info.module = OwnName
      BY <1>0 DEF info, OwnName
    <3>4. Owned(item_info', Names, OwnItems', OwnName', ItemsOf')
      BY <2>0, <2>1, <2>3, <2>5, <3>1, <3>2, <3>3, OwnedNew DEF AllOwned
    <3> QED
      BY <2>1, <3>1, <3>2, <3>4 DEF AllOwned
  <2>8. AllNamed'
    <3>1. info.id = e.id /\ info.name = e.name
      BY DEF info
    <3>2. CASE e.id = None
      BY <2>0, <2>1, <2>3, <2>5, <3>1, <3>2, ProtocolConfigAssumption
      DEF AllNamed, NamedById, Defined
    <3>3. CASE e.id # None
      <4>1. /\ e.id \in Ids
            /\ \A p \in id_name_map["data_item"] : p[1] = e.id <=> p[2] = e.name
        BY <2>0, <2>1, <3>3 DEF ItemOk, insertable
      <4>2. id_name_map["data_item"] \in SUBSET (Ids \X Names)
        BY DEF LoadTypeOK, Kinds
      <4>3. /\ id_name_map'["data_item"] = id_name_map["data_item"] \cup {<<e.id, e.name>>}
            /\ \A k \in Kinds \ {"data_item"} : id_name_map'[k] = id_name_map[k]
        BY <2>1, <3>3 DEF Inserted, LoadTypeOK, Kinds
      <4>4. Bijective(id_name_map'["data_item"])
        BY <2>0, <4>1, <4>2, <4>3, InsertedBijective DEF AllNamed, Kinds
      <4>5. \A i \in Ids, n \in Names :
              <<i, n>> \in id_name_map'["data_item"]
                <=> Defined(item_info', n) /\ item_info'[n].id = i
        BY <2>0, <2>1, <2>3, <2>5, <3>1, <4>1, <4>3 DEF AllNamed, Defined
      <4> QED
        BY <2>1, <4>3, <4>4, <4>5 DEF AllNamed, Kinds, SignalKinds
    <3> QED
      BY <3>2, <3>3
  <2>9. ReferencesDefined' /\ WellFounded'
    <3>1. WellFounded' /\ \A n, m \in Names : Contains(n, m)' => Defined(item_info, m)
      BY <2>0, <2>1, <2>2, <2>3, <2>5, NewItemWellFounded
    <3>2. \A n \in Names : Defined(item_info, n) => Defined(item_info', n)
      BY <2>0, <2>1, <2>3, <2>5 DEF Defined
    <3>3. \A kind \in SignalKinds, i \in Ids : Defined(signal_info[kind], i) =>
            signal_info[kind][i].items \subseteq Resolved
      BY DEF LoadTypeOK, Defined, SignalInfo
    <3> QED
      BY <2>1, <3>1, <3>2, <3>3 DEF ReferencesDefined, Resolved, Defined
  <2> QED
    BY <1>0, <2>1, <2>6, <2>7, <2>8, <2>9
<1> QED
  BY <1>1, <1>2

LEMMA ExtractStatus ==
  ASSUME LoadInv, NEW e \in StatusElements, extract_module_status_code(e) PROVE LoadInv'
<1> USE DEF LoadInv
<1>0. /\ modinfo \in ModuleInfo /\ modinfo # None /\ modinfo.name \in ModuleNames
      /\ load = "loading" /\ elements' \in 0..MaxElements
  BY ReadElements DEF extract_module_status_code, InModule, LoadTypeOK, ModuleInfo
<1>1. CASE BadProtocolConfig
  BY <1>0, <1>1, BadKept
<1>2. CASE ~BadProtocolConfig
  <2> DEFINE info == [name |-> e.name, module |-> modinfo.name]
             map  == id_name_map["status_code"]
  <2>0. e.name \in Names /\ e.id \in Ids
    BY ProtocolConfigAssumption DEF StatusElement
  <2>1. /\ StatusOk(e)
        /\ id_name_map' = Inserted("status_code", e.id, e.name)
        /\ status_info' = [status_info EXCEPT ![e.id] = info]
        /\ modinfo' = [modinfo EXCEPT !.codes = modinfo.codes \cup {e.id}]
        /\ UNCHANGED <<signal_info, item_info, module_info, load>>
    BY <1>2 DEF extract_module_status_code
  <2>2. /\ info \in StatusInfo /\ info # None
        /\ info.name = e.name /\ info.module = modinfo.name
    BY <1>0, <2>0, NoneAssumption DEF StatusInfo
  <2>3. modinfo' \in ModuleInfo /\ modinfo' # None
    BY <1>0, <2>0, <2>1, NoneAssumption DEF ModuleInfo
  <2> HIDE DEF info
  <2>4. /\ ~Defined(status_info, e.id) /\ DOMAIN status_info = Ids
        /\ \A p \in map : p[1] = e.id <=> p[2] = e.name
    BY <2>1 DEF StatusOk, LoadTypeOK, insertable
  <2>5. /\ map \in SUBSET (Ids \X Names)
        /\ id_name_map'["status_code"] = map \cup {<<e.id, e.name>>}
        /\ \A k \in Kinds \ {"status_code"} : id_name_map'[k] = id_name_map[k]
        /\ id_name_map' \in [Kinds -> SUBSET (Ids \X Names)]
    BY <2>0, <2>1 DEF Inserted, LoadTypeOK, Kinds
  <2>6. LoadTypeOK'
    BY <1>0, <2>0, <2>1, <2>2, <2>3, <2>5 DEF LoadTypeOK
  <2>7. AllOwned'
    <3>1. /\ OwnCodes' = OwnCodes \cup {e.id} /\ OwnName' = OwnName /\ OwnName = modinfo.name
          /\ OwnItems' = OwnItems /\ OwnMessages' = OwnMessages /\ OwnSignals' = OwnSignals
      BY <1>0, <2>1, <2>3
      DEF OwnItems, OwnCodes, OwnMessages, OwnSignals, OwnName, ModuleInfo
    <3>2. UNCHANGED <<ItemsOf, CodesOf, MessagesOf, SignalsOf>>
      BY <2>1 DEF ItemsOf, CodesOf, MessagesOf, SignalsOf, Defined
    <3>3. Owned(status_info', Ids, OwnCodes', OwnName', CodesOf')
      BY <2>0, <2>1, <2>2, <2>4, <3>1, <3>2, OwnedNew DEF AllOwned
    <3> QED
      BY <2>1, <3>1, <3>2, <3>3 DEF AllOwned
  <2>8. AllNamed'
    <3>1. Bijective(id_name_map'["status_code"])
      BY <2>0, <2>4, <2>5, InsertedBijective DEF AllNamed, Kinds
    <3>2. NamedById(id_name_map'["status_code"], status_info')
      <4>1. NamedById(map, status_info)
        BY DEF AllNamed
      <4> HIDE DEF map
      <4>2. NamedById(map \cup {<<e.id, e.name>>}, [status_info EXCEPT ![e.id] = info])
        BY <2>0, <2>2, <2>4, <2>5, <4>1, InsertedNamed
      <4> QED
        BY <2>1, <2>5, <4>2
    <3> QED
      BY <2>1, <2>5, <3>1, <3>2 DEF AllNamed, Kinds, SignalKinds
  <2>9. ReferencesDefined' /\ WellFounded'
    BY <2>1 DEF ReferencesDefined, WellFounded, Contains, Defined
  <2> QED
    BY <1>0, <2>1, <2>6, <2>7, <2>8, <2>9
<1> QED
  BY <1>1, <1>2

\* The kind and the id that extract_module_signal works on.
KindOf(e) == IF e.id # None THEN DefinedKind(e) ELSE SignalKind(e.name)
IdOf(e)   == IF e.id # None THEN e.id ELSE get_signal_id(e.name)

\* A signal that is accepted may be inserted in its map, and is a definition or
\* an extension of what has been defined.
LEMMA SignalAccepted ==
  ASSUME LoadInv, NEW e \in SignalElements, SignalOk(e)
  PROVE  /\ KindOf(e) \in SignalKinds /\ IdOf(e) \in Ids /\ e.name \in Names
         /\ \A p \in id_name_map[KindOf(e)] : p[1] = IdOf(e) <=> p[2] = e.name
         /\ ~Defined(signal_info[KindOf(e)], IdOf(e)) => e.message # None /\ e.sender # None
         /\ Defined(signal_info[KindOf(e)], IdOf(e)) =>
              signal_info[KindOf(e)][IdOf(e)].name = e.name
<1>0. e \in SignalElement /\ e.name \in Names /\ e.id \in Ids \cup {None}
  BY ProtocolConfigAssumption DEF SignalElement
<1>1. KindOf(e) \in SignalKinds /\ IdOf(e) \in Ids
  BY <1>0, SignalLookedUp DEF SignalOk, KindOf, IdOf, DefinedKind, SignalKinds
<1>2. /\ Bijective(id_name_map[KindOf(e)])
      /\ NamedById(id_name_map[KindOf(e)], signal_info[KindOf(e)])
      /\ id_name_map[KindOf(e)] \in SUBSET (Ids \X Names)
      /\ signal_info[KindOf(e)] \in [Ids -> SignalInfo \cup {None}]
  BY <1>1 DEF LoadInv, AllNamed, LoadTypeOK, Kinds
<1>3. CASE e.id # None
  <2>1. /\ \A p \in id_name_map[KindOf(e)] : p[1] = IdOf(e) <=> p[2] = e.name
        /\ e.message # None /\ e.sender # None
    BY <1>3 DEF SignalOk, KindOf, IdOf, insertable
  <2>2. ASSUME Defined(signal_info[KindOf(e)], IdOf(e))
        PROVE  signal_info[KindOf(e)][IdOf(e)].name = e.name
    <3> DEFINE n == signal_info[KindOf(e)][IdOf(e)].name
    <3>0. signal_info[KindOf(e)][IdOf(e)] \in SignalInfo
      BY <1>1, <1>2, <2>2 DEF Defined
    <3>1. n \in Names
      BY <3>0 DEF SignalInfo
    <3>2. <<IdOf(e), n>> \in id_name_map[KindOf(e)]
      BY <1>1, <1>2, <2>2, <3>1 DEF NamedById
    <3> QED
      BY <2>1, <3>2
  <2> QED
    BY <1>0, <1>1, <2>1, <2>2
<1>4. CASE e.id = None
  <2>1. <<IdOf(e), e.name>> \in id_name_map[KindOf(e)]
    BY <1>4, SignalLookedUp DEF SignalOk, KindOf, IdOf
  <2>2. Defined(signal_info[KindOf(e)], IdOf(e))
        /\ signal_info[KindOf(e)][IdOf(e)].name = e.name
    BY <1>0, <1>1, <1>2, <2>1 DEF NamedById
  <2>3. \A p \in id_name_map[KindOf(e)] : p[1] = IdOf(e) <=> p[2] = e.name
    BY <1>2, <2>1 DEF Bijective
  <2> QED
    BY <1>0, <1>1, <2>2, <2>3
<1> QED
  BY <1>3, <1>4

\* What is stored for an accepted signal.
SignalStored(e) ==
  IF Defined(signal_info[KindOf(e)], IdOf(e))
  THEN ExtendedSignal(signal_info[KindOf(e)][IdOf(e)], e) ELSE NewSignal(e)

LEMMA SignalDescribed ==
  ASSUME LoadInv, InModule, NEW e \in SignalElements, SignalOk(e)
  PROVE  /\ SignalStored(e) \in SignalInfo
         /\ SignalStored(e).name = e.name
         /\ SignalStored(e).module =
              IF Defined(signal_info[KindOf(e)], IdOf(e))
              THEN signal_info[KindOf(e)][IdOf(e)].module ELSE modinfo.name
         /\ \A r \in SignalStored(e).items : Defined(item_info, r.name)
         /\ SignalStored(e).response # None =>
              \E k \in SignalKinds : Defined(signal_info[k], SignalStored(e).response)
<1> DEFINE items == {Resolve(ref) : ref \in ItemRefs(e)}
           old   == signal_info[KindOf(e)][IdOf(e)]
<1>0. /\ e.name \in Names /\ e.id \in Ids \cup {None} /\ e.items \subseteq Names
      /\ e.message \in {"yes", "no", None} /\ e.sender \in {"modem", "router", "both", None}
      /\ e.response \in Names \cup {None} /\ modinfo.name \in ModuleNames
  BY ProtocolConfigAssumption DEF SignalElement, InModule, LoadInv, LoadTypeOK, ModuleInfo
<1>1. items \subseteq Resolved /\ \A r \in items : Defined(item_info, r.name)
  <2>1. \A ref \in ItemRefs(e) : ref \in Reference
    BY <1>0 DEF ItemRefs, Reference
  <2> QED
    BY <2>1, ResolvedRef DEF SignalOk
<1> HIDE DEF items
<1>2. KindOf(e) \in SignalKinds /\ IdOf(e) \in Ids
  BY SignalAccepted
<1>3. CASE Defined(signal_info[KindOf(e)], IdOf(e))
  <2>1. old \in SignalInfo
    BY <1>2, <1>3 DEF LoadInv, LoadTypeOK, Defined
  <2>2. /\ \A r \in old.items : Defined(item_info, r.name)
        /\ old.response # None => \E k \in SignalKinds : Defined(signal_info[k], old.response)
    BY <1>2, <1>3 DEF LoadInv, ReferencesDefined
  <2>3. SignalStored(e) = ExtendedSignal(old, e) /\ old.name = e.name
    BY <1>3, SignalAccepted DEF SignalStored
  <2> HIDE DEF old
  <2>4. /\ ExtendedSignal(old, e) \in SignalInfo
        /\ ExtendedSignal(old, e).name = old.name
        /\ ExtendedSignal(old, e).module = old.module
        /\ ExtendedSignal(old, e).items = old.items \cup items
        /\ ExtendedSignal(old, e).response = old.response
    BY <1>0, <1>1, <2>1 DEF ExtendedSignal, SignalInfo, items
  <2> QED
    BY <1>1, <1>3, <2>2, <2>3, <2>4 DEF old
<1>4. CASE ~Defined(signal_info[KindOf(e)], IdOf(e))
  <2>1. e.message # None /\ e.sender # None
    BY <1>4, SignalAccepted
  <2>2. ASSUME e.response # None
        PROVE  /\ get_signal_id(e.response) \in Ids
               /\ \E k \in SignalKinds : Defined(signal_info[k], get_signal_id(e.response))
    <3>1. /\ SignalKind(e.response) \in SignalKinds /\ get_signal_id(e.response) \in Ids
          /\ <<get_signal_id(e.response), e.response>> \in id_name_map[SignalKind(e.response)]
      BY <2>2, SignalLookedUp DEF SignalOk
    <3> QED
      BY <1>0, <2>2, <3>1 DEF LoadInv, AllNamed, NamedById
  <2>3. SignalStored(e) = NewSignal(e)
    BY <1>4 DEF SignalStored
  <2>4. /\ NewSignal(e) \in SignalInfo /\ NewSignal(e).name = e.name
        /\ NewSignal(e).module = modinfo.name /\ NewSignal(e).items = items
        /\ NewSignal(e).response = IF e.response # None THEN get_signal_id(e.response) ELSE None
    BY <1>0, <1>1, <2>1, <2>2 DEF NewSignal, SignalInfo, items
  <2> QED
    BY <1>1, <1>4, <2>2, <2>3, <2>4
<1> QED
  BY <1>3, <1>4

LEMMA ExtractSignal ==
  ASSUME LoadInv, NEW e \in SignalElements, extract_module_signal(e) PROVE LoadInv'
<1> USE DEF LoadInv
<1>0. /\ modinfo \in ModuleInfo /\ modinfo # None /\ modinfo.name \in ModuleNames
      /\ InModule /\ load = "loading" /\ elements' \in 0..MaxElements
  BY ReadElements DEF extract_module_signal, InModule, LoadTypeOK, ModuleInfo
<1>1. CASE BadProtocolConfig
  BY <1>0, <1>1, BadKept
<1>2. CASE ~BadProtocolConfig
  <2> DEFINE kind == KindOf(e)
             id   == IdOf(e)
             info == SignalStored(e)
             new  == ~Defined(signal_info[kind], id)
             map  == id_name_map[kind]
  <2>1. /\ SignalOk(e)
        /\ id_name_map' = Inserted(kind, id, e.name)
        /\ StoreSignal(kind, id, e)
        /\ UNCHANGED <<item_info, status_info, module_info, load>>
    BY <1>2 DEF extract_module_signal, KindOf, IdOf
  <2>2. /\ kind \in SignalKinds /\ id \in Ids /\ e.name \in Names
        /\ \A p \in map : p[1] = id <=> p[2] = e.name
    BY <2>1, SignalAccepted
  <2>3. /\ info \in SignalInfo /\ info.name = e.name
        /\ info.module = IF new THEN modinfo.name ELSE signal_info[kind][id].module
        /\ \A r \in info.items : Defined(item_info, r.name)
        /\ info.response # None => \E k \in SignalKinds : Defined(signal_info[k], info.response)
    BY <1>0, <2>1, SignalDescribed
  <2>4. /\ signal_info' = [signal_info EXCEPT ![kind][id] = info]
        /\ modinfo' = CASE ~new -> modinfo
                      [] new /\ kind = "message" ->
                           [modinfo EXCEPT !.messages = modinfo.messages \cup {id}]
                      [] new /\ kind # "message" ->
                           [modinfo EXCEPT !.signals = modinfo.signals \cup {id}]
    BY <2>1 DEF StoreSignal, SignalStored
  <2>5. modinfo' \in ModuleInfo /\ modinfo' # None
    BY <1>0, <2>2, <2>4, NoneAssumption DEF ModuleInfo
  <2> HIDE DEF kind, id, info, new
  <2>6. /\ map \in SUBSET (Ids \X Names)
        /\ id_name_map'[kind] = map \cup {<<id, e.name>>}
        /\ \A k \in Kinds \ {kind} : id_name_map'[k] = id_name_map[k]
        /\ id_name_map' \in [Kinds -> SUBSET (Ids \X Names)]
    BY <2>1, <2>2 DEF Inserted, LoadTypeOK, Kinds
  <2>7. /\ signal_info[kind] \in [Ids -> SignalInfo \cup {None}]
        /\ signal_info'[kind] = [signal_info[kind] EXCEPT ![id] = info]
        /\ \A k \in SignalKinds \ {kind} : signal_info'[k] = signal_info[k]
        /\ signal_info' \in [SignalKinds -> [Ids -> SignalInfo \cup {None}]]
    BY <2>2, <2>3, <2>4 DEF LoadTypeOK
  <2>8. LoadTypeOK'
    BY <1>0, <2>1, <2>5, <2>6, <2>7 DEF LoadTypeOK
  <2>9. info # None
    BY <2>3, NoneAssumption
  <2>10. AllOwned'
    <3>1. /\ OwnName' = OwnName /\ OwnName = modinfo.name
          /\ OwnItems' = OwnItems /\ OwnCodes' = OwnCodes
          /\ OwnMessages' = IF new /\ kind = "message" THEN OwnMessages \cup {id}
                            ELSE OwnMessages
          /\ OwnSignals' = IF new /\ kind = "signal" THEN OwnSignals \cup {id}
                           ELSE OwnSignals
      BY <1>0, <2>2, <2>4, <2>5
      DEF OwnItems, OwnCodes, OwnMessages, OwnSignals, OwnName, ModuleInfo, SignalKinds
    <3>2. UNCHANGED <<ItemsOf, CodesOf, MessagesOf, SignalsOf>>
      BY <2>1 DEF ItemsOf, CodesOf, MessagesOf, SignalsOf, Defined
    <3>3. DOMAIN signal_info[kind] = Ids
      BY <2>7
    <3>4. ASSUME kind = "message"
          PROVE  Owned(signal_info'[kind], Ids, OwnMessages', OwnName', MessagesOf')
      <4>1. Owned(signal_info[kind], Ids, OwnMessages, OwnName, MessagesOf)
        BY <3>4 DEF AllOwned
      <4>2. CASE new
        BY <2>2, <2>3, <2>7, <2>9, <3>1, <3>2, <3>3, <3>4, <4>1, <4>2, OwnedNew DEF new
      <4>3. CASE ~new
        BY <2>2, <2>3, <2>7, <2>9, <3>1, <3>2, <3>3, <3>4, <4>1, <4>3, OwnedExtended DEF new
      <4> QED
        BY <4>2, <4>3
    <3>5. ASSUME kind = "signal"
          PROVE  Owned(signal_info'[kind], Ids, OwnSignals', OwnName', SignalsOf')
      <4>1. Owned(signal_info[kind], Ids, OwnSignals, OwnName, SignalsOf)
        BY <3>5 DEF AllOwned
      <4>2. CASE new
        BY <2>2, <2>3, <2>7, <2>9, <3>1, <3>2, <3>3, <3>5, <4>1, <4>2, OwnedNew DEF new
      <4>3. CASE ~new
        BY <2>2, <2>3, <2>7, <2>9, <3>1, <3>2, <3>3, <3>5, <4>1, <4>3, OwnedExtended DEF new
      <4> QED
        BY <4>2, <4>3
    <3>6. CASE kind = "message"
      BY <2>1, <2>7, <3>1, <3>2, <3>4, <3>6 DEF AllOwned, SignalKinds
    <3>7. CASE kind = "signal"
      BY <2>1, <2>7, <3>1, <3>2, <3>5, <3>7 DEF AllOwned, SignalKinds
    <3> QED
      BY <2>2, <3>6, <3>7 DEF SignalKinds
  <2>11. AllNamed'
    <3>1. /\ Bijective(map) /\ NamedById(map, signal_info[kind])
          /\ DOMAIN signal_info[kind] = Ids
      BY <2>2, <2>7 DEF AllNamed, Kinds
    <3>2. Bijective(id_name_map'[kind])
      BY <2>2, <2>6, <3>1, InsertedBijective
    <3>3. NamedById(id_name_map'[kind], signal_info'[kind])
      <4> HIDE DEF map
      <4>1. NamedById(map \cup {<<id, e.name>>}, [signal_info[kind] EXCEPT ![id] = info])
        BY <2>2, <2>3, <2>6, <2>9, <3>1, InsertedNamed
      <4> QED
        BY <2>6, <2>7, <4>1
    <3> HIDE DEF map
    <3>4. kind \in Kinds \ {"data_item", "status_code"}
      BY <2>2 DEF Kinds, SignalKinds
    <3>5. \A k \in Kinds : Bijective(id_name_map'[k])
      BY <2>6, <3>2 DEF AllNamed
    <3>6. \A k \in SignalKinds : NamedById(id_name_map'[k], signal_info'[k])
      BY <2>6, <2>7, <3>3 DEF AllNamed, Kinds
    <3>7. /\ id_name_map'["data_item"] = id_name_map["data_item"]
          /\ id_name_map'["status_code"] = id_name_map["status_code"]
      BY <2>6, <3>4 DEF Kinds
    <3> QED
      BY <2>1, <3>5, <3>6, <3>7 DEF AllNamed, Defined
  <2>12. ReferencesDefined'
    <3>1. \A k \in SignalKinds, i \in Ids :
            Defined(signal_info[k], i) => Defined(signal_info'[k], i)
      BY <2>2, <2>7, <2>9 DEF Defined
    <3>2. ASSUME NEW k \in SignalKinds, NEW i \in Ids, Defined(signal_info'[k], i)
          PROVE  /\ \A r \in signal_info'[k][i].items : Defined(item_info, r.name)
                 /\ signal_info'[k][i].response # None =>
                      \E l \in SignalKinds :
                        Defined(signal_info[l], signal_info'[k][i].response)
      <4>1. CASE k = kind /\ i = id
        BY <2>2, <2>3, <2>7, <4>1
      <4>2. CASE ~(k = kind /\ i = id)
        <5>1. signal_info'[k][i] = signal_info[k][i]
          BY <2>2, <2>7, <4>2
        <5> QED
          BY <3>2, <5>1 DEF ReferencesDefined, Defined
      <4> QED
        BY <4>1, <4>2
    <3>3. \A k \in SignalKinds, i \in Ids :
            Defined(signal_info'[k], i) => signal_info'[k][i].response \in Ids \cup {None}
      BY <2>7 DEF Defined, SignalInfo
    <3> QED
      BY <2>1, <3>1, <3>2, <3>3 DEF ReferencesDefined, Contains, Defined
  <2>13. WellFounded'
    BY <2>1 DEF WellFounded, Contains, Defined
  <2> QED
    BY <1>0, <2>1, <2>8, <2>10, <2>11, <2>12, <2>13
<1> QED
  BY <1>1, <1>2

\* A step of load_protocol_config keeps the configuration consistent.
LEMMA LoadStepInv == LoadInv /\ LoadStep => LoadInv'
<1> SUFFICES ASSUME LoadInv, LoadStep PROVE LoadInv'
  OBVIOUS
<1>1. CASE reject_document
  BY <1>1, BadKept DEF reject_document, LoadInv, LoadTypeOK
<1>2. CASE end_document
  BY <1>2, ConfigKept DEF end_document, LoadInv, LoadTypeOK
<1> QED
  BY <1>1, <1>2, EndModule, BeginModule, ExtractSignal, ExtractItem, ExtractStatus
  DEF LoadStep

LEMMA LoadInvConsistent == LoadInv => LoadTypeOK /\ MapsAgree /\ ReferencesResolve
<1> SUFFICES ASSUME LoadInv PROVE LoadTypeOK /\ MapsAgree /\ ReferencesResolve
  OBVIOUS
<1>1. ModulesOwn
  <2> SUFFICES ASSUME load = "loaded" PROVE ModulesOwn
    BY DEF ModulesOwn
  <2>1. /\ OwnItems = {} /\ OwnCodes = {} /\ OwnMessages = {} /\ OwnSignals = {}
    BY DEF LoadInv, OwnItems, OwnCodes, OwnMessages, OwnSignals
  <2>2. /\ \A m \in ModuleNames, n \in Names : Defined(item_info, n) =>
             (item_info[n].module = m <=> n \in ItemsOf[m])
        /\ \A m \in ModuleNames, i \in Ids : Defined(status_info, i) =>
             (status_info[i].module = m <=> i \in CodesOf[m])
        /\ \A m \in ModuleNames, i \in Ids : Defined(signal_info["message"], i) =>
             (signal_info["message"][i].module = m <=> i \in MessagesOf[m])
        /\ \A m \in ModuleNames, i \in Ids : Defined(signal_info["signal"], i) =>
             (signal_info["signal"][i].module = m <=> i \in SignalsOf[m])
    BY <2>1 DEF LoadInv, AllOwned, Owned
  <2> QED
    BY <2>2 DEF ModulesOwn, ItemsOf, CodesOf, MessagesOf, SignalsOf
<1>2. MapsAgree
  BY <1>1 DEF LoadInv, MapsAgree, AllNamed, NamedById
<1> QED
  BY <1>2 DEF LoadInv, ReferencesResolve, WellFounded
=============================================================================
