------------------------------- MODULE MCWire -------------------------------
(***************************************************************************)
(* A small protocol configuration for Wire: one data item of each value     *)
(* type, with bytes of 8 values, and three messages.                        *)
(***************************************************************************)
EXTENDS Wire

Top(id, type)     == [id |-> id, type |-> type, units |-> "", subs |-> <<>>]
Ref(name, id, occurs) == [name |-> name, id |-> id, occurs |-> occurs]

MCItems ==
  [Status                |-> Top(1, "u8_string"),
   IPv4_Connection_Point |-> Top(2, "u8_ipv4_u16"),
   IPv6_Connection_Point |-> Top(3, "u8_ipv6_u16"),
   Peer_Type             |-> Top(4, "string"),
   Heartbeat_Interval    |-> Top(5, "u16"),
   Extensions_Supported  |-> Top(6, "v_extid"),
   MAC_Address           |-> Top(7, "dlepmac"),
   IPv4_Address          |-> Top(8, "u8_ipv4"),
   IPv6_Address          |-> Top(9, "u8_ipv6"),
   IPv4_Attached_Subnet  |-> Top(10, "u8_ipv4_u8"),
   IPv6_Attached_Subnet  |-> Top(11, "u8_ipv6_u8"),
   Resources             |-> [Top(12, "u8") EXCEPT !.units = "percentage"],
   Latency               |-> Top(13, "u64"),
   MTU                   |-> Top(14, "u32"),
   Version               |-> Top(15, "a2_u16"),
   Credit_Request        |-> Top(16, "blank"),
   Test_v_u8             |-> Top(17, "v_u8"),
   Test_v_u32            |-> Top(18, "v_u32"),
   Hop_Count             |-> Top(19, "u8_u8"),
   Latency_Range         |-> Top(20, "u64_u64"),
   Extension_Metric      |-> Top(21, "u16_vu8"),
   Part                  |-> Top(NoId, "u8"),
   Label                 |-> Top(NoId, "string"),
   Group                 |-> [Top(22, "sub_data_items") EXCEPT !.subs =
                                <<Ref("Part", 1, "1"), Ref("Label", 2, "0+")>>],
   Classes               |-> [Top(23, "u16_sub_data_items") EXCEPT !.subs =
                                <<Ref("Part", 2, "1+"), Ref("MTU", 14, "0-1")>>]]

MCSignals ==
  [Peer_Discovery     |-> [id |-> 1, message |-> FALSE, senders |-> {"router"},
                           data_items |-> <<Ref("Peer_Type", 4, "0-1")>>],
   Session_Update     |-> [id |-> 1, message |-> TRUE, senders |-> {"modem", "router"},
                           data_items |-> <<Ref("MAC_Address", 7, "1"),
                                            Ref("Credit_Request", 16, "0+"),
                                            Ref("Resources", 12, "0-1"),
                                            Ref("Classes", 23, "0-1")>>],
   Session_Initialization |-> [id |-> 2, message |-> TRUE, senders |-> {"router"},
                           data_items |-> <<Ref("Heartbeat_Interval", 5, "1")>>]]

New(name, fields)          == NewItem(name, MCItems[name].type, fields, None)
Sub(name, parent, fields)  == NewItem(name, MCItems[name].type, fields, parent)
A4 == <<1, 2, 0, 7>>
A6 == [i \in 1..16 |-> i % 8]

\* Plain characters are 3; a space is 1 and a closing brace 2.
MCOffered ==
  {New("Status", <<0, <<3>>>>),          New("Status", <<1, <<3, 1, 3>>>>),
   New("IPv4_Connection_Point", <<1, A4, 0>>),
   New("IPv4_Connection_Point", <<0, A4, 9>>),
   New("IPv6_Connection_Point", <<1, A6, 63>>),
   New("Peer_Type", <<<<>>>>),           New("Peer_Type", <<<<3, 2>>>>),
   New("Extensions_Supported", <<<<1, 9>>>>),
   New("MAC_Address", <<<<0, 7>>>>),     NewDefaultItem("MAC_Address", None),
   New("IPv4_Address", <<2, A4>>),       New("IPv6_Address", <<1, A6>>),
   New("IPv4_Attached_Subnet", <<1, A4, 4>>),
   New("IPv6_Attached_Subnet", <<0, A6, 5>>),
   New("Resources", <<7>>),              NewDefaultItem("Latency", None),
   New("MTU", <<4095>>),                 New("Version", <<1, 0>>),
   NewDefaultItem("Credit_Request", None),
   New("Test_v_u8", <<<<7, 0, 1>>>>),    New("Test_v_u32", <<<<8, 4095>>>>),
   New("Hop_Count", <<3, 0>>),           New("Latency_Range", <<0, 16777215>>),
   New("Extension_Metric", <<63, <<1, 2>>>>),
   New("Extension_Metric", <<0, <<1, 2, 3, 4, 5, 6, 7, 0>>>>),
   New("Group", <<<<Sub("Part", "Group", <<3>>), Sub("Label", "Group", <<<<3>>>>)>>>>),
   New("Group", <<<<Sub("Part", "Group", <<3>>), Sub("Label", "Group", <<<<>>>>)>>>>),
   New("Classes", <<5, <<Sub("Part", "Classes", <<1>>), Sub("MTU", "Classes", <<2>>)>>>>),
   [New("Resources", <<7>>) EXCEPT !.type = "u16"]}
  \cup {Heartbeat(s) : s \in Intervals}

MCDefaults == {<<New("Resources", <<7>>), New("Latency", <<9>>), New("Credit_Request", <<>>)>>}

\* Messages of 4 and 8 bytes, and one of 10 that a buffer of 9 cannot hold.
MCStreamed ==
  {[name |-> "Session_Initialization", items |-> <<>>],
   [name |-> "Session_Update", items |-> <<New("Credit_Request", <<>>)>>],
   [name |-> "Session_Update", items |-> <<New("MAC_Address", <<<<0, 7>>>>)>>]}

MCPrefix == <<4, 5>>

MCBodyLength(header) == Value(Drop(header, SignalIdSize))
=============================================================================
