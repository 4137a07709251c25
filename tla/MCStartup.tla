----------------------------- MODULE MCStartup ------------------------------
(* Instances of Startup for TLC.                                            *)
EXTENDS Startup

CONSTANTS n1, n2

Element(name, id, message, items, response) ==
  [name |-> name, id |-> id, message |-> message, sender |-> IF id = None THEN None ELSE "both",
   items |-> items, response |-> response]

\* A message, a second one that answers it, a signal, an extension that adds a
\* data item, and definitions with a missing element or a clashing id.
MCSignals ==
  {Element(n1, 1, "yes", {}, None), Element(n2, 2, "yes", {n1}, n1),
   Element(n1, 1, "no", {}, None),  Element(n1, None, None, {n2}, None),
   Element(n2, 1, "yes", {}, None)}

\* Data items with an id, with none, and with a sub data item.
MCItems ==
  {[name |-> n1, id |-> 1, subs |-> {}],
   [name |-> n1, id |-> 2, subs |-> {[name |-> n2, id |-> None]}],
   [name |-> n2, id |-> None, subs |-> {[name |-> n1, id |-> None]}],
   [name |-> n2, id |-> 1, subs |-> {[name |-> n2, id |-> 2]}]}

MCStatus == {[name |-> n1, id |-> 1], [name |-> n2, id |-> 1]}
=============================================================================
