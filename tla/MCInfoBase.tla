----------------------------- MODULE MCInfoBase -----------------------------
(* Instances of InfoBase for TLC.                                           *)
EXTENDS InfoBase, TLC

CONSTANTS a1, a2, k1

Items1(ms, adds, drops) ==
  [metrics |-> [k \in Metrics |-> IF k \in ms THEN 1 ELSE Absent],
   adds |-> adds, drops |-> drops]

\* A metric, an address gained, and one address exchanged for another.
MCUpdates ==
  {Items1({k1}, {}, {}), Items1({}, {a1}, {}), Items1({k1}, {a2}, {a1})}

ModemSymmetry == Permutations(Modems)
=============================================================================
