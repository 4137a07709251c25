---------------------------- MODULE MCDestAdvert ----------------------------
(* Instances of DestAdvert for TLC.                                         *)
EXTENDS DestAdvert, TLC

CONSTANTS d1, d2, r1

\* Both routers are attached to one neighbour.
BothAtOne == (d1 :> r1) @@ (d2 :> r1)

\* The data items of a client that has nothing new to say.
OneMetric == {[capacity |-> 1]}

\* Calls that give the capacity, the latency or both.
SomeMetrics ==
  {[latency |-> 1]} \cup [capacity : 1..2] \cup [capacity : 1..2, latency : {1}]

=============================================================================
