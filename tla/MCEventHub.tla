----------------------------- MODULE MCEventHub -----------------------------
(* Instances of EventHub for TLC. *)
EXTENDS EventHub

CONSTANT
    SharedEvents    \* bound: events published once a second socket has come

(* A queue is overrun by more events than two sockets can be followed with *)
(* to the end: the rest is for one socket that has the hub to itself.      *)
(* Neither publications nor connections are under fairness.                *)
FewEvents ==
    published <= SharedEvents \/ Cardinality({s \in Sockets : conn[s] # "away"}) <= 1

MCNext == Next /\ FewEvents'

MCSpec == Init /\ [][MCNext]_vars /\ Fairness

=============================================================================
