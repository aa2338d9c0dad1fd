-------------------------- MODULE MCGateDiscovery --------------------------
(* GateDiscovery for TLC: two gates and one service, which the machines of  *)
(* both gates may run.                                                      *)
EXTENDS GateDiscovery

CONSTANTS g1, g2, s1

MCGates == {g1, g2}
MCServices == {s1}

\* Gate g1 may connect twice, g2 once.
OneReconnects == [g \in MCGates |-> IF g = g1 THEN 2 ELSE 1]

\* The process at g1 may link itself twice, the one at g2 once.
OneRelinks == [p \in MCGates \X MCServices |-> IF p[1] = g1 THEN 2 ELSE 1]
=============================================================================
