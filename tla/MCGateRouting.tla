-------------------------- MODULE MCGateRouting ---------------------------
EXTENDS GateRouting

\* A login service on the other machine, one on this machine.
HomeOf == [s1 |-> "b", s2 |-> "a"]
Names == {"s1", "s2"}
Fixed == {"s1"}

Limit(start, s, l, w, c, o) ==
    [start |-> start, sends |-> s, links |-> l, wires |-> w, changes |-> c, outages |-> o]
\* Messages over wires that are lost; an address of the other gate that fails and
\* recovers around a lost wire; links that are lost while a service comes and
\* goes; a local service that changes while the sender subscribes.
Runs == {Limit({"s1"}, 3, 0, 1, 0, 0), Limit({"s1"}, 2, 0, 2, 0, 0), Limit({"s1"}, 2, 0, 1, 0, 2),
         Limit({"s1"}, 1, 1, 0, 1, 0), Limit({"s2"}, 0, 2, 0, 2, 0), Limit({"s2"}, 1, 1, 0, 2, 0)}
=============================================================================
