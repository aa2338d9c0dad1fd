------------------------------ MODULE TimerSet ------------------------------
(***************************************************************************)
(* What timer_queue promises its callers: a set of pending timers, from    *)
(* which all those that are due are taken, earliest first.                 *)
(***************************************************************************)
EXTENDS Integers, Sequences, Functions

CONSTANTS Nodes, Points

VARIABLES
    pending,    \* timers waiting
    point,      \* when each of them falls due
    now,        \* the time of the last get_ready_timers
    ready       \* the result of the last get_ready_timers

vars == <<pending, point, now, ready>>

Init == pending = {} /\ point = [n \in Nodes |-> 0] /\ now = 0 /\ ready = <<>>

Add(n, p) ==
    /\ n \notin pending
    /\ pending' = pending \cup {n}
    /\ point' = [point EXCEPT ![n] = IF p < 0 THEN 0 ELSE p]
    /\ ready' = <<>>
    /\ UNCHANGED now

Cancel(n) ==
    /\ n \in pending
    /\ pending' = pending \ {n}
    /\ ready' = <<>>
    /\ UNCHANGED <<point, now>>

\* Ties are taken in any order.
Expire(t) ==
    /\ now' = t
    /\ pending' = {n \in pending : point[n] > t}
    /\ Range(ready') = pending \ pending'
    /\ \A i, j \in DOMAIN ready' :
           i < j => ready'[i] # ready'[j] /\ point[ready'[i]] <= point[ready'[j]]
    /\ UNCHANGED point

Next ==
    \/ \E n \in Nodes : Cancel(n) \/ \E p \in Points : Add(n, p)
    \/ \E t \in Points : Expire(t)

Spec == Init /\ [][Next]_vars
=============================================================================
