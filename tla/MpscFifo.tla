------------------------------ MODULE MpscFifo ------------------------------
(***************************************************************************)
(* What the linked queue of queue.h promises its clients: nodes come out   *)
(* in the order in which they went in, each to exactly one thread.         *)
(***************************************************************************)
EXTENDS Sequences

CONSTANTS Threads, Nodes, Queued

VARIABLES
    owner,      \* the thread that holds a node, or Queued
    contents    \* the queued nodes, oldest first

vars == <<owner, contents>>

Init == owner \in [Nodes -> Threads] /\ contents = <<>>

Push(t, n) ==
    /\ owner[n] = t
    /\ owner' = [owner EXCEPT ![n] = Queued]
    /\ contents' = Append(contents, n)

Pop(t) ==
    /\ contents # <<>>
    /\ owner' = [owner EXCEPT ![Head(contents)] = t]
    /\ contents' = Tail(contents)

Next == \E t \in Threads : Pop(t) \/ \E n \in Nodes : Push(t, n)

Spec == Init /\ [][Next]_vars
=============================================================================
