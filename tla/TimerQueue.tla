----------------------------- MODULE TimerQueue -----------------------------
(***************************************************************************)
(* timer_queue (time_queue.cpp): a binary heap of timers in which every    *)
(* node knows its own position, so that a cancelled timer can be taken out *)
(* of the middle.  Positions count from 0 as in the code; heap[i + 1] is   *)
(* heap_[i].                                                               *)
(*                                                                         *)
(* The callers are timed_awaiter, which enqueues a fresh node and removes  *)
(* it when its wait is cancelled, and scheduler::run, which takes the      *)
(* timers that are due.                                                    *)
(***************************************************************************)
EXTENDS Integers, Sequences, FiniteSets, Functions

CONSTANTS
    Nodes,      \* timer nodes
    Points      \* times, some before the epoch

ASSUME TimerQueueAssumption ==
    IsFiniteSet(Nodes) /\ Points \subseteq Int

VARIABLES
    heap,       \* heap_
    index,      \* node::index
    point,      \* node::point
    now,        \* the time scheduler::run read last
    ready       \* the result of the last get_ready_timers

vars == <<heap, index, point, now, ready>>

\* numeric_limits<size_t>::max(): larger than every position.
NoIndex == Cardinality(Nodes)

\* No timer is pending: duration::max(), above every difference of points.
MaxDuration == 1 + CHOOSE d \in {p - q : p, q \in Points \cup {0}} :
                       \A p, q \in Points \cup {0} : p - q <= d

Init ==
    /\ heap = <<>>
    /\ index = [n \in Nodes |-> NoIndex]
    /\ point = [n \in Nodes |-> 0]
    /\ now = 0
    /\ ready = <<>>

-----------------------------------------------------------------------------
(* The heap algorithm, on records q of heap, index and point.              *)

Queue == [heap |-> heap, index |-> index, point |-> point]

PointAt(q, i) == q.point[q.heap[i + 1]]

SwapHeap(q, i, j) ==
    LET h == [q.heap EXCEPT ![i + 1] = q.heap[j + 1], ![j + 1] = q.heap[i + 1]]
    IN  [q EXCEPT !.heap = h, !.index[h[i + 1]] = i, !.index[h[j + 1]] = j]

RECURSIVE UpHeap(_, _)
UpHeap(q, i) ==
    LET parent == (i - 1) \div 2
    IN  IF i = 0 \/ PointAt(q, i) >= PointAt(q, parent)
        THEN q
        ELSE UpHeap(SwapHeap(q, i, parent), parent)

MinChild(q, child) ==
    IF child + 1 = Len(q.heap) \/ PointAt(q, child) < PointAt(q, child + 1)
    THEN child
    ELSE child + 1

RECURSIVE DownHeap(_, _)
DownHeap(q, i) ==
    LET child == i * 2 + 1
        least == MinChild(q, child)
    IN  IF child >= Len(q.heap) \/ PointAt(q, i) < PointAt(q, least)
        THEN q
        ELSE DownHeap(SwapHeap(q, i, least), least)

\* Node n, at position i, is swapped with the last one and dropped.
DropLast(q, n, i) ==
    LET s == SwapHeap(q, i, Len(q.heap) - 1)
    IN  [s EXCEPT !.heap = SubSeq(@, 1, Len(@) - 1), !.index[n] = NoIndex]

\* MUTANT: the node put in the gap only ever sinks.
RemoveOnlySinks(q, n) ==
    LET i == q.index[n]
        r == DropLast(q, n, i)
    IN  IF i >= Len(q.heap) THEN q
        ELSE IF i = Len(q.heap) - 1 THEN r
        ELSE DownHeap(r, i)

\* The node put in the gap comes from another branch, so it may have to rise.
Removed(q, n) ==
    LET i == q.index[n]
        r == DropLast(q, n, i)
        parent == (i - 1) \div 2
    IN  IF i >= Len(q.heap) THEN q
        ELSE IF i = Len(q.heap) - 1 THEN r
        ELSE IF i > 0 /\ PointAt(r, i) < PointAt(r, parent) THEN UpHeap(r, i)
        ELSE DownHeap(r, i)

RECURSIVE TakeReady(_, _, _)
TakeReady(q, t, taken) ==
    IF q.heap = <<>> \/ t < PointAt(q, 0)
    THEN <<q, taken>>
    ELSE TakeReady(Removed(q, q.heap[1]), t, Append(taken, q.heap[1]))

WaitDuration ==
    IF heap = <<>> THEN MaxDuration ELSE point[heap[1]] - now

-----------------------------------------------------------------------------
Becomes(q) == heap' = q.heap /\ index' = q.index /\ point' = q.point

\* timed_awaiter sets the point and enqueues itself; a node that is queued
\* already is left alone.
Enqueue(n, p) ==
    /\ index[n] >= Len(heap)
    /\ Becomes(UpHeap([Queue EXCEPT !.heap = Append(@, n),
                                    !.index[n] = Len(heap),
                                    !.point[n] = IF p < 0 THEN 0 ELSE p],
                      Len(heap)))
    /\ ready' = <<>>
    /\ UNCHANGED now

\* The cancellation callback of timed_awaiter; false when n is not queued.
Remove(n) ==
    /\ index[n] < Len(heap)
    /\ Becomes(Removed(Queue, n))
    /\ ready' = <<>>
    /\ UNCHANGED now

\* MUTANT: a timer due at this very moment is left in the heap.
GetReadyTimersLate(t) ==
    LET r == TakeReady(Queue, t - 1, <<>>)
    IN  Becomes(r[1]) /\ ready' = r[2] /\ now' = t

GetReadyTimers(t) ==
    LET r == TakeReady(Queue, t, <<>>)
    IN  Becomes(r[1]) /\ ready' = r[2] /\ now' = t

Next ==
    \/ \E n \in Nodes : Remove(n) \/ \E p \in Points : Enqueue(n, p)
    \/ \E t \in Points : GetReadyTimers(t)

Spec == Init /\ [][Next]_vars

-----------------------------------------------------------------------------
\* TYPE: the queue holds timer nodes with times from the epoch on.
TypeOK ==
    /\ heap \in Seq(Nodes) /\ Len(heap) <= NoIndex
    /\ index \in [Nodes -> 0..NoIndex]
    /\ point \in [Nodes -> {p \in Points \cup {0} : p >= 0}]
    /\ now \in Points \cup {0}
    /\ ready \in Seq(Nodes)

\* Every queued node knows its position and no other node claims one, which is
\* what remove() relies on to take out the timer it was given and not another
\* one, after any history of swaps; and the time scheduler::run sleeps never runs
\* past a pending timer, since the front of the heap is the earliest, also after
\* removals from the middle.
NoOversleep ==
    /\ TypeOK
    /\ \A n \in Nodes :
          IF n \in Range(heap)
          THEN index[n] < Len(heap) /\ heap[index[n] + 1] = n
          ELSE index[n] = NoIndex
    /\ \A n \in Range(heap) : WaitDuration <= point[n] - now

\* The heap implements a set of timers: get_ready_timers returns exactly the
\* timers that are due, once each and in order of time, and remove() takes out
\* the one it was given.
Timers == INSTANCE TimerSet WITH pending <- Range(heap)
ImplementsTimerSet == Timers!Spec
=============================================================================
