----------------------------- MODULE MpscQueue ------------------------------
(***************************************************************************)
(* The linked multi-producer queue of queue.cpp, with the mutex that       *)
(* mpmc_queue puts in front of pop.  One step is one access to a shared    *)
(* variable: a push is a counter update, an exchange of head_ and a store  *)
(* of the predecessor's next, so a popper can meet a list whose middle is  *)
(* not linked yet.  The atomics are acquire/release on every edge that     *)
(* hands a node over, so their interleavings are those of a sequentially   *)
(* consistent memory.                                                      *)
(*                                                                         *)
(* A thread that popped a node may push it again, as pool<T> does.         *)
(***************************************************************************)
EXTENDS Naturals, Lists, FiniteSets

CONSTANTS
    Threads,    \* threads that push and pop
    Nodes,      \* the client's nodes
    Stub,       \* stub_
    Null,       \* nullptr
    Queued      \* owner of a node that no thread holds

ASSUME MpscAssumption ==
    /\ Stub \notin Nodes /\ Null \notin Nodes \cup {Stub}
    /\ Queued \notin Threads /\ Null \notin Threads /\ IsFiniteSet(Threads)

VARIABLES
    head,       \* head_, the newest node
    tail,       \* tail_, the oldest one or the stub
    next,       \* node::next
    size,       \* size_
    mtx,        \* the thread inside mpmc_queue::mtx_, or Null
    pc,         \* what each thread does next
    node,       \* the node a thread pushes, or `tail' of pop_and_check_end_base
    prev,       \* `prev' of push_base
    owner,      \* the thread that holds a node
    order       \* history: nodes exchanged into head_ and not taken yet

threadVars == <<pc, node, prev, mtx>>
listVars == <<head, tail, next>>
vars == <<listVars, size, threadVars, owner, order>>

Init ==
    /\ head = Stub /\ tail = Stub
    /\ next = [n \in Nodes \cup {Stub} |-> Null]
    /\ size = 0 /\ mtx = Null
    /\ pc = [t \in Threads |-> "idle"]
    /\ node = [t \in Threads |-> Null] /\ prev = [t \in Threads |-> Null]
    /\ owner \in [Nodes -> Threads]
    /\ order = <<>>

Goto(t, label) == pc' = [pc EXCEPT ![t] = label]

-----------------------------------------------------------------------------
(* push                                                                    *)

\* Mutant: push_base without the counter.
PushUncounted(t, n) ==
    /\ pc[t] = "idle" /\ owner[n] = t
    /\ next' = [next EXCEPT ![n] = Null]
    /\ node' = [node EXCEPT ![t] = n]
    /\ Goto(t, "exchange")
    /\ UNCHANGED <<size, head, tail, prev, mtx, owner, order>>

\* size_.fetch_add; the store to n->next is to a node nobody else sees.
PushCount(t, n) ==
    /\ pc[t] = "idle" /\ owner[n] = t
    /\ size' = size + 1
    /\ next' = [next EXCEPT ![n] = Null]
    /\ node' = [node EXCEPT ![t] = n]
    /\ Goto(t, "exchange")
    /\ UNCHANGED <<head, tail, prev, mtx, owner, order>>

\* Mutant: a load and a store in place of the exchange; the load may come
\* before the store of another push.
PushExchangeRaces(t) ==
    /\ pc[t] = "exchange"
    /\ \E p \in {head} \cup {prev[u] : u \in {v \in Threads : pc[v] = "link"}} :
            prev' = [prev EXCEPT ![t] = p]
    /\ head' = node[t]
    /\ owner' = [owner EXCEPT ![node[t]] = Queued]
    /\ order' = Append(order, node[t])
    /\ Goto(t, "link")
    /\ UNCHANGED <<tail, next, size, node, mtx>>

\* head_.exchange
PushExchange(t) ==
    /\ pc[t] = "exchange"
    /\ prev' = [prev EXCEPT ![t] = head]
    /\ head' = node[t]
    /\ owner' = [owner EXCEPT ![node[t]] = Queued]
    /\ order' = Append(order, node[t])
    /\ Goto(t, "link")
    /\ UNCHANGED <<tail, next, size, node, mtx>>

\* Mutant: the first push into an empty queue is not linked to the stub.
PushLinkNotToStub(t) ==
    /\ pc[t] = "link"
    /\ next' = IF prev[t] = Stub THEN next ELSE [next EXCEPT ![prev[t]] = node[t]]
    /\ Goto(t, "idle")
    /\ UNCHANGED <<head, tail, size, node, prev, mtx, owner, order>>

\* prev->next.store
PushLink(t) ==
    /\ pc[t] = "link"
    /\ next' = [next EXCEPT ![prev[t]] = node[t]]
    /\ Goto(t, "idle")
    /\ UNCHANGED <<head, tail, size, node, prev, mtx, owner, order>>

-----------------------------------------------------------------------------
(* pop: mpmc_queue::pop and a try_pop that gets the mutex                  *)

PopLock(t) ==
    /\ pc[t] = "idle" /\ mtx = Null
    /\ mtx' = t
    /\ Goto(t, "load")
    /\ UNCHANGED <<listVars, size, node, prev, owner, order>>

\* The popper leaves with node n; its next is the new tail_.
Take(t, n) ==
    /\ tail' = next[n]
    /\ owner' = [owner EXCEPT ![n] = t]
    /\ order' = Unlink(order, n)
    /\ Goto(t, "count")

\* tail_->next.load, and for a stub in front the load of its successor is next.
PopLoad(t) ==
    /\ pc[t] = "load"
    /\ \/ /\ tail = Stub /\ next[Stub] = Null
          /\ mtx' = Null
          /\ Goto(t, "idle")
          /\ UNCHANGED <<tail, node, owner, order>>
       \/ /\ tail = Stub /\ next[Stub] # Null
          /\ tail' = next[Stub]
          /\ node' = [node EXCEPT ![t] = next[Stub]]
          /\ Goto(t, "second")
          /\ UNCHANGED <<mtx, owner, order>>
       \/ /\ tail # Stub /\ next[tail] # Null
          /\ Take(t, tail)
          /\ UNCHANGED <<node, mtx>>
       \/ /\ tail # Stub /\ next[tail] = Null
          /\ node' = [node EXCEPT ![t] = tail]
          /\ Goto(t, "compare")
          /\ UNCHANGED <<tail, mtx, owner, order>>
    /\ UNCHANGED <<head, next, size, prev>>

\* tail->next.load after the stub was skipped.
PopSecond(t) ==
    /\ pc[t] = "second"
    /\ \/ /\ next[node[t]] # Null
          /\ Take(t, node[t])
       \/ /\ next[node[t]] = Null
          /\ Goto(t, "compare")
          /\ UNCHANGED <<tail, owner, order>>
    /\ UNCHANGED <<head, next, size, node, prev, mtx>>

\* Mutant: retries when the node is the last.
PopCompareRetries(t) ==
    /\ pc[t] = "compare"
    /\ Goto(t, "load")
    /\ UNCHANGED <<listVars, size, node, prev, mtx, owner, order>>

\* head_.load: another node behind means that its link is on the way.
PopCompare(t) ==
    /\ pc[t] = "compare"
    /\ Goto(t, IF node[t] = head THEN "stub" ELSE "load")
    /\ UNCHANGED <<listVars, size, node, prev, mtx, owner, order>>

\* push_base(&stub_), up to the exchange.
StubExchange(t) ==
    /\ pc[t] = "stub"
    /\ next' = [next EXCEPT ![Stub] = Null]
    /\ prev' = [prev EXCEPT ![t] = head]
    /\ head' = Stub
    /\ Goto(t, "stubLink")
    /\ UNCHANGED <<tail, size, node, mtx, owner, order>>

StubLink(t) ==
    /\ pc[t] = "stubLink"
    /\ next' = [next EXCEPT ![prev[t]] = Stub]
    /\ Goto(t, "third")
    /\ UNCHANGED <<head, tail, size, node, prev, mtx, owner, order>>

\* The last load: a push may have come between the compare and the stub.
PopThird(t) ==
    /\ pc[t] = "third"
    /\ \/ /\ next[node[t]] # Null
          /\ Take(t, node[t])
       \/ /\ next[node[t]] = Null
          /\ Goto(t, "load")
          /\ UNCHANGED <<tail, owner, order>>
    /\ UNCHANGED <<head, next, size, node, prev, mtx>>

\* size_.fetch_sub and return.
PopCount(t) ==
    /\ pc[t] = "count"
    /\ size' = size - 1
    /\ mtx' = Null
    /\ Goto(t, "idle")
    /\ UNCHANGED <<listVars, node, prev, owner, order>>

-----------------------------------------------------------------------------
PushStep(t) == PushExchange(t) \/ PushLink(t)

PopStep(t) ==
    \/ PopLoad(t) \/ PopSecond(t) \/ PopCompare(t)
    \/ StubExchange(t) \/ StubLink(t) \/ PopThird(t) \/ PopCount(t)

Step(t) ==
    \/ PopLock(t) \/ PopStep(t) \/ PushStep(t)
    \/ \E n \in Nodes : PushCount(t, n)

Next == \E t \in Threads : Step(t)

Spec == Init /\ [][Next]_vars

\* A thread that is inside push or pop goes on.
FairSpec ==
    Spec /\ \A t \in Threads :
        WF_vars(PushStep(t)) /\ WF_vars(PopStep(t))

-----------------------------------------------------------------------------
\* TYPE: head_, tail_ and the nodes' next pointers are nodes or the stub; tail_
\* is never null, since pop dereferences it.
TypeOK ==
    /\ head \in Nodes \cup {Stub} /\ tail \in Nodes \cup {Stub}
    /\ next \in [Nodes \cup {Stub} -> Nodes \cup {Stub, Null}]
    /\ size \in Nat /\ mtx \in Threads \cup {Null}
    /\ pc \in [Threads -> {"idle", "exchange", "link", "load", "second",
                           "compare", "stub", "stubLink", "third", "count"}]
    /\ node \in [Threads -> Nodes \cup {Null}]
    /\ prev \in [Threads -> Nodes \cup {Stub, Null}]
    /\ owner \in [Nodes -> Threads \cup {Queued}]
    /\ order \in Seq(Nodes)

\* The list and its counter agree.  size() counts the queued nodes and those on
\* their way in or out, never fewer, so that the relaxed counter cannot wrap
\* below zero.  When nothing is queued both ends are at the stub: the assertions
\* of ~mpsc_queue hold for a drained queue, and a push into an empty queue
\* returns true ("will not return false sporadically", queue.h:26-27).
SizeCounts ==
    /\ TypeOK
    /\ size = Len(order) + Cardinality({t \in Threads : pc[t] \in {"exchange", "count"}})
    /\ order = <<>> => head = Stub /\ tail = Stub

\* The queue behaves as a first-in first-out queue: a push takes effect at
\* the exchange of head_, and what pop returns is the oldest node left.
Fifo == INSTANCE MpscFifo WITH contents <- order
ImplementsFifo == Fifo!Spec

\* pop's retry loop ends: a popper that meets a node still being linked
\* waits for that one link only.
PopReturns == \A t \in Threads : mtx = t ~> mtx # t

\* A push that has not linked its node yet hides the nodes pushed behind it, and
\* pop returns NULL although their pushes have returned (so that queue.h:30, NULL
\* "only if the queue was empty at some point after calling this function", is not
\* exact).  None of them is stranded: if pop is called again and again, as the
\* loop of log_system's writer thread does, every node is popped in the end.
NothingStranded ==
    []<><<\E t \in Threads : PopLock(t)>>_vars =>
        \A n \in Nodes : owner[n] = Queued ~> owner[n] # Queued
=============================================================================
