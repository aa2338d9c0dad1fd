---------------------------- MODULE ParallelTask ----------------------------
(***************************************************************************)
(* Running awaitables in parallel (parallel_task.hpp) and the operators && *)
(* and || of tasks (task_operators.hpp).  A when_ready starts its children *)
(* one after the other under a cancellation source of its own, suspends,   *)
(* and is resumed by the child that finishes last; the first child that    *)
(* decides the outcome cancels the others.                                 *)
(*                                                                         *)
(* The awaitables form a tree.  All of it runs on the scheduler thread:    *)
(* `stack' is the thread's call stack, innermost first, since a child is   *)
(* started, and its parent resumed, by a plain call of resume().  A node   *)
(* may wait for anything that can be cancelled (CoroSync) before it        *)
(* finishes or, if it has children, awaits them.                           *)
(***************************************************************************)
EXTENDS Naturals, Sequences, FiniteSets, Functions

CONSTANTS
    Nodes,      \* awaitables
    Root,       \* the outermost one
    Kids,       \* the children each of them awaits, in order
    Outside,    \* the cancellation source the root was started with
    None

WaitTypes == {"all", "one", "one_fail", "one_succ"}

Inner == {n \in Nodes : Kids[n] # <<>>}
KidSet(n) == Range(Kids[n])
Sources == Inner \cup {Outside}

\* The source whose token a node runs under: its parent's.
TokenOf(n) == IF n = Root THEN Outside ELSE CHOOSE p \in Inner : n \in KidSet(p)

\* The sources above a node, from its own token up to the outside one: the least
\* set that has the token and the tokens of those in it.
Above ==
    [n \in Nodes |->
        {t \in Sources : \A S \in SUBSET Sources :
            TokenOf(n) \in S /\ (\A m \in S \cap Nodes : TokenOf(m) \in S) => t \in S}]

ASSUME ParallelTaskAssumption ==
    /\ IsFiniteSet(Nodes)
    /\ Root \in Nodes /\ Outside \notin Nodes /\ None \notin Nodes \cup {Outside}
    /\ Kids \in [Nodes -> Seq(Nodes \ {Root})]
    /\ \A n \in Nodes : IsInjective(Kids[n])
    /\ \A n \in Nodes \ {Root} : \E p \in Inner :
          \A q \in Inner : n \in KidSet(q) <=> q = p
    /\ \A n \in Nodes : n \notin Above[n]

VARIABLES
    type,       \* type_ of each counter
    state,      \* life cycle of each awaitable
    stack,      \* awaitables on the scheduler thread
    pos,        \* the child a when_ready starts next
    count,      \* count_
    failed,     \* exception_ is set
    index,      \* index_: the order in which the children finished
    requested,  \* sources whose cancellation was requested
    registered, \* awaitables registered with their token
    result,     \* the child whose result || returns
    missed      \* history: awaits children under a token cancelled meanwhile

treeVars == <<failed, index, count, result>>
cancelVars == <<requested, registered>>
vars == <<type, state, stack, pos, treeVars, cancelVars, missed>>

Requested(n) == TokenOf(n) \in requested

NoIndex == Cardinality(Nodes)

\* A || has two operands.
Init ==
    /\ type \in [Inner -> WaitTypes]
    /\ \A n \in Inner : type[n] = "one_succ" => Len(Kids[n]) = 2
    /\ state = [n \in Nodes |-> "new"]
    /\ stack = <<>>
    /\ pos = [n \in Inner |-> 1]
    /\ count = [n \in Inner |-> Len(Kids[n]) + 1]
    /\ failed = [n \in Nodes |-> FALSE]
    /\ index = [n \in Nodes |-> NoIndex]
    /\ requested = {} /\ registered = {}
    /\ result = [n \in Inner |-> None]
    /\ missed = {}

OnTop(n, s) == stack # <<>> /\ Head(stack) = n /\ state[n] = s

-----------------------------------------------------------------------------
(* Cancellation.  A callback either wakes its awaitable or requests        *)
(* cancellation of the children's source in turn.                          *)

\* Mutant: the callback of a when_ready does not pass the request on.
FiredDirectly(t) ==
    IF t \in requested THEN {}
    ELSE {n \in registered : TokenOf(n) = t}

\* The awaitables whose callbacks run when source t is requested: those whose
\* sources up to t are all unrequested and registered with the next.
Fired(t) ==
    IF t \in requested THEN {}
    ELSE {n \in registered : t \in Above[n] /\
             \A m \in Above[n] \cap Nodes : t \in Above[m] => m \in registered \ requested}

WokenBy(t) == {n \in Fired(t) : state[n] = "waiting"}

\* The source the root runs under is cancelled, by anyone on the thread.
CancelOutside ==
    /\ stack # <<>> => state[Head(stack)] = "running"
    /\ Outside \notin requested
    /\ requested' = requested \cup {Outside} \cup {n \in Fired(Outside) : state[n] = "joining"}
    /\ registered' = registered \ Fired(Outside)
    /\ state' = [n \in Nodes |-> IF n \in WokenBy(Outside) THEN "woken" ELSE state[n]]
    /\ UNCHANGED <<type, stack, pos, treeVars, missed>>

-----------------------------------------------------------------------------
(* An awaitable finishes.                                                  *)

\* The outcome of a child settles that of its parent.
Decides(n, bad) ==
    \/ type[n] = "one"
    \/ type[n] = "one_fail" /\ bad
    \/ type[n] = "one_succ" /\ ~bad

\* completion_notifier and parallel_counter::notify: child k of p ends.  The
\* last child resumes p on top of its own frame.
Notify(k, p, bad) ==
    LET fire == Decides(p, bad) /\ p \notin requested
        fired == IF fire THEN Fired(p) ELSE {}
        last == count[p] = 1
    IN  /\ failed' = [failed EXCEPT ![k] = bad]
        /\ index' = [index EXCEPT ![k] = Cardinality({n \in KidSet(p) : state[n] = "done"})]
        /\ count' = [count EXCEPT ![p] = @ - 1]
        /\ requested' = requested \cup (IF fire THEN {p} \cup {n \in fired : state[n] = "joining"} ELSE {})
        /\ registered' = registered \ (fired \cup {k})
        /\ state' = [n \in Nodes |->
                        CASE n = k -> "done"
                          [] n = p /\ last -> "resumed"
                          [] n \in fired /\ state[n] = "waiting" -> "woken"
                          [] OTHER -> state[n]]
        /\ stack' = IF last THEN <<p>> \o Tail(stack) ELSE Tail(stack)

Ends(n, bad) ==
    IF n = Root
    THEN /\ failed' = [failed EXCEPT ![n] = bad]
         /\ state' = [state EXCEPT ![n] = "done"]
         /\ stack' = Tail(stack)
         /\ registered' = registered \ {n}
         /\ UNCHANGED <<index, count, requested>>
    ELSE Notify(n, TokenOf(n), bad)

-----------------------------------------------------------------------------
(* An awaitable runs.                                                      *)

StartRoot ==
    /\ stack = <<>> /\ state[Root] = "new"
    /\ state' = [state EXCEPT ![Root] = "entering"]
    /\ stack' = <<Root>>
    /\ UNCHANGED <<type, pos, treeVars, cancelVars, missed>>

\* make_parallel_task and co_start: nothing starts under a cancelled token.
Enter(n) ==
    /\ OnTop(n, "entering")
    /\ IF Requested(n)
       THEN Ends(n, TRUE)
       ELSE /\ state' = [state EXCEPT ![n] = "running"]
            /\ UNCHANGED <<stack, failed, index, count, cancelVars>>
    /\ UNCHANGED <<type, pos, result, missed>>

\* It waits; the awaiters of CoroSync do not suspend under a cancelled token.
Suspend(n) ==
    /\ OnTop(n, "running") /\ ~Requested(n)
    /\ state' = [state EXCEPT ![n] = "waiting"]
    /\ registered' = registered \cup {n}
    /\ stack' = Tail(stack)
    /\ UNCHANGED <<type, pos, treeVars, requested, missed>>

\* What it waits for happens.
Event(n) ==
    /\ stack = <<>> /\ state[n] = "waiting"
    /\ state' = [state EXCEPT ![n] = "woken"]
    /\ UNCHANGED <<type, stack, pos, treeVars, cancelVars, missed>>

\* Mutant: a handle whose token was cancelled is left in the queue.
ResumeWokenUncancelled(n) ==
    /\ stack = <<>> /\ state[n] = "woken" /\ ~Requested(n)
    /\ state' = [state EXCEPT ![n] = "running"]
    /\ stack' = <<n>>
    /\ registered' = registered \ {n}
    /\ UNCHANGED <<type, pos, treeVars, requested, missed>>

ResumeWoken(n) ==
    /\ stack = <<>> /\ state[n] = "woken"
    /\ state' = [state EXCEPT ![n] = "running"]
    /\ stack' = <<n>>
    /\ registered' = registered \ {n}
    /\ UNCHANGED <<type, pos, treeVars, requested, missed>>

\* It returns or throws.
Return(n, bad) ==
    /\ OnTop(n, "running")
    /\ Ends(n, bad)
    /\ UNCHANGED <<type, pos, result, missed>>

-----------------------------------------------------------------------------
(* co_await of a when_ready.                                               *)

\* await_suspend throws at once under a cancelled token.
Begin(n) ==
    /\ OnTop(n, "running")
    /\ IF Requested(n)
       THEN Ends(n, TRUE)
       ELSE /\ state' = [state EXCEPT ![n] = "starting"]
            /\ UNCHANGED <<stack, failed, index, count, cancelVars>>
    /\ UNCHANGED <<type, pos, result, missed>>

StartKid(n) ==
    /\ OnTop(n, "starting") /\ pos[n] <= Len(Kids[n])
    /\ pos' = [pos EXCEPT ![n] = @ + 1]
    /\ state' = [state EXCEPT ![Kids[n][pos[n]]] = "entering"]
    /\ stack' = <<Kids[n][pos[n]]>> \o stack
    /\ UNCHANGED <<type, treeVars, cancelVars, missed>>

\* Mutant: suspends although the children have finished already.
TryAwaitAlways(n) ==
    /\ OnTop(n, "starting") /\ pos[n] > Len(Kids[n])
    /\ count' = [count EXCEPT ![n] = @ - 1]
    /\ state' = [state EXCEPT ![n] = "joining"]
    /\ stack' = Tail(stack)
    /\ registered' = IF Requested(n) THEN registered ELSE registered \cup {n}
    /\ missed' = IF Requested(n) THEN missed \cup {n} ELSE missed
    /\ UNCHANGED <<type, pos, failed, index, result, requested>>

\* The parent gives up its own share of the count and suspends unless all
\* children have finished; only then it registers with its token.
TryAwait(n) ==
    /\ OnTop(n, "starting") /\ pos[n] > Len(Kids[n])
    /\ count' = [count EXCEPT ![n] = @ - 1]
    /\ \/ /\ count[n] > 1
          /\ state' = [state EXCEPT ![n] = "joining"]
          /\ stack' = Tail(stack)
          /\ registered' = IF Requested(n) THEN registered ELSE registered \cup {n}
          /\ missed' = IF Requested(n) THEN missed \cup {n} ELSE missed
       \/ /\ count[n] = 1
          /\ state' = [state EXCEPT ![n] = "resumed"]
          /\ UNCHANGED <<stack, registered, missed>>
    /\ UNCHANGED <<type, pos, failed, index, result, requested>>

\* Mutant: || prefers its left operand.
ChosenLeft(n) ==
    LET l == Kids[n][1]  r == Kids[n][2]
    IN  IF ~failed[l] THEN l ELSE IF ~failed[r] THEN r ELSE None

\* The result of l || r, or None when it throws.
Chosen(n) ==
    LET l == Kids[n][1]
        r == Kids[n][2]
        first == IF index[l] = 0 THEN l ELSE r
        second == IF index[l] = 0 THEN r ELSE l
    IN  IF ~failed[first] THEN first ELSE IF ~failed[second] THEN second ELSE None

\* await_resume, and what && or || make of the children.  A plain when_ready
\* (all, one) hands all of them to its caller.
Join(n) ==
    /\ OnTop(n, "resumed")
    /\ LET chosen == IF type[n] = "one_succ" /\ ~Requested(n) THEN Chosen(n) ELSE None
           bad == \/ Requested(n)
                  \/ type[n] = "one_fail" /\ \E k \in KidSet(n) : failed[k]
                  \/ type[n] = "one_succ" /\ chosen = None
       IN  /\ result' = [result EXCEPT ![n] = chosen]
           /\ Ends(n, bad)
    /\ UNCHANGED <<type, pos, missed>>

-----------------------------------------------------------------------------
\* The thread goes on with what it has.
Run ==
    \/ \E n \in Nodes : Enter(n) \/ ResumeWoken(n) \/ Return(n, TRUE) \/ Return(n, FALSE)
    \/ \E n \in Inner : Begin(n) \/ StartKid(n) \/ TryAwait(n) \/ Join(n)

Next == StartRoot \/ CancelOutside \/ Run \/ \E n \in Nodes : Suspend(n) \/ Event(n)

Spec == Init /\ [][Next]_vars

\* The thread keeps running and resumes what was woken in turn, as the queue of
\* the scheduler makes it; nothing an awaitable waits for need ever happen.
FairSpec == Spec /\ WF_vars(Run) /\ \A n \in Nodes : SF_vars(ResumeWoken(n))

-----------------------------------------------------------------------------
\* TYPE: the states, and an awaitable that waits has a live token.
TypeOK ==
    /\ type \in [Inner -> WaitTypes]
    /\ state \in [Nodes -> {"new", "entering", "running", "waiting", "woken",
                            "starting", "joining", "resumed", "done"}]
    /\ stack \in Seq(Nodes) /\ IsInjective(stack)
    /\ pos \in [Inner -> Nat] /\ count \in [Inner -> Nat]
    /\ failed \in [Nodes -> BOOLEAN] /\ index \in [Nodes -> 0..NoIndex]
    /\ requested \subseteq Inner \cup {Outside} /\ registered \subseteq Nodes
    /\ result \in [Inner -> Nodes \cup {None}] /\ missed \subseteq Inner

\* An awaitable that awaits children is not left by them: it is resumed by
\* the last one, so there is always one to come, and once it goes on (and its
\* frame destroys theirs) none of them is suspended in some list, woken or
\* on the stack.
JoinsAll ==
    /\ TypeOK
    /\ \A n \in Inner :
          /\ state[n] = "joining" => \E k \in KidSet(n) : state[k] # "done"
          /\ state[n] \in {"resumed", "done"} =>
                \A k \in KidSet(n) : state[k] \in {"new", "done"}

\* A cancellation reaches every awaitable below it, however deep, except
\* below a when_ready whose token was cancelled while it was starting its
\* children: try_await comes first and the registration after it finds that
\* the token can no longer be cancelled.
CancelReachesTree ==
    \A n \in Nodes : Requested(n) =>
        /\ state[n] # "waiting"
        /\ state[n] = "joining" => n \in requested \cup missed

\* l || r returns the child that succeeded first, and by the time it returns
\* the other one has been told to stop; it throws only if both threw or it
\* was cancelled itself.
FirstSuccessWins ==
    \A n \in Inner : type[n] = "one_succ" /\ state[n] = "done" =>
        IF failed[n]
        THEN Requested(n) \/ \A k \in KidSet(n) : failed[k] \/ state[k] = "new"
        ELSE result[n] # None =>
                /\ n \in requested
                /\ \A k \in KidSet(n) : ~failed[k] => index[result[n]] <= index[k]

\* Once the outcome is decided the parent goes on, even if nothing that its
\* children wait for ever happens.
DecidedEnds ==
    \A n \in Inner : n \in requested ~> (state[n] = "done" \/ missed # {})
=============================================================================
