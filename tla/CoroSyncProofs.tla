---------------------------- MODULE CoroSyncProofs ----------------------------
(***************************************************************************)
(* The scheduler and its wait primitives keep the safety properties of     *)
(* CoroSync for every set of coroutines and tokens: the inductive          *)
(* invariant, one lemma for each step of Next, and the theorems.  Then, of *)
(* an instance of AsyncSession, that a coroutine that waits for a result   *)
(* has one handle, for any number of workers and sessions.                 *)
(***************************************************************************)
EXTENDS CoroSync, SeqFacts

-----------------------------------------------------------------------------
(* The inductive invariant.  Places says in which list a coroutine is for  *)
(* each state of its life; Links ties the cancellation registrations to    *)
(* the lists; Ownership ties the mutex to its owner.                       *)

Unique ==
    /\ IsInjective(stack) /\ IsInjective(queue) /\ IsInjective(functions)
    /\ IsInjective(nodes) /\ IsInjective(wake)
    /\ IsInjective(waiters) /\ IsInjective(cvWaiters)
    /\ \A t \in Tokens : IsInjective(regs[t])

Places ==
    /\ \A c \in Coros : state[c] = "running" <=> c \in Range(stack)
    /\ \A c \in Coros :
          state[c] = "posted" <=> c \in Range(queue) \cup Range(functions)
    /\ Range(queue) \cap Range(functions) = {}
    /\ phase # "functions" => functions = <<>>
    /\ \A c \in Coros : state[c] = "suspended" <=>
          c \in Range(waiters) \cup Range(cvWaiters) \cup sleeping
                \cup Range(nodes) \cup Range(wake)
    /\ \A c \in Coros : state[c] = "suspended" <=> awaiting[c] # "none"
    /\ \A c \in Range(waiters) : awaiting[c] = "mutex"
    /\ \A c \in Range(cvWaiters) : awaiting[c] = "cv"
    /\ \A c \in sleeping \cup Range(nodes) : awaiting[c] = "timer"
    /\ sleeping \cap Range(nodes) = {}
    /\ Range(wake) \cap (Range(waiters) \cup Range(cvWaiters) \cup sleeping
                            \cup Range(nodes)) = {}

Links ==
    /\ \A t \in Tokens : \A c \in Range(regs[t]) :
          /\ TokenOf[c] = t
          /\ state[c] = "suspended"
          /\ awaiting[c] = "mutex" => c \in Range(waiters)
    /\ \A t \in requested : t # cancelling => Range(regs[t]) = {}
    /\ \A c \in Range(waiters) \cup Range(cvWaiters) \cup sleeping :
          TokenOf[c] \in Tokens => c \in Range(regs[TokenOf[c]])
    /\ cancelling # None => cancelling \in requested

Ownership ==
    /\ handed \subseteq Range(wake)
    /\ \A c \in handed : awaiting[c] = "mutex"
    /\ \A c \in Range(wake) :
          awaiting[c] = "mutex" /\ c \notin handed => Cancelled(c)
    /\ \A c \in holds : awaiting[c] # "mutex"
    /\ orphaned => holds \cup handed = {}
    /\ MutualExclusion
    /\ LockHasOwner

IInv == TypeOK /\ Unique /\ Places /\ Links /\ Ownership

\* Every list holds coroutines only.
LEMMA Elements ==
    ASSUME TypeOK
    PROVE  /\ Range(stack) \subseteq Coros /\ Range(queue) \subseteq Coros
           /\ Range(functions) \subseteq Coros /\ Range(nodes) \subseteq Coros
           /\ Range(wake) \subseteq Coros /\ Range(waiters) \subseteq Coros
           /\ Range(cvWaiters) \subseteq Coros
           /\ \A t \in Tokens : Range(regs[t]) \subseteq Coros
BY Zenon, RangeDef DEF TypeOK

-----------------------------------------------------------------------------
(* What a registration does to the lists of the tokens.                    *)

\* The constructor of cancellation_registration links into one token's list.
LEMMA RegisteredFacts ==
    ASSUME TypeOK, NEW c \in Coros, \A t \in Tokens : IsInjective(regs[t]),
           \A t \in Tokens : c \notin Range(regs[t])
    PROVE  /\ Registered(c) \in [Tokens -> Seq(Coros)]
           /\ \A t \in Tokens :
                /\ IsInjective(Registered(c)[t])
                /\ Range(Registered(c)[t]) = IF t = TokenOf[c]
                       THEN Range(regs[t]) \cup {c} ELSE Range(regs[t])
<1>1. \A t \in Tokens : regs[t] \in Seq(Coros) BY Zenon DEF TypeOK
<1>2. \A t \in Tokens : /\ PushFront(c, regs[t]) \in Seq(Coros)
                        /\ Range(PushFront(c, regs[t])) = Range(regs[t]) \cup {c}
                        /\ IsInjective(PushFront(c, regs[t]))
    BY <1>1, PushFrontFacts
<1>3. CASE TokenOf[c] \in Tokens
    <2>1. Registered(c) = [t \in Tokens |-> IF t = TokenOf[c]
                               THEN PushFront(c, regs[t]) ELSE regs[t]]
        BY Zenon, <1>3 DEF Registered, TypeOK
    <2> QED BY Zenon, <2>1, <1>1, <1>2
<1>4. CASE TokenOf[c] \notin Tokens
    <2>1. Registered(c) = regs BY Zenon, <1>4 DEF Registered
    <2> QED BY Zenon, <2>1, <1>4 DEF TypeOK
<1> QED BY Zenon, <1>3, <1>4

\* ~cancellation_registration unlinks wherever the coroutine is linked.
LEMMA DeregisteredFacts ==
    ASSUME TypeOK, NEW c \in Coros, \A t \in Tokens : IsInjective(regs[t]),
           \A t \in Tokens : c \in Range(regs[t]) => TokenOf[c] = t
    PROVE  /\ Deregistered(c) \in [Tokens -> Seq(Coros)]
           /\ \A t \in Tokens :
                /\ IsInjective(Deregistered(c)[t])
                /\ Range(Deregistered(c)[t]) = Range(regs[t]) \ {c}
<1>1. \A t \in Tokens : regs[t] \in Seq(Coros) BY Zenon DEF TypeOK
<1>2. \A t \in Tokens : /\ Unlink(regs[t], c) \in Seq(Coros)
                        /\ Range(Unlink(regs[t], c)) = Range(regs[t]) \ {c}
                        /\ IsInjective(Unlink(regs[t], c))
    BY Zenon, <1>1, UnlinkFacts
<1>3. CASE TokenOf[c] \in Tokens
    <2>1. Deregistered(c) = [t \in Tokens |-> IF t = TokenOf[c]
                                THEN Unlink(regs[t], c) ELSE regs[t]]
        BY Zenon, <1>3 DEF Deregistered, TypeOK
    <2> QED BY Zenon, <2>1, <1>1, <1>2
<1>4. CASE TokenOf[c] \notin Tokens
    <2>1. Deregistered(c) = regs BY Zenon, <1>4 DEF Deregistered
    <2> QED BY Zenon, <2>1, <1>4 DEF TypeOK
<1> QED BY Zenon, <1>3, <1>4

-----------------------------------------------------------------------------
\* Nothing runs and nothing waits at the start.
LEMMA InitIInv == Init => IInv
<1> SUFFICES ASSUME Init PROVE IInv BY Zenon
<1>1. Range(<<>>) = {} /\ IsInjective(<<>>) /\ <<>> \in Seq(Coros)
    BY Zenon, EmptyFacts, EmptyLen
<1>2. TypeOK BY Zenon, <1>1 DEF Init, TypeOK
<1>3. Unique BY Zenon, <1>1 DEF Init, Unique
<1>4. Places BY Zenon, <1>1 DEF Init, Places
<1>5. Links BY Zenon, <1>1 DEF Init, Links
<1>6. Ownership BY Zenon, <1>1 DEF Init, Ownership, MutualExclusion, LockHasOwner
<1> QED BY Zenon, <1>2, <1>3, <1>4, <1>5, <1>6 DEF IInv

\* Steps that move the loop on and touch no coroutine.
LEMMA LoopIInv ==
    IInv /\ (\/ LoopTest \/ WaitTimeout \/ FunctionsDone \/ CollectDone
             \/ TimersDone \/ WakeDone \/ Stop \/ CancelDone) => IInv'
<1> SUFFICES ASSUME IInv,
                    \/ LoopTest \/ WaitTimeout \/ FunctionsDone \/ CollectDone
                    \/ TimersDone \/ WakeDone \/ Stop \/ CancelDone
             PROVE  IInv'
    BY Zenon
<1> USE DEF loopVars, cancelVars, mutexVars
<1>0. /\ UNCHANGED <<queue, functions, nodes, wake, stack, state, awaiting,
                     requested, regs, mutexVars, cvWaiters, sleeping>>
      /\ stop' \in BOOLEAN
      /\ phase' \in {"loop", "wait", "functions", "collect", "timers", "wake", "done"}
      /\ phase' # "functions" => functions = <<>>
      /\ cancelling' = cancelling \/ (cancelling' = None /\ cancelling # None
                                        /\ regs[cancelling] = <<>>)
    BY Zenon DEF IInv, TypeOK, Places, LoopTest, WaitTimeout, FunctionsDone,
           CollectDone, TimersDone, WakeDone, Stop, CancelDone
<1>1. TypeOK' BY Zenon, <1>0 DEF IInv, TypeOK
<1>2. Unique' BY Zenon, <1>0 DEF IInv, Unique
<1>3. Places' BY Zenon, <1>0 DEF IInv, Places
<1>4. Links'
    <2>1. CASE cancelling' = cancelling BY Zenon, <1>0, <2>1 DEF IInv, Links
    <2>2. CASE cancelling' # cancelling
        <3>1. cancelling' = None /\ cancelling # None /\ regs[cancelling] = <<>>
            BY Zenon, <1>0, <2>2
        <3>2. Range(regs[cancelling]) = {} BY Zenon, <3>1, EmptyFacts
        <3> QED BY Zenon, <1>0, <3>1, <3>2 DEF IInv, Links
    <2> QED BY Zenon, <2>1, <2>2
<1>5. Ownership'
    BY Zenon, <1>0 DEF IInv, Ownership, MutualExclusion, LockHasOwner, Cancelled
<1> QED BY Zenon, <1>1, <1>2, <1>3, <1>4, <1>5 DEF IInv

\* A start that is posted waits in the scheduler's queue.
LEMMA PostStartIInv ==
    ASSUME IInv, NEW c \in Coros, PostStart(c) PROVE IInv'
<1> USE DEF loopVars, cancelVars, mutexVars
<1>0. /\ state[c] = "idle" /\ state' = [state EXCEPT ![c] = "posted"]
      /\ UNCHANGED <<stop, phase, functions, nodes, wake, stack, awaiting,
                     cancelVars, regs, mutexVars, cvWaiters, sleeping>>
    BY Zenon DEF PostStart
<1>1. c \notin Range(queue) BY Zenon, <1>0 DEF IInv, Places
<1>2. /\ queue' \in Seq(Coros) /\ Range(queue') = Range(queue) \cup {c}
      /\ IsInjective(queue')
    BY <1>1, AppendFacts DEF IInv, TypeOK, Unique, PostStart
<1>3. TypeOK' BY Zenon, <1>0, <1>2 DEF IInv, TypeOK
<1>4. Unique' BY Zenon, <1>0, <1>2 DEF IInv, Unique
<1>5. Places' BY <1>0, <1>2 DEF IInv, Places, TypeOK
<1>6. Links' BY Zenon, <1>0, Elements DEF IInv, Links, TypeOK
<1>7. Ownership'
    BY Zenon, <1>0 DEF IInv, Ownership, MutualExclusion, LockHasOwner, Cancelled
<1> QED BY Zenon, <1>3, <1>4, <1>5, <1>6, <1>7 DEF IInv

\* co_start from a running coroutine runs the new one on top of it.
LEMMA StartNestedIInv ==
    ASSUME IInv, NEW c \in Coros, NEW d \in Coros, StartNested(c, d) PROVE IInv'
<1> USE DEF loopVars, cancelVars, mutexVars
<1>0. /\ state[d] = "idle" /\ state' = [state EXCEPT ![d] = "running"]
      /\ UNCHANGED <<loopVars, nodes, wake, awaiting, cancelVars, regs,
                     mutexVars, cvWaiters, sleeping>>
    BY Zenon DEF StartNested
<1>1. d \notin Range(stack) BY Zenon, <1>0 DEF IInv, Places
<1>2. /\ stack' \in Seq(Coros) /\ Range(stack') = Range(stack) \cup {d}
      /\ IsInjective(stack')
    <2>1. stack' = PushFront(d, stack) BY Zenon DEF StartNested
    <2>2. stack \in Seq(Coros) /\ IsInjective(stack) BY Zenon DEF IInv, TypeOK, Unique
    <2> QED BY ZenonT(40), <2>1, <2>2, <1>1, PushFrontFacts
<1>3. TypeOK' BY Zenon, <1>0, <1>2 DEF IInv, TypeOK
<1>4. Unique' BY Zenon, <1>0, <1>2 DEF IInv, Unique
<1>5. Places' BY <1>0, <1>2 DEF IInv, Places, TypeOK
<1>6. Links' BY ZenonT(40), <1>0, Elements DEF IInv, Links, TypeOK
<1>7. Ownership'
    BY Zenon, <1>0 DEF IInv, Ownership, MutualExclusion, LockHasOwner, Cancelled
<1> QED BY Zenon, <1>3, <1>4, <1>5, <1>6, <1>7 DEF IInv

\* The loop swaps the queue out.
LEMMA TakeFunctionsIInv == ASSUME IInv, TakeFunctions PROVE IInv'
<1> USE DEF loopVars, cancelVars, mutexVars
<1>0. /\ phase = "wait" /\ phase' = "functions" /\ functions' = queue /\ queue' = <<>>
      /\ UNCHANGED <<stop, nodes, wake, stack, state, awaiting, cancelVars, regs,
                     mutexVars, cvWaiters, sleeping>>
    BY Zenon DEF TakeFunctions
<1>1. functions = <<>> BY Zenon, <1>0 DEF IInv, Places
<1>2. TypeOK' BY <1>0 DEF IInv, TypeOK
<1>3. Unique' BY Zenon, <1>0, EmptyFacts DEF IInv, Unique
<1>4. Places' BY Zenon, <1>0, <1>1, EmptyFacts DEF IInv, Places
<1>5. Links' BY Zenon, <1>0 DEF IInv, Links
<1>6. Ownership'
    BY Zenon, <1>0 DEF IInv, Ownership, MutualExclusion, LockHasOwner, Cancelled
<1> QED BY Zenon, <1>2, <1>3, <1>4, <1>5, <1>6 DEF IInv

\* The loop runs what it took out.
LEMMA RunFunctionIInv == ASSUME IInv, RunFunction PROVE IInv'
<1> USE DEF loopVars, cancelVars, mutexVars
<1> DEFINE c == Head(functions)
           s == IF Cancelled(c) THEN "idle" ELSE "running"
<1>0. /\ phase = "functions" /\ stack = <<>> /\ functions # <<>>
      /\ functions' = Tail(functions)
      /\ state' = [state EXCEPT ![c] = s]
      /\ stack' = IF Cancelled(c) THEN <<>> ELSE <<c>>
      /\ UNCHANGED <<stop, phase, queue, nodes, wake, awaiting, cancelVars, regs,
                     mutexVars, cvWaiters, sleeping>>
    BY Zenon DEF RunFunction
<1>1. c \in Coros /\ c \in Range(functions)
    BY Zenon, <1>0, HeadInRange DEF IInv, TypeOK
<1>2. /\ functions' \in Seq(Coros) /\ Range(functions') = Range(functions) \ {c}
      /\ IsInjective(functions')
    BY Zenon, <1>0, TailFacts DEF IInv, TypeOK, Unique
<1>3. state[c] = "posted" BY Zenon, <1>1 DEF IInv, Places
<1>4. /\ stack' \in Seq(Coros) /\ IsInjective(stack')
      /\ Range(stack') = IF Cancelled(c) THEN {} ELSE {c}
    <2>1. <<c>> \in Seq(Coros) /\ Range(<<c>>) = {c} /\ IsInjective(<<c>>)
        BY Zenon, <1>1, SingletonFacts
    <2>2. <<>> \in Seq(Coros) OBVIOUS
    <2> QED BY Zenon, <1>0, <2>1, <2>2, EmptyFacts
<1>5. Range(stack) = {} BY Zenon, <1>0, EmptyFacts
<1> HIDE DEF c
<1>6. TypeOK' BY Zenon, <1>0, <1>2, <1>4 DEF IInv, TypeOK
<1>7. Unique' BY Zenon, <1>0, <1>2, <1>4 DEF IInv, Unique
<1>8. Places' BY <1>0, <1>1, <1>2, <1>3, <1>4, <1>5 DEF IInv, Places, TypeOK
<1>9. Links' BY Zenon, <1>0, <1>3, Elements DEF IInv, Links, TypeOK
<1>10. Ownership'
    BY Zenon, <1>0 DEF IInv, Ownership, MutualExclusion, LockHasOwner, Cancelled
<1> QED BY Zenon, <1>6, <1>7, <1>8, <1>9, <1>10 DEF IInv

\* A timer that is due is collected.
LEMMA CollectTimerIInv ==
    ASSUME IInv, NEW c \in Coros, CollectTimer(c) PROVE IInv'
<1> USE DEF loopVars, cancelVars, mutexVars
<1>0. /\ c \in sleeping /\ sleeping' = sleeping \ {c}
      /\ UNCHANGED <<loopVars, wake, stack, state, awaiting, cancelVars, regs,
                     mutexVars, cvWaiters>>
    BY Zenon DEF CollectTimer
<1>1. c \notin Range(nodes) BY Zenon, <1>0 DEF IInv, Places
<1>2. /\ nodes' \in Seq(Coros) /\ Range(nodes') = Range(nodes) \cup {c}
      /\ IsInjective(nodes')
    BY <1>1, AppendFacts DEF IInv, TypeOK, Unique, CollectTimer
<1>3. TypeOK' BY Zenon, <1>0, <1>2 DEF IInv, TypeOK
<1>4. Unique' BY Zenon, <1>0, <1>2 DEF IInv, Unique
<1>5. Places' BY <1>0, <1>2 DEF IInv, Places
<1>6. Links' BY Zenon, <1>0 DEF IInv, Links
<1>7. Ownership'
    BY Zenon, <1>0 DEF IInv, Ownership, MutualExclusion, LockHasOwner, Cancelled
<1> QED BY Zenon, <1>3, <1>4, <1>5, <1>6, <1>7 DEF IInv

\* A registered coroutine is registered with its own token only.
LEMMA OwnToken ==
    ASSUME IInv, NEW c \in Coros, NEW t \in Tokens, c \in Range(regs[t])
    PROVE  TokenOf[c] = t /\ state[c] = "suspended"
BY Zenon DEF IInv, Links

\* The loop resumes a collected timer.
LEMMA ResumeTimerIInv == ASSUME IInv, ResumeTimer PROVE IInv'
<1> USE DEF loopVars, cancelVars, mutexVars
<1> DEFINE c == Head(nodes)
<1>0. /\ stack = <<>> /\ nodes # <<>> /\ nodes' = Tail(nodes) /\ AwaitResume(c)
      /\ wake' = wake
    BY Zenon DEF ResumeTimer
<1>1. c \in Coros /\ c \in Range(nodes) BY Zenon, <1>0, HeadInRange DEF IInv, TypeOK
<1>2. /\ nodes' \in Seq(Coros) /\ Range(nodes') = Range(nodes) \ {c}
      /\ IsInjective(nodes')
    BY Zenon, <1>0, TailFacts DEF IInv, TypeOK, Unique
<1> HIDE DEF c
<1>3. /\ regs' \in [Tokens -> Seq(Coros)]
      /\ \A t \in Tokens : IsInjective(regs'[t]) /\ Range(regs'[t]) = Range(regs[t]) \ {c}
    <2>1. regs' = Deregistered(c) BY Zenon, <1>0 DEF AwaitResume
    <2> QED BY Zenon, <2>1, <1>1, OwnToken, DeregisteredFacts DEF IInv, Unique
<1>4. state[c] = "suspended" /\ awaiting[c] = "timer" /\ c \notin handed
    BY Zenon, <1>1 DEF IInv, Places, Ownership
<1>5. /\ stack' = <<c>> /\ state' = [state EXCEPT ![c] = "running"]
      /\ awaiting' = [awaiting EXCEPT ![c] = "none"]
      /\ handed' = handed /\ holds' = holds /\ orphaned' = orphaned
      /\ UNCHANGED <<loopVars, cancelVars, locked, waiters, cvWaiters, sleeping>>
    BY Zenon, <1>0, <1>4 DEF AwaitResume, IInv, TypeOK
<1>6. /\ stack' \in Seq(Coros) /\ Range(stack') = {c} /\ IsInjective(stack')
      /\ Range(stack) = {}
    BY Zenon, <1>0, <1>1, <1>5, SingletonFacts, EmptyFacts
<1>7. TypeOK' BY SMTT(30), <1>0, <1>1, <1>2, <1>3, <1>5, <1>6 DEF IInv, TypeOK
<1>8. Unique' BY Zenon, <1>0, <1>2, <1>3, <1>5, <1>6 DEF IInv, Unique
<1>12. \A d \in Coros : /\ state'[d] = IF d = c THEN "running" ELSE state[d]
                        /\ awaiting'[d] = IF d = c THEN "none" ELSE awaiting[d]
    BY Zenon, <1>5 DEF IInv, TypeOK
<1>13. Places /\ Links BY Zenon DEF IInv
<1>14. UNCHANGED <<loopVars, cancelVars, waiters, cvWaiters, sleeping>> BY Zenon, <1>5
<1>15. /\ Range(waiters) \subseteq Coros /\ Range(cvWaiters) \subseteq Coros
       /\ sleeping \subseteq Coros /\ Range(nodes) \subseteq Coros
       /\ Range(wake) \subseteq Coros /\ requested \subseteq Tokens
       /\ \A t \in Tokens : Range(regs[t]) \subseteq Coros
    BY SMTT(30), Elements DEF IInv, TypeOK
<1>9. Places'
    BY <1>0, <1>1, <1>2, <1>4, <1>6, <1>12, <1>13, <1>14, <1>15 DEF Places
<1>10. Links'
    <2>1. ASSUME NEW t \in Tokens, NEW d \in Range(regs'[t])
          PROVE  /\ TokenOf[d] = t /\ state'[d] = "suspended"
                 /\ awaiting'[d] = "mutex" => d \in Range(waiters')
        <3>1. d \in Range(regs[t]) /\ d # c /\ d \in Coros BY Zenon, <1>3, <1>15
        <3> QED BY Zenon, <3>1, <1>12, <1>13, <1>14 DEF Links
    <2>2. \A t \in requested : t # cancelling => Range(regs'[t]) = {}
        BY Zenon, <1>3, <1>13, <1>15 DEF Links
    <2>3. ASSUME NEW d \in Range(waiters) \cup Range(cvWaiters) \cup sleeping,
                 TokenOf[d] \in Tokens
          PROVE  d \in Range(regs'[TokenOf[d]])
        BY <2>3, <1>1, <1>3, <1>13 DEF Links, Places
    <2> QED BY Zenon, <2>1, <2>2, <2>3, <1>13, <1>14 DEF Links
<1>11. Ownership'
    BY Zenon, <1>0, <1>1, <1>4, <1>5, Elements
       DEF IInv, Ownership, MutualExclusion, LockHasOwner, Cancelled, TypeOK
<1> QED BY Zenon, <1>7, <1>8, <1>9, <1>10, <1>11 DEF IInv

\* The loop resumes a coroutine it was asked to wake.
LEMMA ResumeWokenIInv == ASSUME IInv, ResumeWoken PROVE IInv'
<1> USE DEF loopVars, cancelVars, mutexVars
<1> DEFINE c == Head(wake)
<1>0. /\ stack = <<>> /\ wake # <<>> /\ wake' = Tail(wake) /\ AwaitResume(c)
      /\ nodes' = nodes
    BY Zenon DEF ResumeWoken
<1>1. c \in Coros /\ c \in Range(wake) BY Zenon, <1>0, HeadInRange DEF IInv, TypeOK
<1>2. /\ wake' \in Seq(Coros) /\ Range(wake') = Range(wake) \ {c}
      /\ IsInjective(wake')
    BY Zenon, <1>0, TailFacts DEF IInv, TypeOK, Unique
<1> HIDE DEF c
<1>3. /\ regs' \in [Tokens -> Seq(Coros)]
      /\ \A t \in Tokens : IsInjective(regs'[t]) /\ Range(regs'[t]) = Range(regs[t]) \ {c}
    <2>1. regs' = Deregistered(c) BY Zenon, <1>0 DEF AwaitResume
    <2> QED BY Zenon, <2>1, <1>1, OwnToken, DeregisteredFacts DEF IInv, Unique
<1>4. state[c] = "suspended" BY Zenon, <1>1 DEF IInv, Places
<1>5. /\ stack' = <<c>> /\ state' = [state EXCEPT ![c] = "running"]
      /\ awaiting' = [awaiting EXCEPT ![c] = "none"]
      /\ handed' = handed \ {c}
      /\ holds' = IF awaiting[c] = "mutex" /\ ~Cancelled(c)
                  THEN holds \cup {c} ELSE holds
      /\ orphaned' = (orphaned \/ (c \in handed /\ Cancelled(c)))
      /\ UNCHANGED <<loopVars, cancelVars, locked, waiters, cvWaiters, sleeping>>
    BY Zenon, <1>0 DEF AwaitResume
<1>6. /\ stack' \in Seq(Coros) /\ Range(stack') = {c} /\ IsInjective(stack')
      /\ Range(stack) = {}
    BY Zenon, <1>0, <1>1, <1>5, SingletonFacts, EmptyFacts
<1>7. TypeOK' BY SMTT(30), <1>0, <1>1, <1>2, <1>3, <1>5, <1>6 DEF IInv, TypeOK
<1>8. Unique' BY ZenonT(30), <1>0, <1>2, <1>3, <1>5, <1>6 DEF IInv, Unique
<1>12. \A d \in Coros : /\ state'[d] = IF d = c THEN "running" ELSE state[d]
                        /\ awaiting'[d] = IF d = c THEN "none" ELSE awaiting[d]
    BY Zenon, <1>5 DEF IInv, TypeOK
<1>13. Places /\ Links BY Zenon DEF IInv
<1>14. UNCHANGED <<loopVars, cancelVars, waiters, cvWaiters, sleeping>> BY Zenon, <1>5
<1>15. /\ Range(waiters) \subseteq Coros /\ Range(cvWaiters) \subseteq Coros
       /\ sleeping \subseteq Coros /\ Range(nodes) \subseteq Coros
       /\ Range(wake) \subseteq Coros /\ requested \subseteq Tokens
       /\ \A t \in Tokens : Range(regs[t]) \subseteq Coros
    BY Zenon, Elements DEF IInv, TypeOK
<1>9. Places'
    BY <1>0, <1>1, <1>2, <1>4, <1>6, <1>12, <1>13, <1>14, <1>15 DEF Places
<1>10. Links'
    <2>1. ASSUME NEW t \in Tokens, NEW d \in Range(regs'[t])
          PROVE  /\ TokenOf[d] = t /\ state'[d] = "suspended"
                 /\ awaiting'[d] = "mutex" => d \in Range(waiters')
        <3>1. d \in Range(regs[t]) /\ d # c /\ d \in Coros BY Zenon, <1>3, <1>15
        <3> QED BY Zenon, <3>1, <1>12, <1>13, <1>14 DEF Links
    <2>2. \A t \in requested : t # cancelling => Range(regs'[t]) = {}
        BY Zenon, <1>3, <1>13, <1>15 DEF Links
    <2>3. ASSUME NEW d \in Range(waiters) \cup Range(cvWaiters) \cup sleeping,
                 TokenOf[d] \in Tokens
          PROVE  d \in Range(regs'[TokenOf[d]])
        BY <2>3, <1>1, <1>3, <1>13 DEF Links, Places
    <2> QED BY Zenon, <2>1, <2>2, <2>3, <1>13, <1>14 DEF Links
<1>11. Ownership'
    <2>1. \A d \in Coros : awaiting'[d] = IF d = c THEN "none" ELSE awaiting[d]
        BY Zenon, <1>5 DEF IInv, TypeOK
    <2>2. \A d \in Coros : Cancelled(d)' <=> Cancelled(d) BY Zenon, <1>5 DEF Cancelled
    <2>3. CASE awaiting[c] = "mutex" /\ ~Cancelled(c)
        <3>1. c \in handed BY Zenon, <1>1, <2>3 DEF IInv, Ownership
        <3> QED BY <1>1, <1>2, <1>5, <2>1, <2>2, <2>3, <3>1, Elements
                DEF IInv, Ownership, MutualExclusion, LockHasOwner, TypeOK
    <2>4. CASE awaiting[c] = "mutex" /\ Cancelled(c)
        BY SMTT(30), <1>1, <1>2, <1>5, <2>1, <2>2, <2>4, Elements
           DEF IInv, Ownership, MutualExclusion, LockHasOwner, TypeOK
    <2>5. CASE awaiting[c] # "mutex"
        <3>1. c \notin handed BY Zenon, <2>5 DEF IInv, Ownership
        <3> QED BY <1>1, <1>2, <1>5, <2>1, <2>2, <2>5, <3>1, Elements
                DEF IInv, Ownership, MutualExclusion, LockHasOwner, TypeOK
    <2> QED BY Zenon, <2>3, <2>4, <2>5
<1> QED BY Zenon, <1>7, <1>8, <1>9, <1>10, <1>11 DEF IInv

\* What suspending in an awaiter does to the stack and the registrations.
LEMMA SuspendFacts ==
    ASSUME IInv, NEW c \in Coros, NEW kind \in {"mutex", "cv", "timer"},
           InControl(c), Suspend(c, kind)
    PROVE  /\ c \in Range(stack) /\ state[c] = "running" /\ awaiting[c] = "none"
           /\ stack' \in Seq(Coros) /\ IsInjective(stack')
           /\ Range(stack') = Range(stack) \ {c}
           /\ state' \in [Coros -> {"idle", "posted", "running", "suspended"}]
           /\ awaiting' \in [Coros -> {"none", "mutex", "cv", "timer"}]
           /\ \A d \in Coros :
                /\ state'[d] = IF d = c THEN "suspended" ELSE state[d]
                /\ awaiting'[d] = IF d = c THEN kind ELSE awaiting[d]
           /\ regs' \in [Tokens -> Seq(Coros)]
           /\ \A t \in Tokens :
                /\ IsInjective(regs'[t])
                /\ Range(regs'[t]) = IF t = TokenOf[c]
                       THEN Range(regs[t]) \cup {c} ELSE Range(regs[t])
<1>1. stack \in Seq(Coros) /\ stack # <<>> /\ Head(stack) = c /\ IsInjective(stack)
    BY Zenon DEF IInv, TypeOK, Unique, InControl
<1>2. c \in Range(stack) BY Zenon, <1>1, HeadInRange
<1>3. state[c] = "running" /\ awaiting[c] = "none" BY Zenon, <1>2 DEF IInv, Places
<1>4. /\ stack' \in Seq(Coros) /\ IsInjective(stack')
      /\ Range(stack') = Range(stack) \ {c}
    <2>1. stack' = Tail(stack) BY Zenon DEF Suspend
    <2> QED BY Zenon, <1>1, <2>1, TailFacts
<1>5. /\ state' \in [Coros -> {"idle", "posted", "running", "suspended"}]
      /\ awaiting' \in [Coros -> {"none", "mutex", "cv", "timer"}]
      /\ \A d \in Coros :
            /\ state'[d] = IF d = c THEN "suspended" ELSE state[d]
            /\ awaiting'[d] = IF d = c THEN kind ELSE awaiting[d]
    BY Zenon DEF Suspend, IInv, TypeOK
<1>6. \A t \in Tokens : c \notin Range(regs[t]) BY Zenon, <1>3, OwnToken
<1>7. regs' = Registered(c) BY Zenon DEF Suspend
<1>8. TypeOK /\ \A t \in Tokens : IsInjective(regs[t]) BY Zenon DEF IInv, Unique
<1> QED BY Zenon, <1>2, <1>3, <1>4, <1>5, <1>6, <1>7, <1>8, RegisteredFacts

\* What the invariant says of the lists, as sets.
LEMMA Subsets ==
    ASSUME IInv
    PROVE  /\ Range(waiters) \subseteq Coros /\ Range(cvWaiters) \subseteq Coros
           /\ sleeping \subseteq Coros /\ Range(nodes) \subseteq Coros
           /\ Range(wake) \subseteq Coros /\ requested \subseteq Tokens
           /\ holds \subseteq Coros /\ handed \subseteq Coros
           /\ \A t \in Tokens : Range(regs[t]) \subseteq Coros
BY Zenon, Elements DEF IInv, TypeOK


-----------------------------------------------------------------------------
\* lock queues behind the owner.
LEMMA LockWaitIInv == ASSUME IInv, NEW c \in Coros, LockWait(c) PROVE IInv'
<1> USE DEF loopVars, cancelVars, mutexVars
<1>0. /\ InControl(c) /\ Suspend(c, "mutex") /\ ~Cancelled(c) /\ cancelling = None
      /\ c \notin holds /\ locked /\ waiters' = Append(waiters, c)
      /\ UNCHANGED <<loopVars, nodes, wake, cancelVars, locked, holds, handed,
                     orphaned, cvWaiters, sleeping>>
    BY Zenon DEF LockWait, InControl
<1>1. /\ c \in Range(stack) /\ state[c] = "running" /\ awaiting[c] = "none"
      /\ stack' \in Seq(Coros) /\ IsInjective(stack')
      /\ Range(stack') = Range(stack) \ {c}
      /\ state' \in [Coros -> {"idle", "posted", "running", "suspended"}]
      /\ awaiting' \in [Coros -> {"none", "mutex", "cv", "timer"}]
      /\ \A d \in Coros :
            /\ state'[d] = IF d = c THEN "suspended" ELSE state[d]
            /\ awaiting'[d] = IF d = c THEN "mutex" ELSE awaiting[d]
      /\ regs' \in [Tokens -> Seq(Coros)]
      /\ \A t \in Tokens :
            /\ IsInjective(regs'[t])
            /\ Range(regs'[t]) = IF t = TokenOf[c]
                   THEN Range(regs[t]) \cup {c} ELSE Range(regs[t])
    BY Zenon, <1>0, SuspendFacts
<1>2. Places /\ Links /\ Ownership BY Zenon DEF IInv
<1>11. /\ c \in Range(stack) /\ state[c] = "running" /\ awaiting[c] = "none"
       /\ Range(stack') = Range(stack) \ {c}
       /\ \A d \in Coros :
            /\ state'[d] = IF d = c THEN "suspended" ELSE state[d]
            /\ awaiting'[d] = IF d = c THEN "mutex" ELSE awaiting[d]
    BY Zenon, <1>1
<1>12. \A t \in Tokens : Range(regs'[t]) =
          IF t = TokenOf[c] THEN Range(regs[t]) \cup {c} ELSE Range(regs[t])
    BY Zenon, <1>1
<1>13. /\ Range(waiters) \subseteq Coros /\ Range(cvWaiters) \subseteq Coros
       /\ sleeping \subseteq Coros /\ Range(nodes) \subseteq Coros
       /\ Range(wake) \subseteq Coros /\ requested \subseteq Tokens
       /\ holds \subseteq Coros /\ handed \subseteq Coros
       /\ \A t \in Tokens : Range(regs[t]) \subseteq Coros
    BY Zenon, Subsets
<1>14. /\ UNCHANGED <<phase, queue, functions, nodes, wake, requested, cancelling,
                      holds, handed, orphaned, locked, cvWaiters, sleeping>>
       /\ ~Cancelled(c) /\ c \notin holds /\ locked
    BY Zenon, <1>0
<1>3. c \notin Range(waiters) \cup Range(cvWaiters) \cup sleeping
                 \cup Range(nodes) \cup Range(wake)
    BY Zenon, <1>2, <1>11 DEF Places
<1>4. /\ waiters' \in Seq(Coros) /\ Range(waiters') = Range(waiters) \cup {c}
      /\ IsInjective(waiters')
    BY <1>0, <1>3, AppendFacts DEF IInv, TypeOK, Unique
<1>15. Range(waiters') = Range(waiters) \cup {c} BY Zenon, <1>4
<1>5. TypeOK' BY Zenon, <1>0, <1>1, <1>4 DEF IInv, TypeOK
<1>6. Unique' BY SMTT(30), <1>0, <1>1, <1>4 DEF IInv, Unique
<1>7. Places' BY <1>2, <1>3, <1>15, <1>11, <1>13, <1>14 DEF Places
<1>8. Links'
    <2>1. ASSUME NEW t \in Tokens, NEW d \in Range(regs'[t])
          PROVE  /\ TokenOf[d] = t /\ state'[d] = "suspended"
                 /\ awaiting'[d] = "mutex" => d \in Range(waiters')
        <3>1. CASE d = c /\ c \notin Range(regs[t])
            BY Zenon, <3>1, <1>11, <1>12, <1>14, <1>15
        <3>2. CASE d \in Range(regs[t])
            <4>1. d \in Coros /\ d # c BY Zenon, <3>2, <1>2, <1>11, <1>13 DEF Links
            <4> QED BY <3>2, <4>1, <1>2, <1>11, <1>14, <1>15 DEF Links
        <3> QED BY Zenon, <3>1, <3>2, <1>12
    <2>2. ASSUME NEW t \in requested PROVE Range(regs'[t]) = {}
        <3>1. t \in Tokens /\ t # cancelling /\ t # TokenOf[c]
            BY Zenon, <1>0, <1>13, CoroSyncAssumption DEF Cancelled
        <3> QED BY Zenon, <3>1, <1>2, <1>12 DEF Links
    <2>3. ASSUME NEW d \in Range(waiters') \cup Range(cvWaiters') \cup sleeping',
                 TokenOf[d] \in Tokens
          PROVE  d \in Range(regs'[TokenOf[d]])
        <3>1. Range(regs[TokenOf[d]]) \subseteq Range(regs'[TokenOf[d]])
            BY Zenon, <2>3, <1>12
        <3>2. d = c => d \in Range(regs'[TokenOf[d]]) BY Zenon, <2>3, <1>12
        <3>3. d # c => d \in Range(waiters) \cup Range(cvWaiters) \cup sleeping
            BY Zenon, <2>3, <1>14, <1>15
        <3> QED BY Zenon, <2>3, <3>1, <3>2, <3>3, <1>2 DEF Links
    <2> QED BY Zenon, <2>1, <2>2, <2>3, <1>2, <1>14 DEF Links
<1>9. Ownership'
    BY Zenon, <1>2, <1>3, <1>11, <1>13, <1>14
       DEF Ownership, MutualExclusion, LockHasOwner, Cancelled
<1> QED BY Zenon, <1>5, <1>6, <1>7, <1>8, <1>9 DEF IInv

\* wait queues at the condition variable.
LEMMA WaitIInv == ASSUME IInv, NEW c \in Coros, Wait(c) PROVE IInv'
<1> USE DEF loopVars, cancelVars, mutexVars
<1>0. /\ InControl(c) /\ Suspend(c, "cv") /\ ~Cancelled(c) /\ cancelling = None
      /\ cvWaiters' = Append(cvWaiters, c)
      /\ UNCHANGED <<loopVars, nodes, wake, cancelVars, mutexVars, sleeping>>
    BY Zenon DEF Wait, InControl
<1>1. /\ c \in Range(stack) /\ state[c] = "running" /\ awaiting[c] = "none"
      /\ stack' \in Seq(Coros) /\ IsInjective(stack')
      /\ Range(stack') = Range(stack) \ {c}
      /\ state' \in [Coros -> {"idle", "posted", "running", "suspended"}]
      /\ awaiting' \in [Coros -> {"none", "mutex", "cv", "timer"}]
      /\ \A d \in Coros :
            /\ state'[d] = IF d = c THEN "suspended" ELSE state[d]
            /\ awaiting'[d] = IF d = c THEN "cv" ELSE awaiting[d]
      /\ regs' \in [Tokens -> Seq(Coros)]
      /\ \A t \in Tokens :
            /\ IsInjective(regs'[t])
            /\ Range(regs'[t]) = IF t = TokenOf[c]
                   THEN Range(regs[t]) \cup {c} ELSE Range(regs[t])
    BY Zenon, <1>0, SuspendFacts
<1>2. Places /\ Links /\ Ownership BY Zenon DEF IInv
<1>11. /\ c \in Range(stack) /\ state[c] = "running" /\ awaiting[c] = "none"
       /\ Range(stack') = Range(stack) \ {c}
       /\ \A d \in Coros :
            /\ state'[d] = IF d = c THEN "suspended" ELSE state[d]
            /\ awaiting'[d] = IF d = c THEN "cv" ELSE awaiting[d]
    BY Zenon, <1>1
<1>12. \A t \in Tokens : Range(regs'[t]) =
          IF t = TokenOf[c] THEN Range(regs[t]) \cup {c} ELSE Range(regs[t])
    BY Zenon, <1>1
<1>13. /\ Range(waiters) \subseteq Coros /\ Range(cvWaiters) \subseteq Coros
       /\ sleeping \subseteq Coros /\ Range(nodes) \subseteq Coros
       /\ Range(wake) \subseteq Coros /\ requested \subseteq Tokens
       /\ holds \subseteq Coros /\ handed \subseteq Coros
       /\ \A t \in Tokens : Range(regs[t]) \subseteq Coros
    BY Zenon, Subsets
<1>14. /\ UNCHANGED <<phase, queue, functions, nodes, wake, requested, cancelling,
                      holds, handed, orphaned, locked, waiters, sleeping>>
       /\ ~Cancelled(c)
    BY Zenon, <1>0
<1>3. c \notin Range(waiters) \cup Range(cvWaiters) \cup sleeping
                 \cup Range(nodes) \cup Range(wake)
    BY Zenon, <1>2, <1>11 DEF Places
<1>4. /\ cvWaiters' \in Seq(Coros) /\ Range(cvWaiters') = Range(cvWaiters) \cup {c}
      /\ IsInjective(cvWaiters')
    BY <1>0, <1>3, AppendFacts DEF IInv, TypeOK, Unique
<1>15. Range(cvWaiters') = Range(cvWaiters) \cup {c} BY Zenon, <1>4
<1>5. TypeOK' BY Zenon, <1>0, <1>1, <1>4 DEF IInv, TypeOK
<1>6. Unique' BY Zenon, <1>0, <1>1, <1>4 DEF IInv, Unique
<1>7. Places' BY <1>2, <1>3, <1>15, <1>11, <1>13, <1>14 DEF Places
<1>8. Links'
    <2>1. ASSUME NEW t \in Tokens, NEW d \in Range(regs'[t])
          PROVE  /\ TokenOf[d] = t /\ state'[d] = "suspended"
                 /\ awaiting'[d] = "mutex" => d \in Range(waiters')
        <3>1. CASE d = c /\ c \notin Range(regs[t])
            BY Zenon, <3>1, <1>11, <1>12, <1>14, <1>15
        <3>2. CASE d \in Range(regs[t])
            <4>1. d \in Coros /\ d # c BY Zenon, <3>2, <1>2, <1>11, <1>13 DEF Links
            <4> QED BY <3>2, <4>1, <1>2, <1>11, <1>14, <1>15 DEF Links
        <3> QED BY Zenon, <3>1, <3>2, <1>12
    <2>2. ASSUME NEW t \in requested PROVE Range(regs'[t]) = {}
        <3>1. t \in Tokens /\ t # cancelling /\ t # TokenOf[c]
            BY Zenon, <1>0, <1>13, CoroSyncAssumption DEF Cancelled
        <3> QED BY Zenon, <3>1, <1>2, <1>12 DEF Links
    <2>3. ASSUME NEW d \in Range(waiters') \cup Range(cvWaiters') \cup sleeping',
                 TokenOf[d] \in Tokens
          PROVE  d \in Range(regs'[TokenOf[d]])
        <3>1. Range(regs[TokenOf[d]]) \subseteq Range(regs'[TokenOf[d]])
            BY Zenon, <2>3, <1>12
        <3>2. d = c => d \in Range(regs'[TokenOf[d]]) BY Zenon, <2>3, <1>12
        <3>3. d # c => d \in Range(waiters) \cup Range(cvWaiters) \cup sleeping
            BY Zenon, <2>3, <1>14, <1>15
        <3> QED BY Zenon, <2>3, <3>1, <3>2, <3>3, <1>2 DEF Links
    <2> QED BY Zenon, <2>1, <2>2, <2>3, <1>2, <1>14 DEF Links
<1>9. Ownership'
    BY Zenon, <1>2, <1>3, <1>11, <1>13, <1>14
       DEF Ownership, MutualExclusion, LockHasOwner, Cancelled
<1> QED BY Zenon, <1>5, <1>6, <1>7, <1>8, <1>9 DEF IInv

\* sleep_for registers a timer.
LEMMA SleepIInv == ASSUME IInv, NEW c \in Coros, Sleep(c) PROVE IInv'
<1> USE DEF loopVars, cancelVars, mutexVars
<1>0. /\ InControl(c) /\ Suspend(c, "timer") /\ ~Cancelled(c) /\ cancelling = None
      /\ sleeping' = sleeping \cup {c}
      /\ UNCHANGED <<loopVars, nodes, wake, cancelVars, mutexVars, cvWaiters>>
    BY Zenon DEF Sleep, InControl
<1>1. /\ c \in Range(stack) /\ state[c] = "running" /\ awaiting[c] = "none"
      /\ stack' \in Seq(Coros) /\ IsInjective(stack')
      /\ Range(stack') = Range(stack) \ {c}
      /\ state' \in [Coros -> {"idle", "posted", "running", "suspended"}]
      /\ awaiting' \in [Coros -> {"none", "mutex", "cv", "timer"}]
      /\ \A d \in Coros :
            /\ state'[d] = IF d = c THEN "suspended" ELSE state[d]
            /\ awaiting'[d] = IF d = c THEN "timer" ELSE awaiting[d]
      /\ regs' \in [Tokens -> Seq(Coros)]
      /\ \A t \in Tokens :
            /\ IsInjective(regs'[t])
            /\ Range(regs'[t]) = IF t = TokenOf[c]
                   THEN Range(regs[t]) \cup {c} ELSE Range(regs[t])
    BY Zenon, <1>0, SuspendFacts
<1>2. Places /\ Links /\ Ownership BY Zenon DEF IInv
<1>11. /\ c \in Range(stack) /\ state[c] = "running" /\ awaiting[c] = "none"
       /\ Range(stack') = Range(stack) \ {c}
       /\ \A d \in Coros :
            /\ state'[d] = IF d = c THEN "suspended" ELSE state[d]
            /\ awaiting'[d] = IF d = c THEN "timer" ELSE awaiting[d]
    BY Zenon, <1>1
<1>12. \A t \in Tokens : Range(regs'[t]) =
          IF t = TokenOf[c] THEN Range(regs[t]) \cup {c} ELSE Range(regs[t])
    BY Zenon, <1>1
<1>13. /\ Range(waiters) \subseteq Coros /\ Range(cvWaiters) \subseteq Coros
       /\ sleeping \subseteq Coros /\ Range(nodes) \subseteq Coros
       /\ Range(wake) \subseteq Coros /\ requested \subseteq Tokens
       /\ holds \subseteq Coros /\ handed \subseteq Coros
       /\ \A t \in Tokens : Range(regs[t]) \subseteq Coros
    BY Zenon, Subsets
<1>14. /\ UNCHANGED <<phase, queue, functions, nodes, wake, requested, cancelling,
                      holds, handed, orphaned, locked, waiters, cvWaiters>>
       /\ ~Cancelled(c)
    BY Zenon, <1>0
<1>3. c \notin Range(waiters) \cup Range(cvWaiters) \cup sleeping
                 \cup Range(nodes) \cup Range(wake)
    BY Zenon, <1>2, <1>11 DEF Places
<1>4. sleeping' = sleeping \cup {c} BY Zenon, <1>0
<1>15. sleeping' = sleeping \cup {c} BY Zenon, <1>4
<1>5. TypeOK' BY Zenon, <1>0, <1>1, <1>4 DEF IInv, TypeOK
<1>6. Unique' BY Zenon, <1>0, <1>1, <1>4 DEF IInv, Unique
<1>7. Places' BY <1>2, <1>3, <1>15, <1>11, <1>13, <1>14 DEF Places
<1>8. Links'
    <2>1. ASSUME NEW t \in Tokens, NEW d \in Range(regs'[t])
          PROVE  /\ TokenOf[d] = t /\ state'[d] = "suspended"
                 /\ awaiting'[d] = "mutex" => d \in Range(waiters')
        <3>1. CASE d = c /\ c \notin Range(regs[t])
            BY Zenon, <3>1, <1>11, <1>12, <1>14, <1>15
        <3>2. CASE d \in Range(regs[t])
            <4>1. d \in Coros /\ d # c BY Zenon, <3>2, <1>2, <1>11, <1>13 DEF Links
            <4> QED BY <3>2, <4>1, <1>2, <1>11, <1>14, <1>15 DEF Links
        <3> QED BY Zenon, <3>1, <3>2, <1>12
    <2>2. ASSUME NEW t \in requested PROVE Range(regs'[t]) = {}
        <3>1. t \in Tokens /\ t # cancelling /\ t # TokenOf[c]
            BY Zenon, <1>0, <1>13, CoroSyncAssumption DEF Cancelled
        <3> QED BY Zenon, <3>1, <1>2, <1>12 DEF Links
    <2>3. ASSUME NEW d \in Range(waiters') \cup Range(cvWaiters') \cup sleeping',
                 TokenOf[d] \in Tokens
          PROVE  d \in Range(regs'[TokenOf[d]])
        <3>1. Range(regs[TokenOf[d]]) \subseteq Range(regs'[TokenOf[d]])
            BY Zenon, <2>3, <1>12
        <3>2. d = c => d \in Range(regs'[TokenOf[d]]) BY Zenon, <2>3, <1>12
        <3>3. d # c => d \in Range(waiters) \cup Range(cvWaiters) \cup sleeping
            BY Zenon, <2>3, <1>14, <1>15
        <3> QED BY Zenon, <2>3, <3>1, <3>2, <3>3, <1>2 DEF Links
    <2> QED BY Zenon, <2>1, <2>2, <2>3, <1>2, <1>14 DEF Links
<1>9. Ownership'
    BY Zenon, <1>2, <1>3, <1>11, <1>13, <1>14
       DEF Ownership, MutualExclusion, LockHasOwner, Cancelled
<1> QED BY Zenon, <1>5, <1>6, <1>7, <1>8, <1>9 DEF IInv

\* lock takes the free mutex.
LEMMA LockFreeIInv == ASSUME IInv, NEW c \in Coros, LockFree(c) PROVE IInv'
<1> USE DEF loopVars, cancelVars, mutexVars
<1>0. /\ InControl(c) /\ ~locked /\ locked' = TRUE /\ holds' = holds \cup {c}
      /\ UNCHANGED <<loopVars, nodes, wake, stack, state, awaiting, cancelVars,
                     regs, waiters, handed, orphaned, cvWaiters, sleeping>>
    BY Zenon DEF LockFree
<1>1. awaiting[c] = "none"
    <2>1. c \in Range(stack)
        BY Zenon, <1>0, HeadInRange DEF IInv, TypeOK, InControl
    <2> QED BY Zenon, <2>1 DEF IInv, Places
<1>2. TypeOK' BY Zenon, <1>0 DEF IInv, TypeOK
<1>3. Unique' BY Zenon, <1>0 DEF IInv, Unique
<1>4. Places' BY Zenon, <1>0 DEF IInv, Places
<1>5. Links' BY Zenon, <1>0 DEF IInv, Links
<1>6. Ownership'
    BY Zenon, <1>0, <1>1 DEF IInv, Ownership, MutualExclusion, LockHasOwner, Cancelled
<1> QED BY Zenon, <1>2, <1>3, <1>4, <1>5, <1>6 DEF IInv

\* unlock by the owner, whatever the owner's coroutine does besides: it goes
\* on (Unlock) or it ends (Finish).
LEMMA ReleaseIInv ==
    ASSUME IInv, NEW c \in Coros, c \in holds, Release(c),
           UNCHANGED <<loopVars, nodes, awaiting, cancelVars, orphaned,
                       cvWaiters, sleeping>>,
           stack' \in Seq(Coros), IsInjective(stack'),
           state' \in [Coros -> {"idle", "posted", "running", "suspended"}],
           \A d \in Coros :
              /\ state'[d] = "running" <=> d \in Range(stack')
              /\ state'[d] = "posted" <=> state[d] = "posted"
              /\ state'[d] = "suspended" <=> state[d] = "suspended"
    PROVE  IInv'
<1> USE DEF loopVars, cancelVars
<1>1. Places /\ Links /\ Ownership BY Zenon DEF IInv
<1>2. /\ Range(waiters) \subseteq Coros /\ Range(cvWaiters) \subseteq Coros
      /\ sleeping \subseteq Coros /\ Range(nodes) \subseteq Coros
      /\ Range(wake) \subseteq Coros /\ requested \subseteq Tokens
      /\ holds \subseteq Coros /\ handed \subseteq Coros
      /\ \A t \in Tokens : Range(regs[t]) \subseteq Coros
    BY Zenon, Subsets
<1>3. holds = {c} /\ handed = {} /\ ~orphaned /\ locked
    <2>1. \A x, y \in holds \cup handed : x = y
        BY Zenon, <1>1 DEF Ownership, MutualExclusion
    <2>2. c \notin handed BY Zenon, <1>1 DEF Ownership
    <2> QED BY <2>1, <2>2, <1>1 DEF Ownership, MutualExclusion
<1>4. CASE waiters = <<>>
    <2>1. /\ locked' = FALSE /\ holds' = {}
          /\ UNCHANGED <<waiters, regs, wake, handed>>
        BY Zenon, <1>3, <1>4 DEF Release
    <2>2. TypeOK' BY Zenon, <2>1 DEF IInv, TypeOK
    <2>3. Unique' BY Zenon, <2>1 DEF IInv, Unique
    <2>4. Places' BY Zenon, <1>1, <2>1 DEF Places
    <2>5. Links' BY Zenon, <1>1, <1>2, <2>1 DEF Links
    <2>6. Ownership'
        BY Zenon, <1>1, <1>3, <1>4, <2>1
           DEF Ownership, MutualExclusion, LockHasOwner, Cancelled
    <2> QED BY Zenon, <2>2, <2>3, <2>4, <2>5, <2>6 DEF IInv
<1>5. CASE waiters # <<>>
    <2> DEFINE d == Head(waiters)
    <2>1. /\ waiters' = Tail(waiters) /\ regs' = Deregistered(d)
          /\ wake' = Append(wake, d) /\ handed' = {d} /\ holds' = {}
          /\ locked' = locked
        BY Zenon, <1>3, <1>5 DEF Release
    <2>2. waiters \in Seq(Coros) /\ IsInjective(waiters)
          /\ wake \in Seq(Coros) /\ IsInjective(wake)
        BY Zenon DEF IInv, TypeOK, Unique
    <2>3. d \in Coros /\ d \in Range(waiters) BY Zenon, <1>5, <2>2, HeadInRange
    <2>4. /\ waiters' \in Seq(Coros) /\ IsInjective(waiters')
          /\ Range(waiters') = Range(waiters) \ {d}
        BY Zenon, <1>5, <2>1, <2>2, TailFacts
    <2> HIDE DEF d
    <2>5. state[d] = "suspended" /\ awaiting[d] = "mutex" /\ d \notin Range(wake)
        BY Zenon, <1>1, <2>3 DEF Places
    <2>6. /\ wake' \in Seq(Coros) /\ IsInjective(wake')
          /\ Range(wake') = Range(wake) \cup {d}
        BY <2>1, <2>2, <2>3, <2>5, AppendFacts
    <2>7. /\ regs' \in [Tokens -> Seq(Coros)]
          /\ \A t \in Tokens : /\ IsInjective(regs'[t])
                               /\ Range(regs'[t]) = Range(regs[t]) \ {d}
        BY Zenon, <2>1, <2>3, OwnToken, DeregisteredFacts DEF IInv, Unique
    <2>8. TypeOK' BY Zenon, <2>1, <2>3, <2>4, <2>6, <2>7 DEF IInv, TypeOK
    <2>9. Unique' BY SMTT(30), <2>4, <2>6, <2>7 DEF IInv, Unique
    <2>10. Places' BY SMTT(30), <1>1, <2>3, <2>4, <2>5, <2>6 DEF Places
    <2>11. Links'
        <3>1. ASSUME NEW t \in Tokens, NEW x \in Range(regs'[t])
              PROVE  /\ TokenOf[x] = t /\ state'[x] = "suspended"
                     /\ awaiting'[x] = "mutex" => x \in Range(waiters')
            <4>1. x \in Range(regs[t]) /\ x # d /\ x \in Coros BY Zenon, <1>2, <2>7
            <4> QED BY Zenon, <4>1, <1>1, <2>4 DEF Links
        <3>2. ASSUME NEW t \in requested, t # cancelling PROVE Range(regs'[t]) = {}
            <4>1. t \in Tokens /\ Range(regs[t]) = {} BY Zenon, <3>2, <1>1, <1>2 DEF Links
            <4> QED BY Zenon, <4>1, <2>7
        <3>3. ASSUME NEW x \in Range(waiters') \cup Range(cvWaiters') \cup sleeping',
                     TokenOf[x] \in Tokens
              PROVE  x \in Range(regs'[TokenOf[x]])
            <4>1. x # d /\ x \in Range(waiters) \cup Range(cvWaiters) \cup sleeping
                BY Zenon, <3>3, <2>3, <2>4, <2>5, <1>1 DEF Places
            <4> QED BY <3>3, <4>1, <1>1, <2>7 DEF Links
        <3> QED BY Zenon, <3>1, <3>2, <3>3, <1>1 DEF Links
    <2>12. Ownership'
        BY Zenon, <1>1, <1>2, <1>3, <2>1, <2>3, <2>4, <2>5, <2>6
           DEF Ownership, MutualExclusion, LockHasOwner, Cancelled
    <2> QED BY Zenon, <2>8, <2>9, <2>10, <2>11, <2>12 DEF IInv
<1> QED BY Zenon, <1>4, <1>5

\* unlock hands the mutex to the first waiter, or frees it.
LEMMA UnlockIInv == ASSUME IInv, NEW c \in Coros, Unlock(c) PROVE IInv'
<1> USE DEF loopVars, cancelVars
<1>1. /\ c \in holds /\ Release(c) /\ stack' = stack /\ state' = state
      /\ UNCHANGED <<loopVars, nodes, awaiting, cancelVars, orphaned,
                     cvWaiters, sleeping>>
    BY Zenon DEF Unlock
<1>2. /\ stack \in Seq(Coros) /\ IsInjective(stack)
      /\ state \in [Coros -> {"idle", "posted", "running", "suspended"}]
      /\ \A d \in Coros : state[d] = "running" <=> d \in Range(stack)
    BY Zenon DEF IInv, TypeOK, Unique, Places
<1> QED BY Zenon, <1>1, <1>2, ReleaseIInv

\* A coroutine returns to whoever resumed it.
LEMMA FinishIInv == ASSUME IInv, NEW c \in Coros, Finish(c) PROVE IInv'
<1> USE DEF loopVars, cancelVars
<1>1. /\ InControl(c) /\ stack' = Tail(stack)
      /\ state' = [state EXCEPT ![c] = "idle"]
      /\ UNCHANGED <<loopVars, nodes, awaiting, cancelVars, orphaned,
                     cvWaiters, sleeping>>
    BY Zenon DEF Finish
<1>2. stack \in Seq(Coros) /\ stack # <<>> /\ Head(stack) = c /\ IsInjective(stack)
    BY Zenon, <1>1 DEF IInv, TypeOK, Unique, InControl
<1>3. /\ stack' \in Seq(Coros) /\ IsInjective(stack')
      /\ Range(stack') = Range(stack) \ {c}
    BY Zenon, <1>1, <1>2, TailFacts
<1>4. c \in Range(stack) BY Zenon, <1>2, HeadInRange
<1>5. /\ state' \in [Coros -> {"idle", "posted", "running", "suspended"}]
      /\ \A d \in Coros : state'[d] = IF d = c THEN "idle" ELSE state[d]
    BY Zenon, <1>1 DEF IInv, TypeOK
<1>6. \A d \in Coros :
        /\ state'[d] = "running" <=> d \in Range(stack')
        /\ state'[d] = "posted" <=> state[d] = "posted"
        /\ state'[d] = "suspended" <=> state[d] = "suspended"
    BY <1>3, <1>4, <1>5 DEF IInv, Places
<1>7. CASE c \in holds
    <2>1. Release(c) BY Zenon, <1>7 DEF Finish
    <2> QED BY Zenon, <1>1, <1>3, <1>5, <1>6, <1>7, <2>1, ReleaseIInv
<1>8. CASE c \notin holds
    <2>1. UNCHANGED <<holds, waiters, regs, wake, handed, locked>>
        BY Zenon, <1>8 DEF Finish
    <2>2. TypeOK' BY Zenon, <1>1, <1>3, <1>5, <2>1 DEF IInv, TypeOK
    <2>3. Unique' BY SMTT(30), <1>1, <1>3, <2>1 DEF IInv, Unique
    <2>4. Places'
        <3>1. Places BY Zenon DEF IInv
        <3> QED BY Zenon, <3>1, <1>1, <1>6, <2>1 DEF Places
    <2>5. Links'
        <3>1. Links BY Zenon DEF IInv
        <3> QED BY Zenon, <3>1, <1>1, <1>6, <2>1, Subsets DEF Links
    <2>6. Ownership'
        BY Zenon, <1>1, <2>1 DEF IInv, Ownership, MutualExclusion, LockHasOwner, Cancelled
    <2> QED BY Zenon, <2>2, <2>3, <2>4, <2>5, <2>6 DEF IInv
<1> QED BY Zenon, <1>7, <1>8

-----------------------------------------------------------------------------
\* notify_one wakes the first waiter.
LEMMA NotifyOneIInv == ASSUME IInv, NEW c \in Coros, NotifyOne(c) PROVE IInv'
<1> USE DEF loopVars, cancelVars, mutexVars
<1> DEFINE d == Head(cvWaiters)
<1>0. /\ cvWaiters # <<>> /\ wake' = Append(wake, d) /\ cvWaiters' = Tail(cvWaiters)
      /\ UNCHANGED <<loopVars, nodes, stack, state, awaiting, cancelVars, regs,
                     mutexVars, sleeping>>
    BY Zenon DEF NotifyOne
<1>1. /\ cvWaiters \in Seq(Coros) /\ IsInjective(cvWaiters)
      /\ wake \in Seq(Coros) /\ IsInjective(wake)
    BY Zenon DEF IInv, TypeOK, Unique
<1>2. d \in Coros /\ d \in Range(cvWaiters) BY Zenon, <1>0, <1>1, HeadInRange
<1>3. /\ cvWaiters' \in Seq(Coros) /\ IsInjective(cvWaiters')
      /\ Range(cvWaiters') = Range(cvWaiters) \ {d}
    BY Zenon, <1>0, <1>1, TailFacts
<1> HIDE DEF d
<1>4. Places /\ Links /\ Ownership BY Zenon DEF IInv
<1>5. d \notin Range(wake) /\ awaiting[d] = "cv" /\ state[d] = "suspended"
    BY Zenon, <1>2, <1>4 DEF Places
<1>6. /\ wake' \in Seq(Coros) /\ IsInjective(wake')
      /\ Range(wake') = Range(wake) \cup {d}
    BY <1>0, <1>1, <1>2, <1>5, AppendFacts
<1>7. TypeOK' BY Zenon, <1>0, <1>3, <1>6 DEF IInv, TypeOK
<1>8. Unique' BY Zenon, <1>0, <1>3, <1>6 DEF IInv, Unique
<1>9. Places' BY Zenon, <1>0, <1>2, <1>3, <1>4, <1>5, <1>6 DEF Places
<1>10. Links' BY Zenon, <1>0, <1>3, <1>4 DEF Links
<1>11. Ownership'
    BY Zenon, <1>0, <1>4, <1>5, <1>6
       DEF Ownership, MutualExclusion, LockHasOwner, Cancelled
<1> QED BY Zenon, <1>7, <1>8, <1>9, <1>10, <1>11 DEF IInv

\* notify_all wakes every waiter.
LEMMA NotifyAllIInv == ASSUME IInv, NEW c \in Coros, NotifyAll(c) PROVE IInv'
<1> USE DEF loopVars, cancelVars, mutexVars
<1>0. /\ wake' = wake \o cvWaiters /\ cvWaiters' = <<>>
      /\ UNCHANGED <<loopVars, nodes, stack, state, awaiting, cancelVars, regs,
                     mutexVars, sleeping>>
    BY Zenon DEF NotifyAll
<1>1. /\ cvWaiters \in Seq(Coros) /\ IsInjective(cvWaiters)
      /\ wake \in Seq(Coros) /\ IsInjective(wake)
    BY Zenon DEF IInv, TypeOK, Unique
<1>2. Places /\ Links /\ Ownership BY Zenon DEF IInv
<1>3. Range(wake) \cap Range(cvWaiters) = {} BY Zenon, <1>2 DEF Places
<1>4. /\ wake' \in Seq(Coros) /\ IsInjective(wake')
      /\ Range(wake') = Range(wake) \cup Range(cvWaiters)
    BY <1>0, <1>1, <1>3, ConcatFacts
<1>5. cvWaiters' \in Seq(Coros) /\ IsInjective(cvWaiters') /\ Range(cvWaiters') = {}
    BY <1>0, EmptyFacts
<1>6. TypeOK' BY Zenon, <1>0, <1>4, <1>5 DEF IInv, TypeOK
<1>7. Unique' BY Zenon, <1>0, <1>4, <1>5 DEF IInv, Unique
<1>8. Places' BY Zenon, <1>0, <1>2, <1>4, <1>5 DEF Places
<1>9. Links' BY Zenon, <1>0, <1>2, <1>5 DEF Links
<1>10. Ownership'
    BY Zenon, <1>0, <1>2, <1>4 DEF Places, Ownership, MutualExclusion, LockHasOwner, Cancelled
<1> QED BY Zenon, <1>6, <1>7, <1>8, <1>9, <1>10 DEF IInv

\* request_cancellation starts to run the callbacks of a token.
LEMMA RequestCancellationIInv ==
    ASSUME IInv, NEW c \in Coros, NEW t \in Tokens, RequestCancellation(c, t)
    PROVE  IInv'
<1> USE DEF loopVars, cancelVars, mutexVars
<1>0. /\ cancelling = None /\ requested' = requested \cup {t} /\ cancelling' = t
      /\ UNCHANGED <<loopVars, nodes, wake, stack, state, awaiting, regs,
                     mutexVars, cvWaiters, sleeping>>
    BY Zenon DEF RequestCancellation, InControl
<1>1. Places /\ Links /\ Ownership /\ requested \subseteq Tokens
    BY Zenon DEF IInv, TypeOK
<1>2. TypeOK' BY Zenon, <1>0 DEF IInv, TypeOK
<1>3. Unique' BY Zenon, <1>0 DEF IInv, Unique
<1>4. Places' BY Zenon, <1>0, <1>1 DEF Places
<1>5. Links'
    <2>1. ASSUME NEW u \in requested', u # cancelling'
          PROVE  Range(regs'[u]) = {}
        <3>1. u \in requested /\ regs'[u] = regs[u] BY Zenon, <1>0, <2>1
        <3>2. u # cancelling BY Zenon, <1>0, <1>1, <3>1, CoroSyncAssumption
        <3> QED BY Zenon, <1>1, <3>1, <3>2 DEF Links
    <2>2. cancelling' \in requested' BY Zenon, <1>0
    <2>3. \A u \in Tokens : \A d \in Range(regs'[u]) :
             /\ TokenOf[d] = u
             /\ state'[d] = "suspended"
             /\ awaiting'[d] = "mutex" => d \in Range(waiters')
        BY Zenon, <1>0, <1>1 DEF Links
    <2>4. \A d \in Range(waiters') \cup Range(cvWaiters') \cup sleeping' :
             TokenOf[d] \in Tokens => d \in Range(regs'[TokenOf[d]])
        BY Zenon, <1>0, <1>1 DEF Links
    <2> QED BY Zenon, <2>1, <2>2, <2>3, <2>4 DEF Links
<1>6. Ownership'
    BY Zenon, <1>0, <1>1 DEF Ownership, MutualExclusion, LockHasOwner, Cancelled
<1> QED BY Zenon, <1>2, <1>3, <1>4, <1>5, <1>6 DEF IInv

\* A cancellation callback takes its coroutine out of the list it waits in.
LEMMA CancelCallbackIInv == ASSUME IInv, CancelCallback PROVE IInv'
<1> USE DEF loopVars, cancelVars
<1> DEFINE d == Head(regs[cancelling])
           wakes == CASE awaiting[d] = "mutex" -> TRUE
                      [] awaiting[d] = "cv"    -> d \in Range(cvWaiters)
                      [] OTHER                 -> d \in sleeping
<1>0. /\ cancelling # None /\ regs[cancelling] # <<>>
      /\ regs' = [regs EXCEPT ![cancelling] = Tail(@)]
      /\ waiters' = IF awaiting[d] = "mutex" THEN Unlink(waiters, d) ELSE waiters
      /\ cvWaiters' = IF awaiting[d] = "cv" THEN Unlink(cvWaiters, d) ELSE cvWaiters
      /\ sleeping' = IF awaiting[d] = "timer" THEN sleeping \ {d} ELSE sleeping
      /\ wake' = IF wakes THEN Append(wake, d) ELSE wake
      /\ UNCHANGED <<loopVars, nodes, stack, state, awaiting, cancelVars,
                     locked, holds, handed, orphaned>>
    BY Zenon DEF CancelCallback
<1>1. /\ cancelling \in Tokens /\ cancelling \in requested
      /\ regs[cancelling] \in Seq(Coros) /\ IsInjective(regs[cancelling])
    BY Zenon, <1>0 DEF IInv, TypeOK, Unique, Links
<1>2. d \in Coros /\ d \in Range(regs[cancelling]) BY Zenon, <1>0, <1>1, HeadInRange
<1>3. /\ Tail(regs[cancelling]) \in Seq(Coros)
      /\ Range(Tail(regs[cancelling])) = Range(regs[cancelling]) \ {d}
      /\ IsInjective(Tail(regs[cancelling]))
    BY Zenon, <1>0, <1>1, TailFacts
<1> HIDE DEF d, wakes
<1>4. Places /\ Links /\ Ownership BY Zenon DEF IInv
<1>5. /\ regs' \in [Tokens -> Seq(Coros)]
      /\ \A t \in Tokens :
            /\ IsInjective(regs'[t])
            /\ Range(regs'[t]) = IF t = cancelling THEN Range(regs[t]) \ {d}
                                 ELSE Range(regs[t])
    BY Zenon, <1>0, <1>1, <1>3 DEF IInv, TypeOK, Unique
<1>6. /\ TokenOf[d] = cancelling /\ state[d] = "suspended"
      /\ awaiting[d] \in {"mutex", "cv", "timer"}
      /\ awaiting[d] = "mutex" => d \in Range(waiters)
    BY Zenon, <1>1, <1>2, <1>4 DEF Links, Places, IInv, TypeOK
<1>7. \A t \in Tokens : Range(regs'[t]) = Range(regs[t]) \ {d}
    <2>1. ASSUME NEW t \in Tokens, t # cancelling PROVE d \notin Range(regs[t])
        BY Zenon, <2>1, <1>4, <1>6 DEF Links
    <2> QED BY Zenon, <2>1, <1>5
<1>8. /\ waiters' \in Seq(Coros) /\ IsInjective(waiters')
      /\ Range(waiters') = Range(waiters) \ {d}
    <2>1. waiters \in Seq(Coros) /\ IsInjective(waiters) BY Zenon DEF IInv, TypeOK, Unique
    <2>2. CASE awaiting[d] = "mutex" BY Zenon, <1>0, <2>1, <2>2, UnlinkFacts
    <2>3. CASE awaiting[d] # "mutex"
        <3>1. d \notin Range(waiters) BY Zenon, <1>4, <2>3 DEF Places
        <3> QED BY Zenon, <1>0, <2>1, <2>3, <3>1
    <2> QED BY Zenon, <2>2, <2>3
<1>9. /\ cvWaiters' \in Seq(Coros) /\ IsInjective(cvWaiters')
      /\ Range(cvWaiters') = Range(cvWaiters) \ {d}
    <2>1. cvWaiters \in Seq(Coros) /\ IsInjective(cvWaiters) BY Zenon DEF IInv, TypeOK, Unique
    <2>2. CASE awaiting[d] = "cv" BY Zenon, <1>0, <2>1, <2>2, UnlinkFacts
    <2>3. CASE awaiting[d] # "cv"
        <3>1. d \notin Range(cvWaiters) BY Zenon, <1>4, <2>3 DEF Places
        <3> QED BY Zenon, <1>0, <2>1, <2>3, <3>1
    <2> QED BY Zenon, <2>2, <2>3
<1>10. sleeping' = sleeping \ {d}
    BY <1>0, <1>4 DEF Places
<1>11. wakes <=> d \in Range(waiters) \cup Range(cvWaiters) \cup sleeping
    BY Zenon, <1>4, <1>6 DEF wakes, Places
<1>12. /\ wake' \in Seq(Coros) /\ IsInjective(wake')
       /\ Range(wake') = IF wakes THEN Range(wake) \cup {d} ELSE Range(wake)
    <2>1. wake \in Seq(Coros) /\ IsInjective(wake) BY Zenon DEF IInv, TypeOK, Unique
    <2>2. CASE wakes
        <3>1. d \notin Range(wake) BY Zenon, <1>4, <1>11, <2>2 DEF Places
        <3>2. wake' = Append(wake, d) BY Zenon, <1>0, <2>2
        <3> QED BY <1>2, <2>1, <2>2, <3>1, <3>2, AppendFacts
    <2>3. CASE ~wakes BY Zenon, <1>0, <2>1, <2>3
    <2> QED BY Zenon, <2>2, <2>3
<1>13. UNCHANGED <<phase, queue, functions, nodes, stack, state, awaiting, requested,
                   cancelling, locked, holds, handed, orphaned>>
    BY Zenon, <1>0
<1> HIDE DEF wakes
<1>14. TypeOK' BY Zenon, <1>0, <1>5, <1>8, <1>9, <1>10, <1>12 DEF IInv, TypeOK
<1>15. Unique' BY Zenon, <1>5, <1>8, <1>9, <1>12, <1>13 DEF IInv, Unique
<1>16. Places'
    <2>1. Range(waiters') \cup Range(cvWaiters') \cup sleeping'
             \cup Range(nodes') \cup Range(wake')
          = Range(waiters) \cup Range(cvWaiters) \cup sleeping
             \cup Range(nodes) \cup Range(wake)
        BY Zenon, <1>8, <1>9, <1>10, <1>11, <1>12, <1>13
    <2>2. Range(wake') \cap (Range(waiters') \cup Range(cvWaiters') \cup sleeping'
                                \cup Range(nodes')) = {}
        <3>1. ASSUME wakes PROVE d \notin Range(nodes)
            <4>1. CASE d \in sleeping BY Zenon, <4>1, <1>4 DEF Places
            <4>2. CASE d \in Range(waiters) \cup Range(cvWaiters)
                BY Zenon, <4>2, <1>4 DEF Places
            <4> QED BY Zenon, <3>1, <4>1, <4>2, <1>11
        <3>2. Range(wake) \cap (Range(waiters) \cup Range(cvWaiters) \cup sleeping
                                  \cup Range(nodes)) = {}
            BY Zenon, <1>4 DEF Places
        <3> QED BY Zenon, <3>1, <3>2, <1>8, <1>9, <1>10, <1>12, <1>13
    <2>3. /\ Range(waiters') \subseteq Range(waiters)
          /\ Range(cvWaiters') \subseteq Range(cvWaiters)
          /\ sleeping' \subseteq sleeping
        BY Zenon, <1>8, <1>9, <1>10
    <2> QED BY Zenon, <2>1, <2>2, <2>3, <1>4, <1>13 DEF Places
<1>17. Links'
    <2>1. ASSUME NEW t \in Tokens, NEW x \in Range(regs'[t])
          PROVE  /\ TokenOf[x] = t /\ state'[x] = "suspended"
                 /\ awaiting'[x] = "mutex" => x \in Range(waiters')
        <3>1. x \in Range(regs[t]) /\ x # d BY Zenon, <1>7
        <3> QED BY Zenon, <3>1, <1>4, <1>8, <1>13 DEF Links
    <2>2. ASSUME NEW t \in requested, t # cancelling PROVE Range(regs'[t]) = {}
        <3>1. t \in Tokens /\ Range(regs[t]) = {} BY Zenon, <2>2, <1>4 DEF Links, IInv, TypeOK
        <3> QED BY Zenon, <3>1, <1>7
    <2>3. ASSUME NEW x \in Range(waiters') \cup Range(cvWaiters') \cup sleeping',
                 TokenOf[x] \in Tokens
          PROVE  x \in Range(regs'[TokenOf[x]])
        <3>1. x # d /\ x \in Range(waiters) \cup Range(cvWaiters) \cup sleeping
            BY Zenon, <2>3, <1>8, <1>9, <1>10
        <3> QED BY <2>3, <3>1, <1>4, <1>7 DEF Links
    <2> QED BY Zenon, <2>1, <2>2, <2>3, <1>4, <1>13 DEF Links
<1>18. Ownership'
    <2>1. handed \subseteq Range(wake') BY Zenon, <1>4, <1>12 DEF Ownership
    <2>2. \A x \in Range(wake') :
             awaiting[x] = "mutex" /\ x \notin handed => Cancelled(x)
        BY Zenon, <1>1, <1>4, <1>6, <1>12 DEF Ownership, Cancelled
    <2>3. waiters' # <<>> => waiters # <<>>
        <3>1. waiters \in Seq(Coros) /\ waiters' \in Seq(Coros) BY Zenon, <1>8 DEF IInv, TypeOK
        <3> QED BY Zenon, <3>1, <1>8, EmptyRange
    <2> QED BY Zenon, <2>1, <2>2, <2>3, <1>4, <1>13
            DEF Ownership, MutualExclusion, LockHasOwner, Cancelled
<1> QED BY Zenon, <1>14, <1>15, <1>16, <1>17, <1>18 DEF IInv

\* Every step keeps the invariant.
LEMMA NextIInv == IInv /\ [Next]_vars => IInv'
<1> SUFFICES ASSUME IInv, [Next]_vars PROVE IInv' BY Zenon
<1>1. CASE SchedulerStep
    BY Zenon, <1>1, LoopIInv, TakeFunctionsIInv, RunFunctionIInv, ResumeTimerIInv,
       ResumeWokenIInv DEF SchedulerStep
<1>2. CASE CancelStep BY Zenon, <1>2, LoopIInv, CancelCallbackIInv DEF CancelStep
<1>3. CASE Stop BY Zenon, <1>3, LoopIInv
<1>4. ASSUME NEW c \in Coros, PostStart(c) \/ CollectTimer(c) PROVE IInv'
    BY Zenon, <1>4, PostStartIInv, CollectTimerIInv
<1>5. ASSUME NEW c \in Coros, CoroutineStep(c) PROVE IInv'
    BY Zenon, <1>5, LockFreeIInv, LockWaitIInv, UnlockIInv, FinishIInv, WaitIInv,
       NotifyOneIInv, NotifyAllIInv, SleepIInv, StartNestedIInv,
       RequestCancellationIInv DEF CoroutineStep
<1>6. CASE UNCHANGED vars
    <2> USE <1>6 DEF vars, loopVars, cancelVars, mutexVars
    <2>1. TypeOK' BY Zenon DEF IInv, TypeOK
    <2>2. Unique' BY Zenon DEF IInv, Unique
    <2>3. Places' BY Zenon DEF IInv, Places
    <2>4. Links' BY Zenon DEF IInv, Links
    <2>5. Ownership'
        BY Zenon DEF IInv, Ownership, MutualExclusion, LockHasOwner, Cancelled
    <2> QED BY Zenon, <2>1, <2>2, <2>3, <2>4, <2>5 DEF IInv
<1> QED BY Zenon, <1>1, <1>2, <1>3, <1>4, <1>5, <1>6 DEF Next

\* The inductive invariant holds in every reachable state.
THEOREM Invariance == Spec => []IInv
BY InitIInv, NextIInv, PTL DEF Spec

-----------------------------------------------------------------------------
\* Every variable keeps its type.
THEOREM TypeCorrect == Spec => []TypeOK
<1>1. IInv => TypeOK BY Zenon DEF IInv
<1> QED BY <1>1, Invariance, PTL

\* A waiting coroutine is in one of the scheduler's or primitives' lists, and
\* there once, for any number of coroutines: no wait primitive loses a handle
\* and none lets it be resumed twice, cancelled or not.
THEOREM OneResumption == Spec => []ExactlyOneResumption
<1>1. IInv => ExactlyOneResumption
    <2> SUFFICES ASSUME IInv PROVE ExactlyOneResumption BY Zenon
    <2> DEFINE places == <<Range(waiters), Range(cvWaiters), sleeping,
                           Range(nodes), Range(wake)>>
    <2>1. UNION Range(places) = Range(waiters) \cup Range(cvWaiters) \cup sleeping
                                   \cup Range(nodes) \cup Range(wake)
        BY DEF Range
    <2>2. Places BY Zenon DEF IInv
    <2>3. {c \in Coros : state[c] = "suspended"} = UNION Range(places)
        BY Zenon, <2>1, <2>2, Subsets DEF Places
    <2>4. \A i, j \in 1..5 : i # j => places[i] \cap places[j] = {}
        <3>1. /\ Range(waiters) \cap Range(cvWaiters) = {}
              /\ Range(waiters) \cap sleeping = {}
              /\ Range(waiters) \cap Range(nodes) = {}
              /\ Range(waiters) \cap Range(wake) = {}
              /\ Range(cvWaiters) \cap sleeping = {}
              /\ Range(cvWaiters) \cap Range(nodes) = {}
              /\ Range(cvWaiters) \cap Range(wake) = {}
              /\ sleeping \cap Range(nodes) = {}
              /\ sleeping \cap Range(wake) = {}
              /\ Range(nodes) \cap Range(wake) = {}
            BY Zenon, <2>2 DEF Places
        <3>2. SUFFICES ASSUME NEW i \in 1..5, NEW j \in 1..5, i < j
                       PROVE  places[i] \cap places[j] = {}
            OBVIOUS
        <3>3. i \in {1, 2, 3, 4} /\ j \in {2, 3, 4, 5} BY <3>2
        <3>4. CASE i = 1 BY <3>1, <3>3, <3>4
        <3>5. CASE i = 2 BY <3>1, <3>2, <3>3, <3>5
        <3>6. CASE i = 3 BY <3>1, <3>2, <3>3, <3>6
        <3>7. CASE i = 4 BY <3>1, <3>2, <3>3, <3>7
        <3> QED BY Zenon, <3>3, <3>4, <3>5, <3>6, <3>7
    <2> QED BY Zenon, <2>3, <2>4 DEF ExactlyOneResumption, IInv, Unique
<1> QED BY <1>1, Invariance, PTL

\* At most one coroutine owns the mutex or has been handed it.
THEOREM MutexExclusive == Spec => []MutualExclusion
<1>1. IInv => MutualExclusion BY Zenon DEF IInv, Ownership
<1> QED BY <1>1, Invariance, PTL

\* locked_ without an owner only after a hand-off met a cancelled token.
THEOREM MutexOwned == Spec => []LockHasOwner
<1>1. IInv => LockHasOwner BY Zenon DEF IInv, Ownership
<1> QED BY <1>1, Invariance, PTL

\* request_cancellation reaches every waiter under its token.
THEOREM CancelReaches == Spec => []CancelReachesWaiters
<1>1. IInv => CancelReachesWaiters
    <2> SUFFICES ASSUME IInv, NEW c \in Coros, state[c] = "suspended",
                        Cancelled(c), cancelling # TokenOf[c]
                 PROVE  c \in Range(wake) \cup Range(nodes)
        BY Zenon DEF CancelReachesWaiters
    <2>1. TokenOf[c] \in Tokens /\ Range(regs[TokenOf[c]]) = {}
        BY Zenon DEF IInv, TypeOK, Links, Cancelled
    <2>2. c \notin Range(waiters) \cup Range(cvWaiters) \cup sleeping
        BY Zenon, <2>1 DEF IInv, Links
    <2> QED BY Zenon, <2>2 DEF IInv, Places
<1> QED BY <1>1, Invariance, PTL

\* A coroutine that takes a free mutex overtakes nobody.
THEOREM NobodyOvertaken == Spec => NoBarging
<1> DEFINE Fair(c) == c \in holds' \ holds /\ c \notin handed
                        => waiters = <<>> /\ handed = {}
<1>1. ASSUME IInv, [Next]_vars, NEW c \in Coros PROVE Fair(c)
    <2> SUFFICES ASSUME c \in holds' \ holds, c \notin handed
                 PROVE  waiters = <<>> /\ handed = {}
        BY Zenon
    <2> USE DEF loopVars, cancelVars, mutexVars
    <2>1. ASSUME AwaitResume(c), c \in Range(wake) \cup Range(nodes) PROVE FALSE
        <3>1. awaiting[c] = "mutex" /\ ~Cancelled(c) BY Zenon, <2>1 DEF AwaitResume
        <3> QED BY Zenon, <1>1, <2>1, <3>1 DEF IInv, Ownership, Places
    <2>2. ASSUME NEW d \in Coros, AwaitResume(d), d \in Range(wake) \cup Range(nodes)
          PROVE  FALSE
        <3>1. d = c BY Zenon, <2>2 DEF AwaitResume
        <3> QED BY Zenon, <2>1, <2>2, <3>1
    <2>3. ~ResumeTimer /\ ~ResumeWoken
        <3>1. ASSUME ResumeTimer PROVE FALSE
            <4>1. Head(nodes) \in Coros /\ Head(nodes) \in Range(nodes)
                BY Zenon, <1>1, <3>1, HeadInRange DEF ResumeTimer, IInv, TypeOK
            <4> QED BY Zenon, <3>1, <4>1, <2>2 DEF ResumeTimer
        <3>2. ASSUME ResumeWoken PROVE FALSE
            <4>1. Head(wake) \in Coros /\ Head(wake) \in Range(wake)
                BY Zenon, <1>1, <3>2, HeadInRange DEF ResumeWoken, IInv, TypeOK
            <4> QED BY Zenon, <3>2, <4>1, <2>2 DEF ResumeWoken
        <3> QED BY Zenon, <3>1, <3>2
    <2>4. ASSUME NEW d \in Coros, LockFree(d) PROVE waiters = <<>> /\ handed = {}
        <3>1. ~locked BY Zenon, <2>4 DEF LockFree
        <3> QED BY Zenon, <1>1, <3>1 DEF IInv, Ownership, LockHasOwner
    <2>5. CASE SchedulerStep
        BY Zenon, <2>3, <2>5 DEF SchedulerStep, LoopTest, TakeFunctions, WaitTimeout,
           RunFunction, FunctionsDone, CollectDone, TimersDone, WakeDone
    <2>6. CASE CancelStep \/ Stop
        BY Zenon, <2>6 DEF CancelStep, CancelCallback, CancelDone, Stop
    <2>7. ASSUME NEW d \in Coros, PostStart(d) \/ CollectTimer(d) PROVE FALSE
        BY Zenon, <2>7 DEF PostStart, CollectTimer
    <2>8. ASSUME NEW d \in Coros, Unlock(d) \/ Finish(d) PROVE FALSE
        BY SMTT(30), <2>8 DEF Unlock, Finish, Release
    <2>9. ASSUME NEW d \in Coros, \/ LockWait(d) \/ Wait(d) \/ NotifyOne(d)
                                  \/ NotifyAll(d) \/ Sleep(d)
                                  \/ \E e \in Coros : StartNested(d, e)
                                  \/ \E t \in Tokens : RequestCancellation(d, t)
          PROVE  FALSE
        BY Zenon, <2>9 DEF LockWait, Wait, NotifyOne, NotifyAll, Sleep, StartNested,
           RequestCancellation
    <2>10. CASE UNCHANGED vars BY Zenon, <2>10 DEF vars
    <2> QED BY Zenon, <1>1, <2>4, <2>5, <2>6, <2>7, <2>8, <2>9, <2>10 DEF Next, CoroutineStep
<1>2. IInv /\ [Next]_vars => [\A c \in Coros : Fair(c)]_vars BY Zenon, <1>1
<1> QED BY <1>2, Invariance, PTL DEF Spec, NoBarging
-----------------------------------------------------------------------------
(* The sessions of the async system: AsyncSession for any coroutines,      *)
(* workers and sessions.  Its variables that have the name of one of       *)
(* CoroSync's are renamed.                                                 *)

CONSTANTS Cancellable, Workers, MaxSession

VARIABLES
    session, running, astate, mine, cancelled, registered, wait_map, value, posted, awake,
    jobs, wpc, job, astop

A == INSTANCE AsyncSession WITH state <- astate, wake <- awake, stop <- astop

\* What AsyncSession assumes of its constants.
SessionConstants == Cancellable \subseteq Coros /\ MaxSession \in Nat /\ None \notin Coros \cup Nat

\* The awaiters: who has one, and that no two share a session.
Awaiters ==
    /\ \A c \in Coros : astate[c] \in {"created", "resumed"} <=> running = c
    /\ \A c \in Coros : mine[c] = None <=> astate[c] = "idle"
    /\ \A c \in Coros : mine[c] # None => mine[c] <= session
    /\ \A c, d \in Coros : mine[c] = mine[d] /\ mine[c] # None => c = d

\* Where the handle of a waiting coroutine is.
Tracked ==
    /\ IsInjective(awake)
    /\ \A c \in Range(awake) : astate[c] = "waiting" /\ c \in cancelled
    /\ \A s \in A!Sessions : wait_map[s] # None =>
          /\ astate[wait_map[s]] = "waiting" /\ mine[wait_map[s]] = s
          /\ wait_map[s] \notin Range(awake)
    /\ \A c \in Coros : astate[c] = "waiting" => wait_map[mine[c]] = c \/ c \in Range(awake)
    /\ \A c \in registered : astate[c] \in {"waiting", "resumed"}

\* A wake-up follows its result.
Results ==
    /\ posted \in Seq(value)
    /\ \A w \in Workers : wpc[w] = "wake" => job[w] \in value
    /\ \A w \in Workers : wpc[w] = "set" => job[w] \in A!Sessions
    /\ \A c \in Coros : astate[c] = "resumed" /\ c \notin cancelled => mine[c] \in value

SInv == A!TypeOK /\ Awaiters /\ Tracked /\ Results

-----------------------------------------------------------------------------
\* Taking over the front of a queue (RunPosted, WorkerWait).
LEMMA FrontOf ==
    ASSUME NEW S, NEW s \in Seq(S), s # <<>>
    PROVE  Head(s) \in S /\ Tail(s) \in Seq(S)
BY TailIndex

\* Nobody waits at the start.
LEMMA SessionInit == ASSUME SessionConstants, A!Init PROVE SInv
<1>1. A!TypeOK
    <2>1. session \in 0..MaxSession BY DEF SessionConstants, A!Init
    <2>2. posted \in Seq(A!Sessions) /\ awake \in Seq(Coros) /\ jobs \in Seq(A!Sessions) BY DEF A!Init
    <2>3. astop \in BOOLEAN BY DEF A!Init
    <2>4. astate \in [Coros -> {"idle", "created", "waiting", "resumed"}]
          /\ wpc \in [Workers -> {"test", "wait", "set", "wake", "exit"}]
        BY DEF A!Init
    <2> QED BY <2>1, <2>2, <2>3, <2>4 DEF A!Init, A!TypeOK
<1>2. Awaiters
    <2>1. \A c \in Coros : astate[c] = "idle" /\ mine[c] = None /\ running # c
        BY DEF SessionConstants, A!Init
    <2> QED BY <2>1 DEF Awaiters
<1>3. Range(awake) = {} /\ IsInjective(awake) BY EmptyFacts DEF A!Init
<1>4. Tracked
    <2>1. \A s \in A!Sessions : wait_map[s] = None BY DEF A!Init
    <2>2. \A c \in Coros : astate[c] # "waiting" BY DEF A!Init
    <2>3. registered = {} BY DEF A!Init
    <2> QED BY <1>3, <2>1, <2>2, <2>3 DEF Tracked
<1>5. Results BY DEF A!Init, Results
<1> QED BY <1>1, <1>2, <1>4, <1>5 DEF SInv

\* The coroutines in wake_up_coroutine_ are coroutines.
LEMMA WakeRange ==
    ASSUME A!TypeOK
    PROVE  Range(awake) \subseteq Coros
BY RangeDef DEF A!TypeOK

\* A coroutine makes an awaiter with a session nobody has.
LEMMA CreateInv ==
    ASSUME SessionConstants, SInv, NEW c \in Coros, A!CreateAndPost(c)
    PROVE  SInv'
<1> DEFINE n == session + 1
<1>0. /\ running = None /\ astate[c] = "idle" /\ session' = n /\ running' = c
      /\ mine' = [mine EXCEPT ![c] = n] /\ astate' = [astate EXCEPT ![c] = "created"]
      /\ jobs' = Append(jobs, n)
      /\ UNCHANGED <<cancelled, registered, wait_map, awake, value, posted, wpc, job, astop>>
    BY DEF A!CreateAndPost
<1>1. n \in A!Sessions /\ session \in Nat /\ n \in 0..MaxSession /\ n # None
    BY DEF SessionConstants, SInv, A!CreateAndPost, A!TypeOK, A!Sessions
<1>2. \A d \in Coros : mine[d] # n /\ (mine[d] # None => mine[d] <= n)
    BY <1>1 DEF SessionConstants, SInv, A!TypeOK, Awaiters, A!Sessions
<1>3. n <= n BY <1>1
<1> HIDE DEF n
<1>4. A!TypeOK' BY <1>0, <1>1 DEF SInv, A!TypeOK
<1>5. Awaiters'
    <2>1. \A d \in Coros : astate'[d] \in {"created", "resumed"} <=> running' = d
        BY <1>0 DEF SessionConstants, SInv, A!TypeOK, Awaiters
    <2>2. \A d \in Coros : mine'[d] = None <=> astate'[d] = "idle"
        BY <1>0, <1>1 DEF SInv, A!TypeOK, Awaiters
    <2>3. \A d \in Coros : mine'[d] # None => mine'[d] <= session'
        BY <1>0, <1>2, <1>3 DEF SInv, A!TypeOK
    <2>4. \A d, e \in Coros : mine'[d] = mine'[e] /\ mine'[d] # None => d = e
        BY <1>0, <1>2 DEF SInv, A!TypeOK, Awaiters
    <2> QED BY <2>1, <2>2, <2>3, <2>4 DEF Awaiters
<1>6. c \notin Range(awake) /\ c \notin registered /\ \A s \in A!Sessions : wait_map[s] # c
    BY <1>0 DEF SessionConstants, SInv, Tracked
<1>7. Tracked' BY <1>0, <1>6, WakeRange DEF SInv, Tracked, A!TypeOK
<1>8. Results' BY <1>0 DEF SInv, Results, A!TypeOK
<1> QED BY <1>4, <1>5, <1>7, <1>8 DEF SInv

\* The awaiter of the coroutine in control, one that is in no list, goes.
LEMMA DropInv ==
    ASSUME SessionConstants, SInv, NEW c \in Coros, running = c, A!Drop(c),
           c \notin Range(awake), \A s \in A!Sessions : wait_map[s] # c,
           registered' = registered \ {c},
           UNCHANGED <<session, cancelled, wait_map, awake, value, posted, A!poolVars>>
    PROVE  SInv'
<1> USE DEF A!Drop, A!poolVars
<1>1. A!TypeOK' BY DEF SInv, A!TypeOK
<1>2. Awaiters'
    <2>1. \A d \in Coros : astate'[d] \in {"created", "resumed"} <=> running' = d
        BY DEF SessionConstants, SInv, A!TypeOK, Awaiters
    <2>2. \A d \in Coros : mine'[d] = None <=> astate'[d] = "idle"
        BY DEF SInv, A!TypeOK, Awaiters
    <2>3. \A d \in Coros : mine'[d] # None => mine'[d] <= session'
        BY DEF SInv, A!TypeOK, Awaiters
    <2>4. \A d, e \in Coros : mine'[d] = mine'[e] /\ mine'[d] # None => d = e
        BY DEF SInv, A!TypeOK, Awaiters
    <2> QED BY <2>1, <2>2, <2>3, <2>4 DEF Awaiters
<1>3. Tracked' BY WakeRange DEF SInv, Tracked, A!TypeOK
<1>4. Results' BY DEF SInv, Results, A!TypeOK
<1> QED BY <1>1, <1>2, <1>3, <1>4 DEF SInv

\* A coroutine suspends, or throws because it was cancelled before.
LEMMA AwaitInv ==
    ASSUME SessionConstants, SInv, NEW c \in Coros, A!Await(c)
    PROVE  SInv'
<1>0. /\ mine[c] \in A!Sessions /\ c \notin Range(awake) /\ c \notin registered
      /\ \A s \in A!Sessions : wait_map[s] # c
    BY DEF SessionConstants, SInv, A!Await, A!TypeOK, Awaiters, Tracked
<1>1. CASE c \in cancelled
    <2>1. registered' = registered \ {c} BY <1>0, <1>1 DEF A!Await
    <2> QED BY <1>0, <1>1, <2>1, DropInv DEF A!Await
<1>2. CASE c \notin cancelled
    <2>0. /\ running = c /\ running' = None /\ astate[c] = "created"
          /\ astate' = [astate EXCEPT ![c] = "waiting"]
          /\ registered' = registered \cup (Cancellable \cap {c})
          /\ wait_map' = [wait_map EXCEPT ![mine[c]] = c]
          /\ UNCHANGED <<session, mine, cancelled, awake, value, posted, jobs, wpc, job, astop>>
        BY <1>2 DEF A!Await, A!poolVars
    <2>1. A!TypeOK' BY <1>0, <2>0 DEF SInv, A!TypeOK
    <2>2. Awaiters'
        <3>1. \A d \in Coros : astate'[d] \in {"created", "resumed"} <=> running' = d
            BY <2>0 DEF SessionConstants, SInv, A!TypeOK, Awaiters
        <3>2. \A d \in Coros : mine'[d] = None <=> astate'[d] = "idle"
            BY <2>0 DEF SInv, A!TypeOK, Awaiters
        <3> QED BY <2>0, <3>1, <3>2 DEF SInv, Awaiters
    <2>3. mine[c] # None /\ \A d \in Coros : mine[d] = mine[c] => d = c
        BY <1>0 DEF SessionConstants, SInv, Awaiters, A!Sessions
    <2>4. Tracked'
        <3>1. \A d \in Range(awake') : astate'[d] = "waiting" /\ d \in cancelled'
            BY <2>0, WakeRange DEF SInv, Tracked, A!TypeOK
        <3>2. \A s \in A!Sessions : wait_map'[s] # None =>
                /\ astate'[wait_map'[s]] = "waiting" /\ mine'[wait_map'[s]] = s
                /\ wait_map'[s] \notin Range(awake')
            BY <1>0, <2>0 DEF SInv, Tracked, A!TypeOK
        <3>3. \A d \in Coros : astate'[d] = "waiting" => wait_map'[mine'[d]] = d \/ d \in Range(awake')
            BY <1>0, <2>0, <2>3 DEF SInv, Tracked, A!TypeOK, Awaiters
        <3>4. \A d \in registered' : astate'[d] \in {"waiting", "resumed"}
            BY <2>0 DEF SessionConstants, SInv, Tracked, A!TypeOK
        <3> QED BY <2>0, <3>1, <3>2, <3>3, <3>4 DEF SInv, Tracked
    <2>5. Results' BY <2>0 DEF SInv, Results, A!TypeOK
    <2> QED BY <2>1, <2>2, <2>4, <2>5 DEF SInv
<1> QED BY <1>1, <1>2

\* A posted lookup resumes the coroutine that still waits for its session.
LEMMA RunPostedInv ==
    ASSUME SessionConstants, SInv, A!RunPosted
    PROVE  SInv'
<1> USE DEF SInv
<1> DEFINE s == Head(posted)
<1>0. s \in value /\ s \in A!Sessions /\ posted' \in Seq(value) /\ posted' \in Seq(A!Sessions)
    BY FrontOf DEF A!RunPosted, Results, A!TypeOK
<1>1. CASE wait_map[s] = None
    <2> USE <1>1 DEF A!RunPosted, A!poolVars
    <2>1. A!TypeOK' BY <1>0 DEF A!TypeOK
    <2>2. Awaiters' BY DEF Awaiters
    <2>3. Tracked' BY DEF Tracked
    <2>4. Results' BY <1>0 DEF Results
    <2> QED BY <2>1, <2>2, <2>3, <2>4
<1>2. CASE wait_map[s] # None
    <2> DEFINE c == wait_map[s]
    <2>0. c \in Coros /\ astate[c] = "waiting" /\ mine[c] = s /\ c \notin Range(awake)
        BY <1>0, <1>2 DEF A!TypeOK, Tracked
    <2>a. /\ running = None /\ running' = c /\ astate' = [astate EXCEPT ![c] = "resumed"]
          /\ wait_map' = [wait_map EXCEPT ![s] = None]
          /\ UNCHANGED <<session, mine, cancelled, registered, awake, value, jobs, wpc, job, astop>>
        BY <1>2 DEF A!RunPosted, A!Resume, A!poolVars
    <2> HIDE DEF c, s
    <2>1. A!TypeOK' BY <1>0, <2>0, <2>a DEF A!TypeOK
    <2>2. Awaiters' BY <2>0, <2>a DEF SessionConstants, A!TypeOK, Awaiters
    <2>3. \A d \in Coros : mine[d] = s => d = c
        BY <1>0, <2>0 DEF SessionConstants, Awaiters, A!Sessions
    <2>4. Tracked' BY <1>0, <2>0, <2>3, <2>a, RangeDef DEF SessionConstants, Tracked, A!TypeOK
    <2>5. Results' BY <1>0, <2>0, <2>a DEF Results, A!TypeOK
    <2> QED BY <2>1, <2>2, <2>4, <2>5
<1> QED BY <1>1, <1>2

\* A cancelled coroutine is resumed from wake_up_coroutine_.
LEMMA RunWokenInv ==
    ASSUME SessionConstants, SInv, A!RunWoken
    PROVE  SInv'
<1> DEFINE c == Head(awake)
<1>0. /\ running = None /\ running' = c /\ astate' = [astate EXCEPT ![c] = "resumed"]
      /\ awake # <<>> /\ awake' = Tail(awake)
      /\ UNCHANGED <<session, mine, cancelled, registered, wait_map, value, posted, jobs, wpc, job, astop>>
    BY DEF A!RunWoken, A!Resume, A!poolVars
<1>1. /\ awake' \in Seq(Coros) /\ IsInjective(awake') /\ Range(awake') = Range(awake) \ {c}
      /\ c \in Range(awake) /\ c \in Coros
    BY <1>0, TailFacts, HeadInRange DEF SInv, A!TypeOK, Tracked
<1>2. astate[c] = "waiting" /\ c \in cancelled BY <1>1 DEF SInv, Tracked
<1> HIDE DEF c
<1>3. A!TypeOK' BY <1>0, <1>1 DEF SInv, A!TypeOK
<1>4. Awaiters'
    <2>1. \A d \in Coros : astate'[d] \in {"created", "resumed"} <=> running' = d
        BY <1>0, <1>1 DEF SessionConstants, SInv, A!TypeOK, Awaiters
    <2>2. \A d \in Coros : mine'[d] = None <=> astate'[d] = "idle"
        BY <1>0, <1>2 DEF SInv, A!TypeOK, Awaiters
    <2> QED BY <1>0, <2>1, <2>2 DEF SInv, Awaiters
<1>5. Tracked'
    <2>1. \A d \in Range(awake') : astate'[d] = "waiting" /\ d \in cancelled'
        BY <1>0, <1>1, WakeRange DEF SInv, Tracked, A!TypeOK
    <2>2. \A s \in A!Sessions : wait_map'[s] # None =>
            /\ astate'[wait_map'[s]] = "waiting" /\ mine'[wait_map'[s]] = s
            /\ wait_map'[s] \notin Range(awake')
        BY <1>0, <1>1 DEF SInv, Tracked, A!TypeOK
    <2>3. \A d \in Coros : astate'[d] = "waiting" => wait_map'[mine'[d]] = d \/ d \in Range(awake')
        BY <1>0, <1>1 DEF SInv, Tracked, A!TypeOK
    <2>4. \A d \in registered' : astate'[d] \in {"waiting", "resumed"}
        BY <1>0 DEF SessionConstants, SInv, Tracked, A!TypeOK
    <2> QED BY <1>1, <2>1, <2>2, <2>3, <2>4 DEF Tracked
<1>6. Results' BY <1>0, <1>2 DEF SInv, Results, A!TypeOK
<1> QED BY <1>3, <1>4, <1>5, <1>6 DEF SInv

\* A resumed coroutine leaves its awaiter.
LEMMA AwaitResumeInv ==
    ASSUME SessionConstants, SInv, NEW c \in Coros, A!AwaitResume(c)
    PROVE  SInv'
<1>1. c \notin Range(awake) /\ \A s \in A!Sessions : wait_map[s] # c
    BY DEF SessionConstants, SInv, A!AwaitResume, Tracked
<1> QED BY <1>1, DropInv DEF A!AwaitResume

\* The cancellation callback moves a waiting coroutine to wake_up_coroutine_.
LEMMA CancelInv ==
    ASSUME SessionConstants, SInv, NEW c \in Coros, A!Cancel(c)
    PROVE  SInv'
<1>0. /\ c \in Cancellable /\ c \notin cancelled /\ cancelled' = cancelled \cup {c}
      /\ registered' = registered \ {c} /\ running = None
      /\ UNCHANGED <<session, running, astate, mine, value, posted, jobs, wpc, job, astop>>
    BY DEF A!Cancel, A!poolVars
<1>1. c \notin Range(awake) BY <1>0 DEF SInv, Tracked
<1>2. Awaiters' BY <1>0 DEF SInv, Awaiters
<1>3. Results' BY <1>0 DEF SInv, Results
<1>4. CASE c \in registered /\ wait_map[mine[c]] # None
    <2>0. wait_map' = [wait_map EXCEPT ![mine[c]] = None] /\ awake' = Append(awake, c)
        BY <1>4 DEF A!Cancel
    <2>1. mine[c] \in A!Sessions /\ wait_map[mine[c]] = c /\ astate[c] = "waiting"
        <3>1. mine[c] \in A!Sessions
            BY <1>4 DEF SInv, Tracked, A!TypeOK, Awaiters
        <3>2. wait_map[mine[c]] \in Coros /\ mine[wait_map[mine[c]]] = mine[c]
              /\ astate[wait_map[mine[c]]] = "waiting"
            BY <1>4, <3>1 DEF SInv, Tracked, A!TypeOK
        <3>3. mine[c] # None BY <3>1 DEF SessionConstants, A!Sessions
        <3>4. wait_map[mine[c]] = c BY <3>2, <3>3 DEF SInv, Awaiters
        <3> QED BY <3>1, <3>2, <3>4
    <2>2. awake' \in Seq(Coros) /\ IsInjective(awake') /\ Range(awake') = Range(awake) \cup {c}
        BY <1>1, <2>0, AppendFacts DEF SInv, A!TypeOK, Tracked
    <2>3. A!TypeOK' BY <1>0, <2>0, <2>1, <2>2 DEF SInv, A!TypeOK
    <2>4. Tracked'
        <3>1. \A d \in Range(awake') : astate'[d] = "waiting" /\ d \in cancelled'
            BY <1>0, <2>1, <2>2 DEF SInv, Tracked
        <3>2. \A s \in A!Sessions : wait_map'[s] # None =>
                /\ astate'[wait_map'[s]] = "waiting" /\ mine'[wait_map'[s]] = s
                /\ wait_map'[s] \notin Range(awake')
            BY <1>0, <2>0, <2>1, <2>2 DEF SInv, Tracked, A!TypeOK
        <3>3. \A d \in Coros : astate'[d] = "waiting" => wait_map'[mine'[d]] = d \/ d \in Range(awake')
            BY <1>0, <2>0, <2>1, <2>2 DEF SInv, Tracked, A!TypeOK
        <3>4. \A d \in registered' : astate'[d] \in {"waiting", "resumed"}
            BY <1>0 DEF SInv, Tracked
        <3> QED BY <2>2, <3>1, <3>2, <3>3, <3>4 DEF Tracked
    <2> QED BY <1>2, <1>3, <2>3, <2>4 DEF SInv
<1>5. CASE ~(c \in registered /\ wait_map[mine[c]] # None)
    <2>0. UNCHANGED <<wait_map, awake>> BY <1>5 DEF A!Cancel
    <2>1. A!TypeOK' BY <1>0, <2>0 DEF SInv, A!TypeOK
    <2>2. Tracked' BY <1>0, <2>0 DEF SInv, Tracked
    <2> QED BY <1>2, <1>3, <2>1, <2>2 DEF SInv
<1> QED BY <1>4, <1>5

\* The pool: a worker posts a lookup only after it has set the result.
LEMMA PoolInv ==
    ASSUME SessionConstants, SInv, A!StopPool \/ \E w \in Workers : A!WorkerStep(w)
    PROVE  SInv'
<1> USE DEF A!schedVars
<1>1. CASE A!StopPool
    BY <1>1 DEF A!StopPool, SInv, A!TypeOK, Awaiters, Tracked, Results
<1>2. ASSUME NEW w \in Workers, A!WorkerStep(w) PROVE SInv'
    <2>0. UNCHANGED A!schedVars
        BY <1>2 DEF A!WorkerStep, A!WorkerTest, A!WorkerWait, A!WorkerSet, A!WorkerWake
    <2>1. Awaiters' /\ Tracked' BY <2>0 DEF SInv, Awaiters, Tracked
    <2>2. CASE A!WorkerTest(w)
        <3>1. A!TypeOK' BY <2>0, <2>2 DEF A!WorkerTest, SInv, A!TypeOK
        <3>2. Results' BY <2>0, <2>2 DEF A!WorkerTest, SInv, Results, A!TypeOK
        <3> QED BY <2>1, <3>1, <3>2 DEF SInv
    <2>3. CASE A!WorkerWait(w)
        <3>1. jobs # <<>> => Head(jobs) \in A!Sessions /\ Tail(jobs) \in Seq(A!Sessions)
            BY FrontOf DEF SInv, A!TypeOK
        <3>2. A!TypeOK' BY <2>0, <2>3, <3>1 DEF A!WorkerWait, SInv, A!TypeOK
        <3>3. Results' BY <2>0, <2>3, <3>1 DEF A!WorkerWait, SInv, Results, A!TypeOK
        <3> QED BY <2>1, <3>2, <3>3 DEF SInv
    <2>4. CASE A!WorkerSet(w)
        <3>1. job[w] \in A!Sessions /\ value \subseteq value' /\ value' \subseteq value \cup {job[w]}
            BY <2>4 DEF A!WorkerSet, SInv, Results
        <3>2. A!TypeOK' BY <2>0, <2>4, <3>1 DEF A!WorkerSet, SInv, A!TypeOK
        <3>3. posted' \in Seq(value') BY <2>4, <3>1, WiderSeq DEF A!WorkerSet, SInv, Results
        <3>4. Results' BY <2>0, <2>4, <3>1, <3>3 DEF A!WorkerSet, SInv, Results, A!TypeOK
        <3> QED BY <2>1, <3>2, <3>4 DEF SInv
    <2>5. CASE A!WorkerWake(w)
        <3>1. job[w] \in value /\ job[w] \in A!Sessions BY <2>5 DEF A!WorkerWake, SInv, Results, A!TypeOK
        <3>2. A!TypeOK' BY <2>0, <2>5, <3>1 DEF A!WorkerWake, SInv, A!TypeOK
        <3>3. Results' BY <2>0, <2>5, <3>1 DEF A!WorkerWake, SInv, Results, A!TypeOK
        <3> QED BY <2>1, <3>2, <3>3 DEF SInv
    <2> QED BY <1>2, <2>2, <2>3, <2>4, <2>5 DEF A!WorkerStep
<1> QED BY <1>1, <1>2

-----------------------------------------------------------------------------
\* The handles, the awaiters and the results of AsyncSession stay as IInv says.
THEOREM SessionInvariance ==
    ASSUME SessionConstants PROVE A!Spec => []SInv
<1>1. SInv /\ [A!Next]_(A!vars) => SInv'
    <2> SUFFICES ASSUME SInv, [A!Next]_(A!vars) PROVE SInv' OBVIOUS
    <2>1. CASE UNCHANGED A!vars
        BY <2>1 DEF A!vars, A!schedVars, A!poolVars, SInv, A!TypeOK, Awaiters, Tracked, Results
    <2>2. CASE A!Next
        BY <2>2, RunPostedInv, RunWokenInv, AwaitInv, AwaitResumeInv, CreateInv, CancelInv, PoolInv
        DEF A!Next, A!SchedulerStep
    <2> QED BY <2>1, <2>2
<1> QED BY SessionInit, <1>1, PTL DEF A!Spec

\* async_session.cpp: wherever a result and a cancellation meet, a waiting
\* coroutine has one handle to be resumed by, a coroutine that does not wait has
\* none, and one that is resumed without a cancellation has its result.
THEOREM SessionOneHandle ==
    ASSUME SessionConstants PROVE A!Spec => []A!OneHandle
<1>1. SInv => A!OneHandle
    <2> SUFFICES ASSUME SInv, NEW c \in Coros
                 PROVE  /\ A!TypeOK
                        /\ LET inMap == {s \in A!Sessions : wait_map[s] = c}
                               inWake == {i \in 1..Len(awake) : awake[i] = c}
                           IN /\ IF astate[c] = "waiting"
                                 THEN (inMap = {mine[c]} /\ inWake = {})
                                      \/ (inMap = {} /\ \E i \in inWake : inWake = {i})
                                 ELSE inMap = {} /\ inWake = {}
                              /\ astate[c] = "resumed" /\ c \notin cancelled => mine[c] \in value
        BY Zenon DEF A!OneHandle, SInv
    <2> DEFINE inMap == {s \in A!Sessions : wait_map[s] = c}
               inWake == {i \in 1..Len(awake) : awake[i] = c}
    <2>1. /\ Range(awake) = {awake[i] : i \in 1..Len(awake)}
          /\ \A i, j \in 1..Len(awake) : awake[i] = awake[j] => i = j
        BY RangeDef DEF SInv, A!TypeOK, Tracked
    <2>2. c \notin Range(awake) => inWake = {} BY <2>1
    <2>3. c \in Range(awake) => \E i \in inWake : inWake = {i} BY <2>1
    <2>4. astate[c] # "waiting" => inMap = {} /\ c \notin Range(awake)
        BY DEF SessionConstants, SInv, Tracked
    <2>5. astate[c] = "waiting" => mine[c] \in A!Sessions BY DEF SInv, A!TypeOK, Awaiters
    <2>6. \A s \in A!Sessions : wait_map[s] = c => s = mine[c] /\ c \notin Range(awake)
        BY DEF SessionConstants, SInv, Tracked
    <2>7. astate[c] = "waiting" /\ c \in Range(awake) => inMap = {} BY <2>6
    <2>8. astate[c] = "waiting" /\ c \notin Range(awake) => inMap = {mine[c]}
        BY <2>5, <2>6 DEF SInv, Tracked
    <2>9. astate[c] = "resumed" /\ c \notin cancelled => mine[c] \in value BY DEF SInv, Results
    <2> QED BY <2>2, <2>3, <2>4, <2>7, <2>8, <2>9 DEF SInv
<1> QED BY SessionInvariance, <1>1, PTL
=============================================================================
